----------------------------- MODULE AreasProofs -----------------------------
(***************************************************************************)
(* Proofs about areas (Areas.tla): no area has two owners, the file is     *)
(* partitioned and what is committed can be recovered, for any databases,  *)
(* file sizes, requests and crashes, on the schedules of NoCases.          *)
(***************************************************************************)
EXTENDS Areas, Integers, FiniteSetTheorems, WellFoundedInduction, TLAPS

(* A crash inside rollback() of a prepared transaction, and the return of a *)
(* chain with a stale end, are excluded.                                    *)
NoCases == Cases = {}

-----------------------------------------------------------------------------
(* The blocks of areas, and areas in the file that do not overlap; those of *)
(* S are single areas.                                                      *)
Of(sz, a) == a .. a + sz[a] - 1
Span(sz, N) == UNION {Of(sz, a) : a \in N}
Apart(sz, N) == \A a, b \in N : a # b => Of(sz, a) \cap Of(sz, b) = {}
Fit(sz, fs, N) ==
    \A a \in N : a \in 1 .. fs - 1 /\ sz[a] \in Nat \ {0} /\ a + sz[a] <= fs
Tidy(sz, fs, S, M) ==
    /\ S \cap M = {}
    /\ Apart(sz, S \cup M) /\ Fit(sz, fs, S \cup M)
    /\ \A a \in S : sz[a] = 1

(* N is what the links reach from h to t: all of it, and nothing twice. *)
Closed(nx, t, S) == \A a \in S \ {t} : nx[a] \in S
Seg(nx, h, t, N) ==
    /\ h \in N /\ t \in N
    /\ \A a \in N \ {t} : nx[a] \in N \ {h}
    /\ nx[t] \notin N
    /\ \A a, b \in N \ {t} : nx[a] = nx[b] => a = b
    /\ \A S \in SUBSET N : h \in S /\ Closed(nx, t, S) => S = N

(* Links that agree on some areas. *)
Same(f, g, N) == \A a \in N : g[a] = f[a]

(* A block is in the span of areas if it is one of an area's blocks. *)
LEMMA SpanIn == ASSUME NEW sz, NEW N, NEW x PROVE
    x \in Span(sz, N) <=> \E a \in N : x \in Of(sz, a)
  BY DEF Span

(* The first block of an area in the file is one of its blocks. *)
LEMMA SpanNode == ASSUME NEW sz, NEW fs \in Nat, NEW N, Fit(sz, fs, N) PROVE
    /\ N \subseteq Span(sz, N)
    /\ Span(sz, N) \subseteq 1 .. fs - 1
<1>1. ASSUME NEW a \in N PROVE a \in Of(sz, a) /\ Of(sz, a) \subseteq 1 .. fs - 1
  BY <1>1 DEF Of, Fit
<1> QED BY <1>1, SpanIn

(* The span of two sets of areas. *)
LEMMA SpanUnion == ASSUME NEW sz, NEW A, NEW B PROVE
    Span(sz, A \cup B) = Span(sz, A) \cup Span(sz, B)
  BY SpanIn

(* A subset of the areas has a part of the blocks. *)
LEMMA SpanSub == ASSUME NEW sz, NEW A, NEW B, A \subseteq B PROVE
    Span(sz, A) \subseteq Span(sz, B)
  BY SpanIn

(* No areas, no blocks. *)
LEMMA SpanNone == ASSUME NEW sz PROVE Span(sz, {}) = {}
  BY SpanIn

(* One area. *)
LEMMA SpanOne == ASSUME NEW sz, NEW a PROVE Span(sz, {a}) = Of(sz, a)
  BY SpanIn

(* Only the sizes of the areas themselves matter. *)
LEMMA SpanFrame == ASSUME NEW sz, NEW sy, NEW N, Same(sz, sy, N) PROVE
    Span(sy, N) = Span(sz, N)
<1>1. \A a \in N : Of(sy, a) = Of(sz, a) BY DEF Same, Of
<1> QED BY <1>1, SpanIn

(* A smaller set of areas has the rest of its blocks elsewhere. *)
LEMMA SpanMinus == ASSUME NEW sz, NEW N, NEW M, M \subseteq N, Apart(sz, N) PROVE
    /\ Span(sz, N \ M) \cap Span(sz, M) = {}
    /\ Span(sz, N \ M) \cup Span(sz, M) = Span(sz, N)
<1>1. Span(sz, N \ M) \cap Span(sz, M) = {} BY SpanIn DEF Apart
<1>2. Span(sz, (N \ M) \cup M) = Span(sz, N \ M) \cup Span(sz, M) BY SpanUnion
<1>3. (N \ M) \cup M = N OBVIOUS
<1> QED BY <1>1, <1>2, <1>3

(* Tidy areas stay so where their sizes stay and the file is as large. *)
LEMMA TidyFrame ==
    ASSUME NEW sz, NEW sy, NEW fs \in Nat, NEW fy \in Nat, NEW S, NEW M,
           Tidy(sz, fs, S, M), Same(sz, sy, S \cup M), fs <= fy
    PROVE  Tidy(sy, fy, S, M)
<1>1. \A a \in S \cup M : Of(sy, a) = Of(sz, a) /\ sy[a] = sz[a] BY DEF Same, Of
<1>2. Apart(sy, S \cup M) BY <1>1 DEF Tidy, Apart
<1>3. Fit(sy, fy, S \cup M)
  <2> SUFFICES ASSUME NEW a \in S \cup M
               PROVE  a \in 1 .. fy - 1 /\ sy[a] \in Nat \ {0} /\ a + sy[a] <= fy BY DEF Fit
  <2>1. a \in 1 .. fs - 1 /\ sz[a] \in Nat \ {0} /\ a + sz[a] <= fs BY DEF Tidy, Fit
  <2> QED BY <2>1, <1>1
<1>4. \A a \in S : sy[a] = 1 BY <1>1 DEF Tidy
<1> QED BY <1>2, <1>3, <1>4 DEF Tidy

(* Fewer areas are tidy. *)
LEMMA TidySub ==
    ASSUME NEW sz, NEW fs, NEW S, NEW M, Tidy(sz, fs, S, M),
           NEW A \in SUBSET S, NEW B \in SUBSET M
    PROVE  Tidy(sz, fs, A, B)
  BY DEF Tidy, Apart, Fit

(* Areas of two owners are tidy if the owners have no block in common. *)
LEMMA TidyUnion ==
    ASSUME NEW sz, NEW fs \in Nat, NEW S, NEW M, Tidy(sz, fs, S, M), NEW A, NEW B,
           Tidy(sz, fs, A, B), Span(sz, S \cup M) \cap Span(sz, A \cup B) = {}
    PROVE  Tidy(sz, fs, S \cup A, M \cup B)
<1>1. Fit(sz, fs, (S \cup A) \cup (M \cup B)) BY DEF Tidy, Fit
<1>2. (S \cup M) \subseteq Span(sz, S \cup M) /\ (A \cup B) \subseteq Span(sz, A \cup B)
  BY SpanNode DEF Tidy
<1>3. (S \cup A) \cap (M \cup B) = {} BY <1>2 DEF Tidy
<1>4. \A a \in S \cup M, b \in A \cup B : Of(sz, a) \cap Of(sz, b) = {} BY SpanIn
<1>5. Apart(sz, (S \cup A) \cup (M \cup B)) BY <1>4 DEF Tidy, Apart
<1> QED BY <1>1, <1>3, <1>5 DEF Tidy

-----------------------------------------------------------------------------
(* Chains. *)

(* Links elsewhere do not matter, nor does the one of the last area, as     *)
(* long as it leads out.                                                    *)
LEMMA SegFrame ==
    ASSUME NEW nx, NEW ny, NEW h, NEW t, NEW N, Seg(nx, h, t, N),
           Same(nx, ny, N \ {t}), ny[t] \notin N
    PROVE  Seg(ny, h, t, N)
<1>1. \A S \in SUBSET N : Closed(ny, t, S) => Closed(nx, t, S) BY DEF Closed, Same
<1> QED BY <1>1 DEF Seg, Same

(* A chain of one area. *)
LEMMA SegOne == ASSUME NEW nx, NEW a, nx[a] # a PROVE Seg(nx, a, a, {a})
  BY DEF Seg

(* Two chains, the first leading to the second. *)
LEMMA SegJoin ==
    ASSUME NEW nx, NEW h, NEW t, NEW N, Seg(nx, h, t, N),
           NEW g, NEW u, NEW M, Seg(nx, g, u, M),
           nx[t] = g, N \cap M = {}, nx[u] \notin N
    PROVE  Seg(nx, h, u, N \cup M)
<1>1. h \in N \cup M /\ u \in N \cup M /\ nx[u] \notin N \cup M /\ t # u BY DEF Seg
<1>2. ASSUME NEW a \in (N \cup M) \ {u} PROVE nx[a] \in (N \cup M) \ {h} BY <1>1 DEF Seg
<1>3. ASSUME NEW a \in (N \cup M) \ {u}, NEW b \in (N \cup M) \ {u}, nx[a] = nx[b] PROVE a = b
  <2>1. CASE a \in N /\ b \in N BY <1>3, <2>1 DEF Seg
  <2>2. CASE a \in M /\ b \in M BY <1>3, <2>2 DEF Seg
  <2>3. CASE a \in N /\ b \in M BY <1>3, <2>3 DEF Seg
  <2>4. CASE a \in M /\ b \in N BY <1>3, <2>4 DEF Seg
  <2> QED BY <2>1, <2>2, <2>3, <2>4
<1>4. ASSUME NEW S \in SUBSET (N \cup M), h \in S, Closed(nx, u, S) PROVE S = N \cup M
  <2>1. S \cap N = N
    <3>1. Closed(nx, t, S \cap N) BY <1>4, <1>1 DEF Closed, Seg
    <3> QED BY <3>1, <1>4 DEF Seg
  <2>2. g \in S BY <2>1, <1>4, <1>1 DEF Seg, Closed
  <2>3. S \cap M = M
    <3>1. Closed(nx, u, S \cap M) BY <1>4 DEF Closed, Seg
    <3> QED BY <3>1, <2>2 DEF Seg
  <2> QED BY <2>1, <2>3
<1> QED BY <1>1, <1>2, <1>3, <1>4 DEF Seg

(* A chain without its first area. *)
LEMMA SegDrop ==
    ASSUME NEW nx, NEW h, NEW t, NEW N, Seg(nx, h, t, N), h # t
    PROVE  Seg(nx, nx[h], t, N \ {h})
<1>1. nx[h] \in N \ {h} /\ t \in N \ {h} /\ nx[t] \notin N \ {h} BY DEF Seg
<1>2. ASSUME NEW a \in (N \ {h}) \ {t} PROVE nx[a] \in (N \ {h}) \ {nx[h]} BY DEF Seg
<1>3. ASSUME NEW S \in SUBSET (N \ {h}), nx[h] \in S, Closed(nx, t, S) PROVE S = N \ {h}
  <2>1. Closed(nx, t, S \cup {h}) BY <1>3 DEF Closed
  <2>2. S \cup {h} = N BY <2>1, <1>3, <1>1 DEF Seg
  <2> QED BY <2>2
<1> QED BY <1>1, <1>2, <1>3 DEF Seg

(* A chain whose first area is its last has one area. *)
LEMMA SegEnd == ASSUME NEW nx, NEW t, NEW N, Seg(nx, t, t, N) PROVE N = {t}
<1>1. Closed(nx, t, {t}) BY DEF Closed
<1> QED BY <1>1 DEF Seg

(* A chain without an area in the middle or at its end, by a link from the *)
(* area before it.                                                          *)
LEMMA SegCut ==
    ASSUME NEW nx, NEW h, NEW t, NEW N, Seg(nx, h, t, N),
           NEW p \in N, NEW c \in N, p # t, nx[p] = c,
           NEW ny, Same(nx, ny, N \ {c, p}), ny[p] = nx[c]
    PROVE  Seg(ny, h, IF c = t THEN p ELSE t, N \ {c})
<1> DEFINE u == IF c = t THEN p ELSE t
<1>1. c # h /\ c # p
  <2>1. c # h BY DEF Seg
  <2>2. ASSUME c = p PROVE FALSE
    <3>1. nx[p] = p BY <2>2
    <3>2. Closed(nx, t, N \ {p})
      <4> SUFFICES ASSUME NEW a \in (N \ {p}) \ {t} PROVE nx[a] \in N \ {p} BY DEF Closed
      <4>1. nx[a] = nx[p] => a = p BY DEF Seg
      <4> QED BY <4>1, <3>1 DEF Seg
    <3>3. h \in N \ {p} BY <2>1, <2>2 DEF Seg
    <3> QED BY <3>2, <3>3 DEF Seg
  <2> QED BY <2>1, <2>2
<1>2. h \in N \ {c} /\ u \in N \ {c} BY <1>1 DEF Seg
<1>3. \A a \in N \ {c, p} : ny[a] = nx[a] BY DEF Same
<1>4. ny[u] \notin N \ {c}
  <2>1. CASE c = t BY <2>1 DEF Seg
  <2>2. CASE c # t BY <2>2, <1>3 DEF Seg
  <2> QED BY <2>1, <2>2
<1>5. \A a \in N \ {t} : nx[a] = c => a = p BY DEF Seg
<1>6. ASSUME NEW a \in (N \ {c}) \ {u} PROVE ny[a] \in (N \ {c}) \ {h}
  <2>1. CASE a = p
    <3>1. c # t BY <2>1, <1>6
    <3>2. nx[c] \in N \ {h} BY <3>1 DEF Seg
    <3>3. nx[c] # c BY <3>1, <1>5, <1>1
    <3> QED BY <2>1, <3>2, <3>3
  <2>2. CASE a # p
    <3>1. a # t BY <1>6
    <3> QED BY <2>2, <3>1, <1>3, <1>5 DEF Seg
  <2> QED BY <2>1, <2>2
<1>7. ASSUME NEW a \in (N \ {c}) \ {u}, NEW b \in (N \ {c}) \ {u}, ny[a] = ny[b] PROVE a = b
  <2>1. a # t /\ b # t BY <1>7
  <2>2. CASE a # p /\ b # p BY <2>1, <2>2, <1>3, <1>7 DEF Seg
  <2>3. CASE a = p /\ b # p
    <3>1. c # t BY <2>3, <1>7
    <3>2. nx[c] = nx[b] BY <2>3, <1>3, <1>7
    <3> QED BY <3>1, <3>2, <2>1, <1>7 DEF Seg
  <2>4. CASE a # p /\ b = p
    <3>1. c # t BY <2>4, <1>7
    <3>2. nx[c] = nx[a] BY <2>4, <1>3, <1>7
    <3> QED BY <3>1, <3>2, <2>1, <1>7 DEF Seg
  <2> QED BY <2>2, <2>3, <2>4
<1>8. ASSUME NEW S \in SUBSET (N \ {c}), h \in S, Closed(ny, u, S) PROVE S = N \ {c}
  <2>1. p \in S
    <3> SUFFICES ASSUME p \notin S PROVE FALSE OBVIOUS
    <3>1. Closed(nx, t, S)
      <4> SUFFICES ASSUME NEW a \in S \ {t} PROVE nx[a] \in S BY DEF Closed
      <4>1. a # u /\ a # p /\ a # c OBVIOUS
      <4> QED BY <4>1, <1>3, <1>8 DEF Closed
    <3> QED BY <3>1, <1>8 DEF Seg
  <2>2. Closed(nx, t, S \cup {c})
    <3> SUFFICES ASSUME NEW a \in (S \cup {c}) \ {t} PROVE nx[a] \in S \cup {c} BY DEF Closed
    <3>1. CASE a = p BY <3>1
    <3>2. CASE a = c
      <4>1. p # u BY <3>2
      <4> QED BY <4>1, <3>2, <2>1, <1>8 DEF Closed
    <3>3. CASE a # p /\ a # c
      <4>1. a # u BY <3>3
      <4> QED BY <4>1, <3>3, <1>3, <1>8 DEF Closed
    <3> QED BY <3>1, <3>2, <3>3
  <2>3. S \cup {c} = N BY <2>2, <1>8 DEF Seg
  <2> QED BY <2>3
<1> QED BY <1>2, <1>4, <1>6, <1>7, <1>8 DEF Seg

-----------------------------------------------------------------------------
(* No area of a chain is linked to itself. *)
LEMMA SegSelf ==
    ASSUME NEW nx, NEW h, NEW t, NEW N, Seg(nx, h, t, N), NEW c \in N, nx[c] = c
    PROVE  FALSE
<1>1. c # t /\ c # h BY DEF Seg
<1>2. Closed(nx, t, N \ {c})
  <2> SUFFICES ASSUME NEW a \in (N \ {c}) \ {t} PROVE nx[a] \in N \ {c} BY DEF Closed
  <2>1. nx[a] = nx[c] => a = c BY <1>1 DEF Seg
  <2> QED BY <2>1 DEF Seg
<1>3. h \in N \ {c} BY <1>1 DEF Seg
<1> QED BY <1>2, <1>3 DEF Seg

(* A list of the pool from h to t. *)
ListOK(nx, h, t, N) ==
    IF h = 0 THEN t = 0 /\ N = {} ELSE Seg(nx, h, t, N) /\ nx[t] = 0

(* Links elsewhere do not matter. *)
LEMMA ListFrame ==
    ASSUME NEW nx, NEW ny, NEW h, NEW t, NEW N, ListOK(nx, h, t, N), Same(nx, ny, N), 0 \notin N
    PROVE  ListOK(ny, h, t, N)
<1>1. CASE h = 0 BY <1>1 DEF ListOK
<1>2. CASE h # 0
  <2>1. Seg(nx, h, t, N) /\ nx[t] = 0 BY <1>2 DEF ListOK
  <2>2. t \in N BY <2>1 DEF Seg
  <2>3. ny[t] = 0 BY <2>1, <2>2 DEF Same
  <2>4. Same(nx, ny, N \ {t}) BY DEF Same
  <2>5. Seg(ny, h, t, N) BY <2>1, <2>3, <2>4, SegFrame
  <2> QED BY <2>5, <2>3, <1>2 DEF ListOK
<1> QED BY <1>1, <1>2

(* push(): a new head. *)
LEMMA ListPush ==
    ASSUME NEW nx, NEW ny, NEW h, NEW t, NEW N, ListOK(nx, h, t, N), 0 \notin N,
           NEW a, a \notin N, a # 0, Same(nx, ny, N), ny[a] = h
    PROVE  ListOK(ny, a, IF t = 0 THEN a ELSE t, N \cup {a})
<1>1. CASE h = 0
  <2>1. t = 0 /\ N = {} BY <1>1 DEF ListOK
  <2>2. Seg(ny, a, a, {a}) BY <1>1, SegOne
  <2>3. N \cup {a} = {a} BY <2>1
  <2> QED BY <2>1, <2>2, <2>3, <1>1 DEF ListOK
<1>2. CASE h # 0
  <2>1. ListOK(ny, h, t, N) BY ListFrame
  <2>2. Seg(ny, h, t, N) /\ ny[t] = 0 BY <2>1, <1>2 DEF ListOK
  <2>3. h \in N /\ t \in N BY <2>2 DEF Seg
  <2>4. ny[a] # a /\ {a} \cap N = {} /\ ny[t] \notin {a} BY <2>2, <2>3
  <2>5. Seg(ny, a, a, {a}) BY <2>4, SegOne
  <2>6. Seg(ny, a, t, {a} \cup N) BY <2>5, <2>2, <2>4, SegJoin
  <2>7. {a} \cup N = N \cup {a} /\ t # 0 BY <2>3
  <2> QED BY <2>6, <2>7, <2>2 DEF ListOK
<1> QED BY <1>1, <1>2

(* pop() and find_and_remove(): one area less. *)
LEMMA ListRemove ==
    ASSUME NEW nx, NEW ny, NEW h, NEW t, NEW N, ListOK(nx, h, t, N), 0 \notin N,
           NEW c \in N, NEW p, IF p = 0 THEN c = h ELSE p \in N /\ nx[p] = c,
           Same(nx, ny, N \ {c, p}), p # 0 => ny[p] = nx[c]
    PROVE  ListOK(ny, IF p = 0 THEN nx[c] ELSE h, IF c = t THEN p ELSE t, N \ {c})
<1>0. h # 0 BY DEF ListOK
<1>1. Seg(nx, h, t, N) /\ nx[t] = 0 BY <1>0 DEF ListOK
<1>2. CASE p = 0
  <2>1. CASE c = t
    <3>1. N = {t} BY <1>1, <1>2, <2>1, SegEnd
    <3>2. N \ {c} = {} BY <3>1, <2>1
    <3> QED BY <3>2, <1>2, <2>1, <1>1 DEF ListOK
  <2>2. CASE c # t
    <3>1. Seg(nx, nx[c], t, N \ {c}) BY <1>1, <1>2, <2>2, SegDrop
    <3>2. t \in N \ {c} /\ Same(nx, ny, (N \ {c}) \ {t}) /\ ny[t] = nx[t]
      BY <3>1, <1>2 DEF Seg, Same
    <3>3. Seg(ny, nx[c], t, N \ {c}) BY <3>1, <3>2, <1>1, SegFrame
    <3>4. nx[c] # 0 BY <3>1 DEF Seg
    <3> QED BY <3>3, <3>2, <3>4, <1>1, <1>2, <2>2 DEF ListOK
  <2> QED BY <2>1, <2>2
<1>3. CASE p # 0
  <2>1. p \in N /\ nx[p] = c /\ p # t BY <1>3, <1>1
  <2> DEFINE u == IF c = t THEN p ELSE t
  <2>2. Seg(ny, h, u, N \ {c}) BY <1>1, <2>1, <1>3, SegCut
  <2>3. t \in N BY <1>1 DEF Seg
  <2>4. ny[u] = 0
    <3>1. CASE c = t BY <3>1, <1>3, <1>1
    <3>2. CASE c # t BY <3>2, <2>1, <2>3, <1>1 DEF Same
    <3> QED BY <3>1, <3>2
  <2> QED BY <2>2, <2>4, <1>3, <1>0 DEF ListOK
<1> QED BY <1>2, <1>3

(* add(): a chain at the end. *)
LEMMA ListAdd ==
    ASSUME NEW nx, NEW ny, NEW h, NEW t, NEW N, ListOK(nx, h, t, N), 0 \notin N,
           NEW g, NEW u, NEW M, Seg(ny, g, u, M), ny[u] = 0, 0 \notin M, N \cap M = {},
           Same(nx, ny, N \ {t}), h # 0 => ny[t] = g
    PROVE  ListOK(ny, IF h = 0 THEN g ELSE h, u, N \cup M)
<1>0. g # 0 BY DEF Seg
<1>1. CASE h = 0
  <2>1. N \cup M = M BY <1>1 DEF ListOK
  <2> QED BY <2>1, <1>1, <1>0 DEF ListOK
<1>2. CASE h # 0
  <2>1. Seg(nx, h, t, N) BY <1>2 DEF ListOK
  <2>2. g \notin N BY DEF Seg
  <2>3. Seg(ny, h, t, N) BY <2>1, <2>2, <1>2, SegFrame
  <2>4. Seg(ny, h, u, N \cup M) BY <2>3, <1>2, SegJoin
  <2> QED BY <2>4, <1>2 DEF ListOK
<1> QED BY <1>1, <1>2

-----------------------------------------------------------------------------
(* What Follow and Walk compute. *)

(* A set of numbers has a least one. *)
LEMMA LeastOf == ASSUME NEW S \in SUBSET Nat, S # {} PROVE \E m \in S : \A y \in S : m <= y
<1>1. PICK m \in S : \A y \in S : <<y, m>> \notin OpToRel(<, Nat)
  BY NatLessThanWellFounded, WFMin
<1>2. \A y \in S : ~(y < m) BY <1>1 DEF OpToRel
<1>3. \A y \in S : m <= y BY <1>2
<1> QED BY <1>3

(* A function is a path from an area if each value is linked to the next. *)
PathTo(nx, from, n, g) ==
    /\ g \in [0 .. n -> Offset] /\ g[0] = from
    /\ \A i \in 1 .. n : g[i] = nx[g[i - 1]]

(* There is a path of every length. *)
LEMMA PathExists ==
    ASSUME NEW nx \in [Offset -> Offset], NEW from \in Offset, NEW n \in Nat
    PROVE  \E g : PathTo(nx, from, n, g)
<1> DEFINE T == {i \in Nat : ~\E g : PathTo(nx, from, i, g)}
<1> SUFFICES ASSUME T # {} PROVE FALSE OBVIOUS
<1>1. PICK m \in T : \A y \in T : m <= y
  <2>1. T \in SUBSET Nat OBVIOUS
  <2> HIDE DEF T
  <2> QED BY <2>1, LeastOf
<1>2. CASE m = 0
  <2>1. PathTo(nx, from, 0, [i \in 0 .. 0 |-> from]) BY DEF PathTo
  <2> QED BY <2>1, <1>1, <1>2
<1>3. CASE m # 0
  <2>1. m - 1 \in Nat /\ m - 1 \notin T BY <1>1, <1>3
  <2>2. PICK g : PathTo(nx, from, m - 1, g) BY <2>1
  <2> DEFINE f == [i \in 0 .. m |-> IF i = m THEN nx[g[m - 1]] ELSE g[i]]
  <2>3. g \in [0 .. m - 1 -> Offset] /\ g[0] = from /\ \A i \in 1 .. m - 1 : g[i] = nx[g[i - 1]]
    BY <2>2 DEF PathTo
  <2>4. m \in Nat \ {0} BY <1>1, <1>3
  <2>5. g[m - 1] \in Offset BY <2>3, <2>4
  <2>6. f \in [0 .. m -> Offset] BY <2>3, <2>4, <2>5
  <2>7. f[0] = from BY <2>3, <2>4
  <2>8. ASSUME NEW i \in 1 .. m PROVE f[i] = nx[f[i - 1]]
    <3>1. CASE i = m BY <3>1, <2>4
    <3>2. CASE i # m
      <4>1. i \in 1 .. m - 1 /\ i - 1 \in 0 .. m - 1 /\ i \in 0 .. m /\ i - 1 # m BY <3>2, <2>4
      <4> QED BY <4>1, <2>3, <3>2
    <3> QED BY <3>1, <3>2
  <2>9. PathTo(nx, from, m, f) BY <2>6, <2>7, <2>8 DEF PathTo
  <2> QED BY <2>9, <1>1
<1> QED BY <1>2, <1>3

(* Two paths from an area agree. *)
LEMMA PathUnique ==
    ASSUME NEW nx \in [Offset -> Offset], NEW from \in Offset, NEW n \in Nat, NEW m \in Nat,
           NEW f, NEW g, PathTo(nx, from, n, f), PathTo(nx, from, m, g),
           NEW j \in Nat, j <= n, j <= m
    PROVE  f[j] = g[j]
<1> DEFINE T == {i \in Nat : i <= n /\ i <= m /\ f[i] # g[i]}
<1> SUFFICES ASSUME T # {} PROVE FALSE OBVIOUS
<1>1. PICK i \in T : \A y \in T : i <= y
  <2>1. T \in SUBSET Nat OBVIOUS
  <2> HIDE DEF T
  <2> QED BY <2>1, LeastOf
<1>2. CASE i = 0 BY <1>1, <1>2 DEF PathTo
<1>3. CASE i # 0
  <2>1. i - 1 \in Nat /\ i - 1 \notin T /\ i \in 1 .. n /\ i \in 1 .. m BY <1>1, <1>3
  <2>2. f[i - 1] = g[i - 1] BY <2>1
  <2> QED BY <2>1, <2>2, <1>1 DEF PathTo
<1> QED BY <1>2, <1>3

(* Follow gives the areas linked from one on. *)
LEMMA FollowRight ==
    ASSUME NEW nx \in [Offset -> Offset], NEW from \in Offset
    PROVE  /\ Follow(nx, from)[0] = from
           /\ \A i \in Nat : Follow(nx, from)[i] \in Offset
           /\ \A i \in Nat : Follow(nx, from)[i + 1] = nx[Follow(nx, from)[i]]
<1> DEFINE g(n) == CHOOSE f : PathTo(nx, from, n, f)
           F == [n \in Nat |-> g(n)[n]]
           Eq(f) == f = [i \in Nat |-> IF i = 0 THEN from ELSE nx[f[i - 1]]]
<1>1. \A n \in Nat : PathTo(nx, from, n, g(n)) BY PathExists
<1>2. ASSUME NEW i \in Nat PROVE F[i] = IF i = 0 THEN from ELSE nx[F[i - 1]]
  <2>1. PathTo(nx, from, i, g(i)) BY <1>1
  <2>2. CASE i = 0 BY <2>1, <2>2 DEF PathTo
  <2>3. CASE i # 0
    <3>1. i - 1 \in Nat /\ i \in 1 .. i BY <2>3
    <3>2. PathTo(nx, from, i - 1, g(i - 1)) BY <1>1, <3>1
    <3>3. g(i)[i - 1] = g(i - 1)[i - 1]
      <4> HIDE DEF g
      <4> QED BY <2>1, <3>1, <3>2, PathUnique
    <3>4. g(i)[i] = nx[g(i)[i - 1]] BY <2>1, <3>1 DEF PathTo
    <3> QED BY <3>1, <3>3, <3>4, <2>3
  <2> QED BY <2>2, <2>3
<1>3. Eq(F)
  <2> HIDE DEF g
  <2>1. F = [i \in Nat |-> F[i]] OBVIOUS
  <2> HIDE DEF F
  <2> QED BY <2>1, <1>2
<1>4. Follow(nx, from) = CHOOSE f : Eq(f) BY DEF Follow
<1>5. Eq(Follow(nx, from)) BY <1>3, <1>4
<1> DEFINE W == Follow(nx, from)
<1>6. W = [i \in Nat |-> IF i = 0 THEN from ELSE nx[W[i - 1]]] BY <1>5
<1> HIDE DEF W
<1>7. W[0] = from BY <1>6
<1>8. \A i \in Nat : W[i + 1] = nx[W[i]] BY <1>6
<1>9. \A i \in Nat : W[i] \in Offset
  <2>1. \A i \in Nat : W[i] = F[i]
    <3> DEFINE T == {i \in Nat : W[i] # F[i]}
    <3> SUFFICES ASSUME T # {} PROVE FALSE OBVIOUS
    <3>1. PICK i \in T : \A y \in T : i <= y
      <4>1. T \in SUBSET Nat OBVIOUS
      <4> HIDE DEF T
      <4> QED BY <4>1, LeastOf
    <3> HIDE DEF F
    <3>2. CASE i = 0 BY <3>1, <3>2, <1>7, <1>2
    <3>3. CASE i # 0
      <4>1. i - 1 \in Nat /\ i - 1 \notin T BY <3>1, <3>3
      <4>2. W[i - 1] = F[i - 1] BY <4>1
      <4>3. W[i] = nx[W[i - 1]] BY <1>6, <3>1, <3>3
      <4> QED BY <4>1, <4>2, <4>3, <1>2, <3>1, <3>3
    <3> QED BY <3>2, <3>3
  <2>2. ASSUME NEW i \in Nat PROVE F[i] \in Offset
    <3>1. PathTo(nx, from, i, g(i)) BY <1>1
    <3> QED BY <3>1 DEF PathTo
  <2> QED BY <2>1, <2>2
<1> QED BY <1>7, <1>8, <1>9 DEF W

(* A walk is a path: it starts at from and goes on by the links. *)
LEMMA WalkPath ==
    ASSUME NEW nx \in [Offset -> Offset], nx[0] = 0, NEW from \in Offset, NEW n \in Nat,
           NEW i \in DOMAIN Walk(nx, from, n)
    PROVE  /\ i \in 1 .. n /\ Walk(nx, from, n)[i] = Follow(nx, from)[i - 1]
           /\ Walk(nx, from, n)[i] # 0
           /\ i = 1 => Walk(nx, from, n)[i] = from
           /\ i # 1 => /\ i - 1 \in DOMAIN Walk(nx, from, n)
                       /\ Walk(nx, from, n)[i] = nx[Walk(nx, from, n)[i - 1]]
<1> DEFINE at == Follow(nx, from)
           D == {j \in 1 .. n : at[j - 1] # 0}
<1>1. Walk(nx, from, n) = [j \in D |-> at[j - 1]] BY DEF Walk
<1>2. /\ at[0] = from
      /\ \A j \in Nat : at[j] \in Offset
      /\ \A j \in Nat : at[j + 1] = nx[at[j]]
  BY FollowRight
<1> HIDE DEF at
<1>3. i \in 1 .. n /\ at[i - 1] # 0 /\ Walk(nx, from, n)[i] = at[i - 1] BY <1>1
<1>4. CASE i = 1 BY <1>3, <1>4, <1>2 DEF at
<1>5. CASE i # 1
  <2>1. i - 1 \in 1 .. n /\ i - 2 \in Nat /\ (i - 2) + 1 = i - 1 /\ (i - 1) - 1 = i - 2 BY <1>3, <1>5
  <2>2. at[i - 1] = nx[at[i - 2]] BY <2>1, <1>2
  <2>3. at[i - 2] # 0 BY <2>2, <1>3
  <2>4. i - 1 \in D BY <2>1, <2>3
  <2>5. Walk(nx, from, n)[i - 1] = at[i - 2] BY <2>4, <2>1, <1>1
  <2> QED BY <2>4, <2>5, <2>2, <1>1, <1>3, <1>5 DEF at
<1> QED BY <1>4, <1>5

(* W is a path of at most n areas. *)
Route(nx, from, n, W) ==
    /\ DOMAIN W \subseteq 1 .. n
    /\ \A i \in DOMAIN W :
          /\ W[i] # 0
          /\ i = 1 => W[i] = from
          /\ i # 1 => i - 1 \in DOMAIN W /\ W[i] = nx[W[i - 1]]

(* A walk is one. *)
LEMMA WalkRoute ==
    ASSUME NEW nx \in [Offset -> Offset], nx[0] = 0, NEW from \in Offset, NEW n \in Nat
    PROVE  Route(nx, from, n, Walk(nx, from, n))
<1>1. ASSUME NEW i \in DOMAIN Walk(nx, from, n)
      PROVE  /\ i \in 1 .. n
             /\ Walk(nx, from, n)[i] # 0
             /\ i = 1 => Walk(nx, from, n)[i] = from
             /\ i # 1 => /\ i - 1 \in DOMAIN Walk(nx, from, n)
                         /\ Walk(nx, from, n)[i] = nx[Walk(nx, from, n)[i - 1]]
  BY WalkPath
<1> QED BY <1>1 DEF Route

(* It stays where the links lead. *)
LEMMA RouteStays ==
    ASSUME NEW nx, NEW from, NEW n \in Nat, NEW W, Route(nx, from, n, W),
           NEW N, from \in N \cup {0}, \A a \in N : nx[a] \in N \cup {0},
           NEW i \in DOMAIN W
    PROVE  W[i] \in N
<1> DEFINE T == {j \in Nat : j \in DOMAIN W /\ W[j] \notin N}
<1> SUFFICES ASSUME W[i] \notin N PROVE FALSE OBVIOUS
<1>1. i \in T BY DEF Route
<1>2. PICK j \in T : \A y \in T : j <= y
  <2>1. T \in SUBSET Nat OBVIOUS
  <2> HIDE DEF T
  <2> QED BY <2>1, <1>1, LeastOf
<1>3. j \in DOMAIN W /\ j \in Nat /\ W[j] \notin N BY <1>2
<1>4. CASE j = 1 BY <1>3, <1>4 DEF Route
<1>5. CASE j # 1
  <2>1. j - 1 \in DOMAIN W /\ W[j] = nx[W[j - 1]] /\ W[j] # 0 /\ j - 1 \in 1 .. n
    BY <1>3, <1>5 DEF Route
  <2>2. j - 1 \notin T BY <1>2, <1>3, <2>1
  <2>3. W[j - 1] \in N BY <2>1, <2>2
  <2> QED BY <2>1, <2>3, <1>3
<1> QED BY <1>4, <1>5

(* No area of a chain comes twice in the walk from its head. *)
LEMMA RouteOnce ==
    ASSUME NEW nx, NEW h, NEW n \in Nat, NEW W, Route(nx, h, n, W),
           NEW t, NEW N, Seg(nx, h, t, N), nx[t] = 0, 0 \notin N,
           NEW i \in DOMAIN W, NEW j \in DOMAIN W, W[i] = W[j]
    PROVE  i = j
<1> DEFINE T == {a \in Nat : a \in DOMAIN W /\ \E b \in DOMAIN W : b # a /\ W[b] = W[a]}
<1> SUFFICES ASSUME i # j PROVE FALSE OBVIOUS
<1>0. DOMAIN W \subseteq 1 .. n BY DEF Route
<1>1. i \in T BY <1>0
<1>2. PICK a \in T : \A y \in T : a <= y
  <2>1. T \in SUBSET Nat OBVIOUS
  <2> HIDE DEF T
  <2> QED BY <2>1, <1>1, LeastOf
<1>3. a \in DOMAIN W /\ a \in 1 .. n BY <1>2, <1>0
<1>4. PICK b \in DOMAIN W : b # a /\ W[b] = W[a] BY <1>2
<1>5. b \in T /\ a < b /\ b \in 1 .. n /\ b # 1
  <2>1. b \in T BY <1>4, <1>3, <1>0
  <2>2. b \in 1 .. n BY <1>4, <1>0
  <2>3. a <= b BY <2>1, <1>2
  <2> QED BY <2>1, <2>2, <2>3, <1>3, <1>4
<1>6. (\A c \in N : nx[c] \in N \cup {0}) /\ h \in N BY DEF Seg
<1>7. \A c \in DOMAIN W : W[c] \in N /\ W[c] # 0 BY <1>6, RouteStays
<1>8. b - 1 \in DOMAIN W /\ W[b] = nx[W[b - 1]] BY <1>4, <1>5 DEF Route
<1>9. W[b - 1] \in N \ {t} BY <1>8, <1>7, <1>4
<1>10. CASE a = 1
  <2>1. W[a] = h BY <1>3, <1>10 DEF Route
  <2> QED BY <2>1, <1>9, <1>8, <1>4 DEF Seg
<1>11. CASE a # 1
  <2>1. a - 1 \in DOMAIN W /\ W[a] = nx[W[a - 1]] BY <1>3, <1>11 DEF Route
  <2>2. W[a - 1] \in N \ {t} BY <2>1, <1>7, <1>3
  <2>3. W[a - 1] = W[b - 1] BY <2>1, <2>2, <1>8, <1>9, <1>4 DEF Seg
  <2>4. a - 1 \in T BY <2>1, <1>8, <2>3, <1>5, <1>3, <1>0
  <2> QED BY <2>4, <1>2, <1>3
<1> QED BY <1>10, <1>11

(* The walk through a whole chain finds all of it. *)
LEMMA WalkAll ==
    ASSUME NEW nx \in [Offset -> Offset], nx[0] = 0, NEW h \in Offset,
           NEW t, NEW N \in SUBSET Offset, Seg(nx, h, t, N), nx[t] = 0, 0 \notin N
    PROVE  Range(Walk(nx, h, MapSize)) = N
<1> DEFINE W == Walk(nx, h, MapSize)
           at == Follow(nx, h)
<1>0. MapSize \in Nat \ {0} BY AreasAssumption
<1>1. (\A c \in N : nx[c] \in N \cup {0}) /\ h \in N BY DEF Seg
<1>r. Route(nx, h, MapSize, W) BY <1>0, WalkRoute
<1>2. \A c \in DOMAIN W : W[c] \in N
  <2> HIDE DEF W
  <2> QED BY <1>0, <1>1, <1>r, RouteStays
<1>3. /\ at[0] = h
      /\ \A j \in Nat : at[j + 1] = nx[at[j]]
  BY FollowRight
<1>4. W = [j \in {c \in 1 .. MapSize : at[c - 1] # 0} |-> at[j - 1]] BY DEF Walk
<1>5. h # 0 /\ h \in N BY DEF Seg
<1>6. 1 \in DOMAIN W /\ W[1] = h
  <2> HIDE DEF at
  <2> QED BY <1>0, <1>3, <1>4, <1>5
<1>7. ASSUME NEW j \in DOMAIN W, W[j] # t PROVE nx[W[j]] \in Range(W)
  <2>1. j \in 1 .. MapSize /\ W[j] = at[j - 1] BY <1>0, WalkPath
  <2>2. nx[W[j]] \in N BY <1>2, <1>7 DEF Seg
  <2>3. at[j] = nx[W[j]]
    <3>1. j - 1 \in Nat /\ (j - 1) + 1 = j BY <2>1
    <3> HIDE DEF at, W
    <3> QED BY <1>3, <2>1, <3>1
  <2>4. j < MapSize
    <3> SUFFICES ASSUME j = MapSize PROVE FALSE BY <2>1, <1>0
    <3> DEFINE D == {c \in Nat : c \in 1 .. MapSize /\ c \notin DOMAIN W}
    <3>1. D = {}
      <4> DEFINE E == {c \in Nat : c \in 1 .. MapSize /\ (MapSize - c) + 1 \in D}
      <4> SUFFICES ASSUME D # {} PROVE FALSE OBVIOUS
      <4>1. E # {}
        <5>1. PICK c \in D : TRUE OBVIOUS
        <5>2. (MapSize - ((MapSize - c) + 1)) + 1 = c /\ (MapSize - c) + 1 \in 1 .. MapSize BY <5>1, <1>0
        <5> QED BY <5>1, <5>2
      <4>2. PICK e \in E : \A y \in E : e <= y
        <5>1. E \in SUBSET Nat OBVIOUS
        <5> HIDE DEF E
        <5> QED BY <5>1, <4>1, LeastOf
      <4> DEFINE c == (MapSize - e) + 1
      <4>3. c \in 1 .. MapSize /\ c \notin DOMAIN W BY <4>2
      <4>4. c # MapSize BY <4>3
      <4>5. c + 1 \in 1 .. MapSize /\ c + 1 # 1 /\ (c + 1) - 1 = c BY <4>3, <4>4, <1>0
      <4>6. c + 1 \notin DOMAIN W
        <5> HIDE DEF c, W, E, D
        <5> QED BY <4>3, <4>5, <1>0, <1>r DEF Route
      <4>7. c + 1 \in D BY <4>5, <4>6
      <4>8. (MapSize - (e - 1)) + 1 = c + 1 /\ e - 1 \in 1 .. MapSize /\ e - 1 < e
        BY <4>2, <4>5, <1>0
      <4>9. e - 1 \in E BY <4>7, <4>8
      <4> QED BY <4>9, <4>8, <4>2
    <3>2. DOMAIN W = 1 .. MapSize
      <4> HIDE DEF W
      <4>1. \A c \in 1 .. MapSize : c \in Nat /\ c \notin D BY <3>1
      <4> QED BY <4>1, <1>r DEF Route
    <3>3. W \in [1 .. MapSize -> 1 .. MapSize - 1]
      <4>0. \A x \in N : x \in 1 .. MapSize - 1 BY DEF Offset
      <4>1. \A c \in 1 .. MapSize : W[c] \in 1 .. MapSize - 1
        <5> HIDE DEF W
        <5> QED BY <1>2, <3>2, <4>0
      <4>2. W = [c \in DOMAIN W |-> W[c]] BY <1>4
      <4> HIDE DEF W
      <4> QED BY <4>1, <4>2, <3>2
    <3>4. /\ IsFiniteSet(1 .. MapSize) /\ Cardinality(1 .. MapSize) = MapSize
          /\ IsFiniteSet(1 .. MapSize - 1) /\ Cardinality(1 .. MapSize - 1) = MapSize - 1
      <4> HIDE DEF W
      <4> DEFINE n == MapSize - 1
      <4>1. MapSize \in Int /\ n \in Int /\ 1 \in Int /\ 1 <= MapSize /\ 1 <= n + 1 BY <1>0
      <4>2. IsFiniteSet(1 .. MapSize) /\ Cardinality(1 .. MapSize) = MapSize - 1 + 1
        BY <4>1, FS_Interval
      <4> HIDE DEF n
      <4>3. IsFiniteSet(1 .. n) /\ Cardinality(1 .. n) = IF 1 > n THEN 0 ELSE n - 1 + 1
        BY <4>1, FS_Interval
      <4>4. Cardinality(1 .. n) = n BY <4>1, <4>3
      <4> QED BY <4>1, <4>2, <4>3, <4>4 DEF n
    <3>5. \E x, y \in 1 .. MapSize : x # y /\ W[x] = W[y]
      <4> HIDE DEF W
      <4>1. MapSize - 1 < MapSize BY <1>0
      <4>2. Cardinality(1 .. MapSize - 1) < Cardinality(1 .. MapSize) BY <3>4, <4>1
      <4> DEFINE A == 1 .. MapSize
                 B == 1 .. MapSize - 1
      <4>3. W \in [A -> B] /\ IsFiniteSet(A) /\ IsFiniteSet(B) /\ Cardinality(B) < Cardinality(A)
        BY <3>3, <3>4, <4>2
      <4> HIDE DEF A, B
      <4>4. \E x, y \in A : x # y /\ W[x] = W[y] BY <4>3, FS_PigeonHole
      <4> QED BY <4>4 DEF A
    <3> HIDE DEF W
    <3> QED BY <3>5, <3>2, <1>0, <1>r, RouteOnce
  <2>5. j + 1 \in 1 .. MapSize /\ (j + 1) - 1 = j BY <2>1, <2>4, <1>0
  <2>6. at[j] # 0 BY <2>2, <2>3
  <2>7. j + 1 \in DOMAIN W /\ W[j + 1] = at[j]
    <3> HIDE DEF at
    <3> QED BY <2>5, <2>6, <1>4
  <2> QED BY <2>7, <2>3 DEF Range
<1>8. Range(W) \in SUBSET N /\ h \in Range(W) BY <1>2, <1>6 DEF Range
<1>9. Closed(nx, t, Range(W)) BY <1>7 DEF Closed, Range
<1> QED BY <1>8, <1>9 DEF Seg

-----------------------------------------------------------------------------
(* The pool: P has the areas of its two lists. *)
MemType == [next : [Offset -> Offset], size : [Offset -> Nat], pool : [Kind -> List],
            file_size : 1 .. MapSize]
Sets == [Kind -> SUBSET Offset]
Both(P) == P["single"] \cup P["multi"]
MemOK(m, P) ==
    /\ m \in MemType /\ m.next[0] = 0 /\ P \in Sets
    /\ \A k \in Kind : ListOK(m.next, m.pool[k].head, m.pool[k].tail, P[k])
    /\ Tidy(m.size, m.file_size, P["single"], P["multi"])

(* The areas of the pool are in the file. *)
LEMMA PoolNodes == ASSUME NEW m, NEW P, MemOK(m, P) PROVE
    /\ m.file_size \in Nat /\ 1 <= m.file_size /\ m.file_size <= MapSize
    /\ m.next \in [Offset -> Offset] /\ m.size \in [Offset -> Nat]
    /\ \A k \in Kind : m.pool[k].head \in Offset /\ m.pool[k].tail \in Offset
    /\ Fit(m.size, m.file_size, Both(P)) /\ Apart(m.size, Both(P))
    /\ Both(P) \subseteq Span(m.size, Both(P))
    /\ Span(m.size, Both(P)) \subseteq 1 .. m.file_size - 1
    /\ \A k \in Kind : 0 \notin P[k] /\ P[k] \subseteq Both(P) /\ P[k] \subseteq Offset
<1>0. MapSize \in Nat \ {0} BY AreasAssumption
<1>1. /\ m.file_size \in Nat /\ 1 <= m.file_size /\ m.file_size <= MapSize
      /\ m.next \in [Offset -> Offset] /\ m.size \in [Offset -> Nat]
      /\ \A k \in Kind : m.pool[k].head \in Offset /\ m.pool[k].tail \in Offset
  BY <1>0 DEF MemOK, MemType, List
<1>2. Fit(m.size, m.file_size, Both(P)) /\ Apart(m.size, Both(P)) BY DEF MemOK, Tidy, Both
<1>3. Both(P) \subseteq Span(m.size, Both(P)) /\ Span(m.size, Both(P)) \subseteq 1 .. m.file_size - 1
  BY <1>1, <1>2, SpanNode
<1>4. ASSUME NEW k \in Kind PROVE 0 \notin P[k] /\ P[k] \subseteq Both(P) /\ P[k] \subseteq Offset
  <2>1. P[k] \subseteq Both(P) BY DEF Both, Kind
  <2>2. P[k] \subseteq Offset BY DEF MemOK, Sets
  <2>3. 0 \notin Both(P) BY <1>3, <1>1
  <2> QED BY <2>1, <2>2, <2>3
<1> QED BY <1>1, <1>2, <1>3, <1>4

(* The sets of areas without one, and with more of them. *)
Less(P, k, c) == [P EXCEPT ![k] = P[k] \ {c}]
More(P, k, N) == [P EXCEPT ![k] = P[k] \cup N]

(* w is m with area c unlinked from list k, p the area before it or 0. *)
Unlinks(m, w, P, k, c, p) ==
    /\ k \in Kind /\ c \in P[k] /\ p \in Offset
    /\ IF p = 0 THEN c = m.pool[k].head ELSE p \in P[k] /\ m.next[p] = c
    /\ w \in MemType /\ w.file_size = m.file_size /\ w.size = m.size /\ w.next[0] = 0
    /\ w.pool[k].head = IF p = 0 THEN m.next[c] ELSE m.pool[k].head
    /\ w.pool[k].tail = IF c = m.pool[k].tail THEN p ELSE m.pool[k].tail
    /\ \A j \in Kind \ {k} : w.pool[j] = m.pool[j]
    /\ Same(m.next, w.next, Offset \ {c, p}) /\ (p # 0 => w.next[p] = m.next[c])

(* One area leaves a list. *)
LEMMA Unlinking ==
    ASSUME NEW m, NEW P, MemOK(m, P), NEW w, NEW k, NEW c, NEW p, Unlinks(m, w, P, k, c, p),
           NEW Q, Q = Less(P, k, c)
    PROVE  /\ MemOK(w, Q)
           /\ Both(Q) = Both(P) \ {c}
           /\ Of(m.size, c) \cap Span(m.size, Both(Q)) = {}
           /\ Of(m.size, c) \cup Span(m.size, Both(Q)) = Span(m.size, Both(P))
<1>0. /\ k \in Kind /\ c \in P[k] /\ p \in Offset
      /\ IF p = 0 THEN c = m.pool[k].head ELSE p \in P[k] /\ m.next[p] = c
      /\ w \in MemType /\ w.file_size = m.file_size /\ w.size = m.size /\ w.next[0] = 0
      /\ w.pool[k].head = IF p = 0 THEN m.next[c] ELSE m.pool[k].head
      /\ w.pool[k].tail = IF c = m.pool[k].tail THEN p ELSE m.pool[k].tail
      /\ \A j \in Kind \ {k} : w.pool[j] = m.pool[j]
      /\ Same(m.next, w.next, Offset \ {c, p}) /\ (p # 0 => w.next[p] = m.next[c])
  BY DEF Unlinks
<1>1. P \in Sets /\ Q \in Sets /\ Q[k] = P[k] \ {c} /\ \A j \in Kind \ {k} : Q[j] = P[j]
  BY <1>0 DEF MemOK, Sets, Less
<1>2. P["single"] \cap P["multi"] = {} BY DEF MemOK, Tidy
<1>3. Both(Q) = Both(P) \ {c} /\ c \in Both(P)
  BY <1>0, <1>1, <1>2 DEF Both, Kind
<1>4. ListOK(w.next, w.pool[k].head, w.pool[k].tail, Q[k])
  <2>1. ListOK(m.next, m.pool[k].head, m.pool[k].tail, P[k]) BY <1>0 DEF MemOK
  <2>2. 0 \notin P[k] /\ P[k] \subseteq Offset BY <1>0, PoolNodes
  <2>3. Same(m.next, w.next, P[k] \ {c, p}) BY <1>0, <2>2 DEF Same
  <2>4. ListOK(w.next, IF p = 0 THEN m.next[c] ELSE m.pool[k].head,
               IF c = m.pool[k].tail THEN p ELSE m.pool[k].tail, P[k] \ {c})
    <3> DEFINE nx == m.next
               ny == w.next
               h == m.pool[k].head
               t == m.pool[k].tail
               N == P[k]
    <3>1. /\ ListOK(nx, h, t, N) /\ 0 \notin N /\ c \in N /\ Same(nx, ny, N \ {c, p})
          /\ IF p = 0 THEN c = h ELSE p \in N /\ nx[p] = c
          /\ p # 0 => ny[p] = nx[c]
      BY <1>0, <2>1, <2>2, <2>3
    <3> HIDE DEF nx, ny, h, t, N
    <3>2. ListOK(ny, IF p = 0 THEN nx[c] ELSE h, IF c = t THEN p ELSE t, N \ {c})
      BY <3>1, ListRemove
    <3> QED BY <3>2 DEF nx, ny, h, t, N
  <2> QED BY <2>4, <1>0, <1>1
<1>5. ASSUME NEW j \in Kind \ {k} PROVE ListOK(w.next, w.pool[j].head, w.pool[j].tail, Q[j])
  <2>1. ListOK(m.next, m.pool[j].head, m.pool[j].tail, P[j]) BY DEF MemOK
  <2>2. 0 \notin P[j] /\ P[j] \subseteq Offset BY PoolNodes
  <2>3. P[j] \cap P[k] = {} BY <1>0, <1>2 DEF Kind
  <2>4. Same(m.next, w.next, P[j]) BY <1>0, <2>2, <2>3 DEF Same
  <2>5. ListOK(w.next, m.pool[j].head, m.pool[j].tail, P[j]) BY <2>1, <2>2, <2>4, ListFrame
  <2> QED BY <2>5, <1>0, <1>1
<1>6. Tidy(w.size, w.file_size, Q["single"], Q["multi"])
  <2>1. Q["single"] \subseteq P["single"] /\ Q["multi"] \subseteq P["multi"] BY <1>0, <1>1 DEF Kind
  <2> QED BY <1>0, <2>1, TidySub DEF MemOK
<1>7. MemOK(w, Q) BY <1>0, <1>1, <1>4, <1>5, <1>6 DEF MemOK
<1>8. Apart(m.size, Both(P)) BY PoolNodes
<1>9. {c} \subseteq Both(P) BY <1>3
<1>10. Span(m.size, {c}) = Of(m.size, c) BY SpanOne
<1>11. /\ Span(m.size, Both(P) \ {c}) \cap Span(m.size, {c}) = {}
       /\ Span(m.size, Both(P) \ {c}) \cup Span(m.size, {c}) = Span(m.size, Both(P))
  <2> DEFINE B == Both(P)
             C == {c}
             z == m.size
  <2>1. C \subseteq B /\ Apart(z, B) BY <1>8, <1>9
  <2> HIDE DEF B, C, z
  <2>2. Span(z, B \ C) \cap Span(z, C) = {} /\ Span(z, B \ C) \cup Span(z, C) = Span(z, B)
    BY <2>1, SpanMinus
  <2> QED BY <2>2 DEF B, C, z
<1> QED BY <1>3, <1>7, <1>10, <1>11

(* w is m with an area a of n blocks pushed to the multi areas. *)
Pushes(m, w, P, a, n) ==
    /\ a \in Offset \ {0} /\ n \in Nat \ {0}
    /\ w \in MemType /\ w.next[0] = 0 /\ m.file_size <= w.file_size /\ a + n <= w.file_size
    /\ (a .. a + n - 1) \cap Span(m.size, Both(P)) = {}
    /\ Same(m.next, w.next, Both(P)) /\ w.next[a] = m.pool["multi"].head
    /\ Same(m.size, w.size, Both(P)) /\ w.size[a] = n
    /\ w.pool["single"] = m.pool["single"] /\ w.pool["multi"].head = a
    /\ w.pool["multi"].tail = IF m.pool["multi"].tail = 0 THEN a ELSE m.pool["multi"].tail

(* The blocks of Q in w are those of P in m and those of a. *)
Grown(m, w, P, Q, a) == Span(w.size, Both(Q)) = Span(m.size, Both(P)) \cup Of(w.size, a)

(* One area of n blocks becomes the head of the multi areas. *)
LEMMA Pushing ==
    ASSUME NEW m, NEW P, MemOK(m, P), NEW w, NEW a, NEW n, Pushes(m, w, P, a, n),
           NEW Q, Q = More(P, "multi", {a})
    PROVE  /\ MemOK(w, Q)
           /\ Grown(m, w, P, Q, a)
<1>p. /\ a \in Offset \ {0} /\ n \in Nat \ {0}
      /\ w \in MemType /\ w.next[0] = 0 /\ m.file_size <= w.file_size /\ a + n <= w.file_size
      /\ (a .. a + n - 1) \cap Span(m.size, Both(P)) = {}
      /\ Same(m.next, w.next, Both(P)) /\ w.next[a] = m.pool["multi"].head
      /\ Same(m.size, w.size, Both(P)) /\ w.size[a] = n
      /\ w.pool["single"] = m.pool["single"] /\ w.pool["multi"].head = a
      /\ w.pool["multi"].tail = IF m.pool["multi"].tail = 0 THEN a ELSE m.pool["multi"].tail
  BY DEF Pushes
<1>0. /\ P \in Sets /\ Q \in Sets /\ Q["single"] = P["single"] /\ Q["multi"] = P["multi"] \cup {a}
      /\ Both(Q) = Both(P) \cup {a}
  BY <1>p DEF MemOK, Sets, Kind, Both, More
<1>1. Of(w.size, a) = a .. a + n - 1 /\ a \in a .. a + n - 1 BY <1>p DEF Of, Offset
<1>2. Span(w.size, Both(P)) = Span(m.size, Both(P)) BY <1>p, SpanFrame
<1>3. Span(w.size, {a}) = a .. a + n - 1 BY <1>p, <1>1, SpanOne
<1>4. Span(w.size, Both(Q)) = Span(m.size, Both(P)) \cup (a .. a + n - 1)
  <2>1. Span(w.size, Both(P) \cup {a}) = Span(w.size, Both(P)) \cup Span(w.size, {a}) BY <1>p, SpanUnion
  <2> QED BY <1>p, <2>1, <1>0, <1>2, <1>3
<1>5. a \notin Both(P) BY <1>p, <1>1, PoolNodes
<1>6. ListOK(w.next, w.pool["single"].head, w.pool["single"].tail, Q["single"])
  <2>1. ListOK(m.next, m.pool["single"].head, m.pool["single"].tail, P["single"]) BY <1>p DEF MemOK, Kind
  <2>2. 0 \notin P["single"] /\ Same(m.next, w.next, P["single"]) BY <1>p, PoolNodes DEF Kind, Both, Same
  <2> QED BY <1>p, <2>1, <2>2, <1>0, ListFrame
<1>7. ListOK(w.next, w.pool["multi"].head, w.pool["multi"].tail, Q["multi"])
  <2>1. ListOK(m.next, m.pool["multi"].head, m.pool["multi"].tail, P["multi"]) BY <1>p DEF MemOK, Kind
  <2>2. 0 \notin P["multi"] /\ Same(m.next, w.next, P["multi"]) BY <1>p, PoolNodes DEF Kind, Both, Same
  <2>3. a \notin P["multi"] BY <1>p, <1>5 DEF Both
  <2>5. ListOK(w.next, a, IF m.pool["multi"].tail = 0 THEN a ELSE m.pool["multi"].tail,
               P["multi"] \cup {a})
    BY <1>p, <2>1, <2>2, <2>3, ListPush
  <2> QED BY <1>p, <2>5, <1>0
<1>8. Tidy(w.size, w.file_size, Q["single"], Q["multi"])
  <2>0. m.file_size \in Nat /\ w.file_size \in Nat BY <1>p, PoolNodes, AreasAssumption DEF MemType
  <2>1. Tidy(m.size, m.file_size, P["single"], P["multi"]) BY <1>p DEF MemOK
  <2>2. Tidy(w.size, w.file_size, P["single"], P["multi"])
    BY <1>p, <2>0, <2>1, TidyFrame DEF Both
  <2>3. Tidy(w.size, w.file_size, {}, {a})
    <3>1. a \in 1 .. w.file_size - 1 BY <1>p, <2>0 DEF Offset
    <3> QED BY <1>p, <3>1 DEF Tidy, Apart, Fit
  <2>4. Span(w.size, P["single"] \cup P["multi"]) \cap Span(w.size, {} \cup {a}) = {}
    <3>1. {} \cup {a} = {a} OBVIOUS
    <3> QED BY <1>p, <3>1, <1>2, <1>3 DEF Both
  <2>5. Tidy(w.size, w.file_size, P["single"] \cup {}, P["multi"] \cup {a})
    BY <1>p, <2>0, <2>2, <2>3, <2>4, TidyUnion
  <2>6. P["single"] \cup {} = Q["single"] BY <1>p, <1>0
  <2> QED BY <1>p, <2>5, <2>6, <1>0
<1>9. MemOK(w, Q) BY <1>p, <1>0, <1>6, <1>7, <1>8 DEF MemOK, Kind
<1> QED BY <1>1, <1>4, <1>9 DEF Grown

(* The least of a set of numbers. *)
LEMMA MinOf == ASSUME NEW S \in SUBSET Nat, S # {} PROVE Min(S) \in S /\ \A y \in S : Min(S) <= y
<1>1. \E m \in S : \A y \in S : m <= y BY LeastOf
<1> QED BY <1>1 DEF Min

(* An area a of n blocks was taken from the pool or from the end of the     *)
(* file, and nothing was touched but what was in the pool or beyond the end. *)
Region(m, w, P) == Span(m.size, Both(P)) \cup (m.file_size .. w.file_size - 1)
Taken(m, w, P, Q, a, n) ==
    /\ MemOK(w, Q) /\ m.file_size <= w.file_size
    /\ a \in 1 .. w.file_size - 1 /\ a + n <= w.file_size
    /\ w.size[a] = n /\ w.next[a] = 0
    /\ Of(w.size, a) \cap Span(w.size, Both(Q)) = {}
    /\ Of(w.size, a) \cup Span(w.size, Both(Q)) = Region(m, w, P)
    /\ Same(m.next, w.next, Offset \ Region(m, w, P))
    /\ Same(m.size, w.size, Offset \ Region(m, w, P))

(* An area that was unlinked is taken as it is. *)
LEMMA TakenWhole ==
    ASSUME NEW m, NEW P, MemOK(m, P), NEW w, NEW k, NEW c, NEW p, Unlinks(m, w, P, k, c, p),
           w.next[c] = 0
    PROVE  \E Q : Taken(m, w, P, Q, c, m.size[c])
<1> DEFINE Q == Less(P, k, c)
<1>1. /\ MemOK(w, Q)
      /\ Of(m.size, c) \cap Span(m.size, Both(Q)) = {}
      /\ Of(m.size, c) \cup Span(m.size, Both(Q)) = Span(m.size, Both(P))
  BY Unlinking
<1> HIDE DEF Q
<1>2. m.file_size \in Nat BY PoolNodes
<1>u. /\ k \in Kind /\ c \in P[k] /\ (p = 0 \/ p \in P[k])
      /\ w.file_size = m.file_size /\ w.size = m.size /\ w.next[0] = 0
      /\ Same(m.next, w.next, Offset \ {c, p})
  BY DEF Unlinks
<1>3. m.file_size .. w.file_size - 1 = {} BY <1>2, <1>u
<1>4. Region(m, w, P) = Span(m.size, Both(P)) BY <1>3 DEF Region
<1>5. P[k] \subseteq Both(P) /\ Both(P) \subseteq Span(m.size, Both(P)) /\ 0 \notin P[k]
      /\ Fit(m.size, m.file_size, Both(P))
  BY <1>u, PoolNodes
<1>6. c \in Both(P) /\ (p = 0 \/ p \in Both(P)) BY <1>5, <1>u
<1>7. c \in 1 .. m.file_size - 1 /\ c + m.size[c] <= m.file_size BY <1>5, <1>6 DEF Fit
<1>8. Same(m.next, w.next, Offset \ Region(m, w, P))
  <2> SUFFICES ASSUME NEW x \in Offset, x \notin Region(m, w, P) PROVE w.next[x] = m.next[x]
    BY DEF Same
  <2>1. CASE x = 0 BY <1>u, <2>1 DEF MemOK
  <2>2. CASE x # 0
    <3>1. x # c /\ x # p BY <2>2, <1>4, <1>5, <1>6
    <3> QED BY <1>u, <3>1 DEF Same
  <2> QED BY <2>1, <2>2
<1>9. Same(m.size, w.size, Offset \ Region(m, w, P)) BY <1>u DEF Same
<1>10. Taken(m, w, P, Q, c, m.size[c]) BY <1>u, <1>1, <1>2, <1>4, <1>7, <1>8, <1>9 DEF Taken
<1> QED BY <1>10

(* What Unlinked makes of a result. *)
LEMMA UnlinkedForm == ASSUME NEW x \in MemType, NEW a \in Offset PROVE
    Unlinked([m |-> x, area |-> a]) =
        [m |-> [x EXCEPT !.next = [x.next EXCEPT ![a] = 0]], area |-> a]
  BY DEF Unlinked, MemType

(* pop() *)
LEMMA PopTaken ==
    ASSUME NEW m, NEW P, MemOK(m, P), Pop(m).area # 0
    PROVE  \E Q : Taken(m, Unlinked(Pop(m)).m, P, Q, Unlinked(Pop(m)).area, 1)
<1> DEFINE l == m.pool["single"]
           c == l.head
           w == Unlinked(Pop(m)).m
           v == [head |-> m.next[c], tail |-> IF m.next[c] = 0 THEN 0 ELSE l.tail]
<1>0. m \in MemType /\ m.next[0] = 0 /\ "single" \in Kind BY DEF MemOK, Kind
<1>1. c # 0 /\ c \in Offset /\ l.tail \in Offset /\ m.next[c] \in Offset
  BY <1>0 DEF Pop, MemType, List
<1>2. Pop(m) = [m |-> [m EXCEPT !.pool["single"] = v], area |-> c]
  BY <1>1 DEF Pop, atomic_switch
<1>3. v \in List BY <1>1 DEF List, Offset
<1> DEFINE x == [m EXCEPT !.pool = [m.pool EXCEPT !["single"] = v]]
<1>4. /\ x \in MemType /\ x.file_size = m.file_size /\ x.size = m.size /\ x.next = m.next
      /\ x.pool = [m.pool EXCEPT !["single"] = v]
  <2> HIDE DEF v
  <2> QED BY <1>0, <1>3 DEF MemType
<1>5. Unlinked(Pop(m)).area = c /\ w = [x EXCEPT !.next = [x.next EXCEPT ![c] = 0]]
  <2>1. Pop(m) = [m |-> x, area |-> c] BY <1>2
  <2> HIDE DEF x, c
  <2>2. Unlinked(Pop(m)) = [m |-> [x EXCEPT !.next = [x.next EXCEPT ![c] = 0]], area |-> c]
    BY <2>1, <1>1, <1>4, UnlinkedForm
  <2> QED BY <2>2
<1> HIDE DEF v, c, l, w, x
<1>6. /\ w \in MemType /\ w.file_size = m.file_size /\ w.size = m.size
      /\ w.next = [m.next EXCEPT ![c] = 0]
      /\ w.pool["single"] = v /\ \A j \in Kind \ {"single"} : w.pool[j] = m.pool[j]
  <2>1. 0 \in Offset BY AreasAssumption DEF Offset
  <2>2. [m.next EXCEPT ![c] = 0] \in [Offset -> Offset] BY <1>0, <2>1 DEF MemType
  <2>3. w = [x EXCEPT !.next = [m.next EXCEPT ![c] = 0]] BY <1>4, <1>5
  <2>4. /\ w \in MemType /\ w.file_size = x.file_size /\ w.size = x.size /\ w.pool = x.pool
        /\ w.next = [m.next EXCEPT ![c] = 0]
    BY <1>4, <2>2, <2>3 DEF MemType
  <2>5. m.pool \in [Kind -> List] BY <1>0 DEF MemType
  <2> QED BY <2>4, <2>5, <1>0, <1>4
<1>7. ListOK(m.next, c, l.tail, P["single"]) /\ 0 \notin P["single"]
  BY <1>0, PoolNodes DEF MemOK, c, l
<1>8. c \in P["single"] /\ (m.next[c] = 0 <=> c = l.tail) BY <1>7, <1>1 DEF ListOK, Seg
<1>9. m.size[c] = 1 BY <1>8 DEF MemOK, Tidy
<1>10. /\ w.next[0] = 0 /\ w.next[c] = 0 /\ Same(m.next, w.next, Offset \ {c, 0})
  BY <1>0, <1>1, <1>6 DEF Same, MemType
<1>11. v.head = m.next[c] /\ v.tail = (IF c = l.tail THEN 0 ELSE l.tail) BY <1>8 DEF v
<1>12. 0 \in Offset BY AreasAssumption DEF Offset
<1>13. \E Q : Taken(m, w, P, Q, c, m.size[c])
  <2>1. w.pool["single"].head = (IF 0 = 0 THEN m.next[c] ELSE m.pool["single"].head)
    BY <1>6, <1>11
  <2>2. w.pool["single"].tail = (IF c = m.pool["single"].tail THEN 0 ELSE m.pool["single"].tail)
    BY <1>6, <1>11 DEF l
  <2>3. IF 0 = 0 THEN c = m.pool["single"].head ELSE 0 \in P["single"] /\ m.next[0] = c
    BY DEF c, l
  <2>4. 0 # 0 => w.next[0] = m.next[c] OBVIOUS
  <2>5. Unlinks(m, w, P, "single", c, 0)
    BY <1>0, <1>6, <1>8, <1>10, <1>12, <2>1, <2>2, <2>3, <2>4 DEF Unlinks
  <2> QED BY <2>5, <1>10, TakenWhole
<1> QED BY <1>13, <1>9, <1>5 DEF w

(* find_and_remove() finds an area of the list that is large enough, with   *)
(* the area before it.                                                      *)
LEMMA FindsArea ==
    ASSUME NEW m, NEW P, MemOK(m, P), NEW n \in Nat \ {0}, Fits(m, n) # {},
           NEW i, i = Min(Fits(m, n)), NEW path, path = Walk(m.next, m.pool["multi"].head, i),
           NEW p, p = (IF i = 1 THEN 0 ELSE path[i - 1])
    PROVE  /\ path[i] \in P["multi"] /\ m.size[path[i]] >= n /\ p \in Offset
           /\ IF p = 0 THEN path[i] = m.pool["multi"].head
              ELSE p \in P["multi"] /\ m.next[p] = path[i]
<1> DEFINE h == m.pool["multi"].head
           W == Walk(m.next, h, MAX_ITER)
           N == P["multi"]
<1>0. m.next \in [Offset -> Offset] /\ m.next[0] = 0 /\ h \in Offset /\ MAX_ITER \in Nat \ {0}
  BY PoolNodes, AreasAssumption DEF Kind, MemOK
<1>1. ListOK(m.next, h, m.pool["multi"].tail, N) /\ 0 \notin N /\ N \subseteq Offset
  BY PoolNodes DEF MemOK, Kind
<1>2. h \in N \cup {0} /\ \A a \in N : m.next[a] \in N \cup {0} BY <1>1 DEF ListOK, Seg
<1>3. Route(m.next, h, MAX_ITER, W) BY <1>0, WalkRoute
<1>4. Fits(m, n) = {j \in DOMAIN W : m.size[W[j]] >= n} BY DEF Fits
<1>5. i \in DOMAIN W /\ m.size[W[i]] >= n /\ i \in 1 .. MAX_ITER
  <2> HIDE DEF W
  <2>1. Fits(m, n) \in SUBSET Nat BY <1>3, <1>4 DEF Route
  <2>2. i \in Fits(m, n) BY <2>1, MinOf
  <2> QED BY <2>2, <1>3, <1>4 DEF Route
<1>6. i \in DOMAIN path /\ path[i] = W[i]
  <2>1. W[i] = Follow(m.next, h)[i - 1] /\ W[i] # 0 BY <1>0, <1>5, WalkPath
  <2>2. path = [j \in {c \in 1 .. i : Follow(m.next, h)[c - 1] # 0} |-> Follow(m.next, h)[j - 1]]
    BY DEF Walk
  <2>3. i \in 1 .. i BY <1>5
  <2> HIDE DEF W
  <2> QED BY <2>1, <2>2, <2>3
<1>7. Route(m.next, h, i, path) BY <1>0, <1>5, WalkRoute
<1> HIDE DEF W, h, N
<1>8. i \in Nat BY <1>5
<1>9. path[i] \in N BY <1>2, <1>6, <1>7, <1>8, RouteStays
<1>10. CASE i = 1
  <2>1. p = 0 /\ path[i] = h BY <1>10, <1>6, <1>7 DEF Route
  <2>2. 0 \in Offset BY AreasAssumption DEF Offset
  <2> QED BY <2>1, <2>2, <1>9, <1>5, <1>6 DEF h, N
<1>11. CASE i # 1
  <2>1. i - 1 \in DOMAIN path /\ path[i] = m.next[path[i - 1]] /\ p = path[i - 1]
    BY <1>11, <1>6, <1>7 DEF Route
  <2>2. p \in N BY <2>1, <1>2, <1>7, <1>8, RouteStays
  <2>3. p # 0 /\ p \in Offset BY <2>2, <1>1
  <2> QED BY <2>1, <2>2, <2>3, <1>9, <1>5, <1>6 DEF h, N
<1> QED BY <1>10, <1>11

(* Links and sizes after find_and_remove(). *)
CutNext(m, c, p) ==
    IF p = 0 THEN m.next ELSE [m.next EXCEPT ![p] = m.next[c]]
Whole1(m, c, p, h, t) ==
    [m EXCEPT !.next = [CutNext(m, c, p) EXCEPT ![c] = 0],
              !.pool = [m.pool EXCEPT !["multi"] = [head |-> h, tail |-> t]]]
Split1(m, c, p, n, h, t) ==
    [m EXCEPT !.next = [CutNext(m, c, p) EXCEPT ![c + n] = h, ![c] = 0],
              !.size = [m.size EXCEPT ![c + n] = m.size[c] - n, ![c] = n],
              !.pool = [m.pool EXCEPT !["multi"] = [head |-> c + n, tail |-> t]]]

(* The area that was found, whole or split. *)
LEMMA FindForm ==
    ASSUME NEW m, NEW P, MemOK(m, P), NEW n \in Nat \ {0}, Fits(m, n) # {}
    PROVE  \E c, p \in Offset :
             LET h == IF p = 0 THEN m.next[c] ELSE m.pool["multi"].head
                 t == IF c = m.pool["multi"].tail THEN p ELSE m.pool["multi"].tail
             IN /\ c \in P["multi"] /\ m.size[c] >= n
                /\ IF p = 0 THEN c = m.pool["multi"].head ELSE p \in P["multi"] /\ m.next[p] = c
                /\ Unlinked(FindAndRemove(m, n)) =
                     [m |-> IF m.size[c] = n THEN Whole1(m, c, p, h, IF t = 0 THEN h ELSE t)
                            ELSE Split1(m, c, p, n, h, IF t = 0 THEN c + n ELSE t),
                      area |-> c]
<1> DEFINE l == m.pool["multi"]
           i == Min(Fits(m, n))
           path == Walk(m.next, l.head, i)
           c == path[i]
           p == IF i = 1 THEN 0 ELSE path[i - 1]
           h == IF p = 0 THEN m.next[c] ELSE l.head
           t == IF c = l.tail THEN p ELSE l.tail
           cut == IF p = 0 THEN m ELSE [m EXCEPT !.next[p] = m.next[c]]
           r == Rest(cut, c, n, h)
           res == atomic_switch(r.m, "multi", r.head, IF t = 0 THEN r.head ELSE t)
<1>1. FindAndRemove(m, n) = [m |-> res, area |-> c]
  BY DEF FindAndRemove, LastAfter
<1>2. /\ c \in P["multi"] /\ m.size[c] >= n /\ p \in Offset
      /\ IF p = 0 THEN c = l.head ELSE p \in P["multi"] /\ m.next[p] = c
  BY FindsArea
<1>3. c \in Offset /\ m \in MemType BY <1>2 DEF MemOK, Sets, Kind
<1> HIDE DEF i, path, c, p
<1>4. cut = [m EXCEPT !.next = CutNext(m, c, p)] /\ cut.size = m.size /\ cut.next = CutNext(m, c, p)
  BY <1>3 DEF CutNext, MemType
<1>5. /\ CutNext(m, c, p) \in [Offset -> Offset] /\ h \in Offset /\ t \in Offset
      /\ m.next \in [Offset -> Offset] /\ m.size \in [Offset -> Nat] /\ m.pool \in [Kind -> List]
  <2>1. l \in List BY <1>3 DEF MemType, Kind
  <2> QED BY <1>2, <1>3, <2>1 DEF CutNext, MemType, List
<1>6. CASE m.size[c] = n
  <2> DEFINE z == [head |-> h, tail |-> IF t = 0 THEN h ELSE t]
  <2>1. z \in List BY <1>5 DEF List
  <2>2. r = [m |-> cut, head |-> h] BY <1>4, <1>6 DEF Rest
  <2>3. res = [cut EXCEPT !.pool["multi"] = z] BY <2>2 DEF atomic_switch
  <2> HIDE DEF z, h, t, l, r, cut
  <2>4. res = [m EXCEPT !.next = CutNext(m, c, p), !.pool = [m.pool EXCEPT !["multi"] = z]]
    BY <2>3, <1>3, <1>4, <1>5 DEF MemType
  <2>5. [m.pool EXCEPT !["multi"] = z] \in [Kind -> List] BY <1>5, <2>1
  <2> HIDE DEF res
  <2>6. res \in MemType /\ res.next = CutNext(m, c, p) BY <2>4, <2>5, <1>3, <1>5 DEF MemType
  <2>7. Unlinked([m |-> res, area |-> c])
          = [m |-> [res EXCEPT !.next = [res.next EXCEPT ![c] = 0]], area |-> c]
    BY <2>6, <1>3, UnlinkedForm
  <2>8. [res EXCEPT !.next = [res.next EXCEPT ![c] = 0]]
          = [m EXCEPT !.next = [CutNext(m, c, p) EXCEPT ![c] = 0],
                      !.pool = [m.pool EXCEPT !["multi"] = z]]
    BY <2>4, <2>6, <1>3 DEF MemType
  <2>9. Unlinked(FindAndRemove(m, n)) = [m |-> Whole1(m, c, p, h, IF t = 0 THEN h ELSE t), area |-> c]
    BY <1>1, <2>7, <2>8 DEF Whole1, z
  <2> QED BY <2>9, <1>2, <1>3, <1>6 DEF h, t, l
<1>7. CASE m.size[c] # n
  <2> DEFINE z == [head |-> c + n, tail |-> IF t = 0 THEN c + n ELSE t]
             nx == [CutNext(m, c, p) EXCEPT ![c + n] = h]
             sz == [m.size EXCEPT ![c + n] = m.size[c] - n, ![c] = n]
  <2>0. c + n \in Offset
    <3>1. Fit(m.size, m.file_size, Both(P)) /\ m.file_size \in Nat /\ m.file_size <= MapSize BY PoolNodes
    <3>2. c \in Both(P) BY <1>2 DEF Both
    <3>3. c \in 1 .. m.file_size - 1 /\ m.size[c] \in Nat /\ c + m.size[c] <= m.file_size
      BY <3>1, <3>2 DEF Fit
    <3> QED BY <3>1, <3>3, <1>2, <1>7, AreasAssumption DEF Offset
  <2>1. z \in List BY <1>5, <2>0 DEF List
  <2>2. r = [m |-> [cut EXCEPT !.next[c + n] = h, !.size[c + n] = m.size[c] - n, !.size[c] = n],
             head |-> c + n]
    BY <1>4, <1>7 DEF Rest
  <2> HIDE DEF h, t, l, r, cut
  <2>3. res = [[cut EXCEPT !.next[c + n] = h, !.size[c + n] = m.size[c] - n, !.size[c] = n]
                 EXCEPT !.pool["multi"] = z]
    <3>1. r.head = c + n /\ r.m = [cut EXCEPT !.next[c + n] = h, !.size[c + n] = m.size[c] - n, !.size[c] = n]
      BY <2>2
    <3> QED BY <3>1 DEF atomic_switch
  <2> HIDE DEF z
  <2>4. res = [m EXCEPT !.next = nx, !.size = sz, !.pool = [m.pool EXCEPT !["multi"] = z]]
    BY <2>3, <1>3, <1>4, <1>5 DEF MemType
  <2>5. [m.pool EXCEPT !["multi"] = z] \in [Kind -> List] BY <1>5, <2>1
  <2>6. m.size[c] - n \in Nat BY <1>2, <1>3, <1>5
  <2>7. nx \in [Offset -> Offset] /\ sz \in [Offset -> Nat] BY <1>5, <2>6
  <2> HIDE DEF res, nx, sz
  <2>8. res \in MemType /\ res.next = nx BY <2>4, <2>5, <2>7, <1>3 DEF MemType
  <2>9. Unlinked([m |-> res, area |-> c])
          = [m |-> [res EXCEPT !.next = [res.next EXCEPT ![c] = 0]], area |-> c]
    BY <2>8, <1>3, UnlinkedForm
  <2>10. [res EXCEPT !.next = [res.next EXCEPT ![c] = 0]]
          = [m EXCEPT !.next = [nx EXCEPT ![c] = 0], !.size = sz,
                      !.pool = [m.pool EXCEPT !["multi"] = z]]
    BY <2>4, <2>8, <1>3 DEF MemType
  <2>11. Unlinked(FindAndRemove(m, n))
           = [m |-> Split1(m, c, p, n, h, IF t = 0 THEN c + n ELSE t), area |-> c]
    <3>1. [nx EXCEPT ![c] = 0] = [CutNext(m, c, p) EXCEPT ![c + n] = h, ![c] = 0] BY <1>5 DEF nx
    <3> QED BY <1>1, <2>9, <2>10, <3>1 DEF Split1, z, sz
  <2> QED BY <2>11, <1>2, <1>3, <1>7 DEF h, t, l
<1> QED BY <1>6, <1>7

(* Taking an area of exactly the size. *)
LEMMA WholeTaken ==
    ASSUME NEW m, NEW P, MemOK(m, P), NEW c \in P["multi"], NEW p \in Offset,
           IF p = 0 THEN c = m.pool["multi"].head ELSE p \in P["multi"] /\ m.next[p] = c,
           NEW h, h = (IF p = 0 THEN m.next[c] ELSE m.pool["multi"].head),
           NEW t, t = (IF c = m.pool["multi"].tail THEN p ELSE m.pool["multi"].tail),
           NEW w, w = Whole1(m, c, p, h, t)
    PROVE  Unlinks(m, w, P, "multi", c, p) /\ w.next[c] = 0
<1>0. /\ m \in MemType /\ "multi" \in Kind /\ c \in Offset /\ 0 \in Offset /\ m.next[0] = 0
      /\ 0 \notin P["multi"]
  BY PoolNodes, AreasAssumption DEF MemOK, Sets, Kind, Offset
<1>1. /\ m.next \in [Offset -> Offset] /\ m.pool \in [Kind -> List]
      /\ m.pool["multi"].head \in Offset /\ m.pool["multi"].tail \in Offset
  BY <1>0, PoolNodes DEF MemType
<1> DEFINE nx == [CutNext(m, c, p) EXCEPT ![c] = 0]
           v == [head |-> h, tail |-> t]
<1>2. nx \in [Offset -> Offset] BY <1>0, <1>1 DEF CutNext
<1>3. v \in List BY <1>0, <1>1 DEF List
<1>4. nx[0] = 0 /\ nx[c] = 0 /\ Same(m.next, nx, Offset \ {c, p}) /\ (p # 0 /\ p # c => nx[p] = m.next[c])
  BY <1>0, <1>1 DEF CutNext, Same
<1>5. w = [m EXCEPT !.next = nx, !.pool = [m.pool EXCEPT !["multi"] = v]] BY DEF Whole1
<1> HIDE DEF nx, v
<1>6. [m.pool EXCEPT !["multi"] = v] \in [Kind -> List] BY <1>1, <1>3
<1>7. /\ w \in MemType /\ w.next = nx /\ w.pool = [m.pool EXCEPT !["multi"] = v]
      /\ w.size = m.size /\ w.file_size = m.file_size
  BY <1>0, <1>2, <1>5, <1>6 DEF MemType
<1>8. w.pool["multi"] = v /\ \A j \in Kind \ {"multi"} : w.pool[j] = m.pool[j] BY <1>7, <1>1, <1>0
<1>9. v.head = h /\ v.tail = t BY DEF v
<1>10. p = c => nx[p] = m.next[c]
  <2> SUFFICES ASSUME p = c PROVE m.next[c] = 0 BY <1>4
  <2>1. p # 0 BY <1>0
  <2>2. m.next[c] = c BY <2>1
  <2>3. ListOK(m.next, m.pool["multi"].head, m.pool["multi"].tail, P["multi"]) BY <1>0 DEF MemOK
  <2>4. Seg(m.next, m.pool["multi"].head, m.pool["multi"].tail, P["multi"]) /\ m.next[m.pool["multi"].tail] = 0
    BY <2>3 DEF ListOK
  <2> QED BY <2>2, <2>4, SegSelf
<1> QED BY <1>0, <1>4, <1>7, <1>8, <1>9, <1>10 DEF Unlinks

(* An area that is too large is split, the rest is the new head. *)
LEMMA SplitTaken ==
    ASSUME NEW m, NEW P, MemOK(m, P), NEW c \in P["multi"], NEW p \in Offset,
           IF p = 0 THEN c = m.pool["multi"].head ELSE p \in P["multi"] /\ m.next[p] = c,
           NEW n \in Nat \ {0}, m.size[c] >= n, m.size[c] # n,
           NEW h, h = (IF p = 0 THEN m.next[c] ELSE m.pool["multi"].head),
           NEW t, t = (IF c = m.pool["multi"].tail THEN p ELSE m.pool["multi"].tail),
           NEW w, w = Split1(m, c, p, n, h, IF t = 0 THEN c + n ELSE t)
    PROVE  \E Q : Taken(m, w, P, Q, c, n)
<1> DEFINE x == Whole1(m, c, p, h, t)
           R == Less(P, "multi", c)
           a == c + n
           s == m.size[c] - n
           Q == More(R, "multi", {a})
<1>1. Unlinks(m, x, P, "multi", c, p) /\ x.next[c] = 0 BY WholeTaken
<1>2. /\ MemOK(x, R) /\ Both(R) = Both(P) \ {c}
      /\ Of(m.size, c) \cap Span(m.size, Both(R)) = {}
      /\ Of(m.size, c) \cup Span(m.size, Both(R)) = Span(m.size, Both(P))
  <2> HIDE DEF x
  <2> QED BY <1>1, Unlinking
<1>3. /\ m.file_size \in Nat /\ m.file_size <= MapSize /\ Fit(m.size, m.file_size, Both(P))
      /\ m.size \in [Offset -> Nat] /\ 0 \notin P["multi"] /\ m \in MemType
      /\ Both(P) \subseteq Span(m.size, Both(P)) /\ Apart(m.size, Both(P))
      /\ m.next \in [Offset -> Offset] /\ MapSize \in Nat /\ m.next[0] = 0
  BY PoolNodes, AreasAssumption DEF Kind, MemOK
<1>4. c \in Both(P) /\ (p # 0 => p \in Both(P)) BY DEF Both
<1>5. c \in 1 .. m.file_size - 1 /\ m.size[c] \in Nat \ {0} /\ c + m.size[c] <= m.file_size
  BY <1>3, <1>4 DEF Fit
<1>6. /\ a \in Offset \ {0} /\ s \in Nat \ {0} /\ a + s = c + m.size[c] /\ a # c /\ a \in Of(m.size, c)
      /\ c \in Offset /\ a + s <= m.file_size
  <2> DEFINE z == m.size[c]
             f == m.file_size
  <2>1. /\ z \in Nat \ {0} /\ f \in Nat /\ f <= MapSize /\ MapSize \in Nat /\ z >= n /\ z # n
        /\ c \in 1 .. f - 1 /\ c + z <= f
    BY <1>3, <1>5
  <2> HIDE DEF z, f
  <2>2. c \in Nat /\ n \in Nat \ {0} /\ z > n BY <2>1
  <2>3. /\ c + n \in 1 .. MapSize - 1 /\ z - n \in Nat \ {0} /\ (c + n) + (z - n) = c + z
        /\ c + n # c /\ c + n \in c .. c + z - 1 /\ c \in 0 .. MapSize - 1
        /\ (c + n) + (z - n) <= f
    BY <2>1, <2>2
  <2> QED BY <2>3 DEF Offset, Of, z, f
<1>7. a .. a + s - 1 \subseteq Of(m.size, c) BY <1>6, <1>5 DEF Of
<1>8. /\ x.file_size = m.file_size /\ x.size = m.size /\ x \in MemType
      /\ x.pool["multi"].head = h /\ x.pool["multi"].tail = t
      /\ \A j \in Kind \ {"multi"} : x.pool[j] = m.pool[j]
      /\ x.next[0] = 0
  BY <1>1 DEF Unlinks
<1>9. x.next = [CutNext(m, c, p) EXCEPT ![c] = 0] /\ h \in Offset /\ t \in Offset
  <2>1. x.next = [CutNext(m, c, p) EXCEPT ![c] = 0] BY <1>3 DEF Whole1, MemType
  <2>2. x.pool["multi"] \in List BY <1>8 DEF MemType, Kind
  <2> QED BY <2>1, <2>2, <1>8 DEF List
<1> DEFINE nx == [CutNext(m, c, p) EXCEPT ![a] = h, ![c] = 0]
           sz == [m.size EXCEPT ![a] = s, ![c] = n]
           v == [head |-> a, tail |-> IF t = 0 THEN a ELSE t]
<1>10. w = [m EXCEPT !.next = nx, !.size = sz, !.pool = [m.pool EXCEPT !["multi"] = v]]
  BY DEF Split1
<1>11. CutNext(m, c, p) \in [Offset -> Offset] BY <1>3, <1>6 DEF CutNext
<1>12. nx \in [Offset -> Offset] /\ sz \in [Offset -> Nat] /\ v \in List
  <2> HIDE DEF x, a, s
  <2>1. 0 \in Offset BY <1>3, <1>6 DEF Offset
  <2>2. nx \in [Offset -> Offset] BY <2>1, <1>11, <1>9
  <2>3. sz \in [Offset -> Nat] BY <1>3, <1>6
  <2>4. v \in List BY <1>6, <1>9 DEF List
  <2> QED BY <2>2, <2>3, <2>4
<1>13. /\ nx[0] = 0 /\ nx[a] = h /\ nx[c] = 0 /\ \A y \in Offset \ {a} : nx[y] = x.next[y]
       /\ sz[a] = s /\ sz[c] = n /\ \A y \in Offset \ {a, c} : sz[y] = m.size[y]
  <2> DEFINE g == CutNext(m, c, p)
  <2>0. g \in [Offset -> Offset] /\ nx = [g EXCEPT ![a] = h, ![c] = 0] /\ x.next = [g EXCEPT ![c] = 0]
    BY <1>11, <1>9
  <2> HIDE DEF g, nx, x
  <2>1. 0 # a /\ 0 # c /\ a # c /\ a \in Offset /\ c \in Offset /\ 0 \in Offset
    <3>1. MapSize \in Nat \ {0} BY AreasAssumption
    <3> HIDE DEF a, s
    <3> QED BY <1>6, <1>5, <3>1 DEF Offset
  <2> HIDE DEF a, s
  <2>2. nx[a] = h /\ nx[c] = 0 /\ \A y \in Offset \ {a} : nx[y] = x.next[y] BY <2>0, <2>1
  <2>3. nx[0] = 0 BY <2>1, <2>2, <1>8
  <2>4. sz[a] = s /\ sz[c] = n /\ \A y \in Offset \ {a, c} : sz[y] = m.size[y] BY <2>1, <1>3
  <2> QED BY <2>2, <2>3, <2>4
<1> HIDE DEF nx, sz, v, x, R, a, s, Q
<1>14. /\ w \in MemType /\ w.next = nx /\ w.size = sz /\ w.file_size = m.file_size
       /\ w.pool = [m.pool EXCEPT !["multi"] = v]
  <2>1. m.pool \in [Kind -> List] BY <1>3 DEF MemType
  <2>2. [m.pool EXCEPT !["multi"] = v] \in [Kind -> List] BY <2>1, <1>12
  <2> QED BY <2>2, <1>3, <1>10, <1>12 DEF MemType
<1>15. w.pool["single"] = x.pool["single"] /\ w.pool["multi"] = v
  <2>1. m.pool \in [Kind -> List] BY <1>3 DEF MemType
  <2> QED BY <2>1, <1>14, <1>8 DEF Kind
<1>16. v.head = a /\ v.tail = (IF t = 0 THEN a ELSE t) BY DEF v
<1>17. a \notin Both(R) /\ c \notin Both(R) /\ Both(R) \subseteq Offset
  <2>1. Both(R) \subseteq Span(m.size, Both(R)) /\ Both(R) \subseteq Offset
    BY <1>2, <1>8, PoolNodes DEF Both, Kind
  <2> QED BY <2>1, <1>2, <1>6
<1>18. Same(x.next, w.next, Both(R)) /\ Same(x.size, w.size, Both(R))
  <2>1. ASSUME NEW y \in Both(R) PROVE w.next[y] = x.next[y]
    <3>1. y \in Offset \ {a} BY <1>17
    <3>2. nx[y] = x.next[y] BY <3>1, <1>13
    <3> QED BY <3>2, <1>14
  <2>2. ASSUME NEW y \in Both(R) PROVE w.size[y] = x.size[y]
    <3>1. y \in Offset \ {a, c} BY <1>17
    <3>2. sz[y] = m.size[y] BY <3>1, <1>13
    <3> QED BY <3>2, <1>14, <1>8
  <2> QED BY ONLY <2>1, <2>2 DEF Same
<1>19. (a .. a + s - 1) \cap Span(x.size, Both(R)) = {} BY <1>2, <1>7, <1>8
<1>20. /\ MemOK(w, Q)
       /\ Span(w.size, Both(Q)) = Span(x.size, Both(R)) \cup (a .. a + s - 1)
  <2>1. x.file_size <= w.file_size /\ a + s <= w.file_size BY <1>8, <1>14, <1>6, <1>3
  <2>2. w.next[0] = 0 /\ w.next[a] = x.pool["multi"].head /\ w.size[a] = s BY <1>13, <1>14, <1>8
  <2>3. w.pool["multi"].head = a
        /\ w.pool["multi"].tail = (IF x.pool["multi"].tail = 0 THEN a ELSE x.pool["multi"].tail)
    BY <1>15, <1>16, <1>8
  <2>4. Q = More(R, "multi", {a}) BY DEF Q
  <2>5. Pushes(x, w, R, a, s)
    BY <1>6, <1>14, <1>15, <1>18, <1>19, <2>1, <2>2, <2>3 DEF Pushes
  <2>6. MemOK(x, R) BY <1>2
  <2>7. MemOK(w, Q) BY <2>4, <2>5, <2>6, Pushing
  <2>8. Grown(x, w, R, Q, a) BY <2>4, <2>5, <2>6, Pushing
  <2>9. Of(w.size, a) = a .. a + s - 1 BY <2>2 DEF Of
  <2> QED BY <2>7, <2>8, <2>9 DEF Grown
<1>21. Of(w.size, c) = c .. a - 1 /\ Of(m.size, c) = (c .. a - 1) \cup (a .. a + s - 1)
       /\ (c .. a - 1) \cap (a .. a + s - 1) = {}
  <2> DEFINE z == m.size[c]
  <2>1. w.size[c] = n /\ z \in Nat \ {0} /\ c \in Nat /\ z >= n /\ z # n BY <1>13, <1>14, <1>5
  <2>2. a = c + n /\ s = z - n BY DEF a, s
  <2> HIDE DEF z
  <2>3. /\ c .. c + n - 1 = c .. a - 1 /\ c .. c + z - 1 = (c .. a - 1) \cup (a .. a + s - 1)
        /\ (c .. a - 1) \cap (a .. a + s - 1) = {}
    BY <2>1, <2>2
  <2> QED BY <2>1, <2>3 DEF Of, z
<1>22. Region(m, w, P) = Span(m.size, Both(P))
  <2>1. m.file_size .. w.file_size - 1 = {} BY <1>14, <1>3
  <2> QED BY <2>1 DEF Region
<1>23. Of(w.size, c) \cap Span(w.size, Both(Q)) = {} BY <1>20, <1>21, <1>2, <1>8
<1>24. Of(w.size, c) \cup Span(w.size, Both(Q)) = Region(m, w, P)
  BY <1>20, <1>21, <1>22, <1>2, <1>8
<1>25. a \in Span(m.size, Both(P)) /\ c \in Span(m.size, Both(P)) /\ (p # 0 => p \in Span(m.size, Both(P)))
  BY <1>2, <1>3, <1>4, <1>6
<1>26. Same(m.size, w.size, Offset \ Region(m, w, P)) BY <1>25, <1>22, <1>13, <1>14 DEF Same
<1>27. Same(m.next, w.next, Offset \ Region(m, w, P))
  <2>1. Same(m.next, x.next, Offset \ {c, p}) BY <1>1 DEF Unlinks
  <2> SUFFICES ASSUME NEW y \in Offset, y \notin Region(m, w, P) PROVE w.next[y] = m.next[y]
    BY DEF Same
  <2>2. y # a /\ y # c BY <1>25, <1>22
  <2>3. w.next[y] = x.next[y] BY <2>2, <1>13, <1>14
  <2>4. CASE y = 0 BY <2>3, <2>4, <1>8, <1>3
  <2>5. CASE y # 0
    <3>1. y # p BY <2>5, <1>25, <1>22
    <3> QED BY <3>1, <2>1, <2>2, <2>3 DEF Same
  <2> QED BY <2>4, <2>5
<1>28. c + n <= w.file_size /\ c \in 1 .. w.file_size - 1 /\ m.file_size <= w.file_size
  BY <1>5, <1>6, <1>14, <1>3 DEF a
<1>29. Taken(m, w, P, Q, c, n)
  BY <1>13, <1>14, <1>20, <1>23, <1>24, <1>26, <1>27, <1>28 DEF Taken
<1> QED BY <1>29

(* find_and_remove(), when it finds something. *)
LEMMA FindTaken ==
    ASSUME NEW m, NEW P, MemOK(m, P), NEW n \in Nat \ {0}, Fits(m, n) # {}
    PROVE  /\ FindAndRemove(m, n).area # 0
           /\ \E Q : Taken(m, Unlinked(FindAndRemove(m, n)).m, P, Q,
                           Unlinked(FindAndRemove(m, n)).area, n)
<1> DEFINE l == m.pool["multi"]
           hd(c, p) == IF p = 0 THEN m.next[c] ELSE l.head
           tl(c, p) == IF c = l.tail THEN p ELSE l.tail
<1>1. PICK c \in Offset, p \in Offset :
        /\ c \in P["multi"] /\ m.size[c] >= n
        /\ IF p = 0 THEN c = l.head ELSE p \in P["multi"] /\ m.next[p] = c
        /\ Unlinked(FindAndRemove(m, n)) =
             [m |-> IF m.size[c] = n THEN Whole1(m, c, p, hd(c, p), IF tl(c, p) = 0 THEN hd(c, p) ELSE tl(c, p))
                    ELSE Split1(m, c, p, n, hd(c, p), IF tl(c, p) = 0 THEN c + n ELSE tl(c, p)),
              area |-> c]
  BY FindForm
<1> DEFINE h == hd(c, p)
           t == tl(c, p)
<1>2. ListOK(m.next, l.head, l.tail, P["multi"]) /\ 0 \notin P["multi"]
  BY PoolNodes DEF MemOK, Kind
<1>3. t = 0 => h = 0
  BY <1>1, <1>2 DEF ListOK, Seg
<1>4. FindAndRemove(m, n).area = Unlinked(FindAndRemove(m, n)).area
  <2>1. FindAndRemove(m, n) = [m |-> FindAndRemove(m, n).m, area |-> FindAndRemove(m, n).area]
    BY DEF FindAndRemove
  <2> DEFINE f == FindAndRemove(m, n)
  <2>2. f = [m |-> f.m, area |-> f.area] BY <2>1
  <2> HIDE DEF f
  <2>3. Unlinked(f).area = f.area BY <2>2 DEF Unlinked
  <2> QED BY <2>3 DEF f
<1>5. Unlinked(FindAndRemove(m, n)).area = c /\ c # 0 BY <1>1, <1>2
<1>6. CASE m.size[c] = n
  <2>1. Unlinked(FindAndRemove(m, n)).m = Whole1(m, c, p, h, t) BY <1>1, <1>3, <1>6
  <2> DEFINE w == Whole1(m, c, p, h, t)
  <2>2. Unlinks(m, w, P, "multi", c, p) /\ w.next[c] = 0 BY <1>1, WholeTaken
  <2> HIDE DEF w, h, t
  <2>3. \E Q : Taken(m, w, P, Q, c, m.size[c]) BY <2>2, TakenWhole
  <2> QED BY <2>1, <2>3, <1>4, <1>5, <1>6 DEF w
<1>7. CASE m.size[c] # n
  <2> DEFINE w == Split1(m, c, p, n, h, IF t = 0 THEN c + n ELSE t)
  <2>1. Unlinked(FindAndRemove(m, n)).m = w BY <1>1, <1>7
  <2>2. \E Q : Taken(m, w, P, Q, c, n) BY <1>1, <1>7, SplitTaken
  <2> HIDE DEF w, h, t
  <2> QED BY <2>1, <2>2, <1>4, <1>5
<1> QED BY <1>6, <1>7

(* The pool does not mind what happens elsewhere, nor a larger file. *)
LEMMA MemFrame ==
    ASSUME NEW m, NEW P, MemOK(m, P), NEW w \in MemType, w.next[0] = 0, w.pool = m.pool,
           m.file_size <= w.file_size, Same(m.next, w.next, Both(P)), Same(m.size, w.size, Both(P))
    PROVE  MemOK(w, P)
<1>1. ASSUME NEW k \in Kind PROVE ListOK(w.next, w.pool[k].head, w.pool[k].tail, P[k])
  <2>1. ListOK(m.next, m.pool[k].head, m.pool[k].tail, P[k]) BY DEF MemOK
  <2>2. 0 \notin P[k] /\ P[k] \subseteq Both(P) BY PoolNodes
  <2>3. Same(m.next, w.next, P[k]) BY <2>2 DEF Same
  <2> QED BY <2>1, <2>2, <2>3, ListFrame
<1>2. m.file_size \in Nat /\ w.file_size \in Nat BY PoolNodes, AreasAssumption DEF MemType
<1>3. Tidy(m.size, m.file_size, P["single"], P["multi"]) BY DEF MemOK
<1>4. Tidy(w.size, w.file_size, P["single"], P["multi"]) BY <1>2, <1>3, TidyFrame DEF Both
<1> QED BY <1>1, <1>4 DEF MemOK

(* The largest of three numbers. *)
LEMMA MaxOfThree == ASSUME NEW a \in Nat, NEW b \in Nat, NEW c \in Nat PROVE
    Max({a, b, c}) \in Nat /\ Max({a, b, c}) >= a
<1>1. \E x \in {a, b, c} : \A y \in {a, b, c} : x >= y OBVIOUS
<1>2. Max({a, b, c}) \in {a, b, c} /\ \A y \in {a, b, c} : Max({a, b, c}) >= y
  BY <1>1 DEF Max
<1> QED BY <1>2

(* resize_file(): the area is at the old end, what is not asked for goes to *)
(* the pool.                                                                *)
LEMMA ResizedTaken ==
    ASSUME NEW m, NEW P, MemOK(m, P), NEW n \in Nat \ {0}, file_size \in Nat,
           m.file_size + Growth(n) <= MapSize
    PROVE  \E Q : Taken(m, Resized(m, n).m, P, Q, Resized(m, n).area, n)
<1> DEFINE G == Growth(n)
           at == m.file_size
           a == at + n
           g == [m EXCEPT !.file_size = at + G, !.next = [m.next EXCEPT ![at] = 0],
                          !.size = [m.size EXCEPT ![at] = n]]
           w == Resized(m, n).m
<1>1. G \in Nat /\ G >= n
  <2>1. MIN_GROWTH \in Nat BY AreasAssumption
  <2>2. file_size \div 4 \in Nat OBVIOUS
  <2> QED BY <2>1, <2>2, MaxOfThree DEF Growth
<1>2. /\ at \in Nat /\ 1 <= at /\ m \in MemType /\ MapSize \in Nat \ {0}
      /\ m.next \in [Offset -> Offset] /\ m.size \in [Offset -> Nat] /\ m.pool \in [Kind -> List]
      /\ Span(m.size, Both(P)) \subseteq 1 .. at - 1 /\ Both(P) \subseteq Span(m.size, Both(P))
      /\ m.next[0] = 0
  <2>1. m \in MemType /\ m.next[0] = 0 BY DEF MemOK
  <2> QED BY <2>1, PoolNodes, AreasAssumption DEF MemType
<1>3. Resized(m, n) = [m |-> IF G > n THEN Push(g, a, G - n) ELSE g, area |-> at]
  <2>1. [m EXCEPT !.file_size = @ + Growth(n), !.next[at] = 0, !.size[at] = n] = g
    BY <1>2 DEF MemType
  <2> QED BY <2>1 DEF Resized
<1> HIDE DEF G
<1>4. at \in Offset /\ 0 \in Offset /\ at + G \in 1 .. MapSize /\ at # 0 BY <1>1, <1>2 DEF Offset, G
<1>5. /\ g \in MemType /\ g.file_size = at + G /\ g.pool = m.pool
      /\ g.next = [m.next EXCEPT ![at] = 0] /\ g.size = [m.size EXCEPT ![at] = n]
  <2>1. [m.next EXCEPT ![at] = 0] \in [Offset -> Offset] BY <1>2, <1>4
  <2>2. [m.size EXCEPT ![at] = n] \in [Offset -> Nat] BY <1>2, <1>4
  <2> QED BY <2>1, <2>2, <1>2, <1>4 DEF MemType
<1> HIDE DEF g
<1>6. /\ g.next[0] = 0 /\ g.next[at] = 0 /\ g.size[at] = n
      /\ \A y \in Offset \ {at} : g.next[y] = m.next[y] /\ g.size[y] = m.size[y]
  BY <1>2, <1>4, <1>5
<1>7. Both(P) \subseteq Offset \ {at}
  <2>1. \A y \in 1 .. at - 1 : y \in Offset \ {at}
    <3> HIDE DEF at
    <3> QED BY <1>2, <1>4 DEF Offset
  <2> QED BY <2>1, <1>2
<1>8. MemOK(g, P)
  <2>1. Same(m.next, g.next, Both(P)) /\ Same(m.size, g.size, Both(P)) BY <1>6, <1>7 DEF Same
  <2>2. m.file_size <= g.file_size BY <1>1, <1>2, <1>5
  <2> QED BY <2>1, <2>2, <1>5, <1>6, MemFrame
<1>9. Span(g.size, Both(P)) = Span(m.size, Both(P))
  <2>1. Same(m.size, g.size, Both(P)) BY <1>6, <1>7 DEF Same
  <2> QED BY <2>1, SpanFrame
<1>10. CASE G = n
  <2>1. w = g /\ Resized(m, n).area = at BY <1>3, <1>10, <1>1
  <2>2. Of(g.size, at) = at .. g.file_size - 1
    <3>1. g.file_size = at + n BY <1>5, <1>10
    <3>2. g.file_size - 1 = at + n - 1 BY <3>1, <1>2
    <3>3. Of(g.size, at) = at .. at + n - 1 BY <1>6 DEF Of
    <3> QED BY <3>2, <3>3
  <2>3. Of(g.size, at) \cap Span(g.size, Both(P)) = {} BY <2>2, <1>9, <1>2
  <2>4. Of(g.size, at) \cup Span(g.size, Both(P)) = Region(m, g, P) BY <2>2, <1>9 DEF Region
  <2>5. at \in Region(m, g, P) BY <1>2, <1>5, <1>10 DEF Region
  <2>6. Same(m.next, g.next, Offset \ Region(m, g, P)) /\ Same(m.size, g.size, Offset \ Region(m, g, P))
    BY <2>5, <1>6 DEF Same
  <2>7. at \in 1 .. g.file_size - 1 /\ at + n <= g.file_size /\ m.file_size <= g.file_size
    BY <1>2, <1>5, <1>10
  <2>8. Taken(m, g, P, P, at, n) BY <1>6, <1>8, <2>3, <2>4, <2>6, <2>7 DEF Taken
  <2> QED BY <2>1, <2>8
<1>11. CASE G > n
  <2> DEFINE s == G - n
             v == [head |-> a, tail |-> IF m.pool["multi"].tail = 0 THEN a ELSE m.pool["multi"].tail]
             nx == [g.next EXCEPT ![a] = m.pool["multi"].head]
             sz == [g.size EXCEPT ![a] = s]
  <2>0. /\ a \in Offset \ {0} /\ s \in Nat \ {0} /\ a # at /\ a + s = at + G
        /\ at .. (at + G) - 1 = (at .. a - 1) \cup (a .. a + s - 1)
        /\ (at .. a - 1) \cap (a .. a + s - 1) = {} /\ at .. a - 1 = at .. at + n - 1
    <3> HIDE DEF at
    <3>1. at \in Nat /\ 1 <= at /\ G \in Nat /\ G > n /\ at + G <= MapSize /\ MapSize \in Nat
      BY <1>1, <1>2, <1>4, <1>11
    <3> QED BY <3>1 DEF Offset
  <2> HIDE DEF s
  <2>1. Resized(m, n).area = at /\ w = Push(g, a, s) BY <1>3, <1>11 DEF s
  <2>2. w = [g EXCEPT !.next = nx, !.size = sz, !.pool = [m.pool EXCEPT !["multi"] = v]]
    <3>1. w = [[g EXCEPT !.next[a] = g.pool["multi"].head, !.size[a] = s] EXCEPT !.pool["multi"] = v]
      BY <2>1, <1>5 DEF Push, atomic_switch
    <3> HIDE DEF v, w
    <3> QED BY <3>1, <1>5 DEF MemType
  <2>3. m.pool["multi"] \in List BY <1>2 DEF Kind
  <2>4. v \in List BY <2>0, <2>3 DEF List
  <2>5. nx \in [Offset -> Offset] /\ sz \in [Offset -> Nat]
    <3> HIDE DEF a
    <3> QED BY <1>5, <2>0, <2>3 DEF List, MemType
  <2>6. [m.pool EXCEPT !["multi"] = v] \in [Kind -> List]
    <3> HIDE DEF v
    <3> QED BY <1>2, <2>4
  <2> HIDE DEF v, nx, sz, w, a
  <2>7. /\ w \in MemType /\ w.next = nx /\ w.size = sz /\ w.file_size = at + G
        /\ w.pool = [m.pool EXCEPT !["multi"] = v]
    BY <2>2, <2>5, <2>6, <1>5 DEF MemType
  <2>8. w.pool["single"] = g.pool["single"] /\ w.pool["multi"] = v BY <2>7, <1>2, <1>5 DEF Kind
  <2>9. v.head = a /\ v.tail = (IF g.pool["multi"].tail = 0 THEN a ELSE g.pool["multi"].tail)
    BY <1>5 DEF v
  <2>10. /\ nx[a] = g.pool["multi"].head /\ sz[a] = s
         /\ \A y \in Offset \ {a} : nx[y] = g.next[y] /\ sz[y] = g.size[y]
    BY <2>0, <1>5 DEF nx, sz, MemType
  <2>11. w.next[0] = 0 /\ w.next[at] = 0 /\ w.size[at] = n BY <2>10, <2>7, <2>0, <1>6, <1>4
  <2>12. (a .. a + s - 1) \cap Span(g.size, Both(P)) = {} /\ a \notin Both(P)
    <3>1. \A y \in a .. a + s - 1 : y \in at .. (at + G) - 1 BY <2>0
    <3>2. \A y \in a .. a + s - 1 : y \notin 1 .. at - 1 BY <3>1, <1>2
    <3>3. a \in a .. a + s - 1 BY <2>0 DEF Offset
    <3> QED BY <3>2, <3>3, <1>9, <1>2
  <2>13. Same(g.next, w.next, Both(P)) /\ Same(g.size, w.size, Both(P))
    BY <2>12, <2>10, <2>7, <1>7 DEF Same
  <2>14. Pushes(g, w, P, a, s)
    <3>1. g.file_size <= w.file_size /\ a + s <= w.file_size BY <2>7, <2>0, <1>5, <1>4
    <3> QED BY <3>1, <2>0, <2>7, <2>8, <2>9, <2>10, <2>11, <2>12, <2>13 DEF Pushes
  <2> DEFINE Q == More(P, "multi", {a})
  <2>15. MemOK(w, Q) /\ Grown(g, w, P, Q, a) BY <2>14, <1>8, Pushing
  <2> HIDE DEF Q
  <2>16. Of(w.size, a) = a .. a + s - 1 /\ Of(w.size, at) = at .. a - 1
    BY <2>0, <2>7, <2>10, <2>11 DEF Of
  <2>17. Span(w.size, Both(Q)) = Span(m.size, Both(P)) \cup (a .. a + s - 1)
    BY <2>15, <2>16, <1>9 DEF Grown
  <2>18. Region(m, w, P) = Span(m.size, Both(P)) \cup (at .. (at + G) - 1) BY <2>7 DEF Region
  <2>19. Of(w.size, at) \cap Span(w.size, Both(Q)) = {}
    <3>1. \A y \in at .. a - 1 : y \in at .. (at + G) - 1 BY <2>0
    <3>2. \A y \in at .. a - 1 : y \notin Span(m.size, Both(P)) BY <3>1, <1>2
    <3> QED BY <3>2, <2>16, <2>17, <2>0
  <2>20. Of(w.size, at) \cup Span(w.size, Both(Q)) = Region(m, w, P) BY <2>16, <2>17, <2>18, <2>0
  <2>21. at \in Region(m, w, P) /\ a \in Region(m, w, P)
    <3>1. at \in at .. (at + G) - 1 BY <1>1, <1>2, <1>11
    <3>2. a \in a .. a + s - 1 BY <2>0 DEF Offset
    <3> QED BY <3>1, <3>2, <2>18, <2>0
  <2>22. Same(m.next, w.next, Offset \ Region(m, w, P)) /\ Same(m.size, w.size, Offset \ Region(m, w, P))
    BY <2>21, <2>10, <2>7, <1>6 DEF Same
  <2>23. at \in 1 .. w.file_size - 1 /\ at + n <= w.file_size /\ m.file_size <= w.file_size
    BY <1>1, <1>2, <1>11, <2>7
  <2>24. Taken(m, w, P, Q, at, n) BY <2>11, <2>15, <2>19, <2>20, <2>22, <2>23 DEF Taken
  <2> QED BY <2>1, <2>24 DEF w
<1> QED BY <1>10, <1>11, <1>1

(* alloc_single_area() and alloc_multi_area(). *)
LEMMA AllocTaken ==
    ASSUME NEW P, MemOK(Mem, P), NEW k \in Kind, NEW n \in Nat \ {0}, k = "single" => n = 1,
           CanAlloc(k, n)
    PROVE  \E Q : Taken(Mem, Alloc(Mem, k, n).m, P, Q, Alloc(Mem, k, n).area, n)
<1> DEFINE m == Mem
<1>0. file_size = m.file_size /\ file_size \in Nat BY PoolNodes DEF Mem
<1> HIDE DEF m
<1>1. CASE k = "single" /\ Pop(m).area # 0
  <2>1. FromPool(m, k, n) = Pop(m) BY <1>1 DEF FromPool
  <2>2. Alloc(m, k, n) = Unlinked(Pop(m)) BY <2>1, <1>1 DEF Alloc
  <2>3. n = 1 BY <1>1
  <2> QED BY <2>2, <2>3, <1>1, PopTaken DEF m
<1>2. CASE ~(k = "single" /\ Pop(m).area # 0)
  <2>1. FromPool(m, k, n) = FindAndRemove(m, n) BY <1>2 DEF FromPool
  <2>2. CASE Fits(m, n) # {}
    <3>1. FindAndRemove(m, n).area # 0 BY <2>2, FindTaken DEF m
    <3>2. Alloc(m, k, n) = Unlinked(FindAndRemove(m, n)) BY <2>1, <3>1 DEF Alloc
    <3> QED BY <3>2, <2>2, FindTaken DEF m
  <2>3. CASE Fits(m, n) = {}
    <3>1. FindAndRemove(m, n).area = 0 BY <2>3 DEF FindAndRemove
    <3>2. Alloc(m, k, n) = Resized(m, n) BY <2>1, <3>1 DEF Alloc
    <3>3. m.file_size + Growth(n) <= MapSize BY <2>1, <3>1, <1>0 DEF CanAlloc, m
    <3> QED BY <3>2, <3>3, <1>0, ResizedTaken DEF m
  <2> QED BY <2>2, <2>3
<1> QED BY <1>1, <1>2

-----------------------------------------------------------------------------
(* w is m with a chain of the areas M added to a list. *)
Gives(m, w, P, Q, k, M) ==
    /\ MemOK(w, Q) /\ w.size = m.size /\ w.file_size = m.file_size
    /\ Span(w.size, Both(Q)) = Span(m.size, Both(P)) \cup Span(m.size, M)
    /\ Same(m.next, w.next, Offset \ P[k]) /\ \A j \in Kind \ {k} : Q[j] = P[j]

(* add() *)
LEMMA AddGives ==
    ASSUME NEW m, NEW P, MemOK(m, P), NEW k \in Kind, NEW h, NEW t, NEW M \in SUBSET Offset,
           Seg(m.next, h, t, M), m.next[t] = 0,
           Tidy(m.size, m.file_size, IF k = "single" THEN M ELSE {}, IF k = "multi" THEN M ELSE {}),
           Span(m.size, Both(P)) \cap Span(m.size, M) = {}
    PROVE  Gives(m, Add(m, k, h, t), P, More(P, k, M), k, M)
<1> DEFINE w == Add(m, k, h, t)
           Q == More(P, k, M)
           l == m.pool[k]
           v == [head |-> IF l.head = 0 THEN h ELSE l.head, tail |-> t]
           nx == IF l.head = 0 THEN m.next ELSE [m.next EXCEPT ![l.tail] = h]
<1>0. /\ m \in MemType /\ m.next[0] = 0 /\ P \in Sets
      /\ m.next \in [Offset -> Offset] /\ m.pool \in [Kind -> List] /\ m.file_size \in Nat
      /\ l.head \in Offset /\ l.tail \in Offset
  BY PoolNodes DEF MemOK, MemType
<1>1. M \subseteq Span(m.size, M) /\ 0 \notin M /\ h \in M /\ t \in M /\ h # 0
  <2>1. (IF k = "single" THEN M ELSE {}) \cup (IF k = "multi" THEN M ELSE {}) = M BY DEF Kind
  <2>2. Fit(m.size, m.file_size, M) BY <2>1 DEF Tidy
  <2>3. M \subseteq Span(m.size, M) /\ Span(m.size, M) \subseteq 1 .. m.file_size - 1 BY <2>2, <1>0, SpanNode
  <2>4. h \in M /\ t \in M BY DEF Seg
  <2> QED BY <2>3, <2>4
<1>2. w = [m EXCEPT !.next = nx, !.pool = [m.pool EXCEPT ![k] = v]]
  <2>1. CASE l.head = 0
    <3>1. w = [m EXCEPT !.pool[k] = v] BY <2>1, <1>1 DEF Add, atomic_switch
    <3> QED BY <3>1, <2>1, <1>0 DEF MemType
  <2>2. CASE l.head # 0
    <3>1. w = [[m EXCEPT !.next[l.tail] = h] EXCEPT !.pool[k] = v]
      BY <2>2, <1>1 DEF Add, atomic_switch
    <3> QED BY <3>1, <2>2, <1>0 DEF MemType
  <2> QED BY <2>1, <2>2
<1>3. v \in List BY <1>0, <1>1 DEF List
<1>4. nx \in [Offset -> Offset] BY <1>0, <1>1
<1>5. ListOK(m.next, l.head, l.tail, P[k]) /\ 0 \notin P[k] /\ P[k] \subseteq Both(P)
      /\ Both(P) \subseteq Span(m.size, Both(P)) /\ Both(P) \subseteq Offset
  BY PoolNodes DEF MemOK, Both, Kind
<1>6. l.head # 0 => l.tail \in P[k] BY <1>5 DEF ListOK, Seg
<1>7. /\ \A y \in Offset : y # l.tail \/ l.head = 0 => nx[y] = m.next[y]
      /\ l.head # 0 => nx[l.tail] = h
  BY <1>0
<1>8. M \cap Both(P) = {} BY <1>1, <1>5
<1> HIDE DEF nx, v, w, l
<1>9. /\ w \in MemType /\ w.next = nx /\ w.size = m.size /\ w.file_size = m.file_size
      /\ w.pool[k] = v /\ \A j \in Kind \ {k} : w.pool[j] = m.pool[j]
  <2>1. [m.pool EXCEPT ![k] = v] \in [Kind -> List] BY <1>0, <1>3
  <2>2. /\ w \in MemType /\ w.next = nx /\ w.size = m.size /\ w.file_size = m.file_size
        /\ w.pool = [m.pool EXCEPT ![k] = v]
    BY <2>1, <1>0, <1>2, <1>4 DEF MemType
  <2> QED BY <2>2, <1>0
<1>10. Q \in Sets /\ Q[k] = P[k] \cup M /\ \A j \in Kind \ {k} : Q[j] = P[j]
  BY <1>0 DEF More, Sets
<1> HIDE DEF Q
<1>11. Both(Q) = Both(P) \cup M BY <1>10 DEF Both, Kind
<1>12. w.next[0] = 0
  <2>1. l.tail # 0 \/ l.head = 0 BY <1>5, <1>6
  <2>2. 0 \in Offset BY AreasAssumption DEF Offset
  <2> QED BY <2>1, <2>2, <1>0, <1>7, <1>9
<1>13. ListOK(w.next, w.pool[k].head, w.pool[k].tail, Q[k])
  <2>1. Same(m.next, nx, M \ {t}) /\ nx[t] = 0 /\ Same(m.next, nx, P[k] \ {l.tail})
    BY <1>1, <1>5, <1>6, <1>7, <1>8 DEF Same
  <2>2. Seg(nx, h, t, M) BY <2>1, <1>1, SegFrame
  <2>3. ListOK(nx, IF l.head = 0 THEN h ELSE l.head, t, P[k] \cup M)
    <3>1. P[k] \cap M = {} BY <1>5, <1>8
    <3>2. l.head # 0 => nx[l.tail] = h BY <1>7
    <3> DEFINE a == l.head
               b == l.tail
               N == P[k]
    <3>3. /\ ListOK(m.next, a, b, N) /\ 0 \notin N /\ N \cap M = {}
          /\ Same(m.next, nx, N \ {b}) /\ (a # 0 => nx[b] = h)
      BY <2>1, <3>1, <3>2, <1>5
    <3> HIDE DEF a, b, N
    <3>4. ListOK(nx, IF a = 0 THEN h ELSE a, t, N \cup M) BY <3>3, <2>1, <2>2, <1>1, ListAdd
    <3> QED BY <3>4 DEF a, b, N
  <2>4. v.head = (IF l.head = 0 THEN h ELSE l.head) /\ v.tail = t BY DEF v
  <2> QED BY <2>3, <2>4, <1>9, <1>10
<1>14. ASSUME NEW j \in Kind \ {k} PROVE ListOK(w.next, w.pool[j].head, w.pool[j].tail, Q[j])
  <2>1. ListOK(m.next, m.pool[j].head, m.pool[j].tail, P[j]) /\ 0 \notin P[j] /\ P[j] \subseteq Offset
    BY PoolNodes DEF MemOK
  <2>2. P[j] \cap P[k] = {} BY DEF MemOK, Tidy, Kind
  <2>3. Same(m.next, nx, P[j]) BY <2>1, <2>2, <1>6, <1>7 DEF Same
  <2>4. ListOK(nx, m.pool[j].head, m.pool[j].tail, P[j]) BY <2>1, <2>3, ListFrame
  <2> QED BY <2>4, <1>9, <1>10
<1>15. Tidy(w.size, w.file_size, Q["single"], Q["multi"])
  <2> DEFINE A == IF k = "single" THEN M ELSE {}
             B == IF k = "multi" THEN M ELSE {}
  <2>1. A \cup B = M /\ P["single"] \cup A = Q["single"] /\ P["multi"] \cup B = Q["multi"]
    BY <1>10 DEF Kind
  <2>2. Tidy(m.size, m.file_size, A, B) OBVIOUS
  <2>3. Tidy(m.size, m.file_size, P["single"], P["multi"]) BY DEF MemOK
  <2>4. Span(m.size, P["single"] \cup P["multi"]) \cap Span(m.size, A \cup B) = {} BY <2>1 DEF Both
  <2> HIDE DEF A, B
  <2>5. Tidy(m.size, m.file_size, P["single"] \cup A, P["multi"] \cup B)
    BY <2>2, <2>3, <2>4, <1>0, TidyUnion
  <2> QED BY <2>5, <2>1, <1>9
<1>16. MemOK(w, Q) BY <1>9, <1>10, <1>12, <1>13, <1>14, <1>15 DEF MemOK
<1>17. Span(w.size, Both(Q)) = Span(m.size, Both(P)) \cup Span(m.size, M)
  BY <1>9, <1>11, SpanUnion
<1>18. Same(m.next, w.next, Offset \ P[k]) BY <1>5, <1>6, <1>7, <1>9 DEF Same
<1> QED BY <1>9, <1>10, <1>16, <1>17, <1>18 DEF Gives, w, Q

-----------------------------------------------------------------------------
(* The chains of a database v: o has the committed areas, r those that      *)
(* follow: the ones of the transaction, if it has any, else what a crash    *)
(* has left there.                                                          *)
Active(v, k) ==
    /\ v.atail["single"] # 0 /\ v.atail[k] # v.tail[k]
    /\ ~(v.win = "multi" /\ k = "single")
First(nx, v, k) == IF v.tail[k] = 0 THEN v.head[k] ELSE nx[v.tail[k]]
HeadOK(nx, v, o, k) ==
    IF v.tail[k] = 0 THEN o[k] = {} ELSE Seg(nx, v.head[k], v.tail[k], o[k])
RestOK(nx, v, r, k) ==
    IF First(nx, v, k) = 0 THEN r[k] = {} /\ ~Active(v, k)
    ELSE \E e \in r[k] : /\ Seg(nx, First(nx, v, k), e, r[k]) /\ nx[e] = 0
                         /\ Active(v, k) => e = v.atail[k]
Whole(o, r) == Both(o) \cup Both(r)
Live(v, r, k) == IF Active(v, k) THEN r[k] ELSE {}
Draft(v, r) == Live(v, r, "single") \cup Live(v, r, "multi")

(* What is known of the transaction. *)
TxnOK(v) ==
    /\ v.txn = "none" => v.atail = NoLink
    /\ v.txn = "prepared" => v.atail["single"] # 0
    /\ v.atail["single"] = 0 => v.atail = NoLink
    /\ v.win \in {"single", "multi"} => v.atail["single"] # 0

EntryOK(m, v, o, r) ==
    /\ o \in Sets /\ r \in Sets
    /\ \A k \in Kind : HeadOK(m.next, v, o, k) /\ RestOK(m.next, v, r, k) /\ o[k] \cap r[k] = {}
    /\ v.tail["single"] # 0
    /\ Tidy(m.size, m.file_size, o["single"] \cup r["single"], o["multi"] \cup r["multi"])
    /\ v.own = Span(m.size, Both(o))
    /\ v.win # "multi" => v.draft = Span(m.size, Draft(v, r))
    /\ TxnOK(v)
NoEntryOK(v, o, r) ==
    /\ o \in Sets /\ r \in Sets
    /\ Whole(o, r) = {} /\ v.own = {} /\ v.draft = {} /\ v.win = "" /\ v.txn = "none"
DbOK(m, v, o, r) == IF v.entry THEN EntryOK(m, v, o, r) ELSE NoEntryOK(v, o, r)

(* What a database has is not in the pool, but for what is on its way there. *)
SepOK(sz, v, o, r, P) ==
    LET free == Span(sz, Both(P))
    IN /\ v.win = "entry" => Both(r) = {} /\ Span(sz, Both(o)) \subseteq free
       /\ v.win # "entry" =>
            /\ Span(sz, Both(o)) \cap free = {}
            /\ \A k \in Kind : IF v.win = k /\ Active(v, k) THEN Span(sz, r[k]) \subseteq free
                               ELSE Span(sz, r[k]) \cap free = {}
       /\ v.win = "multi" => v.draft \subseteq free

(* All databases; and the pool, if it can be relied on. *)
AllDbs(m, D, O, R) ==
    /\ \A d \in DBs : DbOK(m, D[d], O[d], R[d])
    /\ \A d, e \in DBs : d # e =>
          Span(m.size, Whole(O[d], R[d])) \cap Span(m.size, Whole(O[e], R[e])) = {}
UsesOf(D, E) == UNION {D[d].own \cup D[d].draft : d \in E}
Uses(D) == UsesOf(D, DBs)
Clean(m, D, O, R, P, L) ==
    /\ MemOK(m, P)
    /\ \A d \in DBs : SepOK(m.size, D[d], O[d], R[d], P)
    /\ 1 .. m.file_size - 1 = Span(m.size, Both(P)) \cup L \cup Uses(D)

(* The areas of a database are in the file. *)
LEMMA EntryNodes == ASSUME NEW m \in MemType, NEW v, NEW o, NEW r, DbOK(m, v, o, r) PROVE
    /\ Whole(o, r) \subseteq Span(m.size, Whole(o, r)) /\ Whole(o, r) \subseteq Offset
    /\ Span(m.size, Whole(o, r)) \subseteq 1 .. m.file_size - 1
    /\ 0 \notin Whole(o, r) /\ o \in Sets /\ r \in Sets
    /\ \A k \in Kind : o[k] \subseteq Whole(o, r) /\ r[k] \subseteq Whole(o, r)
<1>0. m.file_size \in Nat BY AreasAssumption DEF MemType
<1>1. o \in Sets /\ r \in Sets BY DEF DbOK, EntryOK, NoEntryOK
<1>2. Fit(m.size, m.file_size, Whole(o, r))
  <2>1. CASE v.entry
    <3>1. Fit(m.size, m.file_size, (o["single"] \cup r["single"]) \cup (o["multi"] \cup r["multi"]))
      BY <2>1 DEF DbOK, EntryOK, Tidy
    <3>2. (o["single"] \cup r["single"]) \cup (o["multi"] \cup r["multi"]) = Whole(o, r)
      BY DEF Whole, Both
    <3> QED BY <3>1, <3>2
  <2>2. CASE ~v.entry BY <2>2 DEF DbOK, NoEntryOK, Fit
  <2> QED BY <2>1, <2>2
<1>3. Whole(o, r) \subseteq Span(m.size, Whole(o, r)) /\ Span(m.size, Whole(o, r)) \subseteq 1 .. m.file_size - 1
  BY <1>0, <1>2, SpanNode
<1>4. Whole(o, r) \subseteq Offset BY <1>1 DEF Whole, Both, Sets, Kind
<1>5. \A k \in Kind : o[k] \subseteq Whole(o, r) /\ r[k] \subseteq Whole(o, r) BY DEF Whole, Both, Kind
<1> QED BY <1>1, <1>3, <1>4, <1>5

(* A chain depends on the links of its own areas only. *)
LEMMA HeadFrame ==
    ASSUME NEW nx, NEW ny, NEW v, NEW o, NEW k, HeadOK(nx, v, o, k), Same(nx, ny, o[k])
    PROVE  HeadOK(ny, v, o, k) /\ First(ny, v, k) = First(nx, v, k)
<1>1. CASE v.tail[k] = 0 BY <1>1 DEF HeadOK, First
<1>2. CASE v.tail[k] # 0
  <2>1. Seg(nx, v.head[k], v.tail[k], o[k]) BY <1>2 DEF HeadOK
  <2>2. v.tail[k] \in o[k] /\ nx[v.tail[k]] \notin o[k] BY <2>1 DEF Seg
  <2>3. ny[v.tail[k]] = nx[v.tail[k]] /\ Same(nx, ny, o[k] \ {v.tail[k]}) BY <2>2 DEF Same
  <2>4. Seg(ny, v.head[k], v.tail[k], o[k]) BY <2>1, <2>2, <2>3, SegFrame
  <2> QED BY <2>3, <2>4, <1>2 DEF HeadOK, First
<1> QED BY <1>1, <1>2

(* So does what follows. *)
LEMMA RestFrame ==
    ASSUME NEW nx, NEW ny, NEW v, NEW r, NEW k, RestOK(nx, v, r, k), Same(nx, ny, r[k]),
           0 \notin r[k], First(ny, v, k) = First(nx, v, k)
    PROVE  RestOK(ny, v, r, k)
<1>1. CASE First(nx, v, k) = 0 BY <1>1 DEF RestOK
<1>2. CASE First(nx, v, k) # 0
  <2>1. PICK e \in r[k] : /\ Seg(nx, First(nx, v, k), e, r[k]) /\ nx[e] = 0
                          /\ Active(v, k) => e = v.atail[k]
    BY <1>2 DEF RestOK
  <2>2. ny[e] = 0 /\ Same(nx, ny, r[k] \ {e}) BY <2>1 DEF Same
  <2>3. Seg(ny, First(ny, v, k), e, r[k]) BY <2>1, <2>2, SegFrame
  <2> QED BY <2>1, <2>2, <2>3, <1>2 DEF RestOK
<1> QED BY <1>1, <1>2

(* A database does not mind what happens elsewhere, nor a larger file. *)
LEMMA DbFrame ==
    ASSUME NEW m \in MemType, NEW w \in MemType, NEW v, NEW o, NEW r, DbOK(m, v, o, r),
           m.file_size <= w.file_size,
           Same(m.next, w.next, Whole(o, r)), Same(m.size, w.size, Whole(o, r))
    PROVE  DbOK(w, v, o, r)
<1>1. CASE ~v.entry BY <1>1 DEF DbOK
<1>2. CASE v.entry
  <2>0. m.file_size \in Nat /\ w.file_size \in Nat BY AreasAssumption DEF MemType
  <2>1. EntryOK(m, v, o, r) BY <1>2 DEF DbOK
  <2>2. /\ 0 \notin Whole(o, r)
        /\ \A k \in Kind : o[k] \subseteq Whole(o, r) /\ r[k] \subseteq Whole(o, r)
    BY EntryNodes
  <2>3. ASSUME NEW k \in Kind PROVE HeadOK(w.next, v, o, k) /\ RestOK(w.next, v, r, k)
    <3>1. HeadOK(m.next, v, o, k) /\ RestOK(m.next, v, r, k) BY <2>1 DEF EntryOK
    <3>2. Same(m.next, w.next, o[k]) /\ Same(m.next, w.next, r[k]) /\ 0 \notin r[k] BY <2>2 DEF Same
    <3>3. HeadOK(w.next, v, o, k) /\ First(w.next, v, k) = First(m.next, v, k)
      BY <3>1, <3>2, HeadFrame
    <3> QED BY <3>1, <3>2, <3>3, RestFrame
  <2>4. Tidy(w.size, w.file_size, o["single"] \cup r["single"], o["multi"] \cup r["multi"])
    <3>1. Same(m.size, w.size, (o["single"] \cup r["single"]) \cup (o["multi"] \cup r["multi"]))
      BY DEF Same, Whole, Both
    <3> QED BY <3>1, <2>0, <2>1, TidyFrame DEF EntryOK
  <2>5. Span(w.size, Both(o)) = Span(m.size, Both(o)) /\ Span(w.size, Draft(v, r)) = Span(m.size, Draft(v, r))
    <3>1. Same(m.size, w.size, Both(o)) /\ Same(m.size, w.size, Draft(v, r))
      BY DEF Same, Whole, Both, Draft, Live
    <3> QED BY <3>1, SpanFrame
  <2>6. EntryOK(w, v, o, r) BY <2>1, <2>3, <2>4, <2>5 DEF EntryOK
  <2> QED BY <2>6, <1>2 DEF DbOK
<1> QED BY <1>1, <1>2

(* A larger file. *)
LEMMA Longer == ASSUME NEW f \in Nat, NEW g \in Nat, 1 <= f, f <= g PROVE
    /\ 1 .. g - 1 = (1 .. f - 1) \cup (f .. g - 1)
    /\ (1 .. f - 1) \cap (f .. g - 1) = {}
  OBVIOUS

(* The blocks of a database, by chain. *)
LEMMA SpanWhole == ASSUME NEW sz, NEW o, NEW r PROVE
    /\ Span(sz, Whole(o, r)) = Span(sz, Both(o)) \cup Span(sz, Both(r))
    /\ Span(sz, Both(r)) = Span(sz, r["single"]) \cup Span(sz, r["multi"])
    /\ Span(sz, Both(o)) = Span(sz, o["single"]) \cup Span(sz, o["multi"])
<1>1. Span(sz, Both(o) \cup Both(r)) = Span(sz, Both(o)) \cup Span(sz, Both(r)) BY SpanUnion
<1>2. Span(sz, r["single"] \cup r["multi"]) = Span(sz, r["single"]) \cup Span(sz, r["multi"]) BY SpanUnion
<1>3. Span(sz, o["single"] \cup o["multi"]) = Span(sz, o["single"]) \cup Span(sz, o["multi"]) BY SpanUnion
<1>4. Both(o) \cup Both(r) = Whole(o, r) BY DEF Whole
<1>5. Both(r) = r["single"] \cup r["multi"] /\ Both(o) = o["single"] \cup o["multi"] BY DEF Both
<1> QED BY <1>1, <1>2, <1>3, <1>4, <1>5

(* What the databases use. *)
LEMMA UsesIn == ASSUME NEW D, NEW E, NEW x PROVE
    x \in UsesOf(D, E) <=> \E d \in E : x \in D[d].own \/ x \in D[d].draft
  BY DEF UsesOf

(* A database that returns nothing has no block in the pool. *)
LEMMA SepQuiet == ASSUME NEW sz, NEW v, NEW o, NEW r, NEW P, v.win = "" PROVE
    SepOK(sz, v, o, r, P) <=> Span(sz, Whole(o, r)) \cap Span(sz, Both(P)) = {}
<1>1. \A k \in Kind : v.win # k BY DEF Kind
<1>2. SepOK(sz, v, o, r, P) <=> /\ Span(sz, Both(o)) \cap Span(sz, Both(P)) = {}
                                /\ \A k \in Kind : Span(sz, r[k]) \cap Span(sz, Both(P)) = {}
  BY <1>1 DEF SepOK
<1>3. (\A k \in Kind : Span(sz, r[k]) \cap Span(sz, Both(P)) = {})
        <=> (Span(sz, r["single"]) \cup Span(sz, r["multi"])) \cap Span(sz, Both(P)) = {}
  BY DEF Kind
<1>4. Span(sz, Both(r)) = Span(sz, r["single"]) \cup Span(sz, r["multi"]) BY ONLY SpanWhole
<1>5. Span(sz, Whole(o, r)) = Span(sz, Both(o)) \cup Span(sz, Both(r)) BY ONLY SpanWhole
<1> DEFINE A == Span(sz, Both(o))
           B == Span(sz, Both(r))
           C == Span(sz, Both(P))
<1>6. A \cap C = {} /\ B \cap C = {} <=> (A \cup B) \cap C = {} OBVIOUS
<1> HIDE DEF A, B, C
<1>7. SepOK(sz, v, o, r, P) <=> A \cap C = {} /\ B \cap C = {} BY <1>2, <1>3, <1>4 DEF A, B, C
<1>8. Span(sz, Whole(o, r)) \cap Span(sz, Both(P)) = (A \cup B) \cap C BY <1>5 DEF A, B, C
<1> QED BY <1>6, <1>7, <1>8

(* A step of one database: what it has and what the pool has changes, and   *)
(* nothing else is touched.                                                 *)
Touched(m, w, P, o, r) ==
    Span(m.size, Both(P)) \cup Span(m.size, Whole(o, r)) \cup (m.file_size .. w.file_size - 1)
Moves(m, w, u, v, o, o1, r, r1, P, Q) ==
    /\ MemOK(w, Q) /\ m.file_size <= w.file_size
    /\ DbOK(w, v, o1, r1) /\ SepOK(w.size, v, o1, r1, Q)
    /\ Same(m.next, w.next, Offset \ Touched(m, w, P, o, r))
    /\ Same(m.size, w.size, Offset \ Touched(m, w, P, o, r))
    /\ Span(w.size, Whole(o1, r1)) \subseteq Touched(m, w, P, o, r)
    /\ Span(w.size, Both(Q)) \subseteq Touched(m, w, P, o, r)
    /\ Span(w.size, Both(Q)) \cup v.own \cup v.draft
         = Span(m.size, Both(P)) \cup u.own \cup u.draft \cup (m.file_size .. w.file_size - 1)

(* It keeps all databases and the pool in order, if no other one is in the  *)
(* middle of a return.                                                      *)
LEMMA OneDb ==
    ASSUME NEW m, NEW w, NEW D \in [DBs -> Database], NEW O \in [DBs -> Sets], NEW R \in [DBs -> Sets],
           NEW P, NEW Q, NEW L, AllDbs(m, D, O, R), Clean(m, D, O, R, P, L),
           NEW d \in DBs, \A e \in DBs \ {d} : D[e].win = "",
           NEW v, NEW o, NEW r, Moves(m, w, D[d], v, O[d], o, R[d], r, P, Q)
    PROVE  /\ AllDbs(w, [D EXCEPT ![d] = v], [O EXCEPT ![d] = o], [R EXCEPT ![d] = r])
           /\ Clean(w, [D EXCEPT ![d] = v], [O EXCEPT ![d] = o], [R EXCEPT ![d] = r], Q, L)
<1> DEFINE D1 == [D EXCEPT ![d] = v]
           O1 == [O EXCEPT ![d] = o]
           R1 == [R EXCEPT ![d] = r]
           T == Touched(m, w, P, O[d], R[d])
           N(e) == Whole(O[e], R[e])
<1>0. /\ D1[d] = v /\ O1[d] = o /\ R1[d] = r
      /\ \A e \in DBs \ {d} : D1[e] = D[e] /\ O1[e] = O[e] /\ R1[e] = R[e]
  OBVIOUS
<1>1. m \in MemType /\ w \in MemType /\ m.file_size \in Nat /\ w.file_size \in Nat /\ 1 <= m.file_size
      /\ m.file_size <= w.file_size
  <2>1. MemOK(m, P) /\ MemOK(w, Q) /\ m.file_size <= w.file_size BY DEF Moves, Clean
  <2>2. m \in MemType /\ w \in MemType BY <2>1 DEF MemOK
  <2>3. m.file_size \in Nat /\ 1 <= m.file_size BY <2>1, PoolNodes
  <2>4. w.file_size \in Nat BY <2>1, PoolNodes
  <2> QED BY <2>1, <2>2, <2>3, <2>4
<1>2. ASSUME NEW e \in DBs \ {d}
      PROVE  /\ Span(m.size, N(e)) \cap T = {} /\ N(e) \subseteq Offset \ T
             /\ Span(w.size, N(e)) = Span(m.size, N(e)) /\ DbOK(w, D[e], O[e], R[e])
  <2>1. DbOK(m, D[e], O[e], R[e]) /\ Span(m.size, N(e)) \cap Span(m.size, N(d)) = {}
    BY DEF AllDbs
  <2>2. D[e].win = "" /\ SepOK(m.size, D[e], O[e], R[e], P) BY DEF Clean
  <2>3. Span(m.size, N(e)) \cap Span(m.size, Both(P)) = {} BY <2>2, SepQuiet
  <2>4. /\ N(e) \subseteq Span(m.size, N(e)) /\ N(e) \subseteq Offset
        /\ Span(m.size, N(e)) \subseteq 1 .. m.file_size - 1
    BY <2>1, <1>1, EntryNodes
  <2>5. Span(m.size, N(e)) \cap (m.file_size .. w.file_size - 1) = {}
    <3>1. (1 .. m.file_size - 1) \cap (m.file_size .. w.file_size - 1) = {} BY <1>1, Longer
    <3> QED BY <2>4, <3>1
  <2>6. Span(m.size, N(e)) \cap T = {} BY <2>1, <2>3, <2>5 DEF Touched
  <2>7. N(e) \subseteq Offset \ T BY <2>4, <2>6
  <2>8. Same(m.next, w.next, N(e)) /\ Same(m.size, w.size, N(e)) BY <2>7 DEF Moves, Same
  <2>9. Span(w.size, N(e)) = Span(m.size, N(e)) BY <2>8, SpanFrame
  <2>10. DbOK(w, D[e], O[e], R[e]) BY <2>1, <2>8, <1>1, DbFrame
  <2> QED BY <2>6, <2>7, <2>9, <2>10
<1>3. /\ MemOK(w, Q) /\ DbOK(w, v, o, r) /\ SepOK(w.size, v, o, r, Q)
      /\ Span(w.size, Whole(o, r)) \subseteq T /\ Span(w.size, Both(Q)) \subseteq T
      /\ Span(w.size, Both(Q)) \cup v.own \cup v.draft
           = Span(m.size, Both(P)) \cup D[d].own \cup D[d].draft \cup (m.file_size .. w.file_size - 1)
  BY DEF Moves
<1> HIDE DEF D1, O1, R1, T
<1>4. ASSUME NEW e \in DBs PROVE DbOK(w, D1[e], O1[e], R1[e]) /\ SepOK(w.size, D1[e], O1[e], R1[e], Q)
  <2>1. CASE e = d BY <2>1, <1>0, <1>3
  <2>2. CASE e # d
    <3>1. DbOK(w, D[e], O[e], R[e]) /\ Span(w.size, N(e)) \cap T = {} BY <2>2, <1>2
    <3>2. Span(w.size, N(e)) \cap Span(w.size, Both(Q)) = {} BY <3>1, <1>3
    <3>3. D[e].win = "" BY <2>2
    <3>4. SepOK(w.size, D[e], O[e], R[e], Q) BY <3>2, <3>3, SepQuiet
    <3> QED BY <3>1, <3>4, <2>2, <1>0
  <2> QED BY <2>1, <2>2
<1>5. ASSUME NEW e \in DBs, NEW f \in DBs, e # f
      PROVE  Span(w.size, Whole(O1[e], R1[e])) \cap Span(w.size, Whole(O1[f], R1[f])) = {}
  <2>1. CASE e # d /\ f # d
    <3>1. Span(m.size, N(e)) \cap Span(m.size, N(f)) = {} BY <1>5 DEF AllDbs
    <3> QED BY <3>1, <2>1, <1>0, <1>2
  <2>2. CASE e = d
    <3>1. Span(w.size, N(f)) \cap T = {} BY <2>2, <1>5, <1>2
    <3> QED BY <3>1, <2>2, <1>5, <1>0, <1>3
  <2>3. CASE f = d
    <3>1. Span(w.size, N(e)) \cap T = {} BY <2>3, <1>5, <1>2
    <3> QED BY <3>1, <2>3, <1>5, <1>0, <1>3
  <2> QED BY <2>1, <2>2, <2>3
<1>6. AllDbs(w, D1, O1, R1) BY <1>4, <1>5 DEF AllDbs
<1>7. 1 .. w.file_size - 1 = Span(w.size, Both(Q)) \cup L \cup Uses(D1)
  <2>1. 1 .. w.file_size - 1 = (1 .. m.file_size - 1) \cup (m.file_size .. w.file_size - 1)
    BY <1>1, Longer
  <2>2. 1 .. m.file_size - 1 = Span(m.size, Both(P)) \cup L \cup Uses(D) BY DEF Clean
  <2> DEFINE S == UsesOf(D, DBs \ {d})
  <2>s. \A x : x \in S <=> \E e \in DBs \ {d} : x \in D[e].own \/ x \in D[e].draft BY UsesIn
  <2> HIDE DEF S
  <2>3. Uses(D) = S \cup D[d].own \cup D[d].draft
    <3>1. ASSUME NEW x PROVE x \in Uses(D) <=> x \in S \/ x \in D[d].own \/ x \in D[d].draft
      BY <2>s, UsesIn DEF Uses
    <3> QED BY <3>1
  <2>4. Uses(D1) = S \cup v.own \cup v.draft
    <3>1. \A e \in DBs \ {d} : D1[e] = D[e] BY <1>0
    <3>2. D1[d] = v BY <1>0
    <3>3. ASSUME NEW x PROVE x \in Uses(D1) <=> x \in S \/ x \in v.own \/ x \in v.draft
      <4>1. x \in Uses(D1) <=> \E e \in DBs : x \in D1[e].own \/ x \in D1[e].draft
        BY UsesIn DEF Uses
      <4>2. x \in S <=> \E e \in DBs \ {d} : x \in D1[e].own \/ x \in D1[e].draft
        BY <2>s, <3>1
      <4> QED BY <4>1, <4>2, <3>2
    <3> QED BY <3>3
  <2> QED BY <2>1, <2>2, <2>3, <2>4, <1>3
<1>8. Clean(w, D1, O1, R1, Q, L) BY <1>3, <1>4, <1>7 DEF Clean
<1> QED BY <1>6, <1>8 DEF D1, O1, R1

(* A step of one database that leaves areas and pool alone. *)
Stays(m, u, v, o, o1, r, r1, P) ==
    /\ DbOK(m, v, o1, r1) /\ SepOK(m.size, v, o1, r1, P)
    /\ Span(m.size, Whole(o1, r1)) \subseteq Span(m.size, Whole(o, r))
    /\ v.own \cup v.draft = u.own \cup u.draft

(* It keeps the others in order even if one of them is returning areas. *)
LEMMA OneDbStays ==
    ASSUME NEW m, NEW D \in [DBs -> Database], NEW O \in [DBs -> Sets], NEW R \in [DBs -> Sets],
           NEW P, NEW L, AllDbs(m, D, O, R), Clean(m, D, O, R, P, L),
           NEW d \in DBs, NEW v, NEW o, NEW r, Stays(m, D[d], v, O[d], o, R[d], r, P)
    PROVE  /\ AllDbs(m, [D EXCEPT ![d] = v], [O EXCEPT ![d] = o], [R EXCEPT ![d] = r])
           /\ Clean(m, [D EXCEPT ![d] = v], [O EXCEPT ![d] = o], [R EXCEPT ![d] = r], P, L)
<1> DEFINE D1 == [D EXCEPT ![d] = v]
           O1 == [O EXCEPT ![d] = o]
           R1 == [R EXCEPT ![d] = r]
<1>0. /\ D1[d] = v /\ O1[d] = o /\ R1[d] = r
      /\ \A e \in DBs \ {d} : D1[e] = D[e] /\ O1[e] = O[e] /\ R1[e] = R[e]
  OBVIOUS
<1> HIDE DEF D1, O1, R1
<1>1. ASSUME NEW e \in DBs PROVE DbOK(m, D1[e], O1[e], R1[e]) /\ SepOK(m.size, D1[e], O1[e], R1[e], P)
  <2>1. CASE e = d BY <2>1, <1>0 DEF Stays
  <2>2. CASE e # d BY <2>2, <1>0 DEF AllDbs, Clean
  <2> QED BY <2>1, <2>2
<1>2. ASSUME NEW e \in DBs, NEW f \in DBs, e # f
      PROVE  Span(m.size, Whole(O1[e], R1[e])) \cap Span(m.size, Whole(O1[f], R1[f])) = {}
  <2>1. \A x \in DBs : Span(m.size, Whole(O1[x], R1[x])) \subseteq Span(m.size, Whole(O[x], R[x]))
    BY <1>0 DEF Stays
  <2>2. Span(m.size, Whole(O[e], R[e])) \cap Span(m.size, Whole(O[f], R[f])) = {}
    BY <1>2 DEF AllDbs
  <2> QED BY <2>1, <2>2
<1>3. Uses(D1) = Uses(D)
  <2>1. ASSUME NEW e \in DBs PROVE D1[e].own \cup D1[e].draft = D[e].own \cup D[e].draft
    BY <1>0 DEF Stays
  <2>2. ASSUME NEW x PROVE x \in Uses(D1) <=> x \in Uses(D)
    <3>1. x \in Uses(D1) <=> \E e \in DBs : x \in D1[e].own \/ x \in D1[e].draft BY UsesIn DEF Uses
    <3>2. x \in Uses(D) <=> \E e \in DBs : x \in D[e].own \/ x \in D[e].draft BY UsesIn DEF Uses
    <3>3. \A e \in DBs : (x \in D1[e].own \/ x \in D1[e].draft) <=> (x \in D[e].own \/ x \in D[e].draft)
      BY <2>1
    <3> QED BY <3>1, <3>2, <3>3
  <2> QED BY <2>2
<1>4. AllDbs(m, D1, O1, R1) BY <1>1, <1>2 DEF AllDbs
<1>5. Clean(m, D1, O1, R1, P, L) BY <1>1, <1>3 DEF Clean
<1> QED BY <1>4, <1>5 DEF D1, O1, R1

-----------------------------------------------------------------------------
(* The inductive invariant. *)
Types ==
    /\ Mem \in MemType /\ next[0] = 0 /\ db \in [DBs -> Database]
    /\ up \in BOOLEAN /\ clean_close \in BOOLEAN

(* One database at a time is in the middle of a return.  An open            *)
(* transaction has taken over the tails, unless a crash has ended it.       *)
OpenOK(v, alive) ==
    v.txn = "open" => IF alive /\ v.sane THEN v.atail["single"] # 0 ELSE v.atail = NoLink
Flags ==
    /\ \A d \in DBs : OpenOK(db[d], up) /\ (~up => db[d].win = "")
    /\ \A d, e \in DBs : db[d].win # "" /\ db[e].win # "" => d = e
    /\ up => ~clean_close

Struct(O, R, P) ==
    /\ AllDbs(Mem, db, O, R)
    /\ up \/ clean_close => Clean(Mem, db, O, R, P, lost)
Inv == Types /\ Flags /\ \E O, R \in [DBs -> Sets], P \in Sets : Struct(O, R, P)

(* What Store leaves in the areas. *)
LEMMA Stored == ASSUME NEW w \in MemType, Store(w) PROVE Mem' = w
<1>1. w = [next |-> w.next, size |-> w.size, pool |-> w.pool, file_size |-> w.file_size]
  BY DEF MemType
<1> QED BY <1>1 DEF Store, Mem

(* A step of one database, while no other is returning areas. *)
LEMMA StepOne ==
    ASSUME Types, Flags, up, NEW O \in [DBs -> Sets], NEW R \in [DBs -> Sets], NEW P,
           AllDbs(Mem, db, O, R), Clean(Mem, db, O, R, P, lost),
           NEW d \in DBs, \A e \in DBs \ {d} : db[e].win = "",
           NEW v \in Database, NEW o, NEW r, NEW Q,
           Moves(Mem, Mem', db[d], v, O[d], o, R[d], r, P, Q),
           db' = [db EXCEPT ![d] = v], up' = up, clean_close' = clean_close, lost' = lost,
           OpenOK(v, TRUE)
    PROVE  Inv'
<1> DEFINE O1 == [O EXCEPT ![d] = o]
           R1 == [R EXCEPT ![d] = r]
<1>0. db \in [DBs -> Database] /\ up = TRUE BY DEF Types
<1>1. AllDbs(Mem', db', O1, R1) /\ Clean(Mem', db', O1, R1, Q, lost')
  BY <1>0, OneDb
<1>2. MemOK(Mem', Q) /\ o \in Sets /\ r \in Sets
  BY DEF Moves, DbOK, EntryOK, NoEntryOK
<1>3. Q \in Sets /\ O1 \in [DBs -> Sets] /\ R1 \in [DBs -> Sets] BY <1>2 DEF MemOK
<1>4. Struct(O1, R1, Q)' BY <1>1 DEF Struct
<1>5. Types'
  <2>1. Mem' \in MemType /\ next'[0] = 0 BY <1>2 DEF MemOK, Mem
  <2> QED BY <2>1, <1>0 DEF Types
<1>6. Flags'
  <2>1. \A e \in DBs : db'[e] = IF e = d THEN v ELSE db[e] BY <1>0
  <2>2. \A e \in DBs : OpenOK(db'[e], up')
    <3> TAKE e \in DBs
    <3>1. CASE e = d BY <3>1, <2>1, <1>0
    <3>2. CASE e # d BY <3>2, <2>1, <1>0 DEF Flags
    <3> QED BY <3>1, <3>2
  <2>3. \A e \in DBs \ {d} : db'[e].win = "" BY <2>1
  <2>4. \A e, f \in DBs : db'[e].win # "" /\ db'[f].win # "" => e = f BY <2>3
  <2> QED BY <2>2, <2>4, <1>0 DEF Flags
<1> QED BY <1>3, <1>4, <1>5, <1>6 DEF Inv

(* A step of one database that leaves areas and pool alone. *)
LEMMA StepStays ==
    ASSUME Types, Flags, up, NEW O \in [DBs -> Sets], NEW R \in [DBs -> Sets], NEW P \in Sets,
           AllDbs(Mem, db, O, R), Clean(Mem, db, O, R, P, lost),
           NEW d \in DBs, NEW v \in Database, NEW o, NEW r,
           Stays(Mem, db[d], v, O[d], o, R[d], r, P), v.win \in {"", db[d].win},
           Mem' = Mem, next' = next, db' = [db EXCEPT ![d] = v], up' = up, clean_close' = clean_close, lost' = lost,
           OpenOK(v, TRUE)
    PROVE  Inv'
<1> DEFINE O1 == [O EXCEPT ![d] = o]
           R1 == [R EXCEPT ![d] = r]
<1>0. db \in [DBs -> Database] /\ up = TRUE BY DEF Types
<1>1. AllDbs(Mem, [db EXCEPT ![d] = v], O1, R1) /\ Clean(Mem, [db EXCEPT ![d] = v], O1, R1, P, lost)
  BY <1>0, OneDbStays
<1>2. o \in Sets /\ r \in Sets BY DEF Stays, DbOK, EntryOK, NoEntryOK
<1>3. O1 \in [DBs -> Sets] /\ R1 \in [DBs -> Sets] BY <1>2
<1>4. Struct(O1, R1, P)'
  <2>1. AllDbs(Mem', db', O1, R1) /\ Clean(Mem', db', O1, R1, P, lost') BY <1>1
  <2> QED BY <2>1 DEF Struct
<1>5. Types' BY <1>0 DEF Types
<1>6. Flags'
  <2>1. \A e \in DBs : db'[e] = IF e = d THEN v ELSE db[e] BY <1>0
  <2>2. \A e \in DBs : OpenOK(db'[e], up')
    <3> TAKE e \in DBs
    <3>1. CASE e = d BY <3>1, <2>1, <1>0
    <3>2. CASE e # d BY <3>2, <2>1, <1>0 DEF Flags
    <3> QED BY <3>1, <3>2
  <2>3. \A e \in DBs : db'[e].win \in {"", db[e].win} BY <2>1
  <2>4. \A e, f \in DBs : db'[e].win # "" /\ db'[f].win # "" => e = f BY <2>3 DEF Flags
  <2> QED BY <2>2, <2>4, <1>0 DEF Flags
<1> QED BY <1>3, <1>4, <1>5, <1>6 DEF Inv

-----------------------------------------------------------------------------
(* Operations that take an area. *)

(* Positions in the file are offsets, and so is 0. *)
LEMMA Position ==
    /\ 0 \in Offset
    /\ \A m \in MemType : m.file_size \in Nat /\ 1 <= m.file_size /\ m.file_size <= MapSize
    /\ \A m \in MemType : \A a \in 1 .. m.file_size - 1 : a \in Offset \ {0}
<1>1. 0 \in Offset BY AreasAssumption DEF Offset
<1>2. ASSUME NEW m \in MemType PROVE m.file_size \in Nat /\ 1 <= m.file_size /\ m.file_size <= MapSize
  BY AreasAssumption DEF MemType
<1>3. ASSUME NEW f \in Nat, f <= MapSize, NEW a \in 1 .. f - 1 PROVE a \in Offset \ {0}
  BY <1>3, AreasAssumption DEF Offset
<1> QED BY <1>1, <1>2, <1>3

(* A file is as large as itself. *)
LEMMA Reflexive == ASSUME NEW f \in Nat PROVE f <= f
  OBVIOUS

(* An area in the file. *)
LEMMA FitOne == ASSUME NEW sz, NEW f \in Nat, NEW a \in 1 .. f - 1, NEW n \in Nat \ {0}, a + n <= f, sz[a] = n
                PROVE a \in Of(sz, a) /\ Fit(sz, f, {a})
<1>1. a \in a .. a + n - 1 OBVIOUS
<1> QED BY <1>1 DEF Of, Fit

(* An area a of n blocks beside those of a database.                        *)
Beside(m, x, P, a, n, v, o, r) ==
    /\ x \in MemType /\ x.file_size \in Nat /\ x.next[0] = 0
    /\ a \in Offset \ {0} /\ a \notin Whole(o, r) /\ x.next[a] = 0
    /\ Same(m.next, x.next, Whole(o, r)) /\ DbOK(x, v, o, r)
    /\ Span(x.size, Whole(o, r)) = Span(m.size, Whole(o, r))
    /\ Span(x.size, Whole(o, r)) \cap Region(m, x, P) = {}
    /\ Span(x.size, Whole(o, r)) \cap Span(x.size, {a}) = {}
    /\ Fit(x.size, x.file_size, {a}) /\ x.size[a] = n
    /\ Whole(o, r) \subseteq Offset /\ 0 \notin Whole(o, r) /\ o \in Sets /\ r \in Sets

(* Neither the areas of a database at rest nor their links are touched.     *)
LEMMA AllocBeside ==
    ASSUME NEW m, NEW x, NEW P, NEW Q, NEW a, NEW n \in Nat \ {0}, MemOK(m, P), Taken(m, x, P, Q, a, n),
           NEW v, NEW o, NEW r, DbOK(m, v, o, r), SepOK(m.size, v, o, r, P), v.win = ""
    PROVE  Beside(m, x, P, a, n, v, o, r)
<1> DEFINE N == Whole(o, r)
           Z == Region(m, x, P)
<1>1. /\ MemOK(x, Q) /\ m.file_size <= x.file_size
      /\ a \in 1 .. x.file_size - 1 /\ a + n <= x.file_size
      /\ x.size[a] = n /\ x.next[a] = 0
      /\ Of(x.size, a) \subseteq Z
      /\ Same(m.next, x.next, Offset \ Z) /\ Same(m.size, x.size, Offset \ Z)
  BY DEF Taken
<1>2. m \in MemType /\ x \in MemType /\ x.next[0] = 0 BY <1>1 DEF MemOK
<1>3. m.file_size \in Nat /\ x.file_size \in Nat /\ 1 <= m.file_size
  <2>1. m.file_size \in Nat /\ 1 <= m.file_size BY PoolNodes
  <2>2. x.file_size \in Nat BY <1>1, PoolNodes
  <2> QED BY <2>1, <2>2
<1>4. /\ N \subseteq Span(m.size, N) /\ N \subseteq Offset /\ Span(m.size, N) \subseteq 1 .. m.file_size - 1
      /\ 0 \notin N /\ o \in Sets /\ r \in Sets
  BY <1>2, EntryNodes
<1>5. Span(m.size, N) \cap Span(m.size, Both(P)) = {} BY SepQuiet
<1>6. (1 .. m.file_size - 1) \cap (m.file_size .. x.file_size - 1) = {} BY <1>1, <1>3, Longer
<1>7. Span(m.size, N) \cap Z = {} BY <1>4, <1>5, <1>6 DEF Region
<1>8. N \subseteq Offset \ Z BY <1>4, <1>7
<1>9. Same(m.next, x.next, N) /\ Same(m.size, x.size, N) BY <1>1, <1>8 DEF Same
<1>10. Span(x.size, N) = Span(m.size, N) BY <1>9, SpanFrame
<1>11. DbOK(x, v, o, r) BY <1>1, <1>2, <1>9, DbFrame
<1>12. Span(x.size, {a}) = Of(x.size, a) BY SpanOne
<1>13. a \in Of(x.size, a) /\ Fit(x.size, x.file_size, {a})
  BY <1>1, <1>3, FitOne
<1>14. a \notin N BY <1>13, <1>1, <1>8
<1>15. a \in Offset \ {0} BY <1>1, <1>2, Position
<1> QED BY <1>1, <1>2, <1>3, <1>4, <1>7, <1>9, <1>10, <1>11, <1>12, <1>13, <1>14, <1>15 DEF Beside

(* So an operation that links the new area to the database moves it there. *)
LEMMA AllocMoves ==
    ASSUME NEW m, NEW x, NEW w \in MemType, NEW P, NEW Q, NEW a, NEW n \in Nat \ {0}, Taken(m, x, P, Q, a, n),
           NEW u, NEW o, NEW r, Beside(m, x, P, a, n, u, o, r),
           w.size = x.size, w.pool = x.pool, w.file_size = x.file_size,
           Same(x.next, w.next, Offset \ Whole(o, r)),
           NEW v, NEW o1, NEW r1, DbOK(w, v, o1, r1), v.win = "",
           Whole(o1, r1) \subseteq Whole(o, r) \cup {a},
           v.own \cup v.draft = u.own \cup u.draft \cup Span(x.size, {a})
    PROVE  Moves(m, w, u, v, o, o1, r, r1, P, Q)
<1> DEFINE N == Whole(o, r)
           Z == Region(m, x, P)
           B == Span(x.size, Both(Q))
           A == Span(x.size, {a})
           S == Span(x.size, N)
<1>1. A = Of(x.size, a) BY SpanOne
<1>2. /\ MemOK(x, Q) /\ m.file_size <= x.file_size
      /\ A \cap B = {} /\ A \cup B = Z
      /\ Same(m.next, x.next, Offset \ Z) /\ Same(m.size, x.size, Offset \ Z)
  BY <1>1 DEF Taken
<1>3. /\ x.file_size \in Nat /\ x.next[0] = 0 /\ Same(m.next, x.next, N) /\ S = Span(m.size, N)
      /\ S \cap Z = {} /\ S \cap A = {} /\ N \subseteq Offset /\ 0 \notin N
  BY DEF Beside
<1>4. N \subseteq S
  <2>1. DbOK(x, u, o, r) /\ x \in MemType BY DEF Beside
  <2> QED BY <2>1, EntryNodes
<1>5. Both(Q) \subseteq B /\ Both(Q) \subseteq Offset
  <2>1. MemOK(x, Q) BY <1>2
  <2>2. Both(Q) \subseteq B /\ \A k \in Kind : Q[k] \subseteq Offset BY <2>1, PoolNodes
  <2> QED BY <2>2 DEF Both, Kind
<1>6. Both(Q) \cap N = {} BY <1>2, <1>3, <1>4, <1>5
<1>7. MemOK(w, Q)
  <2>1. Same(x.next, w.next, Both(Q)) /\ Same(x.size, w.size, Both(Q)) BY <1>5, <1>6 DEF Same
  <2>2. w.next[0] = 0
    <3>1. 0 \in Offset BY Position
    <3> QED BY <3>1, <1>3 DEF Same
  <2>3. x.file_size <= w.file_size
    <3>1. x.file_size <= x.file_size BY <1>3, Reflexive
    <3> QED BY <3>1
  <2> QED BY <2>1, <2>2, <2>3, <1>2, MemFrame
<1>8. Touched(m, w, P, o, r) = Z \cup S BY <1>3 DEF Touched, Region
<1>9. Span(w.size, Whole(o1, r1)) \subseteq S \cup A
  <2>1. Span(x.size, N \cup {a}) = S \cup A BY ONLY SpanUnion
  <2>2. Span(x.size, Whole(o1, r1)) \subseteq Span(x.size, N \cup {a}) BY SpanSub
  <2> QED BY <2>1, <2>2
<1> DEFINE W == Span(w.size, Whole(o1, r1))
<1> HIDE DEF N, Z, B, A, S, W
<1>10. W \cap B = {} BY <1>2, <1>3, <1>9 DEF W
<1>11. B = Span(w.size, Both(Q)) BY DEF B
<1>12. SepOK(w.size, v, o1, r1, Q) BY <1>10, <1>11, SepQuiet DEF W
<1>13. W \subseteq Z \cup S /\ B \subseteq Z \cup S BY <1>9, <1>2 DEF W
<1>14. Same(m.next, w.next, Offset \ (Z \cup S)) /\ Same(m.size, w.size, Offset \ (Z \cup S))
  <2>1. Offset \ (Z \cup S) \subseteq Offset \ Z /\ Offset \ (Z \cup S) \subseteq Offset \ N BY <1>4
  <2> QED BY <2>1, <1>2 DEF Same, N
<1>15. Z = Span(m.size, Both(P)) \cup (m.file_size .. w.file_size - 1) BY DEF Z, Region
<1>16. B \cup v.own \cup v.draft
         = Span(m.size, Both(P)) \cup u.own \cup u.draft \cup (m.file_size .. w.file_size - 1)
  <2>1. v.own \cup v.draft = u.own \cup u.draft \cup A BY DEF A
  <2>2. B \cup v.own \cup v.draft = B \cup (v.own \cup v.draft) OBVIOUS
  <2>3. B \cup v.own \cup v.draft = u.own \cup u.draft \cup Z BY <2>1, <2>2, <1>2
  <2> QED BY <2>3, <1>15
<1> QED BY <1>2, <1>7, <1>8, <1>11, <1>12, <1>13, <1>14, <1>16 DEF Moves, W

(* The link to a new area. *)
LEMMA LinkedForm ==
    ASSUME NEW q, q.m \in MemType, q.area \in Offset, NEW last \in Offset
    PROVE  /\ Linked(q, last) \in MemType /\ Linked(q, last).size = q.m.size
           /\ Linked(q, last).pool = q.m.pool /\ Linked(q, last).file_size = q.m.file_size
           /\ \A y \in Offset :
                 Linked(q, last).next[y] = IF last # 0 /\ y = last THEN q.area ELSE q.m.next[y]
<1> DEFINE x == q.m
           nx == [x.next EXCEPT ![last] = q.area]
           w == [x EXCEPT !.next = nx]
<1>1. CASE last = 0 BY <1>1 DEF Linked
<1>2. CASE last # 0
  <2>1. x \in MemType /\ x.next \in [Offset -> Offset] BY DEF MemType
  <2>2. Linked(q, last) = w BY <1>2, <2>1 DEF Linked, MemType
  <2>3. nx \in [Offset -> Offset] /\ \A y \in Offset : nx[y] = IF y = last THEN q.area ELSE x.next[y]
    BY <2>1
  <2> HIDE DEF nx, x
  <2>4. w \in MemType /\ w.next = nx /\ w.size = x.size /\ w.pool = x.pool /\ w.file_size = x.file_size
    BY <2>1, <2>3 DEF MemType
  <2> QED BY <2>2, <2>3, <2>4, <1>2 DEF x
<1> QED BY <1>1, <1>2

(* alloc_single_area() and alloc_multi_area() of _DB: the chain of the       *)
(* transaction goes on with the new area.                                   *)
Grows(nx, ny, u, v, o, r, r1, k, a) ==
    /\ u.win = "" /\ u.atail["single"] # 0
    /\ v.win = "" /\ v.atail["single"] # 0 /\ v.tail = u.tail /\ v.atail[k] = a
    /\ v.head[k] = (IF u.atail[k] = 0 THEN a ELSE u.head[k])
    /\ a # 0 /\ a \notin o[k] \cup r[k] /\ 0 \notin o[k] \cup r[k] /\ o[k] \cap r[k] = {}
    /\ ny[a] = 0 /\ (u.atail[k] # 0 => ny[u.atail[k]] = a)
    /\ Same(nx, ny, (o[k] \cup r[k]) \ {u.atail[k]})
    /\ r1[k] = Live(u, r, k) \cup {a}

(* It is a chain again, and ends with the new area.                         *)
LEMMA ChainGrows ==
    ASSUME NEW nx, NEW ny, NEW u, NEW v, NEW o, NEW r, NEW r1, NEW k \in Kind, NEW a,
           Grows(nx, ny, u, v, o, r, r1, k, a), HeadOK(nx, u, o, k), RestOK(nx, u, r, k)
    PROVE  /\ HeadOK(ny, v, o, k) /\ RestOK(ny, v, r1, k) /\ Active(v, k) /\ o[k] \cap r1[k] = {}
           /\ u.atail[k] # 0 => u.atail[k] \in o[k] \cup r[k]
<1> DEFINE O == o[k]
           R == r[k]
           c == u.atail[k]
           t == u.tail[k]
<1>0. /\ u.win = "" /\ u.atail["single"] # 0
      /\ v.win = "" /\ v.atail["single"] # 0 /\ v.tail[k] = t /\ v.atail[k] = a
      /\ v.head[k] = (IF c = 0 THEN a ELSE u.head[k])
      /\ a # 0 /\ a \notin O \cup R /\ 0 \notin O \cup R /\ O \cap R = {}
      /\ ny[a] = 0 /\ (c # 0 => ny[c] = a)
      /\ Same(nx, ny, (O \cup R) \ {c})
      /\ r1[k] = Live(u, r, k) \cup {a}
  BY DEF Grows
<1>1. t # 0 => t \in O /\ Seg(nx, u.head[k], t, O) BY DEF HeadOK, Seg
<1>2. t = 0 => O = {} BY DEF HeadOK
<1>3. Active(v, k) BY <1>0, <1>1 DEF Active
<1>4. Seg(ny, a, a, {a}) BY <1>0, SegOne
<1>5. CASE Active(u, k)
  <2>1. First(nx, u, k) # 0 /\ c \in R /\ Seg(nx, First(nx, u, k), c, R) BY <1>5 DEF RestOK
  <2> DEFINE f == First(nx, u, k)
  <2>2. c # 0 /\ r1[k] = R \cup {a} /\ v.head[k] = u.head[k] BY <2>1, <1>0, <1>5 DEF Live
  <2>3. Same(nx, ny, O) /\ Same(nx, ny, R \ {c}) BY <2>1, <1>0 DEF Same
  <2>4. HeadOK(nx, v, o, k) /\ First(nx, v, k) = f BY <2>2, <1>0 DEF HeadOK, First
  <2>5. HeadOK(ny, v, o, k) /\ First(ny, v, k) = f BY <2>3, <2>4, HeadFrame
  <2> HIDE DEF f, O, R, c
  <2>6. ny[c] = a BY <2>2, <1>0
  <2>7. Seg(ny, f, c, R) BY <2>1, <2>3, <2>6, <1>0, SegFrame DEF f
  <2>8. Seg(ny, f, a, R \cup {a}) BY <2>6, <2>7, <1>4, <1>0, SegJoin, ZenonT(60)
  <2>9. a \in r1[k] /\ Seg(ny, First(ny, v, k), a, r1[k]) BY <2>2, <2>5, <2>8
  <2>10. First(ny, v, k) # 0 BY <2>5, <2>1 DEF f
  <2>11. RestOK(ny, v, r1, k) BY <2>9, <2>10, <1>0 DEF RestOK
  <2> QED BY <2>5, <2>11, <2>1, <2>2, <1>0, <1>3 DEF O, R, c
<1>6. CASE ~Active(u, k)
  <2>1. c = t BY <1>6, <1>0 DEF Active
  <2>2. r1[k] = {a} BY <1>6, <1>0 DEF Live
  <2>3. HeadOK(ny, v, o, k) /\ First(ny, v, k) = a
    <3>1. CASE t = 0 BY <3>1, <2>1, <1>0, <1>2 DEF HeadOK, First
    <3>2. CASE t # 0
      <4>1. ny[t] = a /\ v.head[k] = u.head[k] BY <3>2, <2>1, <1>0
      <4>2. Same(nx, ny, O \ {t}) BY <2>1, <1>0 DEF Same
      <4> HIDE DEF O, t
      <4>3. Seg(ny, u.head[k], t, O) BY <4>1, <4>2, <3>2, <1>0, <1>1, SegFrame
      <4> QED BY <4>1, <4>3, <3>2, <1>0 DEF HeadOK, First, O
    <3> QED BY <3>1, <3>2
  <2>4. RestOK(ny, v, r1, k) BY <2>2, <2>3, <1>0, <1>4 DEF RestOK
  <2> QED BY <2>1, <2>2, <2>3, <2>4, <1>0, <1>1, <1>3
<1> QED BY <1>5, <1>6

(* The areas of the database with the new one. *)
LEMMA TidyNew ==
    ASSUME NEW sz, NEW fs \in Nat, NEW o \in Sets, NEW r \in Sets, NEW o1 \in Sets, NEW r1 \in Sets,
           NEW k \in Kind, NEW a,
           Tidy(sz, fs, o["single"] \cup r["single"], o["multi"] \cup r["multi"]),
           Fit(sz, fs, {a}), k = "single" => sz[a] = 1, Span(sz, Whole(o, r)) \cap Span(sz, {a}) = {},
           o1[k] \cup r1[k] \subseteq o[k] \cup r[k] \cup {a},
           \A j \in Kind \ {k} : o1[j] \cup r1[j] \subseteq o[j] \cup r[j]
    PROVE  /\ Tidy(sz, fs, o1["single"] \cup r1["single"], o1["multi"] \cup r1["multi"])
           /\ Whole(o1, r1) \subseteq Whole(o, r) \cup {a}
<1> DEFINE S == o["single"] \cup r["single"]
           M == o["multi"] \cup r["multi"]
           A == IF k = "single" THEN {a} ELSE {}
           B == IF k = "multi" THEN {a} ELSE {}
<1>1. A \cup B = {a} /\ A \cap B = {} BY DEF Kind
<1>2. Tidy(sz, fs, A, B)
  <2>1. Apart(sz, {a}) BY DEF Apart
  <2>2. \A b \in A : sz[b] = 1 OBVIOUS
  <2> HIDE DEF A, B
  <2> QED BY <1>1, <2>1, <2>2 DEF Tidy
<1>3. S \cup M = Whole(o, r) BY DEF Whole, Both
<1>4. o1["single"] \cup r1["single"] \subseteq S \cup A /\ o1["multi"] \cup r1["multi"] \subseteq M \cup B
  BY DEF Kind
<1>5. Tidy(sz, fs, S, M) OBVIOUS
<1> HIDE DEF S, M, A, B
<1>6. Tidy(sz, fs, S \cup A, M \cup B) BY <1>1, <1>2, <1>3, <1>5, TidyUnion
<1>7. Tidy(sz, fs, o1["single"] \cup r1["single"], o1["multi"] \cup r1["multi"]) BY <1>4, <1>6, TidySub
<1>8. Whole(o1, r1) = (o1["single"] \cup r1["single"]) \cup (o1["multi"] \cup r1["multi"]) BY DEF Whole, Both
<1>9. Whole(o1, r1) \subseteq Whole(o, r) \cup {a} BY <1>1, <1>3, <1>4, <1>8
<1> QED BY <1>7, <1>9

(* The state of a process that has the file open. *)
Now(O, R, P) ==
    /\ Types /\ Flags /\ up
    /\ O \in [DBs -> Sets] /\ R \in [DBs -> Sets] /\ P \in Sets
    /\ AllDbs(Mem, db, O, R) /\ Clean(Mem, db, O, R, P, lost)

(* What an allocation does to the areas, and to a database at rest. *)
LEMMA AllocNow ==
    ASSUME NEW O, NEW R, NEW P, Now(O, R, P), NEW d \in DBs, db[d].win = "",
           NEW k \in Kind, NEW n \in Nat \ {0}, k = "single" => n = 1, CanAlloc(k, n)
    PROVE  \E Q : /\ Taken(Mem, Alloc(Mem, k, n).m, P, Q, Alloc(Mem, k, n).area, n)
                  /\ Beside(Mem, Alloc(Mem, k, n).m, P, Alloc(Mem, k, n).area, n, db[d], O[d], R[d])
<1>1. MemOK(Mem, P) /\ SepOK(Mem.size, db[d], O[d], R[d], P) /\ DbOK(Mem, db[d], O[d], R[d])
  BY DEF Now, Clean, AllDbs
<1> DEFINE x == Alloc(Mem, k, n).m
           a == Alloc(Mem, k, n).area
<1>2. PICK Q : Taken(Mem, x, P, Q, a, n) BY <1>1, AllocTaken
<1> HIDE DEF x, a
<1>3. Beside(Mem, x, P, a, n, db[d], O[d], R[d]) BY <1>1, <1>2, AllocBeside
<1> QED BY <1>2, <1>3 DEF x, a

(* A single area has one block. *)
LEMMA One == 1 \in Nat \ {0}
  OBVIOUS

(* What the allocation of a single area does. *)
LEMMA AllocOne ==
    ASSUME NEW O, NEW R, NEW P, Now(O, R, P), NEW d \in DBs, db[d].win = "", CanAlloc("single", 1)
    PROVE  \E Q : /\ Taken(Mem, Alloc(Mem, "single", 1).m, P, Q, Alloc(Mem, "single", 1).area, 1)
                  /\ Beside(Mem, Alloc(Mem, "single", 1).m, P, Alloc(Mem, "single", 1).area, 1,
                            db[d], O[d], R[d])
<1> DEFINE k == "single"
           n == 1
<1>1. k \in Kind /\ n \in Nat \ {0} /\ (k = "single" => n = 1) /\ CanAlloc(k, n) BY One DEF Kind
<1> HIDE DEF k, n
<1>2. \E Q : /\ Taken(Mem, Alloc(Mem, k, n).m, P, Q, Alloc(Mem, k, n).area, n)
             /\ Beside(Mem, Alloc(Mem, k, n).m, P, Alloc(Mem, k, n).area, n, db[d], O[d], R[d])
  BY <1>1, AllocNow
<1> QED BY <1>2 DEF k, n

(* alloc_single_area() and alloc_multi_area() of _DB. *)
LEMMA StepAllocArea ==
    ASSUME NEW O, NEW R, NEW P, Now(O, R, P), NEW d \in DBs,
           NEW k \in Kind, NEW n \in Nat \ {0}, AllocArea(d, k, n)
    PROVE  Inv'
<1> DEFINE q == Alloc(Mem, k, n)
           x == q.m
           a == q.area
           u == db[d]
           o == O[d]
           r == R[d]
           w == Linked(q, u.atail[k])
           h == IF u.atail[k] = 0 THEN a ELSE u.head[k]
           D == u.draft \cup Of(x.size, a)
           v == [u EXCEPT !.atail = [u.atail EXCEPT ![k] = a], !.head = [u.head EXCEPT ![k] = h], !.draft = D]
           r1 == [r EXCEPT ![k] = Live(u, r, k) \cup {a}]
<1>0. /\ Ready(d) /\ u.txn = "open" /\ (k = "single" => n = 1) /\ CanAlloc(k, n)
      /\ Store(w) /\ up' = up /\ clean_close' = clean_close /\ lost' = lost
  BY DEF AllocArea
<1>1. /\ u.win = "" /\ \A e \in DBs \ {d} : db[e].win = ""
      /\ u.entry /\ u.sane /\ up /\ u \in Database /\ db \in [DBs -> Database] /\ OpenOK(u, TRUE)
  <2>1. up = TRUE BY <1>0 DEF Ready, Usable, Now, Types
  <2> QED BY <2>1, <1>0 DEF Ready, Usable, FileLock, Now, Types, Flags
<1>2. PICK Q : Taken(Mem, x, P, Q, a, n) /\ Beside(Mem, x, P, a, n, u, o, r)
  BY <1>0, <1>1, AllocNow
<1>3. u.atail["single"] # 0 BY <1>0, <1>1 DEF OpenOK
<1>4. db' = [db EXCEPT ![d] = v]
  <2>1. db' = [db EXCEPT ![d].atail[k] = a, ![d].head[k] = h, ![d].draft = D]
    BY <1>0 DEF AllocArea, Blocks, Of
  <2> HIDE DEF h, D, a
  <2> QED BY <2>1, <1>1
<1>5. /\ x \in MemType /\ x.file_size \in Nat /\ x.next[0] = 0
      /\ a \in Offset \ {0} /\ a \notin Whole(o, r) /\ x.next[a] = 0
      /\ DbOK(x, u, o, r)
      /\ Span(x.size, Whole(o, r)) \cap Span(x.size, {a}) = {}
      /\ Fit(x.size, x.file_size, {a}) /\ x.size[a] = n
      /\ Whole(o, r) \subseteq Offset /\ 0 \notin Whole(o, r) /\ o \in Sets /\ r \in Sets
  BY <1>2 DEF Beside
<1>6. EntryOK(x, u, o, r) BY <1>1, <1>5 DEF DbOK
<1>7. u.atail \in [Kind -> Offset] /\ u.head \in [Kind -> Offset] /\ u.atail[k] \in Offset BY <1>1 DEF Database
<1>8. Of(x.size, a) = Span(x.size, {a}) /\ Span(x.size, {a}) \subseteq Offset
  <2>1. Span(x.size, {a}) \subseteq 1 .. x.file_size - 1 BY <1>5, SpanNode
  <2>2. Of(x.size, a) = Span(x.size, {a}) BY SpanOne
  <2>3. \A y \in 1 .. x.file_size - 1 : y \in Offset BY <1>5, Position
  <2> QED BY <2>1, <2>2, <2>3
<1> HIDE DEF q, x, a, w
<1>9. /\ w \in MemType /\ w.size = x.size /\ w.pool = x.pool /\ w.file_size = x.file_size
      /\ \A y \in Offset : w.next[y] = IF u.atail[k] # 0 /\ y = u.atail[k] THEN a ELSE x.next[y]
  BY <1>5, <1>7, LinkedForm DEF w, x, a
<1>10. Mem' = w BY <1>0, <1>9, Stored
<1>11. D \subseteq Offset /\ h \in Offset BY <1>1, <1>5, <1>7, <1>8 DEF Database
<1> HIDE DEF u, h, D
<1>12. /\ v \in Database /\ v.win = "" /\ v.tail = u.tail /\ v.entry /\ v.txn = "open" /\ v.sane
       /\ v.own = u.own /\ v.draft = D /\ v.atail[k] = a /\ v.head[k] = h
       /\ \A j \in Kind \ {k} : v.atail[j] = u.atail[j] /\ v.head[j] = u.head[j]
  <2> DEFINE at == [u.atail EXCEPT ![k] = a]
             hd == [u.head EXCEPT ![k] = h]
  <2>1. at \in [Kind -> Offset] /\ hd \in [Kind -> Offset] BY <1>5, <1>7, <1>11
  <2>2. at[k] = a /\ hd[k] = h /\ \A j \in Kind \ {k} : at[j] = u.atail[j] /\ hd[j] = u.head[j]
    BY <1>7
  <2> HIDE DEF at, hd
  <2>3. v = [u EXCEPT !.atail = at, !.head = hd, !.draft = D] BY DEF at, hd
  <2> QED BY <2>1, <2>2, <2>3, <1>0, <1>1, <1>11, ZenonT(60) DEF Database
<1>13. v.atail["single"] # 0 BY <1>12, <1>3, <1>5 DEF Kind
<1> HIDE DEF v
<1>14. /\ r1 \in Sets /\ r1[k] = Live(u, r, k) \cup {a} /\ \A j \in Kind \ {k} : r1[j] = r[j]
  BY <1>5 DEF Sets, Live
<1> HIDE DEF r1, o, r
<1>15. \A j \in Kind : o[j] \subseteq Whole(o, r) /\ r[j] \subseteq Whole(o, r) BY <1>5, EntryNodes
<1>16. /\ \A j \in Kind : HeadOK(x.next, u, o, j) /\ RestOK(x.next, u, r, j) /\ o[j] \cap r[j] = {}
       /\ u.tail["single"] # 0 /\ TxnOK(u) /\ u.own = Span(x.size, Both(o)) /\ u.draft = Span(x.size, Draft(u, r))
       /\ Tidy(x.size, x.file_size, o["single"] \cup r["single"], o["multi"] \cup r["multi"])
  BY <1>1, <1>6 DEF EntryOK
<1>17. Grows(x.next, w.next, u, v, o, r, r1, k, a)
  <2>1. o[k] \subseteq Whole(o, r) /\ r[k] \subseteq Whole(o, r) BY <1>15
  <2>2. a \notin o[k] \cup r[k] /\ 0 \notin o[k] \cup r[k] /\ o[k] \cap r[k] = {} BY <2>1, <1>5, <1>16
  <2>3. w.next[a] = 0
    <3>1. u.atail[k] = a => u.atail[k] \in o[k] \cup r[k]
      <4> SUFFICES ASSUME u.atail[k] = a PROVE a \in o[k] \cup r[k] OBVIOUS
      <4>1. CASE Active(u, k) BY <4>1, <1>16 DEF RestOK
      <4>2. CASE ~Active(u, k)
        <5>1. u.tail[k] = a BY <4>2, <1>1, <1>3 DEF Active
        <5> QED BY <5>1, <1>5, <1>16 DEF HeadOK, Seg
      <4> QED BY <4>1, <4>2
    <3> QED BY <3>1, <2>2, <1>9, <1>5
  <2>4. u.atail[k] # 0 => w.next[u.atail[k]] = a BY <1>7, <1>9
  <2>5. Same(x.next, w.next, (o[k] \cup r[k]) \ {u.atail[k]}) BY <2>1, <1>5, <1>9 DEF Same
  <2> QED BY <2>2, <2>3, <2>4, <2>5, <1>1, <1>3, <1>5, <1>12, <1>13, <1>14 DEF Grows, h
<1>18. /\ HeadOK(w.next, v, o, k) /\ RestOK(w.next, v, r1, k) /\ Active(v, k) /\ o[k] \cap r1[k] = {}
       /\ u.atail[k] # 0 => u.atail[k] \in o[k] \cup r[k]
  BY <1>16, <1>17, ChainGrows, ZenonT(60)
<1>19. ASSUME NEW j \in Kind \ {k}
       PROVE  /\ HeadOK(w.next, v, o, j) /\ RestOK(w.next, v, r1, j) /\ o[j] \cap r1[j] = {}
              /\ Active(v, j) <=> Active(u, j)
  <2>1. (o[k] \cup r[k]) \cap (o[j] \cup r[j]) = {} BY <1>16 DEF Tidy, Kind
  <2>2. o[j] \subseteq Offset /\ r[j] \subseteq Offset /\ 0 \notin r[j] BY <1>5, <1>15
  <2>3. Same(x.next, w.next, o[j]) /\ Same(x.next, w.next, r[j]) BY <2>1, <2>2, <1>9, <1>18 DEF Same
  <2>4. Active(v, j) <=> Active(u, j) BY <1>1, <1>3, <1>12, <1>13 DEF Active
  <2>5. HeadOK(x.next, v, o, j) /\ RestOK(x.next, v, r1, j)
    <3>1. v.head[j] = u.head[j] /\ v.tail = u.tail /\ v.atail[j] = u.atail[j] /\ r1[j] = r[j]
      BY <1>12, <1>14
    <3>2. First(x.next, v, j) = First(x.next, u, j) BY <3>1 DEF First
    <3>3. HeadOK(x.next, u, o, j) /\ RestOK(x.next, u, r, j) BY <1>16
    <3> QED BY <3>1, <3>2, <3>3, <2>4 DEF HeadOK, RestOK
  <2>6. HeadOK(w.next, v, o, j) /\ First(w.next, v, j) = First(x.next, v, j) BY <2>3, <2>5, HeadFrame
  <2>7. r1[j] = r[j] BY <1>14
  <2>8. RestOK(w.next, v, r1, j) BY <2>2, <2>3, <2>5, <2>6, <2>7, RestFrame
  <2> QED BY <2>4, <2>6, <2>7, <2>8, <1>16
<1>20. /\ Tidy(x.size, x.file_size, o["single"] \cup r1["single"], o["multi"] \cup r1["multi"])
       /\ Whole(o, r1) \subseteq Whole(o, r) \cup {a}
  <2>1. o[k] \cup r1[k] \subseteq o[k] \cup r[k] \cup {a} BY <1>14 DEF Live
  <2>2. \A j \in Kind \ {k} : o[j] \cup r1[j] \subseteq o[j] \cup r[j] BY <1>14
  <2>3. k = "single" => x.size[a] = 1 BY <1>0, <1>5
  <2> QED BY <2>1, <2>2, <2>3, <1>5, <1>14, <1>16, TidyNew
<1>21. v.draft = Span(w.size, Draft(v, r1))
  <2>1. Draft(v, r1) = Draft(u, r) \cup {a}
    <3>1. Live(v, r1, k) = Live(u, r, k) \cup {a} BY <1>14, <1>18 DEF Live
    <3>2. \A j \in Kind \ {k} : Live(v, r1, j) = Live(u, r, j) BY <1>14, <1>19 DEF Live
    <3> QED BY <3>1, <3>2 DEF Draft, Kind
  <2>2. Span(x.size, Draft(v, r1)) = Span(x.size, Draft(u, r)) \cup Span(x.size, {a}) BY <2>1, SpanUnion
  <2> QED BY <2>2, <1>8, <1>9, <1>12, <1>16 DEF D
<1>22. EntryOK(w, v, o, r1)
  <2>1. TxnOK(v) BY <1>12, <1>13 DEF TxnOK
  <2>2. \A j \in Kind : HeadOK(w.next, v, o, j) /\ RestOK(w.next, v, r1, j) /\ o[j] \cap r1[j] = {}
    BY <1>18, <1>19
  <2> QED BY <2>1, <2>2, <1>5, <1>9, <1>12, <1>14, <1>16, <1>20, <1>21 DEF EntryOK
<1>23. DbOK(w, v, o, r1) BY <1>12, <1>22 DEF DbOK
<1>24. Same(x.next, w.next, Offset \ Whole(o, r)) BY <1>9, <1>15, <1>18 DEF Same
<1>25. v.own \cup v.draft = u.own \cup u.draft \cup Span(x.size, {a}) BY <1>8, <1>12 DEF D
<1>26. Moves(Mem, w, u, v, o, o, r, r1, P, Q)
  <2>1. /\ w \in MemType /\ w.size = x.size /\ w.pool = x.pool /\ w.file_size = x.file_size
        /\ v.win = "" /\ Whole(o, r1) \subseteq Whole(o, r) \cup {a}
    BY <1>9, <1>12, <1>20
  <2> QED BY <2>1, <1>2, <1>23, <1>24, <1>25, AllocMoves
<1>27. OpenOK(v, TRUE) BY <1>12, <1>13 DEF OpenOK
<1>28. Moves(Mem, Mem', db[d], v, O[d], O[d], R[d], r1, P, Q) BY <1>10, <1>26 DEF u, o, r
<1> QED BY <1>0, <1>1, <1>4, <1>12, <1>27, <1>28, StepOne DEF Now

(* open() of a new database. *)
LEMMA StepCreate ==
    ASSUME NEW O, NEW R, NEW P, Now(O, R, P), NEW d \in DBs, Create(d)
    PROVE  Inv'
<1> DEFINE q == Alloc(Mem, "single", 1)
           x == q.m
           a == q.area
           u == db[d]
           o == O[d]
           r == R[d]
           c == [NoLink EXCEPT !["single"] = a]
           v == [NoDatabase EXCEPT !.entry = TRUE, !.head = c, !.tail = c, !.own = {a}]
           o1 == [k \in Kind |-> IF k = "single" THEN {a} ELSE {}]
           r1 == [k \in Kind |-> {}]
<1>0. /\ FileLock /\ ~u.entry /\ CanAlloc("single", 1) /\ Store(x) /\ db' = [db EXCEPT ![d] = v]
      /\ up' = up /\ clean_close' = clean_close /\ lost' = lost
  BY DEF Create
<1>1. u.win = "" /\ \A e \in DBs \ {d} : db[e].win = "" BY <1>0 DEF FileLock
<1>2. PICK Q : Taken(Mem, x, P, Q, a, 1) /\ Beside(Mem, x, P, a, 1, u, o, r)
  BY <1>0, <1>1, AllocOne
<1>3. /\ x \in MemType /\ a \in Offset \ {0} /\ x.next[a] = 0 /\ DbOK(x, u, o, r)
      /\ Fit(x.size, x.file_size, {a}) /\ x.size[a] = 1 /\ o \in Sets /\ r \in Sets
  BY <1>2 DEF Beside
<1>4. Whole(o, r) = {} /\ u.own = {} /\ u.draft = {} BY <1>0, <1>3 DEF DbOK, NoEntryOK
<1> HIDE DEF q, x, a, u
<1>5. c \in [Kind -> Offset] /\ c["single"] = a /\ c["multi"] = 0
  <2>1. 0 \in Offset BY Position
  <2> QED BY <2>1, <1>3 DEF NoLink, Kind
<1> HIDE DEF c
<1>6. /\ v \in Database /\ v.entry /\ v.head = c /\ v.tail = c /\ v.own = {a} /\ v.draft = {}
      /\ v.win = "" /\ v.txn = "none" /\ v.atail = NoLink
  <2>1. NoLink \in [Kind -> Offset] BY Position DEF NoLink
  <2> QED BY <2>1, <1>3, <1>5 DEF NoDatabase, Database
<1> HIDE DEF v
<1>7. /\ o1 \in Sets /\ r1 \in Sets /\ o1["single"] = {a} /\ o1["multi"] = {}
      /\ r1["single"] = {} /\ r1["multi"] = {}
  BY <1>3 DEF Sets, Kind
<1> HIDE DEF o1, r1
<1>8. Both(o1) = {a} /\ Whole(o1, r1) = {a} BY <1>7 DEF Whole, Both
<1>9. \A k \in Kind : ~Active(v, k) BY <1>6 DEF Active, NoLink, Kind
<1>10. HeadOK(x.next, v, o1, "single") /\ RestOK(x.next, v, r1, "single")
  <2>1. Seg(x.next, a, a, {a}) BY <1>3, SegOne
  <2>2. First(x.next, v, "single") = 0 BY <1>3, <1>5, <1>6 DEF First
  <2> QED BY <2>1, <2>2, <1>3, <1>5, <1>6, <1>7, <1>9 DEF HeadOK, RestOK, Kind
<1>11. HeadOK(x.next, v, o1, "multi") /\ RestOK(x.next, v, r1, "multi")
  <2>1. First(x.next, v, "multi") = 0 BY <1>5, <1>6 DEF First
  <2> QED BY <2>1, <1>5, <1>6, <1>7, <1>9 DEF HeadOK, RestOK, Kind
<1>12. Tidy(x.size, x.file_size, o1["single"] \cup r1["single"], o1["multi"] \cup r1["multi"])
  BY <1>3, <1>7 DEF Tidy, Apart
<1>13. Span(x.size, {a}) = {a}
  <2>1. Of(x.size, a) = a .. a + 1 - 1 BY <1>3 DEF Of
  <2>2. a \in Nat BY <1>3, AreasAssumption DEF Offset
  <2>3. a .. a + 1 - 1 = {a} BY <2>2
  <2> QED BY <2>1, <2>3, SpanOne
<1>14. v.draft = Span(x.size, Draft(v, r1))
  <2>1. Draft(v, r1) = {} BY <1>7 DEF Draft, Live
  <2> QED BY <2>1, <1>6, SpanNone
<1>15. EntryOK(x, v, o1, r1)
  <2>1. TxnOK(v) BY <1>6 DEF TxnOK, NoLink, Kind
  <2>2. \A k \in Kind : HeadOK(x.next, v, o1, k) /\ RestOK(x.next, v, r1, k) /\ o1[k] \cap r1[k] = {}
    BY <1>7, <1>10, <1>11 DEF Kind
  <2>3. v.tail["single"] # 0 BY <1>3, <1>5, <1>6
  <2> QED BY <2>1, <2>2, <2>3, <1>6, <1>7, <1>8, <1>12, <1>13, <1>14 DEF EntryOK
<1>16. DbOK(x, v, o1, r1) BY <1>6, <1>15 DEF DbOK
<1>17. Same(x.next, x.next, Offset \ Whole(o, r)) BY DEF Same
<1>18. v.own \cup v.draft = u.own \cup u.draft \cup Span(x.size, {a}) BY <1>4, <1>6, <1>13
<1>19. Whole(o1, r1) \subseteq Whole(o, r) \cup {a} BY <1>8
<1>20. Moves(Mem, x, u, v, o, o1, r, r1, P, Q)
  <2>1. v.win = "" /\ 1 \in Nat \ {0} BY <1>6, One
  <2> QED BY <2>1, <1>2, <1>3, <1>16, <1>17, <1>18, <1>19, AllocMoves
<1>21. OpenOK(v, TRUE) BY <1>6 DEF OpenOK
<1>22. Mem' = x BY <1>0, <1>3, Stored
<1>23. Moves(Mem, Mem', db[d], v, O[d], o1, R[d], r1, P, Q) BY <1>20, <1>22 DEF u
<1> QED BY <1>0, <1>1, <1>6, <1>21, <1>23, StepOne DEF Now

(* sanitize() of a database that takes an area. *)
LEMMA StepSanitizeGrow ==
    ASSUME NEW O, NEW R, NEW P, Now(O, R, P), NEW d \in DBs, SanitizeDB(d, TRUE)
    PROVE  Inv'
<1> DEFINE q == Alloc(Mem, "single", 1)
           x == q.m
           a == q.area
           u == db[d]
           o == O[d]
           r == R[d]
           t == u.tail["single"]
           w == Linked(q, t)
           c == [u.tail EXCEPT !["single"] = a]
           N == u.own \cup {a}
           v == [u EXCEPT !.sane = TRUE, !.txn = "none", !.tail = c, !.own = N]
           o1 == [o EXCEPT !["single"] = o["single"] \cup {a}]
           r1 == [r EXCEPT !["single"] = {}]
<1>0. /\ FileLock /\ u.entry /\ ~u.sane /\ u.txn = "open" /\ CanAlloc("single", 1) /\ Store(w)
      /\ up' = up /\ clean_close' = clean_close /\ lost' = lost
  BY DEF SanitizeDB
<1>1. /\ u.win = "" /\ \A e \in DBs \ {d} : db[e].win = ""
      /\ u \in Database /\ db \in [DBs -> Database] /\ u.atail = NoLink
  <2>1. up = TRUE /\ u.win = "" /\ \A e \in DBs \ {d} : db[e].win = "" BY <1>0 DEF FileLock, Now, Types
  <2>2. OpenOK(u, up) BY DEF Flags, Now
  <2> QED BY <2>1, <2>2, <1>0 DEF Now, Types, OpenOK
<1>2. PICK Q : Taken(Mem, x, P, Q, a, 1) /\ Beside(Mem, x, P, a, 1, u, o, r)
  BY <1>0, <1>1, AllocOne
<1>3. /\ x \in MemType /\ x.file_size \in Nat /\ x.next[0] = 0
      /\ a \in Offset \ {0} /\ a \notin Whole(o, r) /\ x.next[a] = 0
      /\ DbOK(x, u, o, r)
      /\ Span(x.size, Whole(o, r)) \cap Span(x.size, {a}) = {}
      /\ Fit(x.size, x.file_size, {a}) /\ x.size[a] = 1
      /\ Whole(o, r) \subseteq Offset /\ 0 \notin Whole(o, r) /\ o \in Sets /\ r \in Sets
  BY <1>2 DEF Beside
<1>4. /\ \A j \in Kind : HeadOK(x.next, u, o, j) /\ RestOK(x.next, u, r, j) /\ o[j] \cap r[j] = {}
      /\ t # 0 /\ u.own = Span(x.size, Both(o)) /\ u.draft = Span(x.size, Draft(u, r))
      /\ Tidy(x.size, x.file_size, o["single"] \cup r["single"], o["multi"] \cup r["multi"])
  BY <1>0, <1>1, <1>3 DEF DbOK, EntryOK
<1>5. u.tail \in [Kind -> Offset] /\ t \in Offset BY <1>1 DEF Database, Kind
<1>6. db' = [db EXCEPT ![d] = v]
  <2>1. Dropped(d) = [u EXCEPT !.sane = TRUE, !.txn = "none"] BY <1>0, <1>1 DEF Dropped
  <2>2. db' = [db EXCEPT ![d] = [Dropped(d) EXCEPT !.tail["single"] = a, !.own = @ \cup {a}]]
    BY <1>0 DEF SanitizeDB
  <2> HIDE DEF a, u
  <2>3. [[u EXCEPT !.sane = TRUE, !.txn = "none"] EXCEPT !.tail["single"] = a, !.own = @ \cup {a}] = v
    BY <1>1 DEF Database
  <2> QED BY <2>1, <2>2, <2>3
<1> HIDE DEF q, x, a, u, w
<1>7. /\ w \in MemType /\ w.size = x.size /\ w.pool = x.pool /\ w.file_size = x.file_size
      /\ \A y \in Offset : w.next[y] = IF y = t THEN a ELSE x.next[y]
  <2>1. /\ w \in MemType /\ w.size = x.size /\ w.pool = x.pool /\ w.file_size = x.file_size
        /\ \A y \in Offset : w.next[y] = IF t # 0 /\ y = t THEN a ELSE x.next[y]
    BY <1>3, <1>5, LinkedForm DEF w, x, a
  <2> QED BY <2>1, <1>4
<1>8. Mem' = w BY <1>0, <1>7, Stored
<1>9. c \in [Kind -> Offset] /\ c["single"] = a /\ c["multi"] = u.tail["multi"]
  BY <1>3, <1>5 DEF Kind
<1>10. N \subseteq Offset BY <1>1, <1>3 DEF Database
<1> HIDE DEF c, N
<1>11. /\ v \in Database /\ v.entry /\ v.head = u.head /\ v.tail = c /\ v.own = N /\ v.draft = u.draft
       /\ v.win = "" /\ v.txn = "none" /\ v.atail = NoLink
  BY <1>0, <1>1, <1>9, <1>10 DEF Database
<1> HIDE DEF v, o, r
<1>12. /\ o1 \in Sets /\ r1 \in Sets /\ o1["single"] = o["single"] \cup {a} /\ o1["multi"] = o["multi"]
       /\ r1["single"] = {} /\ r1["multi"] = r["multi"]
  BY <1>3 DEF Sets, Kind
<1> HIDE DEF o1, r1
<1>13. \A k \in Kind : ~Active(v, k) /\ ~Active(u, k) BY <1>1, <1>11 DEF Active, NoLink, Kind
<1>14. /\ \A j \in Kind : o[j] \subseteq Whole(o, r) /\ r[j] \subseteq Whole(o, r)
       /\ t \in o["single"]
  <2>1. \A j \in Kind : o[j] \subseteq Whole(o, r) /\ r[j] \subseteq Whole(o, r) BY <1>3, EntryNodes
  <2>2. t \in o["single"] BY <1>4 DEF HeadOK, Seg, Kind
  <2> QED BY <2>1, <2>2
<1>15. HeadOK(w.next, v, o1, "single") /\ RestOK(w.next, v, r1, "single")
  <2> DEFINE A == o["single"]
             h == u.head["single"]
  <2>0. A \subseteq Offset /\ 0 \notin A /\ a \notin A /\ t \in A BY <1>3, <1>14 DEF Kind
  <2>1. Seg(x.next, h, t, A) BY <1>4 DEF HeadOK, Kind
  <2>2. Same(x.next, w.next, A \ {t}) /\ w.next[t] = a /\ w.next[a] = 0
    BY <2>0, <1>3, <1>5, <1>7 DEF Same
  <2> HIDE DEF A, h, t
  <2>3. Seg(w.next, h, t, A) BY <2>0, <2>1, <2>2, SegFrame
  <2>4. Seg(w.next, a, a, {a}) BY <2>2, <1>3, SegOne
  <2>5. Seg(w.next, h, a, A \cup {a}) BY <2>0, <2>2, <2>3, <2>4, SegJoin
  <2>6. HeadOK(w.next, v, o1, "single") BY <2>5, <1>3, <1>9, <1>11, <1>12 DEF HeadOK, A, h
  <2>7. First(w.next, v, "single") = 0 BY <2>2, <1>3, <1>9, <1>11 DEF First
  <2>8. RestOK(w.next, v, r1, "single") BY <2>7, <1>12, <1>13 DEF RestOK, Kind
  <2> QED BY <2>6, <2>8
<1>16. HeadOK(w.next, v, o1, "multi") /\ RestOK(w.next, v, r1, "multi")
  <2> DEFINE j == "multi"
  <2>1. t \notin o[j] \cup r[j] BY <1>4, <1>14 DEF Tidy
  <2>2. o[j] \subseteq Offset /\ r[j] \subseteq Offset /\ 0 \notin r[j] BY <1>3, <1>14 DEF Kind
  <2>3. Same(x.next, w.next, o1[j]) /\ Same(x.next, w.next, r1[j]) BY <2>1, <2>2, <1>7, <1>12 DEF Same
  <2>4. v.tail[j] = u.tail[j] /\ v.head = u.head /\ o1[j] = o[j] /\ r1[j] = r[j] BY <1>9, <1>11, <1>12
  <2>5. First(x.next, v, j) = First(x.next, u, j) BY <2>4 DEF First
  <2>6. HeadOK(x.next, u, o, j) /\ RestOK(x.next, u, r, j) /\ ~Active(v, j) /\ ~Active(u, j)
    BY <1>4, <1>13 DEF Kind
  <2> HIDE DEF j
  <2>7. HeadOK(x.next, v, o1, j) /\ RestOK(x.next, v, r1, j) BY <2>4, <2>5, <2>6 DEF HeadOK, RestOK
  <2>8. HeadOK(w.next, v, o1, j) /\ First(w.next, v, j) = First(x.next, v, j) BY <2>3, <2>7, HeadFrame
  <2>9. RestOK(w.next, v, r1, j) BY <2>2, <2>3, <2>4, <2>7, <2>8, RestFrame
  <2> QED BY <2>8, <2>9 DEF j
<1>17. /\ Tidy(x.size, x.file_size, o1["single"] \cup r1["single"], o1["multi"] \cup r1["multi"])
       /\ Whole(o1, r1) \subseteq Whole(o, r) \cup {a}
  <2>1. o1["single"] \cup r1["single"] \subseteq o["single"] \cup r["single"] \cup {a} BY <1>12
  <2>2. \A j \in Kind \ {"single"} : o1[j] \cup r1[j] \subseteq o[j] \cup r[j] BY <1>12 DEF Kind
  <2> DEFINE k == "single"
  <2>3. /\ k \in Kind /\ (k = "single" => x.size[a] = 1)
        /\ o1[k] \cup r1[k] \subseteq o[k] \cup r[k] \cup {a}
        /\ \A j \in Kind \ {k} : o1[j] \cup r1[j] \subseteq o[j] \cup r[j]
    BY <2>1, <2>2, <1>3 DEF Kind
  <2> HIDE DEF k
  <2> QED BY <2>3, <1>3, <1>4, <1>12, TidyNew
<1>18. Span(x.size, {a}) = {a}
  <2>1. Of(x.size, a) = a .. a + 1 - 1 BY <1>3 DEF Of
  <2>2. a \in Nat BY <1>3, AreasAssumption DEF Offset
  <2>3. a .. a + 1 - 1 = {a} BY <2>2
  <2> QED BY <2>1, <2>3, SpanOne
<1>19. v.own = Span(w.size, Both(o1))
  <2>1. Both(o1) = Both(o) \cup {a} BY <1>12 DEF Both
  <2>2. Span(x.size, Both(o1)) = Span(x.size, Both(o)) \cup Span(x.size, {a}) BY <2>1, SpanUnion
  <2> QED BY <2>2, <1>4, <1>7, <1>11, <1>18 DEF N
<1>20. v.draft = Span(w.size, Draft(v, r1))
  <2>1. Draft(v, r1) = {} /\ Draft(u, r) = {} BY <1>13 DEF Draft, Live, Kind
  <2> QED BY <2>1, <1>4, <1>11, SpanNone
<1>21. EntryOK(w, v, o1, r1)
  <2>1. TxnOK(v) BY <1>11 DEF TxnOK, NoLink, Kind
  <2>2. o1["single"] \cap r1["single"] = {} /\ o1["multi"] \cap r1["multi"] = {} BY <1>4, <1>12 DEF Kind
  <2>3. \A k \in Kind : HeadOK(w.next, v, o1, k) /\ RestOK(w.next, v, r1, k) /\ o1[k] \cap r1[k] = {}
    BY <2>2, <1>15, <1>16 DEF Kind
  <2>4. v.tail["single"] # 0 BY <1>3, <1>9, <1>11
  <2> QED BY <2>1, <2>3, <2>4, <1>7, <1>12, <1>17, <1>19, <1>20 DEF EntryOK
<1>22. DbOK(w, v, o1, r1) BY <1>11, <1>21 DEF DbOK
<1>23. Same(x.next, w.next, Offset \ Whole(o, r)) BY <1>7, <1>14 DEF Same, Kind
<1>24. v.own \cup v.draft = u.own \cup u.draft \cup Span(x.size, {a}) BY <1>11, <1>18 DEF N
<1>25. Moves(Mem, w, u, v, o, o1, r, r1, P, Q)
  <2>1. /\ w \in MemType /\ w.size = x.size /\ w.pool = x.pool /\ w.file_size = x.file_size
        /\ v.win = "" /\ Whole(o1, r1) \subseteq Whole(o, r) \cup {a} /\ 1 \in Nat \ {0}
    BY <1>7, <1>11, <1>17, One
  <2> QED BY <2>1, <1>2, <1>22, <1>23, <1>24, AllocMoves
<1>26. OpenOK(v, TRUE) BY <1>11 DEF OpenOK
<1>27. Moves(Mem, Mem', db[d], v, O[d], o1, R[d], r1, P, Q) BY <1>8, <1>25 DEF u, o, r
<1> QED BY <1>0, <1>1, <1>6, <1>11, <1>26, <1>27, StepOne DEF Now

-----------------------------------------------------------------------------
(* Operations that leave the areas alone. *)

(* A database at rest with the same chains. *)
LEMMA StaysSame ==
    ASSUME NEW m, NEW u, NEW v, NEW o, NEW r, NEW P, DbOK(m, u, o, r), SepOK(m.size, u, o, r, P),
           u.entry, v.entry, u.win = "", v.win = "", v.head = u.head, v.tail = u.tail,
           v.own = u.own, v.draft = u.draft, TxnOK(v),
           \A k \in Kind : (Active(v, k) <=> Active(u, k)) /\ (Active(u, k) => v.atail[k] = u.atail[k])
    PROVE  Stays(m, u, v, o, o, r, r, P)
<1>1. EntryOK(m, u, o, r) BY DEF DbOK
<1>2. ASSUME NEW k \in Kind PROVE HeadOK(m.next, v, o, k) /\ RestOK(m.next, v, r, k)
  <2>1. HeadOK(m.next, u, o, k) /\ RestOK(m.next, u, r, k) BY <1>1 DEF EntryOK
  <2>2. First(m.next, v, k) = First(m.next, u, k) BY DEF First
  <2>3. (Active(v, k) <=> Active(u, k)) /\ (Active(u, k) => v.atail[k] = u.atail[k]) OBVIOUS
  <2> QED BY <2>1, <2>2, <2>3 DEF HeadOK, RestOK
<1>3. Draft(v, r) = Draft(u, r) BY DEF Draft, Live, Kind
<1>4. EntryOK(m, v, o, r) BY <1>1, <1>2, <1>3 DEF EntryOK
<1>5. DbOK(m, v, o, r) BY <1>4 DEF DbOK
<1>6. SepOK(m.size, v, o, r, P) BY SepQuiet
<1> QED BY <1>5, <1>6 DEF Stays

(* What is known of a database that can be worked with. *)
LEMMA AtRest ==
    ASSUME NEW O, NEW R, NEW P, Now(O, R, P), NEW d \in DBs, db[d].entry
    PROVE  /\ db[d] \in Database /\ db \in [DBs -> Database] /\ up = TRUE
           /\ DbOK(Mem, db[d], O[d], R[d]) /\ SepOK(Mem.size, db[d], O[d], R[d], P)
           /\ EntryOK(Mem, db[d], O[d], R[d]) /\ TxnOK(db[d]) /\ OpenOK(db[d], TRUE)
           /\ db[d].tail["single"] # 0 /\ O[d] \in Sets /\ R[d] \in Sets
<1>1. /\ db \in [DBs -> Database] /\ up = TRUE /\ DbOK(Mem, db[d], O[d], R[d])
      /\ SepOK(Mem.size, db[d], O[d], R[d], P) /\ OpenOK(db[d], up)
  BY DEF Now, Types, Flags, AllDbs, Clean
<1>2. EntryOK(Mem, db[d], O[d], R[d]) BY <1>1 DEF DbOK
<1> QED BY <1>1, <1>2 DEF EntryOK

(* start_transaction() *)
LEMMA StepStart ==
    ASSUME NEW O, NEW R, NEW P, Now(O, R, P), NEW d \in DBs, StartTransaction(d)
    PROVE  Inv'
<1> DEFINE u == db[d]
           v == [u EXCEPT !.txn = "open", !.atail = u.tail]
<1>1. /\ u.entry /\ u.sane /\ u.win = "" /\ u.txn = "none" /\ db' = [db EXCEPT ![d].txn = "open", ![d].atail = u.tail]
      /\ Mem' = Mem /\ next' = next /\ up' = up /\ clean_close' = clean_close /\ lost' = lost
  BY DEF StartTransaction, Usable, Mem
<1>2. /\ u \in Database /\ db \in [DBs -> Database] /\ DbOK(Mem, u, O[d], R[d])
      /\ SepOK(Mem.size, u, O[d], R[d], P) /\ TxnOK(u) /\ u.tail["single"] # 0
  BY <1>1, AtRest
<1>3. db' = [db EXCEPT ![d] = v] BY <1>1, <1>2
<1>4. /\ v \in Database /\ v.entry /\ v.win = "" /\ v.head = u.head /\ v.tail = u.tail
      /\ v.own = u.own /\ v.draft = u.draft /\ v.txn = "open" /\ v.atail = u.tail /\ v.sane
  BY <1>1, <1>2 DEF Database
<1> HIDE DEF u, v
<1>5. u.atail["single"] = 0 BY <1>1, <1>2 DEF TxnOK, NoLink, Kind
<1>6. \A k \in Kind : ~Active(v, k) /\ ~Active(u, k) BY <1>4, <1>5 DEF Active
<1>7. TxnOK(v) /\ OpenOK(v, TRUE) BY <1>2, <1>4 DEF TxnOK, OpenOK
<1>8. Stays(Mem, u, v, O[d], O[d], R[d], R[d], P) BY <1>1, <1>2, <1>4, <1>6, <1>7, StaysSame
<1>9. Stays(Mem, db[d], v, O[d], O[d], R[d], R[d], P) /\ v.win \in {"", db[d].win} BY <1>4, <1>8 DEF u
<1> QED BY <1>1, <1>3, <1>4, <1>7, <1>9, StepStays DEF Now

(* prepare_commit() *)
LEMMA StepPrepare ==
    ASSUME NEW O, NEW R, NEW P, Now(O, R, P), NEW d \in DBs, PrepareCommit(d)
    PROVE  Inv'
<1> DEFINE u == db[d]
           v == [u EXCEPT !.txn = "prepared"]
<1>1. /\ u.entry /\ u.sane /\ u.win = "" /\ u.txn = "open" /\ db' = [db EXCEPT ![d].txn = "prepared"]
      /\ Mem' = Mem /\ next' = next /\ up' = up /\ clean_close' = clean_close /\ lost' = lost
  BY DEF PrepareCommit, Usable, Mem
<1>2. /\ u \in Database /\ db \in [DBs -> Database] /\ DbOK(Mem, u, O[d], R[d])
      /\ SepOK(Mem.size, u, O[d], R[d], P) /\ OpenOK(u, TRUE)
  BY <1>1, AtRest
<1>3. db' = [db EXCEPT ![d] = v] BY <1>1, <1>2
<1>4. /\ v \in Database /\ v.entry /\ v.win = "" /\ v.head = u.head /\ v.tail = u.tail
      /\ v.own = u.own /\ v.draft = u.draft /\ v.txn = "prepared" /\ v.atail = u.atail
  BY <1>1, <1>2 DEF Database
<1> HIDE DEF u, v
<1>5. u.atail["single"] # 0 BY <1>1, <1>2 DEF OpenOK
<1>6. \A k \in Kind : Active(v, k) <=> Active(u, k) BY <1>1, <1>4 DEF Active
<1>7. TxnOK(v) /\ OpenOK(v, TRUE) BY <1>4, <1>5 DEF TxnOK, OpenOK
<1>8. Stays(Mem, u, v, O[d], O[d], R[d], R[d], P) BY <1>1, <1>2, <1>4, <1>6, <1>7, StaysSame
<1>9. Stays(Mem, db[d], v, O[d], O[d], R[d], R[d], P) /\ v.win \in {"", db[d].win} BY <1>4, <1>8 DEF u
<1> QED BY <1>1, <1>3, <1>4, <1>7, <1>9, StepStays DEF Now

(* sanitize() of a database that takes no area. *)
LEMMA StepSanitize ==
    ASSUME NEW O, NEW R, NEW P, Now(O, R, P), NEW d \in DBs, SanitizeDB(d, FALSE)
    PROVE  Inv'
<1> DEFINE u == db[d]
           v == [u EXCEPT !.sane = TRUE, !.txn = IF u.txn = "open" THEN "none" ELSE u.txn]
<1>1. /\ u.entry /\ ~u.sane /\ u.win = "" /\ db' = [db EXCEPT ![d] = Dropped(d)]
      /\ Store(Mem) /\ up' = up /\ clean_close' = clean_close /\ lost' = lost
  BY DEF SanitizeDB, FileLock
<1>m. Mem' = Mem /\ next' = next BY <1>1 DEF Store, Mem
<1>2. /\ u \in Database /\ db \in [DBs -> Database] /\ DbOK(Mem, u, O[d], R[d])
      /\ SepOK(Mem.size, u, O[d], R[d], P) /\ OpenOK(u, TRUE) /\ TxnOK(u)
  BY <1>1, AtRest
<1>3. db' = [db EXCEPT ![d] = v] BY <1>1, <1>2 DEF Dropped
<1>4. /\ v \in Database /\ v.entry /\ v.win = "" /\ v.head = u.head /\ v.tail = u.tail
      /\ v.own = u.own /\ v.draft = u.draft /\ v.atail = u.atail /\ v.txn # "open"
      /\ v.txn = (IF u.txn = "open" THEN "none" ELSE u.txn)
  BY <1>1, <1>2 DEF Database
<1> HIDE DEF u, v
<1>5. u.txn = "open" => u.atail = NoLink BY <1>1, <1>2 DEF OpenOK
<1>6. \A k \in Kind : Active(v, k) <=> Active(u, k) BY <1>1, <1>4 DEF Active
<1>7. TxnOK(v) /\ OpenOK(v, TRUE) BY <1>2, <1>4, <1>5 DEF TxnOK, OpenOK
<1>8. Stays(Mem, u, v, O[d], O[d], R[d], R[d], P) BY <1>1, <1>2, <1>4, <1>6, <1>7, StaysSame
<1>9. Stays(Mem, db[d], v, O[d], O[d], R[d], R[d], P) /\ v.win \in {"", db[d].win} BY <1>4, <1>8 DEF u
<1> QED BY <1>1, <1>m, <1>3, <1>4, <1>7, <1>9, StepStays DEF Now

(* commit(): what the transaction has added belongs to the chain. *)
LEMMA StepCommit ==
    ASSUME NEW O, NEW R, NEW P, Now(O, R, P), NEW d \in DBs, Commit(d)
    PROVE  Inv'
<1> DEFINE m == Mem
           u == db[d]
           o == O[d]
           r == R[d]
           N == u.own \cup u.draft
           v == [u EXCEPT !.txn = "none", !.tail = u.atail, !.atail = NoLink, !.own = N, !.draft = {}]
           o1 == [k \in Kind |-> o[k] \cup Live(u, r, k)]
           r1 == [k \in Kind |-> IF Active(u, k) THEN {} ELSE r[k]]
<1>1. /\ u.entry /\ u.sane /\ u.win = "" /\ u.txn # "none"
      /\ db' = [db EXCEPT ![d].txn = "none", ![d].tail = u.atail, ![d].atail = NoLink,
                          ![d].own = N, ![d].draft = {}]
      /\ Mem' = Mem /\ next' = next /\ up' = up /\ clean_close' = clean_close /\ lost' = lost
  BY DEF Commit, Usable, Mem
<1>2. /\ u \in Database /\ db \in [DBs -> Database] /\ EntryOK(m, u, o, r)
      /\ SepOK(m.size, u, o, r, P) /\ OpenOK(u, TRUE) /\ TxnOK(u) /\ o \in Sets /\ r \in Sets
  BY <1>1, AtRest
<1>0. m \in MemType /\ DbOK(m, u, o, r) BY <1>1, AtRest DEF Now, Types
<1>n. N \subseteq Offset BY <1>2 DEF Database
<1>3. db' = [db EXCEPT ![d] = v]
  <2> HIDE DEF N
  <2> QED BY <1>1, <1>2
<1> HIDE DEF N
<1>l. NoLink \in [Kind -> Offset] BY Position DEF NoLink
<1>4. /\ v \in Database /\ v.entry /\ v.win = "" /\ v.head = u.head /\ v.tail = u.atail
      /\ v.own = N /\ v.draft = {} /\ v.atail = NoLink /\ v.txn = "none"
  BY <1>1, <1>2, <1>n, <1>l DEF Database
<1>5. u.atail["single"] # 0
  <2>1. u.txn = "open" \/ u.txn = "prepared" BY <1>1, <1>2 DEF Database
  <2> QED BY <2>1, <1>1, <1>2 DEF OpenOK, TxnOK
<1>z. v.atail["single"] = 0
  <2>1. NoLink["single"] = 0 BY DEF NoLink, Kind
  <2> QED BY <2>1, <1>4
<1> HIDE DEF u, v, m, o, r
<1>6. \A k \in Kind : ~Active(v, k) /\ (Active(u, k) <=> u.atail[k] # u.tail[k])
  BY <1>1, <1>5, <1>z DEF Active
<1>7. /\ o1 \in Sets /\ r1 \in Sets
      /\ \A k \in Kind : o1[k] = o[k] \cup Live(u, r, k) /\ r1[k] = (IF Active(u, k) THEN {} ELSE r[k])
      /\ \A k \in Kind : o1[k] \cup r1[k] = o[k] \cup r[k]
  BY <1>2 DEF Sets, Live
<1> HIDE DEF o1, r1
<1>8. ASSUME NEW k \in Kind
      PROVE  HeadOK(m.next, v, o1, k) /\ RestOK(m.next, v, r1, k) /\ o1[k] \cap r1[k] = {}
  <2>1. HeadOK(m.next, u, o, k) /\ RestOK(m.next, u, r, k) /\ o[k] \cap r[k] = {} BY <1>2 DEF EntryOK
  <2>2. CASE Active(u, k)
    <3> DEFINE A == o[k]
               B == r[k]
               c == u.atail[k]
               t == u.tail[k]
               f == First(m.next, u, k)
               h == u.head[k]
    <3>1. c \in B /\ Seg(m.next, f, c, B) /\ m.next[c] = 0 BY <2>1, <2>2 DEF RestOK
    <3>2. A \cap B = {} /\ 0 \notin A /\ 0 \notin B /\ o1[k] = A \cup B /\ r1[k] = {}
      <4>1. A \subseteq Whole(o, r) /\ B \subseteq Whole(o, r) /\ 0 \notin Whole(o, r) BY <1>0, EntryNodes
      <4> QED BY <4>1, <2>1, <2>2, <1>7 DEF Live
    <3>3. Seg(m.next, h, c, A \cup B)
      <4>1. CASE t = 0
        <5>1. A = {} /\ f = h BY <4>1, <2>1 DEF HeadOK, First
        <5>2. A \cup B = B BY <5>1
        <5> QED BY <5>1, <5>2, <3>1
      <4>2. CASE t # 0
        <5>1. Seg(m.next, h, t, A) /\ m.next[t] = f BY <4>2, <2>1 DEF HeadOK, First
        <5> HIDE DEF A, B, c, t, f, h
        <5> QED BY <5>1, <3>1, <3>2, SegJoin
      <4> QED BY <4>1, <4>2
    <3>4. c # 0 BY <3>1, <3>2
    <3>5. HeadOK(m.next, v, o1, k) BY <3>2, <3>3, <3>4, <1>4 DEF HeadOK
    <3>6. First(m.next, v, k) = 0 BY <3>1, <3>4, <1>4 DEF First
    <3>7. RestOK(m.next, v, r1, k) BY <3>2, <3>6, <1>6 DEF RestOK
    <3> QED BY <3>2, <3>5, <3>7
  <2>3. CASE ~Active(u, k)
    <3>1. v.tail[k] = u.tail[k] /\ v.head = u.head /\ o1[k] = o[k] /\ r1[k] = r[k] /\ ~Active(v, k)
      <4>1. u.atail[k] = u.tail[k] /\ ~Active(v, k) BY <2>3, <1>6
      <4>2. Live(u, r, k) = {} /\ r1[k] = r[k] BY <2>3, <1>7 DEF Live
      <4>3. o1[k] = o[k] BY <4>2, <1>7
      <4> QED BY <4>1, <4>2, <4>3, <1>4
    <3>2. First(m.next, v, k) = First(m.next, u, k) BY <3>1 DEF First
    <3> QED BY <3>1, <3>2, <2>1, <2>3 DEF HeadOK, RestOK
  <2> QED BY <2>2, <2>3
<1>9. /\ o1["single"] \cup r1["single"] = o["single"] \cup r["single"]
      /\ o1["multi"] \cup r1["multi"] = o["multi"] \cup r["multi"]
      /\ Both(o1) = Both(o) \cup Draft(u, r) /\ Whole(o1, r1) = Whole(o, r)
  BY <1>7 DEF Kind, Both, Draft, Whole
<1>10. N = Span(m.size, Both(o1))
  <2>1. Span(m.size, Both(o1)) = Span(m.size, Both(o)) \cup Span(m.size, Draft(u, r)) BY <1>9, SpanUnion
  <2>2. u.own = Span(m.size, Both(o)) /\ u.draft = Span(m.size, Draft(u, r)) BY <1>1, <1>2 DEF EntryOK
  <2> QED BY <2>1, <2>2 DEF N
<1>11. v.draft = Span(m.size, Draft(v, r1))
  <2>1. Draft(v, r1) = {} BY <1>6 DEF Draft, Live, Kind
  <2> QED BY <2>1, <1>4, SpanNone
<1>12. EntryOK(m, v, o1, r1)
  <2>1. TxnOK(v) BY <1>4 DEF TxnOK, NoLink, Kind
  <2>2. Tidy(m.size, m.file_size, o1["single"] \cup r1["single"], o1["multi"] \cup r1["multi"])
    BY <1>2, <1>9 DEF EntryOK
  <2>3. v.tail["single"] # 0 BY <1>4, <1>5
  <2> QED BY <2>1, <2>2, <2>3, <1>4, <1>7, <1>8, <1>10, <1>11 DEF EntryOK
<1>13. DbOK(m, v, o1, r1) BY <1>4, <1>12 DEF DbOK
<1>14. SepOK(m.size, v, o1, r1, P)
  <2>1. Span(m.size, Whole(o, r)) \cap Span(m.size, Both(P)) = {} BY <1>1, <1>2, SepQuiet
  <2> QED BY <2>1, <1>4, <1>9, SepQuiet
<1>15. Stays(m, u, v, o, o1, r, r1, P)
  <2>1. v.own \cup v.draft = u.own \cup u.draft BY <1>4 DEF N
  <2> QED BY <2>1, <1>9, <1>13, <1>14 DEF Stays
<1>16. Stays(Mem, db[d], v, O[d], o1, R[d], r1, P) /\ v.win \in {"", db[d].win}
  BY <1>4, <1>15 DEF u, m, o, r
<1>17. OpenOK(v, TRUE) BY <1>4 DEF OpenOK
<1> QED BY <1>1, <1>3, <1>4, <1>16, <1>17, StepStays DEF Now

-----------------------------------------------------------------------------
(* Operations that return areas. *)

(* Different areas have different blocks. *)
LEMMA ApartSpan ==
    ASSUME NEW sz, NEW N, Apart(sz, N), NEW A \in SUBSET N, NEW B \in SUBSET N, A \cap B = {}
    PROVE  Span(sz, A) \cap Span(sz, B) = {}
<1>1. \A a \in A, b \in B : Of(sz, a) \cap Of(sz, b) = {} BY DEF Apart
<1> QED BY <1>1, SpanIn

(* The chains of a database have no block in common. *)
Parts(sz, o, r) ==
    /\ Span(sz, Both(o)) \cap Span(sz, r["single"]) = {}
    /\ Span(sz, Both(o)) \cap Span(sz, r["multi"]) = {}
    /\ Span(sz, r["single"]) \cap Span(sz, r["multi"]) = {}
    /\ Span(sz, o["single"]) \cap Span(sz, o["multi"]) = {}

(* So it is with the chains of every database. *)
LEMMA EntryParts == ASSUME NEW m, NEW v, NEW o, NEW r, EntryOK(m, v, o, r) PROVE Parts(m.size, o, r)
<1> DEFINE N == (o["single"] \cup r["single"]) \cup (o["multi"] \cup r["multi"])
<1>1. Apart(m.size, N) BY DEF EntryOK, Tidy
<1>2. /\ Both(o) \in SUBSET N /\ r["single"] \in SUBSET N /\ r["multi"] \in SUBSET N
      /\ o["single"] \in SUBSET N /\ o["multi"] \in SUBSET N
  BY DEF Both
<1>3. /\ Both(o) \cap r["single"] = {} /\ Both(o) \cap r["multi"] = {} /\ r["single"] \cap r["multi"] = {}
      /\ o["single"] \cap o["multi"] = {}
  BY DEF EntryOK, Tidy, Both, Kind
<1> HIDE DEF N
<1> QED BY <1>1, <1>2, <1>3, ApartSpan DEF Parts

(* Some of the areas of a database, by kind. *)
LEMMA TidyPart ==
    ASSUME NEW m, NEW v, NEW o, NEW r, EntryOK(m, v, o, r), NEW k \in Kind, NEW M \in SUBSET (o[k] \cup r[k])
    PROVE  Tidy(m.size, m.file_size, IF k = "single" THEN M ELSE {}, IF k = "multi" THEN M ELSE {})
<1>1. Tidy(m.size, m.file_size, o["single"] \cup r["single"], o["multi"] \cup r["multi"]) BY DEF EntryOK
<1>2. /\ (IF k = "single" THEN M ELSE {}) \in SUBSET (o["single"] \cup r["single"])
      /\ (IF k = "multi" THEN M ELSE {}) \in SUBSET (o["multi"] \cup r["multi"])
  BY DEF Kind
<1> QED BY <1>1, <1>2, TidySub

(* A database that returns areas: none of its own are touched, but for      *)
(* links of their own chains.                                               *)
LEMMA ReturnMoves ==
    ASSUME NEW m \in MemType, NEW w, NEW P, NEW Q, NEW u, NEW v, NEW o, NEW r, NEW o1, NEW r1,
           MemOK(w, Q), DbOK(w, v, o1, r1), SepOK(w.size, v, o1, r1, Q),
           w.size = m.size, w.file_size = m.file_size, Whole(o1, r1) \subseteq Whole(o, r),
           Both(P) \subseteq Span(m.size, Both(P)), Whole(o, r) \subseteq Span(m.size, Whole(o, r)),
           Same(m.next, w.next, Offset \ (Both(P) \cup Whole(o, r))),
           Span(m.size, Both(Q)) \subseteq Span(m.size, Both(P)) \cup Span(m.size, Whole(o, r)),
           Span(m.size, Both(Q)) \cup v.own \cup v.draft = Span(m.size, Both(P)) \cup u.own \cup u.draft
    PROVE  Moves(m, w, u, v, o, o1, r, r1, P, Q)
<1>1. m.file_size \in Nat BY Position
<1>2. m.file_size <= w.file_size
  <2>1. m.file_size <= m.file_size BY <1>1, Reflexive
  <2> QED BY <2>1
<1>3. m.file_size .. w.file_size - 1 = {}
  <2> DEFINE f == m.file_size
  <2>1. f \in Nat /\ w.file_size = f BY <1>1
  <2> HIDE DEF f
  <2>2. f .. f - 1 = {} BY <2>1
  <2> QED BY <2>1, <2>2 DEF f
<1> DEFINE T == Touched(m, w, P, o, r)
<1>4. T = Span(m.size, Both(P)) \cup Span(m.size, Whole(o, r)) BY <1>3 DEF Touched
<1>5. Span(w.size, Whole(o1, r1)) \subseteq T
  <2>1. Span(m.size, Whole(o1, r1)) \subseteq Span(m.size, Whole(o, r)) BY SpanSub
  <2> QED BY <2>1, <1>4
<1>6. Span(w.size, Both(Q)) \subseteq T BY <1>4
<1>7. Same(m.next, w.next, Offset \ T) /\ Same(m.size, w.size, Offset \ T)
  <2>1. Offset \ T \subseteq Offset \ (Both(P) \cup Whole(o, r)) BY <1>4
  <2> QED BY <2>1 DEF Same
<1>8. Span(w.size, Both(Q)) \cup v.own \cup v.draft
        = Span(m.size, Both(P)) \cup u.own \cup u.draft \cup (m.file_size .. w.file_size - 1)
  BY <1>3
<1> QED BY <1>2, <1>5, <1>6, <1>7, <1>8 DEF Moves

(* return_areas_range(): what the transaction has added to a chain goes to  *)
(* the pool.                                                                *)
Returns(m, w, P, Q, M) ==
    /\ MemOK(w, Q) /\ w.size = m.size /\ w.file_size = m.file_size
    /\ Same(m.next, w.next, Offset \ Both(P))
    /\ Span(m.size, Both(Q)) = Span(m.size, Both(P)) \cup Span(m.size, M)

(* Nothing happens if the transaction has added nothing. *)
LEMMA RangeReturns ==
    ASSUME NEW m, NEW P, MemOK(m, P), NEW k \in Kind, NEW u, NEW o, NEW r, EntryOK(m, u, o, r),
           Span(m.size, Both(P)) \cap Span(m.size, r[k]) = {}, NEW w,
           w = IF Active(u, k) THEN Add(m, k, First(m.next, u, k), u.atail[k]) ELSE m
    PROVE  \E Q : Returns(m, w, P, Q, Live(u, r, k))
<1>1. CASE Active(u, k)
  <2> DEFINE f == First(m.next, u, k)
             e == u.atail[k]
             M == r[k]
  <2>1. RestOK(m.next, u, r, k) /\ r \in Sets BY DEF EntryOK
  <2>2. Seg(m.next, f, e, M) /\ m.next[e] = 0 BY <1>1, <2>1 DEF RestOK
  <2>3. Span(m.size, Both(P)) \cap Span(m.size, M) = {} OBVIOUS
  <2>4. M \in SUBSET Offset BY <2>1 DEF Sets
  <2>5. Tidy(m.size, m.file_size, IF k = "single" THEN M ELSE {}, IF k = "multi" THEN M ELSE {})
    <3>1. M \in SUBSET (o[k] \cup r[k]) OBVIOUS
    <3> HIDE DEF M
    <3> QED BY <3>1, TidyPart
  <2>6. w = Add(m, k, f, e) BY <1>1
  <2>12. Live(u, r, k) = M BY <1>1 DEF Live
  <2> HIDE DEF f, e, M
  <2> DEFINE Q == More(P, k, M)
  <2>7. Gives(m, w, P, Q, k, M) BY <2>2, <2>3, <2>4, <2>5, <2>6, AddGives
  <2> HIDE DEF Q
  <2>8. P[k] \subseteq Both(P) BY PoolNodes
  <2>9. MemOK(w, Q) /\ w.size = m.size /\ w.file_size = m.file_size BY <2>7 DEF Gives
  <2>10. Span(m.size, Both(Q)) = Span(m.size, Both(P)) \cup Span(m.size, M) BY <2>7 DEF Gives
  <2>11. Same(m.next, w.next, Offset \ Both(P)) BY <2>7, <2>8 DEF Gives, Same
  <2> QED BY <2>9, <2>10, <2>11, <2>12 DEF Returns
<1>2. CASE ~Active(u, k)
  <2>1. w = m /\ Live(u, r, k) = {} BY <1>2 DEF Live
  <2>2. Span(m.size, Live(u, r, k)) = {} BY <2>1, SpanNone
  <2>3. Same(m.next, w.next, Offset \ Both(P)) BY <2>1 DEF Same
  <2> QED BY <2>1, <2>2, <2>3 DEF Returns
<1> QED BY <1>1, <1>2

(* return_areas_range() of rollback(), single areas. *)
LEMMA StepRollbackSingle ==
    ASSUME NEW O, NEW R, NEW P, Now(O, R, P), NEW d \in DBs, RollbackSingle(d)
    PROVE  Inv'
<1> DEFINE m == Mem
           u == db[d]
           o == O[d]
           r == R[d]
           w == Returned(m, d, "single")
           v == [u EXCEPT !.win = "single"]
           M == r["single"]
           s == m.size
<1>1. /\ u.entry /\ u.sane /\ u.win = "" /\ u.txn # "none" /\ \A e \in DBs \ {d} : db[e].win = ""
      /\ db' = [db EXCEPT ![d].win = "single"] /\ Store(w)
      /\ up' = up /\ clean_close' = clean_close /\ lost' = lost
  BY DEF RollbackSingle, Ready, Usable, FileLock
<1>2. /\ u \in Database /\ db \in [DBs -> Database] /\ DbOK(m, u, o, r) /\ EntryOK(m, u, o, r)
      /\ SepOK(m.size, u, o, r, P) /\ OpenOK(u, TRUE) /\ TxnOK(u) /\ o \in Sets /\ r \in Sets
  BY <1>1, AtRest
<1>3. MemOK(m, P) /\ m \in MemType /\ m.next = next BY DEF Now, Clean, Types, Mem
<1>4. db' = [db EXCEPT ![d] = v] BY <1>1, <1>2
<1>5. u.atail["single"] # 0
  <2>1. u.txn = "open" \/ u.txn = "prepared" BY <1>1, <1>2 DEF Database
  <2> QED BY <2>1, <1>1, <1>2 DEF OpenOK, TxnOK
<1>6. /\ v \in Database /\ v.entry /\ v.win = "single" /\ v.head = u.head /\ v.tail = u.tail
      /\ v.own = u.own /\ v.draft = u.draft /\ v.atail = u.atail /\ v.txn = u.txn /\ v.sane = u.sane
  BY <1>1, <1>2 DEF Database
<1>7. w = IF Active(u, "single") THEN Add(m, "single", First(m.next, u, "single"), u.atail["single"]) ELSE m
  BY <1>1, <1>3, <1>5 DEF Returned, Active, Range0, First
<1> HIDE DEF u, v, m, o, r, w, M, s
<1>8. Span(s, Whole(o, r)) \cap Span(s, Both(P)) = {} BY <1>1, <1>2, SepQuiet DEF s
<1>9. Span(s, Whole(o, r)) = Span(s, Both(o)) \cup Span(s, M) \cup Span(s, r["multi"])
  <2>1. Span(s, Whole(o, r)) = Span(s, Both(o)) \cup Span(s, Both(r)) BY SpanWhole
  <2>2. Span(s, Both(r)) = Span(s, M) \cup Span(s, r["multi"]) BY SpanWhole DEF M
  <2> QED BY <2>1, <2>2
<1>10. Parts(s, o, r) BY <1>2, EntryParts DEF s
<1>11. /\ Whole(o, r) \subseteq Span(s, Whole(o, r)) /\ M \subseteq Whole(o, r) /\ Whole(o, r) \subseteq Offset
       /\ 0 \notin Whole(o, r)
  BY <1>2, <1>3, EntryNodes DEF s, M, Kind
<1>12. Both(P) \subseteq Span(s, Both(P)) BY <1>3, PoolNodes DEF s
<1>13. \E Q : Returns(m, w, P, Q, Live(u, r, "single"))
  <2> DEFINE k == "single"
  <2>1. k \in Kind /\ w = (IF Active(u, k) THEN Add(m, k, First(m.next, u, k), u.atail[k]) ELSE m)
    BY <1>7 DEF Kind
  <2>2. Span(m.size, Both(P)) \cap Span(m.size, r[k]) = {} BY <1>8, <1>9 DEF M, s
  <2> HIDE DEF k
  <2>3. \E Q : Returns(m, w, P, Q, Live(u, r, k)) BY <2>1, <2>2, <1>2, <1>3, RangeReturns
  <2> QED BY <2>3 DEF k
<1>14. PICK Q : /\ MemOK(w, Q) /\ w.size = s /\ w.file_size = m.file_size
                /\ Same(m.next, w.next, Offset \ Both(P))
                /\ Span(s, Both(Q)) = Span(s, Both(P)) \cup Span(s, Live(u, r, "single"))
  BY <1>13 DEF Returns, s
<1>15. w \in MemType BY <1>14 DEF MemOK
<1>16. \A k \in Kind : Active(v, k) <=> Active(u, k) BY <1>1, <1>6 DEF Active
<1>17. EntryOK(w, u, o, r)
  <2>1. Same(m.next, w.next, Whole(o, r)) /\ Same(m.size, w.size, Whole(o, r))
    <3>1. Whole(o, r) \subseteq Offset \ Both(P) BY <1>8, <1>11, <1>12
    <3> QED BY <3>1, <1>14 DEF Same, s
  <2>2. m.file_size <= w.file_size
    <3>1. m.file_size \in Nat BY <1>3, Position
    <3>2. m.file_size <= m.file_size BY <3>1, Reflexive
    <3> QED BY <3>2, <1>14
  <2>3. DbOK(w, u, o, r) BY <2>1, <2>2, <1>2, <1>3, <1>15, DbFrame
  <2> QED BY <2>3, <1>1 DEF DbOK
<1>18. EntryOK(w, v, o, r)
  <2>1. ASSUME NEW k \in Kind PROVE HeadOK(w.next, v, o, k) /\ RestOK(w.next, v, r, k)
    <3>1. HeadOK(w.next, u, o, k) /\ RestOK(w.next, u, r, k) BY <1>17 DEF EntryOK
    <3>2. First(w.next, v, k) = First(w.next, u, k) BY <1>6 DEF First
    <3> QED BY <3>1, <3>2, <1>6, <1>16 DEF HeadOK, RestOK
  <2>2. Draft(v, r) = Draft(u, r) BY <1>16 DEF Draft, Live, Kind
  <2>3. TxnOK(v) BY <1>2, <1>5, <1>6 DEF TxnOK
  <2> QED BY <2>1, <2>2, <2>3, <1>1, <1>6, <1>17 DEF EntryOK
<1>19. DbOK(w, v, o, r) BY <1>6, <1>18 DEF DbOK
<1>20. Span(s, Live(u, r, "single")) = (IF Active(u, "single") THEN Span(s, M) ELSE {})
  BY SpanNone DEF Live, M
<1>21. Span(s, Both(o)) \cap Span(s, Both(Q)) = {} /\ Span(s, r["multi"]) \cap Span(s, Both(Q)) = {}
       /\ (IF Active(u, "single") THEN Span(s, M) \subseteq Span(s, Both(Q))
           ELSE Span(s, M) \cap Span(s, Both(Q)) = {})
  BY <1>8, <1>9, <1>10, <1>14, <1>20 DEF Parts, M
<1>22. SepOK(w.size, v, o, r, Q)
  <2>1. \A k \in Kind : IF v.win = k /\ Active(v, k) THEN Span(s, r[k]) \subseteq Span(s, Both(Q))
                        ELSE Span(s, r[k]) \cap Span(s, Both(Q)) = {}
    BY <1>6, <1>16, <1>21 DEF Kind, M
  <2> QED BY <2>1, <1>6, <1>14, <1>21 DEF SepOK
<1>23. Span(s, Live(u, r, "single")) \subseteq u.draft
  <2>1. u.draft = Span(s, Draft(u, r)) BY <1>1, <1>2 DEF EntryOK, s
  <2>2. Live(u, r, "single") \subseteq Draft(u, r) BY DEF Draft
  <2> QED BY <2>1, <2>2, SpanSub
<1>24. Moves(m, w, u, v, o, o, r, r, P, Q)
  <2>1. Span(s, Both(Q)) \subseteq Span(s, Both(P)) \cup Span(s, Whole(o, r)) BY <1>9, <1>14, <1>20
  <2>2. Span(s, Both(Q)) \cup v.own \cup v.draft = Span(s, Both(P)) \cup u.own \cup u.draft
    BY <1>6, <1>14, <1>23
  <2>3. Same(m.next, w.next, Offset \ (Both(P) \cup Whole(o, r))) BY <1>14 DEF Same
  <2> QED BY <2>1, <2>2, <2>3, <1>3, <1>11, <1>12, <1>14, <1>19, <1>22, ReturnMoves DEF s
<1>25. Mem' = w BY <1>1, <1>15, Stored
<1>26. Moves(Mem, Mem', db[d], v, O[d], O[d], R[d], R[d], P, Q) BY <1>24, <1>25 DEF u, m, o, r
<1>27. OpenOK(v, TRUE) BY <1>2, <1>6 DEF OpenOK
<1> QED BY <1>1, <1>4, <1>6, <1>26, <1>27, StepOne DEF Now

(* The end of a chain is cut off. *)
LEMMA CutForm ==
    ASSUME NEW m \in MemType, NEW c \in Offset
    PROVE  /\ [m EXCEPT !.next[c] = 0] \in MemType
           /\ [m EXCEPT !.next[c] = 0].size = m.size /\ [m EXCEPT !.next[c] = 0].pool = m.pool
           /\ [m EXCEPT !.next[c] = 0].file_size = m.file_size
           /\ \A y \in Offset : [m EXCEPT !.next[c] = 0].next[y] = IF y = c THEN 0 ELSE m.next[y]
<1> DEFINE nx == [m.next EXCEPT ![c] = 0]
           w == [m EXCEPT !.next = nx]
<1>1. m.next \in [Offset -> Offset] /\ 0 \in Offset BY Position DEF MemType
<1>2. [m EXCEPT !.next[c] = 0] = w BY <1>1 DEF MemType
<1>3. nx \in [Offset -> Offset] /\ \A y \in Offset : nx[y] = IF y = c THEN 0 ELSE m.next[y] BY <1>1
<1> HIDE DEF nx
<1>4. w \in MemType /\ w.next = nx /\ w.size = m.size /\ w.pool = m.pool /\ w.file_size = m.file_size
  BY <1>3 DEF MemType
<1> HIDE DEF w
<1> QED BY <1>2, <1>3, <1>4

(* The end of the chain k of a database is cut off; v no longer has it.     *)
Cuts(m, w, u, v, o, r, r1, k) ==
    /\ m \in MemType /\ w \in MemType /\ EntryOK(m, u, o, r) /\ v.entry
    /\ w.size = m.size /\ w.file_size = m.file_size
    /\ \A y \in Offset : w.next[y] = IF Active(u, k) /\ y = u.tail[k] /\ y # 0 THEN 0 ELSE m.next[y]
    /\ r1 \in Sets /\ r1[k] = (IF Active(u, k) THEN {} ELSE r[k]) /\ ~Active(v, k)
    /\ v.tail = u.tail /\ v.head[k] = (IF Active(u, k) /\ u.tail[k] = 0 THEN 0 ELSE u.head[k])
    /\ \A j \in Kind \ {k} : /\ r1[j] = r[j] /\ v.head[j] = u.head[j]
                             /\ Active(v, j) <=> Active(u, j)
                             /\ Active(u, j) => v.atail[j] = u.atail[j]

(* The rest are chains as before. *)
LEMMA ChainCut ==
    ASSUME NEW m, NEW w, NEW u, NEW v, NEW o, NEW r, NEW r1, NEW k \in Kind,
           Cuts(m, w, u, v, o, r, r1, k), DbOK(m, u, o, r)
    PROVE  /\ \A j \in Kind : HeadOK(w.next, v, o, j) /\ RestOK(w.next, v, r1, j) /\ o[j] \cap r1[j] = {}
           /\ Tidy(w.size, w.file_size, o["single"] \cup r1["single"], o["multi"] \cup r1["multi"])
           /\ Same(m.next, w.next, Offset \ Both(o)) /\ Whole(o, r1) \subseteq Whole(o, r)
<1> DEFINE t == u.tail[k]
<1>0. /\ m \in MemType /\ w \in MemType /\ EntryOK(m, u, o, r)
      /\ w.size = m.size /\ w.file_size = m.file_size
      /\ \A y \in Offset : w.next[y] = IF Active(u, k) /\ y = t /\ y # 0 THEN 0 ELSE m.next[y]
      /\ r1 \in Sets /\ r1[k] = (IF Active(u, k) THEN {} ELSE r[k]) /\ ~Active(v, k)
      /\ v.tail = u.tail /\ v.head[k] = (IF Active(u, k) /\ t = 0 THEN 0 ELSE u.head[k])
      /\ \A j \in Kind \ {k} : /\ r1[j] = r[j] /\ v.head[j] = u.head[j]
                               /\ Active(v, j) <=> Active(u, j)
                               /\ Active(u, j) => v.atail[j] = u.atail[j]
  BY DEF Cuts
<1>1. /\ Whole(o, r) \subseteq Offset /\ 0 \notin Whole(o, r)
      /\ \A j \in Kind : o[j] \subseteq Whole(o, r) /\ r[j] \subseteq Whole(o, r)
  BY <1>0, EntryNodes
<1>2. /\ \A j \in Kind : HeadOK(m.next, u, o, j) /\ RestOK(m.next, u, r, j) /\ o[j] \cap r[j] = {}
      /\ Tidy(m.size, m.file_size, o["single"] \cup r["single"], o["multi"] \cup r["multi"])
  BY <1>0 DEF EntryOK
<1>3. t # 0 => t \in o[k] BY <1>2 DEF HeadOK, Seg
<1>4. ASSUME NEW j \in Kind \ {k}
      PROVE  HeadOK(w.next, v, o, j) /\ RestOK(w.next, v, r1, j) /\ o[j] \cap r1[j] = {}
  <2>1. (o[k] \cup r[k]) \cap (o[j] \cup r[j]) = {} BY <1>2 DEF Tidy, Kind
  <2>2. o[j] \subseteq Offset /\ r[j] \subseteq Offset /\ 0 \notin r[j] BY <1>1
  <2>3. Same(m.next, w.next, o[j]) /\ Same(m.next, w.next, r1[j]) BY <2>1, <2>2, <1>0, <1>3 DEF Same
  <2>4. /\ v.tail[j] = u.tail[j] /\ v.head[j] = u.head[j] /\ r1[j] = r[j]
        /\ (Active(v, j) <=> Active(u, j)) /\ (Active(u, j) => v.atail[j] = u.atail[j])
    BY <1>0
  <2>5. First(m.next, v, j) = First(m.next, u, j) BY <2>4 DEF First
  <2>6. HeadOK(m.next, u, o, j) /\ RestOK(m.next, u, r, j) /\ o[j] \cap r[j] = {} BY <1>2
  <2>7. HeadOK(m.next, v, o, j) /\ RestOK(m.next, v, r1, j) BY <2>4, <2>5, <2>6 DEF HeadOK, RestOK
  <2>8. HeadOK(w.next, v, o, j) /\ First(w.next, v, j) = First(m.next, v, j) BY <2>3, <2>7, HeadFrame
  <2>9. RestOK(w.next, v, r1, j) BY <2>2, <2>3, <2>4, <2>7, <2>8, RestFrame
  <2> QED BY <2>4, <2>6, <2>8, <2>9
<1>5. HeadOK(w.next, v, o, k) /\ RestOK(w.next, v, r1, k) /\ o[k] \cap r1[k] = {}
  <2>1. HeadOK(m.next, u, o, k) /\ RestOK(m.next, u, r, k) /\ o[k] \cap r[k] = {} /\ v.tail[k] = t
    BY <1>0, <1>2
  <2>2. CASE Active(u, k)
    <3>1. r1[k] = {} /\ ~Active(v, k) BY <2>2, <1>0
    <3>2. CASE t = 0
      <4>1. o[k] = {} /\ v.head[k] = 0 BY <3>2, <2>1, <2>2, <1>0 DEF HeadOK
      <4> QED BY <4>1, <3>1, <3>2, <2>1 DEF HeadOK, RestOK, First
    <3>3. CASE t # 0
      <4> DEFINE A == o[k]
                 h == u.head[k]
      <4>1. Seg(m.next, h, t, A) /\ v.head[k] = h BY <3>3, <2>1, <1>0 DEF HeadOK
      <4>2. A \subseteq Offset /\ 0 \notin A /\ t \in A BY <3>3, <1>1, <1>3
      <4>3. Same(m.next, w.next, A \ {t}) /\ w.next[t] = 0 BY <4>2, <3>3, <2>2, <1>0 DEF Same
      <4> HIDE DEF A, h, t
      <4>4. Seg(w.next, h, t, A) BY <4>1, <4>2, <4>3, SegFrame
      <4>5. HeadOK(w.next, v, o, k) BY <4>1, <4>4, <3>3, <2>1 DEF HeadOK, A
      <4>6. First(w.next, v, k) = 0 BY <4>3, <3>3, <2>1 DEF First
      <4>7. RestOK(w.next, v, r1, k) BY <4>6, <3>1 DEF RestOK
      <4> QED BY <4>5, <4>7, <3>1
    <3> QED BY <3>2, <3>3
  <2>3. CASE ~Active(u, k)
    <3>1. r1[k] = r[k] /\ v.head[k] = u.head[k] /\ ~Active(v, k) BY <2>3, <1>0
    <3>2. First(m.next, v, k) = First(m.next, u, k) BY <3>1, <2>1 DEF First
    <3>3. HeadOK(m.next, v, o, k) /\ RestOK(m.next, v, r1, k) BY <3>1, <3>2, <2>1, <2>3 DEF HeadOK, RestOK
    <3>4. o[k] \subseteq Offset /\ r1[k] \subseteq Offset /\ 0 \notin r1[k] BY <3>1, <1>1
    <3>5. Same(m.next, w.next, o[k]) /\ Same(m.next, w.next, r1[k]) BY <3>4, <2>3, <1>0 DEF Same
    <3>6. HeadOK(w.next, v, o, k) /\ First(w.next, v, k) = First(m.next, v, k) BY <3>3, <3>5, HeadFrame
    <3>7. RestOK(w.next, v, r1, k) BY <3>3, <3>4, <3>5, <3>6, RestFrame
    <3> QED BY <3>1, <3>6, <3>7, <2>1
  <2> QED BY <2>2, <2>3
<1>6. \A j \in Kind : r1[j] \subseteq r[j] BY <1>0
<1>7. Tidy(w.size, w.file_size, o["single"] \cup r1["single"], o["multi"] \cup r1["multi"])
  <2>1. /\ o["single"] \cup r1["single"] \in SUBSET (o["single"] \cup r["single"])
        /\ o["multi"] \cup r1["multi"] \in SUBSET (o["multi"] \cup r["multi"])
    BY <1>6 DEF Kind
  <2>2. Tidy(m.size, m.file_size, o["single"] \cup r1["single"], o["multi"] \cup r1["multi"])
    BY <2>1, <1>2, TidySub
  <2> QED BY <2>2, <1>0
<1>8. Whole(o, r1) \subseteq Whole(o, r) BY <1>6 DEF Whole, Both, Kind
<1>9. Same(m.next, w.next, Offset \ Both(o))
  <2>1. o[k] \subseteq Both(o) BY DEF Both, Kind
  <2> QED BY <2>1, <1>0, <1>3 DEF Same
<1> QED BY <1>4, <1>5, <1>7, <1>8, <1>9

(* rollback(): the single areas are unlinked, the multi areas returned. *)
LEMMA StepRollbackMulti ==
    ASSUME NEW O, NEW R, NEW P, Now(O, R, P), NEW d \in DBs, RollbackMulti(d)
    PROVE  Inv'
<1> DEFINE m == Mem
           u == db[d]
           o == O[d]
           r == R[d]
           x == Cut(m, d, "single")
           w == Returned(x, d, "multi")
           v == [u EXCEPT !.win = "multi"]
           r1 == [r EXCEPT !["single"] = IF Active(u, "single") THEN {} ELSE r["single"]]
           s == m.size
           F == Span(s, Both(P))
           k == "multi"
<1>1. /\ u.win = "single" /\ db' = [db EXCEPT ![d].win = "multi"] /\ Store(w)
      /\ up' = up /\ clean_close' = clean_close /\ lost' = lost
  BY DEF RollbackMulti
<1>2. u.entry /\ \A e \in DBs \ {d} : db[e].win = ""
  <2>1. DbOK(m, u, o, r) BY DEF Now, AllDbs
  <2>2. u.entry BY <2>1, <1>1 DEF DbOK, NoEntryOK
  <2>3. \A e \in DBs : db[e].win # "" => e = d BY <1>1 DEF Now, Flags
  <2> QED BY <2>2, <2>3
<1>3. /\ u \in Database /\ db \in [DBs -> Database] /\ DbOK(m, u, o, r) /\ EntryOK(m, u, o, r)
      /\ SepOK(m.size, u, o, r, P) /\ OpenOK(u, TRUE) /\ TxnOK(u) /\ u.tail["single"] # 0
      /\ o \in Sets /\ r \in Sets
  BY <1>2, AtRest
<1>4. MemOK(m, P) /\ m \in MemType /\ m.next = next BY DEF Now, Clean, Types, Mem
<1>5. db' = [db EXCEPT ![d] = v] BY <1>1, <1>3
<1>6. u.atail["single"] # 0 BY <1>1, <1>3 DEF TxnOK
<1>7. /\ v \in Database /\ v.entry /\ v.win = "multi" /\ v.head = u.head /\ v.tail = u.tail
      /\ v.own = u.own /\ v.draft = u.draft /\ v.atail = u.atail /\ v.txn = u.txn /\ v.sane = u.sane
  BY <1>2, <1>3 DEF Database
<1>8. x = IF Active(u, "single") THEN [m EXCEPT !.next[u.tail["single"]] = 0] ELSE m
  BY <1>1, <1>3, <1>6 DEF Cut, Active
<1>9. w = IF u.atail[k] = u.tail[k] THEN x ELSE Add(x, k, First(m.next, u, k), u.atail[k])
  BY <1>4 DEF Returned, Range0, First
<1>10. u.tail["single"] \in Offset BY <1>3 DEF Database, Kind
<1> HIDE DEF u, v, m, o, r, w, s, x, F
<1>11. /\ x \in MemType /\ x.size = s /\ x.pool = m.pool /\ x.file_size = m.file_size
       /\ \A y \in Offset : x.next[y] = IF Active(u, "single") /\ y = u.tail["single"] /\ y # 0 THEN 0 ELSE m.next[y]
  <2>1. CASE Active(u, "single")
    <3> DEFINE c == u.tail["single"]
    <3>1. x = [m EXCEPT !.next[c] = 0] /\ c \in Offset /\ c # 0 BY <2>1, <1>8, <1>10, <1>3
    <3> HIDE DEF c
    <3>2. /\ x \in MemType /\ x.size = m.size /\ x.pool = m.pool /\ x.file_size = m.file_size
          /\ \A y \in Offset : x.next[y] = IF y = c THEN 0 ELSE m.next[y]
      BY <3>1, <1>4, CutForm
    <3> QED BY <3>1, <3>2, <2>1 DEF c, s
  <2>2. CASE ~Active(u, "single") BY <2>2, <1>8, <1>4 DEF s
  <2> QED BY <2>1, <2>2
<1>12. /\ r1 \in Sets /\ r1["single"] = (IF Active(u, "single") THEN {} ELSE r["single"]) /\ r1["multi"] = r["multi"]
  BY <1>3 DEF Sets, Kind
<1> HIDE DEF r1
<1>13. /\ ~Active(v, "single") /\ (Active(v, "multi") <=> Active(u, "multi"))
       /\ (Active(u, "multi") <=> u.atail["multi"] # u.tail["multi"])
  BY <1>1, <1>6, <1>7 DEF Active
<1>14. Cuts(m, x, u, v, o, r, r1, "single")
  <2>1. \A j \in Kind \ {"single"} : j = "multi" BY DEF Kind
  <2>2. v.head["single"] = IF Active(u, "single") /\ u.tail["single"] = 0 THEN 0 ELSE u.head["single"]
    BY <1>3, <1>7
  <2> QED BY <2>1, <2>2, <1>3, <1>4, <1>7, <1>11, <1>12, <1>13 DEF Cuts, s
<1>15. /\ \A j \in Kind : HeadOK(x.next, v, o, j) /\ RestOK(x.next, v, r1, j) /\ o[j] \cap r1[j] = {}
       /\ Tidy(x.size, x.file_size, o["single"] \cup r1["single"], o["multi"] \cup r1["multi"])
       /\ Same(m.next, x.next, Offset \ Both(o)) /\ Whole(o, r1) \subseteq Whole(o, r)
  <2> DEFINE l == "single"
  <2>1. l \in Kind /\ Cuts(m, x, u, v, o, r, r1, l) BY <1>14 DEF Kind
  <2> HIDE DEF l
  <2> QED BY <2>1, <1>3, ChainCut
<1>16. EntryOK(x, v, o, r1)
  <2>1. TxnOK(v) BY <1>3, <1>6, <1>7 DEF TxnOK
  <2>2. v.own = Span(x.size, Both(o)) BY <1>3, <1>7, <1>11 DEF EntryOK, s
  <2>3. v.tail["single"] # 0 /\ v.win = "multi" BY <1>3, <1>7
  <2> QED BY <2>1, <2>2, <2>3, <1>3, <1>12, <1>15 DEF EntryOK
<1>17. DbOK(x, v, o, r1) BY <1>7, <1>16 DEF DbOK
<1>18. /\ Span(s, Both(o)) \cap F = {} /\ Span(s, r["multi"]) \cap F = {}
       /\ IF Active(u, "single") THEN Span(s, r["single"]) \subseteq F ELSE Span(s, r["single"]) \cap F = {}
  <2>1. /\ Span(s, Both(o)) \cap F = {}
        /\ \A j \in Kind : IF u.win = j /\ Active(u, j) THEN Span(s, r[j]) \subseteq F
                           ELSE Span(s, r[j]) \cap F = {}
    BY <1>1, <1>3 DEF SepOK, s, F
  <2> QED BY <2>1, <1>1 DEF Kind
<1>19. Span(s, r1["single"]) = (IF Active(u, "single") THEN {} ELSE Span(s, r["single"]))
  BY <1>12, SpanNone
<1>20. Parts(s, o, r) /\ Span(s, Whole(o, r)) = Span(s, Both(o)) \cup Span(s, r["single"]) \cup Span(s, r["multi"])
  <2>1. Span(s, Whole(o, r)) = Span(s, Both(o)) \cup Span(s, Both(r)) BY SpanWhole
  <2>2. Span(s, Both(r)) = Span(s, r["single"]) \cup Span(s, r["multi"]) BY SpanWhole
  <2> QED BY <2>1, <2>2, <1>3, EntryParts DEF s
<1>21. /\ Whole(o, r) \subseteq Span(s, Whole(o, r)) /\ Both(P) \subseteq F /\ Whole(o, r) \subseteq Offset
       /\ Both(o) \subseteq Whole(o, r)
  BY <1>3, <1>4, EntryNodes, PoolNodes DEF s, F, Whole
<1>22. Whole(o, r1) \cap Both(P) = {} /\ Both(o) \cap Both(P) = {}
  <2>1. Span(s, Whole(o, r1)) = Span(s, Both(o)) \cup Span(s, r1["single"]) \cup Span(s, r1["multi"])
    <3>1. Span(s, Whole(o, r1)) = Span(s, Both(o)) \cup Span(s, Both(r1)) BY SpanWhole
    <3>2. Span(s, Both(r1)) = Span(s, r1["single"]) \cup Span(s, r1["multi"]) BY SpanWhole
    <3> QED BY <3>1, <3>2
  <2>2. Span(s, Whole(o, r1)) \cap F = {} BY <2>1, <1>12, <1>18, <1>19
  <2>3. Whole(o, r1) \subseteq Span(x.size, Whole(o, r1)) BY <1>11, <1>17, EntryNodes
  <2>4. Both(o) \subseteq Whole(o, r1) BY DEF Whole
  <2> QED BY <2>2, <2>3, <2>4, <1>11, <1>21
<1>23. MemOK(x, P)
  <2>1. Both(P) \subseteq Offset \ Both(o)
    <3>1. \A j \in Kind : P[j] \subseteq Offset BY <1>4, PoolNodes
    <3> QED BY <3>1, <1>22 DEF Both, Kind
  <2>2. Same(m.next, x.next, Both(P)) /\ Same(m.size, x.size, Both(P)) BY <2>1, <1>11, <1>15 DEF Same, s
  <2>3. x.next[0] = 0
    <3>1. 0 \in Offset /\ m.next[0] = 0 BY <1>4, Position DEF MemOK
    <3> QED BY <3>1, <1>11
  <2>4. m.file_size <= x.file_size
    <3>1. m.file_size \in Nat BY <1>4, Position
    <3>2. m.file_size <= m.file_size BY <3>1, Reflexive
    <3> QED BY <3>2, <1>11
  <2> QED BY <2>2, <2>3, <2>4, <1>4, <1>11, MemFrame
<1>24. PICK Q : Returns(x, w, P, Q, Live(v, r1, "multi"))
  <2>1. k \in Kind BY DEF Kind
  <2>2. First(x.next, v, k) = First(m.next, u, k)
    <3>1. CASE u.tail[k] = 0 BY <3>1, <1>7 DEF First
    <3>2. CASE u.tail[k] # 0
      <4>1. HeadOK(m.next, u, o, k) /\ HeadOK(m.next, u, o, "single") BY <1>3 DEF EntryOK, Kind
      <4>2. u.tail[k] \in o[k] /\ u.tail["single"] \in o["single"] BY <4>1, <3>2, <1>3 DEF HeadOK, Seg
      <4>3. o[k] \cap o["single"] = {} BY <1>3 DEF EntryOK, Tidy
      <4>4. u.tail[k] \in Offset BY <2>1, <1>3 DEF Database
      <4>5. x.next[u.tail[k]] = m.next[u.tail[k]] BY <4>2, <4>3, <4>4, <1>11
      <4> QED BY <4>5, <1>7 DEF First
    <3> QED BY <3>1, <3>2
  <2>3. w = IF Active(v, k) THEN Add(x, k, First(x.next, v, k), v.atail[k]) ELSE x
    BY <2>2, <1>7, <1>9, <1>13
  <2>4. Span(x.size, Both(P)) \cap Span(x.size, r1[k]) = {} BY <1>11, <1>12, <1>18 DEF F
  <2>5. \E Q : Returns(x, w, P, Q, Live(v, r1, k))
    <3> HIDE DEF k
    <3> QED BY <2>1, <2>3, <2>4, <1>16, <1>23, RangeReturns
  <2> QED BY <2>5
<1>25. /\ MemOK(w, Q) /\ w.size = s /\ w.file_size = m.file_size
       /\ Same(x.next, w.next, Offset \ Both(P))
       /\ Span(s, Both(Q)) = F \cup Span(s, Live(v, r1, "multi"))
  BY <1>24, <1>11 DEF Returns, F
<1>26. w \in MemType BY <1>25 DEF MemOK
<1>27. Span(s, Live(v, r1, "multi")) = (IF Active(u, "multi") THEN Span(s, r["multi"]) ELSE {})
  BY <1>12, <1>13, SpanNone DEF Live
<1>28. DbOK(w, v, o, r1)
  <2>1. Whole(o, r1) \subseteq Offset \ Both(P) BY <1>15, <1>21, <1>22
  <2>2. Same(x.next, w.next, Whole(o, r1)) /\ Same(x.size, w.size, Whole(o, r1))
    BY <2>1, <1>11, <1>25 DEF Same
  <2>3. x.file_size <= w.file_size
    <3>1. m.file_size \in Nat BY <1>4, Position
    <3>2. m.file_size <= m.file_size BY <3>1, Reflexive
    <3> QED BY <3>2, <1>11, <1>25
  <2> QED BY <2>2, <2>3, <1>11, <1>17, <1>26, DbFrame
<1>29. u.draft = (IF Active(u, "single") THEN Span(s, r["single"]) ELSE {})
                   \cup (IF Active(u, "multi") THEN Span(s, r["multi"]) ELSE {})
  <2>1. u.draft = Span(s, Draft(u, r)) BY <1>1, <1>3 DEF EntryOK, s
  <2>2. Span(s, Draft(u, r)) = Span(s, Live(u, r, "single")) \cup Span(s, Live(u, r, "multi"))
    BY SpanUnion DEF Draft
  <2>3. Span(s, Live(u, r, "single")) = (IF Active(u, "single") THEN Span(s, r["single"]) ELSE {})
    BY SpanNone DEF Live
  <2>4. Span(s, Live(u, r, "multi")) = (IF Active(u, "multi") THEN Span(s, r["multi"]) ELSE {})
    BY SpanNone DEF Live
  <2> QED BY <2>1, <2>2, <2>3, <2>4
<1>30. SepOK(w.size, v, o, r1, Q)
  <2> DEFINE G == Span(s, Both(Q))
  <2>1. G = F \cup (IF Active(u, "multi") THEN Span(s, r["multi"]) ELSE {}) BY <1>25, <1>27
  <2> HIDE DEF G
  <2>2. Span(s, Both(o)) \cap G = {} BY <2>1, <1>18, <1>20 DEF Parts
  <2>3. Span(s, r1["single"]) \cap G = {} BY <2>1, <1>18, <1>19, <1>20 DEF Parts
  <2>4. IF Active(v, "multi") THEN Span(s, r1["multi"]) \subseteq G ELSE Span(s, r1["multi"]) \cap G = {}
    BY <2>1, <1>12, <1>13, <1>18
  <2>5. v.draft \subseteq G BY <2>1, <1>7, <1>18, <1>29
  <2>6. \A j \in Kind : IF v.win = j /\ Active(v, j) THEN Span(s, r1[j]) \subseteq G
                        ELSE Span(s, r1[j]) \cap G = {}
    BY <2>3, <2>4, <1>7, <1>13 DEF Kind
  <2>7. w.size = s BY <1>25
  <2> QED BY <2>2, <2>5, <2>6, <2>7, <1>7 DEF SepOK, G
<1>31. Moves(m, w, u, v, o, o, r, r1, P, Q)
  <2>1. Span(s, Both(Q)) \subseteq F \cup Span(s, Whole(o, r)) BY <1>20, <1>25, <1>27
  <2>2. Span(s, Both(Q)) \cup v.own \cup v.draft = F \cup u.own \cup u.draft
    <3>1. Span(s, Live(v, r1, "multi")) \subseteq u.draft BY <1>27, <1>29
    <3> QED BY <3>1, <1>7, <1>25
  <2>3. Same(m.next, w.next, Offset \ (Both(P) \cup Whole(o, r))) BY <1>15, <1>21, <1>25 DEF Same
  <2> QED BY <2>1, <2>2, <2>3, <1>4, <1>15, <1>21, <1>25, <1>28, <1>30, ReturnMoves DEF s, F
<1>32. Mem' = w BY <1>1, <1>26, Stored
<1>33. Moves(Mem, Mem', db[d], v, O[d], O[d], R[d], r1, P, Q) BY <1>31, <1>32 DEF u, m, o, r
<1>34. OpenOK(v, TRUE) BY <1>3, <1>7 DEF OpenOK
<1> QED BY <1>1, <1>2, <1>5, <1>7, <1>33, <1>34, StepOne DEF Now

(* rollback(): the multi areas are unlinked, and the transaction is over. *)
LEMMA StepRollbackEnd ==
    ASSUME NEW O, NEW R, NEW P, Now(O, R, P), NEW d \in DBs, RollbackEnd(d)
    PROVE  Inv'
<1> DEFINE m == Mem
           u == db[d]
           o == O[d]
           r == R[d]
           k == "multi"
           w == Cut(m, d, k)
           h == IF FirstMulti(d) THEN 0 ELSE u.head[k]
           v == [u EXCEPT !.win = "", !.txn = "none", !.draft = {}, !.atail = NoLink,
                          !.head = [u.head EXCEPT ![k] = h]]
           r1 == [r EXCEPT ![k] = IF Active(u, k) THEN {} ELSE r[k]]
           s == m.size
           F == Span(s, Both(P))
<1>1. /\ u.win = "multi" /\ Store(w) /\ up' = up /\ clean_close' = clean_close /\ lost' = lost
      /\ db' = [db EXCEPT ![d].win = "", ![d].txn = "none", ![d].draft = {}, ![d].atail = NoLink,
                          ![d].head[k] = h]
  BY DEF RollbackEnd
<1>2. u.entry /\ \A e \in DBs \ {d} : db[e].win = ""
  <2>1. DbOK(m, u, o, r) BY DEF Now, AllDbs
  <2>2. u.entry BY <2>1, <1>1 DEF DbOK, NoEntryOK
  <2>3. \A e \in DBs : db[e].win # "" => e = d BY <1>1 DEF Now, Flags
  <2> QED BY <2>2, <2>3
<1>3. /\ u \in Database /\ db \in [DBs -> Database] /\ DbOK(m, u, o, r) /\ EntryOK(m, u, o, r)
      /\ SepOK(m.size, u, o, r, P) /\ TxnOK(u) /\ u.tail["single"] # 0 /\ o \in Sets /\ r \in Sets
  BY <1>2, AtRest
<1>4. MemOK(m, P) /\ m \in MemType BY DEF Now, Clean, Types
<1>5. u.atail["single"] # 0 BY <1>1, <1>3 DEF TxnOK
<1>6. (Active(u, k) <=> u.atail[k] # u.tail[k]) /\ ~Active(u, "single") BY <1>1, <1>5 DEF Active
<1>7. h = IF Active(u, k) /\ u.tail[k] = 0 THEN 0 ELSE u.head[k] BY <1>6 DEF FirstMulti
<1>8. w = IF Active(u, k) /\ u.tail[k] # 0 THEN [m EXCEPT !.next[u.tail[k]] = 0] ELSE m
  BY <1>6 DEF Cut
<1>9. u.tail[k] \in Offset /\ u.head \in [Kind -> Offset] /\ h \in Offset
  <2>1. 0 \in Offset BY Position
  <2> QED BY <2>1, <1>3, <1>7 DEF Database, Kind
<1>10. db' = [db EXCEPT ![d] = v]
  <2>1. k \in Kind BY DEF Kind
  <2> HIDE DEF h, k
  <2>2. ASSUME NEW D \in [DBs -> Database] PROVE
          [D EXCEPT ![d].win = "", ![d].txn = "none", ![d].draft = {}, ![d].atail = NoLink, ![d].head[k] = h]
            = [D EXCEPT ![d] = [D[d] EXCEPT !.win = "", !.txn = "none", !.draft = {}, !.atail = NoLink,
                                            !.head = [D[d].head EXCEPT ![k] = h]]]
    BY ZenonT(60)
  <2> QED BY <2>2, <1>1, <1>3
<1> HIDE DEF h
<1>11. /\ v \in Database /\ v.entry /\ v.win = "" /\ v.tail = u.tail /\ v.own = u.own /\ v.draft = {}
       /\ v.atail = NoLink /\ v.txn = "none" /\ v.head[k] = h /\ v.head["single"] = u.head["single"]
  <2> DEFINE hd == [u.head EXCEPT ![k] = h]
  <2>1. hd \in [Kind -> Offset] /\ hd[k] = h /\ hd["single"] = u.head["single"] BY <1>9 DEF Kind
  <2>2. NoLink \in [Kind -> Offset] BY Position DEF NoLink
  <2> HIDE DEF hd
  <2>3. v = [u EXCEPT !.win = "", !.txn = "none", !.draft = {}, !.atail = NoLink, !.head = hd] BY DEF hd
  <2> QED BY <2>1, <2>2, <2>3, <1>2, <1>3, ZenonT(90) DEF Database
<1> HIDE DEF u, v, m, o, r, w, s, F
<1>12. /\ w \in MemType /\ w.size = s /\ w.pool = m.pool /\ w.file_size = m.file_size
       /\ \A y \in Offset : w.next[y] = IF Active(u, k) /\ y = u.tail[k] /\ y # 0 THEN 0 ELSE m.next[y]
  <2>1. CASE Active(u, k) /\ u.tail[k] # 0
    <3> DEFINE c == u.tail[k]
    <3>1. w = [m EXCEPT !.next[c] = 0] /\ c \in Offset /\ c # 0 BY <2>1, <1>8, <1>9
    <3> HIDE DEF c
    <3>2. /\ w \in MemType /\ w.size = m.size /\ w.pool = m.pool /\ w.file_size = m.file_size
          /\ \A y \in Offset : w.next[y] = IF y = c THEN 0 ELSE m.next[y]
      BY <3>1, <1>4, CutForm
    <3> QED BY <3>1, <3>2, <2>1 DEF c, s
  <2>2. CASE ~(Active(u, k) /\ u.tail[k] # 0) BY <2>2, <1>8, <1>4 DEF s
  <2> QED BY <2>1, <2>2
<1>13. /\ r1 \in Sets /\ r1[k] = (IF Active(u, k) THEN {} ELSE r[k]) /\ r1["single"] = r["single"]
  BY <1>3 DEF Sets, Kind
<1> HIDE DEF r1
<1>14. \A j \in Kind : ~Active(v, j) BY <1>11 DEF Active, NoLink, Kind
<1>15. Cuts(m, w, u, v, o, r, r1, k)
  <2>1. k \in Kind /\ \A j \in Kind \ {k} : j = "single" BY DEF Kind
  <2> QED BY <2>1, <1>3, <1>4, <1>6, <1>7, <1>11, <1>12, <1>13, <1>14 DEF Cuts, s
<1>16. /\ \A j \in Kind : HeadOK(w.next, v, o, j) /\ RestOK(w.next, v, r1, j) /\ o[j] \cap r1[j] = {}
       /\ Tidy(w.size, w.file_size, o["single"] \cup r1["single"], o["multi"] \cup r1["multi"])
       /\ Same(m.next, w.next, Offset \ Both(o)) /\ Whole(o, r1) \subseteq Whole(o, r)
  <2>1. k \in Kind BY DEF Kind
  <2> HIDE DEF k
  <2> QED BY <2>1, <1>3, <1>15, ChainCut
<1>17. EntryOK(w, v, o, r1)
  <2>1. TxnOK(v) BY <1>11 DEF TxnOK, NoLink, Kind
  <2>2. v.own = Span(w.size, Both(o)) BY <1>3, <1>11, <1>12 DEF EntryOK, s
  <2>3. Draft(v, r1) = {} BY <1>14 DEF Draft, Live, Kind
  <2>4. v.draft = Span(w.size, Draft(v, r1)) BY <2>3, <1>11, SpanNone
  <2>5. v.tail["single"] # 0 BY <1>3, <1>11
  <2> QED BY <2>1, <2>2, <2>4, <2>5, <1>3, <1>13, <1>16 DEF EntryOK
<1>18. DbOK(w, v, o, r1) BY <1>11, <1>17 DEF DbOK
<1>19. /\ Span(s, Both(o)) \cap F = {} /\ Span(s, r["single"]) \cap F = {} /\ u.draft \subseteq F
       /\ ~Active(u, k) => Span(s, r[k]) \cap F = {}
  <2>1. /\ Span(s, Both(o)) \cap F = {} /\ u.draft \subseteq F
        /\ \A j \in Kind : IF u.win = j /\ Active(u, j) THEN Span(s, r[j]) \subseteq F
                           ELSE Span(s, r[j]) \cap F = {}
    BY <1>1, <1>3 DEF SepOK, s, F
  <2> QED BY <2>1, <1>1 DEF Kind
<1>20. Span(s, Whole(o, r1)) \cap F = {}
  <2>1. Span(s, Whole(o, r1)) = Span(s, Both(o)) \cup Span(s, Both(r1)) BY SpanWhole
  <2>2. Span(s, Both(r1)) = Span(s, r1["single"]) \cup Span(s, r1[k]) BY SpanWhole
  <2>3. Span(s, r1[k]) = (IF Active(u, k) THEN {} ELSE Span(s, r[k])) BY <1>13, SpanNone
  <2>4. Span(s, r1["single"]) = Span(s, r["single"]) BY <1>13
  <2> QED BY <2>1, <2>2, <2>3, <2>4, <1>19
<1>21. SepOK(w.size, v, o, r1, P) BY <1>11, <1>12, <1>20, SepQuiet DEF F
<1>22. /\ Whole(o, r) \subseteq Span(s, Whole(o, r)) /\ Both(P) \subseteq F /\ Both(o) \subseteq Whole(o, r)
       /\ Both(o) \subseteq Whole(o, r1) /\ Whole(o, r1) \subseteq Span(s, Whole(o, r1))
  <2>1. Whole(o, r) \subseteq Span(s, Whole(o, r)) BY <1>3, <1>4, EntryNodes DEF s
  <2>2. Whole(o, r1) \subseteq Span(w.size, Whole(o, r1)) BY <1>12, <1>18, EntryNodes
  <2> QED BY <2>1, <2>2, <1>4, <1>12, PoolNodes DEF s, F, Whole
<1>23. MemOK(w, P)
  <2>1. Both(P) \subseteq Offset \ Both(o)
    <3>1. \A j \in Kind : P[j] \subseteq Offset BY <1>4, PoolNodes
    <3>2. Both(P) \cap Both(o) = {} BY <1>20, <1>22
    <3> QED BY <3>1, <3>2 DEF Both, Kind
  <2>2. Same(m.next, w.next, Both(P)) /\ Same(m.size, w.size, Both(P)) BY <2>1, <1>12, <1>16 DEF Same, s
  <2>3. w.next[0] = 0
    <3>1. 0 \in Offset /\ m.next[0] = 0 BY <1>4, Position DEF MemOK
    <3> QED BY <3>1, <1>12
  <2>4. m.file_size <= w.file_size
    <3>1. m.file_size \in Nat BY <1>4, Position
    <3>2. m.file_size <= m.file_size BY <3>1, Reflexive
    <3> QED BY <3>2, <1>12
  <2> QED BY <2>2, <2>3, <2>4, <1>4, <1>12, MemFrame
<1>24. Moves(m, w, u, v, o, o, r, r1, P, P)
  <2>1. Span(s, Both(P)) \subseteq F \cup Span(s, Whole(o, r)) BY DEF F
  <2>2. Span(s, Both(P)) \cup v.own \cup v.draft = F \cup u.own \cup u.draft BY <1>11, <1>19 DEF F
  <2>3. Same(m.next, w.next, Offset \ (Both(P) \cup Whole(o, r))) BY <1>16, <1>22 DEF Same
  <2> QED BY <2>1, <2>2, <2>3, <1>4, <1>12, <1>16, <1>18, <1>21, <1>22, <1>23, ReturnMoves DEF s, F
<1>25. Mem' = w BY <1>1, <1>12, Stored
<1>26. Moves(Mem, Mem', db[d], v, O[d], O[d], R[d], r1, P, P) BY <1>24, <1>25 DEF u, m, o, r
<1>27. OpenOK(v, TRUE) BY <1>11 DEF OpenOK
<1> QED BY <1>1, <1>2, <1>10, <1>11, <1>26, <1>27, StepOne DEF Now

(* remove(): the entry is taken out of the directory. *)
LEMMA StepRemoveEntry ==
    ASSUME NEW O, NEW R, NEW P, Now(O, R, P), NEW d \in DBs, RemoveEntry(d)
    PROVE  Inv'
<1> DEFINE m == Mem
           u == db[d]
           o == O[d]
           r == R[d]
           v == NoDatabase
           n == [k \in Kind |-> {}]
           s == m.size
           F == Span(s, Both(P))
<1>1. /\ u.win = "entry" /\ db' = [db EXCEPT ![d] = v] /\ Mem' = m
      /\ up' = up /\ clean_close' = clean_close /\ lost' = lost
  BY DEF RemoveEntry, Mem
<1>2. u.entry /\ \A e \in DBs \ {d} : db[e].win = ""
  <2>1. DbOK(m, u, o, r) BY DEF Now, AllDbs
  <2>2. u.entry BY <2>1, <1>1 DEF DbOK, NoEntryOK
  <2>3. \A e \in DBs : db[e].win # "" => e = d BY <1>1 DEF Now, Flags
  <2> QED BY <2>2, <2>3
<1>3. DbOK(m, u, o, r) /\ EntryOK(m, u, o, r) /\ SepOK(m.size, u, o, r, P) BY <1>2, AtRest
<1>4. MemOK(m, P) /\ m \in MemType BY DEF Now, Clean, Types
<1>5. /\ v \in Database /\ ~v.entry /\ v.own = {} /\ v.draft = {} /\ v.win = "" /\ v.txn = "none"
  <2>1. NoLink \in [Kind -> Offset] BY Position DEF NoLink
  <2> QED BY <2>1 DEF NoDatabase, Database
<1>6. n \in Sets /\ Whole(n, n) = {} BY DEF Sets, Whole, Both, Kind
<1> HIDE DEF u, v, m, o, r, n, s, F
<1>7. DbOK(m, v, n, n) BY <1>5, <1>6 DEF DbOK, NoEntryOK
<1>8. SepOK(m.size, v, n, n, P)
  <2>1. Span(m.size, Whole(n, n)) = {} BY <1>6, SpanNone
  <2> QED BY <2>1, <1>5, SepQuiet
<1>9. u.own \subseteq F /\ u.draft = {}
  <2>1. Both(r) = {} /\ Span(s, Both(o)) \subseteq F BY <1>1, <1>3 DEF SepOK, s, F
  <2>2. u.own = Span(s, Both(o)) /\ u.draft = Span(s, Draft(u, r)) BY <1>1, <1>3 DEF EntryOK, s
  <2>3. Draft(u, r) = {} BY <2>1 DEF Draft, Live, Both
  <2> QED BY <2>1, <2>2, <2>3, SpanNone
<1>10. Moves(m, m, u, v, o, n, r, n, P, P)
  <2>1. Span(s, Both(P)) \subseteq F \cup Span(s, Whole(o, r)) BY DEF F
  <2>2. Span(s, Both(P)) \cup v.own \cup v.draft = F \cup u.own \cup u.draft BY <1>5, <1>9 DEF F
  <2>3. Same(m.next, m.next, Offset \ (Both(P) \cup Whole(o, r))) BY DEF Same
  <2>4. Whole(o, r) \subseteq Span(s, Whole(o, r)) BY <1>3, <1>4, EntryNodes DEF s
  <2>5. Both(P) \subseteq F BY <1>4, PoolNodes DEF s, F
  <2>6. Whole(n, n) \subseteq Whole(o, r) BY <1>6
  <2> QED BY <2>1, <2>2, <2>3, <2>4, <2>5, <2>6, <1>4, <1>7, <1>8, ReturnMoves DEF s, F
<1>11. Moves(Mem, Mem', db[d], v, O[d], n, R[d], n, P, P) BY <1>1, <1>10 DEF u, m, o, r
<1>12. OpenOK(v, TRUE) BY <1>5 DEF OpenOK
<1> QED BY <1>1, <1>2, <1>5, <1>11, <1>12, StepOne DEF Now

(* return_areas() of a chain without a stale end. *)
LEMMA ChainReturns ==
    ASSUME NEW m, NEW P, MemOK(m, P), NEW k \in Kind, NEW d, NEW o \in Sets, HeadOK(m.next, db[d], o, k),
           Tidy(m.size, m.file_size, IF k = "single" THEN o[k] ELSE {}, IF k = "multi" THEN o[k] ELSE {}),
           Span(m.size, Both(P)) \cap Span(m.size, o[k]) = {}, First(m.next, db[d], k) = 0, 0 \notin o[k]
    PROVE  \E Q : Gives(m, ChainReturned(m, d, k), P, Q, k, o[k])
<1> DEFINE u == db[d]
           h == u.head[k]
           t == u.tail[k]
           w == ChainReturned(m, d, k)
           M == o[k]
<1>0. HeadOK(m.next, u, o, k) OBVIOUS
<1>1. CASE t = 0
  <2>1. M = {} /\ w = m BY <1>0, <1>1 DEF HeadOK, ChainReturned, Chained
  <2>2. Span(m.size, M) = {} BY <2>1, SpanNone
  <2>3. Gives(m, w, P, P, k, M) BY <2>1, <2>2 DEF Gives, Same
  <2> QED BY <2>3
<1>2. CASE t # 0
  <2>1. Seg(m.next, h, t, M) /\ m.next[t] = 0 BY <1>0, <1>2 DEF HeadOK, First
  <2>2. h # 0 BY <2>1 DEF Seg
  <2>3. w = Add(m, k, h, t) BY <2>2, <1>2 DEF ChainReturned, Chained
  <2>4. M \in SUBSET Offset BY DEF Sets
  <2>5. Span(m.size, Both(P)) \cap Span(m.size, M) = {} OBVIOUS
  <2>6. Tidy(m.size, m.file_size, IF k = "single" THEN M ELSE {}, IF k = "multi" THEN M ELSE {}) OBVIOUS
  <2> HIDE DEF M, h, t
  <2>7. Gives(m, w, P, More(P, k, M), k, M) BY <2>1, <2>3, <2>4, <2>5, <2>6, AddGives
  <2> QED BY <2>7 DEF M
<1> QED BY <1>1, <1>2

(* A chain without a stale end has nothing but what is committed. *)
LEMMA NotStale ==
    ASSUME NoCases, NEW O, NEW R, NEW P, Now(O, R, P), NEW d \in DBs, db[d].entry,
           "stale" \in Cases \/ ~StaleTail(d)
    PROVE  /\ \A k \in Kind : First(Mem.next, db[d], k) = 0 /\ R[d][k] = {} /\ ~Active(db[d], k)
           /\ Both(R[d]) = {} /\ Draft(db[d], R[d]) = {} /\ Whole(O[d], R[d]) = Both(O[d])
<1>1. ~StaleTail(d) BY DEF NoCases
<1>2. \A k \in Kind : First(Mem.next, db[d], k) = 0 BY <1>1 DEF StaleTail, Range0, First, Mem
<1>3. \A k \in Kind : RestOK(Mem.next, db[d], R[d], k) BY AtRest DEF EntryOK
<1>4. \A k \in Kind : R[d][k] = {} /\ ~Active(db[d], k) BY <1>2, <1>3 DEF RestOK
<1>5. Both(R[d]) = {} /\ Draft(db[d], R[d]) = {} BY <1>4 DEF Both, Draft, Live, Kind
<1> QED BY <1>2, <1>4, <1>5 DEF Whole

(* return_areas() of both chains, in remove(). *)
LEMMA StepRemove ==
    ASSUME NoCases, NEW O, NEW R, NEW P, Now(O, R, P), NEW d \in DBs, Remove(d)
    PROVE  Inv'
<1> DEFINE m == Mem
           u == db[d]
           o == O[d]
           r == R[d]
           x == ChainReturned(m, d, "single")
           w == ChainReturned(x, d, "multi")
           v == [u EXCEPT !.win = "entry"]
           s == m.size
           F == Span(s, Both(P))
<1>1. /\ u.entry /\ u.win = "" /\ \A e \in DBs \ {d} : db[e].win = ""
      /\ db' = [db EXCEPT ![d].win = "entry"] /\ Store(w)
      /\ "stale" \in Cases \/ ~StaleTail(d)
      /\ up' = up /\ clean_close' = clean_close /\ lost' = lost
  BY DEF Remove, FileLock, AllReturned
<1>2. /\ u \in Database /\ db \in [DBs -> Database] /\ DbOK(m, u, o, r) /\ EntryOK(m, u, o, r)
      /\ SepOK(m.size, u, o, r, P) /\ OpenOK(u, TRUE) /\ TxnOK(u) /\ o \in Sets /\ r \in Sets
  BY <1>1, AtRest
<1>3. MemOK(m, P) /\ m \in MemType BY DEF Now, Clean, Types
<1>4. db' = [db EXCEPT ![d] = v] BY <1>1, <1>2
<1>5. /\ v \in Database /\ v.entry /\ v.win = "entry" /\ v.head = u.head /\ v.tail = u.tail
      /\ v.own = u.own /\ v.draft = u.draft /\ v.atail = u.atail /\ v.txn = u.txn /\ v.sane = u.sane
  BY <1>1, <1>2 DEF Database
<1>s. db[d].entry /\ ("stale" \in Cases \/ ~StaleTail(d)) BY <1>1
<1>6. /\ \A k \in Kind : First(m.next, u, k) = 0 /\ r[k] = {} /\ ~Active(u, k)
      /\ Both(r) = {} /\ Draft(u, r) = {} /\ Whole(o, r) = Both(o)
  BY <1>s, NotStale
<1> HIDE DEF v, m, o, r, w, x, s, F
<1>7. /\ Span(s, Both(o)) \cap F = {} /\ Span(s, Both(o)) = Span(s, o["single"]) \cup Span(s, o["multi"])
      /\ Span(s, o["single"]) \cap Span(s, o["multi"]) = {}
  <2>1. Span(s, Both(o)) \cap F = {}
    <3>1. Span(s, Whole(o, r)) \cap F = {} BY <1>1, <1>2, SepQuiet DEF s, F
    <3> QED BY <3>1, <1>6
  <2>2. Span(s, Both(o)) = Span(s, o["single"]) \cup Span(s, o["multi"]) BY SpanWhole
  <2>3. Parts(s, o, r) BY <1>2, EntryParts DEF s
  <2> QED BY <2>1, <2>2, <2>3 DEF Parts
<1>8. /\ Both(o) \subseteq Span(s, Both(o)) /\ Both(o) \subseteq Offset /\ 0 \notin Both(o) /\ Both(P) \subseteq F
      /\ o["single"] \subseteq Both(o) /\ o["multi"] \subseteq Both(o)
  <2>1. Whole(o, r) \subseteq Span(s, Whole(o, r)) /\ Whole(o, r) \subseteq Offset /\ 0 \notin Whole(o, r)
    BY <1>2, <1>3, EntryNodes DEF s
  <2> QED BY <2>1, <1>3, <1>6, PoolNodes DEF s, F, Both
<1>9. Both(o) \subseteq Offset \ Both(P) /\ P["single"] \subseteq Both(P) /\ P["multi"] \subseteq Both(P)
  BY <1>7, <1>8 DEF Both
<1>10. m.file_size <= m.file_size
  <2>1. m.file_size \in Nat BY <1>3, Position
  <2> QED BY <2>1, Reflexive
<1>11. PICK P1 : Gives(m, x, P, P1, "single", o["single"])
  <2> DEFINE k == "single"
  <2>1. k \in Kind /\ Span(m.size, Both(P)) \cap Span(m.size, o[k]) = {} /\ First(m.next, u, k) = 0 /\ 0 \notin o[k]
    BY <1>6, <1>7, <1>8 DEF Kind, s, F
  <2>2. x = ChainReturned(m, d, k) BY DEF x
  <2> HIDE DEF k
  <2>5. HeadOK(m.next, u, o, k) BY <2>1, <1>2 DEF EntryOK
  <2>6. o[k] \in SUBSET (o[k] \cup r[k]) OBVIOUS
  <2>7. Tidy(m.size, m.file_size, IF k = "single" THEN o[k] ELSE {}, IF k = "multi" THEN o[k] ELSE {})
    BY <2>1, <2>6, <1>2, TidyPart
  <2>3. \E Q : Gives(m, ChainReturned(m, d, k), P, Q, k, o[k])
    BY <2>1, <2>5, <2>7, <1>2, <1>3, ChainReturns
  <2>4. \E Q : Gives(m, x, P, Q, k, o[k]) BY <2>2, <2>3
  <2> QED BY <2>4 DEF k
<1>12. /\ MemOK(x, P1) /\ x.size = s /\ x.file_size = m.file_size /\ x \in MemType
       /\ Span(s, Both(P1)) = F \cup Span(s, o["single"])
       /\ Same(m.next, x.next, Offset \ P["single"]) /\ P1["multi"] = P["multi"]
  BY <1>11 DEF Gives, s, F, MemOK, Kind
<1>13. DbOK(x, u, o, r)
  <2>1. Same(m.next, x.next, Whole(o, r)) /\ Same(m.size, x.size, Whole(o, r))
    BY <1>6, <1>9, <1>12 DEF Same, s
  <2>2. m.file_size <= x.file_size BY <1>10, <1>12
  <2> QED BY <2>1, <2>2, <1>2, <1>3, <1>12, DbFrame
<1>14. PICK Q : Gives(x, w, P1, Q, "multi", o["multi"])
  <2> DEFINE k == "multi"
  <2>0. EntryOK(x, u, o, r) BY <1>1, <1>13 DEF DbOK
  <2>1. First(x.next, u, k) = 0
    <3>1. HeadOK(m.next, u, o, k) BY <1>2 DEF EntryOK, Kind
    <3>2. Same(m.next, x.next, o[k]) BY <1>8, <1>9, <1>12 DEF Same
    <3>3. First(m.next, u, k) = 0 BY <1>6 DEF Kind
    <3> QED BY <3>1, <3>2, <3>3, HeadFrame
  <2>2. k \in Kind /\ Span(x.size, Both(P1)) \cap Span(x.size, o[k]) = {} /\ 0 \notin o[k]
    BY <1>7, <1>8, <1>12 DEF Kind
  <2>3. w = ChainReturned(x, d, k) BY DEF w
  <2> HIDE DEF k
  <2>6. HeadOK(x.next, u, o, k) BY <2>0, <2>2 DEF EntryOK
  <2>7. o[k] \in SUBSET (o[k] \cup r[k]) OBVIOUS
  <2>8. Tidy(x.size, x.file_size, IF k = "single" THEN o[k] ELSE {}, IF k = "multi" THEN o[k] ELSE {})
    BY <2>0, <2>2, <2>7, TidyPart
  <2>4. \E Q : Gives(x, ChainReturned(x, d, k), P1, Q, k, o[k])
    BY <2>1, <2>2, <2>6, <2>8, <1>2, <1>12, ChainReturns
  <2>5. \E Q : Gives(x, w, P1, Q, k, o[k]) BY <2>3, <2>4
  <2> QED BY <2>5 DEF k
<1>15. /\ MemOK(w, Q) /\ w.size = s /\ w.file_size = m.file_size /\ w \in MemType
       /\ Span(s, Both(Q)) = F \cup Span(s, Both(o))
       /\ Same(x.next, w.next, Offset \ P["multi"])
  <2>1. /\ MemOK(w, Q) /\ w.size = s /\ w.file_size = m.file_size /\ w \in MemType
        /\ Span(s, Both(Q)) = Span(s, Both(P1)) \cup Span(s, o["multi"])
        /\ Same(x.next, w.next, Offset \ P["multi"])
    BY <1>12, <1>14 DEF Gives, MemOK
  <2> QED BY <2>1, <1>7, <1>12
<1>16. EntryOK(w, u, o, r)
  <2>1. Same(x.next, w.next, Whole(o, r)) /\ Same(x.size, w.size, Whole(o, r))
    BY <1>6, <1>9, <1>12, <1>15 DEF Same
  <2>2. x.file_size <= w.file_size BY <1>10, <1>12, <1>15
  <2>3. DbOK(w, u, o, r) BY <2>1, <2>2, <1>12, <1>13, <1>15, DbFrame
  <2> QED BY <2>3, <1>1 DEF DbOK
<1> HIDE DEF u
<1>17. \A k \in Kind : ~Active(v, k)
  <2>1. \A k \in Kind : Active(v, k) <=> Active(u, k) BY <1>1, <1>5 DEF Active
  <2> QED BY <2>1, <1>6
<1>18. EntryOK(w, v, o, r)
  <2>1. ASSUME NEW k \in Kind PROVE HeadOK(w.next, v, o, k) /\ RestOK(w.next, v, r, k)
    <3>1. HeadOK(w.next, u, o, k) /\ RestOK(w.next, u, r, k) BY <1>16 DEF EntryOK
    <3>2. First(w.next, v, k) = First(w.next, u, k) BY <1>5 DEF First
    <3>3. ~Active(u, k) /\ ~Active(v, k) BY <1>6, <1>17
    <3> QED BY <3>1, <3>2, <3>3, <1>5 DEF HeadOK, RestOK
  <2>2. Draft(v, r) = Draft(u, r) BY <1>6, <1>17 DEF Draft, Live, Kind
  <2>3. TxnOK(v) BY <1>2, <1>5 DEF TxnOK
  <2> QED BY <2>1, <2>2, <2>3, <1>1, <1>5, <1>16 DEF EntryOK
<1>19. DbOK(w, v, o, r) BY <1>5, <1>18 DEF DbOK
<1>20. SepOK(w.size, v, o, r, Q) BY <1>5, <1>6, <1>15 DEF SepOK
<1>21. Moves(m, w, u, v, o, o, r, r, P, Q)
  <2>1. Span(s, Both(Q)) \subseteq F \cup Span(s, Whole(o, r)) BY <1>6, <1>15
  <2>2. Span(s, Both(Q)) \cup v.own \cup v.draft = F \cup u.own \cup u.draft
    <3>1. u.own = Span(s, Both(o)) BY <1>2 DEF EntryOK, s
    <3> QED BY <3>1, <1>5, <1>15
  <2>3. Same(m.next, w.next, Offset \ (Both(P) \cup Whole(o, r))) BY <1>9, <1>12, <1>15 DEF Same
  <2>4. Whole(o, r) \subseteq Span(s, Whole(o, r)) BY <1>6, <1>8
  <2> QED BY <2>1, <2>2, <2>3, <2>4, <1>3, <1>8, <1>15, <1>19, <1>20, ReturnMoves DEF s, F
<1>22. Mem' = w BY <1>1, <1>15, Stored
<1>23. Moves(Mem, Mem', db[d], v, O[d], O[d], R[d], R[d], P, Q) BY <1>21, <1>22 DEF u, m, o, r
<1>24. OpenOK(v, TRUE) BY <1>2, <1>5 DEF OpenOK
<1> QED BY <1>1, <1>4, <1>5, <1>23, <1>24, StepOne DEF Now

(* reset_in_place(): the single areas but the first. *)
Trims(m, x, P, P1, M, h) ==
    /\ MemOK(x, P1) /\ x.size = m.size /\ x.file_size = m.file_size /\ x \in MemType
    /\ Span(m.size, Both(P1)) = Span(m.size, Both(P)) \cup Span(m.size, M)
    /\ Same(m.next, x.next, Offset \ (P["single"] \cup {h})) /\ x.next[h] = 0
    /\ P1["multi"] = P["multi"]

(* The first area stays, the others are in the pool. *)
LEMMA ResetSingle ==
    ASSUME NEW m, NEW P, MemOK(m, P), NEW u, NEW o, NEW r, EntryOK(m, u, o, r), DbOK(m, u, o, r),
           First(m.next, u, "single") = 0, Span(m.size, Both(P)) \cap Span(m.size, o["single"]) = {},
           NEW h, h = u.head["single"], NEW x,
           x = IF m.next[h] = 0 THEN m
               ELSE [Add(m, "single", m.next[h], u.tail["single"]) EXCEPT !.next[h] = 0]
    PROVE  /\ h \in o["single"] /\ Span(m.size, {h}) = {h}
           /\ Span(m.size, o["single"]) = Span(m.size, o["single"] \ {h}) \cup {h}
           /\ h \notin Span(m.size, o["single"] \ {h})
           /\ \E P1 : Trims(m, x, P, P1, o["single"] \ {h}, h)
<1> DEFINE A == o["single"]
           M == A \ {h}
           t == u.tail["single"]
           s == m.size
           k == "single"
<1>1. /\ HeadOK(m.next, u, o, "single") /\ t # 0 /\ o \in Sets
      /\ Tidy(s, m.file_size, o["single"] \cup r["single"], o["multi"] \cup r["multi"])
  BY DEF EntryOK, Kind
<1>2. m \in MemType /\ m.next[0] = 0 BY DEF MemOK
<1>3. Seg(m.next, h, t, A) /\ m.next[t] = 0 BY <1>1 DEF HeadOK, First
<1>4. /\ A \subseteq Offset /\ 0 \notin A /\ h \in A /\ k \in Kind
  <2>1. Whole(o, r) \subseteq Offset /\ 0 \notin Whole(o, r) /\ \A j \in Kind : o[j] \subseteq Whole(o, r)
    BY <1>2, EntryNodes
  <2> QED BY <2>1, <1>3 DEF Seg, Kind
<1>5. Span(s, {h}) = {h}
  <2>1. s[h] = 1 BY <1>1, <1>4 DEF Tidy
  <2>2. h \in Nat BY <1>4, AreasAssumption DEF Offset
  <2>3. h .. h + 1 - 1 = {h} BY <2>2
  <2>4. Of(s, h) = {h} BY <2>1, <2>3 DEF Of
  <2> QED BY <2>4, SpanOne
<1>6. Span(s, A) = Span(s, M) \cup {h} /\ h \notin Span(s, M)
  <2>1. Apart(s, A) BY <1>1 DEF Tidy, Apart
  <2>2. {h} \subseteq A BY <1>4
  <2> HIDE DEF A, s
  <2>3. Span(s, A \ {h}) \cap Span(s, {h}) = {} /\ Span(s, A \ {h}) \cup Span(s, {h}) = Span(s, A)
    BY <2>1, <2>2, SpanMinus
  <2> QED BY <2>3, <1>5
<1>7. \E P1 : Trims(m, x, P, P1, M, h)
  <2>1. CASE m.next[h] = 0
    <3>1. h = t BY <2>1, <1>3, <1>4 DEF Seg
    <3>2. M = {} BY <3>1, <1>3, SegEnd
    <3>3. Span(s, M) = {} BY <3>2, SpanNone
    <3>4. x = m BY <2>1
    <3>5. Trims(m, x, P, P, M, h) BY <3>3, <3>4, <2>1, <1>2 DEF Same, Trims
    <3> QED BY <3>5
  <2>2. CASE m.next[h] # 0
    <3> DEFINE y == Add(m, k, m.next[h], t)
               P1 == More(P, k, M)
    <3>1. h # t BY <2>2, <1>3
    <3>2. Seg(m.next, m.next[h], t, M) BY <3>1, <1>3, SegDrop
    <3>3. M \in SUBSET Offset /\ M \in SUBSET (o[k] \cup r[k]) BY <1>4
    <3>4. Span(m.size, Both(P)) \cap Span(m.size, M) = {} BY <1>6
    <3>5. x = [y EXCEPT !.next[h] = 0] BY <2>2
    <3> HIDE DEF M, t, k, y
    <3>6. Tidy(m.size, m.file_size, IF k = "single" THEN M ELSE {}, IF k = "multi" THEN M ELSE {})
      BY <3>3, <1>4, TidyPart
    <3>7. Gives(m, y, P, P1, k, M) BY <3>2, <3>3, <3>4, <3>6, <1>3, <1>4, AddGives DEF y
    <3> HIDE DEF P1
    <3>8. /\ MemOK(y, P1) /\ y.size = s /\ y.file_size = m.file_size /\ y \in MemType /\ y.next[0] = 0
          /\ Span(s, Both(P1)) = Span(s, Both(P)) \cup Span(s, M)
          /\ Same(m.next, y.next, Offset \ P["single"]) /\ P1["multi"] = P["multi"]
      BY <3>7 DEF Gives, MemOK, Kind, k
    <3>9. /\ x \in MemType /\ x.size = y.size /\ x.pool = y.pool /\ x.file_size = y.file_size
          /\ \A z \in Offset : x.next[z] = IF z = h THEN 0 ELSE y.next[z]
      <4>1. h \in Offset /\ y \in MemType BY <3>8, <1>4
      <4> DEFINE z == [y EXCEPT !.next[h] = 0]
      <4>2. /\ z \in MemType /\ z.size = y.size /\ z.pool = y.pool /\ z.file_size = y.file_size
            /\ \A i \in Offset : z.next[i] = IF i = h THEN 0 ELSE y.next[i]
        BY <4>1, CutForm
      <4>3. x = z BY <3>5
      <4> HIDE DEF z
      <4> QED BY <4>2, <4>3
    <3>10. h \notin Both(P1) /\ Both(P1) \subseteq Offset
      <4>1. Both(P1) \subseteq Span(y.size, Both(P1)) /\ \A j \in Kind : P1[j] \subseteq Offset
        BY <3>8, PoolNodes
      <4>2. h \notin Span(s, Both(P)) BY <1>6
      <4> QED BY <4>1, <4>2, <3>8, <1>6 DEF Both, Kind
    <3>11. MemOK(x, P1)
      <4>1. Same(y.next, x.next, Both(P1)) /\ Same(y.size, x.size, Both(P1)) BY <3>9, <3>10 DEF Same
      <4>2. x.next[0] = 0 BY <3>8, <3>9, <1>4, Position
      <4>3. y.file_size <= x.file_size
        <5>1. y.file_size \in Nat BY <3>8, Position
        <5>2. y.file_size <= y.file_size BY <5>1, Reflexive
        <5> QED BY <5>2, <3>9
      <4> QED BY <4>1, <4>2, <4>3, <3>8, <3>9, MemFrame
    <3>12. Same(m.next, x.next, Offset \ (P["single"] \cup {h})) BY <3>8, <3>9 DEF Same
    <3>13. x.next[h] = 0 BY <3>9, <1>4
    <3>14. x.size = m.size /\ x.file_size = m.file_size BY <3>8, <3>9
    <3>15. Trims(m, x, P, P1, M, h) BY <3>8, <3>9, <3>11, <3>12, <3>13, <3>14 DEF Trims
    <3> QED BY <3>15
  <2> QED BY <2>1, <2>2
<1> QED BY <1>4, <1>5, <1>6, <1>7

(* reset_in_place() *)
LEMMA StepReset ==
    ASSUME NoCases, NEW O, NEW R, NEW P, Now(O, R, P), NEW d \in DBs, ResetInPlace(d)
    PROVE  Inv'
<1> DEFINE m == Mem
           u == db[d]
           o == O[d]
           r == R[d]
           h == u.head["single"]
           x == IF m.next[h] = 0 THEN m
                ELSE [Add(m, "single", m.next[h], u.tail["single"]) EXCEPT !.next[h] = 0]
           w == ChainReturned(x, d, "multi")
           t == [NoLink EXCEPT !["single"] = h]
           g == IF Chained(d, "multi") THEN 0 ELSE u.head["multi"]
           hd == [u.head EXCEPT !["multi"] = g]
           v == [u EXCEPT !.head = hd, !.tail = t, !.own = {h}]
           s == m.size
           F == Span(s, Both(P))
           M == o["single"] \ {h}
           o1 == [k \in Kind |-> IF k = "single" THEN {h} ELSE {}]
           r1 == [k \in Kind |-> {}]
<1>0. m.next = next BY DEF Mem
<1>1. /\ Ready(d) /\ u.txn = "none" /\ Store(w)
      /\ "stale" \in Cases \/ ~StaleTail(d)
      /\ db' = [db EXCEPT ![d].head["multi"] = g, ![d].tail = t, ![d].own = {h}]
      /\ up' = up /\ clean_close' = clean_close /\ lost' = lost
  BY <1>0 DEF ResetInPlace
<1>2. u.entry /\ u.win = "" /\ \A e \in DBs \ {d} : db[e].win = "" BY <1>1 DEF Ready, Usable, FileLock
<1>3. /\ u \in Database /\ db \in [DBs -> Database] /\ DbOK(m, u, o, r) /\ EntryOK(m, u, o, r)
      /\ SepOK(m.size, u, o, r, P) /\ TxnOK(u) /\ o \in Sets /\ r \in Sets
  BY <1>2, AtRest
<1>4. MemOK(m, P) /\ m \in MemType BY DEF Now, Clean, Types
<1>s. db[d].entry /\ ("stale" \in Cases \/ ~StaleTail(d)) BY <1>1, <1>2
<1>5. /\ \A k \in Kind : First(m.next, u, k) = 0 /\ r[k] = {} /\ ~Active(u, k)
      /\ Both(r) = {} /\ Draft(u, r) = {} /\ Whole(o, r) = Both(o)
  BY <1>s, NotStale
<1>6. u.head \in [Kind -> Offset] /\ h \in Offset /\ 0 \in Offset /\ g \in Offset
  BY <1>3, Position DEF Database, Kind
<1>7. g = 0
  <2>1. HeadOK(m.next, u, o, "multi") /\ First(m.next, u, "multi") = 0 BY <1>3, <1>5 DEF EntryOK, Kind
  <2> QED BY <2>1 DEF Chained, First
<1>8. db' = [db EXCEPT ![d] = v]
  <2> HIDE DEF g, h, t
  <2> QED BY <1>1, <1>3
<1>9. t \in [Kind -> Offset] /\ t["single"] = h /\ t["multi"] = 0 BY <1>6 DEF NoLink, Kind
<1>10. hd \in [Kind -> Offset] /\ hd["single"] = h /\ hd["multi"] = 0
  <2> HIDE DEF g
  <2> QED BY <1>6, <1>7 DEF Kind
<1> HIDE DEF t, hd, g
<1>11. /\ v \in Database /\ v.entry /\ v.win = "" /\ v.head = hd /\ v.tail = t /\ v.own = {h} /\ v.draft = u.draft
       /\ v.atail = u.atail /\ v.txn = "none"
  <2> HIDE DEF h
  <2> QED BY <1>1, <1>2, <1>3, <1>6, <1>9, <1>10 DEF Database
<1> HIDE DEF v, m, o, r, w, s, F
<1>12. /\ Span(s, Both(o)) \cap F = {} /\ Span(s, Both(o)) = Span(s, o["single"]) \cup Span(s, o["multi"])
       /\ Span(s, o["single"]) \cap Span(s, o["multi"]) = {}
  <2>1. Span(s, Both(o)) \cap F = {}
    <3>1. Span(s, Whole(o, r)) \cap F = {} BY <1>2, <1>3, SepQuiet DEF s, F
    <3> QED BY <3>1, <1>5
  <2>2. Span(s, Both(o)) = Span(s, o["single"]) \cup Span(s, o["multi"]) BY SpanWhole
  <2>3. Parts(s, o, r) BY <1>3, EntryParts DEF s
  <2> QED BY <2>1, <2>2, <2>3 DEF Parts
<1>13. /\ Both(o) \subseteq Span(s, Both(o)) /\ Both(o) \subseteq Offset /\ 0 \notin Both(o) /\ Both(P) \subseteq F
       /\ o["single"] \subseteq Both(o) /\ o["multi"] \subseteq Both(o)
  <2>1. Whole(o, r) \subseteq Span(s, Whole(o, r)) /\ Whole(o, r) \subseteq Offset /\ 0 \notin Whole(o, r)
    BY <1>3, <1>4, EntryNodes DEF s
  <2> QED BY <2>1, <1>4, <1>5, PoolNodes DEF s, F, Both
<1>14. Both(o) \subseteq Offset \ Both(P) /\ P["single"] \subseteq Both(P) /\ P["multi"] \subseteq Both(P)
  BY <1>12, <1>13 DEF Both
<1>15. /\ h \in o["single"] /\ Span(s, {h}) = {h} /\ Span(s, o["single"]) = Span(s, M) \cup {h} /\ h \notin Span(s, M)
       /\ \E P1 : Trims(m, x, P, P1, M, h)
  <2>1. First(m.next, u, "single") = 0 /\ Span(m.size, Both(P)) \cap Span(m.size, o["single"]) = {}
    BY <1>5, <1>12 DEF Kind, s, F
  <2>2. /\ h = u.head["single"]
        /\ x = IF m.next[h] = 0 THEN m
               ELSE [Add(m, "single", m.next[h], u.tail["single"]) EXCEPT !.next[h] = 0]
    OBVIOUS
  <2> HIDE DEF x, h, u
  <2>3. EntryOK(m, u, o, r) /\ DbOK(m, u, o, r) /\ MemOK(m, P) BY <1>3, <1>4
  <2>4. /\ h \in o["single"] /\ Span(m.size, {h}) = {h}
        /\ Span(m.size, o["single"]) = Span(m.size, o["single"] \ {h}) \cup {h}
        /\ h \notin Span(m.size, o["single"] \ {h})
        /\ \E P1 : Trims(m, x, P, P1, o["single"] \ {h}, h)
    BY <2>1, <2>2, <2>3, ResetSingle, SMTT(30)
  <2> QED BY <2>4 DEF s
<1> HIDE DEF x, h, M
<1>16. PICK P1 : /\ MemOK(x, P1) /\ x.size = s /\ x.file_size = m.file_size /\ x \in MemType
                 /\ Span(s, Both(P1)) = F \cup Span(s, M)
                 /\ Same(m.next, x.next, Offset \ (P["single"] \cup {h})) /\ x.next[h] = 0
                 /\ P1["multi"] = P["multi"]
  BY <1>15 DEF Trims, s, F
<1>17. h \notin o["multi"] /\ h # 0 /\ h \notin Both(P) BY <1>3, <1>13, <1>14, <1>15 DEF EntryOK, Tidy
<1>18. PICK Q : Gives(x, w, P1, Q, "multi", o["multi"])
  <2> DEFINE k == "multi"
  <2>0. HeadOK(m.next, u, o, k) /\ First(m.next, u, k) = 0 /\ k \in Kind BY <1>3, <1>5 DEF EntryOK, Kind
  <2>1. Same(m.next, x.next, o[k])
    <3>1. o[k] \subseteq Offset \ (P["single"] \cup {h}) BY <1>13, <1>14, <1>17
    <3> QED BY <3>1, <1>16 DEF Same
  <2>2. HeadOK(x.next, u, o, k) /\ First(x.next, u, k) = 0 BY <2>0, <2>1, HeadFrame
  <2>3. Span(x.size, Both(P1)) \cap Span(x.size, o[k]) = {} /\ 0 \notin o[k]
    BY <1>12, <1>13, <1>15, <1>16
  <2>4. w = ChainReturned(x, d, k) BY DEF w
  <2> HIDE DEF k
  <2>5. o[k] \in SUBSET (o[k] \cup r[k]) OBVIOUS
  <2>6. Tidy(m.size, m.file_size, IF k = "single" THEN o[k] ELSE {}, IF k = "multi" THEN o[k] ELSE {})
    BY <2>0, <2>5, <1>3, TidyPart
  <2>7. Tidy(x.size, x.file_size, IF k = "single" THEN o[k] ELSE {}, IF k = "multi" THEN o[k] ELSE {})
    BY <2>6, <1>16 DEF s
  <2>8. \E Q : Gives(x, ChainReturned(x, d, k), P1, Q, k, o[k])
    BY <2>0, <2>2, <2>3, <2>7, <1>3, <1>16, ChainReturns DEF u
  <2>9. \E Q : Gives(x, w, P1, Q, k, o[k]) BY <2>4, <2>8
  <2> QED BY <2>9 DEF k
<1>19. /\ MemOK(w, Q) /\ w.size = s /\ w.file_size = m.file_size /\ w \in MemType
       /\ Span(s, Both(Q)) = F \cup Span(s, M) \cup Span(s, o["multi"])
       /\ Same(x.next, w.next, Offset \ P["multi"])
  BY <1>16, <1>18 DEF Gives, MemOK
<1> HIDE DEF u
<1>20. w.next[h] = 0 BY <1>6, <1>14, <1>16, <1>17, <1>19 DEF Same
<1>21. /\ o1 \in Sets /\ r1 \in Sets /\ o1["single"] = {h} /\ o1["multi"] = {}
       /\ r1["single"] = {} /\ r1["multi"] = {}
  BY <1>6 DEF Sets, Kind
<1> HIDE DEF o1, r1
<1>22. Both(o1) = {h} /\ Whole(o1, r1) = {h} BY <1>21 DEF Whole, Both
<1>23. u.atail = NoLink /\ u.draft = {}
  <2>1. u.draft = Span(s, Draft(u, r)) BY <1>2, <1>3 DEF EntryOK, s
  <2> QED BY <2>1, <1>1, <1>3, <1>5, SpanNone DEF TxnOK
<1>24. \A k \in Kind : ~Active(v, k) BY <1>11, <1>23 DEF Active, NoLink, Kind
<1>25. HeadOK(w.next, v, o1, "single") /\ RestOK(w.next, v, r1, "single")
  <2>1. Seg(w.next, h, h, {h}) BY <1>17, <1>20, SegOne
  <2>2. First(w.next, v, "single") = 0 BY <1>9, <1>11, <1>17, <1>20 DEF First
  <2> QED BY <2>1, <2>2, <1>9, <1>10, <1>11, <1>17, <1>21, <1>24 DEF HeadOK, RestOK, Kind
<1>26. HeadOK(w.next, v, o1, "multi") /\ RestOK(w.next, v, r1, "multi")
  <2>1. First(w.next, v, "multi") = 0 BY <1>9, <1>10, <1>11 DEF First
  <2> QED BY <2>1, <1>9, <1>11, <1>21, <1>24 DEF HeadOK, RestOK, Kind
<1>27. Tidy(w.size, w.file_size, o1["single"] \cup r1["single"], o1["multi"] \cup r1["multi"])
  <2>1. Tidy(s, m.file_size, o["single"] \cup r["single"], o["multi"] \cup r["multi"]) BY <1>3 DEF EntryOK, s
  <2>2. /\ o1["single"] \cup r1["single"] \in SUBSET (o["single"] \cup r["single"])
        /\ o1["multi"] \cup r1["multi"] \in SUBSET (o["multi"] \cup r["multi"])
    BY <1>15, <1>21
  <2>3. Tidy(s, m.file_size, o1["single"] \cup r1["single"], o1["multi"] \cup r1["multi"])
    BY <2>1, <2>2, TidySub
  <2> QED BY <2>3, <1>19
<1>28. EntryOK(w, v, o1, r1)
  <2>1. TxnOK(v) BY <1>11, <1>23 DEF TxnOK, NoLink, Kind
  <2>2. \A k \in Kind : HeadOK(w.next, v, o1, k) /\ RestOK(w.next, v, r1, k) /\ o1[k] \cap r1[k] = {}
    BY <1>21, <1>25, <1>26 DEF Kind
  <2>3. v.tail["single"] # 0 BY <1>9, <1>11, <1>17
  <2>4. v.own = Span(w.size, Both(o1)) BY <1>11, <1>15, <1>19, <1>22
  <2>5. Draft(v, r1) = {} BY <1>21 DEF Draft, Live
  <2>6. v.draft = Span(w.size, Draft(v, r1)) BY <2>5, <1>11, <1>23, SpanNone
  <2> QED BY <2>1, <2>2, <2>3, <2>4, <2>6, <1>21, <1>27 DEF EntryOK
<1>29. DbOK(w, v, o1, r1) BY <1>11, <1>28 DEF DbOK
<1>30. SepOK(w.size, v, o1, r1, Q)
  <2>1. h \notin F /\ h \notin Span(s, o["multi"]) BY <1>12, <1>15
  <2>2. {h} \cap Span(s, Both(Q)) = {} BY <2>1, <1>15, <1>19
  <2>3. Span(w.size, Whole(o1, r1)) \cap Span(w.size, Both(Q)) = {} BY <2>2, <1>15, <1>19, <1>22
  <2> QED BY <2>3, <1>11, SepQuiet
<1>31. Moves(m, w, u, v, o, o1, r, r1, P, Q)
  <2>1. Span(s, Both(Q)) \subseteq F \cup Span(s, Whole(o, r)) BY <1>5, <1>12, <1>15, <1>19
  <2>2. Span(s, Both(Q)) \cup v.own \cup v.draft = F \cup u.own \cup u.draft
    <3>1. u.own = Span(s, Both(o)) BY <1>3 DEF EntryOK, s
    <3>2. u.own = Span(s, M) \cup {h} \cup Span(s, o["multi"]) BY <3>1, <1>12, <1>15
    <3>3. v.own = {h} /\ v.draft = {} /\ u.draft = {} BY <1>11, <1>23
    <3>4. Span(s, Both(Q)) = F \cup Span(s, M) \cup Span(s, o["multi"]) BY <1>19
    <3> QED BY <3>2, <3>3, <3>4
  <2>3. Same(m.next, w.next, Offset \ (Both(P) \cup Whole(o, r)))
    BY <1>5, <1>13, <1>14, <1>15, <1>16, <1>19 DEF Same
  <2>4. Whole(o, r) \subseteq Span(s, Whole(o, r)) /\ Whole(o1, r1) \subseteq Whole(o, r)
    BY <1>5, <1>13, <1>15, <1>22
  <2> QED BY <2>1, <2>2, <2>3, <2>4, <1>4, <1>13, <1>19, <1>29, <1>30, ReturnMoves DEF s, F
<1>32. Mem' = w BY <1>1, <1>19, Stored
<1>33. Moves(Mem, Mem', db[d], v, O[d], o1, R[d], r1, P, Q) BY <1>31, <1>32 DEF u, m, o, r
<1>34. OpenOK(v, TRUE) BY <1>11 DEF OpenOK
<1> QED BY <1>1, <1>2, <1>8, <1>11, <1>33, <1>34, StepOne DEF Now

-----------------------------------------------------------------------------
(* The first state, the end of the process and its restart. *)

(* A new file has no areas and no databases. *)
LEMMA InitInv == Init => Inv
<1> SUFFICES ASSUME Init PROVE Inv OBVIOUS
<1> DEFINE n == [k \in Kind |-> {}]
           O == [d \in DBs |-> n]
<1>1. /\ next = [o \in Offset |-> 0] /\ size = [o \in Offset |-> 0]
      /\ pool = [k \in Kind |-> [head |-> 0, tail |-> 0]] /\ file_size = 1
      /\ db = [d \in DBs |-> NoDatabase] /\ up = TRUE /\ clean_close = FALSE /\ lost = {}
  BY DEF Init
<1>2. Mem \in MemType /\ next[0] = 0
  <2>1. 0 \in Offset /\ 0 \in Nat /\ 1 \in 1 .. MapSize BY Position, AreasAssumption
  <2>2. next \in [Offset -> Offset] /\ size \in [Offset -> Nat] /\ pool \in [Kind -> List]
    BY <1>1, <2>1 DEF List
  <2> QED BY <2>1, <2>2, <1>1 DEF MemType, Mem
<1>3. NoDatabase \in Database /\ ~NoDatabase.entry /\ NoDatabase.own = {} /\ NoDatabase.draft = {}
      /\ NoDatabase.win = "" /\ NoDatabase.txn = "none"
  <2>1. NoLink \in [Kind -> Offset] BY Position DEF NoLink
  <2> QED BY <2>1 DEF NoDatabase, Database
<1>4. n \in Sets /\ Whole(n, n) = {} /\ Both(n) = {} /\ \A k \in Kind : n[k] = {}
  BY DEF Sets, Whole, Both, Kind
<1>5. O \in [DBs -> Sets] /\ \A d \in DBs : O[d] = n BY <1>4
<1>6. db \in [DBs -> Database] /\ \A d \in DBs : db[d] = NoDatabase BY <1>1, <1>3
<1>e. Mem.next = next /\ Mem.pool = pool /\ Mem.file_size = 1 BY <1>1 DEF Mem
<1> HIDE DEF n, O
<1>7. Types BY <1>1, <1>2, <1>6 DEF Types
<1>8. Flags BY <1>1, <1>3, <1>6 DEF Flags, OpenOK
<1>9. AllDbs(Mem, db, O, O)
  <2>1. ASSUME NEW d \in DBs PROVE DbOK(Mem, db[d], O[d], O[d])
    BY <1>3, <1>4, <1>5, <1>6 DEF DbOK, NoEntryOK
  <2>2. ASSUME NEW d \in DBs PROVE Span(Mem.size, Whole(O[d], O[d])) = {}
    BY <1>4, <1>5, SpanNone
  <2> QED BY <2>1, <2>2 DEF AllDbs
<1>10. Clean(Mem, db, O, O, n, lost)
  <2>1. Span(Mem.size, Both(n)) = {} BY <1>4, SpanNone
  <2>2. MemOK(Mem, n)
    <3>1. \A k \in Kind : ListOK(Mem.next, Mem.pool[k].head, Mem.pool[k].tail, n[k])
      BY <1>1, <1>4, <1>e DEF ListOK
    <3>2. n["single"] = {} /\ n["multi"] = {} BY <1>4 DEF Kind
    <3>3. Tidy(Mem.size, Mem.file_size, n["single"], n["multi"])
      BY <3>2 DEF Tidy, Apart, Fit
    <3> QED BY <3>1, <3>3, <1>2, <1>4, <1>e DEF MemOK
  <2>3. ASSUME NEW d \in DBs PROVE SepOK(Mem.size, db[d], O[d], O[d], n)
    BY <2>1, <1>3, <1>6, SepQuiet
  <2>4. Uses(db) = {}
    <3>1. \A d \in DBs : db[d].own = {} /\ db[d].draft = {} BY <1>6, <1>3
    <3>2. ASSUME NEW x PROVE x \notin Uses(db) BY <3>1, UsesIn DEF Uses
    <3> QED BY <3>2
  <2>5. 1 .. Mem.file_size - 1 = {} BY <1>e
  <2> QED BY <2>1, <2>2, <2>3, <2>4, <2>5, <1>1 DEF Clean
<1> QED BY <1>4, <1>5, <1>7, <1>8, <1>9, <1>10 DEF Inv, Struct

(* What is known of a database does not depend on whether it is sanitized. *)
LEMMA DbAlike ==
    ASSUME NEW m, NEW u, NEW v, NEW o, NEW r, DbOK(m, u, o, r), v.entry = u.entry,
           v.head = u.head, v.tail = u.tail, v.atail = u.atail, v.txn = u.txn, v.win = u.win,
           v.own = u.own, v.draft = u.draft
    PROVE  DbOK(m, v, o, r) /\ \A sz, P : SepOK(sz, u, o, r, P) => SepOK(sz, v, o, r, P)
<1>1. \A k : Active(v, k) = Active(u, k) BY DEF Active
<1>2. \A k : First(m.next, v, k) = First(m.next, u, k) BY DEF First
<1>3. \A k : HeadOK(m.next, u, o, k) => HeadOK(m.next, v, o, k) BY DEF HeadOK
<1>4. \A k : RestOK(m.next, u, r, k) => RestOK(m.next, v, r, k) BY <1>1, <1>2 DEF RestOK
<1>5. Draft(v, r) = Draft(u, r) BY <1>1 DEF Draft, Live
<1>6. TxnOK(u) => TxnOK(v) BY DEF TxnOK
<1>7. EntryOK(m, u, o, r) => EntryOK(m, v, o, r) BY <1>3, <1>4, <1>5, <1>6 DEF EntryOK
<1>8. NoEntryOK(u, o, r) => NoEntryOK(v, o, r) BY DEF NoEntryOK
<1>9. \A sz, P : SepOK(sz, u, o, r, P) => SepOK(sz, v, o, r, P) BY <1>1 DEF SepOK
<1> QED BY <1>7, <1>8, <1>9 DEF DbOK

(* A crash: a transaction that is not prepared is forgotten, its areas stay *)
(* linked.                                                                  *)
LEMMA DbCrash ==
    ASSUME NEW m, NEW u, NEW v, NEW o, NEW r, DbOK(m, u, o, r), v.entry = u.entry,
           v.head = u.head, v.tail = u.tail, v.atail = NoLink, v.txn = u.txn, v.win = "",
           v.own = u.own, v.draft = {}, u.txn # "prepared"
    PROVE  DbOK(m, v, o, r)
<1>0. NoLink["single"] = 0 BY DEF NoLink, Kind
<1>1. \A k : ~Active(v, k) BY <1>0 DEF Active
<1>2. \A k : First(m.next, v, k) = First(m.next, u, k) BY DEF First
<1>3. \A k : HeadOK(m.next, u, o, k) => HeadOK(m.next, v, o, k) BY DEF HeadOK
<1>4. ASSUME NEW k, RestOK(m.next, u, r, k) PROVE RestOK(m.next, v, r, k)
  <2>1. CASE First(m.next, u, k) = 0 BY <2>1, <1>4, <1>1, <1>2 DEF RestOK
  <2>2. CASE First(m.next, u, k) # 0
    <3>1. PICK e \in r[k] : Seg(m.next, First(m.next, u, k), e, r[k]) /\ m.next[e] = 0
      BY <2>2, <1>4 DEF RestOK
    <3>2. ~Active(v, k) /\ First(m.next, v, k) = First(m.next, u, k) BY <1>1, <1>2
    <3> QED BY <3>1, <3>2, <2>2 DEF RestOK
  <2> QED BY <2>1, <2>2
<1>5. Draft(v, r) = {} BY <1>1 DEF Draft, Live
<1>6. Span(m.size, Draft(v, r)) = {} BY <1>5, SpanNone
<1>7. TxnOK(v) BY <1>0 DEF TxnOK
<1>8. EntryOK(m, u, o, r) => EntryOK(m, v, o, r) BY <1>3, <1>4, <1>6, <1>7 DEF EntryOK
<1>9. NoEntryOK(u, o, r) => NoEntryOK(v, o, r) BY DEF NoEntryOK
<1> QED BY <1>8, <1>9 DEF DbOK

(* The destructor. *)
LEMMA StepClose == ASSUME NEW O, NEW R, NEW P, Now(O, R, P), Close PROVE Inv'
<1>1. /\ FileLock /\ (\A d \in DBs : db[d].txn # "open") /\ up' = FALSE /\ clean_close' = TRUE
      /\ Mem' = Mem /\ next' = next /\ db' = db /\ lost' = lost
  BY DEF Close, Mem
<1>2. Types' BY <1>1 DEF Now, Types
<1>3. Flags' BY <1>1 DEF Now, Flags, OpenOK, FileLock
<1>4. Struct(O, R, P)'
  <2>1. AllDbs(Mem', db', O, R) /\ Clean(Mem', db', O, R, P, lost') BY <1>1 DEF Now
  <2> QED BY <2>1 DEF Struct
<1>5. O \in [DBs -> Sets] /\ R \in [DBs -> Sets] /\ P \in Sets BY DEF Now
<1> QED BY <1>2, <1>3, <1>4, <1>5 DEF Inv

(* A crash. *)
LEMMA StepKill == ASSUME NoCases, NEW O, NEW R, NEW P, Now(O, R, P), Kill PROVE Inv'
<1> DEFINE v(d) == IF db[d].txn = "open"
                   THEN [db[d] EXCEPT !.win = "", !.draft = {}, !.atail = NoLink]
                   ELSE [db[d] EXCEPT !.win = ""]
<1>1. /\ \A d \in DBs : db[d].txn = "prepared" => db[d].win = ""
      /\ up' = FALSE /\ clean_close' = clean_close
      /\ Mem' = Mem /\ next' = next /\ db' = [d \in DBs |-> v(d)]
  BY DEF Kill, Mem, NoCases
<1>2. db \in [DBs -> Database] /\ up = TRUE /\ clean_close = FALSE BY DEF Now, Types, Flags
<1>3. ASSUME NEW d \in DBs
      PROVE  v(d) \in Database /\ v(d).win = "" /\ OpenOK(v(d), FALSE) /\ DbOK(Mem, v(d), O[d], R[d])
  <2> DEFINE u == db[d]
             w == v(d)
  <2>1. u \in Database /\ DbOK(Mem, u, O[d], R[d]) BY <1>2 DEF Now, AllDbs
  <2>2. NoLink \in [Kind -> Offset] BY Position DEF NoLink
  <2>3. /\ w \in Database /\ w.win = "" /\ w.entry = u.entry /\ w.head = u.head /\ w.tail = u.tail
        /\ w.txn = u.txn /\ w.own = u.own
        /\ u.txn = "open" => w.draft = {} /\ w.atail = NoLink
        /\ u.txn # "open" => w.draft = u.draft /\ w.atail = u.atail
    BY <2>1, <2>2 DEF Database
  <2>4. u.txn \in {"none", "open", "prepared"} /\ (u.txn = "prepared" => u.win = "") BY <2>1, <1>1 DEF Database
  <2>n. NoLink["single"] = 0 BY DEF NoLink, Kind
  <2> HIDE DEF u, w
  <2>5. OpenOK(w, FALSE) BY <2>3 DEF OpenOK
  <2>6. u.txn = "open" => DbOK(Mem, w, O[d], R[d]) BY <2>1, <2>3, DbCrash
  <2>7. u.txn = "prepared" => DbOK(Mem, w, O[d], R[d]) BY <2>1, <2>3, <2>4, DbAlike
  <2>8. ASSUME u.txn = "none", u.entry PROVE DbOK(Mem, w, O[d], R[d])
    <3>1. EntryOK(Mem, u, O[d], R[d]) BY <2>1, <2>8 DEF DbOK
    <3>2. u.atail = NoLink /\ u.win # "multi" BY <3>1, <2>8, <2>n DEF EntryOK, TxnOK
    <3>3. Draft(u, R[d]) = {} BY <3>2, <2>n DEF Draft, Live, Active
    <3>4. u.draft = {} BY <3>1, <3>2, <3>3, SpanNone DEF EntryOK
    <3> QED BY <2>1, <2>3, <2>8, <3>2, <3>4, DbCrash
  <2>9. ASSUME ~u.entry PROVE DbOK(Mem, w, O[d], R[d])
    <3>1. NoEntryOK(u, O[d], R[d]) BY <2>1, <2>9 DEF DbOK
    <3>2. NoEntryOK(w, O[d], R[d]) BY <3>1, <2>3, <2>4 DEF NoEntryOK
    <3> QED BY <3>2, <2>9, <2>3 DEF DbOK
  <2>10. DbOK(Mem, w, O[d], R[d]) BY <2>4, <2>6, <2>7, <2>8, <2>9
  <2> QED BY <2>3, <2>5, <2>10 DEF w
<1>4. db' \in [DBs -> Database] /\ \A d \in DBs : db'[d] = v(d) BY <1>1, <1>3
<1> HIDE DEF v
<1>5. AllDbs(Mem', db', O, R) BY <1>1, <1>3, <1>4 DEF Now, AllDbs
<1>6. Struct(O, R, P)' BY <1>1, <1>2, <1>5 DEF Struct
<1>7. Types' BY <1>1, <1>2, <1>4 DEF Now, Types
<1>8. Flags' BY <1>1, <1>2, <1>3, <1>4 DEF Flags
<1>9. O \in [DBs -> Sets] /\ R \in [DBs -> Sets] /\ P \in Sets BY DEF Now
<1> QED BY <1>6, <1>7, <1>8, <1>9 DEF Inv

-----------------------------------------------------------------------------
(* recover_areas() *)

(* The largest of a set of numbers with a bound. *)
LEMMA MaxOf == ASSUME NEW f \in Nat, NEW S \in SUBSET (0 .. f), S # {} PROVE
    Max(S) \in S /\ \A y \in S : y <= Max(S)
<1> DEFINE T == {j \in Nat : j <= f /\ f - j \in S}
<1>1. T \in SUBSET Nat /\ T # {}
  <2>1. PICK y \in S : TRUE OBVIOUS
  <2>2. y \in 0 .. f OBVIOUS
  <2>3. f - y \in Nat /\ f - y <= f /\ f - (f - y) = y BY <2>2
  <2>4. f - y \in T BY <2>3, <2>1
  <2> QED BY <2>4
<1>2. \A j : j \in T <=> j \in Nat /\ j <= f /\ f - j \in S OBVIOUS
<1> HIDE DEF T
<1>3. PICK j \in T : \A y \in T : j <= y BY <1>1, LeastOf
<1>4. f - j \in S BY <1>2
<1>5. ASSUME NEW y \in S PROVE f - j >= y
  <2>1. y \in 0 .. f OBVIOUS
  <2>2. f - y \in Nat /\ f - y <= f /\ f - (f - y) = y BY <2>1
  <2>3. f - y \in T BY <2>2, <1>2
  <2>4. j <= f - y /\ j \in Nat BY <2>3, <1>3, <1>2
  <2> QED BY <2>1, <2>4
<1>6. \E x \in S : \A y \in S : x >= y BY <1>4, <1>5
<1>7. Max(S) \in S /\ \A y \in S : Max(S) >= y BY <1>6 DEF Max
<1>8. \A y \in S : y \in Nat OBVIOUS
<1> QED BY <1>7, <1>8

(* Areas linked in the order of their positions are a list. *)
Later(N, o) == {x \in N : x > o}
Ascending(nx, N) == \A o \in N : nx[o] = IF Later(N, o) = {} THEN 0 ELSE Min(Later(N, o))

(* A link leads to the next position. *)
LEMMA NextOf ==
    ASSUME NEW f \in Nat, NEW N \in SUBSET (1 .. f), NEW nx, Ascending(nx, N), NEW o \in N,
           NEW t \in N, o < t
    PROVE  nx[o] \in N /\ o < nx[o] /\ \A y \in N : o < y => nx[o] <= y
<1> DEFINE L == Later(N, o)
<1>1. \A x : x \in L <=> x \in N /\ x > o BY DEF Later
<1>n. \A x \in N : x \in Nat OBVIOUS
<1>2. o \in Nat /\ t \in Nat /\ L \in SUBSET Nat BY <1>n DEF Later
<1>3. t \in L BY <1>1, <1>2
<1>4. nx[o] = Min(L) BY <1>3 DEF Ascending
<1> HIDE DEF L
<1>5. Min(L) \in L /\ \A y \in L : Min(L) <= y BY <1>2, <1>3, MinOf
<1>6. \A y \in N : y \in Nat OBVIOUS
<1> QED BY <1>1, <1>4, <1>5, <1>6, <1>2

(* The first, the last and the links between them. *)
LEMMA SortedList ==
    ASSUME NEW f \in Nat, NEW N \in SUBSET (1 .. f), NEW nx, Ascending(nx, N), N # {}
    PROVE  ListOK(nx, Min(N), Max(N), N)
<1> DEFINE h == Min(N)
           t == Max(N)
<1>0. \A y \in N : y \in Nat /\ y # 0 OBVIOUS
<1>1. h \in N /\ \A y \in N : h <= y
  <2>1. N \in SUBSET Nat BY <1>0
  <2> QED BY <2>1, MinOf
<1>2. t \in N /\ \A y \in N : y <= t
  <2>1. N \in SUBSET (0 .. f) OBVIOUS
  <2> QED BY <2>1, MaxOf
<1> HIDE DEF h, t
<1>3. nx[t] = 0
  <2>1. ASSUME NEW x \in N PROVE ~(x > t)
    <3>1. x \in Nat /\ t \in Nat /\ x <= t BY <1>0, <1>2
    <3> QED BY <3>1
  <2>2. Later(N, t) = {} BY <2>1 DEF Later
  <2> QED BY <2>2, <1>2 DEF Ascending
<1>4. ASSUME NEW a \in N \ {t} PROVE nx[a] \in N /\ a < nx[a] /\ \A y \in N : a < y => nx[a] <= y
  <2>1. a < t BY <1>0, <1>2
  <2> QED BY <2>1, <1>2, NextOf
<1>5. \A a \in N \ {t} : nx[a] \in N \ {h}
  <2> TAKE a \in N \ {t}
  <2>1. nx[a] \in N /\ a < nx[a] /\ h <= a BY <1>1, <1>4
  <2> QED BY <2>1, <1>0, <1>1
<1>6. ASSUME NEW a \in N \ {t}, NEW b \in N \ {t}, nx[a] = nx[b] PROVE a = b
  <2>1. nx[a] \in N /\ a < nx[a] /\ (a < b => nx[a] <= b) BY <1>4
  <2>2. nx[b] \in N /\ b < nx[b] /\ (b < a => nx[b] <= a) BY <1>4
  <2>3. a \in Nat /\ b \in Nat /\ nx[a] \in Nat BY <1>0, <2>1
  <2> QED BY <2>1, <2>2, <2>3, <1>6
<1>7. ASSUME NEW S \in SUBSET N, h \in S, Closed(nx, t, S) PROVE S = N
  <2> SUFFICES ASSUME N \ S # {} PROVE FALSE OBVIOUS
  <2>1. N \ S \in SUBSET Nat BY <1>0
  <2>2. PICK c \in N \ S : \A y \in N \ S : c <= y BY <2>1, LeastOf
  <2> DEFINE B == {x \in N : x < c}
  <2>3. h < c BY <1>1, <1>7, <1>0, <2>2
  <2>4. B \in SUBSET (0 .. f) /\ h \in B
    <3>1. N \subseteq 0 .. f OBVIOUS
    <3> QED BY <3>1, <2>3, <1>1
  <2>5. \A x : x \in B <=> x \in N /\ x < c OBVIOUS
  <2> DEFINE p == Max(B)
  <2> HIDE DEF B
  <2>6. p \in B /\ \A y \in B : y <= p BY <2>4, MaxOf
  <2> HIDE DEF p
  <2>7. p \in N /\ p < c /\ p \in Nat /\ c \in Nat BY <2>5, <2>6, <1>0, <2>2
  <2>8. p \in S BY <2>7, <2>2
  <2>9. p # t BY <2>7, <1>2, <1>0, <2>2
  <2>10. nx[p] \in N /\ p < nx[p] /\ nx[p] <= c BY <1>4, <2>7, <2>9, <2>2
  <2>11. nx[p] \notin B
    <3>1. nx[p] \in Nat BY <2>10, <1>0
    <3> QED BY <3>1, <2>10, <2>6, <2>7
  <2>12. nx[p] = c
    <3>1. nx[p] \in Nat BY <2>10, <1>0
    <3>2. ~(nx[p] < c) BY <2>5, <2>10, <2>11
    <3> QED BY <3>1, <3>2, <2>10, <2>7
  <2>13. nx[p] \in S BY <2>8, <2>9, <1>7 DEF Closed
  <2> QED BY <2>12, <2>13
<1>8. nx[t] \notin N BY <1>3, <1>0
<1>9. Seg(nx, h, t, N) BY <1>1, <1>2, <1>5, <1>6, <1>7, <1>8 DEF Seg
<1>10. h # 0 BY <1>0, <1>1
<1> QED BY <1>3, <1>9, <1>10 DEF ListOK, h, t

(* n is the length of the run of free positions from o on. *)
RunOf(F, o, n) == n \in Nat \ {0} /\ o .. o + n - 1 \subseteq F /\ o + n \notin F
Begins(F) == {o \in F : o - 1 \notin F}
Runned(F, sz, N) == N \subseteq Begins(F) /\ \A o \in N : RunOf(F, o, sz[o])

(* Runs lie in the file and do not overlap. *)
LEMMA RunsTidy ==
    ASSUME NEW f \in Nat, NEW F \in SUBSET (1 .. f - 1), NEW sz, NEW S, NEW M,
           Runned(F, sz, S \cup M), S \cap M = {}, \A a \in S : sz[a] = 1
    PROVE  Tidy(sz, f, S, M)
<1>1. ASSUME NEW o \in S \cup M
      PROVE  /\ o \in F /\ o - 1 \notin F /\ o \in Nat
             /\ sz[o] \in Nat \ {0} /\ o .. o + sz[o] - 1 \subseteq F
  <2>1. o \in F /\ o - 1 \notin F BY DEF Runned, Begins
  <2>2. RunOf(F, o, sz[o]) BY DEF Runned
  <2> QED BY <2>1, <2>2 DEF RunOf
<1>2. Fit(sz, f, S \cup M)
  <2> SUFFICES ASSUME NEW a \in S \cup M
               PROVE  a \in 1 .. f - 1 /\ sz[a] \in Nat \ {0} /\ a + sz[a] <= f BY DEF Fit
  <2>1. a \in Nat /\ a \in 1 .. f - 1 /\ sz[a] \in Nat \ {0} /\ a .. a + sz[a] - 1 \subseteq F BY <1>1
  <2>2. a + sz[a] - 1 \in a .. a + sz[a] - 1 BY <2>1
  <2>3. a + sz[a] - 1 \in 1 .. f - 1 BY <2>1, <2>2
  <2> QED BY <2>1, <2>3
<1>3. ASSUME NEW a \in S \cup M, NEW b \in S \cup M, a < b PROVE Of(sz, a) \cap Of(sz, b) = {}
  <2> SUFFICES ASSUME NEW x \in Of(sz, a), x \in Of(sz, b) PROVE FALSE OBVIOUS
  <2>1. a \in Nat /\ sz[a] \in Nat /\ a .. a + sz[a] - 1 \subseteq F BY <1>1
  <2>2. b \in Nat /\ sz[b] \in Nat /\ b - 1 \notin F BY <1>1
  <2>3. x \in a .. a + sz[a] - 1 /\ x \in b .. b + sz[b] - 1 BY DEF Of
  <2>4. b - 1 \in a .. a + sz[a] - 1 BY <1>3, <2>1, <2>2, <2>3
  <2> QED BY <2>1, <2>2, <2>4
<1>4. Apart(sz, S \cup M)
  <2> SUFFICES ASSUME NEW a \in S \cup M, NEW b \in S \cup M, a # b
               PROVE  Of(sz, a) \cap Of(sz, b) = {} BY DEF Apart
  <2>1. a \in Nat /\ b \in Nat BY <1>1
  <2>2. CASE a < b BY <2>2, <1>3
  <2>3. CASE b < a BY <2>3, <1>3
  <2> QED BY <2>1, <2>2, <2>3
<1> QED BY <1>2, <1>4 DEF Tidy

(* All runs together are all free positions. *)
LEMMA RunsSpan ==
    ASSUME NEW f \in Nat, NEW F \in SUBSET (1 .. f - 1), NEW sz, NEW N, Runned(F, sz, N), N = Begins(F)
    PROVE  Span(sz, N) = F
<1>1. ASSUME NEW x \in Span(sz, N) PROVE x \in F
  <2>1. PICK a \in N : x \in Of(sz, a) BY SpanIn
  <2>2. a .. a + sz[a] - 1 \subseteq F BY DEF Runned, RunOf
  <2> QED BY <2>1, <2>2 DEF Of
<1>2. ASSUME NEW x \in F PROVE x \in Span(sz, N)
  <2> DEFINE T == {j \in Nat : j <= x /\ j .. x \subseteq F}
  <2>0. x \in Nat OBVIOUS
  <2>1. x \in T /\ T \in SUBSET Nat
    <3>1. x .. x \subseteq F BY <2>0
    <3> QED BY <2>0, <3>1
  <2>2. \A j : j \in T <=> j \in Nat /\ j <= x /\ j .. x \subseteq F OBVIOUS
  <2> HIDE DEF T
  <2>3. PICK o \in T : \A y \in T : o <= y BY <2>1, LeastOf
  <2>4. o \in Nat /\ o <= x /\ o .. x \subseteq F BY <2>2
  <2>5. o \in F /\ o # 0 /\ o \in o .. x BY <2>0, <2>4
  <2>6. o - 1 \notin F
    <3> SUFFICES ASSUME o - 1 \in F PROVE FALSE OBVIOUS
    <3>1. o - 1 \in Nat /\ o - 1 <= x BY <2>0, <2>4, <2>5
    <3>2. (o - 1) .. x \subseteq F
      <4> SUFFICES ASSUME NEW y \in (o - 1) .. x PROVE y \in F OBVIOUS
      <4>1. y = o - 1 \/ y \in o .. x BY <2>0, <2>4
      <4> QED BY <4>1, <2>4
    <3>3. o - 1 \in T BY <3>1, <3>2, <2>2
    <3> QED BY <3>3, <2>3, <2>4
  <2>7. o \in N BY <2>5, <2>6 DEF Begins
  <2>8. sz[o] \in Nat /\ o + sz[o] \notin F BY <2>7 DEF Runned, RunOf
  <2>9. o + sz[o] \notin o .. x BY <2>4, <2>8
  <2>10. x \in o .. o + sz[o] - 1 BY <2>0, <2>4, <2>8, <2>9
  <2> QED BY <2>7, <2>10, SpanIn DEF Of
<1> QED BY <1>1, <1>2

-----------------------------------------------------------------------------
(* What the walks find. *)

(* There is nothing behind the null offset. *)
LEMMA WalkNone == ASSUME NEW nx \in [Offset -> Offset], nx[0] = 0 PROVE Range(Walk(nx, 0, MapSize)) = {}
<1> DEFINE W == Walk(nx, 0, MapSize)
           from == 0
<1>0. MapSize \in Nat /\ from \in Offset BY AreasAssumption, Position
<1>1. Route(nx, from, MapSize, W) BY <1>0, WalkRoute
<1> DEFINE N == {}
<1>2. from \in N \cup {0} /\ \A a \in N : nx[a] \in N \cup {0} OBVIOUS
<1> HIDE DEF W, from, N
<1>n. \A i \in DOMAIN W : W[i] \in N BY <1>0, <1>1, <1>2, RouteStays
<1>3. \A i \in DOMAIN W : W[i] \in {} BY <1>n DEF N
<1>4. Range(W) = {} BY <1>3 DEF Range
<1> QED BY <1>4 DEF W, from

(* The walk through a list of the pool. *)
LEMMA ListWalk ==
    ASSUME NEW nx \in [Offset -> Offset], nx[0] = 0, NEW h \in Offset, NEW t, NEW N \in SUBSET Offset,
           ListOK(nx, h, t, N), 0 \notin N
    PROVE  Range(Walk(nx, h, MapSize)) = N
<1>1. CASE h = 0 BY <1>1, WalkNone DEF ListOK
<1>2. CASE h # 0
  <2>1. Seg(nx, h, t, N) /\ nx[t] = 0 BY <1>2 DEF ListOK
  <2> QED BY <2>1, WalkAll
<1> QED BY <1>1, <1>2

(* A chain of a database and what follows are one list. *)
LEMMA ChainList ==
    ASSUME NEW nx, NEW v, NEW o, NEW r, NEW k, HeadOK(nx, v, o, k), RestOK(nx, v, r, k),
           o[k] \cap r[k] = {}, v.tail[k] = 0 \/ v.head[k] # 0, 0 \notin o[k]
    PROVE  \E t : ListOK(nx, v.head[k], t, o[k] \cup r[k])
<1> DEFINE h == v.head[k]
           A == o[k]
           B == r[k]
<1>1. CASE v.tail[k] = 0
  <2>1. A = {} /\ First(nx, v, k) = h BY <1>1 DEF HeadOK, First
  <2>2. CASE h = 0
    <3>1. A \cup B = {} BY <2>1, <2>2 DEF RestOK
    <3>2. ListOK(nx, h, 0, A \cup B) BY <3>1, <2>2 DEF ListOK
    <3> QED BY <3>2
  <2>3. CASE h # 0
    <3>1. PICK e \in B : Seg(nx, h, e, B) /\ nx[e] = 0 BY <2>1, <2>3 DEF RestOK
    <3>2. A \cup B = B BY <2>1
    <3>3. ListOK(nx, h, e, A \cup B) BY <3>1, <3>2, <2>3 DEF ListOK
    <3> QED BY <3>3
  <2> QED BY <2>2, <2>3
<1>2. CASE v.tail[k] # 0
  <2> DEFINE c == v.tail[k]
  <2>1. Seg(nx, h, c, A) /\ First(nx, v, k) = nx[c] /\ h # 0 BY <1>2 DEF HeadOK, First
  <2>2. CASE nx[c] = 0
    <3>1. A \cup B = A BY <2>1, <2>2 DEF RestOK
    <3>2. ListOK(nx, h, c, A \cup B) BY <3>1, <2>1, <2>2 DEF ListOK
    <3> QED BY <3>2
  <2>3. CASE nx[c] # 0
    <3>1. PICK e \in B : Seg(nx, nx[c], e, B) /\ nx[e] = 0 BY <2>1, <2>3 DEF RestOK
    <3>2. A \cap B = {} /\ nx[e] \notin A BY <3>1
    <3> HIDE DEF A, B, c, h
    <3>3. Seg(nx, h, e, A \cup B) BY <2>1, <3>1, <3>2, SegJoin
    <3>4. ListOK(nx, h, e, A \cup B) BY <3>1, <3>3, <2>1 DEF ListOK
    <3> QED BY <3>4 DEF A, B, h
  <2> QED BY <2>2, <2>3
<1> QED BY <1>1, <1>2

(* The walk through a chain of a database. *)
LEMMA ChainWalk ==
    ASSUME NEW m \in MemType, m.next[0] = 0, NEW v \in Database, NEW o, NEW r, EntryOK(m, v, o, r),
           DbOK(m, v, o, r), NEW k \in Kind
    PROVE  Range(Walk(m.next, v.head[k], MapSize)) = o[k] \cup r[k]
<1>1. /\ HeadOK(m.next, v, o, k) /\ RestOK(m.next, v, r, k) /\ o[k] \cap r[k] = {} BY DEF EntryOK
<1>2. 0 \notin o[k] /\ 0 \notin r[k] /\ o[k] \cup r[k] \in SUBSET Offset
  <2>1. /\ 0 \notin Whole(o, r) /\ Whole(o, r) \subseteq Offset
        /\ o[k] \subseteq Whole(o, r) /\ r[k] \subseteq Whole(o, r)
    BY EntryNodes
  <2> QED BY <2>1
<1>3. v.tail[k] # 0 => v.head[k] \in o[k] BY <1>1 DEF HeadOK, Seg
<1>4. PICK t : ListOK(m.next, v.head[k], t, o[k] \cup r[k]) BY <1>1, <1>2, <1>3, ChainList
<1>5. m.next \in [Offset -> Offset] /\ v.head[k] \in Offset BY DEF MemType, Database
<1> DEFINE h == v.head[k]
           N == o[k] \cup r[k]
<1>6. h \in Offset /\ N \in SUBSET Offset /\ ListOK(m.next, h, t, N) /\ 0 \notin N BY <1>2, <1>4, <1>5
<1> HIDE DEF h, N
<1>7. Range(Walk(m.next, h, MapSize)) = N BY <1>5, <1>6, ListWalk
<1> QED BY <1>7 DEF h, N

(* The blocks a walk comes by. *)
LEMMA SpannedIs == ASSUME NEW h PROVE Spanned(h) = Span(size, Range(Walk(next, h, MapSize)))
<1>1. \A a : Blocks(Mem, a) = Of(size, a) BY DEF Blocks, Of, Mem
<1> QED BY <1>1 DEF Spanned, Span

(* The header page of every database leads to all its blocks, and to nothing else. *)
LEMMA OccupiedIs ==
    ASSUME Types, NEW O, NEW R, AllDbs(Mem, db, O, R), NEW x
    PROVE  x \in Occupied <=> \E d \in DBs : x \in Span(Mem.size, Whole(O[d], R[d]))
<1>0. Mem.size = size /\ Mem.next = next /\ Mem \in MemType /\ Mem.next[0] = 0 /\ db \in [DBs -> Database]
  BY DEF Types, Mem
<1>1. ASSUME NEW d \in DBs, db[d].entry, NEW k \in Kind
      PROVE  Spanned(db[d].head[k]) = Span(size, O[d][k] \cup R[d][k])
  <2>1. DbOK(Mem, db[d], O[d], R[d]) /\ db[d] \in Database BY <1>0 DEF AllDbs
  <2>2. EntryOK(Mem, db[d], O[d], R[d]) BY <2>1, <1>1 DEF DbOK
  <2>3. Range(Walk(Mem.next, db[d].head[k], MapSize)) = O[d][k] \cup R[d][k]
    BY <1>0, <2>1, <2>2, ChainWalk
  <2> QED BY <2>3, <1>0, SpannedIs
<1>2. ASSUME NEW d \in DBs, db[d].entry
      PROVE  x \in Span(size, Whole(O[d], R[d])) <=> \E k \in Kind : x \in Spanned(db[d].head[k])
  <2>1. Span(size, O[d]["single"] \cup R[d]["single"]) = Spanned(db[d].head["single"]) BY <1>1, <1>2 DEF Kind
  <2>2. Span(size, O[d]["multi"] \cup R[d]["multi"]) = Spanned(db[d].head["multi"]) BY <1>1, <1>2 DEF Kind
  <2>3. Whole(O[d], R[d]) = (O[d]["single"] \cup R[d]["single"]) \cup (O[d]["multi"] \cup R[d]["multi"])
    BY DEF Whole, Both
  <2>4. Span(size, Whole(O[d], R[d])) = Spanned(db[d].head["single"]) \cup Spanned(db[d].head["multi"])
    BY <2>1, <2>2, <2>3, SpanUnion
  <2> QED BY <2>4 DEF Kind
<1>3. ASSUME NEW d \in DBs, ~db[d].entry PROVE x \notin Span(size, Whole(O[d], R[d]))
  <2>1. DbOK(Mem, db[d], O[d], R[d]) BY DEF AllDbs
  <2>2. Whole(O[d], R[d]) = {} BY <2>1, <1>3 DEF DbOK, NoEntryOK
  <2> QED BY <2>2, SpanNone
<1>4. x \in Occupied <=> \E d \in {e \in DBs : db[e].entry}, k \in Kind : x \in Spanned(db[d].head[k])
  BY DEF Occupied
<1>5. x \in Occupied <=> \E d \in DBs : db[d].entry /\ \E k \in Kind : x \in Spanned(db[d].head[k])
  BY <1>4
<1>6. x \in Occupied <=> \E d \in DBs : db[d].entry /\ x \in Span(size, Whole(O[d], R[d])) BY <1>5, <1>2
<1>7. x \in Occupied <=> \E d \in DBs : x \in Span(size, Whole(O[d], R[d])) BY <1>6, <1>3
<1> QED BY <1>7, <1>0

(* What a database that is not returning areas uses is in its chains. *)
LEMMA DbUses ==
    ASSUME NEW m \in MemType, NEW v, NEW o, NEW r, DbOK(m, v, o, r), v.win = ""
    PROVE  v.own \cup v.draft \subseteq Span(m.size, Whole(o, r))
<1>1. CASE ~v.entry BY <1>1 DEF DbOK, NoEntryOK
<1>2. CASE v.entry
  <2>1. v.own = Span(m.size, Both(o)) /\ v.draft = Span(m.size, Draft(v, r)) BY <1>2 DEF DbOK, EntryOK
  <2>2. Both(o) \subseteq Whole(o, r) /\ Draft(v, r) \subseteq Whole(o, r) BY DEF Whole, Both, Draft, Live
  <2>3. Span(m.size, Both(o)) \subseteq Span(m.size, Whole(o, r)) BY ONLY <2>2, SpanSub
  <2>4. Span(m.size, Draft(v, r)) \subseteq Span(m.size, Whole(o, r)) BY ONLY <2>2, SpanSub
  <2> QED BY <2>1, <2>3, <2>4
<1> QED BY <1>1, <1>2

(* recover_areas() finds everything in use, if it is not called in the      *)
(* middle of a return, and only what is in the file.                        *)
LEMMA OccupiedCovers ==
    ASSUME Types, NEW O, NEW R, AllDbs(Mem, db, O, R), FileLock
    PROVE  Uses(db) \subseteq Occupied /\ Kept \subseteq Uses(db) /\ Occupied \subseteq 1 .. Mem.file_size - 1
<1>0. Mem \in MemType BY DEF Types
<1>1. ASSUME NEW x \in Uses(db) PROVE x \in Occupied
  <2>1. PICK d \in DBs : x \in db[d].own \/ x \in db[d].draft BY UsesIn DEF Uses
  <2>2. DbOK(Mem, db[d], O[d], R[d]) /\ db[d].win = "" BY DEF AllDbs, FileLock
  <2>3. x \in Span(Mem.size, Whole(O[d], R[d])) BY <1>0, <2>1, <2>2, DbUses
  <2> QED BY <2>3, OccupiedIs
<1>2. ASSUME NEW x \in Kept PROVE x \in Uses(db)
  <2> DEFINE A == UNION {db[d].own : d \in DBs}
             B == UNION {db[d].draft : d \in {e \in DBs : db[e].txn = "prepared"}}
  <2>k. Kept = A \cup B BY Zenon DEF Kept
  <2>b. x \in A => \E d \in DBs : x \in db[d].own OBVIOUS
  <2>c. x \in B => \E d \in DBs : x \in db[d].draft OBVIOUS
  <2> HIDE DEF A, B
  <2>a. x \in A \/ x \in B BY <2>k
  <2>1. \E d \in DBs : x \in db[d].own \/ x \in db[d].draft BY <2>a, <2>b, <2>c
  <2> QED BY <2>1, UsesIn DEF Uses
<1>3. ASSUME NEW x \in Occupied PROVE x \in 1 .. Mem.file_size - 1
  <2>1. PICK d \in DBs : x \in Span(Mem.size, Whole(O[d], R[d])) BY OccupiedIs
  <2>2. DbOK(Mem, db[d], O[d], R[d]) BY DEF AllDbs
  <2>3. Span(Mem.size, Whole(O[d], R[d])) \subseteq 1 .. Mem.file_size - 1 BY <1>0, <2>2, EntryNodes
  <2> QED BY <2>1, <2>3
<1> QED BY <1>1, <1>2, <1>3

(* The length of a run. *)
LEMMA RunLengthRight == ASSUME Types, NEW o \in Free PROVE
    RunOf(Free, o, RunLength(o)) /\ RunLength(o) \in 1 .. MapSize
<1> DEFINE F == Free
           S == {n \in Nat : o + n \notin F}
           f == file_size
<1>0. f \in Nat /\ f <= MapSize /\ MapSize \in Nat
  <2>1. Mem \in MemType /\ Mem.file_size = f BY DEF Types, Mem
  <2> QED BY <2>1, Position, AreasAssumption
<1>1. F \subseteq 1 .. f - 1 BY DEF Free
<1>2. o \in F /\ o \in 1 .. f - 1 BY <1>1
<1>3. RunLength(o) = CHOOSE n \in 1 .. MapSize : o .. o + n - 1 \subseteq F /\ o + n \notin F BY DEF RunLength
<1> HIDE DEF F, f
<1>4. f - o \in Nat /\ o + (f - o) = f /\ f \notin F BY <1>0, <1>1, <1>2
<1>5. f - o \in S /\ S \in SUBSET Nat BY <1>4
<1>6. \A n : n \in S <=> n \in Nat /\ o + n \notin F OBVIOUS
<1> HIDE DEF S
<1>7. PICK n \in S : \A y \in S : n <= y BY <1>5, LeastOf
<1>8. n \in Nat /\ n <= f - o /\ o + n \notin F BY <1>5, <1>6, <1>7
<1>9. n # 0
  <2>1. o + 0 = o BY <1>2
  <2> QED BY <2>1, <1>2, <1>8
<1>10. n \in 1 .. MapSize BY <1>0, <1>2, <1>8, <1>9
<1>11. ASSUME NEW j \in o .. o + n - 1 PROVE j \in F
  <2>1. j - o \in Nat /\ j - o < n /\ o + (j - o) = j BY <1>2, <1>8
  <2>2. j - o \notin S BY <2>1, <1>7, <1>8
  <2> QED BY <2>1, <2>2, <1>6
<1>12. \E i \in 1 .. MapSize : o .. o + i - 1 \subseteq F /\ o + i \notin F BY <1>8, <1>10, <1>11
<1>13. RunLength(o) \in 1 .. MapSize /\ o .. o + RunLength(o) - 1 \subseteq F /\ o + RunLength(o) \notin F
  BY <1>3, <1>12
<1>14. RunLength(o) \in Nat \ {0} BY <1>0, <1>13
<1> QED BY <1>13, <1>14 DEF RunOf, F

-----------------------------------------------------------------------------
(* The new pool. *)
RunSets == [k \in Kind |-> Runs(k)]

(* Every run of free positions is in one of the two lists, by its length. *)
LEMMA RunsAre ==
    ASSUME Types
    PROVE  /\ RunSets \in Sets /\ RunSets["single"] = Runs("single") /\ RunSets["multi"] = Runs("multi")
           /\ Both(RunSets) = Begins(Free) /\ Runs("single") \cap Runs("multi") = {}
           /\ \A o \in Runs("single") : RunLength(o) = 1
           /\ \A o \in Runs("multi") : RunLength(o) # 1
           /\ Free \in SUBSET (1 .. Mem.file_size - 1) /\ Free \subseteq Offset \ {0}
           /\ \A k \in Kind : Runs(k) \subseteq Free
<1>0. Mem \in MemType /\ Mem.file_size = file_size BY DEF Types, Mem
<1>1. Free \in SUBSET (1 .. Mem.file_size - 1) BY <1>0 DEF Free
<1>2. Free \subseteq Offset \ {0} BY <1>0, <1>1, Position
<1>3. \A o : o \in Runs("single") <=> o \in Free /\ o - 1 \notin Free /\ RunLength(o) = 1 BY DEF Runs
<1>4. \A o : o \in Runs("multi") <=> o \in Free /\ o - 1 \notin Free /\ RunLength(o) # 1
  <2>1. "multi" # "single" OBVIOUS
  <2> QED BY <2>1 DEF Runs
<1>5. RunSets["single"] = Runs("single") /\ RunSets["multi"] = Runs("multi") BY DEF RunSets, Kind
<1>6. \A k \in Kind : Runs(k) \subseteq Free BY DEF Runs
<1>7. RunSets \in Sets BY <1>2, <1>6 DEF RunSets, Sets
<1>8. Both(RunSets) = Begins(Free)
  <2>1. ASSUME NEW o PROVE o \in Runs("single") \cup Runs("multi") <=> o \in Begins(Free)
    BY <1>3, <1>4 DEF Begins
  <2> QED BY <2>1, <1>5 DEF Both
<1> QED BY <1>1, <1>2, <1>3, <1>4, <1>5, <1>6, <1>7, <1>8

(* What recover_areas() writes. *)
LEMMA RecoveredIs ==
    ASSUME Types
    PROVE  /\ Recovered \in MemType /\ Recovered.file_size = Mem.file_size
           /\ \A k \in Kind : Ascending(Recovered.next, Runs(k))
           /\ \A o \in Begins(Free) : Recovered.size[o] = RunLength(o)
           /\ Same(Mem.next, Recovered.next, Offset \ Begins(Free))
           /\ Same(Mem.size, Recovered.size, Offset \ Begins(Free))
           /\ \A k \in Kind : Recovered.pool[k] = IF Runs(k) = {} THEN [head |-> 0, tail |-> 0]
                                                  ELSE [head |-> Min(Runs(k)), tail |-> Max(Runs(k))]
<1> DEFINE start == Runs("single") \cup Runs("multi")
           after(k, o) == IF Later(Runs(k), o) = {} THEN 0 ELSE Min(Later(Runs(k), o))
           list(k) == IF Runs(k) = {} THEN [head |-> 0, tail |-> 0]
                      ELSE [head |-> Min(Runs(k)), tail |-> Max(Runs(k))]
           nx == [o \in Offset |-> IF o \notin start THEN next[o]
                                   ELSE IF RunLength(o) = 1 THEN after("single", o) ELSE after("multi", o)]
           sz == [o \in Offset |-> IF o \in start THEN RunLength(o) ELSE size[o]]
           pl == [k \in Kind |-> list(k)]
<1>1. Recovered = [Mem EXCEPT !.next = nx, !.size = sz, !.pool = pl] BY DEF Recovered, Later
<1>2. Mem \in MemType /\ Mem = [next |-> next, size |-> size, pool |-> pool, file_size |-> file_size]
  BY DEF Types, Mem
<1>3. /\ next \in [Offset -> Offset] /\ size \in [Offset -> Nat] /\ file_size \in 1 .. MapSize
  BY <1>2 DEF MemType
<1>4. /\ RunSets["single"] = Runs("single") /\ RunSets["multi"] = Runs("multi")
      /\ Both(RunSets) = Begins(Free)
      /\ \A o \in Runs("single") : RunLength(o) = 1
      /\ \A o \in Runs("multi") : RunLength(o) # 1
      /\ Free \subseteq Offset \ {0}
      /\ \A k \in Kind : Runs(k) \subseteq Free
  BY RunsAre
<1>5. start = Begins(Free) /\ start \subseteq Offset /\ start \subseteq Free
  BY <1>4 DEF Both, Begins
<1>n. 0 \in Offset /\ Offset \subseteq Nat BY Position, AreasAssumption DEF Offset
<1>6. ASSUME NEW k \in Kind PROVE \A o : after(k, o) \in Offset
  <2> TAKE o
  <2>1. Later(Runs(k), o) \subseteq Offset BY <1>4 DEF Later
  <2>2. Later(Runs(k), o) # {} => Min(Later(Runs(k), o)) \in Later(Runs(k), o)
    <3>1. Later(Runs(k), o) \in SUBSET Nat BY <2>1, <1>n
    <3> QED BY <3>1, MinOf
  <2> QED BY <2>1, <2>2, <1>n
<1>7. ASSUME NEW k \in Kind PROVE list(k) \in List
  <2>1. CASE Runs(k) = {} BY <2>1, <1>n DEF List
  <2>2. CASE Runs(k) # {}
    <3>1. Runs(k) \subseteq Offset BY <1>4
    <3>2. Runs(k) \in SUBSET Nat BY <3>1, <1>n
    <3>3. Min(Runs(k)) \in Runs(k) BY <3>2, <2>2, MinOf
    <3>4. MapSize \in Nat /\ Runs(k) \in SUBSET (0 .. MapSize)
      <4>1. MapSize \in Nat /\ Offset \subseteq 0 .. MapSize BY AreasAssumption DEF Offset
      <4> QED BY <4>1, <3>1
    <3>5. Max(Runs(k)) \in Runs(k) BY <3>4, <2>2, MaxOf
    <3> QED BY <3>1, <3>3, <3>5, <2>2 DEF List
  <2> QED BY <2>1, <2>2
<1>8. "single" \in Kind /\ "multi" \in Kind BY DEF Kind
<1>9. \A o \in start : RunLength(o) \in Nat
  <2>1. \A o \in Free : RunLength(o) \in Nat BY RunLengthRight DEF RunOf
  <2> QED BY <2>1, <1>5
<1> HIDE DEF after, list
<1>10. nx \in [Offset -> Offset]
  <2>1. ASSUME NEW o \in Offset
        PROVE  (IF o \notin start THEN next[o]
                ELSE IF RunLength(o) = 1 THEN after("single", o) ELSE after("multi", o)) \in Offset
    <3>1. next[o] \in Offset /\ after("single", o) \in Offset /\ after("multi", o) \in Offset
      BY <1>3, <1>6, <1>8
    <3> QED BY <3>1
  <2> QED BY <2>1
<1>11. sz \in [Offset -> Nat] BY <1>3, <1>9
<1>12. pl \in [Kind -> List] BY <1>7
<1>13. /\ \A o \in Offset \ start : nx[o] = next[o] /\ sz[o] = size[o]
       /\ \A o \in start : sz[o] = RunLength(o)
       /\ \A k \in Kind : pl[k] = list(k)
  BY <1>5
<1>14. ASSUME NEW k \in Kind, NEW o \in Runs(k) PROVE nx[o] = after(k, o)
  <2>1. CASE k = "single"
    <3>1. o \in start /\ RunLength(o) = 1 /\ o \in Offset BY <2>1, <1>4, <1>5, <1>14
    <3> QED BY <3>1, <2>1
  <2>2. CASE k = "multi"
    <3>1. o \in start /\ RunLength(o) # 1 /\ o \in Offset BY <2>2, <1>4, <1>5, <1>14
    <3> QED BY <3>1, <2>2
  <2> QED BY <2>1, <2>2 DEF Kind
<1> HIDE DEF nx, sz, pl, start
<1>15. Recovered = [next |-> nx, size |-> sz, pool |-> pl, file_size |-> file_size] BY <1>1, <1>2
<1>16. /\ Recovered.next = nx /\ Recovered.size = sz /\ Recovered.pool = pl
       /\ Recovered.file_size = file_size /\ Mem.file_size = file_size
       /\ Mem.next = next /\ Mem.size = size
  BY <1>15, <1>2
<1>17. Recovered \in MemType BY <1>15, <1>10, <1>11, <1>12, <1>3 DEF MemType
<1>18. \A k \in Kind : Ascending(nx, Runs(k)) BY <1>14 DEF Ascending, after
<1>19. Same(next, nx, Offset \ start) /\ Same(size, sz, Offset \ start) BY <1>13 DEF Same
<1>20. \A k \in Kind : pl[k] = IF Runs(k) = {} THEN [head |-> 0, tail |-> 0]
                               ELSE [head |-> Min(Runs(k)), tail |-> Max(Runs(k))]
  BY <1>13 DEF list
<1> QED BY <1>16, <1>17, <1>18, <1>19, <1>20, <1>13, <1>5

(* It is a pool of all free positions. *)
LEMMA RecoveredPool ==
    ASSUME Types
    PROVE  MemOK(Recovered, RunSets) /\ Span(Recovered.size, Both(RunSets)) = Free
<1> DEFINE w == Recovered
           Q == RunSets
           F == Free
           f == Mem.file_size
<1>1. /\ Q \in Sets /\ Q["single"] = Runs("single") /\ Q["multi"] = Runs("multi")
      /\ Both(Q) = Begins(F) /\ Runs("single") \cap Runs("multi") = {}
      /\ \A o \in Runs("single") : RunLength(o) = 1
      /\ F \in SUBSET (1 .. f - 1) /\ F \subseteq Offset \ {0}
      /\ \A k \in Kind : Runs(k) \subseteq F
  BY RunsAre
<1>2. /\ w \in MemType /\ w.file_size = f
      /\ \A k \in Kind : Ascending(w.next, Runs(k))
      /\ \A o \in Begins(F) : w.size[o] = RunLength(o)
      /\ Same(Mem.next, w.next, Offset \ Begins(F))
      /\ \A k \in Kind : w.pool[k] = IF Runs(k) = {} THEN [head |-> 0, tail |-> 0]
                                     ELSE [head |-> Min(Runs(k)), tail |-> Max(Runs(k))]
  BY RecoveredIs
<1>3. \A o \in F : RunOf(F, o, RunLength(o)) BY RunLengthRight
<1>4. f \in Nat /\ Mem.next[0] = 0 BY Position DEF Types, Mem
<1>k. "single" \in Kind /\ "multi" \in Kind /\ \A k \in Kind : k = "single" \/ k = "multi" BY DEF Kind
<1> HIDE DEF w, Q, F, f
<1>5. Runned(F, w.size, Begins(F))
  <2>1. ASSUME NEW o \in Begins(F) PROVE RunOf(F, o, w.size[o])
    <3>1. o \in F BY DEF Begins
    <3>2. w.size[o] = RunLength(o) BY <1>2
    <3> QED BY <3>1, <3>2, <1>3
  <2> QED BY <2>1 DEF Runned
<1>6. Span(w.size, Both(Q)) = F BY <1>1, <1>4, <1>5, RunsSpan
<1> DEFINE S == Q["single"]
           M == Q["multi"]
<1>7. S \cup M = Begins(F) /\ S \cap M = {} /\ \A a \in S : w.size[a] = 1 /\ a \in Begins(F)
  <2>1. S \cup M = Begins(F) BY <1>1 DEF Both
  <2>2. \A a \in S : a \in Begins(F) /\ w.size[a] = 1 BY <2>1, <1>1, <1>2
  <2> QED BY <2>1, <2>2, <1>1
<1>8. Tidy(w.size, f, S, M)
  <2>1. Runned(F, w.size, S \cup M) BY <1>5, <1>7
  <2>2. F \in SUBSET (1 .. f - 1) /\ S \cap M = {} /\ \A a \in S : w.size[a] = 1 BY <1>1, <1>7
  <2> HIDE DEF S, M
  <2> QED BY <2>1, <2>2, <1>4, RunsTidy
<1>9. ASSUME NEW k \in Kind PROVE ListOK(w.next, w.pool[k].head, w.pool[k].tail, Q[k])
  <2>1. Q[k] = Runs(k) BY <1>1, <1>k
  <2>p. w.pool[k] = IF Runs(k) = {} THEN [head |-> 0, tail |-> 0]
                    ELSE [head |-> Min(Runs(k)), tail |-> Max(Runs(k))]
    BY <1>2
  <2>2. CASE Runs(k) = {}
    <3>1. w.pool[k] = [head |-> 0, tail |-> 0] BY <2>p, <2>2
    <3>2. w.pool[k].head = 0 /\ w.pool[k].tail = 0 BY <3>1
    <3> QED BY <3>2, <2>1, <2>2 DEF ListOK
  <2>3. CASE Runs(k) # {}
    <3>0. w.pool[k] = [head |-> Min(Runs(k)), tail |-> Max(Runs(k))] BY <2>p, <2>3
    <3>1. w.pool[k].head = Min(Runs(k)) /\ w.pool[k].tail = Max(Runs(k)) BY <3>0
    <3>2. Runs(k) \in SUBSET (1 .. f)
      <4>1. 1 .. f - 1 \subseteq 1 .. f BY <1>4
      <4> QED BY <4>1, <1>1
    <3>3. Ascending(w.next, Runs(k)) BY <1>2
    <3>4. ListOK(w.next, Min(Runs(k)), Max(Runs(k)), Runs(k)) BY <3>2, <3>3, <2>3, <1>4, SortedList
    <3> QED BY <3>1, <3>4, <2>1
  <2> QED BY <2>2, <2>3
<1>10. w.next[0] = 0
  <2>1. 0 \in Offset \ Begins(F) BY <1>1, Position DEF Begins
  <2> QED BY <2>1, <1>2, <1>4 DEF Same
<1>11. MemOK(w, Q) BY <1>1, <1>2, <1>8, <1>9, <1>10 DEF MemOK
<1> QED BY <1>6, <1>11 DEF w, Q, F

(* The databases after recover_areas(), which does not touch their chains. *)
LEMMA RecoveredDbs ==
    ASSUME Types, NEW O, NEW R, AllDbs(Mem, db, O, R), NEW d \in DBs
    PROVE  /\ DbOK(Recovered, db[d], O[d], R[d])
           /\ Span(Recovered.size, Whole(O[d], R[d])) = Span(Mem.size, Whole(O[d], R[d]))
           /\ Span(Mem.size, Whole(O[d], R[d])) \subseteq Occupied
<1> DEFINE N == Whole(O[d], R[d])
<1>0. Mem \in MemType /\ DbOK(Mem, db[d], O[d], R[d]) BY DEF Types, AllDbs
<1>1. N \subseteq Span(Mem.size, N) /\ N \subseteq Offset BY <1>0, EntryNodes
<1>2. Span(Mem.size, N) \subseteq Occupied
  <2> SUFFICES ASSUME NEW x \in Span(Mem.size, N) PROVE x \in Occupied OBVIOUS
  <2> QED BY OccupiedIs
<1>3. Begins(Free) \cap Occupied = {} BY DEF Begins, Free
<1>4. N \subseteq Offset \ Begins(Free) BY <1>1, <1>2, <1>3
<1>5. /\ Recovered \in MemType /\ Recovered.file_size = Mem.file_size
      /\ Same(Mem.next, Recovered.next, Offset \ Begins(Free))
      /\ Same(Mem.size, Recovered.size, Offset \ Begins(Free))
  BY RecoveredIs
<1>6. Same(Mem.next, Recovered.next, N) /\ Same(Mem.size, Recovered.size, N) BY <1>4, <1>5 DEF Same
<1>7. Mem.file_size <= Recovered.file_size BY <1>0, <1>5, Position, Reflexive
<1>8. Span(Recovered.size, N) = Span(Mem.size, N) BY <1>6, SpanFrame
<1>9. DbOK(Recovered, db[d], O[d], R[d]) BY <1>0, <1>5, <1>6, <1>7, DbFrame
<1> QED BY <1>2, <1>8, <1>9

(* Databases that differ in sane only. *)
Reopened(D, E) ==
    \A d \in DBs : /\ E[d].entry = D[d].entry /\ E[d].head = D[d].head /\ E[d].tail = D[d].tail
                   /\ E[d].atail = D[d].atail /\ E[d].txn = D[d].txn /\ E[d].win = D[d].win
                   /\ E[d].own = D[d].own /\ E[d].draft = D[d].draft

(* They have the same chains and use the same areas. *)
LEMMA AllAlike ==
    ASSUME NEW m, NEW D, NEW E, NEW O, NEW R, AllDbs(m, D, O, R), Reopened(D, E)
    PROVE  /\ AllDbs(m, E, O, R) /\ Uses(E) = Uses(D)
           /\ \A P, L : Clean(m, D, O, R, P, L) => Clean(m, E, O, R, P, L)
<1>1. ASSUME NEW d \in DBs
      PROVE  /\ DbOK(m, E[d], O[d], R[d])
             /\ \A sz, P : SepOK(sz, D[d], O[d], R[d], P) => SepOK(sz, E[d], O[d], R[d], P)
  <2>1. DbOK(m, D[d], O[d], R[d]) BY DEF AllDbs
  <2>2. /\ E[d].entry = D[d].entry /\ E[d].head = D[d].head /\ E[d].tail = D[d].tail
        /\ E[d].atail = D[d].atail /\ E[d].txn = D[d].txn /\ E[d].win = D[d].win
        /\ E[d].own = D[d].own /\ E[d].draft = D[d].draft
    BY DEF Reopened
  <2> QED BY <2>1, <2>2, DbAlike
<1>2. AllDbs(m, E, O, R) BY <1>1 DEF AllDbs
<1>3. ASSUME NEW x PROVE x \in Uses(E) <=> x \in Uses(D)
  <2>1. x \in Uses(E) <=> \E d \in DBs : x \in E[d].own \/ x \in E[d].draft BY UsesIn DEF Uses
  <2>2. x \in Uses(D) <=> \E d \in DBs : x \in D[d].own \/ x \in D[d].draft BY UsesIn DEF Uses
  <2>3. \A d \in DBs : E[d].own = D[d].own /\ E[d].draft = D[d].draft BY DEF Reopened
  <2> QED BY <2>1, <2>2, <2>3
<1>4. Uses(E) = Uses(D) BY <1>3
<1>5. ASSUME NEW P, NEW L, Clean(m, D, O, R, P, L) PROVE Clean(m, E, O, R, P, L)
  BY <1>1, <1>4, <1>5 DEF Clean
<1> QED BY <1>2, <1>4, <1>5

(* After recover_areas() the whole file is accounted for. *)
LEMMA RecoveredClean ==
    ASSUME Types, NEW O, NEW R, AllDbs(Mem, db, O, R), FileLock
    PROVE  AllDbs(Recovered, db, O, R) /\ Clean(Recovered, db, O, R, RunSets, Occupied \ Kept)
<1> DEFINE w == Recovered
           f == Mem.file_size
           U == Uses(db)
<1>1. MemOK(w, RunSets) /\ Span(w.size, Both(RunSets)) = Free BY RecoveredPool
<1>2. w.file_size = f BY RecoveredIs
<1>3. U \subseteq Occupied /\ Kept \subseteq U /\ Occupied \subseteq 1 .. f - 1 BY OccupiedCovers
<1>4. Free = (1 .. f - 1) \ Occupied BY DEF Free, Mem
<1>5. ASSUME NEW d \in DBs
      PROVE  /\ DbOK(w, db[d], O[d], R[d])
             /\ Span(w.size, Whole(O[d], R[d])) = Span(Mem.size, Whole(O[d], R[d]))
             /\ Span(Mem.size, Whole(O[d], R[d])) \subseteq Occupied
  BY RecoveredDbs
<1> HIDE DEF w, U
<1>6. AllDbs(w, db, O, R) BY <1>5 DEF AllDbs
<1>7. ASSUME NEW d \in DBs PROVE SepOK(w.size, db[d], O[d], R[d], RunSets)
  <2>1. Span(w.size, Whole(O[d], R[d])) \cap Span(w.size, Both(RunSets)) = {} BY <1>1, <1>4, <1>5
  <2>2. db[d].win = "" BY DEF FileLock
  <2> QED BY <2>1, <2>2, SepQuiet
<1>8. 1 .. f - 1 = Free \cup (Occupied \ Kept) \cup U
  <2> DEFINE G == 1 .. f - 1
  <2>1. Free = G \ Occupied /\ Occupied \subseteq G BY <1>3, <1>4
  <2> HIDE DEF G
  <2>2. G = Free \cup (Occupied \ Kept) \cup U BY <2>1, <1>3
  <2> QED BY <2>2 DEF G
<1>9. Clean(w, db, O, R, RunSets, Occupied \ Kept) BY <1>1, <1>2, <1>7, <1>8 DEF Clean, U
<1> QED BY <1>6, <1>9 DEF w

(* The file is opened again. *)
LEMMA StepOpen ==
    ASSUME Types, Flags, NEW O \in [DBs -> Sets], NEW R \in [DBs -> Sets], NEW P \in Sets, Struct(O, R, P), Open
    PROVE  Inv'
<1>1. /\ ~up /\ up' = TRUE /\ clean_close' = FALSE /\ db' = [d \in DBs |-> [db[d] EXCEPT !.sane = FALSE]]
      /\ clean_close => Store(Mem) /\ lost' = lost
      /\ ~clean_close => Store(Recovered) /\ lost' = Occupied \ Kept
  BY DEF Open
<1>2. Mem \in MemType /\ next[0] = 0 /\ db \in [DBs -> Database] /\ AllDbs(Mem, db, O, R) BY DEF Types, Struct
<1>3. FileLock /\ \A d \in DBs : OpenOK(db[d], FALSE)
  <2>1. up = FALSE BY <1>1 DEF Types
  <2> QED BY <2>1 DEF Flags, FileLock
<1>4. ASSUME NEW d \in DBs
      PROVE  /\ db'[d] \in Database /\ db'[d].sane = FALSE
             /\ db'[d].entry = db[d].entry /\ db'[d].head = db[d].head /\ db'[d].tail = db[d].tail
             /\ db'[d].atail = db[d].atail /\ db'[d].txn = db[d].txn /\ db'[d].win = db[d].win
             /\ db'[d].own = db[d].own /\ db'[d].draft = db[d].draft
  <2>1. db[d] \in Database /\ db'[d] = [db[d] EXCEPT !.sane = FALSE] BY <1>1, <1>2
  <2> QED BY <2>1 DEF Database
<1>5. Reopened(db, db') BY <1>4 DEF Reopened
<1>6. db' \in [DBs -> Database] BY <1>1, <1>4
<1>7. Flags'
  <2>1. \A d \in DBs : OpenOK(db'[d], TRUE) BY <1>3, <1>4 DEF OpenOK
  <2>2. \A d \in DBs : db'[d].win = "" BY <1>3, <1>4 DEF FileLock
  <2> QED BY <2>1, <2>2, <1>1 DEF Flags
<1>8. CASE clean_close
  <2>1. Mem' = Mem /\ next' = next /\ lost' = lost BY <1>1, <1>8 DEF Store, Mem
  <2>2. Clean(Mem, db, O, R, P, lost) BY <1>8 DEF Struct
  <2>3. AllDbs(Mem, db', O, R) /\ Clean(Mem, db', O, R, P, lost) BY <1>2, <2>2, <1>5, AllAlike
  <2>4. Struct(O, R, P)' BY <2>1, <2>3 DEF Struct
  <2>5. Types' BY <2>1, <1>1, <1>2, <1>6 DEF Types
  <2> QED BY <2>4, <2>5, <1>7 DEF Inv
<1>9. CASE ~clean_close
  <2>1. Recovered \in MemType BY RecoveredIs
  <2>2. Store(Recovered) /\ lost' = Occupied \ Kept BY <1>1, <1>9
  <2>3. Mem' = Recovered BY <2>1, <2>2, Stored
  <2>4. AllDbs(Recovered, db, O, R) /\ Clean(Recovered, db, O, R, RunSets, Occupied \ Kept)
    BY <1>2, <1>3, RecoveredClean
  <2>5. AllDbs(Recovered, db', O, R) /\ Clean(Recovered, db', O, R, RunSets, Occupied \ Kept)
    BY <2>4, <1>5, AllAlike
  <2> DEFINE Q == RunSets
  <2>6. Q \in Sets /\ Recovered.next[0] = 0 BY <2>5 DEF Clean, MemOK
  <2> HIDE DEF Q
  <2>7. AllDbs(Mem', db', O, R) /\ Clean(Mem', db', O, R, Q, lost') BY <2>2, <2>3, <2>5 DEF Q
  <2>8. next'[0] = 0 BY <2>3, <2>6 DEF Mem
  <2>9. Types' BY <2>1, <2>3, <2>8, <1>1, <1>6 DEF Types
  <2>10. PICK Z \in Sets : Z = Q BY <2>6
  <2>11. Struct(O, R, Z)' BY <2>7, <2>10 DEF Struct
  <2> QED BY <2>9, <2>11, <1>7 DEF Inv
<1> QED BY <1>8, <1>9

-----------------------------------------------------------------------------
(* Every step. *)

(* A step of a process that has the file open. *)
LEMMA StepUp ==
    ASSUME NoCases, NEW O, NEW R, NEW P, Now(O, R, P), NEW d \in DBs,
           \/ Create(d) \/ StartTransaction(d) \/ PrepareCommit(d) \/ Commit(d)
           \/ \E k \in Kind, n \in 1 .. MaxMulti : AllocArea(d, k, n)
           \/ RollbackSingle(d) \/ RollbackMulti(d) \/ RollbackEnd(d)
           \/ Remove(d) \/ RemoveEntry(d) \/ ResetInPlace(d)
           \/ \E grow \in BOOLEAN : SanitizeDB(d, grow)
    PROVE  Inv'
<1>1. CASE Create(d) BY <1>1, StepCreate
<1>2. CASE StartTransaction(d) BY <1>2, StepStart
<1>3. CASE PrepareCommit(d) BY <1>3, StepPrepare
<1>4. CASE Commit(d) BY <1>4, StepCommit
<1>5. ASSUME NEW k \in Kind, NEW n \in 1 .. MaxMulti, AllocArea(d, k, n) PROVE Inv'
  <2>1. n \in Nat \ {0} BY AreasAssumption
  <2> QED BY <2>1, <1>5, StepAllocArea
<1>6. CASE RollbackSingle(d) BY <1>6, StepRollbackSingle
<1>7. CASE RollbackMulti(d) BY <1>7, StepRollbackMulti
<1>8. CASE RollbackEnd(d) BY <1>8, StepRollbackEnd
<1>9. CASE Remove(d) BY <1>9, StepRemove
<1>10. CASE RemoveEntry(d) BY <1>10, StepRemoveEntry
<1>11. CASE ResetInPlace(d) BY <1>11, StepReset
<1>12. ASSUME NEW grow \in BOOLEAN, SanitizeDB(d, grow) PROVE Inv'
  <2>1. CASE grow = TRUE
    <3>1. SanitizeDB(d, TRUE) BY <2>1, <1>12
    <3> QED BY <3>1, StepSanitizeGrow
  <2>2. CASE grow = FALSE
    <3>1. SanitizeDB(d, FALSE) BY <2>2, <1>12
    <3> QED BY <3>1, StepSanitize
  <2> QED BY <2>1, <2>2
<1> QED BY <1>1, <1>2, <1>3, <1>4, <1>5, <1>6, <1>7, <1>8, <1>9, <1>10, <1>11, <1>12

(* No step leaves the invariant. *)
LEMMA StepInv == ASSUME NoCases, Inv, [Next]_vars PROVE Inv'
<1>1. PICK O \in [DBs -> Sets], R \in [DBs -> Sets], P \in Sets : Struct(O, R, P) BY DEF Inv
<1>2. Types /\ Flags BY DEF Inv
<1>3. up => Now(O, R, P) BY <1>1, <1>2 DEF Now, Struct
<1>4. ASSUME NEW d \in DBs,
             \/ Create(d) \/ StartTransaction(d) \/ PrepareCommit(d) \/ Commit(d)
             \/ \E k \in Kind, n \in 1 .. MaxMulti : AllocArea(d, k, n)
             \/ RollbackSingle(d) \/ RollbackMulti(d) \/ RollbackEnd(d)
             \/ Remove(d) \/ RemoveEntry(d) \/ ResetInPlace(d)
             \/ \E grow \in BOOLEAN : SanitizeDB(d, grow)
      PROVE  Inv'
  <2>1. up BY <1>4 DEF Create, StartTransaction, PrepareCommit, Commit, AllocArea, RollbackSingle,
                       RollbackMulti, RollbackEnd, Remove, RemoveEntry, ResetInPlace, SanitizeDB, Ready, Usable
  <2> QED BY <2>1, <1>3, <1>4, StepUp
<1>5. CASE Close
  <2>1. up BY <1>5 DEF Close
  <2> QED BY <2>1, <1>3, <1>5, StepClose
<1>6. CASE Kill
  <2>1. up BY <1>6 DEF Kill
  <2> QED BY <2>1, <1>3, <1>6, StepKill
<1>7. CASE Open BY <1>1, <1>2, <1>7, StepOpen
<1>8. CASE UNCHANGED vars
  <2>1. /\ next' = next /\ size' = size /\ pool' = pool /\ file_size' = file_size /\ db' = db /\ up' = up
        /\ clean_close' = clean_close /\ lost' = lost
    BY <1>8 DEF vars
  <2>2. Mem' = Mem BY <2>1 DEF Mem
  <2>3. Types' BY <2>1, <2>2, <1>2 DEF Types
  <2>4. Flags' BY <2>1, <1>2 DEF Flags
  <2>5. Struct(O, R, P)' BY <2>1, <2>2, <1>1 DEF Struct
  <2> QED BY <2>3, <2>4, <2>5 DEF Inv
<1> QED BY <1>4, <1>5, <1>6, <1>7, <1>8 DEF Next

(* The invariant of the areas, for any number of databases, crashes and     *)
(* requests of any size: the chains and the two lists are chains, and no    *)
(* two of them share an area.                                               *)
THEOREM InvTheorem == NoCases => (Spec => []Inv)
<1> SUFFICES ASSUME NoCases PROVE Spec => []Inv OBVIOUS
<1>1. Init => Inv BY InitInv
<1>2. Inv /\ [Next]_vars => Inv' BY StepInv
<1> QED BY <1>1, <1>2, PTL DEF Spec

(* What the pool holds while a process has the file open. *)
LEMMA PoolIs ==
    ASSUME NEW O, NEW R, NEW P, Now(O, R, P)
    PROVE  /\ Pooled = Span(size, Both(P))
           /\ \A k \in Kind : Range(Listed(k)) = P[k]
           /\ \A k \in Kind : \A i, j \in DOMAIN Listed(k) : Listed(k)[i] = Listed(k)[j] => i = j
<1>1. Mem.next = next /\ Mem.pool = pool /\ Mem.size = size /\ MemOK(Mem, P) /\ next[0] = 0
  BY DEF Now, Types, Clean, Mem
<1>2. /\ next \in [Offset -> Offset]
      /\ \A k \in Kind : pool[k].head \in Offset /\ 0 \notin P[k] /\ P[k] \subseteq Offset
  BY <1>1, PoolNodes
<1>3. ASSUME NEW k \in Kind PROVE ListOK(next, pool[k].head, pool[k].tail, P[k]) BY <1>1 DEF MemOK
<1>4. ASSUME NEW k \in Kind PROVE Range(Listed(k)) = P[k]
  <2> DEFINE h == pool[k].head
  <2>1. h \in Offset /\ P[k] \in SUBSET Offset /\ 0 \notin P[k] /\ ListOK(next, h, pool[k].tail, P[k])
    BY <1>2, <1>3
  <2> HIDE DEF h
  <2>2. Range(Walk(next, h, MapSize)) = P[k] BY <2>1, <1>1, <1>2, ListWalk
  <2> QED BY <2>2 DEF Listed, h
<1>5. ASSUME NEW k \in Kind, NEW i \in DOMAIN Listed(k), NEW j \in DOMAIN Listed(k),
             Listed(k)[i] = Listed(k)[j]
      PROVE  i = j
  <2> DEFINE h == pool[k].head
             W == Listed(k)
  <2>1. h \in Offset /\ 0 \notin P[k] /\ ListOK(next, h, pool[k].tail, P[k]) BY <1>2, <1>3
  <2>2. MapSize \in Nat BY AreasAssumption
  <2>3. W = Walk(next, h, MapSize) BY DEF Listed
  <2> HIDE DEF h, W
  <2>4. Route(next, h, MapSize, W) BY <2>1, <2>2, <2>3, <1>1, <1>2, WalkRoute
  <2>5. W[i] \in P[k] BY <1>4, <1>5 DEF Range, W
  <2>6. h # 0 BY <2>1, <2>5 DEF ListOK
  <2>7. Seg(next, h, pool[k].tail, P[k]) /\ next[pool[k].tail] = 0 BY <2>1, <2>6 DEF ListOK
  <2>8. i \in DOMAIN W /\ j \in DOMAIN W /\ W[i] = W[j] BY <1>5 DEF W
  <2> QED BY <2>1, <2>2, <2>4, <2>7, <2>8, RouteOnce
<1>6. \A k \in Kind : Spanned(pool[k].head) = Span(size, P[k]) BY <1>4, SpannedIs DEF Listed
<1>7. Pooled = Span(size, P["single"]) \cup Span(size, P["multi"])
  <2>1. ASSUME NEW x PROVE x \in Pooled <=> \E k \in Kind : x \in Spanned(pool[k].head) BY DEF Pooled
  <2>2. ASSUME NEW x PROVE x \in Pooled <=> x \in Span(size, P["single"]) \/ x \in Span(size, P["multi"])
    BY <2>1, <1>6 DEF Kind
  <2> QED BY <2>2
<1>8. Pooled = Span(size, Both(P)) BY <1>7, SpanUnion DEF Both
<1> QED BY <1>4, <1>5, <1>8

(* In a settled state of the invariant no area has two owners and the file  *)
(* is partitioned.                                                          *)
LEMMA SettledRight ==
    ASSUME NEW O, NEW R, NEW P, Now(O, R, P), FileLock
    PROVE  AreasOnce /\ Partitioned
<1>1. /\ Pooled = Span(size, Both(P))
      /\ \A k \in Kind : Range(Listed(k)) = P[k]
      /\ \A k \in Kind : \A i, j \in DOMAIN Listed(k) : Listed(k)[i] = Listed(k)[j] => i = j
  BY PoolIs
<1>2. /\ Mem \in MemType /\ Mem.size = size /\ Mem.file_size = file_size /\ AllDbs(Mem, db, O, R)
      /\ Clean(Mem, db, O, R, P, lost)
  BY DEF Now, Types, Mem
<1>3. ASSUME NEW d \in DBs
      PROVE  /\ InUse(d) \subseteq Span(size, Whole(O[d], R[d]))
             /\ Span(size, Whole(O[d], R[d])) \cap Pooled = {}
  <2>1. DbOK(Mem, db[d], O[d], R[d]) /\ SepOK(Mem.size, db[d], O[d], R[d], P) /\ db[d].win = ""
    BY <1>2 DEF AllDbs, Clean, FileLock
  <2>2. InUse(d) \subseteq Span(Mem.size, Whole(O[d], R[d])) BY <2>1, <1>2, DbUses DEF InUse
  <2>3. Span(Mem.size, Whole(O[d], R[d])) \cap Span(Mem.size, Both(P)) = {} BY <2>1, SepQuiet
  <2> QED BY <2>2, <2>3, <1>1, <1>2
<1>4. \A d \in DBs : InUse(d) \cap Pooled = {} BY <1>3
<1>5. ASSUME NEW d \in DBs, NEW e \in DBs, d # e PROVE InUse(d) \cap InUse(e) = {}
  <2>1. Span(size, Whole(O[d], R[d])) \cap Span(size, Whole(O[e], R[e])) = {} BY <1>2, <1>5 DEF AllDbs
  <2> QED BY <2>1, <1>3
<1>6. ASSUME NEW k \in Kind, NEW l \in Kind, NEW i \in DOMAIN Listed(k), NEW j \in DOMAIN Listed(l),
             <<k, i>> # <<l, j>>
      PROVE  Blocks(Mem, Listed(k)[i]) \cap Blocks(Mem, Listed(l)[j]) = {}
  <2> DEFINE a == Listed(k)[i]
             b == Listed(l)[j]
  <2>1. a \in P[k] /\ b \in P[l] BY <1>1, <1>6 DEF Range
  <2>2. Tidy(size, file_size, P["single"], P["multi"]) BY <1>2 DEF Clean, MemOK
  <2>3. a # b
    <3>1. CASE k = l
      <4>1. i # j BY <3>1, <1>6
      <4> QED BY <4>1, <3>1, <1>1, <1>6
    <3>2. CASE k # l
      <4>1. P["single"] \cap P["multi"] = {} BY <2>2 DEF Tidy
      <4>2. (k = "single" /\ l = "multi") \/ (k = "multi" /\ l = "single") BY <3>2 DEF Kind
      <4> QED BY <4>1, <4>2, <2>1
    <3> QED BY <3>1, <3>2
  <2>4. a \in P["single"] \cup P["multi"] /\ b \in P["single"] \cup P["multi"] BY <2>1 DEF Kind
  <2> HIDE DEF a, b
  <2>5. Of(size, a) \cap Of(size, b) = {} BY <2>2, <2>3, <2>4 DEF Tidy, Apart
  <2>6. Blocks(Mem, a) \cap Blocks(Mem, b) = {} BY <2>5, <1>2 DEF Blocks, Of
  <2> QED BY <2>6 DEF a, b
<1>7. AreasOnce BY <1>4, <1>5, <1>6 DEF AreasOnce
<1>8. Uses(db) = UNION {InUse(d) : d \in DBs} BY DEF Uses, UsesOf, InUse
<1>9. 1 .. Mem.file_size - 1 = Span(Mem.size, Both(P)) \cup lost \cup Uses(db) BY <1>2 DEF Clean
<1>10. 1 .. file_size - 1 = Pooled \cup lost \cup UNION {InUse(d) : d \in DBs} BY <1>1, <1>2, <1>8, <1>9
<1>11. Partitioned BY <1>10 DEF Partitioned
<1> QED BY <1>7, <1>11

(* The invariant implies the three properties. *)
LEMMA InvImplies == ASSUME Inv PROVE AreasOnce /\ Partitioned /\ Recoverable
<1>1. PICK O \in [DBs -> Sets], R \in [DBs -> Sets], P \in Sets : Struct(O, R, P) BY DEF Inv
<1>2. Types /\ Flags BY DEF Inv
<1>3. up => Now(O, R, P) BY <1>1, <1>2 DEF Now, Struct
<1>4. Settled => AreasOnce /\ Partitioned BY <1>3, SettledRight DEF Settled
<1>5. ~Settled => AreasOnce /\ Partitioned BY DEF AreasOnce, Partitioned
<1>6. ASSUME FileLock PROVE Kept \subseteq Occupied
  <2>1. AllDbs(Mem, db, O, R) BY <1>1 DEF Struct
  <2>2. Uses(db) \subseteq Occupied /\ Kept \subseteq Uses(db) BY <2>1, <1>2, <1>6, OccupiedCovers
  <2> QED BY <2>2
<1>7. Recoverable BY <1>6 DEF Recoverable
<1> QED BY <1>4, <1>5, <1>7

(* No area has two owners: not two databases, not a database and the pool,  *)
(* not two places of the pool's lists.                                      *)
THEOREM AreasOnceTheorem == NoCases => (Spec => []AreasOnce)
<1> SUFFICES ASSUME NoCases PROVE Spec => []AreasOnce OBVIOUS
<1>1. Inv => AreasOnce BY InvImplies
<1>2. Spec => []Inv BY InvTheorem
<1> QED BY <1>1, <1>2, PTL

(* Every area of the file is in the pool, in use by a database, or one that *)
(* recover_areas() has found linked to a chain after a crash.               *)
THEOREM PartitionedTheorem == NoCases => (Spec => []Partitioned)
<1> SUFFICES ASSUME NoCases PROVE Spec => []Partitioned OBVIOUS
<1>1. Inv => Partitioned BY InvImplies
<1>2. Spec => []Inv BY InvTheorem
<1> QED BY <1>1, <1>2, PTL

(* Unless areas are just being returned, recover_areas() would find every   *)
(* area with committed or prepared data; so it does after a crash.          *)
THEOREM RecoverableTheorem == NoCases => (Spec => []Recoverable)
<1> SUFFICES ASSUME NoCases PROVE Spec => []Recoverable OBVIOUS
<1>1. Inv => Recoverable BY InvImplies
<1>2. Spec => []Inv BY InvTheorem
<1> QED BY <1>1, <1>2, PTL

-----------------------------------------------------------------------------
(* Type correctness: the sizes in the headers of areas, used or not, stay   *)
(* within the mapped region.                                                *)
Sizes == [Offset -> 0 .. MapSize]
Small == size \in Sizes /\ lost \subseteq Offset /\ kills \in 0 .. MaxKills
Shaped(m) == m = [next |-> m.next, size |-> m.size, pool |-> m.pool, file_size |-> m.file_size]

(* A header is written. *)
LEMMA SizeSet == ASSUME NEW s \in Sizes, NEW a, NEW n \in 0 .. MapSize PROVE [s EXCEPT ![a] = n] \in Sizes
  BY DEF Sizes

(* add() writes links only. *)
LEMMA AddShape ==
    ASSUME NEW m, Shaped(m), NEW k, NEW h, NEW t
    PROVE  Shaped(Add(m, k, h, t)) /\ Add(m, k, h, t).size = m.size
<1> DEFINE l == [head |-> h, tail |-> t]
           n == [m EXCEPT !.next[m.pool[k].tail] = h]
<1>1. Shaped(n) /\ n.size = m.size BY DEF Shaped
<1>2. ASSUME NEW x, Shaped(x), NEW a, NEW b
      PROVE  Shaped(atomic_switch(x, k, a, b)) /\ atomic_switch(x, k, a, b).size = x.size
  BY <1>2 DEF Shaped, atomic_switch
<1> HIDE DEF n
<1>3. Add(m, k, h, t) = IF h = 0 THEN m
                        ELSE IF m.pool[k].head = 0 THEN atomic_switch(m, k, h, t)
                        ELSE atomic_switch(n, k, m.pool[k].head, t)
  BY DEF Add, n
<1> QED BY <1>1, <1>2, <1>3

(* So do return_areas() and return_areas_range(), and what follows it. *)
LEMMA ReturnShape ==
    ASSUME NEW m, Shaped(m), NEW d, NEW k
    PROVE  /\ Shaped(Returned(m, d, k)) /\ Returned(m, d, k).size = m.size
           /\ Shaped(Cut(m, d, k)) /\ Cut(m, d, k).size = m.size
           /\ Shaped(ChainReturned(m, d, k)) /\ ChainReturned(m, d, k).size = m.size
<1>1. Shaped(Returned(m, d, k)) /\ Returned(m, d, k).size = m.size BY AddShape DEF Returned
<1>2. Shaped(Cut(m, d, k)) /\ Cut(m, d, k).size = m.size BY DEF Cut, Shaped
<1>3. Shaped(ChainReturned(m, d, k)) /\ ChainReturned(m, d, k).size = m.size BY AddShape DEF ChainReturned
<1> QED BY <1>1, <1>2, <1>3

(* An allocation writes sizes that fit. *)
LEMMA AllocSizes ==
    ASSUME NEW P, MemOK(Mem, P), NEW k \in Kind, NEW n \in Nat \ {0}, k = "single" => n = 1,
           CanAlloc(k, n), size \in Sizes
    PROVE  Alloc(Mem, k, n).m.size \in Sizes
<1> DEFINE m == Mem
<1>0. /\ file_size = m.file_size /\ file_size \in Nat /\ m.size = size /\ m \in MemType /\ MapSize \in Nat
      /\ m.next[0] = 0
  BY PoolNodes, AreasAssumption DEF Mem, MemOK
<1> HIDE DEF m
<1>1. CASE k = "single" /\ Pop(m).area # 0
  <2>1. FromPool(m, k, n) = Pop(m) BY <1>1 DEF FromPool
  <2>2. Alloc(m, k, n) = Unlinked(Pop(m)) BY <2>1, <1>1 DEF Alloc
  <2> DEFINE c == m.pool["single"].head
             q == IF m.next[c] = 0 THEN 0 ELSE m.pool["single"].tail
             x == [m EXCEPT !.pool["single"] = [head |-> m.next[c], tail |-> q]]
  <2>3. Pop(m) = [m |-> x, area |-> c] BY <1>1 DEF Pop, atomic_switch
  <2>4. x.size = m.size BY <1>0 DEF MemType
  <2>x. Shaped(x) BY <1>0 DEF MemType, Shaped
  <2> HIDE DEF x, c
  <2>5. Unlinked(Pop(m)).m.size = x.size BY <2>3, <2>x DEF Unlinked, Shaped
  <2> QED BY <2>2, <2>4, <2>5, <1>0 DEF m
<1>2. CASE ~(k = "single" /\ Pop(m).area # 0)
  <2>1. FromPool(m, k, n) = FindAndRemove(m, n) BY <1>2 DEF FromPool
  <2>2. CASE Fits(m, n) # {}
    <3>1. FindAndRemove(m, n).area # 0 BY <2>2, FindTaken DEF m
    <3>2. Alloc(m, k, n) = Unlinked(FindAndRemove(m, n)) BY <2>1, <3>1 DEF Alloc
    <3>3. PICK c, p \in Offset :
             LET h == IF p = 0 THEN m.next[c] ELSE m.pool["multi"].head
                 t == IF c = m.pool["multi"].tail THEN p ELSE m.pool["multi"].tail
             IN /\ c \in P["multi"] /\ m.size[c] >= n
                /\ IF p = 0 THEN c = m.pool["multi"].head ELSE p \in P["multi"] /\ m.next[p] = c
                /\ Unlinked(FindAndRemove(m, n)) =
                     [m |-> IF m.size[c] = n THEN Whole1(m, c, p, h, IF t = 0 THEN h ELSE t)
                            ELSE Split1(m, c, p, n, h, IF t = 0 THEN c + n ELSE t),
                      area |-> c]
      BY <2>2, FindForm DEF m
    <3> DEFINE h == IF p = 0 THEN m.next[c] ELSE m.pool["multi"].head
               t == IF c = m.pool["multi"].tail THEN p ELSE m.pool["multi"].tail
               y == IF t = 0 THEN h ELSE t
               z == IF t = 0 THEN c + n ELSE t
    <3>4. /\ m.size[c] >= n /\ c \in Offset
          /\ Unlinked(FindAndRemove(m, n)).m =
               IF m.size[c] = n THEN Whole1(m, c, p, h, y) ELSE Split1(m, c, p, n, h, z)
      BY <3>3
    <3> HIDE DEF h, t, y, z
    <3>5. Whole1(m, c, p, h, y).size = m.size BY <1>0 DEF MemType, Whole1
    <3>6. Split1(m, c, p, n, h, z).size = [m.size EXCEPT ![c + n] = m.size[c] - n, ![c] = n]
      BY <1>0 DEF MemType, Split1
    <3>7. m.size[c] \in 0 .. MapSize /\ m.size[c] - n \in 0 .. MapSize /\ n \in 0 .. MapSize
      <4>1. m.size[c] \in 0 .. MapSize BY <3>4, <1>0 DEF Sizes
      <4> QED BY <4>1, <3>4, <1>0
    <3>8. [m.size EXCEPT ![c + n] = m.size[c] - n] \in Sizes BY <3>7, <1>0, SizeSet
    <3>9. [[m.size EXCEPT ![c + n] = m.size[c] - n] EXCEPT ![c] = n] \in Sizes BY <3>7, <3>8, SizeSet
    <3>10. Split1(m, c, p, n, h, z).size \in Sizes BY <3>6, <3>9
    <3>11. Alloc(m, k, n).m.size \in Sizes BY <3>2, <3>4, <3>5, <3>10, <1>0
    <3> QED BY <3>11 DEF m
  <2>3. CASE Fits(m, n) = {}
    <3>1. FindAndRemove(m, n).area = 0 BY <2>3 DEF FindAndRemove
    <3>2. Alloc(m, k, n) = Resized(m, n) BY <2>1, <3>1 DEF Alloc
    <3>3. m.file_size + Growth(n) <= MapSize BY <2>1, <3>1, <1>0 DEF CanAlloc, m
    <3> DEFINE G == Growth(n)
               at == m.file_size
               g == [m EXCEPT !.file_size = @ + Growth(n), !.next[at] = 0, !.size[at] = n]
    <3>4. G \in Nat /\ G >= n
      <4>1. MIN_GROWTH \in Nat BY AreasAssumption
      <4>2. file_size \div 4 \in Nat BY <1>0
      <4> QED BY <4>1, <4>2, MaxOfThree DEF Growth
    <3>5. Resized(m, n).m = IF G > n THEN Push(g, at + n, G - n) ELSE g BY DEF Resized
    <3>6. Shaped(g) /\ g.size = [m.size EXCEPT ![at] = n]
      <4> DEFINE nx == [m.next EXCEPT ![at] = 0]
                 sz == [m.size EXCEPT ![at] = n]
                 fs == m.file_size + G
      <4>1. m = [next |-> m.next, size |-> m.size, pool |-> m.pool, file_size |-> m.file_size]
        BY <1>0 DEF MemType
      <4>2. g = [m EXCEPT !.file_size = fs, !.next = nx, !.size = sz] BY <1>0 DEF MemType
      <4> HIDE DEF nx, sz, fs, g
      <4>3. g = [next |-> nx, size |-> sz, pool |-> m.pool, file_size |-> fs] BY <4>1, <4>2
      <4> QED BY <4>3 DEF Shaped, sz
    <3>7. n \in 0 .. MapSize /\ G - n \in 0 .. MapSize BY <1>0, <3>3, <3>4
    <3> HIDE DEF G, at, g
    <3>8. g.size \in Sizes BY <3>6, <3>7, <1>0, SizeSet
    <3>9. Push(g, at + n, G - n).size = [g.size EXCEPT ![at + n] = G - n]
      BY <3>6 DEF Push, atomic_switch, Shaped
    <3>10. Push(g, at + n, G - n).size \in Sizes BY <3>7, <3>8, <3>9, SizeSet
    <3>11. Alloc(m, k, n).m.size \in Sizes BY <3>2, <3>5, <3>8, <3>10
    <3> QED BY <3>11 DEF m
  <2> QED BY <2>2, <2>3
<1> QED BY <1>1, <1>2

(* So does linking the area to a chain. *)
LEMMA LinkedSizes ==
    ASSUME NEW P, MemOK(Mem, P), NEW k \in Kind, NEW n \in Nat \ {0}, k = "single" => n = 1,
           CanAlloc(k, n), size \in Sizes, NEW c
    PROVE  Linked(Alloc(Mem, k, n), c).size \in Sizes
<1> DEFINE r == Alloc(Mem, k, n)
<1>1. r.m.size \in Sizes BY AllocSizes
<1>2. PICK Q : Taken(Mem, r.m, P, Q, r.area, n) BY AllocTaken
<1>3. r.m \in MemType BY <1>2 DEF Taken, MemOK
<1> HIDE DEF r
<1>4. Linked(r, c).size = r.m.size BY <1>3 DEF Linked, MemType
<1> QED BY <1>1, <1>4 DEF r

(* The same for single areas. *)
LEMMA SingleSizes ==
    ASSUME NEW P, MemOK(Mem, P), CanAlloc("single", 1), size \in Sizes
    PROVE  /\ Alloc(Mem, "single", 1).m.size \in Sizes
           /\ \A c : Linked(Alloc(Mem, "single", 1), c).size \in Sizes
<1> DEFINE k == "single"
           n == 1
<1>1. k \in Kind /\ n \in Nat \ {0} /\ (k = "single" => n = 1) /\ CanAlloc(k, n) BY One DEF Kind
<1> HIDE DEF k, n
<1>2. Alloc(Mem, k, n).m.size \in Sizes /\ \A c : Linked(Alloc(Mem, k, n), c).size \in Sizes
  BY <1>1, AllocSizes, LinkedSizes
<1> QED BY <1>2 DEF k, n

(* recover_areas() writes the lengths of runs. *)
LEMMA RecoveredSizes == ASSUME Types, size \in Sizes PROVE Recovered.size \in Sizes
<1>1. /\ Recovered \in MemType
      /\ \A o \in Begins(Free) : Recovered.size[o] = RunLength(o)
      /\ Same(Mem.size, Recovered.size, Offset \ Begins(Free))
  BY RecoveredIs
<1>2. Recovered.size \in [Offset -> Nat] /\ Mem.size = size BY <1>1 DEF MemType, Mem
<1>3. ASSUME NEW o \in Offset PROVE Recovered.size[o] \in 0 .. MapSize
  <2>1. CASE o \in Begins(Free)
    <3>1. o \in Free /\ Recovered.size[o] = RunLength(o) BY <2>1, <1>1 DEF Begins
    <3>2. RunLength(o) \in 1 .. MapSize BY <3>1, RunLengthRight
    <3>3. RunLength(o) \in 0 .. MapSize BY <3>2, AreasAssumption
    <3> QED BY <3>1, <3>3
  <2>2. CASE o \notin Begins(Free)
    <3>1. Recovered.size[o] = size[o] BY <2>2, <1>1, <1>2 DEF Same
    <3> QED BY <3>1 DEF Sizes
  <2> QED BY <2>1, <2>2
<1> QED BY <1>2, <1>3 DEF Sizes

(* Sizes stay small in every step. *)
LEMMA StepSmall == ASSUME Inv, Small, [Next]_vars PROVE Small'
<1>1. PICK O \in [DBs -> Sets], R \in [DBs -> Sets], P \in Sets : Struct(O, R, P) BY DEF Inv
<1>2. Types /\ Flags /\ size \in Sizes /\ lost \subseteq Offset /\ kills \in 0 .. MaxKills BY DEF Inv, Small
<1>3. up => MemOK(Mem, P) BY <1>1 DEF Struct, Clean
<1>m. Shaped(Mem) /\ Mem.size = size BY DEF Mem, Shaped
<1>4. ASSUME size' \in Sizes, lost' = lost, kills' = kills PROVE Small' BY <1>2, <1>4 DEF Small
<1>5. ASSUME NEW d \in DBs, Create(d) PROVE Small'
  <2>1. up /\ CanAlloc("single", 1) /\ size' = Alloc(Mem, "single", 1).m.size /\ lost' = lost /\ kills' = kills
    BY <1>5 DEF Create, Store
  <2> QED BY <2>1, <1>2, <1>3, <1>4, SingleSizes
<1>6. ASSUME NEW d \in DBs, StartTransaction(d) \/ PrepareCommit(d) \/ Commit(d) \/ RemoveEntry(d) PROVE Small'
  BY <1>2, <1>4, <1>6 DEF StartTransaction, PrepareCommit, Commit, RemoveEntry
<1>7. ASSUME NEW d \in DBs, NEW k \in Kind, NEW n \in 1 .. MaxMulti, AllocArea(d, k, n) PROVE Small'
  <2>1. n \in Nat \ {0} BY AreasAssumption
  <2> DEFINE c == db[d].atail[k]
  <2>2. /\ up /\ CanAlloc(k, n) /\ (k = "single" => n = 1) /\ lost' = lost /\ kills' = kills
        /\ size' = Linked(Alloc(Mem, k, n), c).size
    BY <1>7 DEF AllocArea, Store, Ready, Usable
  <2> HIDE DEF c
  <2>3. size' \in Sizes BY <2>1, <2>2, <1>2, <1>3, LinkedSizes
  <2> QED BY <2>2, <2>3, <1>4
<1>8. ASSUME NEW d \in DBs, RollbackSingle(d) \/ RollbackMulti(d) \/ RollbackEnd(d) PROVE Small'
  <2>1. lost' = lost /\ kills' = kills BY <1>8 DEF RollbackSingle, RollbackMulti, RollbackEnd
  <2>2. \/ size' = Returned(Mem, d, "single").size
        \/ size' = Returned(Cut(Mem, d, "single"), d, "multi").size
        \/ size' = Cut(Mem, d, "multi").size
    BY <1>8 DEF RollbackSingle, RollbackMulti, RollbackEnd, Store
  <2>3. Returned(Mem, d, "single").size = size /\ Cut(Mem, d, "multi").size = size BY <1>m, ReturnShape
  <2>4. Returned(Cut(Mem, d, "single"), d, "multi").size = size BY <1>m, ReturnShape
  <2> QED BY <2>1, <2>2, <2>3, <2>4, <1>2, <1>4
<1>9. ASSUME NEW d \in DBs, Remove(d) PROVE Small'
  <2>1. lost' = lost /\ kills' = kills /\ size' = ChainReturned(ChainReturned(Mem, d, "single"), d, "multi").size
    BY <1>9 DEF Remove, Store, AllReturned
  <2>2. ChainReturned(ChainReturned(Mem, d, "single"), d, "multi").size = size BY <1>m, ReturnShape
  <2> QED BY <2>1, <2>2, <1>2, <1>4
<1>10. ASSUME NEW d \in DBs, ResetInPlace(d) PROVE Small'
  <2> DEFINE h == db[d].head["single"]
             a == Add(Mem, "single", next[h], db[d].tail["single"])
             m == IF next[h] = 0 THEN Mem ELSE [a EXCEPT !.next[h] = 0]
  <2>1. lost' = lost /\ kills' = kills /\ size' = ChainReturned(m, d, "multi").size
    BY <1>10 DEF ResetInPlace, Store
  <2>2. Shaped(a) /\ a.size = size BY <1>m, AddShape
  <2> HIDE DEF a
  <2>3. Shaped(m) /\ m.size = size BY <2>2, <1>m DEF Shaped
  <2> HIDE DEF m
  <2>4. size' = size BY <2>1, <2>3, ReturnShape
  <2> QED BY <2>1, <2>4, <1>2, <1>4
<1>11. ASSUME NEW d \in DBs, NEW grow \in BOOLEAN, SanitizeDB(d, grow) PROVE Small'
  <2>1. lost' = lost /\ kills' = kills /\ up BY <1>11 DEF SanitizeDB
  <2> DEFINE c == db[d].tail["single"]
  <2>2. \/ CanAlloc("single", 1) /\ size' = Linked(Alloc(Mem, "single", 1), c).size
        \/ size' = Mem.size
    BY <1>11 DEF SanitizeDB, Store
  <2> HIDE DEF c
  <2>3. size' \in Sizes BY <2>1, <2>2, <1>m, <1>2, <1>3, SingleSizes
  <2> QED BY <2>1, <2>3, <1>4
<1>12. CASE Close BY <1>12, <1>2, <1>4 DEF Close
<1>13. CASE Kill
  <2>1. size' = size /\ lost' = lost /\ kills < MaxKills /\ kills' = kills + 1 BY <1>13 DEF Kill
  <2>2. kills' \in 0 .. MaxKills BY <2>1, <1>2, AreasAssumption
  <2> QED BY <2>1, <2>2, <1>2 DEF Small
<1>14. CASE Open
  <2>0. FileLock
    <3>1. up = FALSE BY <1>2, <1>14 DEF Open, Types
    <3> QED BY <3>1, <1>2 DEF Flags, FileLock
  <2>1. kills' = kills BY <1>14 DEF Open
  <2>2. CASE clean_close
    <3>1. size' = size /\ lost' = lost BY <1>14, <2>2 DEF Open, Store, Mem
    <3> QED BY <3>1, <2>1, <1>2, <1>4
  <2>3. CASE ~clean_close
    <3>1. size' = Recovered.size /\ lost' = Occupied \ Kept BY <1>14, <2>3 DEF Open, Store
    <3>2. size' \in Sizes BY <3>1, <1>2, RecoveredSizes
    <3>3. Occupied \subseteq 1 .. Mem.file_size - 1
      <4>1. AllDbs(Mem, db, O, R) BY <1>1 DEF Struct
      <4> QED BY <4>1, <1>2, <2>0, OccupiedCovers
    <3>4. Mem \in MemType BY <1>2 DEF Types
    <3>5. lost' \subseteq Offset BY <3>1, <3>3, <3>4, Position
    <3> QED BY <2>1, <3>2, <3>5, <1>2 DEF Small
  <2> QED BY <2>2, <2>3
<1>15. CASE UNCHANGED vars BY <1>15, <1>2, <1>4 DEF vars
<1> QED BY <1>5, <1>6, <1>7, <1>8, <1>9, <1>10, <1>11, <1>12, <1>13, <1>14, <1>15 DEF Next

(* Heads, tails, links and sizes stay within the mapped region, and         *)
(* resize_file() never grows the file beyond it.                            *)
THEOREM TypeTheorem == NoCases => (Spec => []TypeOK)
<1> SUFFICES ASSUME NoCases PROVE Spec => []TypeOK OBVIOUS
<1>1. Init => Small
  <2> SUFFICES ASSUME Init PROVE Small OBVIOUS
  <2>1. size = [o \in Offset |-> 0] /\ lost = {} /\ kills = 0 BY DEF Init
  <2>2. 0 \in 0 .. MapSize /\ 0 \in 0 .. MaxKills BY AreasAssumption
  <2> QED BY <2>1, <2>2 DEF Small, Sizes
<1>2. Inv /\ Small /\ [Next]_vars => Small' BY StepSmall
<1>3. Inv /\ Small => TypeOK
  <2> SUFFICES ASSUME Inv, Small PROVE TypeOK OBVIOUS
  <2>1. /\ Mem \in MemType /\ db \in [DBs -> Database] /\ up \in BOOLEAN /\ clean_close \in BOOLEAN
        /\ Mem.next = next /\ Mem.pool = pool /\ Mem.file_size = file_size
    BY DEF Inv, Types, Mem
  <2>2. next \in [Offset -> Offset] /\ pool \in [Kind -> List] /\ file_size \in 1 .. MapSize
    BY <2>1 DEF MemType
  <2> QED BY <2>1, <2>2 DEF TypeOK, Small, Sizes
<1>4. Spec => []Inv BY InvTheorem
<1> QED BY <1>1, <1>2, <1>3, <1>4, PTL DEF Spec
==============================================================================
