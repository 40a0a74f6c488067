----------------------------- MODULE MvccPages -----------------------------
(***************************************************************************)
(* Mvcc: every page has one use, for every number of cursors, keys, pages  *)
(* and transactions.  From it: no page in use is recycled, a write         *)
(* transaction starts from the committed map, and the database implements  *)
(* SnapshotStore.  Left out are the three cases in which that is not so:   *)
(* StorageFull in commit(), repair(), and a crash between the two header   *)
(* stores of prepare_commit() or of rollback().                            *)
(***************************************************************************)
EXTENDS MvccProofs

NoWindows == NoFull /\ "repair" \notin Faults /\ CrashPoints \cap {"cloned", "unprepared"} = {}

(* The free pages of transaction h, when it has the contents x: each is     *)
(* listed once, below the bump pointer, and was freed by h or earlier.      *)
FreeInv(h, x) ==
    \A i \in DOMAIN x.garbage :
        /\ x.garbage[i].page < x.bump /\ x.garbage[i].tid <= h
        /\ \A j \in DOMAIN x.garbage : x.garbage[i].page = x.garbage[j].page => i = j

(* A page p that is allocated, not free and not a transaction page. *)
Taken(h, x, p) ==
    /\ p < x.bump
    /\ \A i \in DOMAIN x.garbage : x.garbage[i].page # p
    /\ \A t \in Tid : x.start <= t /\ t <= h => txns[t].page # p

(* The pages of the transactions of the chain. *)
ChainInv(h, x) ==
    \A t \in Tid : x.start <= t /\ t <= h =>
        /\ txns[t].page < x.bump
        /\ \A i \in DOMAIN x.garbage : x.garbage[i].page # txns[t].page
        /\ \A u \in Tid : x.start <= u /\ u <= h /\ txns[u].page = txns[t].page => u = t

(* The data of h: every page under one key only. *)
RootInv(h, x) ==
    \A k \in Keys : x.root[k] # 0 =>
        /\ Taken(h, x, x.root[k])
        /\ \A l \in Keys : x.root[l] = x.root[k] => l = k

(* The data of an earlier transaction in use: h or one before it may have   *)
(* freed the page, but only after that transaction.                         *)
OlderInv(h, x) ==
    \A t \in InUse, k \in Keys : t < h /\ txns[t].root[k] # 0 =>
        /\ txns[t].root[k] < x.bump
        /\ \A i \in DOMAIN x.garbage : x.garbage[i].page = txns[t].root[k] => t < x.garbage[i].tid
        /\ \A u \in Tid : x.start <= u /\ u <= h => txns[u].page # txns[t].root[k]

PagesOf(h, x) == FreeInv(h, x) /\ ChainInv(h, x) /\ RootInv(h, x) /\ OlderInv(h, x)

(* A page h does not use any more, and one nobody uses. *)
Unused(h, x, p) == Taken(h, x, p) /\ \A k \in Keys : x.root[k] # p
Spare(h, x, p)  == Unused(h, x, p) /\ \A t \in InUse, k \in Keys : t < h => txns[t].root[k] # p

(* n is a transaction with the data of h. *)
CopyOf(n, h) ==
    /\ txns[n].root = txns[h].root /\ txns[n].start = txns[h].start
    /\ txns[n].garbage = txns[h].garbage /\ txns[n].bump = txns[h].bump

(* The transaction the next transaction page is a copy of. *)
CopiedFrom(h) ==
    IF \E c \in Cursors : cur[c].pc = "cloned" THEN h = active_txn
    ELSE IF Prepared THEN h = prepared_txn
    ELSE h = read_txn /\ \A c \in Cursors : cur[c].pc # "unprepared"

(* Every page has one use in the committed, the active and the prepared     *)
(* transaction; ...                                                         *)
HeadsInv == \A h \in Tid : h \in {read_txn, active_txn, prepared_txn} => PagesOf(h, txns[h])
(* ... rollback() can give the page of the last two back; ... *)
ReturnInv ==
    \A g, h \in Tid : g = read_txn /\ h \in {active_txn, prepared_txn} \ {read_txn}
                         => Spare(g, txns[g], txns[h].page)
(* ... the next transaction page is spare and has the data to start from.   *)
SpareInv ==
    \A n, h \in Tid : n = next_txn_page /\ CopiedFrom(h)
                         => CopyOf(n, h) /\ Spare(h, txns[h], txns[n].page)
(* A page in use was written by the transaction that has it or before. *)
StampInv ==
    \A t \in InUse, k \in Keys : txns[t].root[k] # 0 => pages[txns[t].root[k]].txn_id <= t
(* After the walk _start_txn_id is at most the oldest transaction in use. *)
StartIdInv ==
    /\ ~up => start_txn_id = 0
    /\ active_txn # 0 /\ (\A c \in Cursors : cur[c].pc # "locked") => \A t \in InUse : start_txn_id <= t
(* What start_transaction() works on before the cursor moves. *)
StartingInv ==
    \A c \in Cursors :
        /\ cur[c].pc = "locked" => CopyOf(active_txn, read_txn)
        /\ cur[c].pc = "gc" => txns[active_txn].root = txns[read_txn].root

PageInv == HeadsInv /\ ReturnInv /\ SpareInv /\ StampInv /\ StartIdInv /\ StartingInv

-----------------------------------------------------------------------------
(* What the operations of the memory manager do to the pages. *)

(* The numbers in a transaction. *)
LEMMA TxnNumbers ==
    ASSUME NEW x \in Txn
    PROVE  /\ x.page \in Nat /\ x.page # 0 /\ x.start \in Nat /\ x.bump \in Nat /\ x.bump # 0
           /\ \A k \in Keys : x.root[k] \in Nat
           /\ \A i \in DOMAIN x.garbage : /\ x.garbage[i].page \in Nat /\ x.garbage[i].page # 0
                                          /\ x.garbage[i].tid \in Nat
<1>1. /\ x.page \in Page /\ x.start \in Tid /\ x.bump \in 1 .. MaxPage + 1
      /\ \A k \in Keys : x.root[k] \in Page \cup {0}
      /\ x.garbage \in Seq(Freed)
  BY DEF Txn
<1>2. \A i \in DOMAIN x.garbage : x.garbage[i].page \in Page /\ x.garbage[i].tid \in Tid
  <2> HIDE DEF Tid, Page
  <2>1. \A i \in DOMAIN x.garbage : x.garbage[i] \in Freed
    BY <1>1
  <2> QED
    BY <2>1 DEF Freed
<1>3. \A p \in Page : p \in Nat /\ p # 0
  BY MvccAssumption DEF Page
<1>4. x.bump \in Nat /\ x.bump # 0
  BY <1>1, MvccAssumption
<1> QED
  BY <1>1, <1>2, <1>3, <1>4, Ids

LEMMA UseIds == TypeOK => \A t \in InUse : t \in Tid
BY Kinds DEF InUse

LEMMA UseIdsNext ==
    ASSUME TypeOK'
    PROVE  \A t \in InUse' : t \in Tid
<1>1. /\ read_txn' \in Tid /\ prepared_txn' \in Tid /\ active_txn' \in Tid \cup {0}
      /\ \A c \in Cursors : cur'[c].txn \in Tid \cup {0} /\ cur'[c].ref \in Tid \cup {0}
  BY DEF TypeOK
<1> QED
  BY <1>1 DEF InUse

LEMMA StampIds == TypeOK => \A p \in Page : pages[p].txn_id \in Nat
<1> SUFFICES ASSUME TypeOK, NEW p \in Page PROVE pages[p].txn_id \in Nat
  OBVIOUS
<1>1. pages[p].txn_id \in Tid \cup {0}
  BY DEF TypeOK
<1> QED
  BY <1>1, Ids

(* alloc() takes a page that nobody uses, if _start_txn_id is right. *)
LEMMA AllocKeeps ==
    ASSUME TypeOK, NEW h \in Tid, NEW x \in Txn, CanAlloc(x), PagesOf(h, x),
           \A t \in InUse : t < h => start_txn_id <= t
    PROVE  /\ PagesOf(h, Allocated(x)) /\ Spare(h, Allocated(x), AllocPage(x)) /\ AllocPage(x) # 0
           /\ Allocated(x).root = x.root /\ Allocated(x).start = x.start /\ Allocated(x).page = x.page
<1> DEFINE y == Allocated(x)
           p == AllocPage(x)
<1>0. /\ x.page \in Nat /\ x.page # 0 /\ x.start \in Nat /\ x.bump \in Nat /\ x.bump # 0
      /\ \A k \in Keys : x.root[k] \in Nat
      /\ \A i \in DOMAIN x.garbage : /\ x.garbage[i].page \in Nat /\ x.garbage[i].page # 0
                                     /\ x.garbage[i].tid \in Nat
  BY TxnNumbers
<1>1. /\ \A t \in Tid : t \in Nat /\ txns[t].page \in Nat /\ \A k \in Keys : txns[t].root[k] \in Nat
      /\ start_txn_id \in Nat /\ InUse \subseteq Tid
  BY Ids, UseIds, TxnNumbers DEF TypeOK
<1>2. CASE MayRecycle(x)
  <2> DEFINE n == Len(x.garbage)
  <2>1. /\ x.garbage \in Seq(Freed) /\ x.garbage # << >>
        /\ y = [x EXCEPT !.garbage = Tail(x.garbage)] /\ p = x.garbage[1].page
        /\ x.garbage[1].tid < start_txn_id
    BY <1>2 DEF MayRecycle, Allocated, AllocPage, Txn
  <2>2. /\ n \in Nat \ {0} /\ DOMAIN x.garbage = 1 .. n /\ 1 \in DOMAIN x.garbage
        /\ DOMAIN Tail(x.garbage) = 1 .. n - 1
        /\ \A i \in 1 .. n - 1 : Tail(x.garbage)[i] = x.garbage[i + 1]
    BY <2>1
  <2>3. /\ y.root = x.root /\ y.start = x.start /\ y.page = x.page /\ y.bump = x.bump
        /\ y.garbage = Tail(x.garbage)
    BY <2>1 DEF Txn
  <2>4. \A i \in DOMAIN y.garbage : /\ i \in Nat /\ i + 1 \in DOMAIN x.garbage /\ i + 1 # 1
                                    /\ y.garbage[i] = x.garbage[i + 1]
    BY <2>2, <2>3
  <2> HIDE DEF y, p, n
  <2>5. /\ p \in Nat /\ p # 0 /\ p < y.bump
        /\ \A i \in DOMAIN y.garbage : y.garbage[i].page # p
        /\ \A t \in Tid : y.start <= t /\ t <= h => txns[t].page # p
        /\ \A k \in Keys : x.root[k] # p
    BY <1>0, <2>1, <2>2, <2>3, <2>4 DEF PagesOf, FreeInv, ChainInv, RootInv, Taken
  <2>6. \A t \in InUse, k \in Keys : t < h => txns[t].root[k] # p
    <3> SUFFICES ASSUME NEW t \in InUse, NEW k \in Keys, t < h, txns[t].root[k] = p PROVE FALSE
      OBVIOUS
    <3>1. t < x.garbage[1].tid
      BY <2>1, <2>2, <2>5 DEF PagesOf, OlderInv
    <3>2. t \in Nat /\ x.garbage[1].tid \in Nat /\ start_txn_id \in Nat
      BY <1>0, <1>1, <2>2
    <3> QED
      BY <2>1, <3>1, <3>2
  <2>7. FreeInv(h, y)
    BY <2>3, <2>4 DEF PagesOf, FreeInv
  <2>8. ChainInv(h, y)
    BY <2>3, <2>4 DEF PagesOf, ChainInv
  <2>9. RootInv(h, y)
    BY <2>3, <2>4 DEF PagesOf, RootInv, Taken
  <2>10. OlderInv(h, y)
    BY <2>3, <2>4 DEF PagesOf, OlderInv
  <2> QED
    BY <2>3, <2>5, <2>6, <2>7, <2>8, <2>9, <2>10 DEF PagesOf, Spare, Unused, Taken, y, p
<1>3. CASE ~MayRecycle(x)
  <2>1. y = [x EXCEPT !.bump = x.bump + 1] /\ p = x.bump
    BY <1>3 DEF Allocated, AllocPage
  <2>2. /\ y.root = x.root /\ y.start = x.start /\ y.page = x.page /\ y.bump = x.bump + 1
        /\ y.garbage = x.garbage
    BY <2>1 DEF Txn
  <2> HIDE DEF y, p
  <2>3. \A q \in Nat : q < x.bump => q < y.bump /\ q # p
    BY <1>0, <2>1, <2>2
  <2>4. p < y.bump /\ p # 0 /\ p \in Nat
    BY <1>0, <2>1, <2>2
  <2>5. FreeInv(h, y) /\ \A i \in DOMAIN y.garbage : y.garbage[i].page # p
    BY <1>0, <2>2, <2>3 DEF PagesOf, FreeInv
  <2>6. ChainInv(h, y) /\ \A t \in Tid : y.start <= t /\ t <= h => txns[t].page # p
    BY <1>1, <2>2, <2>3 DEF PagesOf, ChainInv
  <2>7. RootInv(h, y) /\ \A k \in Keys : y.root[k] # p
    BY <1>0, <2>2, <2>3, <2>4 DEF PagesOf, RootInv, Taken
  <2>8. OlderInv(h, y) /\ \A t \in InUse, k \in Keys : t < h => txns[t].root[k] # p
    BY <1>1, <2>2, <2>3, <2>4 DEF PagesOf, OlderInv
  <2> QED
    BY <2>2, <2>4, <2>5, <2>6, <2>7, <2>8 DEF PagesOf, Spare, Unused, Taken, y, p
<1> QED
  BY <1>2, <1>3

(* A key gets a page that nobody uses, or none. *)
LEMMA LinkKeeps ==
    ASSUME NEW h \in Tid, NEW x, NEW y, NEW k \in Keys, NEW q, x.root \in [Keys -> Page \cup {0}],
           PagesOf(h, x), q = 0 \/ Unused(h, x, q),
           y.root = [x.root EXCEPT ![k] = q], y.start = x.start, y.garbage = x.garbage, y.bump = x.bump
    PROVE  PagesOf(h, y) /\ (x.root[k] # 0 /\ x.root[k] # q => Unused(h, y, x.root[k]))
<1>1. /\ y.root[k] = q /\ \A l \in Keys \ {k} : y.root[l] = x.root[l]
  OBVIOUS
<1>2. FreeInv(h, y)
  BY DEF PagesOf, FreeInv
<1>3. ChainInv(h, y)
  BY DEF PagesOf, ChainInv
<1>4. OlderInv(h, y)
  BY DEF PagesOf, OlderInv
<1>5. RootInv(h, y)
  BY <1>1 DEF PagesOf, RootInv, Unused, Taken
<1>6. x.root[k] # 0 /\ x.root[k] # q => Unused(h, y, x.root[k])
  BY <1>1 DEF PagesOf, RootInv, Unused, Taken
<1> QED
  BY <1>2, <1>3, <1>4, <1>5, <1>6 DEF PagesOf

(* free() of a page h does not use any more. *)
LEMMA FreeKeeps ==
    ASSUME TypeOK, NEW h \in Tid, NEW x \in Txn, NEW y, NEW p, PagesOf(h, x), Unused(h, x, p),
           y.garbage = Append(x.garbage, [page |-> p, tid |-> h]),
           y.root = x.root, y.start = x.start, y.bump = x.bump
    PROVE  PagesOf(h, y)
<1> DEFINE n == Len(x.garbage)
<1>1. /\ x.garbage \in Seq(Freed) /\ n \in Nat /\ DOMAIN x.garbage = 1 .. n
      /\ DOMAIN y.garbage = 1 .. n + 1
      /\ y.garbage[n + 1] = [page |-> p, tid |-> h]
      /\ \A i \in 1 .. n : y.garbage[i] = x.garbage[i]
  BY DEF Txn
<1>2. /\ \A i \in DOMAIN y.garbage : \/ i \in DOMAIN x.garbage /\ y.garbage[i] = x.garbage[i]
                                     \/ i = n + 1 /\ y.garbage[i].page = p /\ y.garbage[i].tid = h
      /\ h <= h
  BY <1>1, Ids
<1> HIDE DEF n
<1>3. FreeInv(h, y)
  BY <1>2 DEF PagesOf, FreeInv, Unused, Taken
<1>4. ChainInv(h, y)
  BY <1>2 DEF PagesOf, ChainInv, Unused, Taken
<1>5. RootInv(h, y)
  BY <1>2 DEF PagesOf, RootInv, Unused, Taken
<1>6. OlderInv(h, y)
  BY <1>2 DEF PagesOf, OlderInv
<1> QED
  BY <1>3, <1>4, <1>5, <1>6 DEF PagesOf

-----------------------------------------------------------------------------
(* From one state to the next. *)

(* What h has in the next state, and that the others have not changed. *)
Has(h, x) ==
    /\ txns'[h].root = x.root /\ txns'[h].start = x.start
    /\ txns'[h].garbage = x.garbage /\ txns'[h].bump = x.bump
Before(h) ==
    /\ \A t \in Tid : t <= h => txns'[t].page = txns[t].page
    /\ \A t \in Tid : t < h => txns'[t].root = txns[t].root
    /\ \A t \in InUse' : t \in Tid /\ (t < h => t \in InUse)

LEMMA PagesNext ==
    ASSUME NEW h \in Tid, NEW x, PagesOf(h, x), Has(h, x), Before(h)
    PROVE  PagesOf(h, txns[h])'
<1>1. FreeInv(h, txns[h])'
  BY DEF PagesOf, FreeInv, Has
<1>2. ChainInv(h, txns[h])'
  BY DEF PagesOf, ChainInv, Has, Before
<1>3. RootInv(h, txns[h])'
  BY DEF PagesOf, RootInv, Taken, Has, Before
<1>4. OlderInv(h, txns[h])'
  BY DEF PagesOf, OlderInv, Has, Before
<1> QED
  BY <1>1, <1>2, <1>3, <1>4 DEF PagesOf

LEMMA SpareNext ==
    ASSUME NEW h \in Tid, NEW n \in Tid, NEW x, NEW p, Spare(h, x, p), Has(h, x), Before(h), txns'[n].page = p
    PROVE  Spare(h, txns[h], txns[n].page)'
BY DEF Spare, Unused, Taken, Has, Before

(* A transaction t whose data stays where it is. *)
Same(t) ==
    /\ txns'[t].page = txns[t].page /\ txns'[t].root = txns[t].root /\ txns'[t].start = txns[t].start
    /\ txns'[t].garbage = txns[t].garbage /\ txns'[t].bump = txns[t].bump

(* Which transactions are in use after a step of cursors. *)
LEMMA UseShrinks ==
    ASSUME \A d \in Cursors : /\ cur'[d].txn \in {0, cur[d].txn, cur[d].ref, read_txn, active_txn}
                              /\ cur'[d].ref \in {0, cur[d].txn, cur[d].ref, read_txn, active_txn},
           {read_txn', prepared_txn', active_txn'} \subseteq {0, read_txn, prepared_txn, active_txn}
    PROVE  InUse' \subseteq InUse
BY DEF InUse

(* A step that moves no data. *)
LEMMA NoDataStep ==
    ASSUME TypeOK, TypeOK', PageInv, pages' = pages, next_txn_page' = next_txn_page,
           \A t \in Tid : Same(t), InUse' \subseteq InUse,
           {read_txn', prepared_txn', active_txn'} \subseteq {0, read_txn, prepared_txn, active_txn},
           \A g, h \in Tid : g = read_txn' /\ h \in {active_txn', prepared_txn'} \ {read_txn'}
               => g = read_txn /\ h \in {active_txn, prepared_txn} \ {read_txn},
           next_txn_page # 0 => \A h \in Tid : CopiedFrom(h)' => CopiedFrom(h)
    PROVE  HeadsInv' /\ ReturnInv' /\ SpareInv' /\ StampInv'
<1>1. InUse \subseteq Tid /\ InUse' \subseteq Tid /\ 0 \notin Tid
  BY UseIds, Ids
<1>2. \A h \in Tid : Has(h, txns[h]) /\ Before(h)
  BY <1>1 DEF Same, Has, Before
<1>3. HeadsInv'
  <2> SUFFICES ASSUME NEW h \in Tid, h \in {read_txn', active_txn', prepared_txn'}
               PROVE  PagesOf(h, txns[h])'
    BY DEF HeadsInv
  <2>1. PagesOf(h, txns[h])
    BY <1>1 DEF PageInv, HeadsInv
  <2> QED
    BY <1>2, <2>1, PagesNext
<1>4. ReturnInv'
  <2> SUFFICES ASSUME NEW g \in Tid, NEW h \in Tid,
                      g = read_txn', h \in {active_txn', prepared_txn'} \ {read_txn'}
               PROVE  Spare(g, txns[g], txns[h].page)'
    BY DEF ReturnInv
  <2>1. Spare(g, txns[g], txns[h].page)
    BY DEF PageInv, ReturnInv
  <2> QED
    BY <1>2, <2>1, SpareNext DEF Same
<1>5. SpareInv'
  <2> SUFFICES ASSUME NEW n \in Tid, NEW h \in Tid, n = next_txn_page', CopiedFrom(h)'
               PROVE  CopyOf(n, h)' /\ Spare(h, txns[h], txns[n].page)'
    BY DEF SpareInv
  <2>1. CopyOf(n, h) /\ Spare(h, txns[h], txns[n].page)
    BY <1>1 DEF PageInv, SpareInv
  <2>2. CopyOf(n, h)'
    BY <2>1 DEF CopyOf, Same
  <2> QED
    BY <1>2, <2>1, <2>2, SpareNext DEF Same
<1>6. StampInv'
  BY <1>1 DEF PageInv, StampInv, Same
<1> QED
  BY <1>3, <1>4, <1>5, <1>6

(* Counting a reference leaves the data alone. *)
Alike(x, y) ==
    /\ x.page = y.page /\ x.root = y.root /\ x.start = y.start
    /\ x.garbage = y.garbage /\ x.bump = y.bump

LEMMA CountOnly ==
    ASSUME NEW f \in [Tid -> Txn], NEW u \in Tid, NEW r \in 0 .. MaxRefs, NEW g, g = [f EXCEPT ![u].refs = r]
    PROVE  g \in [Tid -> Txn] /\ \A t \in Tid : Alike(g[t], f[t])
<1>1. f[u] \in Txn /\ g[u] = [f[u] EXCEPT !.refs = r] /\ \A t \in Tid \ {u} : g[t] = f[t]
  OBVIOUS
<1>2. g[u] \in Txn
  BY <1>1 DEF Txn
<1>3. Alike(g[u], f[u])
  BY <1>1 DEF Alike, Txn
<1> QED
  BY <1>1, <1>2, <1>3 DEF Alike

LEMMA CountRange == \A r \in 0 .. MaxRefs : Inc(r) \in 0 .. MaxRefs /\ Dec(r) \in 0 .. MaxRefs
BY MvccAssumption DEF Inc, Dec

LEMMA StartKept ==
    ASSUME IInv, PageInv, \A t \in Tid : Same(t), InUse' \subseteq InUse,
           up' = up, start_txn_id' = start_txn_id, active_txn' # 0 => active_txn # 0,
           \A d \in Cursors : \/ cur'[d].pc = cur[d].pc
                              \/ {cur[d].pc, cur'[d].pc} \cap {"locked", "gc"} = {}
                              \/ cur[d].pc = "gc" /\ cur'[d].pc = "idle",
           Starting' => read_txn' = read_txn /\ active_txn' = active_txn
    PROVE  StartIdInv' /\ StartingInv'
<1>1. StartIdInv'
  BY DEF PageInv, StartIdInv
<1>2. StartingInv'
  <2> SUFFICES ASSUME NEW d \in Cursors, cur'[d].pc \in {"locked", "gc"}
               PROVE  /\ cur'[d].pc = "locked" => CopyOf(active_txn, read_txn)'
                      /\ cur'[d].pc = "gc" => txns'[active_txn'].root = txns'[read_txn'].root
    BY DEF StartingInv
  <2>1. cur[d].pc = cur'[d].pc
    OBVIOUS
  <2>2. read_txn' = read_txn /\ active_txn' = active_txn
    BY DEF Starting
  <2>3. active_txn \in Tid /\ read_txn \in Tid
    BY <2>1, Alone DEF WritePoints, IInv, TypeOK
  <2>4. /\ cur[d].pc = "locked" => CopyOf(active_txn, read_txn)
        /\ cur[d].pc = "gc" => txns[active_txn].root = txns[read_txn].root
    BY DEF PageInv, StartingInv
  <2> QED
    BY <2>1, <2>2, <2>3, <2>4 DEF CopyOf, Same
<1> QED
  BY <1>1, <1>2

-----------------------------------------------------------------------------
(* The steps that move no data. *)

(* A reference count is no data. *)
LEMMA ReaderSame ==
    ASSUME IInv, NEW c \in Cursors,
           TxnRef(c) \/ Update(c) \/ Close(c) \/ EnterTransaction(c) \/ RollbackRef(c)
    PROVE  \A t \in Tid : Same(t)
<1>b. TypeOK /\ read_txn \in Tid
  BY Kinds DEF IInv
<1>0. txns \in [Tid -> Txn] /\ \A t \in Tid : txns[t].refs \in 0 .. MaxRefs
  BY <1>b, Kinds DEF TypeOK
<1>a. ASSUME NEW u, txns' = [txns EXCEPT ![u].refs = Inc(@)] \/ txns' = [txns EXCEPT ![u].refs = Dec(@)]
      PROVE  \A t \in Tid : Same(t)
  <2>1. CASE u \in Tid
    <3>1. PICK r \in 0 .. MaxRefs : txns' = [txns EXCEPT ![u].refs = r]
      BY <1>0, <1>a, <2>1, CountRange
    <3> QED
      BY <1>0, <2>1, <3>1, CountOnly DEF Alike, Same
  <2>2. CASE u \notin Tid
    BY <1>0, <1>a, <2>2 DEF Same
  <2> QED
    BY <2>1, <2>2
<1>1. CASE TxnRef(c) \/ RollbackRef(c)
  BY <1>1, <1>a DEF TxnRef, RollbackRef
<1>2. CASE Update(c)
  <2>1. CASE txns' = txns
    BY <2>1 DEF Same
  <2>2. CASE txns' # txns
    BY <1>2, <1>a, <2>2 DEF Update
  <2> QED
    BY <2>1, <2>2
<1>3. CASE Close(c)
  BY <1>3, <1>a DEF Close
<1>4. CASE EnterTransaction(c)
  <2> DEFINE unpinned == [txns EXCEPT ![read_txn].refs = Dec(@)]
             left     == [unpinned EXCEPT ![cur[c].txn].refs = Dec(@)]
  <2>1. txns' = [left EXCEPT ![active_txn].refs = Inc(@)]
    BY <1>4 DEF EnterTransaction
  <2>2. cur[c].txn \in Tid /\ active_txn \in Tid
    BY <1>b, <1>4, Alone, Kinds DEF EnterTransaction, At, IInv, CursorInv, WritePoints
  <2>3. unpinned \in [Tid -> Txn] /\ \A t \in Tid : Alike(unpinned[t], txns[t])
    BY <1>b, <1>0, CountOnly, CountRange
  <2> HIDE DEF unpinned
  <2>4. left \in [Tid -> Txn] /\ \A t \in Tid : Alike(left[t], unpinned[t])
    <3>1. Dec(unpinned[cur[c].txn].refs) \in 0 .. MaxRefs
      BY <2>2, <2>3, CountRange DEF Txn
    <3> QED
      BY <2>2, <2>3, <3>1, CountOnly
  <2> HIDE DEF left
  <2>5. \A t \in Tid : Alike(txns'[t], left[t])
    <3>1. Inc(left[active_txn].refs) \in 0 .. MaxRefs
      BY <2>2, <2>4, CountRange DEF Txn
    <3> QED
      BY <2>1, <2>2, <2>4, <3>1, CountOnly
  <2> QED
    BY <2>3, <2>4, <2>5 DEF Same, Alike
<1> QED
  BY <1>1, <1>2, <1>3, <1>4

(* Readers: txn_ref(), update(), the destructor, and the references of      *)
(* start_transaction() and rollback().                                      *)
LEMMA ReaderPages ==
    ASSUME IInv, IInv', RefInv, PageInv, NEW c \in Cursors,
           TxnRef(c) \/ Update(c) \/ Close(c) \/ EnterTransaction(c) \/ RollbackRef(c)
    PROVE  PageInv'
<1>0. TypeOK /\ TypeOK' /\ read_txn \in Tid
  BY Kinds DEF IInv
<1>1. /\ UNCHANGED <<read_txn, prepared_txn, next_txn_page, active_txn, start_txn_id, up, pages>>
      /\ \A d \in Cursors \ {c} : cur'[d] = cur[d]
  BY <1>0 DEF TxnRef, Update, Close, EnterTransaction, RollbackRef, header, object, TypeOK
<1>2. /\ cur'[c].txn \in {0, cur[c].txn, cur[c].ref, read_txn, active_txn}
      /\ cur'[c].ref \in {0, cur[c].txn, cur[c].ref, read_txn, active_txn}
      /\ \/ {cur[c].pc, cur'[c].pc} \cap {"locked", "gc"} = {}
         \/ cur[c].pc = "gc" /\ cur'[c].pc = "idle"
      /\ {cur[c].pc, cur'[c].pc} \cap {"cloned", "unprepared"} = {}
  <2>1. CASE TxnRef(c)
    BY <1>0, <2>1 DEF TxnRef, At, TypeOK
  <2>2. CASE Update(c)
    BY <1>0, <2>2 DEF Update, At, TypeOK
  <2>3. CASE Close(c)
    BY <1>0, <2>3 DEF Close, At, TypeOK
  <2>4. CASE EnterTransaction(c)
    BY <1>0, <2>4 DEF EnterTransaction, At, TypeOK
  <2>5. CASE RollbackRef(c)
    BY <1>0, <2>5 DEF RollbackRef, At, TypeOK
  <2> QED
    BY <2>1, <2>2, <2>3, <2>4, <2>5
<1>3. \A t \in Tid : Same(t)
  BY ReaderSame
<1>4. InUse' \subseteq InUse
  <2>1. \A d \in Cursors : /\ cur'[d].txn \in {0, cur[d].txn, cur[d].ref, read_txn, active_txn}
                           /\ cur'[d].ref \in {0, cur[d].txn, cur[d].ref, read_txn, active_txn}
    BY <1>1, <1>2
  <2> QED
    BY <1>1, <2>1, UseShrinks
<1>5. \A h \in Tid : CopiedFrom(h)' => CopiedFrom(h)
  <2>1. \A d \in Cursors : /\ cur'[d].pc = "cloned" <=> cur[d].pc = "cloned"
                           /\ cur'[d].pc = "unprepared" <=> cur[d].pc = "unprepared"
    BY <1>1, <1>2
  <2> QED
    BY <1>1, <2>1 DEF CopiedFrom, Prepared
<1>6. HeadsInv' /\ ReturnInv' /\ SpareInv' /\ StampInv'
  BY <1>0, <1>1, <1>3, <1>4, <1>5, NoDataStep
<1>7. StartIdInv' /\ StartingInv'
  BY <1>1, <1>2, <1>3, <1>4, StartKept
<1> QED
  BY <1>6, <1>7 DEF PageInv

(* Writers: the header stores of prepare_commit(), commit() and rollback(). *)
LEMMA HeaderPages ==
    ASSUME IInv, IInv', RefInv, PageInv, NEW c \in Cursors,
           PrepareMark(c) \/ CommitSwitch(c) \/ CommitEnd(c) \/ RollbackUnprepare(c)
    PROVE  PageInv'
<1>0. TypeOK /\ TypeOK' /\ read_txn \in Tid
  BY Kinds DEF IInv
<1>1. /\ UNCHANGED <<next_txn_page, start_txn_id, up, pages, txns>> /\ up
      /\ cur'[c].txn = cur[c].txn /\ cur'[c].ref = cur[c].ref
      /\ {cur[c].pc, cur'[c].pc} \cap {"locked", "gc"} = {}
      /\ \A d \in Cursors \ {c} : cur'[d] = cur[d]
  BY <1>0 DEF PrepareMark, CommitSwitch, CommitEnd, RollbackUnprepare, EndTransaction, Goto, object, At, TypeOK
<1>2. /\ txn_cursor_id = c /\ active_txn \in Tid /\ active_txn # 0
      /\ \A d \in Cursors \ {c} : cur[d].pc \notin WritePoints
  BY <1>1, Alone, Ids DEF PrepareMark, CommitSwitch, CommitEnd, RollbackUnprepare, At, Owner, WritePoints
<1>3. (\A t \in Tid : Same(t)) /\ ~Starting'
  BY <1>1, <1>2 DEF Same, Starting, WritePoints
<1>4. /\ {read_txn', prepared_txn', active_txn'} \subseteq {0, read_txn, prepared_txn, active_txn}
      /\ \A g, h \in Tid : g = read_txn' /\ h \in {active_txn', prepared_txn'} \ {read_txn'}
               => g = read_txn /\ h \in {active_txn, prepared_txn} \ {read_txn}
      /\ \A h \in Tid : CopiedFrom(h)' => CopiedFrom(h)
  <2>1. CASE PrepareMark(c)
    <3>1. /\ UNCHANGED <<read_txn, active_txn>> /\ prepared_txn' = active_txn /\ cur[c].pc = "cloned"
          /\ cur'[c].pc = "idle"
      BY <1>0, <2>1 DEF PrepareMark, At, Goto, object, TypeOK
    <3>2. active_txn # read_txn
      BY <1>0, <1>1, <1>2, <3>1, OwnerKnows, Numbers
    <3>3. \A h \in Tid : CopiedFrom(h)' => h = active_txn
      BY <1>1, <1>2, <3>1, <3>2 DEF CopiedFrom, Prepared, WritePoints
    <3> QED
      BY <3>1, <3>3 DEF CopiedFrom
  <2>2. CASE CommitSwitch(c)
    <3>1. /\ UNCHANGED <<prepared_txn, active_txn>> /\ read_txn' = prepared_txn /\ cur[c].pc = "idle"
          /\ Prepared
      BY <1>0, <2>2 DEF CommitSwitch, At, Goto, object, TypeOK
    <3>2. active_txn = prepared_txn
      BY <1>1, <3>1 DEF RefInv, PhaseInv
    <3>3. \A d \in Cursors : cur[d].pc # "cloned"
      BY <1>2, <3>1 DEF WritePoints
    <3>4. \A h \in Tid : CopiedFrom(h) <=> h = prepared_txn
      BY <3>1, <3>3 DEF CopiedFrom
    <3>5. \A h \in Tid : CopiedFrom(h)' => h = prepared_txn
      BY <3>1, <3>2 DEF CopiedFrom, Prepared
    <3> QED
      BY <3>1, <3>2, <3>4, <3>5
  <2>3. CASE CommitEnd(c)
    <3>1. /\ UNCHANGED <<prepared_txn, read_txn>> /\ active_txn' = 0 /\ cur[c].pc = "switched"
          /\ cur'[c].pc = "idle"
      BY <1>0, <2>3 DEF CommitEnd, EndTransaction, At, Goto, object, TypeOK
    <3>2. /\ \A d \in Cursors : /\ cur[d].pc \notin {"cloned", "unprepared"}
                                /\ cur'[d].pc \notin {"cloned", "unprepared"}
      BY <1>1, <1>2, <3>1 DEF WritePoints
    <3>3. \A h \in Tid : CopiedFrom(h)' => CopiedFrom(h)
      BY <3>1, <3>2 DEF CopiedFrom, Prepared
    <3> QED
      BY <3>1, <3>3, Ids
  <2>4. CASE RollbackUnprepare(c)
    <3>1. /\ UNCHANGED <<active_txn, read_txn>> /\ prepared_txn' = read_txn /\ cur'[c].pc = "unprepared"
      BY <1>0, <2>4 DEF RollbackUnprepare, Goto, object, TypeOK
    <3>2. \A d \in Cursors : cur'[d].pc # "cloned"
      BY <1>1, <1>2, <3>1 DEF WritePoints
    <3>3. \A h \in Tid : ~CopiedFrom(h)'
      BY <3>1, <3>2 DEF CopiedFrom, Prepared
    <3> QED
      BY <3>1, <3>3
  <2> QED
    BY <2>1, <2>2, <2>3, <2>4
<1>5. InUse' \subseteq InUse
  <2>1. \A d \in Cursors : /\ cur'[d].txn \in {0, cur[d].txn, cur[d].ref, read_txn, active_txn}
                           /\ cur'[d].ref \in {0, cur[d].txn, cur[d].ref, read_txn, active_txn}
    BY <1>1
  <2> QED
    BY <1>4, <2>1, UseShrinks
<1>6. HeadsInv' /\ ReturnInv' /\ SpareInv' /\ StampInv'
  BY <1>0, <1>1, <1>3, <1>4, <1>5, NoDataStep
<1>7. StartIdInv' /\ StartingInv'
  BY <1>1, <1>2, <1>3, <1>5, StartKept
<1> QED
  BY <1>6, <1>7 DEF PageInv

(* A crash, outside of the windows; commit() of a recovered transaction. *)
LEMMA CrashPages ==
    ASSUME NoWindows, IInv, IInv', RefInv, PageInv, Crash
    PROVE  PageInv'
<1>0. TypeOK /\ TypeOK'
  BY DEF IInv
<1>1. /\ UNCHANGED <<read_txn, prepared_txn, next_txn_page, pages, txns>>
      /\ up' = FALSE /\ active_txn' = 0 /\ start_txn_id' = 0
      /\ \A d \in Cursors : /\ cur[d].pc \notin {"cloned", "unprepared"}
                            /\ cur'[d].pc = "closed" /\ cur'[d].txn = 0 /\ cur'[d].ref = 0
  BY DEF Crash, header, NoWindows
<1>2. (\A t \in Tid : Same(t)) /\ InUse' \subseteq InUse
  BY <1>1, UseShrinks DEF Same
<1>3. \A h \in Tid : CopiedFrom(h)' => CopiedFrom(h)
  BY <1>1 DEF CopiedFrom, Prepared
<1>4. HeadsInv' /\ ReturnInv' /\ SpareInv' /\ StampInv'
  BY <1>0, <1>1, <1>2, <1>3, Ids, NoDataStep
<1>5. StartIdInv' /\ StartingInv'
  BY <1>1 DEF StartIdInv, StartingInv
<1> QED
  BY <1>4, <1>5 DEF PageInv

LEMMA CommitRecoveredPages ==
    ASSUME IInv, IInv', RefInv, PageInv, CommitRecovered
    PROVE  PageInv'
<1>0. TypeOK /\ TypeOK'
  BY DEF IInv
<1>1. /\ UNCHANGED <<prepared_txn, next_txn_page, pages, txns, start_txn_id, up, cur>>
      /\ read_txn' = prepared_txn /\ active_txn' = 0 /\ up /\ Prepared /\ txn_cursor_id = NoCursor
  BY DEF CommitRecovered, EndTransaction, Recovered, IInv, NextPageInv
<1>2. \A d \in Cursors : cur[d].pc \notin WritePoints /\ cur[d].pc \notin {"cloned", "locked", "gc"}
  BY <1>1, Ownerless DEF WritePoints
<1>3. (\A t \in Tid : Same(t)) /\ InUse' \subseteq InUse
  BY <1>1, UseShrinks DEF Same
<1>4. \A h \in Tid : CopiedFrom(h)' => CopiedFrom(h)
  BY <1>1, <1>2 DEF CopiedFrom, Prepared
<1>5. HeadsInv' /\ ReturnInv' /\ SpareInv' /\ StampInv'
  BY <1>0, <1>1, <1>3, <1>4, Ids, NoDataStep
<1>6. StartIdInv' /\ StartingInv'
  BY <1>1, <1>2 DEF PageInv, StartIdInv, StartingInv
<1> QED
  BY <1>5, <1>6 DEF PageInv

-----------------------------------------------------------------------------
(* The steps that move data. *)

(* The transactions in use are committed ones and the active one. *)
LEMMA UseBound ==
    ASSUME IInv, RefInv, NEW t \in InUse
    PROVE  t \in Tid /\ (t <= read_txn \/ t = prepared_txn \/ t = active_txn)
           /\ (up => t <= read_txn \/ t = active_txn)
<1>1. TypeOK /\ read_txn \in Nat /\ t \in Tid
  BY UseIds, Numbers DEF IInv
<1>2. \A c \in Cursors : /\ cur[c].ref <= read_txn
                         /\ cur[c].txn <= read_txn \/ cur[c].txn = active_txn
  BY DEF RefInv, HoldInv
<1>3. t <= read_txn \/ t = prepared_txn \/ t = active_txn
  BY <1>1, <1>2 DEF InUse
<1>4. up /\ prepared_txn # read_txn => prepared_txn = active_txn
  BY DEF RefInv, PhaseInv, Prepared
<1> QED
  BY <1>1, <1>3, <1>4

(* The rest of rollback(): the page of the active transaction gets the data *)
(* of the committed one.                                                    *)
LEMMA DropPages ==
    ASSUME IInv, IInv', RefInv, PageInv, up, active_txn = read_txn + 1, active_txn \in Tid, DropActive,
           read_txn' = read_txn, prepared_txn' = read_txn, UNCHANGED <<pages, up, start_txn_id>>,
           InUse' \subseteq InUse \ {active_txn},
           \A d \in Cursors : cur'[d].pc \notin {"cloned", "unprepared", "locked", "gc"}
    PROVE  PageInv'
<1>0. TypeOK /\ TypeOK' /\ read_txn \in Tid /\ read_txn \in Nat
  BY Kinds, Numbers DEF IInv
<1>1. /\ txns' = [t \in Tid |-> IF t < active_txn THEN txns[t] ELSE Recycled]
      /\ next_txn_page' = active_txn /\ active_txn' = 0
  BY DEF DropActive, EndTransaction
<1>2. Recycled.page = txns[active_txn].page /\ Recycled.root = txns[read_txn].root
      /\ Recycled.start = txns[read_txn].start /\ Recycled.garbage = txns[read_txn].garbage
      /\ Recycled.bump = txns[read_txn].bump
  BY <1>0 DEF Recycled, TypeOK, Txn
<1>3. \A t \in Tid : t <= read_txn => t < active_txn
  BY <1>0, Ids
<1>4. \A t \in Tid : t <= read_txn => txns'[t] = txns[t]
  BY <1>1, <1>3
<1>5. txns'[active_txn] = Recycled
  BY <1>0, <1>1, Ids
<1>6. InUse \subseteq Tid /\ InUse' \subseteq Tid /\ 0 \notin Tid /\ read_txn <= read_txn
  BY <1>0, UseIds, Ids
<1>7. /\ Has(read_txn, txns[read_txn]) /\ Before(read_txn)
  <2>1. \A t \in Tid : t < read_txn => t <= read_txn
    BY <1>0, Ids
  <2> QED
    BY <1>0, <1>4, <1>6, <2>1 DEF Has, Before
<1>8. HeadsInv'
  <2>1. PagesOf(read_txn, txns[read_txn])
    BY <1>0 DEF PageInv, HeadsInv
  <2>2. \A h \in Tid : h = read_txn => PagesOf(h, txns[h])'
    BY <1>0, <1>7, <2>1, PagesNext
  <2> QED
    BY <1>1, <1>6, <2>2 DEF HeadsInv
<1>9. ReturnInv'
  BY <1>1, <1>6 DEF ReturnInv
<1>10. SpareInv'
  <2>1. Spare(read_txn, txns[read_txn], txns[active_txn].page)
    BY <1>0 DEF PageInv, ReturnInv
  <2>2. \A h, n \in Tid : h = read_txn /\ n = active_txn => Spare(h, txns[h], txns[n].page)'
    BY <1>0, <1>2, <1>5, <1>7, <2>1, SpareNext
  <2>3. \A h, n \in Tid : h = read_txn /\ n = active_txn => CopyOf(n, h)'
    BY <1>0, <1>2, <1>4, <1>5, <1>6 DEF CopyOf
  <2>4. \A h \in Tid : CopiedFrom(h)' => h = read_txn
    BY DEF CopiedFrom, Prepared
  <2> QED
    BY <1>1, <2>2, <2>3, <2>4 DEF SpareInv
<1>11. StampInv'
  <2>1. \A t \in InUse' : t \in InUse /\ t <= read_txn /\ t \in Tid
    BY <1>6, UseBound
  <2> QED
    BY <1>4, <2>1 DEF PageInv, StampInv
<1>12. StartIdInv' /\ StartingInv'
  BY <1>1 DEF PageInv, StartIdInv, StartingInv
<1> QED
  BY <1>8, <1>9, <1>10, <1>11, <1>12 DEF PageInv

LEMMA RollbackPages ==
    ASSUME IInv, IInv', RefInv, PageInv, NEW c \in Cursors, RollbackEnd(c)
    PROVE  PageInv'
<1>0. TypeOK
  BY DEF IInv
<1>1. /\ up /\ cur[c].pc = "unprepared" /\ DropActive /\ active_txn' = 0
      /\ UNCHANGED <<read_txn, prepared_txn, pages, start_txn_id, up>>
      /\ cur'[c].pc = "rolled" /\ cur'[c].txn = 0 /\ cur'[c].ref = 0
      /\ \A d \in Cursors \ {c} : cur'[d] = cur[d]
  BY <1>0 DEF RollbackEnd, DropActive, EndTransaction, At, TypeOK
<1>2. /\ active_txn \in Tid /\ active_txn = read_txn + 1
      /\ \A d \in Cursors \ {c} : cur[d].pc \notin WritePoints /\ ~Owner(d)
  BY <1>1, OwnerKnows
<1>3. prepared_txn = read_txn /\ read_txn \in Nat /\ active_txn # read_txn
  BY <1>0, <1>1, <1>2, Numbers DEF IInv, NextPageInv, Prepared
<1>4. \A d \in Cursors : cur'[d].txn # active_txn /\ cur'[d].ref # active_txn
  <2>1. \A d \in Cursors \ {c} : cur[d].txn <= read_txn /\ cur[d].ref <= read_txn
    BY <1>2 DEF RefInv, HoldInv
  <2> QED
    BY <1>1, <1>2, <1>3, <2>1, Ids
<1>5. InUse' \subseteq InUse \ {active_txn}
  <2>1. InUse' \subseteq InUse
    BY <1>1, UseShrinks
  <2>2. active_txn \notin InUse'
    BY <1>1, <1>2, <1>3, <1>4, Ids DEF InUse
  <2> QED
    BY <2>1, <2>2
<1>6. \A d \in Cursors : cur'[d].pc \notin {"cloned", "unprepared", "locked", "gc"}
  BY <1>1, <1>2 DEF WritePoints
<1> QED
  BY <1>1, <1>2, <1>3, <1>5, <1>6, DropPages

LEMMA RollbackRecoveredPages ==
    ASSUME IInv, IInv', RefInv, PageInv, RollbackRecovered
    PROVE  PageInv'
<1>0. TypeOK
  BY DEF IInv
<1>1. /\ up /\ Recovered /\ Prepared /\ txn_cursor_id = NoCursor /\ DropActive /\ active_txn' = 0
      /\ UNCHANGED <<read_txn, pages, start_txn_id, up, cur>> /\ prepared_txn' = read_txn
  BY DEF RollbackRecovered, Recovered, DropActive, EndTransaction, IInv, NextPageInv
<1>2. \A d \in Cursors : ~Owner(d) /\ cur[d].pc \notin WritePoints
  BY <1>1, Ownerless
<1>3. active_txn \in Tid /\ active_txn = read_txn + 1 /\ read_txn \in Nat
  BY <1>0, <1>1, Kinds, Numbers DEF RefInv, PhaseInv
<1>4. \A d \in Cursors : cur[d].txn <= read_txn /\ cur[d].ref <= read_txn
  BY <1>2 DEF RefInv, HoldInv
<1>5. InUse' \subseteq InUse \ {active_txn}
  <2>1. InUse' \subseteq InUse
    BY <1>1, UseShrinks
  <2>2. \A d \in Cursors : cur[d].txn # active_txn /\ cur[d].ref # active_txn
    BY <1>3, <1>4
  <2>3. active_txn \notin InUse'
    BY <1>1, <1>3, <2>2, Ids DEF InUse
  <2> QED
    BY <2>1, <2>3
<1> QED
  BY <1>1, <1>2, <1>3, <1>5, DropPages DEF WritePoints

(* A transaction a after r that has the data x of r and a spare page. *)
LEMMA NewHead ==
    ASSUME NEW r \in Tid, NEW a \in Tid, a = r + 1, NEW x \in Txn, NEW p, txns[r].root = x.root,
           PagesOf(r, x), Spare(r, x, p), Has(a, x), txns'[a].page = p,
           \A t \in Tid : t <= r => txns'[t].page = txns[t].page /\ txns'[t].root = txns[t].root,
           \A t \in InUse' : t \in Tid /\ (t <= r => t \in InUse)
    PROVE  PagesOf(a, txns[a])'
<1>1. /\ \A t \in Tid : t <= r => t # a
      /\ \A t \in Tid : t <= a <=> t <= r \/ t = a
      /\ \A t \in Tid : t < a <=> t <= r
      /\ \A t \in Tid : t <= r <=> t < r \/ t = r
      /\ r <= r
  BY Ids
<1>2. \A i \in DOMAIN x.garbage : x.garbage[i].tid <= a /\ ~(r < x.garbage[i].tid)
  <2>1. \A i \in DOMAIN x.garbage : x.garbage[i].tid \in Nat
    BY TxnNumbers
  <2>2. \A i \in DOMAIN x.garbage : x.garbage[i].tid <= r
    BY DEF PagesOf, FreeInv
  <2>3. r \in Nat
    BY Ids
  <2> QED
    BY <2>1, <2>2, <2>3
<1>3. FreeInv(a, txns[a])'
  BY <1>2 DEF PagesOf, FreeInv, Has
<1>4. ChainInv(a, txns[a])'
  BY <1>1 DEF PagesOf, ChainInv, Spare, Unused, Taken, Has
<1>5. RootInv(a, txns[a])'
  BY <1>1 DEF PagesOf, RootInv, Spare, Unused, Taken, Has
<1>6. OlderInv(a, txns[a])'
  <2> SUFFICES ASSUME NEW t \in InUse', NEW k \in Keys, t < a, txns'[t].root[k] # 0
               PROVE  /\ txns'[t].root[k] < x.bump
                      /\ \A i \in DOMAIN x.garbage : x.garbage[i].page = txns'[t].root[k] => t < x.garbage[i].tid
                      /\ \A u \in Tid : x.start <= u /\ u <= a => txns'[u].page # txns'[t].root[k]
    BY DEF OlderInv, Has
  <2>1. t \in InUse /\ t \in Tid /\ t <= r /\ txns'[t].root = txns[t].root
    BY <1>1
  <2>2. CASE t = r
    BY <1>1, <2>1, <2>2 DEF PagesOf, RootInv, Spare, Unused, Taken
  <2>3. CASE t < r
    BY <1>1, <2>1, <2>3 DEF PagesOf, OlderInv, Spare
  <2> QED
    BY <1>1, <2>1, <2>2, <2>3
<1> QED
  BY <1>3, <1>4, <1>5, <1>6 DEF PagesOf

(* start_transaction() takes the next transaction page. *)
LEMMA StartPages ==
    ASSUME IInv, IInv', RefInv, PageInv, NEW c \in Cursors, StartTransaction(c)
    PROVE  PageInv'
<1>0. TypeOK /\ TypeOK' /\ read_txn \in Tid /\ read_txn \in Nat
  BY Kinds, Numbers DEF IInv
<1>a. PICK a \in Tid, n \in Tid, R \in Txn : a = read_txn + 1 /\ n = next_txn_page /\ R = txns[read_txn]
  <2>1. read_txn + 1 \in Tid
    BY <1>0, MvccAssumption DEF StartTransaction, Tid
  <2>2. next_txn_page \in Tid
    BY <1>0, Kinds DEF StartTransaction
  <2>3. txns[read_txn] \in Txn
    BY <1>0 DEF TypeOK
  <2> QED
    BY <2>1, <2>2, <2>3
<1>1. /\ up /\ ~txn_lock /\ n # 0 /\ n \in Tid /\ active_txn' = a /\ next_txn_page' = 0
      /\ UNCHANGED <<read_txn, prepared_txn, pages, up>>
      /\ cur'[c].pc = "locked" /\ cur'[c].txn = cur[c].txn /\ cur'[c].ref = cur[c].ref
      /\ \A d \in Cursors \ {c} : cur'[d] = cur[d]
  BY <1>0, <1>a, Kinds DEF StartTransaction, At, Goto, TypeOK
<1>2. /\ a \in Tid /\ a # read_txn /\ 0 \notin Tid
  BY <1>0, <1>a, Ids
<1>3. /\ active_txn = 0 /\ ~Prepared /\ \A d \in Cursors : cur[d].pc \notin WritePoints /\ ~Owner(d)
  <2>1. active_txn = 0 /\ ~Prepared
    BY <1>1 DEF IInv, WriterInv, NextPageInv
  <2> QED
    BY <1>1, <2>1, Alone
<1>4. CopyOf(n, read_txn) /\ Spare(read_txn, R, txns[n].page)
  <2>1. CopiedFrom(read_txn)
    BY <1>3 DEF CopiedFrom, WritePoints
  <2> QED
    BY <1>0, <1>a, <1>1, <2>1 DEF PageInv, SpareInv
<1>5. /\ txns'[a].page = txns[n].page /\ txns'[a].root = R.root /\ txns'[a].start = R.start
      /\ txns'[a].garbage = R.garbage /\ txns'[a].bump = R.bump
      /\ \A t \in Tid \ {a} : Same(t)
  <2> DEFINE taken == [txns EXCEPT ![read_txn + 1] = txns[next_txn_page]]
  <2>1. txns' = [taken EXCEPT ![read_txn].refs = Inc(@)]
    BY DEF StartTransaction
  <2>2. txns \in [Tid -> Txn]
    BY <1>0 DEF TypeOK
  <2>3. taken \in [Tid -> Txn] /\ taken[a] = txns[n] /\ \A t \in Tid \ {a} : taken[t] = txns[t]
    BY <1>1, <1>2, <1>a, <2>2
  <2> HIDE DEF taken
  <2>4. Inc(taken[read_txn].refs) \in 0 .. MaxRefs
    BY <1>0, <1>a, <2>3, CountRange DEF Txn
  <2>5. \A t \in Tid : Alike(txns'[t], taken[t])
    BY <1>0, <1>a, <2>1, <2>3, <2>4, CountOnly
  <2> QED
    BY <1>a, <1>2, <1>4, <2>3, <2>5 DEF Alike, Same, CopyOf
<1>6. /\ InUse \subseteq Tid /\ InUse' \subseteq Tid /\ \A t \in InUse' : t \in InUse \/ t = a
      /\ read_txn \in InUse
  <2>1. \A t \in InUse' : t \in InUse \/ t = a
    BY <1>1, <1>a DEF InUse
  <2>2. read_txn \in InUse
    BY <1>0, <1>a, <1>2 DEF InUse
  <2> QED
    <3>1. InUse \subseteq Tid /\ InUse' \subseteq Tid
      BY <1>0, UseIds, UseIdsNext
    <3> QED
      BY <2>1, <2>2, <3>1
<1>7. \A t \in InUse : t <= read_txn
  <2>1. 0 <= read_txn
    BY <1>0
  <2> QED
    BY <1>1, <1>2, <1>3, <1>6, UseBound
<1>8. /\ \A t \in Tid : t <= read_txn => t # a
      /\ \A t \in Tid : t <= a <=> t <= read_txn \/ t = a
      /\ \A t \in Tid : t < read_txn => t <= read_txn
      /\ \A t \in Tid : t < a <=> t <= read_txn
      /\ \A t \in Tid : t <= read_txn <=> t < read_txn \/ t = read_txn
  BY <1>0, <1>a, <1>2, Ids
<1>9. PagesOf(read_txn, R)
  BY <1>0, <1>a DEF PageInv, HeadsInv
<1>10. Has(read_txn, R) /\ Before(read_txn)
  BY <1>0, <1>a, <1>2, <1>5, <1>6, <1>8 DEF Has, Before, Same
<1>11. PagesOf(a, txns[a])'
  BY <1>0, <1>a, <1>2, <1>4, <1>5, <1>6, <1>8, <1>9, <1>10, NewHead DEF Has, Before, Same
<1>12. HeadsInv'
  <2>1. \A h \in Tid : h = read_txn => PagesOf(h, txns[h])'
    BY <1>0, <1>a, <1>9, <1>10, PagesNext
  <2>2. \A h \in Tid : h = a => PagesOf(h, txns[h])'
    BY <1>11
  <2>3. prepared_txn = read_txn
    BY <1>3 DEF Prepared
  <2> QED
    BY <1>1, <2>1, <2>2, <2>3 DEF HeadsInv
<1>13. ReturnInv'
  <2>1. \A g, h \in Tid : g = read_txn /\ h = a => Spare(g, txns[g], txns[h].page)'
    BY <1>0, <1>a, <1>2, <1>4, <1>5, <1>10, SpareNext
  <2>2. prepared_txn = read_txn
    BY <1>3 DEF Prepared
  <2> QED
    BY <1>1, <2>1, <2>2 DEF ReturnInv
<1>14. SpareInv'
  BY <1>1, <1>2 DEF SpareInv
<1>15. StampInv'
  <2> SUFFICES ASSUME NEW t \in InUse', NEW k \in Keys, txns'[t].root[k] # 0
               PROVE  pages[txns'[t].root[k]].txn_id <= t
    BY <1>1 DEF StampInv
  <2>1. CASE t # a
    BY <1>5, <1>6, <2>1 DEF PageInv, StampInv, Same
  <2>2. CASE t = a
    <3>1. txns'[t].root = R.root
      BY <1>5, <2>2
    <3>2. pages[R.root[k]].txn_id <= read_txn
      BY <1>a, <1>6, <3>1 DEF PageInv, StampInv
    <3>3. R.root[k] \in Page
      BY <1>0, <1>a, <3>1 DEF TypeOK, Txn
    <3>4. pages[R.root[k]].txn_id \in Nat
      BY <1>0, <3>3, StampIds
    <3> QED
      BY <1>0, <1>a, <2>2, <3>1, <3>2, <3>4
  <2> QED
    BY <2>1, <2>2
<1>16. StartIdInv'
  BY <1>1 DEF StartIdInv
<1>17. StartingInv'
  <2>1. CopyOf(active_txn, read_txn)' /\ txns'[active_txn'].root = txns'[read_txn'].root
    BY <1>0, <1>a, <1>1, <1>2, <1>5 DEF CopyOf, Same
  <2> QED
    BY <2>1 DEF StartingInv
<1> QED
  BY <1>12, <1>13, <1>14, <1>15, <1>16, <1>17 DEF PageInv

(* The index arithmetic of the walk, from s up to m, behind n others. *)
LEMMA TidBetween == ASSUME NEW u \in Tid, NEW t \in Nat, 1 <= t, t <= u PROVE t \in Tid
BY MvccAssumption DEF Tid

LEMMA WalkIndex ==
    ASSUME NEW s \in Nat, NEW n \in Nat, NEW k \in Nat, NEW m \in Nat, k = m - s, s >= 1
    PROVE  /\ \A i \in 1 .. k : s + i - 1 \in Nat /\ 1 <= s + i - 1 /\ s + i - 1 <= m
           /\ \A i \in (1 .. n + k) \ (1 .. n) :
                 /\ i \in n + 1 .. n + k /\ i - n \in 1 .. k /\ s + (i - n) - 1 = i - n - 1 + s
                 /\ s <= i - n - 1 + s /\ i - n - 1 + s < m
           /\ \A i, j \in 1 .. n + k : i - n - 1 + s = j - n - 1 + s => i = j
OBVIOUS

LEMMA SeqLength == ASSUME NEW S, NEW f \in Seq(S), NEW k \in Nat, DOMAIN f = 1 .. k PROVE Len(f) = k
OBVIOUS

(* The walk frees the pages of the transactions before m. *)
LEMMA WalkKeeps ==
    ASSUME TypeOK, NEW h \in Tid, NEW x \in Txn, NEW y, NEW m \in Tid, NEW F, x.start <= m, m <= h, PagesOf(h, x),
           F = [i \in 1 .. m - x.start |-> [page |-> txns[x.start + i - 1].page, tid |-> h]],
           y.garbage = x.garbage \o F, y.root = x.root, y.start = m, y.bump = x.bump
    PROVE  PagesOf(h, y)
<1>0. x.start \in Tid /\ x.garbage \in Seq(Freed)
  BY DEF Txn
<1>1. PICK s \in Nat, n \in Nat, k \in Nat : s = x.start /\ n = Len(x.garbage) /\ k = m - s
  BY <1>0, Ids
<1> DEFINE At2(i) == i - n - 1 + s
<1>c. /\ \A i \in 1 .. k : s + i - 1 \in Nat /\ 1 <= s + i - 1 /\ s + i - 1 <= m
      /\ \A i \in (1 .. n + k) \ (1 .. n) :
             /\ i \in n + 1 .. n + k /\ i - n \in 1 .. k /\ s + (i - n) - 1 = At2(i)
             /\ s <= At2(i) /\ At2(i) < m
      /\ \A i, j \in 1 .. n + k : At2(i) = At2(j) => i = j
  <2>1. m \in Nat /\ s >= 1
    BY <1>0, <1>1, Ids
  <2>2. s \in Nat /\ n \in Nat /\ k \in Nat /\ k = m - s
    BY <1>1
  <2>3. /\ \A i \in 1 .. k : s + i - 1 \in Nat /\ 1 <= s + i - 1 /\ s + i - 1 <= m
        /\ \A i \in (1 .. n + k) \ (1 .. n) :
              /\ i \in n + 1 .. n + k /\ i - n \in 1 .. k /\ s + (i - n) - 1 = i - n - 1 + s
              /\ s <= i - n - 1 + s /\ i - n - 1 + s < m
        /\ \A i, j \in 1 .. n + k : i - n - 1 + s = j - n - 1 + s => i = j
    <3> HIDE DEF At2
    <3> QED
      BY <2>1, <2>2, WalkIndex
  <2> QED
    BY <2>3, Zenon
<1> HIDE DEF At2
<1>2. F \in Seq(Freed) /\ Len(F) = k
  <2>1. \A i \in 1 .. k : s + i - 1 \in Tid
    BY <1>1, <1>c, TidBetween
  <2>2. \A i \in 1 .. k : txns[s + i - 1].page \in Page
    BY <2>1 DEF TypeOK, Txn
  <2>3. F \in [1 .. k -> Freed] /\ DOMAIN F = 1 .. k
    BY <1>1, <2>2 DEF Freed
  <2>4. F \in Seq(Freed)
    BY <2>3, SeqFromFunction
  <2>5. Len(F) = k
    BY <2>3, <2>4, SeqLength
  <2> QED
    BY <2>4, <2>5
<1>3. /\ DOMAIN x.garbage = 1 .. n /\ DOMAIN y.garbage = 1 .. n + k
      /\ \A i \in 1 .. n : y.garbage[i] = x.garbage[i]
      /\ \A i \in n + 1 .. n + k : y.garbage[i] = F[i - n]
  BY <1>0, <1>1, <1>2
<1>4. \A i \in DOMAIN y.garbage :
         \/ i \in DOMAIN x.garbage /\ y.garbage[i] = x.garbage[i]
         \/ /\ At2(i) \in Tid /\ s <= At2(i) /\ At2(i) < m
            /\ y.garbage[i].page = txns[At2(i)].page /\ y.garbage[i].tid = h
  <2> SUFFICES ASSUME NEW i \in 1 .. n + k, i \notin 1 .. n
               PROVE  /\ At2(i) \in Tid /\ s <= At2(i) /\ At2(i) < m
                      /\ y.garbage[i].page = txns[At2(i)].page /\ y.garbage[i].tid = h
    BY <1>3
  <2>1. i \in n + 1 .. n + k /\ i - n \in 1 .. k /\ s + (i - n) - 1 = At2(i)
    BY <1>c
  <2>2. At2(i) \in Tid /\ s <= At2(i) /\ At2(i) < m
    <3>1. At2(i) \in Nat /\ 1 <= At2(i) /\ At2(i) <= m
      BY <1>c, <2>1
    <3> QED
      BY <1>c, <3>1, TidBetween
  <2>3. F[i - n] = [page |-> txns[s + (i - n) - 1].page, tid |-> h]
    BY <1>1, <2>1
  <2>4. F[i - n].page = txns[At2(i)].page /\ F[i - n].tid = h
    BY <2>1, <2>3
  <2> QED
    BY <1>3, <2>1, <2>2, <2>4
<1>5. \A i, j \in DOMAIN y.garbage : At2(i) = At2(j) => i = j
  BY <1>3, <1>c
<1>6. /\ \A u \in Tid : u < m => u < h /\ u <= h
      /\ \A u \in Tid : m <= u => s <= u /\ ~(u < m)
      /\ h <= h
  <2>1. (\A u \in Tid : u \in Nat) /\ m \in Nat /\ h \in Nat
    BY Ids
  <2> QED
    BY <1>1, <2>1
<1>7. FreeInv(h, y)
  <2> SUFFICES ASSUME NEW i \in DOMAIN y.garbage
               PROVE  /\ y.garbage[i].page < x.bump /\ y.garbage[i].tid <= h
                      /\ \A j \in DOMAIN y.garbage : y.garbage[i].page = y.garbage[j].page => i = j
    BY DEF FreeInv
  <2>1. y.garbage[i].page < x.bump /\ y.garbage[i].tid <= h
    BY <1>1, <1>4, <1>6 DEF PagesOf, FreeInv, ChainInv
  <2>2. ASSUME NEW j \in DOMAIN y.garbage, y.garbage[i].page = y.garbage[j].page
        PROVE  i = j
    <3> DEFINE Old(l) == l \in DOMAIN x.garbage /\ y.garbage[l] = x.garbage[l]
               New(l) == /\ At2(l) \in Tid /\ x.start <= At2(l) /\ At2(l) <= h
                         /\ y.garbage[l].page = txns[At2(l)].page
    <3>1. (Old(i) \/ New(i)) /\ (Old(j) \/ New(j))
      BY <1>1, <1>4, <1>6
    <3>2. CASE Old(i) /\ Old(j)
      BY <2>2, <3>2 DEF PagesOf, FreeInv
    <3>a. ASSUME NEW p \in DOMAIN y.garbage, NEW q \in DOMAIN y.garbage, Old(p), New(q)
          PROVE  y.garbage[p].page # y.garbage[q].page
      <4>1. x.garbage[p].page # txns[At2(q)].page
        BY <3>a DEF PagesOf, ChainInv
      <4> QED
        BY <3>a, <4>1
    <3> HIDE DEF Old, New
    <3>3. CASE (Old(i) /\ New(j)) \/ (New(i) /\ Old(j))
      BY <2>2, <3>3, <3>a
    <3>4. CASE New(i) /\ New(j)
      <4>1. At2(i) = At2(j)
        BY <2>2, <3>4 DEF PagesOf, ChainInv, New
      <4> QED
        BY <1>5, <4>1
    <3> QED
      BY <3>1, <3>2, <3>3, <3>4
  <2> QED
    BY <2>1, <2>2
<1>8. ChainInv(h, y)
  <2> SUFFICES ASSUME NEW t \in Tid, m <= t, t <= h
               PROVE  /\ txns[t].page < x.bump
                      /\ \A i \in DOMAIN y.garbage : y.garbage[i].page # txns[t].page
                      /\ \A u \in Tid : m <= u /\ u <= h /\ txns[u].page = txns[t].page => u = t
    BY DEF ChainInv
  <2>1. s <= t
    BY <1>6
  <2>2. /\ txns[t].page < x.bump
        /\ \A u \in Tid : m <= u /\ u <= h /\ txns[u].page = txns[t].page => u = t
    BY <1>1, <1>6, <2>1 DEF PagesOf, ChainInv
  <2>3. ASSUME NEW i \in DOMAIN y.garbage PROVE y.garbage[i].page # txns[t].page
    <3>1. CASE i \in DOMAIN x.garbage /\ y.garbage[i] = x.garbage[i]
      BY <1>1, <2>1, <3>1 DEF PagesOf, ChainInv
    <3>2. CASE ~(i \in DOMAIN x.garbage /\ y.garbage[i] = x.garbage[i])
      <4>1. At2(i) \in Tid /\ s <= At2(i) /\ At2(i) < m /\ At2(i) <= h /\ y.garbage[i].page = txns[At2(i)].page
        BY <1>1, <1>4, <1>6, <3>2
      <4>2. At2(i) # t
        BY <1>6, <4>1
      <4> QED
        BY <1>1, <2>1, <4>1, <4>2 DEF PagesOf, ChainInv
    <3> QED
      BY <3>1, <3>2
  <2> QED
    BY <2>2, <2>3
<1>9. RootInv(h, y)
  BY <1>1, <1>4, <1>6 DEF PagesOf, RootInv, Taken
<1>10. OlderInv(h, y)
  BY <1>1, <1>4, <1>6 DEF PagesOf, OlderInv
<1> QED
  BY <1>7, <1>8, <1>9, <1>10 DEF PagesOf

(* Nobody is on a transaction before one with no counts below it. *)
LEMMA HeldFrom ==
    ASSUME IInv, RefInv, up, NEW m \in Tid, m <= read_txn, \A u \in Tid : u < m => txns[u].refs = 0,
           NEW t \in InUse
    PROVE  m <= t
<1>0. TypeOK /\ read_txn \in Nat /\ t \in Tid /\ t \in Nat /\ m \in Nat
  BY UseIds, Numbers, Ids DEF IInv
<1>1. CASE t < m
  <2>1. t <= read_txn /\ txns[t].refs = 0
    BY <1>0, <1>1
  <2>2. Holders(t) = 0
    <3>1. txns[t].refs >= Holders(t) + Pin(t)
      BY <1>0, <2>1 DEF RefInv, CountInv
    <3>2. Holders(t) \in Nat /\ Pin(t) \in Nat
      BY HoldersRoom, MvccAssumption DEF Pin
    <3> QED
      BY <2>1, <3>1, <3>2
  <2>3. \A c \in Cursors : cur[c].txn # t /\ cur[c].ref # t
    <3> SUFFICES ASSUME NEW c \in Cursors, cur[c].txn = t \/ cur[c].ref = t PROVE FALSE
      OBVIOUS
    <3>1. On(cur[c], t) <= Holders(t) /\ On(cur[c], t) \in Nat
      BY HoldersRoom
    <3>2. On(cur[c], t) # 0
      BY DEF On
    <3> QED
      BY <2>2, <3>1, <3>2
  <2>4. t # read_txn
    BY <1>0, <1>1
  <2>5. t = prepared_txn \/ t = active_txn
    BY <2>3, <2>4 DEF InUse
  <2>6. t = active_txn
    BY <2>4, <2>5 DEF RefInv, PhaseInv, Prepared
  <2>7. active_txn = read_txn \/ active_txn = read_txn + 1
    BY <1>0, <2>6, Ids DEF RefInv, PhaseInv
  <2> QED
    BY <1>0, <2>1, <2>4, <2>6, <2>7
<1>2. CASE ~(t < m)
  BY <1>0, <1>2
<1> QED
  BY <1>1, <1>2

LEMMA CollectPages ==
    ASSUME IInv, IInv', RefInv, PageInv, NEW c \in Cursors, CollectTransactions(c)
    PROVE  PageInv'
<1>0. TypeOK /\ TypeOK' /\ read_txn \in Tid /\ read_txn \in Nat
  BY Kinds, Numbers DEF IInv
<1>1. /\ UNCHANGED <<read_txn, prepared_txn, next_txn_page, active_txn, up, pages>>
      /\ up /\ cur[c].pc = "locked" /\ cur'[c].pc = "gc"
      /\ \A d \in Cursors : cur'[d].txn = cur[d].txn /\ cur'[d].ref = cur[d].ref
      /\ \A d \in Cursors \ {c} : cur'[d] = cur[d]
  BY <1>0 DEF CollectTransactions, Goto, At, header, TypeOK
<1>2. /\ \A d \in Cursors \ {c} : cur[d].pc \notin WritePoints
  BY <1>1, Alone DEF WritePoints
<1>3. Starting /\ active_txn \in Tid /\ active_txn = read_txn + 1 /\ ~Prepared
  BY <1>1, StartingFacts DEF Starting, RefInv
<1>a. PICK a \in Tid, x \in Txn : a = active_txn /\ x = txns[active_txn]
  BY <1>0, <1>3 DEF TypeOK
<1>b. PICK m : m = CHOOSE t \in Pinned : \A u \in Pinned : t <= u
  OBVIOUS
<1>4. a = active_txn /\ x = txns[active_txn] /\ m = CHOOSE t \in Pinned : \A u \in Pinned : t <= u
  BY <1>a, <1>b
<1>5. /\ Pinned # {} /\ m \in Tid /\ m <= read_txn /\ txns[read_txn].start <= m
      /\ \A u \in Tid : u < m => txns[u].refs = 0
  BY <1>3, <1>4, Oldest
<1>6. CopyOf(a, read_txn)
  BY <1>1, <1>4 DEF PageInv, StartingInv
<1>7. PICK F : F = [i \in 1 .. m - x.start |-> [page |-> txns[x.start + i - 1].page, tid |-> a]]
  OBVIOUS
<1>8. /\ txns' = [txns EXCEPT ![a].start = m, ![a].garbage = @ \o F] /\ start_txn_id' = m
  <2>1. x.start = txns[read_txn].start
    BY <1>4, <1>6 DEF CopyOf
  <2> QED
    BY <1>4, <1>5, <1>7, <2>1 DEF CollectTransactions, RecycleBelow
<1>9. /\ txns'[a].page = x.page /\ txns'[a].root = x.root /\ txns'[a].bump = x.bump
      /\ txns'[a].start = m /\ txns'[a].garbage = x.garbage \o F
      /\ \A t \in Tid \ {a} : Same(t)
  <2>1. txns \in [Tid -> Txn] /\ x = txns[a]
    BY <1>0, <1>4 DEF TypeOK
  <2>2. txns'[a] = [x EXCEPT !.start = m, !.garbage = x.garbage \o F] /\ \A t \in Tid \ {a} : txns'[t] = txns[t]
    BY <1>8, <2>1
  <2> QED
    BY <2>2 DEF Txn, Same
<1>10. InUse' = InUse /\ InUse \subseteq Tid
  <2>2. InUse' = InUse
    BY <1>1 DEF InUse
  <2> QED
    BY <1>0, <2>2, UseIds
<1>11. /\ a # read_txn /\ m <= a /\ x.start <= m
       /\ \A t \in Tid : t <= read_txn => t # a
       /\ \A t \in Tid : t < a => t # a
       /\ \A t \in Tid : t < read_txn => t # a
  <2>1. x.start = txns[read_txn].start /\ a = read_txn + 1
    BY <1>3, <1>4, <1>6 DEF CopyOf
  <2> QED
    BY <1>0, <1>5, <2>1, Ids
<1>12. HeadsInv'
  <2>1. PagesOf(a, x) /\ PagesOf(read_txn, txns[read_txn])
    BY <1>0, <1>4 DEF PageInv, HeadsInv
  <2>2. PICK y : y = txns'[a]
    OBVIOUS
  <2>3. PagesOf(a, y)
    BY <1>0, <1>5, <1>7, <1>9, <1>11, <2>1, <2>2, WalkKeeps
  <2>4. \A h \in Tid : h = a => PagesOf(h, txns[h])'
    BY <1>4, <1>9, <1>10, <1>11, <2>2, <2>3, PagesNext DEF Has, Before, Same
  <2>5. \A h \in Tid : h = read_txn => PagesOf(h, txns[h])'
    BY <1>0, <1>9, <1>10, <1>11, <2>1, PagesNext DEF Has, Before, Same
  <2> QED
    BY <1>1, <1>3, <1>4, <2>4, <2>5 DEF HeadsInv, Prepared
<1>13. Has(read_txn, txns[read_txn]) /\ Before(read_txn)
  BY <1>0, <1>9, <1>10, <1>11 DEF Has, Before, Same
<1>14. ReturnInv'
  <2>1. Spare(read_txn, txns[read_txn], txns[a].page)
    BY <1>0, <1>4, <1>11 DEF PageInv, ReturnInv
  <2>2. \A g, h \in Tid : g = read_txn /\ h = a => Spare(g, txns[g], txns[h].page)'
    BY <1>0, <1>4, <1>9, <1>13, <2>1, SpareNext
  <2> QED
    BY <1>1, <1>3, <1>4, <2>2 DEF ReturnInv, Prepared
<1>15. SpareInv'
  <2> SUFFICES ASSUME NEW n \in Tid, NEW h \in Tid, n = next_txn_page, CopiedFrom(h)'
               PROVE  CopyOf(n, h)' /\ Spare(h, txns[h], txns[n].page)'
    BY <1>1 DEF SpareInv
  <2>1. h = read_txn
    BY <1>1, <1>2, <1>3 DEF CopiedFrom, Prepared, WritePoints
  <2>2. CopiedFrom(h)
    BY <1>1, <1>2, <1>3, <2>1 DEF CopiedFrom, Prepared, WritePoints
  <2>3. CopyOf(n, h) /\ Spare(h, txns[h], txns[n].page)
    BY <2>2 DEF PageInv, SpareInv
  <2>4. n # a
    BY <1>4, Ids DEF RefInv, NextInv
  <2>5. CopyOf(n, h)'
    BY <1>9, <1>11, <2>1, <2>3, <2>4 DEF CopyOf, Same
  <2> QED
    BY <1>9, <1>13, <2>1, <2>3, <2>4, <2>5, SpareNext DEF Same
<1>16. StampInv'
  <2>1. \A t \in InUse : txns'[t].root = txns[t].root
    BY <1>4, <1>9, <1>10 DEF Same
  <2> QED
    BY <1>1, <1>10, <2>1 DEF PageInv, StampInv
<1>17. StartIdInv'
  BY <1>1, <1>5, <1>8, <1>10, HeldFrom DEF StartIdInv
<1>18. StartingInv'
  <2>1. txns'[active_txn'].root = txns'[read_txn'].root
    BY <1>0, <1>1, <1>4, <1>6, <1>9, <1>11 DEF CopyOf, Same
  <2>2. \A d \in Cursors : cur'[d].pc # "locked"
    BY <1>1, <1>2 DEF WritePoints
  <2> QED
    BY <2>1, <2>2 DEF StartingInv
<1> QED
  BY <1>12, <1>14, <1>15, <1>16, <1>17, <1>18 DEF PageInv

(* A write transaction a whose contents become y. *)
LEMMA OwnerFrame ==
    ASSUME TypeOK, TypeOK', PageInv, NEW a \in Tid, a = active_txn, a = read_txn + 1, prepared_txn = read_txn,
           NEW y, PagesOf(a, y), Has(a, y), txns'[a].page = txns[a].page,
           \A t \in Tid : t < a => Same(t),
           UNCHANGED <<read_txn, prepared_txn, active_txn, start_txn_id, up>>, InUse' = InUse,
           \A d \in Cursors : {cur[d].pc, cur'[d].pc} \cap {"locked", "gc"} = {}
    PROVE  HeadsInv' /\ ReturnInv' /\ StartIdInv' /\ StartingInv'
<1>0. read_txn \in Tid /\ read_txn \in Nat /\ InUse \subseteq Tid
  BY Kinds, Numbers, UseIds
<1>1. /\ \A t \in Tid : t <= read_txn <=> t < a
      /\ \A t \in Tid : t <= a <=> t < a \/ t = a
      /\ \A t \in Tid : t < read_txn => t < a
      /\ a # read_txn /\ read_txn < a
  BY <1>0, Ids
<1>2. Has(read_txn, txns[read_txn]) /\ Before(read_txn) /\ Before(a)
  BY <1>0, <1>1 DEF Has, Before, Same
<1>3. PagesOf(read_txn, txns[read_txn])
  BY <1>0 DEF PageInv, HeadsInv
<1>4. \A h \in Tid : h = read_txn \/ h = a => PagesOf(h, txns[h])'
  BY <1>2, <1>3, PagesNext
<1>5. HeadsInv'
  BY <1>4 DEF HeadsInv
<1>6. Spare(read_txn, txns[read_txn], txns[a].page)
  BY <1>0, <1>1 DEF PageInv, ReturnInv
<1>7. \A g, h \in Tid : g = read_txn /\ h = a => Spare(g, txns[g], txns[h].page)'
  BY <1>2, <1>6, SpareNext
<1>8. ReturnInv'
  BY <1>7 DEF ReturnInv
<1>9. StartIdInv' /\ StartingInv'
  BY DEF PageInv, StartIdInv, StartingInv
<1> QED
  BY <1>5, <1>8, <1>9

(* What the owner of a write transaction knows of the pages. *)
LEMMA OwnerPages ==
    ASSUME IInv, RefInv, PageInv, NEW c \in Cursors, At(c, "idle"), Owner(c), ~Prepared
    PROVE  /\ active_txn \in Tid /\ active_txn + 1 \in Tid /\ active_txn = read_txn + 1 /\ prepared_txn = read_txn
           /\ txns[active_txn] \in Txn /\ PagesOf(active_txn, txns[active_txn])
           /\ \A t \in InUse : t < active_txn => start_txn_id <= t
           /\ \A t \in InUse : t \in Tid /\ (t < active_txn \/ t = active_txn)
           /\ \A d \in Cursors : cur[d].pc \notin {"locked", "gc", "cloned", "unprepared"}
           /\ CopiedFrom(read_txn)
<1>0. TypeOK /\ read_txn \in Nat
  BY Numbers DEF IInv
<1>1. /\ up /\ active_txn \in Tid /\ active_txn + 1 \in Tid /\ active_txn = read_txn + 1
      /\ \A d \in Cursors : cur[d].pc \notin {"locked", "gc"}
      /\ \A d \in Cursors \ {c} : cur[d].pc \notin WritePoints
  BY OwnerKnows DEF At
<1>2. \A d \in Cursors : cur[d].pc \notin {"locked", "gc", "cloned", "unprepared"}
  BY <1>1 DEF WritePoints, At
<1>3. prepared_txn = read_txn /\ txns[active_txn] \in Txn /\ CopiedFrom(read_txn)
  BY <1>0, <1>1, <1>2 DEF Prepared, TypeOK, CopiedFrom
<1>4. PagesOf(active_txn, txns[active_txn])
  BY <1>1 DEF PageInv, HeadsInv
<1>5. \A t \in InUse : t < active_txn => start_txn_id <= t
  <2>1. active_txn # 0
    BY <1>1, Ids
  <2> QED
    BY <1>2, <2>1 DEF PageInv, StartIdInv
<1>6. \A t \in InUse : t \in Tid /\ (t < active_txn \/ t = active_txn)
  <2>1. \A t \in Tid : t <= read_txn => t < active_txn
    BY <1>0, <1>1, Ids
  <2> QED
    BY <1>1, <2>1, UseBound
<1> QED
  BY <1>1, <1>2, <1>3, <1>4, <1>5, <1>6

(* value() and remove() leave the next transaction page alone. *)
LEMMA WriteSpare ==
    ASSUME IInv, IInv', RefInv, PageInv, NEW c \in Cursors, At(c, "idle"), Owner(c), ~Prepared,
           \A t \in Tid \ {active_txn} : Same(t), UNCHANGED <<header, object, cur>>
    PROVE  SpareInv' /\ InUse' = InUse
<1>0. TypeOK /\ read_txn \in Tid /\ read_txn \in Nat
  BY Kinds, Numbers DEF IInv
<1>1. /\ UNCHANGED <<read_txn, prepared_txn, next_txn_page, active_txn, cur>>
  BY DEF header, object
<1>2. InUse' = InUse /\ InUse \subseteq Tid
  BY <1>0, <1>1, UseIds DEF InUse
<1>3. active_txn = read_txn + 1 /\ \A t \in Tid : t <= read_txn \/ t < read_txn => t # active_txn
  <2>1. active_txn = read_txn + 1
    BY OwnerPages
  <2> QED
    BY <1>0, <2>1, Ids
<1>4. Has(read_txn, txns[read_txn]) /\ Before(read_txn)
  <2>1. read_txn # active_txn
    BY <1>0, <1>3
  <2> QED
    BY <1>0, <1>2, <1>3, <2>1 DEF Has, Before, Same
<1>5. SpareInv'
  <2> SUFFICES ASSUME NEW n \in Tid, NEW h \in Tid, n = next_txn_page, CopiedFrom(h)'
               PROVE  CopyOf(n, h)' /\ Spare(h, txns[h], txns[n].page)'
    BY <1>1 DEF SpareInv
  <2>1. CopiedFrom(h)
    BY <1>1 DEF CopiedFrom, Prepared
  <2>2. h = read_txn /\ h # active_txn
    <3>1. \A d \in Cursors : cur[d].pc # "cloned"
      BY OwnerPages
    <3> QED
      BY <1>0, <1>3, <2>1, <3>1 DEF CopiedFrom
  <2>3. CopyOf(n, h) /\ Spare(h, txns[h], txns[n].page)
    BY <2>1 DEF PageInv, SpareInv
  <2>4. n # active_txn
    BY Ids DEF RefInv, NextInv
  <2>5. CopyOf(n, h)'
    BY <2>2, <2>3, <2>4 DEF CopyOf, Same
  <2> QED
    BY <1>4, <2>2, <2>3, <2>4, <2>5, SpareNext DEF Same
<1> QED
  BY <1>2, <1>5

(* cursor.value(): what is written, and that nobody else reads that page. *)
Written(k, v, p, y) ==
    /\ PagesOf(active_txn, y) /\ y.page = txns[active_txn].page
    /\ y.root = [txns[active_txn].root EXCEPT ![k] = p]
    /\ txns' = [txns EXCEPT ![active_txn] = y]
    /\ pages' = [pages EXCEPT ![p] = [val |-> v, txn_id |-> active_txn]]
    /\ \A t \in InUse, l \in Keys : t < active_txn => txns[t].root[l] # p
    /\ \A l \in Keys \ {k} : txns[active_txn].root[l] # p

LEMMA PutEffect ==
    ASSUME IInv, RefInv, PageInv, NEW c \in Cursors, NEW k \in Keys, NEW v \in Vals, Put(c, k, v)
    PROVE  \E p \in Page, y \in Txn : Written(k, v, p, y)
<1>0. TypeOK /\ At(c, "idle") /\ Owner(c) /\ ~Prepared
  BY DEF IInv, Put
<1>1. PICK a \in Tid, x \in Txn : a = active_txn /\ x = txns[active_txn]
  BY <1>0, OwnerPages
<1>2. /\ PagesOf(a, x) /\ \A t \in InUse : t < a => start_txn_id <= t
      /\ \A t \in InUse : t \in Tid
  BY <1>0, <1>1, OwnerPages
<1>3. x.root \in [Keys -> Page \cup {0}] /\ x.root[k] \in Page \cup {0} /\ 0 \notin Page
  BY MvccAssumption DEF Txn, Page
<1>4. CASE Owns(x.root[k])
  <2>1. x.root[k] \in Page /\ x.root[k] # 0 /\ pages[x.root[k]].txn_id = a
    BY <1>1, <1>3, <1>4 DEF Owns
  <2>2. txns' = [txns EXCEPT ![active_txn] = x]
        /\ pages' = [pages EXCEPT ![x.root[k]] = [val |-> v, txn_id |-> active_txn]]
    BY <1>1, <1>4 DEF Put
  <2>3. x.root = [x.root EXCEPT ![k] = x.root[k]]
    BY <1>3
  <2>4. ASSUME NEW t \in InUse, NEW l \in Keys, t < a PROVE txns[t].root[l] # x.root[k]
    <3>1. txns[t].root[l] = x.root[k] => a <= t
      BY <2>1 DEF PageInv, StampInv
    <3>2. t \in Nat /\ a \in Nat
      BY <1>2, Ids
    <3> QED
      BY <2>4, <3>1, <3>2
  <2>5. \A l \in Keys \ {k} : x.root[l] # x.root[k]
    BY <1>2, <2>1 DEF PagesOf, RootInv
  <2>6. PICK p \in Page : p = x.root[k]
    BY <2>1
  <2>7. /\ PagesOf(active_txn, x) /\ x.page = txns[active_txn].page
        /\ x.root = [txns[active_txn].root EXCEPT ![k] = p]
        /\ txns' = [txns EXCEPT ![active_txn] = x]
        /\ pages' = [pages EXCEPT ![p] = [val |-> v, txn_id |-> active_txn]]
    BY <1>1, <1>2, <2>2, <2>3, <2>6
  <2>8. /\ \A t \in InUse, l \in Keys : t < active_txn => txns[t].root[l] # p
        /\ \A l \in Keys \ {k} : txns[active_txn].root[l] # p
    BY <1>1, <2>4, <2>5, <2>6
  <2> QED
    BY <2>7, <2>8 DEF Written
<1>5. CASE ~Owns(x.root[k])
  <2>0. CanAlloc(x) /\ start_txn_id \in Tid \cup {0}
    BY <1>0, <1>1, <1>5 DEF Put, TypeOK
  <2>1. PICK p \in Page, w \in Txn : p = AllocPage(x) /\ w = Allocated(x)
    BY <2>0, AllocType
  <2>2. /\ PagesOf(a, w) /\ Spare(a, w, p) /\ p # 0
        /\ w.root = x.root /\ w.start = x.start /\ w.page = x.page
    BY <1>0, <1>2, <2>0, <2>1, AllocKeeps
  <2>3. PICK z : z = [w EXCEPT !.root[k] = p]
    OBVIOUS
  <2>4. /\ z.root = [w.root EXCEPT ![k] = p] /\ z.start = w.start /\ z.garbage = w.garbage
        /\ z.bump = w.bump /\ z.page = w.page /\ z \in Txn
    BY <2>3 DEF Txn
  <2>5. PagesOf(a, z) /\ (x.root[k] # 0 /\ x.root[k] # p => Unused(a, z, x.root[k]))
    BY <1>3, <2>2, <2>4, LinkKeeps DEF Spare
  <2>6. \A l \in Keys : x.root[l] # p
    BY <2>2 DEF Spare, Unused
  <2>7. PICK y : y = IF x.root[k] = 0 THEN z ELSE FreePage(z, x.root[k], a)
    OBVIOUS
  <2>8. /\ y \in Txn /\ PagesOf(a, y) /\ y.page = x.page /\ y.root = [x.root EXCEPT ![k] = p]
    <3>1. CASE x.root[k] = 0
      BY <2>2, <2>4, <2>5, <2>7, <3>1
    <3>2. CASE x.root[k] # 0
      <4>1. y = FreePage(z, x.root[k], a) /\ x.root[k] \in Page
        BY <1>3, <2>7, <3>2
      <4>2. y \in Txn
        BY <2>4, <4>1, FreeType
      <4>3. /\ y.garbage = Append(z.garbage, [page |-> x.root[k], tid |-> a])
            /\ y.root = z.root /\ y.start = z.start /\ y.bump = z.bump /\ y.page = z.page
        BY <2>4, <4>1 DEF FreePage, Txn
      <4>4. Unused(a, z, x.root[k])
        BY <2>5, <2>6, <3>2
      <4>5. PagesOf(a, y)
        BY <1>0, <2>4, <2>5, <4>3, <4>4, FreeKeeps
      <4> QED
        BY <2>2, <2>4, <4>2, <4>3, <4>5
    <3> QED
      BY <3>1, <3>2
  <2>9. /\ txns' = [txns EXCEPT ![active_txn] = y]
        /\ pages' = [pages EXCEPT ![p] = [val |-> v, txn_id |-> active_txn]]
    BY <1>1, <1>5, <2>1, <2>3, <2>7 DEF Put
  <2>10. \A t \in InUse, l \in Keys : t < a => txns[t].root[l] # p
    BY <2>2 DEF Spare
  <2> QED
    BY <1>1, <2>6, <2>8, <2>9, <2>10 DEF Written
<1> QED
  BY <1>4, <1>5

LEMMA PutPages ==
    ASSUME IInv, IInv', RefInv, PageInv, NEW c \in Cursors, NEW k \in Keys, NEW v \in Vals, Put(c, k, v)
    PROVE  PageInv'
<1>0. TypeOK /\ TypeOK' /\ At(c, "idle") /\ Owner(c) /\ ~Prepared /\ UNCHANGED <<header, object, cur>>
  BY DEF IInv, Put
<1>1. PICK a \in Tid : a = active_txn
  BY <1>0, OwnerPages
<1>w. PICK p \in Page, y \in Txn : Written(k, v, p, y)
  BY PutEffect
<1>2. /\ PagesOf(a, y) /\ y.page = txns[a].page
      /\ y.root = [txns[a].root EXCEPT ![k] = p]
      /\ txns' = [txns EXCEPT ![a] = y]
      /\ pages' = [pages EXCEPT ![p] = [val |-> v, txn_id |-> a]]
      /\ \A t \in InUse, l \in Keys : t < a => txns[t].root[l] # p
      /\ \A l \in Keys \ {k} : txns[a].root[l] # p
  BY <1>1, <1>w DEF Written
<1>3. /\ txns'[a] = y /\ \A t \in Tid \ {a} : txns'[t] = txns[t]
      /\ Has(a, y) /\ \A t \in Tid \ {a} : Same(t)
  BY <1>0, <1>2 DEF TypeOK, Same, Has
<1>4. /\ SpareInv' /\ InUse' = InUse
  BY <1>0, <1>1, <1>3, WriteSpare
<1>5. /\ a = read_txn + 1 /\ prepared_txn = read_txn
      /\ \A d \in Cursors : {cur[d].pc, cur'[d].pc} \cap {"locked", "gc"} = {}
      /\ \A t \in InUse : t \in Tid /\ (t < a \/ t = a)
      /\ UNCHANGED <<read_txn, prepared_txn, active_txn, start_txn_id, up>>
  <2>1. UNCHANGED <<read_txn, prepared_txn, active_txn, start_txn_id, up, cur>>
    BY <1>0 DEF header, object
  <2>2. \A d \in Cursors : cur[d].pc \notin {"locked", "gc", "cloned", "unprepared"}
    BY <1>0, OwnerPages
  <2>3. /\ a = read_txn + 1 /\ prepared_txn = read_txn /\ \A t \in InUse : t \in Tid /\ (t < a \/ t = a)
    BY <1>0, <1>1, OwnerPages
  <2> QED
    BY <2>1, <2>2, <2>3
<1>6. \A t \in Tid : t < a => t # a
  BY Ids
<1>7. HeadsInv' /\ ReturnInv' /\ StartIdInv' /\ StartingInv'
  BY <1>0, <1>1, <1>2, <1>3, <1>4, <1>5, <1>6, OwnerFrame
<1>8. StampInv'
  <2> SUFFICES ASSUME NEW t \in InUse, NEW l \in Keys, txns'[t].root[l] # 0
               PROVE  pages'[txns'[t].root[l]].txn_id <= t
    BY <1>4 DEF StampInv
  <2>0. t \in Tid /\ a <= a
    BY <1>5, Ids
  <2>1. txns[t].root[l] \in Page \cup {0} /\ txns[a].root \in [Keys -> Page \cup {0}]
    <3>1. txns[t] \in Txn /\ txns[a] \in Txn
      BY <1>0, <2>0 DEF TypeOK
    <3> QED
      BY <3>1 DEF Txn
  <2>2. \A q \in Page : q # p => pages'[q] = pages[q]
    BY <1>0, <1>2 DEF TypeOK
  <2>3. pages'[p].txn_id = a
    BY <1>0, <1>2 DEF TypeOK
  <2>4. txns[t].root[l] # 0 => pages[txns[t].root[l]].txn_id <= t
    BY DEF PageInv, StampInv
  <2>5. CASE t < a
    BY <1>2, <1>3, <1>6, <2>0, <2>1, <2>2, <2>4, <2>5
  <2>6. CASE t = a /\ l = k
    BY <1>2, <1>3, <2>0, <2>1, <2>3, <2>6
  <2>7. CASE t = a /\ l # k
    BY <1>2, <1>3, <2>1, <2>2, <2>4, <2>7
  <2> QED
    BY <1>5, <2>5, <2>6, <2>7
<1> QED
  BY <1>4, <1>7, <1>8 DEF PageInv

(* cursor.remove() frees the page of the key. *)
LEMMA RemovePages ==
    ASSUME IInv, IInv', RefInv, PageInv, NEW c \in Cursors, NEW k \in Keys, Remove(c, k)
    PROVE  PageInv'
<1>0. /\ TypeOK /\ TypeOK' /\ At(c, "idle") /\ Owner(c) /\ ~Prepared /\ UNCHANGED <<header, object, cur>>
      /\ pages' = pages
  BY DEF IInv, Remove
<1>1. PICK a \in Tid, x \in Txn : a = active_txn /\ x = txns[active_txn]
  BY <1>0, OwnerPages
<1>2. /\ PagesOf(a, x) /\ a = read_txn + 1 /\ prepared_txn = read_txn
      /\ \A t \in InUse : t \in Tid /\ (t < a \/ t = a)
  BY <1>0, <1>1, OwnerPages
<1>3. x.root \in [Keys -> Page \cup {0}] /\ x.root[k] \in Page /\ x.root[k] # 0
  BY <1>1 DEF Remove, Txn
<1>4. PICK z : z = [x EXCEPT !.root[k] = 0]
  OBVIOUS
<1>5. /\ z.root = [x.root EXCEPT ![k] = 0] /\ z.start = x.start /\ z.garbage = x.garbage
      /\ z.bump = x.bump /\ z.page = x.page /\ z \in Txn
  BY <1>4 DEF Txn
<1>6. PagesOf(a, z) /\ Unused(a, z, x.root[k])
  BY <1>2, <1>3, <1>5, LinkKeeps
<1>7. PICK y : y = [FreePage(x, x.root[k], a) EXCEPT !.root[k] = 0]
  OBVIOUS
<1>8. /\ y.garbage = Append(z.garbage, [page |-> x.root[k], tid |-> a])
      /\ y.root = z.root /\ y.start = z.start /\ y.bump = z.bump /\ y.page = x.page
  BY <1>5, <1>7 DEF FreePage, Txn
<1>9. PagesOf(a, y)
  BY <1>0, <1>5, <1>6, <1>8, FreeKeeps
<1>10. txns' = [txns EXCEPT ![a] = y]
  BY <1>1, <1>7 DEF Remove
<1>11. /\ txns'[a] = y /\ \A t \in Tid \ {a} : txns'[t] = txns[t]
       /\ Has(a, y) /\ \A t \in Tid \ {a} : Same(t)
  BY <1>0, <1>10 DEF TypeOK, Same, Has
<1>12. SpareInv' /\ InUse' = InUse
  BY <1>0, <1>1, <1>11, WriteSpare
<1>13. /\ \A d \in Cursors : {cur[d].pc, cur'[d].pc} \cap {"locked", "gc"} = {}
       /\ UNCHANGED <<read_txn, prepared_txn, active_txn, start_txn_id, up>>
  <2>1. UNCHANGED <<read_txn, prepared_txn, active_txn, start_txn_id, up, cur>>
    BY <1>0 DEF header, object
  <2>2. \A d \in Cursors : cur[d].pc \notin {"locked", "gc", "cloned", "unprepared"}
    BY <1>0, OwnerPages
  <2> QED
    BY <2>1, <2>2
<1>14. \A t \in Tid : t < a => t # a
  BY Ids
<1>15. HeadsInv' /\ ReturnInv' /\ StartIdInv' /\ StartingInv'
  BY <1>0, <1>1, <1>2, <1>8, <1>9, <1>11, <1>12, <1>13, <1>14, OwnerFrame
<1>16. StampInv'
  <2> SUFFICES ASSUME NEW t \in InUse, NEW l \in Keys, txns'[t].root[l] # 0
               PROVE  pages[txns'[t].root[l]].txn_id <= t
    BY <1>0, <1>12 DEF StampInv
  <2>1. txns'[t].root[l] = txns[t].root[l]
    <3>1. CASE t = a
      BY <1>1, <1>3, <1>5, <1>8, <1>11, <3>1
    <3>2. CASE t # a
      BY <1>2, <1>11, <3>2
    <3> QED
      BY <3>1, <3>2
  <2> QED
    BY <2>1 DEF PageInv, StampInv
<1> QED
  BY <1>12, <1>15, <1>16 DEF PageInv

(* prepare_commit() takes a page for the next transaction and copies into it. *)
LEMMA PrepareClonePages ==
    ASSUME IInv, IInv', RefInv, PageInv, NEW c \in Cursors, PrepareClone(c)
    PROVE  PageInv'
<1>0. /\ TypeOK /\ TypeOK' /\ At(c, "idle") /\ Owner(c) /\ ~Prepared
      /\ UNCHANGED <<read_txn, prepared_txn, active_txn, start_txn_id, up>> /\ pages' = pages
      /\ next_txn_page' = active_txn + 1 /\ CanAlloc(txns[active_txn])
  BY DEF IInv, PrepareClone, object
<1>1. PICK a \in Tid, n \in Tid, x \in Txn : a = active_txn /\ n = active_txn + 1 /\ x = txns[active_txn]
  BY <1>0, OwnerPages
<1>2. /\ PagesOf(a, x) /\ a = read_txn + 1 /\ prepared_txn = read_txn
      /\ \A t \in InUse : t \in Tid /\ (t < a \/ t = a)
      /\ \A t \in InUse : t < a => start_txn_id <= t
      /\ \A d \in Cursors : cur[d].pc \notin {"locked", "gc", "cloned", "unprepared"}
  BY <1>0, <1>1, OwnerPages
<1>3. PICK p \in Page, w \in Txn : p = AllocPage(x) /\ w = Allocated(x)
  <2>1. CanAlloc(x) /\ start_txn_id \in Tid \cup {0}
    BY <1>0, <1>1 DEF TypeOK
  <2> QED
    BY <2>1, AllocType
<1>4. /\ PagesOf(a, w) /\ Spare(a, w, p)
      /\ w.root = x.root /\ w.start = x.start /\ w.page = x.page
  BY <1>0, <1>1, <1>2, <1>3, AllocKeeps
<1>5. a # n /\ \A t \in Tid : t <= a => t # n
  BY <1>1, Ids
<1>6. PICK z : z = [w EXCEPT !.page = p, !.refs = 0]
  OBVIOUS
<1>7. /\ z.page = p /\ z.root = w.root /\ z.start = w.start /\ z.garbage = w.garbage /\ z.bump = w.bump
  BY <1>6 DEF Txn
<1>8. txns' = [txns EXCEPT ![a] = w, ![n] = z]
  BY <1>1, <1>3, <1>6 DEF PrepareClone, Clone
<1>9. txns'[a] = w /\ txns'[n] = z /\ \A t \in Tid \ {a, n} : txns'[t] = txns[t]
  BY <1>0, <1>5, <1>8 DEF TypeOK
<1>10. /\ \A d \in Cursors : cur'[d].txn = cur[d].txn /\ cur'[d].ref = cur[d].ref
       /\ cur'[c].pc = "cloned" /\ \A d \in Cursors \ {c} : cur'[d] = cur[d]
  BY <1>0 DEF PrepareClone, Goto, TypeOK
<1>11. InUse' = InUse
  BY <1>0, <1>10 DEF InUse
<1>12. /\ \A t \in Tid : t < a => Same(t)
       /\ Has(a, w) /\ txns'[a].page = txns[a].page
  <2>1. \A t \in Tid : t < a => t \notin {a, n}
    BY <1>1, Ids
  <2> QED
    BY <1>1, <1>4, <1>9, <2>1 DEF Same, Has
<1>13. \A d \in Cursors : {cur[d].pc, cur'[d].pc} \cap {"locked", "gc"} = {}
  BY <1>2, <1>10
<1>14. HeadsInv' /\ ReturnInv' /\ StartIdInv' /\ StartingInv'
  BY <1>0, <1>1, <1>2, <1>4, <1>11, <1>12, <1>13, OwnerFrame
<1>15. Before(a)
  <2>1. \A t \in Tid : t <= a <=> t < a \/ t = a
    BY Ids
  <2> QED
    BY <1>2, <1>11, <1>12, <2>1 DEF Before, Same
<1>16. SpareInv'
  <2> SUFFICES ASSUME NEW m \in Tid, NEW h \in Tid, m = n, CopiedFrom(h)'
               PROVE  CopyOf(m, h)' /\ Spare(h, txns[h], txns[m].page)'
    BY <1>0, <1>1 DEF SpareInv
  <2>1. h = a
    BY <1>0, <1>1, <1>10 DEF CopiedFrom
  <2>2. CopyOf(m, h)'
    BY <1>7, <1>9, <2>1 DEF CopyOf
  <2> QED
    BY <1>4, <1>7, <1>9, <1>12, <1>15, <2>1, <2>2, SpareNext
<1>17. StampInv'
  <2>1. \A t \in InUse : txns'[t].root = txns[t].root
    BY <1>1, <1>2, <1>4, <1>9, <1>12 DEF Same
  <2> QED
    BY <1>0, <1>11, <2>1 DEF PageInv, StampInv
<1> QED
  BY <1>14, <1>16, <1>17 DEF PageInv

(* sanitize(): the reference counts, and a next transaction page if there   *)
(* is none.                                                                 *)
LEMMA SanitizePages ==
    ASSUME IInv, IInv', RefInv, PageInv, Sanitize
    PROVE  PageInv'
<1>0. TypeOK /\ TypeOK' /\ read_txn \in Tid /\ read_txn + 1 \in Tid /\ txns \in [Tid -> Txn]
  BY Kinds, TidFacts, Numbers DEF IInv, WriterInv, TypeOK
<1>1. /\ UNCHANGED <<read_txn, prepared_txn, start_txn_id, pages, cur>> /\ ~up /\ up'
      /\ active_txn' = (IF Prepared THEN prepared_txn ELSE 0)
      /\ start_txn_id = 0 /\ active_txn = 0
      /\ Prepared => next_txn_page # 0
  BY DEF Sanitize, RefInv, PhaseInv, IInv, NextPageInv, PageInv, StartIdInv
<1>2. \A d \in Cursors : cur[d].pc = "closed" /\ cur[d].txn = 0 /\ cur[d].ref = 0
  BY <1>1 DEF IInv, CursorInv, RefInv, HoldInv
<1>3. /\ InUse \subseteq Tid /\ InUse' \subseteq Tid /\ InUse' \subseteq InUse
  BY <1>0, <1>1, UseIds, UseIdsNext DEF InUse
<1>4. StartIdInv' /\ StartingInv'
  <2>1. \A t \in InUse' : 0 <= t
    BY <1>3, Ids
  <2> QED
    BY <1>1, <1>2, <2>1 DEF StartIdInv, StartingInv
<1>5. PICK clean \in [Tid -> Txn] :
          /\ clean = [t \in Tid |-> IF t \in Chain THEN [txns[t] EXCEPT !.refs = 0] ELSE txns[t]]
          /\ \A t \in Tid : Alike(clean[t], txns[t])
  <2> DEFINE C == [t \in Tid |-> IF t \in Chain THEN [txns[t] EXCEPT !.refs = 0] ELSE txns[t]]
  <2>1. C \in [Tid -> Txn]
    BY <1>0, RefsType
  <2>2. \A t \in Tid : Alike(C[t], txns[t])
    BY <1>0 DEF Txn, Alike
  <2> QED
    BY <2>1, <2>2
<1>6. CASE next_txn_page # 0
  <2>1. txns' = [clean EXCEPT ![next_txn_page].refs = 0] /\ next_txn_page' = next_txn_page
    BY <1>5, <1>6 DEF Sanitize
  <2>2. next_txn_page \in Tid /\ 0 \in 0 .. MaxRefs
    BY <1>0, <1>6, Kinds, MvccAssumption
  <2>3. \A t \in Tid : Alike(txns'[t], clean[t])
    BY <2>1, <2>2, CountOnly
  <2>4. \A t \in Tid : Same(t)
    BY <1>5, <2>3 DEF Alike, Same
  <2>5. \A h \in Tid : CopiedFrom(h)' => CopiedFrom(h)
    BY <1>1, <1>2 DEF CopiedFrom, Prepared
  <2>6. HeadsInv' /\ ReturnInv' /\ SpareInv' /\ StampInv'
    BY <1>0, <1>1, <1>3, <2>1, <2>4, <2>5, Ids, NoDataStep DEF Prepared
  <2> QED
    BY <1>4, <2>6 DEF PageInv
<1>7. CASE next_txn_page = 0
  <2>1. /\ ~Prepared /\ active_txn' = 0 /\ prepared_txn = read_txn
    BY <1>1, <1>7 DEF Prepared
  <2>2. PICK r \in Tid, n \in Tid, x \in Txn : r = read_txn /\ n = read_txn + 1 /\ x = clean[read_txn]
    BY <1>0
  <2>3. /\ CanAlloc(x) /\ next_txn_page' = n
        /\ txns' = [clean EXCEPT ![r] = Allocated(x), ![n] = Clone(x)]
    BY <1>5, <1>7, <2>2 DEF Sanitize
  <2>4. /\ \A t \in InUse : t = r
        /\ \A t \in InUse' : t = r
    BY <1>1, <1>2, <2>1, <2>2 DEF InUse
  <2>5. PagesOf(r, x)
    <3>1. PagesOf(r, txns[r]) /\ Alike(x, txns[r])
      BY <1>5, <2>2 DEF PageInv, HeadsInv
    <3> QED
      BY <3>1 DEF PagesOf, FreeInv, ChainInv, RootInv, OlderInv, Taken, Alike
  <2>6. PICK p \in Page, w \in Txn : p = AllocPage(x) /\ w = Allocated(x)
    BY <1>1, <2>3, AllocType
  <2>7. \A t \in InUse : t < r => start_txn_id <= t
    BY <2>4, Ids
  <2>8. /\ PagesOf(r, w) /\ Spare(r, w, p)
        /\ w.root = x.root /\ w.start = x.start /\ w.page = x.page
    BY <1>0, <2>3, <2>5, <2>6, <2>7, AllocKeeps
  <2>9. r # n /\ \A t \in Tid : t <= r => t # n
    BY <2>2, Ids
  <2>10. PICK z : z = [w EXCEPT !.page = p, !.refs = 0]
    OBVIOUS
  <2>11. /\ z.page = p /\ z.root = w.root /\ z.start = w.start /\ z.garbage = w.garbage /\ z.bump = w.bump
    BY <2>10 DEF Txn
  <2>12. txns' = [clean EXCEPT ![r] = w, ![n] = z]
    BY <2>3, <2>6, <2>10 DEF Clone
  <2>13. txns'[r] = w /\ txns'[n] = z /\ \A t \in Tid \ {r, n} : txns'[t] = clean[t]
    BY <2>9, <2>12
  <2>14. Has(r, w) /\ txns'[r].page = txns[r].page /\ txns'[r].root = txns[r].root
    BY <1>5, <2>2, <2>8, <2>13 DEF Has, Alike
  <2>15. Before(r)
    <3>1. \A t \in Tid : t <= r => (t = r \/ t \in Tid \ {r, n})
      BY <2>9
    <3>2. \A t \in Tid : t < r => t \in Tid \ {r, n}
      BY <2>2, Ids
    <3>3. \A t \in InUse' : t \in Tid /\ (t < r => t \in InUse)
      BY <1>3
    <3> QED
      BY <1>5, <2>13, <2>14, <3>1, <3>2, <3>3 DEF Before, Alike
  <2>16. PagesOf(r, txns[r])'
    BY <2>8, <2>14, <2>15, PagesNext
  <2>17. HeadsInv' /\ ReturnInv'
    <3>1. \A h \in Tid : h \in {read_txn', active_txn', prepared_txn'} => h = r
      BY <1>1, <2>1, <2>2, Ids
    <3>2. \A h \in Tid : h = r => PagesOf(h, txns[h])'
      BY <2>16
    <3>3. \A h \in Tid : h \notin {active_txn', prepared_txn'} \ {read_txn'}
      BY <1>1, <2>1, Ids
    <3> QED
      BY <3>1, <3>2, <3>3 DEF HeadsInv, ReturnInv
  <2>18. SpareInv'
    <3> SUFFICES ASSUME NEW m \in Tid, NEW h \in Tid, m = n, CopiedFrom(h)'
                 PROVE  CopyOf(m, h)' /\ Spare(h, txns[h], txns[m].page)'
      BY <2>3 DEF SpareInv
    <3>1. h = r
      BY <1>1, <1>2, <2>1, <2>2 DEF CopiedFrom, Prepared
    <3>2. CopyOf(m, h)'
      BY <2>11, <2>13, <3>1 DEF CopyOf
    <3> QED
      BY <2>8, <2>11, <2>13, <2>14, <2>15, <3>1, <3>2, SpareNext
  <2>19. StampInv'
    BY <1>1, <1>3, <2>4, <2>14 DEF PageInv, StampInv
  <2> QED
    BY <1>4, <2>17, <2>18, <2>19 DEF PageInv
<1> QED
  BY <1>6, <1>7

-----------------------------------------------------------------------------
(* The invariant holds. *)

LEMMA InitPageInv == Init => PageInv
<1> SUFFICES ASSUME Init PROVE PageInv
  OBVIOUS
<1>0. TypeOK /\ 1 \in Tid /\ 2 \in Tid
  <2>1. TypeOK
    BY InitIInv DEF IInv
  <2> QED
    BY <2>1, MvccAssumption DEF Tid
<1>1. /\ read_txn = 1 /\ prepared_txn = 1 /\ next_txn_page = 2 /\ active_txn = 0 /\ start_txn_id = 0 /\ up
      /\ \A c \in Cursors : cur[c].pc = "closed" /\ cur[c].txn = 0 /\ cur[c].ref = 0
  BY DEF Init
<1>2. \A t \in Tid : /\ txns[t].page = IF t = 1 THEN 1 ELSE 2
                     /\ \A k \in Keys : txns[t].root[k] = 0
                     /\ txns[t].root = [k \in Keys |-> 0]
                     /\ txns[t].start = 1 /\ txns[t].garbage = << >> /\ txns[t].bump = 3
  BY DEF Init, FirstTxn
<1>3. \A t \in Tid : DOMAIN txns[t].garbage = {}
  BY <1>2
<1>4. \A t \in Tid : 1 <= t /\ t <= 1 => t = 1
  BY Ids
<1>5. InUse = {1}
  BY <1>1 DEF InUse
<1>6. \A h \in Tid : h \in {read_txn, active_txn, prepared_txn} => h = 1
  BY <1>1, Ids
<1>7. PagesOf(1, txns[1])
  <2>1. FreeInv(1, txns[1]) /\ RootInv(1, txns[1])
    BY <1>0, <1>2, <1>3 DEF FreeInv, RootInv
  <2>2. OlderInv(1, txns[1])
    BY <1>0, <1>2, <1>5 DEF OlderInv
  <2>3. ChainInv(1, txns[1])
    BY <1>0, <1>2, <1>3, <1>4 DEF ChainInv
  <2> QED
    BY <2>1, <2>2, <2>3 DEF PagesOf
<1>8. Spare(1, txns[1], 2)
  BY <1>0, <1>2, <1>3, <1>4, <1>5 DEF Spare, Unused, Taken
<1>9. HeadsInv /\ ReturnInv
  BY <1>1, <1>6, <1>7 DEF HeadsInv, ReturnInv
<1>10. SpareInv
  BY <1>0, <1>1, <1>2, <1>8 DEF SpareInv, CopyOf, CopiedFrom, Prepared
<1>11. StampInv /\ StartIdInv /\ StartingInv
  BY <1>0, <1>1, <1>2, <1>5 DEF StampInv, StartIdInv, StartingInv
<1> QED
  BY <1>9, <1>10, <1>11 DEF PageInv

(* Nothing happens. *)
LEMMA StutterPages ==
    ASSUME PageInv, UNCHANGED vars
    PROVE  PageInv'
<1>1. /\ UNCHANGED <<read_txn, prepared_txn, next_txn_page, txns, pages, active_txn, start_txn_id, up, cur>>
  BY DEF vars, header, object
<1>2. InUse' = InUse
  BY <1>1 DEF InUse
<1>3. \A h \in Tid : PagesOf(h, txns[h])' <=> PagesOf(h, txns[h])
  BY <1>1, <1>2 DEF PagesOf, FreeInv, ChainInv, RootInv, OlderInv, Taken
<1>4. \A g, h \in Tid : Spare(g, txns[g], txns[h].page)' <=> Spare(g, txns[g], txns[h].page)
  BY <1>1, <1>2 DEF Spare, Unused, Taken
<1>5. HeadsInv'
  BY <1>1, <1>3 DEF PageInv, HeadsInv
<1>6. ReturnInv'
  BY <1>1, <1>4 DEF PageInv, ReturnInv
<1>7. SpareInv'
  <2>1. \A n, h \in Tid : (CopyOf(n, h)' <=> CopyOf(n, h)) /\ (CopiedFrom(h)' <=> CopiedFrom(h))
    BY <1>1 DEF CopyOf, CopiedFrom, Prepared
  <2> QED
    BY <1>1, <1>4, <2>1 DEF PageInv, SpareInv
<1>8. StampInv' /\ StartIdInv' /\ StartingInv'
  BY <1>1, <1>2 DEF PageInv, StampInv, StartIdInv, StartingInv, CopyOf
<1> QED
  BY <1>5, <1>6, <1>7, <1>8 DEF PageInv

LEMMA StepPageInv ==
    ASSUME NoWindows, IInv, RefInv, PageInv, [Next]_vars
    PROVE  IInv' /\ RefInv' /\ PageInv'
<1>0. IInv' /\ RefInv'
  BY StepIInv, StepRefInv DEF NoWindows
<1>1. ASSUME NEW c \in Cursors, CursorNext(c) PROVE PageInv'
  <2>1. ~CommitFails(c)
    BY DEF CommitFails, NoWindows, NoFull
  <2>2. CASE \E k \in Keys, v \in Vals : Put(c, k, v)
    BY <1>0, <2>2, PutPages
  <2>3. CASE \E k \in Keys : Remove(c, k)
    BY <1>0, <2>3, RemovePages
  <2>4. CASE TxnRef(c) \/ Update(c) \/ Close(c) \/ EnterTransaction(c) \/ RollbackRef(c)
    BY <1>0, <2>4, ReaderPages
  <2>5. CASE PrepareMark(c) \/ CommitSwitch(c) \/ CommitEnd(c) \/ RollbackUnprepare(c)
    BY <1>0, <2>5, HeaderPages
  <2>6. CASE StartTransaction(c) \/ CollectTransactions(c)
    BY <1>0, <2>6, StartPages, CollectPages
  <2>7. CASE PrepareClone(c) \/ RollbackEnd(c)
    BY <1>0, <2>7, PrepareClonePages, RollbackPages
  <2> QED
    BY <1>1, <2>1, <2>2, <2>3, <2>4, <2>5, <2>6, <2>7 DEF CursorNext
<1>2. CASE Crash \/ Sanitize
  BY <1>0, <1>2, CrashPages, SanitizePages
<1>3. CASE CommitRecovered \/ RollbackRecovered
  BY <1>0, <1>3, CommitRecoveredPages, RollbackRecoveredPages
<1>4. ~Repair
  BY DEF Repair, NoWindows
<1>5. CASE UNCHANGED vars
  BY <1>0, <1>5, StutterPages
<1> QED
  BY <1>0, <1>1, <1>2, <1>3, <1>4, <1>5 DEF Next

(* Every page has one use. *)
THEOREM PagesHold == ASSUME NoWindows PROVE Spec => [](IInv /\ RefInv /\ PageInv)
<1>1. Init => IInv /\ RefInv /\ PageInv
  BY InitIInv, InitRefInv, InitPageInv
<1>2. IInv /\ RefInv /\ PageInv /\ [Next]_vars => (IInv /\ RefInv /\ PageInv)'
  BY StepPageInv
<1> QED
  BY <1>1, <1>2, PTL DEF Spec

(* NoPageInUseRecycled: once start_transaction() has walked the chain, the  *)
(* memory manager hands out no page of a transaction that is still read.    *)
THEOREM RecycleTheorem == ASSUME NoWindows PROVE Spec => []NoPageInUseRecycled
<1>1. IInv /\ RefInv /\ PageInv => NoPageInUseRecycled
  <2> SUFFICES ASSUME IInv, RefInv, PageInv, active_txn # 0, \A c \in Cursors : cur[c].pc # "locked",
                      NEW t \in InUse, NEW q \in Reach(txns[t]), q \in Allocatable(txns[active_txn])
               PROVE  FALSE
    BY DEF NoPageInUseRecycled
  <2>0. TypeOK /\ active_txn \in Tid /\ t \in Tid /\ t \in Nat /\ active_txn \in Nat /\ start_txn_id \in Nat
    <3>1. TypeOK
      BY DEF IInv
    <3>2. active_txn \in Tid /\ t \in Tid /\ start_txn_id \in Tid \cup {0}
      BY <3>1, Kinds, UseIds DEF TypeOK
    <3> QED
      BY <3>1, <3>2, Ids
  <2>1. PICK a \in Tid, x \in Txn : a = active_txn /\ x = txns[active_txn]
    BY <2>0 DEF TypeOK
  <2>2. PagesOf(a, x)
    BY <2>1 DEF PageInv, HeadsInv
  <2>3. start_txn_id <= t /\ x.start <= t /\ t <= a
    <3>1. up /\ read_txn \in Nat
      BY <2>0, Numbers DEF RefInv, PhaseInv
    <3>2. start_txn_id <= t
      BY DEF PageInv, StartIdInv
    <3>3. active_txn = read_txn \/ active_txn = read_txn + 1
      BY DEF RefInv, PhaseInv
    <3>4. ChainFrom(active_txn)
      BY <3>3 DEF RefInv, StartInv
    <3>5. x.start \in Tid /\ x.start <= read_txn /\ \A u \in Tid : u < x.start => txns[u].refs = 0
      BY <2>1, <3>4 DEF ChainFrom, Txn
    <3>6. x.start <= t
      BY <3>1, <3>5, HeldFrom
    <3>7. t <= read_txn \/ t = active_txn
      BY <3>1, UseBound
    <3> QED
      BY <2>0, <2>1, <3>1, <3>2, <3>3, <3>6, <3>7
  <2>4. \/ q \in x.bump .. MaxPage
        \/ \E i \in DOMAIN x.garbage : q = x.garbage[i].page /\ x.garbage[i].tid < start_txn_id
    BY <2>1 DEF Allocatable
  <2>5. q = txns[t].page \/ \E k \in Keys : q = txns[t].root[k] /\ q # 0
    BY DEF Reach
  <2>6. x.bump \in Nat /\ \A i \in DOMAIN x.garbage : x.garbage[i].tid \in Nat
    BY TxnNumbers
  <2>7. q < x.bump /\ \A i \in DOMAIN x.garbage : q = x.garbage[i].page => t < x.garbage[i].tid
    <3>1. CASE q = txns[t].page
      BY <2>0, <2>2, <2>3, <3>1 DEF PagesOf, ChainInv
    <3>2. ASSUME NEW k \in Keys, q = txns[t].root[k], q # 0, t < a
          PROVE  q < x.bump /\ \A i \in DOMAIN x.garbage : q = x.garbage[i].page => t < x.garbage[i].tid
      BY <2>2, <3>2 DEF PagesOf, OlderInv
    <3>3. ASSUME NEW k \in Keys, q = txns[t].root[k], q # 0, t = a
          PROVE  q < x.bump /\ \A i \in DOMAIN x.garbage : q = x.garbage[i].page => t < x.garbage[i].tid
      BY <2>1, <2>2, <3>3 DEF PagesOf, RootInv, Taken
    <3>4. t < a \/ t = a
      BY <2>0, <2>1, <2>3
    <3> QED
      BY <2>5, <3>1, <3>2, <3>3, <3>4
  <2>8. CASE q \in x.bump .. MaxPage
    BY <2>6, <2>7, <2>8, MvccAssumption
  <2>9. ASSUME NEW i \in DOMAIN x.garbage, q = x.garbage[i].page, x.garbage[i].tid < start_txn_id PROVE FALSE
    <3>1. t < x.garbage[i].tid /\ x.garbage[i].tid \in Nat
      BY <2>6, <2>7, <2>9
    <3> QED
      BY <2>0, <2>3, <2>9, <3>1
  <2> QED
    BY <2>4, <2>8, <2>9
<1> QED
  BY <1>1, PagesHold, PTL

(* StartsFromCommitted: the map a write transaction starts with is the      *)
(* committed one.                                                           *)
THEOREM StartsTheorem == ASSUME NoWindows PROVE Spec => []StartsFromCommitted
<1>1. PageInv => StartsFromCommitted
  BY DEF PageInv, StartingInv, CopyOf, StartsFromCommitted, Lookup
<1> QED
  BY <1>1, PagesHold, PTL

-----------------------------------------------------------------------------
(* The refinement.  The map of transaction t, when the transactions are T   *)
(* and the pages P.                                                         *)
MapAt(T, P, t) ==
    IF t = 0 THEN NoMap
    ELSE [k \in Keys |-> IF T[t].root[k] = 0 THEN Missing ELSE P[T[t].root[k]].val]

Committed == MapAt(txns, pages, read_txn)
DraftMap  == MapAt(txns, pages, Draft)
Snap(c)   == MapAt(txns, pages, View(c))

LEMMA Bars ==
    ASSUME TypeOK, TypeOK'
    PROVE  /\ MapOf(read_txn) = Committed /\ MapOf(read_txn)' = Committed'
           /\ (IF Draft = 0 THEN NoMap ELSE MapOf(Draft)) = DraftMap
           /\ (IF Draft = 0 THEN NoMap ELSE MapOf(Draft))' = DraftMap'
           /\ [c \in Cursors |-> IF View(c) = 0 THEN NoMap ELSE MapOf(View(c))] = [c \in Cursors |-> Snap(c)]
           /\ [c \in Cursors |-> IF View(c) = 0 THEN NoMap ELSE MapOf(View(c))]' = [c \in Cursors |-> Snap(c)']
<1>1. read_txn # 0 /\ read_txn' # 0
  BY Ids DEF TypeOK
<1>2. /\ MapOf(read_txn) = Committed /\ MapOf(read_txn)' = Committed'
  BY <1>1 DEF MapOf, Lookup, Committed, MapAt
<1>3. /\ (IF Draft = 0 THEN NoMap ELSE MapOf(Draft)) = DraftMap
      /\ (IF Draft = 0 THEN NoMap ELSE MapOf(Draft))' = DraftMap'
  BY DEF MapOf, Lookup, DraftMap, MapAt
<1>4. /\ \A c \in Cursors : (IF View(c) = 0 THEN NoMap ELSE MapOf(View(c))) = Snap(c)
      /\ \A c \in Cursors : (IF View(c) = 0 THEN NoMap ELSE MapOf(View(c)))' = Snap(c)'
  BY DEF MapOf, Lookup, Snap, MapAt
<1> QED
  BY <1>2, <1>3, <1>4

LEMMA AbsStutter ==
    ASSUME TypeOK, TypeOK', Committed' = Committed, DraftMap' = DraftMap, Prepared' <=> Prepared,
           \A d \in Cursors : Snap(d)' = Snap(d)
    PROVE  UNCHANGED Abs!vars
BY Bars DEF Abs!vars

LEMMA AbsRefresh ==
    ASSUME TypeOK, TypeOK', Committed' = Committed, DraftMap' = DraftMap, Prepared' <=> Prepared,
           NEW c \in Cursors, Snap(c)' = Committed, \A d \in Cursors \ {c} : Snap(d)' = Snap(d)
    PROVE  Abs!Next
<1>1. [d \in Cursors |-> IF View(d) = 0 THEN NoMap ELSE MapOf(View(d))]'
        = [[d \in Cursors |-> IF View(d) = 0 THEN NoMap ELSE MapOf(View(d))] EXCEPT ![c] = MapOf(read_txn)]
  BY Bars
<1>2. (IF Draft = 0 THEN NoMap ELSE MapOf(Draft))' = (IF Draft = 0 THEN NoMap ELSE MapOf(Draft))
  BY Bars
<1>3. MapOf(read_txn)' = MapOf(read_txn) /\ (Prepared' <=> Prepared)
  BY Bars
<1>4. Prepared' = Prepared
  BY <1>3 DEF Prepared
<1>5. Abs!Refresh(c)
  BY <1>1, <1>2, <1>3, <1>4, Zenon DEF Abs!Refresh
<1> QED
  BY <1>5 DEF Abs!Next

LEMMA AbsClose ==
    ASSUME TypeOK, TypeOK', Committed' = Committed, DraftMap' = DraftMap, Prepared' <=> Prepared,
           NEW c \in Cursors, Snap(c)' = NoMap, \A d \in Cursors \ {c} : Snap(d)' = Snap(d)
    PROVE  Abs!Next
<1>1. [d \in Cursors |-> IF View(d) = 0 THEN NoMap ELSE MapOf(View(d))]'
        = [[d \in Cursors |-> IF View(d) = 0 THEN NoMap ELSE MapOf(View(d))] EXCEPT ![c] = NoMap]
  BY Bars
<1>2. (IF Draft = 0 THEN NoMap ELSE MapOf(Draft))' = (IF Draft = 0 THEN NoMap ELSE MapOf(Draft))
  BY Bars
<1>3. MapOf(read_txn)' = MapOf(read_txn) /\ (Prepared' <=> Prepared)
  BY Bars
<1>4. Prepared' = Prepared
  BY <1>3 DEF Prepared
<1>5. Abs!Close(c)
  BY <1>1, <1>2, <1>3, <1>4, Zenon DEF Abs!Close
<1> QED
  BY <1>5 DEF Abs!Next

LEMMA AbsEnter ==
    ASSUME TypeOK, TypeOK', Committed' = Committed, DraftMap' = DraftMap, Prepared' <=> Prepared,
           DraftMap # NoMap, NEW c \in Cursors, Snap(c)' = DraftMap, \A d \in Cursors \ {c} : Snap(d)' = Snap(d)
    PROVE  Abs!Next
<1>1. [d \in Cursors |-> IF View(d) = 0 THEN NoMap ELSE MapOf(View(d))]'
        = [[d \in Cursors |-> IF View(d) = 0 THEN NoMap ELSE MapOf(View(d))] EXCEPT ![c] = (IF Draft = 0 THEN NoMap ELSE MapOf(Draft))]
  BY Bars
<1>2. (IF Draft = 0 THEN NoMap ELSE MapOf(Draft))' = (IF Draft = 0 THEN NoMap ELSE MapOf(Draft)) /\ (IF Draft = 0 THEN NoMap ELSE MapOf(Draft)) # NoMap
  BY Bars
<1>3. MapOf(read_txn)' = MapOf(read_txn) /\ (Prepared' <=> Prepared)
  BY Bars
<1>4. Prepared' = Prepared
  BY <1>3 DEF Prepared
<1>5. Abs!Enter(c)
  BY <1>1, <1>2, <1>3, <1>4, Zenon DEF Abs!Enter
<1> QED
  BY <1>5 DEF Abs!Next

LEMMA AbsBegin ==
    ASSUME TypeOK, TypeOK', Committed' = Committed, DraftMap = NoMap, DraftMap' = Committed, Prepared' <=> Prepared,
           \A d \in Cursors : Snap(d)' = Snap(d)
    PROVE  Abs!Next
<1>1. [d \in Cursors |-> IF View(d) = 0 THEN NoMap ELSE MapOf(View(d))]' = [d \in Cursors |-> IF View(d) = 0 THEN NoMap ELSE MapOf(View(d))]
  BY Bars
<1>2. (IF Draft = 0 THEN NoMap ELSE MapOf(Draft)) = NoMap /\ (IF Draft = 0 THEN NoMap ELSE MapOf(Draft))' = MapOf(read_txn)
  BY Bars
<1>3. MapOf(read_txn)' = MapOf(read_txn)
  BY Bars
<1>4. Abs!Begin
  BY <1>1, <1>2, <1>3 DEF Abs!Begin
<1> QED
  BY <1>4 DEF Abs!Next

LEMMA AbsPrepare ==
    ASSUME TypeOK, TypeOK', Committed' = Committed, DraftMap # NoMap, DraftMap' = DraftMap, Prepared',
           \A d \in Cursors : Snap(d)' = Snap(d)
    PROVE  Abs!Next
<1>1. Abs!Prepare
  BY Bars DEF Abs!Prepare
<1> QED
  BY <1>1 DEF Abs!Next

LEMMA AbsUnprepare ==
    ASSUME TypeOK, TypeOK', Committed' = Committed, DraftMap # NoMap, DraftMap' = DraftMap, ~Prepared',
           \A d \in Cursors : Snap(d)' = Snap(d)
    PROVE  Abs!Next
<1>1. Abs!Unprepare
  BY Bars DEF Abs!Unprepare
<1> QED
  BY <1>1 DEF Abs!Next

LEMMA AbsCommit ==
    ASSUME TypeOK, TypeOK', Committed' = DraftMap, DraftMap' = NoMap, Prepared, ~Prepared',
           \A d \in Cursors : Snap(d)' = Snap(d)
    PROVE  Abs!Next
<1>1. Abs!Commit
  BY Bars DEF Abs!Commit
<1> QED
  BY <1>1 DEF Abs!Next

LEMMA AbsAbandon ==
    ASSUME TypeOK, TypeOK', Committed' = Committed, DraftMap' = NoMap, Prepared, ~Prepared',
           \A d \in Cursors : Snap(d)' = Snap(d)
    PROVE  Abs!Next
<1>1. Abs!Abandon
  BY Bars DEF Abs!Abandon
<1> QED
  BY <1>1 DEF Abs!Next

LEMMA AbsRollback ==
    ASSUME TypeOK, TypeOK', Committed' = Committed, DraftMap # NoMap, DraftMap' = NoMap, ~Prepared, ~Prepared',
           NEW c \in Cursors, Snap(c)' = NoMap, \A d \in Cursors \ {c} : Snap(d)' = Snap(d)
    PROVE  Abs!Next
<1>1. [d \in Cursors |-> IF View(d) = 0 THEN NoMap ELSE MapOf(View(d))]'
        = [[d \in Cursors |-> IF View(d) = 0 THEN NoMap ELSE MapOf(View(d))] EXCEPT ![c] = NoMap]
  BY Bars
<1>2. (IF Draft = 0 THEN NoMap ELSE MapOf(Draft)) # NoMap /\ (IF Draft = 0 THEN NoMap ELSE MapOf(Draft))' = NoMap
  BY Bars
<1>3. MapOf(read_txn)' = MapOf(read_txn) /\ (Prepared' <=> Prepared)
  BY Bars
<1>4. Abs!Rollback(c)
  BY <1>1, <1>2, <1>3 DEF Abs!Rollback
<1> QED
  BY <1>4 DEF Abs!Next

LEMMA AbsCrash ==
    ASSUME TypeOK, TypeOK', Committed' = Committed, DraftMap' = (IF Prepared THEN DraftMap ELSE NoMap), Prepared' <=> Prepared,
           \A d \in Cursors : Snap(d)' = NoMap
    PROVE  Abs!Next
<1>1. Abs!Crash
  BY Bars DEF Abs!Crash
<1> QED
  BY <1>1 DEF Abs!Next

LEMMA AbsWrite ==
    ASSUME TypeOK, TypeOK', Committed' = Committed, ~Prepared, ~Prepared', DraftMap # NoMap,
           NEW k \in Keys, NEW v \in Vals \cup {Missing}, DraftMap' = [DraftMap EXCEPT ![k] = v],
           NEW c \in Cursors, Snap(c)' = DraftMap', \A d \in Cursors \ {c} : Snap(d)' = Snap(d)
    PROVE  Abs!Next
<1>1. PICK m, n : /\ m = DraftMap /\ n = DraftMap' /\ n = [m EXCEPT ![k] = v]
                  /\ m = (IF Draft = 0 THEN NoMap ELSE MapOf(Draft))
                  /\ n = (IF Draft = 0 THEN NoMap ELSE MapOf(Draft))'
  <2>1. PICK m : m = DraftMap
    OBVIOUS
  <2>2. PICK n : n = DraftMap'
    OBVIOUS
  <2>3. n = [m EXCEPT ![k] = v]
    BY <2>1, <2>2
  <2> QED
    BY <2>1, <2>2, <2>3, Bars
<1>2. [d \in Cursors |-> IF View(d) = 0 THEN NoMap ELSE MapOf(View(d))]'
        = [[d \in Cursors |-> IF View(d) = 0 THEN NoMap ELSE MapOf(View(d))]
              EXCEPT ![c] = n]
  BY <1>1, Bars
<1>3. MapOf(read_txn)' = MapOf(read_txn) /\ (Prepared' <=> Prepared)
  BY Bars
<1>4. Abs!Write(c, k, v)
  BY <1>1, <1>2, <1>3 DEF Abs!Write
<1> QED
  BY <1>4 DEF Abs!Next

(* The transactions of the maps are in use, and a map is not NoMap. *)
LEMMA MapUse ==
    ASSUME TypeOK
    PROVE  /\ read_txn \in InUse /\ Draft \in InUse \cup {0}
           /\ \A d \in Cursors : View(d) \in InUse \cup {0}
           /\ \A t \in Tid : MapAt(txns, pages, t) # NoMap
           /\ MapAt(txns, pages, 0) = NoMap /\ MapAt(txns', pages', 0) = NoMap
<1>0. read_txn \in Tid /\ 0 \notin Tid
  BY Kinds, Ids
<1>1. read_txn \in InUse /\ Draft \in InUse \cup {0}
  BY <1>0 DEF InUse, Draft
<1>2. \A d \in Cursors : View(d) \in InUse \cup {0}
  BY DEF InUse, View
<1>3. ASSUME NEW t \in Tid PROVE MapAt(txns, pages, t) # NoMap
  <2>1. txns[t].root \in [Keys -> Page \cup {0}]
    BY DEF TypeOK, Txn
  <2>2. \A p \in Page : pages[p].val \in Vals \cup {Missing}
    BY DEF TypeOK
  <2>3. [k \in Keys |-> IF txns[t].root[k] = 0 THEN Missing ELSE pages[txns[t].root[k]].val]
          \in [Keys -> Vals \cup {Missing}]
    BY <2>1, <2>2
  <2> QED
    BY <1>0, <2>3, NoMapAssumption DEF MapAt
<1>4. MapAt(txns, pages, 0) = NoMap /\ MapAt(txns', pages', 0) = NoMap
  BY DEF MapAt
<1> QED
  BY <1>1, <1>2, <1>3, <1>4

(* A step that leaves the data of the transactions in use alone. *)
LEMMA KeepMaps ==
    ASSUME TypeOK, pages' = pages, \A t \in InUse : txns'[t].root = txns[t].root
    PROVE  /\ \A t \in InUse \cup {0} : MapAt(txns', pages', t) = MapAt(txns, pages, t)
           /\ read_txn' = read_txn => Committed' = Committed
           /\ Draft' = Draft => DraftMap' = DraftMap
           /\ \A d \in Cursors : View(d)' = View(d) => Snap(d)' = Snap(d)
<1>1. \A t \in InUse \cup {0} : MapAt(txns', pages', t) = MapAt(txns, pages, t)
  BY DEF MapAt
<1>2. /\ read_txn' = read_txn => Committed' = Committed
      /\ Draft' = Draft => DraftMap' = DraftMap
  BY <1>1, MapUse DEF Committed, DraftMap
<1>3. ASSUME NEW d \in Cursors, View(d)' = View(d) PROVE Snap(d)' = Snap(d)
  BY <1>1, <1>3, MapUse DEF Snap
<1> QED
  BY <1>1, <1>2, <1>3

(* The steps of ReaderSame. *)
LEMMA ReaderMaps ==
    ASSUME IInv, IInv', RefInv, NEW c \in Cursors,
           TxnRef(c) \/ Update(c) \/ Close(c) \/ EnterTransaction(c) \/ RollbackRef(c)
    PROVE  [Abs!Next]_(Abs!vars)
<1>0. /\ TypeOK /\ TypeOK' /\ read_txn \in Tid /\ read_txn \in Nat /\ 0 \notin Tid
      /\ cur[c].txn \in Nat /\ cur[c].ref \in Nat
  BY Kinds, Numbers, Ids DEF IInv
<1>1. /\ UNCHANGED <<read_txn, prepared_txn, active_txn, pages>> /\ \A d \in Cursors \ {c} : cur'[d] = cur[d]
  BY <1>0 DEF TxnRef, Update, Close, EnterTransaction, RollbackRef, header, object, TypeOK
<1>2. /\ Draft' = Draft /\ (Prepared' <=> Prepared) /\ \A d \in Cursors \ {c} : View(d)' = View(d)
  BY <1>1 DEF Draft, Prepared, View
<1>3. \A t \in InUse : txns'[t].root = txns[t].root
  BY <1>0, UseIds, ReaderSame DEF Same
<1>4. /\ Committed' = Committed /\ DraftMap' = DraftMap
      /\ \A d \in Cursors : View(d)' = View(d) => Snap(d)' = Snap(d)
      /\ \A t \in InUse \cup {0} : MapAt(txns', pages', t) = MapAt(txns, pages, t)
  BY <1>0, <1>1, <1>2, <1>3, KeepMaps
<1>5. CASE View(c)' = View(c)
  <2>1. \A d \in Cursors : Snap(d)' = Snap(d)
    BY <1>2, <1>4, <1>5
  <2> QED
    BY <1>0, <1>2, <1>4, <2>1, AbsStutter
<1>6. CASE View(c)' = read_txn
  <2>1. Snap(c)' = Committed
    BY <1>0, <1>4, <1>6, MapUse DEF Snap, Committed
  <2> QED
    BY <1>0, <1>2, <1>4, <2>1, AbsRefresh
<1>7. CASE TxnRef(c)
  <2>1. cur'[c].txn = cur[c].txn /\ cur'[c].ref = read_txn /\ cur[c].ref = 0
    BY <1>0, <1>7 DEF TxnRef, At, TypeOK, RefInv, HoldInv
  <2>2. View(c)' = read_txn \/ View(c)' = View(c)
    BY <1>0, <2>1 DEF View
  <2> QED
    BY <1>5, <1>6, <2>2
<1>8. CASE Update(c)
  <2>1. /\ cur[c].ref # 0 /\ cur'[c].ref = 0
        /\ cur'[c].txn = IF Newer(cur[c].ref, cur[c].txn) THEN cur[c].ref ELSE cur[c].txn
    BY <1>0, <1>8 DEF Update, At, TypeOK, IInv, CursorInv
  <2>2. View(c)' = View(c)
    BY <1>0, <2>1 DEF View, Newer
  <2> QED
    BY <1>5, <2>2
<1>9. CASE Close(c)
  <2>1. cur'[c].txn = 0 /\ cur'[c].ref = 0
    BY <1>0, <1>9 DEF Close, TypeOK
  <2>2. Snap(c)' = NoMap
    BY <1>0, <2>1, MapUse DEF Snap, View
  <2> QED
    BY <1>0, <1>2, <1>4, <2>2, AbsClose
<1>10. CASE EnterTransaction(c)
  <2>1. cur'[c].txn = active_txn /\ cur'[c].ref = 0 /\ Starting
    BY <1>0, <1>10 DEF EnterTransaction, TypeOK, At, Starting
  <2>2. active_txn \in Tid /\ active_txn = read_txn + 1 /\ ~Prepared /\ active_txn \in Nat
    BY <1>0, <2>1, StartingFacts, Ids DEF RefInv
  <2>3. View(c)' = active_txn /\ Draft = active_txn
    BY <1>0, <2>1, <2>2 DEF View, Draft
  <2>4. Snap(c)' = DraftMap /\ DraftMap # NoMap
    BY <1>0, <1>4, <2>2, <2>3, MapUse DEF Snap, DraftMap
  <2> QED
    BY <1>0, <1>2, <1>4, <2>4, AbsEnter
<1>11. CASE RollbackRef(c)
  <2>1. cur'[c].txn = read_txn /\ cur'[c].ref = 0
    BY <1>0, <1>11 DEF RollbackRef, TypeOK
  <2>2. View(c)' = read_txn
    BY <1>0, <2>1 DEF View
  <2> QED
    BY <1>6, <2>2
<1> QED
  BY <1>7, <1>8, <1>9, <1>10, <1>11

(* The header stores. *)
LEMMA HeaderMaps ==
    ASSUME IInv, IInv', RefInv, NEW c \in Cursors,
           PrepareMark(c) \/ CommitSwitch(c) \/ CommitEnd(c) \/ RollbackUnprepare(c)
    PROVE  [Abs!Next]_(Abs!vars)
<1>0. TypeOK /\ TypeOK' /\ read_txn \in Tid /\ prepared_txn \in Tid /\ read_txn \in Nat /\ 0 \notin Tid
  BY Kinds, Numbers, Ids DEF IInv, TypeOK
<1>1. /\ UNCHANGED <<pages, txns>> /\ up
      /\ \A d \in Cursors : cur'[d].txn = cur[d].txn /\ cur'[d].ref = cur[d].ref
  BY <1>0 DEF PrepareMark, CommitSwitch, CommitEnd, RollbackUnprepare, EndTransaction, Goto, object, At, TypeOK
<1>2. \A d \in Cursors : View(d)' = View(d)
  BY <1>1 DEF View
<1>3. /\ read_txn' = read_txn => Committed' = Committed
      /\ Draft' = Draft => DraftMap' = DraftMap
      /\ \A d \in Cursors : Snap(d)' = Snap(d)
      /\ \A t \in InUse \cup {0} : MapAt(txns', pages', t) = MapAt(txns, pages, t)
  BY <1>0, <1>1, <1>2, KeepMaps
<1>4. CASE PrepareMark(c)
  <2>1. /\ UNCHANGED <<read_txn, active_txn>> /\ prepared_txn' = active_txn /\ cur[c].pc = "cloned"
    BY <1>4 DEF PrepareMark, At, object
  <2>2. active_txn # read_txn /\ active_txn \in Tid
    BY <1>0, <1>1, <2>1, OwnerKnows
  <2>3. Prepared' /\ Draft' = active_txn /\ Draft = active_txn
    BY <1>1, <2>1, <2>2 DEF Prepared, Draft, RefInv, PhaseInv
  <2>4. DraftMap # NoMap
    BY <1>0, <2>2, <2>3, MapUse DEF DraftMap
  <2> QED
    BY <1>0, <1>3, <2>1, <2>3, <2>4, AbsPrepare
<1>5. CASE CommitSwitch(c)
  <2>1. /\ UNCHANGED <<prepared_txn, active_txn>> /\ read_txn' = prepared_txn /\ Prepared
    BY <1>5 DEF CommitSwitch, object
  <2>2. active_txn = prepared_txn
    BY <1>1, <2>1 DEF RefInv, PhaseInv
  <2>3. Draft = prepared_txn /\ ~Prepared' /\ Draft' = 0
    BY <2>1, <2>2 DEF Draft, Prepared
  <2>4. Committed' = DraftMap /\ DraftMap' = NoMap
    BY <1>0, <1>3, <2>1, <2>3, MapUse DEF Committed, DraftMap
  <2> QED
    BY <1>0, <1>3, <2>1, <2>3, <2>4, AbsCommit
<1>6. CASE CommitEnd(c)
  <2>1. /\ UNCHANGED <<prepared_txn, read_txn>> /\ active_txn' = 0 /\ cur[c].pc = "switched"
    BY <1>6 DEF CommitEnd, EndTransaction, At
  <2>2. ~Prepared /\ active_txn = read_txn
    BY <2>1 DEF IInv, NextPageInv, RefInv, PhaseInv
  <2>3. Draft = 0 /\ Draft' = 0 /\ ~Prepared'
    BY <1>0, <2>1, <2>2 DEF Draft, Prepared
  <2> QED
    BY <1>0, <1>3, <2>1, <2>2, <2>3, AbsStutter
<1>7. CASE RollbackUnprepare(c)
  <2>1. /\ UNCHANGED <<active_txn, read_txn>> /\ prepared_txn' = read_txn /\ Owner(c) /\ cur[c].pc = "idle"
    BY <1>7 DEF RollbackUnprepare, At, object
  <2>2. active_txn # read_txn /\ active_txn \in Tid
    BY <1>0, <1>1, <2>1, OwnerKnows
  <2>3. ~Prepared' /\ Draft' = active_txn /\ Draft = active_txn
    BY <1>1, <2>1, <2>2 DEF Prepared, Draft, RefInv, PhaseInv
  <2>4. DraftMap # NoMap
    BY <1>0, <2>2, <2>3, MapUse DEF DraftMap
  <2> QED
    BY <1>0, <1>3, <2>1, <2>3, <2>4, AbsUnprepare
<1> QED
  BY <1>4, <1>5, <1>6, <1>7

(* start_transaction(). *)
LEMMA StartMaps ==
    ASSUME IInv, IInv', RefInv, PageInv, PageInv', NEW c \in Cursors, StartTransaction(c)
    PROVE  Abs!Next
<1>0. TypeOK /\ TypeOK' /\ read_txn \in Tid /\ read_txn \in Nat /\ 0 \notin Tid /\ txns \in [Tid -> Txn]
  BY Kinds, Numbers, Ids DEF IInv, TypeOK
<1>1. PICK a \in Tid, n \in Tid : a = read_txn + 1 /\ n = next_txn_page
  <2>1. read_txn + 1 \in Tid
    BY <1>0, MvccAssumption DEF StartTransaction, Tid
  <2>2. next_txn_page \in Tid
    BY <1>0, Kinds DEF StartTransaction
  <2> QED
    BY <2>1, <2>2
<1>2. /\ up /\ ~txn_lock /\ active_txn' = a /\ UNCHANGED <<read_txn, prepared_txn, pages>>
      /\ cur'[c].pc = "locked" /\ \A d \in Cursors : cur'[d].txn = cur[d].txn /\ cur'[d].ref = cur[d].ref
  BY <1>0, <1>1 DEF StartTransaction, At, Goto, TypeOK
<1>3. active_txn = 0 /\ ~Prepared
  BY <1>2 DEF IInv, WriterInv, NextPageInv
<1>4. \A t \in InUse : t \in Tid /\ t # a
  <2>1. \A t \in InUse : t \in Tid /\ t <= read_txn
    BY <1>0, <1>2, <1>3, UseBound, UseIds
  <2> QED
    BY <1>0, <1>1, <2>1
<1>5. \A t \in Tid \ {a} : txns'[t].root = txns[t].root
  <2> DEFINE taken == [txns EXCEPT ![a] = txns[n]]
  <2>1. txns' = [taken EXCEPT ![read_txn].refs = Inc(@)]
    BY <1>1 DEF StartTransaction
  <2>2. taken \in [Tid -> Txn] /\ \A t \in Tid \ {a} : taken[t] = txns[t]
    BY <1>0
  <2> HIDE DEF taken
  <2>3. Inc(taken[read_txn].refs) \in 0 .. MaxRefs
    BY <1>0, <2>2, CountRange DEF Txn
  <2>4. \A t \in Tid : Alike(txns'[t], taken[t])
    BY <1>0, <2>1, <2>2, <2>3, CountOnly
  <2> QED
    BY <2>2, <2>4 DEF Alike
<1>6. txns'[a].root = txns'[read_txn].root
  BY <1>2 DEF PageInv, StartingInv, CopyOf
<1>7. /\ Draft = 0 /\ Draft' = a /\ ~Prepared' /\ \A d \in Cursors : View(d)' = View(d)
  <2>1. a # read_txn
    BY <1>0, <1>1
  <2> QED
    BY <1>2, <1>3, <2>1 DEF Draft, View, Prepared
<1>8. /\ Committed' = Committed /\ \A d \in Cursors : Snap(d)' = Snap(d)
  BY <1>0, <1>2, <1>4, <1>5, <1>7, KeepMaps
<1>9. DraftMap = NoMap /\ DraftMap' = Committed'
  <2>1. DraftMap' = MapAt(txns', pages', a) /\ Committed' = MapAt(txns', pages', read_txn)
    BY <1>2, <1>7 DEF DraftMap, Committed
  <2>2. MapAt(txns', pages', a) = MapAt(txns', pages', read_txn)
    BY <1>0, <1>6 DEF MapAt
  <2> QED
    BY <1>0, <1>7, <2>1, <2>2, MapUse DEF DraftMap
<1> QED
  BY <1>0, <1>3, <1>7, <1>8, <1>9, AbsBegin

(* The walk and prepare_commit() change no map. *)
LEMMA CollectMaps ==
    ASSUME IInv, IInv', RefInv, NEW c \in Cursors, CollectTransactions(c) \/ PrepareClone(c)
    PROVE  UNCHANGED Abs!vars
<1>0. TypeOK /\ TypeOK' /\ txns \in [Tid -> Txn] /\ read_txn \in Nat
  BY Numbers DEF IInv, TypeOK
<1>1. /\ UNCHANGED <<read_txn, prepared_txn, active_txn, pages>>
      /\ \A d \in Cursors : cur'[d].txn = cur[d].txn /\ cur'[d].ref = cur[d].ref
  <2>1. CASE CollectTransactions(c)
    BY <1>0, <2>1 DEF CollectTransactions, Goto, header, TypeOK
  <2>2. CASE PrepareClone(c)
    BY <1>0, <2>2 DEF PrepareClone, Goto, object, TypeOK
  <2> QED
    BY <2>1, <2>2
<1>2. \A t \in InUse : t \in Tid /\ txns'[t].root = txns[t].root
  <2>0. InUse \subseteq Tid
    BY <1>0, UseIds
  <2>1. CASE CollectTransactions(c)
    <3>1. active_txn \in Tid
      BY <2>1, Alone DEF CollectTransactions, At, WritePoints
    <3>2. PICK m, F : txns' = [txns EXCEPT ![active_txn].start = m, ![active_txn].garbage = @ \o F]
      BY <2>1 DEF CollectTransactions
    <3>3. \A t \in Tid : txns'[t].root = txns[t].root
      BY <1>0, <3>1, <3>2 DEF Txn
    <3> QED
      BY <2>0, <3>3
  <2>2. CASE PrepareClone(c)
    <3>1. PICK a \in Tid, n \in Tid : a = active_txn /\ n = active_txn + 1 /\ a = read_txn + 1
      BY <2>2, OwnerKnows DEF PrepareClone, At
    <3>2. Allocated(txns[a]).root = txns[a].root
      BY <1>0, <3>1 DEF Allocated, Txn
    <3>3. txns' = [txns EXCEPT ![a] = Allocated(txns[a]), ![n] = Clone(txns[a])]
      BY <2>2, <3>1 DEF PrepareClone
    <3>4. up
      BY <2>2 DEF PrepareClone, At
    <3>5. \A t \in InUse : t # n
      <4>1. \A t \in InUse : t \in Tid /\ (t <= read_txn \/ t = active_txn)
        BY <3>4, UseBound
      <4> QED
        BY <1>0, <3>1, <4>1
    <3>6. a # n
      BY <1>0, <3>1
    <3>7. \A t \in Tid \ {n} : txns'[t].root = txns[t].root
      BY <1>0, <3>2, <3>3, <3>6
    <3> QED
      BY <2>0, <3>5, <3>7
  <2> QED
    BY <2>1, <2>2
<1>3. /\ Draft' = Draft /\ (Prepared' <=> Prepared) /\ \A d \in Cursors : View(d)' = View(d)
  BY <1>1 DEF Draft, Prepared, View
<1> QED
  BY <1>0, <1>1, <1>2, <1>3, KeepMaps, AbsStutter

(* value() and remove() change the map of the owner. *)
LEMMA OwnerMaps ==
    ASSUME IInv, IInv', RefInv, PageInv, NEW c \in Cursors, At(c, "idle"), Owner(c), ~Prepared,
           UNCHANGED <<header, object, cur>>, NEW k \in Keys, NEW v \in Vals \cup {Missing},
           NEW a \in Tid, a = active_txn,
           \A t \in InUse : t < a => MapAt(txns', pages', t) = MapAt(txns, pages, t),
           MapAt(txns', pages', a) = [MapAt(txns, pages, a) EXCEPT ![k] = v]
    PROVE  Abs!Next
<1>0. TypeOK /\ TypeOK' /\ read_txn \in Nat /\ 0 \notin Tid /\ up
  BY Numbers, Ids DEF IInv, At
<1>1. UNCHANGED <<read_txn, prepared_txn, active_txn, cur>>
  BY DEF header, object
<1>2. /\ a = read_txn + 1 /\ cur[c].txn = a /\ cur[c].ref = 0
      /\ \A d \in Cursors \ {c} : ~Owner(d)
  BY <1>0, OwnerKnows DEF At
<1>3. /\ \A d \in Cursors \ {c} : cur[d].txn \in Nat /\ cur[d].txn <= read_txn
      /\ \A d \in Cursors \ {c} : cur[d].ref \in Nat /\ cur[d].ref <= read_txn
  <2>1. \A d \in Cursors : cur[d].txn \in Nat /\ cur[d].ref \in Nat
    <3>1. \A d \in Cursors : cur[d].txn \in Tid \cup {0} /\ cur[d].ref \in Tid \cup {0}
      BY <1>0 DEF TypeOK
    <3> QED
      BY <3>1, Ids
  <2>2. \A d \in Cursors \ {c} : cur[d].txn <= read_txn /\ cur[d].ref <= read_txn
    BY <1>2 DEF RefInv, HoldInv
  <2> QED
    BY <2>1, <2>2
<1>4. \A d \in Cursors \ {c} : View(d) < a
  BY <1>0, <1>2, <1>3 DEF View
<1>5. View(c) = a /\ Draft = a /\ Draft' = a /\ ~Prepared' /\ View(c)' = a
      /\ \A d \in Cursors : View(d)' = View(d)
  <2>1. a \in Nat /\ a # read_txn
    BY <1>0, <1>2, Ids
  <2> QED
    BY <1>1, <1>2, <2>1 DEF View, Draft, Prepared
<1>6. \A t \in InUse \cup {0} : t < a => MapAt(txns', pages', t) = MapAt(txns, pages, t)
  BY <1>0, MapUse
<1>7. Committed' = Committed
  <2>1. read_txn < a
    BY <1>0, <1>2
  <2> QED
    BY <1>0, <1>1, <1>6, <2>1, MapUse DEF Committed
<1>8. \A d \in Cursors \ {c} : Snap(d)' = Snap(d)
  BY <1>0, <1>4, <1>5, <1>6, MapUse DEF Snap
<1>9. Snap(c)' = DraftMap' /\ DraftMap' = [DraftMap EXCEPT ![k] = v] /\ DraftMap # NoMap
  <2>1. DraftMap = MapAt(txns, pages, a) /\ DraftMap' = MapAt(txns', pages', a) /\ Snap(c)' = MapAt(txns', pages', a)
    BY <1>5 DEF DraftMap, Snap
  <2>2. MapAt(txns, pages, a) # NoMap
    BY <1>0, MapUse
  <2> QED
    BY <2>1, <2>2
<1> QED
  BY <1>0, <1>5, <1>7, <1>8, <1>9, AbsWrite

LEMMA WriteMaps ==
    ASSUME IInv, IInv', RefInv, PageInv, NEW c \in Cursors, NEW k \in Keys,
           (\E v \in Vals : Put(c, k, v)) \/ Remove(c, k)
    PROVE  Abs!Next
<1>0. /\ TypeOK /\ txns \in [Tid -> Txn] /\ 0 \notin Tid
      /\ At(c, "idle") /\ Owner(c) /\ ~Prepared /\ UNCHANGED <<header, object, cur>>
  <2>1. TypeOK /\ txns \in [Tid -> Txn] /\ 0 \notin Tid
    BY Ids DEF IInv, TypeOK
  <2>2. CASE \E v \in Vals : Put(c, k, v)
    BY <2>1, <2>2 DEF Put
  <2>3. CASE Remove(c, k)
    BY <2>1, <2>3 DEF Remove
  <2> QED
    BY <2>2, <2>3
<1>1. PICK a \in Tid : a = active_txn
  BY <1>0, OwnerPages
<1>2. /\ \A t \in InUse : t \in Tid
      /\ \A t \in Tid : t < a => t # a
  BY <1>0, UseIds, Ids
<1>3. \A t \in Tid : txns[t].root \in [Keys -> Page \cup {0}]
  BY <1>0 DEF Txn
<1>4. ASSUME NEW v \in Vals, Put(c, k, v) PROVE Abs!Next
  <2>1. PICK p \in Page, y \in Txn : Written(k, v, p, y)
    BY <1>4, PutEffect
  <2>2. /\ y.root = [txns[a].root EXCEPT ![k] = p]
        /\ txns' = [txns EXCEPT ![a] = y]
        /\ pages' = [pages EXCEPT ![p] = [val |-> v, txn_id |-> a]]
        /\ \A t \in InUse, l \in Keys : t < a => txns[t].root[l] # p
        /\ \A l \in Keys \ {k} : txns[a].root[l] # p
    BY <1>1, <2>1 DEF Written
  <2>3. /\ pages'[p].val = v /\ p # 0 /\ \A q \in Page \ {p} : pages'[q] = pages[q]
    BY <1>0, <2>2, MvccAssumption DEF TypeOK, Page
  <2>4. /\ txns'[a].root[k] = p /\ \A l \in Keys \ {k} : txns'[a].root[l] = txns[a].root[l]
        /\ \A t \in Tid \ {a} : txns'[t] = txns[t]
    BY <1>0, <1>3, <2>2
  <2>5. ASSUME NEW t \in InUse, t < a PROVE MapAt(txns', pages', t) = MapAt(txns, pages, t)
    <3>1. \A l \in Keys : txns'[t].root[l] = txns[t].root[l] /\ txns[t].root[l] \in Page \cup {0} /\ txns[t].root[l] # p
      BY <1>2, <1>3, <2>2, <2>4, <2>5
    <3>2. \A l \in Keys : (IF txns'[t].root[l] = 0 THEN Missing ELSE pages'[txns'[t].root[l]].val)
                            = (IF txns[t].root[l] = 0 THEN Missing ELSE pages[txns[t].root[l]].val)
      BY <2>3, <3>1
    <3> QED
      BY <3>2 DEF MapAt
  <2>6. MapAt(txns', pages', a) = [MapAt(txns, pages, a) EXCEPT ![k] = v]
    <3>1. \A l \in Keys \ {k} : (IF txns'[a].root[l] = 0 THEN Missing ELSE pages'[txns'[a].root[l]].val)
                            = (IF txns[a].root[l] = 0 THEN Missing ELSE pages[txns[a].root[l]].val)
      BY <1>3, <2>2, <2>3, <2>4
    <3>2. (IF txns'[a].root[k] = 0 THEN Missing ELSE pages'[txns'[a].root[k]].val) = v
      BY <2>3, <2>4
    <3>3. a # 0
      BY <1>0
    <3> QED
      BY <3>1, <3>2, <3>3 DEF MapAt
  <2> QED
    BY <1>0, <1>1, <2>5, <2>6, OwnerMaps
<1>5. CASE Remove(c, k)
  <2>1. PICK x \in Txn : x = txns[a]
    BY <1>0
  <2>2. txns' = [txns EXCEPT ![a] = [FreePage(x, x.root[k], a) EXCEPT !.root[k] = 0]] /\ pages' = pages
    BY <1>1, <1>5, <2>1 DEF Remove
  <2>3. [FreePage(x, x.root[k], a) EXCEPT !.root[k] = 0].root = [x.root EXCEPT ![k] = 0]
    BY DEF FreePage, Txn
  <2>4. /\ txns'[a].root = [x.root EXCEPT ![k] = 0] /\ \A t \in Tid \ {a} : txns'[t] = txns[t]
    BY <1>0, <2>2, <2>3
  <2>5. txns'[a].root[k] = 0 /\ \A l \in Keys \ {k} : txns'[a].root[l] = txns[a].root[l]
    BY <1>3, <2>1, <2>4
  <2>6. ASSUME NEW t \in InUse, t < a PROVE MapAt(txns', pages', t) = MapAt(txns, pages, t)
    BY <1>2, <2>2, <2>4, <2>6 DEF MapAt
  <2>7. MapAt(txns', pages', a) = [MapAt(txns, pages, a) EXCEPT ![k] = Missing]
    <3>1. \A l \in Keys \ {k} : (IF txns'[a].root[l] = 0 THEN Missing ELSE pages'[txns'[a].root[l]].val)
                            = (IF txns[a].root[l] = 0 THEN Missing ELSE pages[txns[a].root[l]].val)
      BY <2>2, <2>5
    <3>2. (IF txns'[a].root[k] = 0 THEN Missing ELSE pages'[txns'[a].root[k]].val) = Missing
      BY <2>5
    <3>3. a # 0
      BY <1>0
    <3> QED
      BY <3>1, <3>2, <3>3 DEF MapAt
  <2>8. Missing \in Vals \cup {Missing}
    OBVIOUS
  <2> QED
    BY <1>0, <1>1, <2>6, <2>7, <2>8, OwnerMaps
<1> QED
  BY <1>4, <1>5

(* The two rollbacks. *)
LEMMA DropMaps ==
    ASSUME IInv, IInv', RefInv, (\E c \in Cursors : RollbackEnd(c)) \/ RollbackRecovered
    PROVE  Abs!Next
<1>0. TypeOK /\ TypeOK' /\ read_txn \in Nat /\ 0 \notin Tid /\ read_txn \in Tid
  BY Numbers, Ids, Kinds DEF IInv
<1>1. /\ up /\ DropActive /\ UNCHANGED <<read_txn, pages>> /\ active_txn' = 0
  BY DEF RollbackEnd, RollbackRecovered, DropActive, EndTransaction, At, Recovered
<1>2. ASSUME active_txn = read_txn + 1, active_txn \in Tid, NEW S \in SUBSET Cursors,
             \A d \in S : cur'[d] = cur[d] /\ cur[d].txn <= read_txn /\ cur[d].ref <= read_txn
      PROVE  Committed' = Committed /\ \A d \in S : Snap(d)' = Snap(d)
  <2>1. \A t \in Tid : t <= read_txn => txns'[t] = txns[t]
    <3>1. \A t \in Tid : t <= read_txn => t < active_txn
      BY <1>0, <1>2, Ids
    <3> QED
      BY <1>1, <3>1 DEF DropActive
  <2>2. \A t \in Tid \cup {0} : t = 0 \/ t <= read_txn => MapAt(txns', pages', t) = MapAt(txns, pages, t)
    BY <1>1, <2>1 DEF MapAt
  <2>3. Committed' = Committed
    BY <1>0, <1>1, <2>2 DEF Committed
  <2>4. \A d \in S : View(d)' = View(d) /\ (View(d) = 0 \/ (View(d) \in Tid /\ View(d) <= read_txn))
    <3>1. \A d \in S : cur[d].txn \in Tid \cup {0} /\ cur[d].ref \in Tid \cup {0}
      BY <1>0 DEF TypeOK
    <3> QED
      BY <1>2, <3>1 DEF View
  <2> QED
    BY <2>2, <2>3, <2>4 DEF Snap
<1>3. ASSUME NEW c \in Cursors, RollbackEnd(c) PROVE Abs!Next
  <2>1. /\ cur[c].pc = "unprepared" /\ prepared_txn' = prepared_txn
        /\ cur'[c].txn = 0 /\ cur'[c].ref = 0 /\ \A d \in Cursors \ {c} : cur'[d] = cur[d]
    BY <1>0, <1>3 DEF RollbackEnd, At, TypeOK
  <2>2. /\ active_txn \in Tid /\ active_txn = read_txn + 1 /\ \A d \in Cursors \ {c} : ~Owner(d)
    BY <1>1, <2>1, OwnerKnows
  <2>3. prepared_txn = read_txn /\ active_txn # read_txn
    BY <1>0, <2>1, <2>2 DEF IInv, NextPageInv, Prepared
  <2>4. \A d \in Cursors \ {c} : cur[d].txn <= read_txn /\ cur[d].ref <= read_txn
    BY <2>2 DEF RefInv, HoldInv
  <2>5. Committed' = Committed /\ \A d \in Cursors \ {c} : Snap(d)' = Snap(d)
    BY <1>2, <2>1, <2>2, <2>4
  <2>6. ~Prepared /\ ~Prepared' /\ Draft = active_txn /\ Draft' = 0 /\ View(c)' = 0
    BY <1>0, <1>1, <2>1, <2>3 DEF Prepared, Draft, View
  <2>7. DraftMap # NoMap /\ DraftMap' = NoMap /\ Snap(c)' = NoMap
    BY <1>0, <2>2, <2>6, MapUse DEF DraftMap, Snap
  <2> QED
    BY <1>0, <2>5, <2>6, <2>7, AbsRollback
<1>4. CASE RollbackRecovered
  <2>1. /\ Prepared /\ txn_cursor_id = NoCursor /\ active_txn # 0 /\ prepared_txn' = read_txn /\ cur' = cur
    BY <1>4 DEF RollbackRecovered, Recovered, IInv, NextPageInv
  <2>2. \A d \in Cursors : ~Owner(d) /\ cur[d].pc \notin WritePoints
    BY <1>1, <2>1, Ownerless
  <2>3. active_txn \in Tid /\ active_txn = read_txn + 1
    BY <1>0, <1>1, <2>1, Kinds DEF RefInv, PhaseInv
  <2>4. \A d \in Cursors : cur[d].txn <= read_txn /\ cur[d].ref <= read_txn
    BY <2>2 DEF RefInv, HoldInv
  <2>5. Committed' = Committed /\ \A d \in Cursors : Snap(d)' = Snap(d)
    BY <1>2, <2>1, <2>3, <2>4
  <2>6. ~Prepared' /\ Draft' = 0
    BY <1>0, <1>1, <2>1 DEF Prepared, Draft
  <2>7. DraftMap' = NoMap
    BY <1>0, <2>6, MapUse DEF DraftMap
  <2> QED
    BY <1>0, <2>1, <2>5, <2>6, <2>7, AbsAbandon
<1> QED
  BY <1>3, <1>4

(* A crash, sanitize(), and commit() of a recovered transaction. *)
LEMMA RecoveryMaps ==
    ASSUME IInv, IInv', RefInv, Crash \/ Sanitize \/ CommitRecovered
    PROVE  [Abs!Next]_(Abs!vars)
<1>0. /\ TypeOK /\ TypeOK' /\ read_txn \in Nat /\ 0 \notin Tid /\ read_txn \in Tid /\ txns \in [Tid -> Txn]
      /\ prepared_txn \in Tid
  BY Numbers, Ids, Kinds DEF IInv, TypeOK
<1>1. CASE Crash
  <2>1. /\ UNCHANGED <<read_txn, prepared_txn, txns, pages>> /\ active_txn' = 0 /\ up
        /\ \A d \in Cursors : cur'[d].txn = 0 /\ cur'[d].ref = 0
    BY <1>1 DEF Crash, header
  <2>2. \A d \in Cursors : View(d)' = 0
    BY <2>1 DEF View
  <2>3. (Prepared' <=> Prepared) /\ (Prepared => Draft' = Draft) /\ (~Prepared => Draft' = 0)
    BY <1>0, <2>1 DEF Prepared, Draft
  <2>4. Committed' = Committed /\ (Prepared => DraftMap' = DraftMap)
    BY <1>0, <2>1, <2>3, KeepMaps
  <2>5. (~Prepared => DraftMap' = NoMap) /\ \A d \in Cursors : Snap(d)' = NoMap
    BY <1>0, <2>2, <2>3, MapUse DEF DraftMap, Snap
  <2>6. DraftMap' = IF Prepared THEN DraftMap ELSE NoMap
    BY <2>4, <2>5
  <2> QED
    BY <1>0, <2>3, <2>4, <2>5, <2>6, AbsCrash
<1>2. CASE Sanitize
  <2>1. /\ UNCHANGED <<read_txn, prepared_txn, pages, cur>> /\ ~up
        /\ active_txn' = (IF Prepared THEN prepared_txn ELSE 0)
        /\ Prepared => next_txn_page # 0 /\ prepared_txn = read_txn + 1
        /\ active_txn = 0
    BY <1>2 DEF Sanitize, RefInv, PhaseInv, IInv, NextPageInv
  <2>2. \A d \in Cursors : cur[d].txn = 0 /\ cur[d].ref = 0
    BY <2>1 DEF IInv, CursorInv, RefInv, HoldInv
  <2>3. /\ Draft' = Draft /\ (Prepared' <=> Prepared) /\ \A d \in Cursors : View(d)' = View(d)
    BY <2>1 DEF Draft, Prepared, View
  <2>4. \A t \in InUse : t = read_txn \/ (Prepared /\ t = prepared_txn)
    BY <2>1, <2>2 DEF InUse, Prepared
  <2>5. \A t \in InUse : txns'[t].root = txns[t].root
    <3>1. PICK clean : clean = [t \in Tid |-> IF t \in Chain THEN [txns[t] EXCEPT !.refs = 0] ELSE txns[t]]
      OBVIOUS
    <3>2. clean \in [Tid -> Txn] /\ \A t \in Tid : clean[t].root = txns[t].root
      <4>1. clean \in [Tid -> Txn]
        BY <1>0, <3>1, RefsType
      <4>2. \A t \in Tid : clean[t].root = txns[t].root
        BY <1>0, <3>1 DEF Txn
      <4> QED
        BY <4>1, <4>2
    <3>3. CASE next_txn_page # 0
      <4>1. txns' = [clean EXCEPT ![next_txn_page].refs = 0]
        BY <1>2, <3>1, <3>3 DEF Sanitize
      <4>2. next_txn_page \in Tid /\ 0 \in 0 .. MaxRefs
        BY <1>0, <3>3, Kinds, MvccAssumption
      <4>3. \A t \in Tid : Alike(txns'[t], clean[t])
        BY <3>2, <4>1, <4>2, CountOnly
      <4> QED
        BY <1>0, <2>4, <3>2, <4>3 DEF Alike
    <3>4. CASE next_txn_page = 0
      <4>1. PICK r \in Tid, n \in Nat : r = read_txn /\ n = read_txn + 1
        BY <1>0
      <4>2. txns' = [clean EXCEPT ![r] = Allocated(clean[r]), ![n] = Clone(clean[r])]
        BY <1>2, <3>1, <3>4, <4>1 DEF Sanitize
      <4>3. Allocated(clean[r]).root = clean[r].root /\ r # n
        BY <1>0, <3>2, <4>1 DEF Allocated, Txn
      <4>4. txns'[r].root = txns[r].root
        BY <3>2, <4>2, <4>3
      <4> QED
        BY <2>1, <2>4, <3>4, <4>1, <4>4
    <3> QED
      BY <3>3, <3>4
  <2> QED
    BY <1>0, <2>1, <2>3, <2>5, KeepMaps, AbsStutter
<1>3. CASE CommitRecovered
  <2>1. /\ UNCHANGED <<prepared_txn, txns, pages, cur>> /\ read_txn' = prepared_txn /\ active_txn' = 0 /\ Prepared
    BY <1>3 DEF CommitRecovered, EndTransaction, Recovered, IInv, NextPageInv
  <2>2. Draft = prepared_txn /\ ~Prepared' /\ Draft' = 0 /\ \A d \in Cursors : View(d)' = View(d)
    BY <1>0, <2>1 DEF Draft, Prepared, View
  <2>3. /\ \A d \in Cursors : Snap(d)' = Snap(d)
        /\ \A t \in InUse \cup {0} : MapAt(txns', pages', t) = MapAt(txns, pages, t)
    BY <1>0, <2>1, <2>2, KeepMaps
  <2>4. Committed' = DraftMap /\ DraftMap' = NoMap
    BY <1>0, <2>1, <2>2, <2>3, MapUse DEF Committed, DraftMap
  <2> QED
    BY <1>0, <2>1, <2>2, <2>3, <2>4, AbsCommit
<1> QED
  BY <1>1, <1>2, <1>3

LEMMA StepMaps ==
    ASSUME NoWindows, IInv, RefInv, PageInv, [Next]_vars
    PROVE  [Abs!Next]_(Abs!vars)
<1>0. IInv' /\ RefInv' /\ PageInv'
  BY StepPageInv
<1>1. ASSUME NEW c \in Cursors, CursorNext(c) PROVE [Abs!Next]_(Abs!vars)
  <2>1. ~CommitFails(c)
    BY DEF CommitFails, NoWindows, NoFull
  <2>2. CASE (\E k \in Keys, v \in Vals : Put(c, k, v)) \/ (\E k \in Keys : Remove(c, k))
    BY <1>0, <2>2, WriteMaps
  <2>4. CASE TxnRef(c) \/ Update(c) \/ Close(c) \/ EnterTransaction(c) \/ RollbackRef(c)
    BY <1>0, <2>4, ReaderMaps
  <2>5. CASE PrepareMark(c) \/ CommitSwitch(c) \/ CommitEnd(c) \/ RollbackUnprepare(c)
    BY <1>0, <2>5, HeaderMaps
  <2>6. CASE StartTransaction(c)
    BY <1>0, <2>6, StartMaps
  <2>7. CASE CollectTransactions(c) \/ PrepareClone(c)
    BY <1>0, <2>7, CollectMaps
  <2>8. CASE RollbackEnd(c)
    BY <1>0, <2>8, DropMaps
  <2> QED
    BY <1>1, <2>1, <2>2, <2>4, <2>5, <2>6, <2>7, <2>8 DEF CursorNext
<1>2. CASE Crash \/ Sanitize \/ CommitRecovered
  BY <1>0, <1>2, RecoveryMaps
<1>3. CASE RollbackRecovered
  BY <1>0, <1>3, DropMaps
<1>4. ~Repair
  BY DEF Repair, NoWindows
<1>5. CASE UNCHANGED vars
  <2>1. UNCHANGED <<read_txn, prepared_txn, active_txn, txns, pages, cur>>
    BY <1>5 DEF vars, header, object
  <2>2. TypeOK /\ TypeOK'
    BY <1>0 DEF IInv
  <2>3. /\ Draft' = Draft /\ (Prepared' <=> Prepared) /\ \A d \in Cursors : View(d)' = View(d)
    BY <2>1 DEF Draft, Prepared, View
  <2> QED
    BY <2>1, <2>2, <2>3, KeepMaps, AbsStutter
<1> QED
  BY <1>0, <1>1, <1>2, <1>3, <1>4, <1>5 DEF Next

LEMMA InitMaps == Init => Abs!Init
<1> SUFFICES ASSUME Init PROVE Abs!Init
  OBVIOUS
<1>1. TypeOK /\ 1 \in Tid
  <2>1. TypeOK
    BY InitIInv DEF IInv
  <2> QED
    BY <2>1, MvccAssumption DEF Tid
<1>2. /\ read_txn = 1 /\ prepared_txn = 1 /\ active_txn = 0
      /\ \A c \in Cursors : cur[c].txn = 0 /\ cur[c].ref = 0
      /\ \A k \in Keys : txns[1].root[k] = 0
  BY <1>1 DEF Init, FirstTxn
<1>3. MapOf(read_txn) = [k \in Keys |-> Missing]
  BY <1>2 DEF MapOf, Lookup
<1>4. Draft = 0 /\ ~Prepared /\ \A c \in Cursors : View(c) = 0
  BY <1>2 DEF Draft, Prepared, View
<1> QED
  BY <1>3, <1>4 DEF Abs!Init

(* ImplementsSnapshots: the maps the cursors read through the pages behave  *)
(* like SnapshotStore, whatever is recycled, rolled back or recovered.      *)
THEOREM SnapshotsTheorem == ASSUME NoWindows PROVE Spec => ImplementsSnapshots
<1>1. Init => Abs!Init
  BY InitMaps
<1>2. IInv /\ RefInv /\ PageInv /\ [Next]_vars => [Abs!Next]_(Abs!vars)
  BY StepMaps
<1> QED
  BY <1>1, <1>2, PagesHold, PTL DEF Spec, ImplementsSnapshots, Abs!Spec
=============================================================================
