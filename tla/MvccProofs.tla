----------------------------- MODULE MvccProofs -----------------------------
(***************************************************************************)
(* Theorems about Mvcc for every number of cursors, keys, pages and        *)
(* transactions, every set of crash points and every set of faults.        *)
(***************************************************************************)
EXTENDS Mvcc, Integers, FiniteSetTheorems, WellFoundedInduction, TLAPS

(* Program points of a cursor that is inside a call of the write side. *)
WritePoints == {"locked", "gc", "cloned", "switched", "unprepared"}

(* Who holds the write transaction: a cursor inside a write call is the     *)
(* owner txn_cursor_id names, the owner holds txn_lock, and then there is   *)
(* an active transaction; only a recovered one has no owner.                *)
WriterInv ==
    /\ \A c \in Cursors : up /\ cur[c].pc \in WritePoints => txn_cursor_id = c
    /\ up /\ txn_cursor_id # NoCursor => txn_lock /\ active_txn \in 1 .. MaxTxn
    /\ up /\ active_txn # 0 => txn_lock
    /\ read_txn <= MaxTxn /\ prepared_txn <= MaxTxn

(* A cursor between two calls is on a transaction; a crash closes them all. *)
CursorInv ==
    \A c \in Cursors :
        /\ cur[c].pc \notin {"closed", "pinned", "rolled"} => cur[c].txn # 0
        /\ cur[c].pc = "pinned" => cur[c].ref # 0
        /\ ~up => cur[c].pc = "closed"

(* Why the next transaction page is there when the lock is free: it is      *)
(* stored before the header names a prepared transaction, and a prepared    *)
(* transaction keeps the lock until it is committed or rolled back; a       *)
(* transaction without an owner is a recovered, prepared one.               *)
NextPageInv ==
    /\ Prepared => next_txn_page # 0 /\ (up => txn_lock)
    /\ \A c \in Cursors : cur[c].pc \in {"cloned", "switched"} => next_txn_page # 0
    /\ \A c \in Cursors : cur[c].pc \in {"switched", "unprepared"} => ~Prepared
    /\ Recovered => Prepared
    /\ NextTxnPageReady

IInv == TypeOK /\ WriterInv /\ CursorInv /\ NextPageInv

-----------------------------------------------------------------------------
(* What the operations on one transaction return. *)

(* alloc() yields a page and leaves a transaction, when it can allocate.    *)
LEMMA AllocType ==
    ASSUME NEW t \in Txn, start_txn_id \in Tid \cup {0}, CanAlloc(t)
    PROVE  AllocPage(t) \in Page /\ Allocated(t) \in Txn
<1>1. CASE MayRecycle(t)
  <2>1. t.garbage \in Seq(Freed) /\ t.garbage # << >>
    BY <1>1 DEF MayRecycle, Txn
  <2>2. Head(t.garbage) \in Freed /\ Tail(t.garbage) \in Seq(Freed)
    BY <2>1
  <2>3. Head(t.garbage).page \in Page
    BY <2>2 DEF Freed
  <2> QED
    BY <1>1, <2>2, <2>3 DEF AllocPage, Allocated, Txn
<1>2. CASE ~MayRecycle(t)
  <2>1. t.bump \in 1 .. MaxPage + 1 /\ t.bump <= MaxPage
    BY <1>2 DEF CanAlloc, Txn
  <2>2. t.bump \in Page /\ t.bump + 1 \in 1 .. MaxPage + 1
    BY <2>1, MvccAssumption DEF Page
  <2> QED
    BY <1>2, <2>2 DEF AllocPage, Allocated, Txn
<1> QED
  BY <1>1, <1>2

(* clone() of a transaction is a transaction. *)
LEMMA CloneType ==
    ASSUME NEW t \in Txn, start_txn_id \in Tid \cup {0}, CanAlloc(t)
    PROVE  Clone(t) \in Txn
<1>1. AllocPage(t) \in Page /\ Allocated(t) \in Txn
  BY AllocType
<1>2. 0 \in 0 .. MaxRefs
  BY MvccAssumption
<1> QED
  BY <1>1, <1>2 DEF Clone, Txn

(* free() leaves a transaction. *)
LEMMA FreeType ==
    ASSUME NEW t \in Txn, NEW p \in Page, NEW id \in Tid
    PROVE  FreePage(t, p, id) \in Txn
<1>1. [page |-> p, tid |-> id] \in Freed
  BY DEF Freed
<1>2. Append(t.garbage, [page |-> p, tid |-> id]) \in Seq(Freed)
  BY <1>1 DEF Txn
<1> QED
  BY <1>2 DEF FreePage, Txn

(* A reference count stays within its width. *)
LEMMA RefsType ==
    ASSUME NEW t \in Txn
    PROVE  /\ [t EXCEPT !.refs = Inc(@)] \in Txn
           /\ [t EXCEPT !.refs = Dec(@)] \in Txn
           /\ [t EXCEPT !.refs = 0] \in Txn
<1>1. t.refs \in 0 .. MaxRefs /\ MaxRefs \in Nat
  BY MvccAssumption DEF Txn
<1>2. Inc(t.refs) \in 0 .. MaxRefs /\ Dec(t.refs) \in 0 .. MaxRefs /\ 0 \in 0 .. MaxRefs
  BY <1>1 DEF Inc, Dec
<1> QED
  BY <1>2 DEF Txn

(* Every transaction id is usable as one, the last only for a pre-allocated *)
(* page.                                                                    *)
LEMMA TidFacts ==
    /\ 1 \in Tid /\ 2 \in Tid /\ 0 \notin Tid
    /\ \A t \in Tid : t \in Nat /\ t >= 1
    /\ \A t \in Nat : 1 <= t /\ t <= MaxTxn => t \in Tid /\ t + 1 \in Tid
BY MvccAssumption DEF Tid

(* init() builds a transaction. *)
LEMMA FirstTxnType == FirstTxn \in Txn
<1>1. 0 \in 0 .. MaxRefs /\ 1 \in Page /\ 3 \in 1 .. MaxPage + 1 /\ 1 \in Tid
  BY MvccAssumption, TidFacts DEF Page
<1>2. << >> \in Seq(Freed)
  OBVIOUS
<1>3. [k \in Keys |-> 0] \in [Keys -> Page \cup {0}]
  OBVIOUS
<1> QED
  BY <1>1, <1>2, <1>3 DEF FirstTxn, Txn

(* A function on 1 .. n is a sequence, whatever expression gives the n. *)
LEMMA SeqFromFunction ==
    ASSUME NEW S, NEW n \in Nat, NEW D, 1 .. n = D, NEW f \in [D -> S]
    PROVE  f \in Seq(S)
OBVIOUS

(* A non-empty set of naturals has a least element. *)
LEMMA LeastNat ==
    ASSUME NEW S, S \subseteq Nat, S # {}
    PROVE  \E t \in S : \A u \in S : t <= u
<1>1. PICK m \in S : \A y \in S : <<y, m>> \notin OpToRel(<, Nat)
  BY NatLessThanWellFounded, WFMin
<1>2. \A y \in S : ~(y < m)
  BY <1>1 DEF OpToRel
<1>3. m \in Nat /\ \A y \in S : y \in Nat
  OBVIOUS
<1> HIDE DEF OpToRel
<1>4. \A y \in S : m <= y
  BY <1>2, <1>3
<1> QED
  BY <1>4

-----------------------------------------------------------------------------
(* The invariant holds initially. *)
LEMMA InitIInv == Init => IInv
<1> SUFFICES ASSUME Init PROVE IInv
  OBVIOUS
<1> USE TidFacts
<1>1. FirstTxn \in Txn
  BY FirstTxnType
<1>2. txns \in [Tid -> Txn]
  <2>1. 1 \in Page /\ 2 \in Page
    BY MvccAssumption DEF Page
  <2> QED
    BY <1>1, <2>1 DEF Init, Txn
<1>3. TypeOK
  BY <1>2 DEF Init, TypeOK, Points
<1>4. WriterInv
  BY MvccAssumption DEF Init, WriterInv, WritePoints
<1>5. CursorInv /\ NextPageInv
  BY DEF Init, CursorInv, NextPageInv, NextTxnPageReady, Prepared, Recovered
<1> QED
  BY <1>3, <1>4, <1>5 DEF IInv

-----------------------------------------------------------------------------
(* Every step preserves the invariant: first its type, one lemma per group  *)
(* of actions.                                                              *)

(* The types of the variables that the cursors' actions change together. *)
CurType == [Cursors -> [pc : Points, txn : Tid \cup {0}, ref : Tid \cup {0}]]

(* Taking, moving and dropping a reference is type correct. *)
LEMMA ReaderTypes ==
    ASSUME IInv, NEW c \in Cursors, TxnRef(c) \/ Update(c) \/ Close(c)
    PROVE  TypeOK'
<1> USE DEF IInv, TypeOK
<1>1. CASE TxnRef(c)
  <2>1. txns' \in [Tid -> Txn]
    BY <1>1, RefsType DEF TxnRef
  <2>2. cur' \in CurType
    BY <1>1 DEF TxnRef, CurType, Points
  <2> QED
    BY <1>1, <2>1, <2>2 DEF TxnRef, CurType, header, object
<1>2. CASE Update(c)
  <2>1. cur[c].ref \in Tid
    BY <1>2 DEF Update, At, CursorInv
  <2>2. cur[c].txn \in Tid \/ (Newer(cur[c].ref, cur[c].txn) /\ cur[c].txn = 0)
    BY DEF Newer
  <2>3. txns' \in [Tid -> Txn]
    BY <1>2, <2>1, <2>2, RefsType DEF Update
  <2>4. cur' \in CurType
    BY <1>2, <2>1 DEF Update, CurType, Points
  <2> QED
    BY <1>2, <2>3, <2>4 DEF Update, CurType, header, object
<1>3. CASE Close(c)
  <2>1. cur[c].txn \in Tid
    BY <1>3 DEF Close, At, CursorInv
  <2>2. txns' \in [Tid -> Txn]
    BY <1>3, <2>1, RefsType DEF Close
  <2>3. cur' \in CurType
    BY <1>3 DEF Close, CurType, Points
  <2> QED
    BY <1>3, <2>2, <2>3 DEF Close, CurType, header, object
<1> QED
  BY <1>1, <1>2, <1>3

(* What the owner of the write transaction may rely on. *)
LEMMA OwnerFacts ==
    ASSUME IInv, up, NEW c \in Cursors,
           Owner(c) \/ cur[c].pc \in WritePoints
    PROVE  /\ txn_cursor_id = c /\ txn_lock
           /\ active_txn \in 1 .. MaxTxn
           /\ active_txn \in Tid /\ active_txn + 1 \in Tid
<1>1. txn_cursor_id = c
  BY DEF IInv, WriterInv, Owner
<1>2. txn_lock /\ active_txn \in 1 .. MaxTxn
  BY <1>1, MvccAssumption DEF IInv, WriterInv
<1>3. active_txn \in Nat /\ 1 <= active_txn /\ active_txn <= MaxTxn
  BY <1>2, MvccAssumption
<1> QED
  BY <1>1, <1>2, <1>3, TidFacts

(* Starting a write transaction is type correct. *)
LEMMA StartTypes ==
    ASSUME IInv, NEW c \in Cursors,
           StartTransaction(c) \/ CollectTransactions(c) \/ EnterTransaction(c)
    PROVE  TypeOK'
<1> USE DEF IInv, TypeOK
<1>1. CASE StartTransaction(c)
  <2>1. read_txn + 1 \in Tid
    BY <1>1, TidFacts, MvccAssumption DEF StartTransaction, WriterInv
  <2>2. next_txn_page \in Tid
    BY <1>1 DEF StartTransaction
  <2> DEFINE taken == [txns EXCEPT ![read_txn + 1] = txns[next_txn_page]]
  <2>3. taken \in [Tid -> Txn]
    BY <2>1, <2>2
  <2>4. txns' \in [Tid -> Txn]
    <3>1. txns' = [taken EXCEPT ![read_txn].refs = Inc(@)]
      BY <1>1 DEF StartTransaction
    <3> HIDE DEF taken
    <3> QED
      BY <2>3, <3>1, RefsType
  <2>5. cur' \in CurType
    BY <1>1 DEF StartTransaction, Goto, CurType, Points
  <2> QED
    BY <1>1, <2>1, <2>4, <2>5 DEF StartTransaction, CurType
<1>2. CASE CollectTransactions(c)
  <2> DEFINE first == txns[read_txn].start
             stop == IF Pinned = {} THEN read_txn + 1
                     ELSE CHOOSE t \in Pinned : \A u \in Pinned : t <= u
             freed == [i \in 1 .. stop - first |->
                         [page |-> txns[first + i - 1].page, tid |-> active_txn]]
             oldest == IF Pinned = {} THEN first ELSE stop
  <2>1. first \in Tid
    BY DEF Txn
  <2>2. active_txn \in Tid
    BY <1>2, OwnerFacts DEF CollectTransactions, At, WritePoints
  <2>3. Pinned # {} => stop \in Pinned
    <3> SUFFICES ASSUME Pinned # {} PROVE stop \in Pinned
      OBVIOUS
    <3>1. Pinned \subseteq Nat
      BY <2>1, TidFacts DEF Pinned, Chain
    <3>2. \E t \in Pinned : \A u \in Pinned : t <= u
      BY <3>1, LeastNat
    <3> QED
      BY <3>2
  <2>4. stop \in Nat /\ stop <= read_txn + 1 /\ (Pinned # {} => stop \in Tid)
    <3>1. Pinned = {} => stop = read_txn + 1
      OBVIOUS
    <3>2. \A t \in Pinned : t \in Tid /\ t <= read_txn
      BY <2>1, MvccAssumption DEF Pinned, Chain, Tid
    <3> HIDE DEF stop
    <3> QED
      BY <2>3, <3>1, <3>2, TidFacts
  <2>5. \A i \in 1 .. stop - first : first + i - 1 \in Tid
    <3> HIDE DEF stop, first
    <3> QED
      BY <2>1, <2>4, MvccAssumption DEF Tid
  <2>6. freed \in Seq(Freed)
    <3>1. \A i \in 1 .. stop - first : txns[first + i - 1].page \in Page
      BY <2>5 DEF Txn
    <3>2. freed \in [1 .. stop - first -> Freed]
      BY <2>2, <3>1 DEF Freed
    <3>3. stop - first \in Int
      BY <2>1, <2>4, TidFacts
    <3>4. PICK n \in Nat : 1 .. n = 1 .. stop - first
      <4>1. CASE stop - first \in Nat
        BY <4>1
      <4>2. CASE stop - first \notin Nat
        <5> HIDE DEF stop, first
        <5>1. 1 .. 0 = 1 .. stop - first
          BY <3>3, <4>2
        <5> QED
          BY <5>1
      <4> QED
        BY <4>1, <4>2
    <3> QED
      BY <3>2, <3>4, SeqFromFunction
  <2>7. oldest \in Tid
    BY <2>1, <2>4
  <2>8. [txns[active_txn] EXCEPT !.start = oldest, !.garbage = @ \o freed] \in Txn
    <3> DEFINE old == txns[active_txn]
               queue == old.garbage \o freed
    <3>1. old \in Txn
      BY <2>2
    <3>2. queue \in Seq(Freed)
      BY <3>1, <2>6 DEF Txn
    <3> HIDE DEF old, queue, oldest
    <3>3. [old EXCEPT !.start = oldest, !.garbage = queue] \in Txn
      BY <2>7, <3>1, <3>2 DEF Txn
    <3> QED
      BY <3>3 DEF old, queue
  <2>9. txns' = [txns EXCEPT ![active_txn] =
                   [txns[active_txn] EXCEPT !.start = oldest, !.garbage = @ \o freed]]
    <3>1. txns' = [txns EXCEPT ![active_txn].start = oldest, ![active_txn].garbage = @ \o freed]
      BY <1>2 DEF CollectTransactions
    <3> HIDE DEF oldest, freed
    <3> QED
      BY <2>2, <3>1
  <2>10. txns' \in [Tid -> Txn]
    <3> DEFINE new == [txns[active_txn] EXCEPT !.start = oldest, !.garbage = @ \o freed]
    <3>1. new \in Txn /\ txns' = [txns EXCEPT ![active_txn] = new]
      BY <2>8, <2>9
    <3> HIDE DEF new
    <3> QED
      BY <3>1
  <2>11. start_txn_id' \in Tid \cup {0}
    BY <1>2, <2>7 DEF CollectTransactions, RecycleBelow
  <2>12. cur' \in CurType
    BY <1>2 DEF CollectTransactions, Goto, CurType, Points
  <2> QED
    BY <1>2, <2>10, <2>11, <2>12 DEF CollectTransactions, CurType, header
<1>3. CASE EnterTransaction(c)
  <2>1. active_txn \in Tid /\ cur[c].txn \in Tid
    BY <1>3, OwnerFacts DEF EnterTransaction, At, WritePoints, CursorInv
  <2> DEFINE unpinned == [txns EXCEPT ![read_txn].refs = Dec(@)]
             left == [unpinned EXCEPT ![cur[c].txn].refs = Dec(@)]
  <2>2. unpinned \in [Tid -> Txn]
    BY RefsType
  <2>3. left \in [Tid -> Txn]
    BY <2>1, <2>2, RefsType
  <2>4. txns' \in [Tid -> Txn]
    <3>1. txns' = [left EXCEPT ![active_txn].refs = Inc(@)]
      BY <1>3 DEF EnterTransaction
    <3> HIDE DEF left
    <3> QED
      BY <2>1, <2>3, <3>1, RefsType
  <2>5. cur' \in CurType
    BY <1>3, <2>1 DEF EnterTransaction, CurType, Points
  <2> QED
    BY <1>3, <2>4, <2>5 DEF EnterTransaction, CurType, header, object
<1> QED
  BY <1>1, <1>2, <1>3

(* Writing and removing a key is type correct. *)
LEMMA WriteTypes ==
    ASSUME IInv, NEW c \in Cursors,
           \/ \E k \in Keys, v \in Vals : Put(c, k, v)
           \/ \E k \in Keys : Remove(c, k)
    PROVE  TypeOK'
<1> USE DEF IInv, TypeOK
<1>1. ASSUME NEW k \in Keys, NEW v \in Vals, Put(c, k, v) PROVE TypeOK'
  <2> DEFINE t   == txns[active_txn]
             old == t.root[k]
             p   == IF Owns(old) THEN old ELSE AllocPage(t)
             new == IF Owns(old) THEN t ELSE [Allocated(t) EXCEPT !.root[k] = p]
  <2>1. active_txn \in Tid /\ t \in Txn
    BY <1>1, OwnerFacts DEF Put, At
  <2>2. old \in Page \cup {0}
    BY <2>1 DEF Txn
  <2>3. Owns(old) \/ CanAlloc(t)
    BY <1>1 DEF Put
  <2>4. p \in Page
    <3>1. CASE Owns(old)
      BY <3>1, <2>2 DEF Owns
    <3>2. CASE ~Owns(old)
      BY <3>2, <2>1, <2>3, AllocType
    <3> QED
      BY <3>1, <3>2
  <2>5. new \in Txn
    <3>1. CASE Owns(old)
      BY <3>1, <2>1
    <3>2. CASE ~Owns(old)
      <4> DEFINE a == Allocated(t)
      <4>1. a \in Txn
        BY <3>2, <2>1, <2>3, AllocType
      <4> HIDE DEF a, p, t
      <4>2. [a EXCEPT !.root[k] = p] \in Txn
        BY <2>4, <4>1 DEF Txn
      <4> USE DEF a, t
      <4> QED
        BY <3>2, <4>2
    <3> QED
      BY <3>1, <3>2
  <2>6. txns' = [txns EXCEPT ![active_txn] =
                   IF Owns(old) \/ old = 0 THEN new ELSE FreePage(new, old, active_txn)]
    BY <1>1 DEF Put
  <2>7. pages' = [pages EXCEPT ![p] = [val |-> v, txn_id |-> active_txn]]
    BY <1>1 DEF Put
  <2> HIDE DEF new, p, old, t
  <2>8. txns' \in [Tid -> Txn]
    <3>1. old # 0 => FreePage(new, old, active_txn) \in Txn
      BY <2>1, <2>2, <2>5, FreeType
    <3> QED
      BY <2>1, <2>5, <2>6, <3>1
  <2>9. pages' \in [Page -> [val : Vals \cup {Missing}, txn_id : Tid \cup {0}]]
    BY <2>1, <2>4, <2>7
  <2> QED
    BY <1>1, <2>8, <2>9 DEF Put, header, object
<1>2. ASSUME NEW k \in Keys, Remove(c, k) PROVE TypeOK'
  <2> DEFINE t == txns[active_txn]
             f == FreePage(t, t.root[k], active_txn)
  <2>1. active_txn \in Tid /\ t \in Txn
    BY <1>2, OwnerFacts DEF Remove, At
  <2>2. t.root[k] \in Page
    BY <1>2, <2>1 DEF Remove, Txn
  <2>3. f \in Txn
    BY <2>1, <2>2, FreeType
  <2>4. txns' = [txns EXCEPT ![active_txn] = [f EXCEPT !.root[k] = 0]]
    BY <1>2 DEF Remove
  <2> HIDE DEF f, t
  <2>5. [f EXCEPT !.root[k] = 0] \in Txn
    BY <2>3 DEF Txn
  <2> QED
    BY <1>2, <2>1, <2>4, <2>5 DEF Remove, header, object
<1> QED
  BY <1>1, <1>2

(* Preparing and committing is type correct. *)
LEMMA CommitTypes ==
    ASSUME IInv, NEW c \in Cursors,
           PrepareClone(c) \/ PrepareMark(c) \/ CommitSwitch(c) \/ CommitEnd(c)
    PROVE  TypeOK'
<1> USE DEF IInv, TypeOK
<1>1. CASE PrepareClone(c)
  <2>1. active_txn \in Tid /\ active_txn + 1 \in Tid
    BY <1>1, OwnerFacts DEF PrepareClone, At
  <2>2. Allocated(txns[active_txn]) \in Txn /\ Clone(txns[active_txn]) \in Txn
    BY <1>1, <2>1, AllocType, CloneType DEF PrepareClone
  <2>3. txns' \in [Tid -> Txn]
    BY <1>1, <2>1, <2>2 DEF PrepareClone
  <2>4. cur' \in CurType
    BY <1>1 DEF PrepareClone, Goto, CurType, Points
  <2> QED
    BY <1>1, <2>1, <2>3, <2>4 DEF PrepareClone, CurType, object
<1>2. CASE PrepareMark(c)
  <2>1. active_txn \in Tid
    BY <1>2, OwnerFacts DEF PrepareMark, At, WritePoints
  <2>2. cur' \in CurType
    BY <1>2 DEF PrepareMark, Goto, CurType, Points
  <2> QED
    BY <1>2, <2>1, <2>2 DEF PrepareMark, CurType, object
<1>3. CASE CommitSwitch(c)
  <2>1. cur' \in CurType
    BY <1>3 DEF CommitSwitch, Goto, CurType, Points
  <2> QED
    BY <1>3, <2>1 DEF CommitSwitch, CurType, object
<1>4. CASE CommitEnd(c)
  <2>1. cur' \in CurType
    BY <1>4 DEF CommitEnd, Goto, CurType, Points
  <2> QED
    BY <1>4, <2>1 DEF CommitEnd, EndTransaction, CurType
<1> QED
  BY <1>1, <1>2, <1>3, <1>4

(* Dropping the active transaction leaves transactions. *)
LEMMA DropTypes ==
    ASSUME IInv, active_txn \in Tid, DropActive
    PROVE  /\ txns' \in [Tid -> Txn]
           /\ next_txn_page' \in Tid
           /\ active_txn' = 0 /\ txn_lock' = FALSE /\ txn_cursor_id' = NoCursor
<1> USE DEF IInv, TypeOK
<1>1. Recycled \in Txn
  <2> DEFINE r == txns[read_txn]
             p == txns[active_txn].page
  <2>1. r \in Txn /\ p \in Page /\ 0 \in 0 .. MaxRefs
    BY MvccAssumption DEF Txn
  <2> HIDE DEF r, p
  <2>2. [r EXCEPT !.page = p, !.refs = 0] \in Txn
    BY <2>1 DEF Txn
  <2> QED
    BY <2>2 DEF Recycled, r, p
<1> QED
  BY <1>1 DEF DropActive, EndTransaction

(* Rolling back, on request or because commit() failed, is type correct. *)
LEMMA RollbackTypes ==
    ASSUME IInv, NEW c \in Cursors,
           \/ RollbackUnprepare(c) \/ RollbackEnd(c)
           \/ RollbackRef(c) \/ CommitFails(c)
    PROVE  TypeOK'
<1> USE DEF IInv, TypeOK
<1>1. CASE RollbackUnprepare(c)
  <2>1. cur' \in CurType
    BY <1>1 DEF RollbackUnprepare, Goto, CurType, Points
  <2> QED
    BY <1>1, <2>1 DEF RollbackUnprepare, CurType, object
<1>2. CASE RollbackEnd(c)
  <2>1. active_txn \in Tid
    BY <1>2, OwnerFacts DEF RollbackEnd, At, WritePoints
  <2>2. cur' \in CurType
    BY <1>2 DEF RollbackEnd, CurType, Points
  <2> QED
    BY <1>2, <2>1, <2>2, DropTypes DEF RollbackEnd, CurType
<1>3. CASE RollbackRef(c)
  <2>1. txns' \in [Tid -> Txn]
    BY <1>3, RefsType DEF RollbackRef
  <2>2. cur' \in CurType
    BY <1>3 DEF RollbackRef, CurType, Points
  <2> QED
    BY <1>3, <2>1, <2>2 DEF RollbackRef, CurType, header, object
<1>4. CASE CommitFails(c)
  <2>1. active_txn \in Tid
    BY <1>4, OwnerFacts DEF CommitFails, At
  <2> QED
    BY <1>4, <2>1, DropTypes DEF CommitFails
<1> QED
  BY <1>1, <1>2, <1>3, <1>4

(* Crashing, recovering and repairing is type correct. *)
LEMMA RecoveryTypes ==
    ASSUME IInv,
           Crash \/ Sanitize \/ CommitRecovered \/ RollbackRecovered \/ Repair
    PROVE  TypeOK'
<1> USE DEF IInv, TypeOK
<1>1. CASE Crash
  <2>1. cur' \in CurType
    BY <1>1 DEF Crash, CurType, Points
  <2> QED
    BY <1>1, <2>1 DEF Crash, CurType, header
<1>2. CASE Sanitize
  <2> DEFINE clean == [t \in Tid |-> IF t \in Chain THEN [txns[t] EXCEPT !.refs = 0]
                                                    ELSE txns[t]]
             read  == clean[read_txn]
  <2>1. clean \in [Tid -> Txn] /\ read \in Txn
    BY RefsType
  <2>2. read_txn + 1 \in Tid
    BY TidFacts, MvccAssumption DEF WriterInv
  <2>3. txns' \in [Tid -> Txn] /\ next_txn_page' \in Tid \cup {0}
    <3>1. CASE /\ next_txn_page = 0
               /\ CanAlloc(read)
               /\ next_txn_page' = read_txn + 1
               /\ txns' = [clean EXCEPT ![read_txn] = Allocated(@),
                                        ![read_txn + 1] = Clone(read)]
      <4>1. Allocated(read) \in Txn /\ Clone(read) \in Txn
        BY <2>1, <3>1, AllocType, CloneType
      <4>2. txns' = [clean EXCEPT ![read_txn] = Allocated(read),
                                  ![read_txn + 1] = Clone(read)]
        BY <3>1
      <4> HIDE DEF clean, read
      <4> QED
        BY <2>1, <2>2, <3>1, <4>1, <4>2
    <3>2. CASE /\ next_txn_page # 0
               /\ txns' = [clean EXCEPT ![next_txn_page].refs = 0]
               /\ UNCHANGED next_txn_page
      <4> HIDE DEF clean
      <4> QED
        BY <2>1, <3>2, RefsType
    <3> QED
      BY <1>2, <3>1, <3>2 DEF Sanitize
  <2> QED
    BY <1>2, <2>3 DEF Sanitize, Prepared
<1>3. CASE CommitRecovered
  BY <1>3 DEF CommitRecovered, EndTransaction
<1>4. CASE RollbackRecovered
  <2>1. active_txn \in Tid
    BY <1>4 DEF RollbackRecovered, Recovered
  <2> QED
    BY <1>4, <2>1, DropTypes DEF RollbackRecovered
<1>5. CASE Repair
  <2>1. txns[read_txn].start \in Tid
    BY DEF Txn
  <2>2. Chain \subseteq Tid
    BY <2>1, MvccAssumption DEF Chain, Tid
  <2> QED
    BY <1>5, <2>2 DEF Repair, object
<1> QED
  BY <1>1, <1>2, <1>3, <1>4, <1>5

(* The rest of the invariant, one step per action of a cursor. *)
LEMMA CursorControl ==
    ASSUME IInv, NEW c \in Cursors, CursorNext(c)
    PROVE  WriterInv' /\ CursorInv' /\ NextPageInv'
<1> USE MvccAssumption DEF IInv, TypeOK, Owner, At, Goto, WritePoints, Prepared, Recovered
<1>1. CASE TxnRef(c)
  <2>1. WriterInv'
    BY <1>1, TidFacts DEF TxnRef, header, object, WriterInv
  <2>2. CursorInv'
    BY <1>1, TidFacts DEF TxnRef, header, object, CursorInv
  <2>3. NextPageInv'
    BY <1>1, TidFacts DEF TxnRef, header, object, WriterInv, NextPageInv, NextTxnPageReady
  <2> QED
    BY <2>1, <2>2, <2>3
<1>2. CASE Update(c)
  <2>1. WriterInv'
    BY <1>2 DEF Update, header, object, WriterInv
  <2>2. CursorInv'
    BY <1>2 DEF Update, Newer, header, object, CursorInv
  <2>3. NextPageInv'
    BY <1>2 DEF Update, header, object, WriterInv, NextPageInv, NextTxnPageReady
  <2> QED
    BY <2>1, <2>2, <2>3
<1>3. CASE Close(c)
  <2>1. WriterInv'
    BY <1>3 DEF Close, header, object, WriterInv
  <2>2. CursorInv'
    BY <1>3 DEF Close, header, object, CursorInv
  <2>3. NextPageInv'
    BY <1>3 DEF Close, header, object, WriterInv, NextPageInv, NextTxnPageReady
  <2> QED
    BY <2>1, <2>2, <2>3
<1>4. CASE StartTransaction(c)
  <2>1. WriterInv'
    BY <1>4, TidFacts DEF StartTransaction, WriterInv
  <2>2. CursorInv'
    BY <1>4, TidFacts DEF StartTransaction, CursorInv
  <2>3. NextPageInv'
    BY <1>4, TidFacts DEF StartTransaction, WriterInv, NextPageInv, NextTxnPageReady
  <2> QED
    BY <2>1, <2>2, <2>3
<1>5. CASE CollectTransactions(c)
  <2>1. WriterInv'
    BY <1>5, OwnerFacts DEF CollectTransactions, header, WriterInv
  <2>2. CursorInv'
    BY <1>5, OwnerFacts DEF CollectTransactions, header, CursorInv
  <2>3. NextPageInv'
    BY <1>5, OwnerFacts DEF CollectTransactions, header, WriterInv, NextPageInv, NextTxnPageReady
  <2> QED
    BY <2>1, <2>2, <2>3
<1>6. CASE EnterTransaction(c)
  <2>1. WriterInv'
    BY <1>6, OwnerFacts DEF EnterTransaction, header, object, WriterInv
  <2>2. CursorInv'
    BY <1>6, OwnerFacts DEF EnterTransaction, header, object, CursorInv
  <2>3. NextPageInv'
    BY <1>6, OwnerFacts DEF EnterTransaction, header, object, WriterInv, NextPageInv, NextTxnPageReady
  <2> QED
    BY <2>1, <2>2, <2>3
<1>7. CASE \E k \in Keys, v \in Vals : Put(c, k, v)
  <2>1. WriterInv'
    BY <1>7 DEF Put, header, object, WriterInv
  <2>2. CursorInv'
    BY <1>7 DEF Put, header, object, CursorInv
  <2>3. NextPageInv'
    BY <1>7 DEF Put, header, object, WriterInv, NextPageInv, NextTxnPageReady
  <2> QED
    BY <2>1, <2>2, <2>3
<1>8. CASE \E k \in Keys : Remove(c, k)
  <2>1. WriterInv'
    BY <1>8 DEF Remove, header, object, WriterInv
  <2>2. CursorInv'
    BY <1>8 DEF Remove, header, object, CursorInv
  <2>3. NextPageInv'
    BY <1>8 DEF Remove, header, object, WriterInv, NextPageInv, NextTxnPageReady
  <2> QED
    BY <2>1, <2>2, <2>3
<1>9. CASE PrepareClone(c)
  <2>1. WriterInv'
    BY <1>9, OwnerFacts, TidFacts DEF PrepareClone, object, WriterInv
  <2>2. CursorInv'
    BY <1>9, OwnerFacts, TidFacts DEF PrepareClone, object, CursorInv
  <2>3. NextPageInv'
    BY <1>9, OwnerFacts, TidFacts DEF PrepareClone, object, WriterInv, NextPageInv, NextTxnPageReady
  <2> QED
    BY <2>1, <2>2, <2>3
<1>10. CASE PrepareMark(c)
  <2>1. WriterInv'
    BY <1>10, OwnerFacts DEF PrepareMark, object, WriterInv
  <2>2. CursorInv'
    BY <1>10, OwnerFacts DEF PrepareMark, object, CursorInv
  <2>3. NextPageInv'
    BY <1>10, OwnerFacts DEF PrepareMark, object, WriterInv, NextPageInv, NextTxnPageReady
  <2> QED
    BY <2>1, <2>2, <2>3
<1>11. CASE CommitSwitch(c)
  <2>1. WriterInv'
    BY <1>11, OwnerFacts DEF CommitSwitch, object, WriterInv
  <2>2. CursorInv'
    BY <1>11, OwnerFacts DEF CommitSwitch, object, CursorInv
  <2>3. NextPageInv'
    BY <1>11, OwnerFacts DEF CommitSwitch, object, WriterInv, NextPageInv, NextTxnPageReady
  <2> QED
    BY <2>1, <2>2, <2>3
<1>12. CASE CommitEnd(c)
  <2>1. WriterInv'
    BY <1>12, OwnerFacts DEF CommitEnd, EndTransaction, WriterInv
  <2>2. CursorInv'
    BY <1>12, OwnerFacts DEF CommitEnd, EndTransaction, CursorInv
  <2>3. NextPageInv'
    BY <1>12, OwnerFacts DEF CommitEnd, EndTransaction, WriterInv, NextPageInv, NextTxnPageReady
  <2> QED
    BY <2>1, <2>2, <2>3
<1>13. CASE RollbackUnprepare(c)
  <2>1. WriterInv'
    BY <1>13, OwnerFacts DEF RollbackUnprepare, object, WriterInv
  <2>2. CursorInv'
    BY <1>13, OwnerFacts DEF RollbackUnprepare, object, CursorInv
  <2>3. NextPageInv'
    BY <1>13, OwnerFacts DEF RollbackUnprepare, object, WriterInv, NextPageInv, NextTxnPageReady
  <2> QED
    BY <2>1, <2>2, <2>3
<1>14. CASE RollbackEnd(c)
  <2>1. WriterInv'
    BY <1>14, OwnerFacts, TidFacts DEF RollbackEnd, DropActive, EndTransaction, WriterInv
  <2>2. CursorInv'
    BY <1>14, OwnerFacts, TidFacts DEF RollbackEnd, DropActive, EndTransaction, CursorInv
  <2>3. NextPageInv'
    BY <1>14, OwnerFacts, TidFacts DEF RollbackEnd, DropActive, EndTransaction, WriterInv, NextPageInv, NextTxnPageReady
  <2> QED
    BY <2>1, <2>2, <2>3
<1>15. CASE RollbackRef(c)
  <2>1. WriterInv'
    BY <1>15, TidFacts DEF RollbackRef, header, object, WriterInv
  <2>2. CursorInv'
    BY <1>15, TidFacts DEF RollbackRef, header, object, CursorInv
  <2>3. NextPageInv'
    BY <1>15, TidFacts DEF RollbackRef, header, object, WriterInv, NextPageInv, NextTxnPageReady
  <2> QED
    BY <2>1, <2>2, <2>3
<1>16. CASE CommitFails(c)
  <2>1. WriterInv'
    BY <1>16, OwnerFacts, TidFacts DEF CommitFails, DropActive, EndTransaction, WriterInv
  <2>2. CursorInv'
    BY <1>16, OwnerFacts, TidFacts DEF CommitFails, DropActive, EndTransaction, CursorInv
  <2>3. NextPageInv'
    BY <1>16, OwnerFacts, TidFacts DEF CommitFails, DropActive, EndTransaction, WriterInv, NextPageInv, NextTxnPageReady
  <2> QED
    BY <2>1, <2>2, <2>3
<1> QED
  BY <1>1, <1>2, <1>3, <1>4, <1>5, <1>6, <1>7, <1>8, <1>9, <1>10, <1>11, <1>12, <1>13, <1>14, <1>15, <1>16 DEF CursorNext

(* ... and one step per crash and recovery action. *)
LEMMA RecoveryControl ==
    ASSUME IInv,
           Crash \/ Sanitize \/ CommitRecovered \/ RollbackRecovered \/ Repair
    PROVE  WriterInv' /\ CursorInv' /\ NextPageInv'
<1> USE MvccAssumption DEF IInv, TypeOK, WritePoints, Prepared, Recovered
<1>1. CASE Crash
  <2>1. WriterInv'
    BY <1>1 DEF Crash, header, WriterInv
  <2>2. CursorInv'
    BY <1>1 DEF Crash, header, CursorInv
  <2>3. NextPageInv'
    BY <1>1 DEF Crash, header, WriterInv, NextPageInv, NextTxnPageReady
  <2> QED
    BY <2>1, <2>2, <2>3
<1>2. CASE Sanitize
  <2>1. WriterInv'
    BY <1>2, TidFacts DEF Sanitize, WriterInv, CursorInv
  <2>2. CursorInv'
    BY <1>2, TidFacts DEF Sanitize, CursorInv
  <2>3. NextPageInv'
    <3>1. next_txn_page' # 0
      BY <1>2, TidFacts DEF Sanitize
    <3>2. /\ read_txn' = read_txn /\ prepared_txn' = prepared_txn
          /\ txn_lock' = Prepared /\ (active_txn' # 0 => Prepared)
      BY <1>2 DEF Sanitize
    <3>3. \A c \in Cursors : cur'[c].pc = "closed"
      BY <1>2 DEF Sanitize, CursorInv
    <3> QED
      BY <3>1, <3>2, <3>3 DEF NextPageInv, NextTxnPageReady
  <2> QED
    BY <2>1, <2>2, <2>3
<1>3. CASE CommitRecovered
  <2>1. WriterInv'
    BY <1>3 DEF CommitRecovered, EndTransaction, WriterInv
  <2>2. CursorInv'
    BY <1>3 DEF CommitRecovered, EndTransaction, CursorInv
  <2>3. NextPageInv'
    BY <1>3 DEF CommitRecovered, EndTransaction, WriterInv, NextPageInv, NextTxnPageReady
  <2> QED
    BY <2>1, <2>2, <2>3
<1>4. CASE RollbackRecovered
  <2>1. WriterInv'
    BY <1>4 DEF RollbackRecovered, DropActive, EndTransaction, WriterInv
  <2>2. CursorInv'
    BY <1>4 DEF RollbackRecovered, DropActive, EndTransaction, CursorInv
  <2>3. NextPageInv'
    BY <1>4 DEF RollbackRecovered, DropActive, EndTransaction, WriterInv, NextPageInv, NextTxnPageReady
  <2> QED
    BY <2>1, <2>2, <2>3
<1>5. CASE Repair
  <2>1. WriterInv'
    BY <1>5, TidFacts DEF Repair, Chain, object, WriterInv
  <2>2. CursorInv'
    BY <1>5, TidFacts DEF Repair, Chain, object, CursorInv
  <2>3. NextPageInv'
    BY <1>5, TidFacts DEF Repair, Chain, object, WriterInv, NextPageInv, NextTxnPageReady
  <2> QED
    BY <2>1, <2>2, <2>3
<1> QED
  BY <1>1, <1>2, <1>3, <1>4, <1>5

-----------------------------------------------------------------------------
(* The invariant is inductive. *)
LEMMA StepIInv == IInv /\ [Next]_vars => IInv'
<1> SUFFICES ASSUME IInv, [Next]_vars PROVE IInv'
  OBVIOUS
<1>1. CASE \E c \in Cursors : CursorNext(c)
  <2> SUFFICES ASSUME NEW c \in Cursors, CursorNext(c) PROVE IInv'
    BY <1>1
  <2>1. TypeOK'
    BY ReaderTypes, StartTypes, WriteTypes, CommitTypes, RollbackTypes DEF CursorNext
  <2> QED
    BY <2>1, CursorControl DEF IInv
<1>2. CASE Crash \/ Sanitize \/ CommitRecovered \/ RollbackRecovered \/ Repair
  BY <1>2, RecoveryTypes, RecoveryControl DEF IInv
<1>3. CASE UNCHANGED vars
  BY <1>3 DEF vars, header, object, IInv, TypeOK, WriterInv, CursorInv, NextPageInv,
              NextTxnPageReady, Prepared, Recovered, WritePoints, Txn, Freed
<1> QED
  BY <1>1, <1>2, <1>3 DEF Next

(* Every variable of the database and of its cursors keeps its type, for    *)
(* all crash points and faults.                                             *)
THEOREM TypeCorrect == Spec => []TypeOK
<1>1. IInv => TypeOK
  BY DEF IInv
<1> QED
  BY InitIInv, StepIInv, <1>1, PTL DEF Spec

(* assert(_header->next_txn_page) in start_transaction() never fails:       *)
(* commit, rollback, a failed commit, recovery after a crash at any program *)
(* point and repair all leave a page for the next writer.                   *)
THEOREM NextPageAlwaysReady == Spec => []NextTxnPageReady
<1>1. IInv => NextTxnPageReady
  BY DEF IInv, NextPageInv
<1> QED
  BY InitIInv, StepIInv, <1>1, PTL DEF Spec

-----------------------------------------------------------------------------
(* What the reference counts of the transactions say, with every set of     *)
(* crash points and with repair().  Left out is a commit() that fails with  *)
(* StorageFull (NoFull): it leaves its cursor on the page that is then the  *)
(* next transaction page, and the counts are wrong from there on.           *)
NoFull == "full" \notin Faults

(* Between start_transaction() taking the page and the cursor moving to it  *)
(* the committed transaction has a count of its own.                        *)
Starting == \E c \in Cursors : cur[c].pc \in {"locked", "gc"}
Pin(t)   == IF t = read_txn /\ Starting THEN 1 ELSE 0
(* A crash leaves the count of the owner on a prepared transaction. *)
Slack    == IF CrashPoints = {} THEN 0 ELSE 1

(* Where the active, the prepared and the next transaction stand in the     *)
(* sequence of transactions.                                                *)
PhaseInv ==
    /\ \A c \in Cursors : cur[c].pc = "switched" => active_txn = read_txn
    /\ active_txn # 0 /\ (\A c \in Cursors : cur[c].pc # "switched") => active_txn = read_txn + 1
    /\ Prepared => prepared_txn = read_txn + 1 /\ (up => active_txn = prepared_txn)
    /\ Starting => ~Prepared
    /\ ~up => active_txn = 0
    /\ CrashPoints = {} => up /\ ~Recovered
NextInv ==
    next_txn_page # 0 =>
        /\ next_txn_page > read_txn /\ next_txn_page # active_txn
        /\ Prepared => next_txn_page # prepared_txn
        /\ txns[next_txn_page].refs = 0

(* Which transactions a cursor can be on. *)
HoldInv ==
    \A c \in Cursors :
        /\ cur[c].pc # "pinned" => cur[c].ref = 0
        /\ cur[c].ref <= read_txn
        /\ cur[c].pc \in {"closed", "rolled"} => cur[c].txn = 0
        /\ IF up /\ Owner(c) /\ cur[c].pc \notin {"locked", "gc"}
           THEN cur[c].txn = active_txn ELSE cur[c].txn <= read_txn

(* The counts: of the committed transactions and of the active one ... *)
CountInv ==
    up => \A t \in Tid : t <= read_txn \/ t = active_txn =>
             /\ txns[t].refs >= Holders(t) + Pin(t)
             /\ txns[t].refs <= Holders(t) + Pin(t) + Slack
(* ... and of one that is not committed: nobody but its owner is on it. *)
DraftInv ==
    /\ active_txn = read_txn + 1 => txns[active_txn].refs <= 1
    /\ Prepared => txns[prepared_txn].refs <= 1
    /\ Starting => txns[active_txn].refs = 0

(* Nobody is on a transaction before the first of a chain. *)
ChainFrom(t) ==
    /\ txns[read_txn].start <= txns[t].start /\ txns[t].start <= read_txn
    /\ \A u \in Tid : u < txns[t].start => txns[u].refs = 0
StartInv ==
    /\ \A t \in Tid : t <= read_txn =>
          /\ txns[t].start <= t
          /\ \A u \in Tid : u <= t => txns[u].start <= txns[t].start
    /\ ChainFrom(read_txn)
    /\ active_txn = read_txn + 1 /\ (\A c \in Cursors : cur[c].pc # "locked") => ChainFrom(active_txn)
    /\ Prepared => ChainFrom(prepared_txn)

RefInv == PhaseInv /\ NextInv /\ HoldInv /\ CountInv /\ DraftInv /\ StartInv

-----------------------------------------------------------------------------
(* Counting cursors. *)

(* How often a cursor is on transaction t. *)
On(x, t) == (IF x.txn = t THEN 1 ELSE 0) + (IF x.ref = t THEN 1 ELSE 0)

(* Two subsets of a finite set that differ in x at most. *)
LEMMA CardChange ==
    ASSUME NEW P, IsFiniteSet(P), NEW A \in SUBSET P, NEW B \in SUBSET P, NEW x \in P,
           \A y \in P \ {x} : y \in A <=> y \in B
    PROVE  /\ Cardinality(A) \in Nat /\ Cardinality(B) \in Nat
           /\ Cardinality(B) + (IF x \in A THEN 1 ELSE 0) = Cardinality(A) + (IF x \in B THEN 1 ELSE 0)
<1>1. IsFiniteSet(A) /\ IsFiniteSet(B)
  BY FS_Subset
<1>2. Cardinality(A) \in Nat /\ Cardinality(B) \in Nat
  BY <1>1, FS_CardinalityType
<1>3. CASE x \in A <=> x \in B
  <2>1. A = B
    BY <1>3
  <2> QED
    BY <1>2, <2>1
<1>4. CASE x \in A /\ x \notin B
  <2>1. A = B \cup {x}
    BY <1>4
  <2>2. Cardinality(A) = Cardinality(B) + 1
    BY <1>1, <1>4, <2>1, FS_AddElement
  <2> QED
    BY <1>2, <1>4, <2>2
<1>5. CASE x \notin A /\ x \in B
  <2>1. B = A \cup {x}
    BY <1>5
  <2>2. Cardinality(B) = Cardinality(A) + 1
    BY <1>1, <1>5, <2>1, FS_AddElement
  <2> QED
    BY <1>2, <1>5, <2>2
<1> QED
  BY <1>3, <1>4, <1>5

(* A step of one cursor changes the number of holders by its own share. *)
LEMMA HoldersMove ==
    ASSUME NEW c \in Cursors, NEW t,
           \A d \in Cursors \ {c} : cur'[d].txn = cur[d].txn /\ cur'[d].ref = cur[d].ref
    PROVE  /\ Holders(t) \in Nat /\ Holders(t)' \in Nat
           /\ Holders(t)' + On(cur[c], t) = Holders(t) + On(cur'[c], t)
<1> DEFINE A == {d \in Cursors : cur[d].txn = t}
           B == {d \in Cursors : cur'[d].txn = t}
           E == {d \in Cursors : cur[d].ref = t}
           F == {d \in Cursors : cur'[d].ref = t}
<1>1. Holders(t) = Cardinality(A) + Cardinality(E) /\ Holders(t)' = Cardinality(B) + Cardinality(F)
  BY DEF Holders
<1>2. /\ A \in SUBSET Cursors /\ B \in SUBSET Cursors /\ E \in SUBSET Cursors /\ F \in SUBSET Cursors
      /\ \A d \in Cursors \ {c} : (d \in A <=> d \in B) /\ (d \in E <=> d \in F)
      /\ (c \in A <=> cur[c].txn = t) /\ (c \in B <=> cur'[c].txn = t)
      /\ (c \in E <=> cur[c].ref = t) /\ (c \in F <=> cur'[c].ref = t)
  OBVIOUS
<1> HIDE DEF A, B, E, F
<1>3. IsFiniteSet(Cursors)
  BY MvccAssumption
<1>4. /\ Cardinality(A) \in Nat /\ Cardinality(B) \in Nat
      /\ Cardinality(B) + (IF c \in A THEN 1 ELSE 0) = Cardinality(A) + (IF c \in B THEN 1 ELSE 0)
  BY <1>2, <1>3, CardChange
<1>5. /\ Cardinality(E) \in Nat /\ Cardinality(F) \in Nat
      /\ Cardinality(F) + (IF c \in E THEN 1 ELSE 0) = Cardinality(E) + (IF c \in F THEN 1 ELSE 0)
  BY <1>2, <1>3, CardChange
<1> QED
  BY <1>1, <1>2, <1>4, <1>5 DEF On

(* A step that leaves the cursors where they are. *)
LEMMA HoldersSame ==
    ASSUME NEW t, \A d \in Cursors : cur'[d].txn = cur[d].txn /\ cur'[d].ref = cur[d].ref
    PROVE  Holders(t) \in Nat /\ Holders(t)' = Holders(t)
<1>1. PICK c \in Cursors : TRUE
  BY MvccAssumption
<1>2. On(cur'[c], t) = On(cur[c], t) /\ On(cur[c], t) \in Nat
  BY DEF On
<1> QED
  BY <1>2, HoldersMove

(* The count has room for a cursor that is not on t yet. *)
LEMMA HoldersRoom ==
    ASSUME NEW c \in Cursors, NEW t
    PROVE  /\ Holders(t) \in Nat /\ On(cur[c], t) \in Nat /\ On(cur[c], t) <= Holders(t)
           /\ Holders(t) + 3 <= MaxRefs + On(cur[c], t)
<1> DEFINE A == {d \in Cursors : cur[d].txn = t}
           E == {d \in Cursors : cur[d].ref = t}
           N == Cardinality(Cursors)
<1>1. Holders(t) = Cardinality(A) + Cardinality(E)
  BY DEF Holders
<1>2. /\ A \in SUBSET Cursors /\ E \in SUBSET Cursors
      /\ (c \in A <=> cur[c].txn = t) /\ (c \in E <=> cur[c].ref = t)
  OBVIOUS
<1>3. IsFiniteSet(Cursors) /\ MaxRefs \in Nat /\ MaxRefs > 2 * N
  BY MvccAssumption
<1> HIDE DEF A, E, N
<1>4. \A S \in SUBSET Cursors :
        /\ Cardinality(S) \in Nat
        /\ Cardinality(S) + (IF c \in S THEN 0 ELSE 1) <= N
        /\ Cardinality(S) >= (IF c \in S THEN 1 ELSE 0)
  <2> SUFFICES ASSUME NEW S \in SUBSET Cursors
               PROVE  /\ Cardinality(S) \in Nat
                      /\ Cardinality(S) + (IF c \in S THEN 0 ELSE 1) <= N
                      /\ Cardinality(S) >= (IF c \in S THEN 1 ELSE 0)
    OBVIOUS
  <2>1. IsFiniteSet(S) /\ Cardinality(S) \in Nat /\ N \in Nat
    BY <1>3, FS_Subset, FS_CardinalityType DEF N
  <2>2. Cardinality(S) <= N
    BY <1>3, FS_Subset DEF N
  <2>3. CASE c \in S
    <3>1. Cardinality(S) # 0
      BY <2>1, <2>3, FS_EmptySet
    <3> QED
      BY <2>1, <2>2, <2>3, <3>1
  <2>4. CASE c \notin S
    <3>1. Cardinality(S \cup {c}) = Cardinality(S) + 1
      BY <2>1, <2>4, FS_AddElement
    <3>2. Cardinality(S \cup {c}) <= N
      BY <1>3, FS_Subset DEF N
    <3> QED
      BY <2>1, <2>4, <3>1, <3>2
  <2> QED
    BY <2>3, <2>4
<1>5. N \in Nat
  BY <1>3, FS_CardinalityType DEF N
<1> QED
  BY <1>1, <1>2, <1>3, <1>4, <1>5 DEF On

(* A transaction that no cursor is on has no holders. *)
LEMMA HoldersNone ==
    ASSUME NEW t, \A d \in Cursors : cur[d].txn # t /\ cur[d].ref # t
    PROVE  Holders(t) = 0
<1> DEFINE A == {d \in Cursors : cur[d].txn = t}
           E == {d \in Cursors : cur[d].ref = t}
<1>1. Holders(t) = Cardinality(A) + Cardinality(E)
  BY DEF Holders
<1>2. A = {} /\ E = {}
  OBVIOUS
<1> HIDE DEF A, E
<1> QED
  BY <1>1, <1>2, FS_EmptySet

-----------------------------------------------------------------------------
(* Every step keeps the invariant: first the readers. *)

(* What the type invariant says of counts, chains and cursors. *)
LEMMA Kinds ==
    TypeOK =>
        /\ read_txn \in Tid /\ prepared_txn \in Tid /\ next_txn_page \in Tid \cup {0}
        /\ active_txn \in Tid \cup {0} /\ up \in BOOLEAN
        /\ \A t \in Tid : txns[t].refs \in 0 .. MaxRefs /\ txns[t].start \in Tid
        /\ \A c \in Cursors : /\ cur[c].pc \in Points
                              /\ cur[c].txn \in Tid \cup {0} /\ cur[c].ref \in Tid \cup {0}
BY DEF TypeOK, Txn

(* Transaction ids are numbers from 1 on. *)
LEMMA Ids == \A t \in Tid : t \in Nat /\ t >= 1
BY TidFacts

LEMMA Numbers ==
    TypeOK => /\ read_txn \in Nat /\ prepared_txn \in Nat /\ next_txn_page \in Nat /\ active_txn \in Nat
              /\ read_txn >= 1 /\ prepared_txn >= 1
<1> SUFFICES ASSUME TypeOK
             PROVE  /\ read_txn \in Nat /\ prepared_txn \in Nat /\ next_txn_page \in Nat
                    /\ active_txn \in Nat /\ read_txn >= 1 /\ prepared_txn >= 1
  OBVIOUS
<1>1. read_txn \in Tid /\ prepared_txn \in Tid /\ next_txn_page \in Tid \cup {0} /\ active_txn \in Tid \cup {0}
  BY DEF TypeOK
<1> QED
  BY <1>1, Ids

LEMMA Starts == TypeOK => \A t \in Tid : txns[t].start \in Nat /\ txns[t].start >= 1
BY Kinds, Ids

(* A count below its limit counts up, a count above zero counts down. *)
LEMMA Counts ==
    \A r \in Nat : /\ r < MaxRefs => Inc(r) = r + 1
                   /\ r > 0 => Dec(r) = r - 1
BY MvccAssumption DEF Inc, Dec

(* One cursor at a time is inside a call of the write side. *)
LEMMA Alone ==
    ASSUME IInv, NEW c \in Cursors, (up /\ Owner(c)) \/ cur[c].pc \in WritePoints
    PROVE  /\ up /\ txn_cursor_id = c /\ txn_lock /\ active_txn \in Tid /\ active_txn + 1 \in Tid
           /\ active_txn <= MaxTxn
           /\ \A d \in Cursors \ {c} : cur[d].pc \notin WritePoints
<1>1. up
  BY DEF IInv, CursorInv, WritePoints
<1>2. /\ txn_cursor_id = c /\ txn_lock /\ active_txn \in 1 .. MaxTxn
      /\ active_txn \in Tid /\ active_txn + 1 \in Tid
  BY <1>1, OwnerFacts
<1>3. \A d \in Cursors \ {c} : cur[d].pc \notin WritePoints
  BY <1>1, <1>2 DEF IInv, WriterInv
<1> QED
  BY <1>1, <1>2, <1>3

(* While a transaction starts, it is the successor of the committed one. *)
LEMMA StartingFacts ==
    ASSUME IInv, PhaseInv, Starting
    PROVE  up /\ active_txn \in Tid /\ active_txn = read_txn + 1 /\ ~Prepared
<1>1. PICK c \in Cursors : cur[c].pc \in {"locked", "gc"}
  BY DEF Starting
<1>2. /\ up /\ active_txn \in Tid /\ \A d \in Cursors \ {c} : cur[d].pc \notin WritePoints
  BY <1>1, Alone DEF WritePoints
<1>3. active_txn # 0 /\ \A d \in Cursors : cur[d].pc # "switched"
  BY <1>1, <1>2, Ids DEF WritePoints
<1> QED
  BY <1>2, <1>3 DEF PhaseInv

(* txn_ref() *)
LEMMA TxnRefStep ==
    ASSUME IInv, RefInv, NEW c \in Cursors, TxnRef(c)
    PROVE  RefInv'
<1>0. TypeOK /\ IInv
  BY DEF IInv
<1>1. /\ UNCHANGED <<read_txn, prepared_txn, next_txn_page, txn_cursor_id, active_txn, up>>
      /\ cur[c].pc \in {"closed", "idle"} /\ cur[c].txn # read_txn /\ cur[c].ref = 0
      /\ cur'[c].pc = "pinned" /\ cur'[c].txn = cur[c].txn /\ cur'[c].ref = read_txn
      /\ \A d \in Cursors \ {c} : cur'[d] = cur[d]
      /\ \A t \in Tid : /\ txns'[t].start = txns[t].start
                        /\ t # read_txn => txns'[t].refs = txns[t].refs
      /\ txns'[read_txn].refs = Inc(txns[read_txn].refs)
      /\ up
  BY DEF TxnRef, At, RefInv, HoldInv, header, object, IInv, TypeOK, Txn
<1>2. Starting' <=> Starting
  BY <1>1 DEF Starting
<1>3. txns[read_txn].refs < MaxRefs
  <2>1. txns[read_txn].refs <= Holders(read_txn) + Pin(read_txn) + Slack
    BY <1>0, <1>1, Kinds, Ids DEF RefInv, CountInv
  <2>2. On(cur[c], read_txn) = 0
    BY <1>0, <1>1, Kinds, Ids DEF On
  <2> QED
    BY <1>0, <2>1, <2>2, HoldersRoom, Kinds, MvccAssumption DEF Pin, Slack
<1>4. txns'[read_txn].refs = txns[read_txn].refs + 1
  BY <1>0, <1>1, <1>3, Kinds, Counts
<1>5. PhaseInv'
  BY <1>1, <1>2 DEF RefInv, PhaseInv, Prepared, Recovered
<1>6. NextInv'
  BY <1>0, <1>1, Kinds, Ids DEF RefInv, NextInv, Prepared
<1>7. HoldInv'
  BY <1>0, <1>1, Kinds, Ids DEF RefInv, HoldInv, Owner
<1>8. CountInv'
  <2>1. ASSUME NEW t \in Tid
        PROVE  /\ Holders(t) \in Nat
               /\ Holders(t)' = Holders(t) + (IF t = read_txn THEN 1 ELSE 0)
               /\ Pin(t)' = Pin(t)
    BY <1>0, <1>1, <1>2, HoldersMove, Kinds, Ids DEF On, Pin
  <2>2. Slack \in Nat /\ \A t \in Tid : Pin(t) \in Nat
    BY DEF Slack, Pin
  <2> QED
    BY <1>0, <1>1, <1>4, <2>1, <2>2, Kinds, Ids DEF RefInv, CountInv, Slack
<1>10. DraftInv'
  BY <1>0, <1>1, <1>2, StartingFacts, Kinds, Ids DEF RefInv, DraftInv, PhaseInv, Prepared
<1>9. StartInv'
  BY <1>0, <1>1, <1>2, Kinds, Ids DEF RefInv, StartInv, ChainFrom, Prepared
<1> QED
  BY <1>5, <1>6, <1>7, <1>8, <1>9, <1>10 DEF RefInv

(* update(): the cursor moves to the transaction it has pinned, or drops    *)
(* the pin.                                                                 *)
LEMMA UpdateStep ==
    ASSUME IInv, RefInv, NEW c \in Cursors, Update(c)
    PROVE  RefInv'
<1> DEFINE newer == Newer(cur[c].ref, cur[c].txn)
           x     == IF newer THEN cur[c].txn ELSE cur[c].ref
<1>0. TypeOK /\ IInv
  BY DEF IInv
<1>1. /\ UNCHANGED <<read_txn, prepared_txn, next_txn_page, txn_cursor_id, active_txn, up>>
      /\ cur[c].pc = "pinned" /\ cur[c].ref \in Tid /\ cur[c].ref <= read_txn
      /\ cur'[c].pc = "idle" /\ cur'[c].ref = 0
      /\ cur'[c].txn = IF newer THEN cur[c].ref ELSE cur[c].txn
      /\ \A d \in Cursors \ {c} : cur'[d] = cur[d]
      /\ up
  BY DEF Update, At, RefInv, HoldInv, header, object, IInv, TypeOK, CursorInv
<1>2. x \in Tid \cup {0} /\ (x = 0 <=> newer /\ cur[c].txn = 0)
  BY <1>0, <1>1, Kinds, Ids
<1>3. /\ \A t \in Tid : /\ txns'[t].start = txns[t].start
                        /\ t # x => txns'[t].refs = txns[t].refs
      /\ x \in Tid => txns'[x].refs = Dec(txns[x].refs)
  <2>1. txns' = IF newer /\ cur[c].txn = 0 THEN txns ELSE [txns EXCEPT ![x].refs = Dec(@)]
    BY DEF Update
  <2> HIDE DEF x, newer
  <2> QED
    BY <1>2, <2>1, Ids DEF IInv, TypeOK, Txn
<1>4. Starting' <=> Starting
  BY <1>1 DEF Starting
<1>5. Owner(c) => ~newer
  <2>1. Owner(c) => cur[c].txn = active_txn /\ active_txn = read_txn + 1
    <3> SUFFICES ASSUME Owner(c) PROVE cur[c].txn = active_txn /\ active_txn = read_txn + 1
      OBVIOUS
    <3>1. active_txn \in Tid /\ \A d \in Cursors \ {c} : cur[d].pc \notin WritePoints
      BY <1>1, Alone
    <3> QED
      BY <1>1, <3>1, Ids DEF RefInv, HoldInv, PhaseInv, WritePoints
  <2> QED
    BY <1>0, <1>1, <2>1, Kinds, Ids DEF Newer
<1>6. x \in Tid => x <= read_txn \/ x = active_txn
  BY <1>1 DEF RefInv, HoldInv
<1>7. ASSUME NEW t \in Tid
      PROVE  /\ Holders(t) \in Nat /\ Holders(t)' \in Nat
             /\ Holders(t) = Holders(t)' + (IF t = x THEN 1 ELSE 0)
             /\ Pin(t)' = Pin(t)
  <2>1. /\ Holders(t) \in Nat /\ Holders(t)' \in Nat
        /\ Holders(t)' + On(cur[c], t) = Holders(t) + On(cur'[c], t)
    BY <1>1, HoldersMove
  <2>2. On(cur[c], t) = On(cur'[c], t) + (IF t = x THEN 1 ELSE 0) /\ On(cur'[c], t) \in Nat
    BY <1>1, Ids DEF On
  <2>3. Pin(t)' = Pin(t)
    BY <1>1, <1>4 DEF Pin
  <2> HIDE DEF x
  <2> QED
    BY <2>1, <2>2, <2>3
<1> HIDE DEF x
<1>8. Slack \in Nat /\ \A t \in Tid : Pin(t) \in Nat
  BY DEF Slack, Pin
<1>9. x \in Tid => txns'[x].refs = txns[x].refs - 1
  BY <1>0, <1>1, <1>3, <1>6, <1>7, <1>8, Kinds, Counts DEF RefInv, CountInv
<1>10. PhaseInv'
  BY <1>1, <1>4 DEF RefInv, PhaseInv, Prepared, Recovered
<1>11. NextInv'
  BY <1>0, <1>1, <1>3, <1>6, Kinds, Ids DEF RefInv, NextInv, Prepared
<1>12. HoldInv'
  BY <1>0, <1>1, <1>5, Kinds, Ids DEF RefInv, HoldInv, Owner
<1>13. CountInv'
  BY <1>0, <1>1, <1>3, <1>7, <1>8, <1>9, Kinds, Ids DEF RefInv, CountInv, Slack
<1>14. \A t \in Tid : txns'[t].refs <= txns[t].refs
  BY <1>0, <1>3, <1>9, Kinds
<1>15. \A t \in Tid : txns[t].refs = 0 => txns'[t].refs = 0
  BY <1>0, <1>1, <1>3, <1>6, <1>7, <1>8, Kinds, Ids DEF RefInv, CountInv
<1>16. DraftInv'
  <2>1. \A t \in Tid : txns[t].refs <= 1 => txns'[t].refs <= 1
    BY <1>0, <1>3, <1>9, Kinds
  <2> QED
    BY <1>0, <1>1, <1>4, <1>15, <2>1, StartingFacts, Kinds, Ids DEF RefInv, DraftInv, Prepared
<1>17. StartInv'
  BY <1>0, <1>1, <1>3, <1>4, <1>15, Kinds, Ids DEF RefInv, StartInv, ChainFrom, Prepared
<1> QED
  BY <1>10, <1>11, <1>12, <1>13, <1>16, <1>17 DEF RefInv

(* The destructor of a cursor. *)
LEMMA CloseStep ==
    ASSUME IInv, RefInv, NEW c \in Cursors, Close(c)
    PROVE  RefInv'
<1> DEFINE x == cur[c].txn
<1>0. TypeOK /\ IInv
  BY DEF IInv
<1>1. /\ UNCHANGED <<read_txn, prepared_txn, next_txn_page, txn_cursor_id, active_txn, up>>
      /\ cur[c].pc = "idle" /\ ~Owner(c) /\ x \in Tid /\ x <= read_txn /\ cur[c].ref = 0
      /\ cur'[c].pc = "closed" /\ cur'[c].ref = 0 /\ cur'[c].txn = 0
      /\ \A d \in Cursors \ {c} : cur'[d] = cur[d]
      /\ up
  BY DEF Close, At, RefInv, HoldInv, header, object, IInv, TypeOK, CursorInv
<1>2. /\ \A t \in Tid : /\ txns'[t].start = txns[t].start
                        /\ t # x => txns'[t].refs = txns[t].refs
      /\ txns'[x].refs = Dec(txns[x].refs)
  <2>1. txns' = [txns EXCEPT ![x].refs = Dec(@)]
    BY DEF Close
  <2> HIDE DEF x
  <2> QED
    BY <1>1, <2>1 DEF IInv, TypeOK, Txn
<1>3. Starting' <=> Starting
  BY <1>1 DEF Starting
<1>4. ASSUME NEW t \in Tid
      PROVE  /\ Holders(t) \in Nat /\ Holders(t)' \in Nat
             /\ Holders(t) = Holders(t)' + (IF t = x THEN 1 ELSE 0)
             /\ Pin(t)' = Pin(t)
  <2>1. /\ Holders(t) \in Nat /\ Holders(t)' \in Nat
        /\ Holders(t)' + On(cur[c], t) = Holders(t) + On(cur'[c], t)
    BY <1>1, HoldersMove
  <2>2. On(cur[c], t) = (IF t = x THEN 1 ELSE 0) /\ On(cur'[c], t) = 0
    BY <1>1, Ids DEF On
  <2>3. Pin(t)' = Pin(t)
    BY <1>1, <1>3 DEF Pin
  <2> HIDE DEF x
  <2> QED
    BY <2>1, <2>2, <2>3
<1> HIDE DEF x
<1>5. Slack \in Nat /\ \A t \in Tid : Pin(t) \in Nat
  BY DEF Slack, Pin
<1>6. txns[x].refs > 0 /\ txns'[x].refs = txns[x].refs - 1
  BY <1>0, <1>1, <1>2, <1>4, <1>5, Kinds, Counts DEF RefInv, CountInv
<1>7. PhaseInv'
  BY <1>1, <1>3 DEF RefInv, PhaseInv, Prepared, Recovered
<1>8. NextInv'
  BY <1>0, <1>1, <1>2, Kinds, Ids DEF RefInv, NextInv, Prepared
<1>9. HoldInv'
  BY <1>0, <1>1, Kinds, Ids DEF RefInv, HoldInv, Owner
<1>10. CountInv'
  BY <1>0, <1>1, <1>2, <1>4, <1>5, <1>6, Kinds, Ids DEF RefInv, CountInv, Slack
<1>11. DraftInv'
  BY <1>0, <1>1, <1>2, <1>3, StartingFacts, Kinds, Ids DEF RefInv, DraftInv, PhaseInv, Prepared
<1>12. StartInv'
  BY <1>0, <1>1, <1>2, <1>3, <1>6, Kinds, Ids DEF RefInv, StartInv, ChainFrom, Prepared
<1> QED
  BY <1>7, <1>8, <1>9, <1>10, <1>11, <1>12 DEF RefInv

(* start_transaction() takes the page and pins the committed transaction. *)
LEMMA StartStep ==
    ASSUME IInv, RefInv, NEW c \in Cursors, StartTransaction(c)
    PROVE  RefInv'
<1>0. TypeOK /\ IInv
  BY DEF IInv
<1>1. /\ up /\ cur[c].pc = "idle" /\ ~txn_lock /\ next_txn_page \in Tid /\ read_txn + 1 \in Tid
      /\ UNCHANGED <<read_txn, prepared_txn, up>> /\ txn_cursor_id' = c
      /\ active_txn' = read_txn + 1 /\ next_txn_page' = 0
      /\ cur'[c].pc = "locked"
      /\ \A d \in Cursors : cur'[d].txn = cur[d].txn /\ cur'[d].ref = cur[d].ref
      /\ \A d \in Cursors \ {c} : cur'[d] = cur[d]
  BY TidFacts, MvccAssumption DEF StartTransaction, Goto, At, IInv, TypeOK, WriterInv
<1>2. /\ active_txn = 0 /\ ~Prepared /\ \A d \in Cursors : ~Owner(d)
      /\ \A d \in Cursors : cur[d].pc \notin WritePoints
  <2>1. active_txn = 0 /\ ~Prepared
    BY <1>1 DEF IInv, WriterInv, NextPageInv
  <2>2. \A d \in Cursors : ~Owner(d) /\ cur[d].pc \notin WritePoints
    BY <1>1, Alone
  <2> QED
    BY <2>1, <2>2
<1>3. /\ \A t \in Tid : t # read_txn + 1 =>
            /\ txns'[t].start = txns[t].start
            /\ txns'[t].refs = IF t = read_txn THEN Inc(txns[t].refs) ELSE txns[t].refs
      /\ txns'[read_txn + 1].refs = 0
  <2>1. txns[next_txn_page].refs = 0
    BY <1>1, Ids DEF RefInv, NextInv
  <2>2. txns' = [[txns EXCEPT ![read_txn + 1] = txns[next_txn_page]] EXCEPT ![read_txn].refs = Inc(@)]
    BY DEF StartTransaction
  <2>3. txns \in [Tid -> Txn] /\ read_txn \in Tid /\ read_txn + 1 # read_txn
    BY Ids DEF IInv, TypeOK
  <2> QED
    BY <1>1, <2>1, <2>2, <2>3 DEF Txn
<1>4. ~Starting /\ Starting'
  BY <1>1, <1>2 DEF Starting, WritePoints
<1>5. Slack \in Nat
  BY DEF Slack
<1>6. ASSUME NEW t \in Tid
      PROVE  /\ Holders(t) \in Nat /\ Holders(t)' = Holders(t)
             /\ Pin(t) = 0 /\ Pin(t)' = IF t = read_txn THEN 1 ELSE 0
  BY <1>1, <1>4, HoldersSame DEF Pin
<1>7. txns'[read_txn].refs = txns[read_txn].refs + 1
  <2>1. txns[read_txn].refs <= Holders(read_txn) + Slack
    BY <1>0, <1>1, <1>6, Kinds, Ids DEF RefInv, CountInv
  <2>2. On(cur[c], read_txn) <= 1
    BY <1>0, <1>1, Kinds, Ids DEF On, RefInv, HoldInv
  <2>3. txns[read_txn].refs < MaxRefs
    BY <1>0, <2>1, <2>2, HoldersRoom, Kinds, MvccAssumption DEF Slack
  <2>4. read_txn \in Tid /\ read_txn # read_txn + 1
    BY <1>0, Kinds, Ids
  <2> QED
    BY <1>0, <1>3, <2>3, <2>4, Kinds, Counts
<1>8. Holders(read_txn + 1) = 0
  BY <1>0, <1>1, <1>2, HoldersNone, Kinds, Ids DEF RefInv, HoldInv
<1>9. PhaseInv'
  BY <1>0, <1>1, <1>2, Kinds, Ids, MvccAssumption DEF RefInv, PhaseInv, Prepared, Recovered, Owner, WritePoints
<1>10. NextInv'
  BY <1>1 DEF NextInv
<1>11. HoldInv'
  BY <1>0, <1>1, <1>2, Kinds, Ids DEF RefInv, HoldInv, Owner
<1>12. CountInv'
  BY <1>0, <1>1, <1>3, <1>5, <1>6, <1>7, <1>8, Kinds, Ids DEF RefInv, CountInv, Slack
<1>13. DraftInv'
  BY <1>0, <1>1, <1>2, <1>3, Kinds, Ids DEF DraftInv, Prepared
<1>14. StartInv'
  <2>1. \A u \in Tid : u < txns[read_txn].start => txns'[u].refs = 0
    BY <1>0, <1>1, <1>3, Kinds, Ids DEF RefInv, StartInv, ChainFrom
  <2>2. \A t \in Tid : t <= read_txn => txns'[t].start = txns[t].start
    BY <1>0, <1>3, Kinds, Ids
  <2> QED
    BY <1>0, <1>1, <1>2, <2>1, <2>2, Kinds, Ids DEF RefInv, StartInv, ChainFrom, Prepared
<1> QED
  BY <1>9, <1>10, <1>11, <1>12, <1>13, <1>14 DEF RefInv

(* The oldest transaction in use is there while a transaction starts, and   *)
(* the walk finds it: nobody is on an older one.                            *)
LEMMA Oldest ==
    ASSUME IInv, RefInv, Starting, NEW m, m = (CHOOSE t \in Pinned : \A u \in Pinned : t <= u)
    PROVE  /\ Pinned # {} /\ m \in Tid /\ m <= read_txn /\ txns[read_txn].start <= m
           /\ txns[m].refs > 0
           /\ \A u \in Tid : u < m => txns[u].refs = 0
<1>0. TypeOK /\ read_txn \in Tid /\ txns[read_txn].start \in Tid
  BY Kinds DEF IInv
<1>1. \A t \in Pinned : t \in Tid /\ t <= read_txn /\ txns[read_txn].start <= t /\ txns[t].refs > 0
  BY <1>0, Ids, MvccAssumption DEF Pinned, Chain, Tid
<1>2. read_txn \in Pinned
  <2>1. txns[read_txn].refs > 0
    <3>1. Pin(read_txn) = 1 /\ Holders(read_txn) \in Nat /\ up
      BY StartingFacts, HoldersRoom, MvccAssumption DEF Pin, RefInv
    <3> QED
      BY <1>0, <3>1, Kinds, Ids DEF RefInv, CountInv
  <2>2. txns[read_txn].start <= read_txn
    BY <1>0, Ids DEF RefInv, StartInv
  <2> QED
    BY <1>0, <2>1, <2>2, Ids DEF Pinned, Chain
<1>3. \E t \in Pinned : \A u \in Pinned : t <= u
  <2>1. Pinned \subseteq Nat
    BY <1>1, Ids
  <2> QED
    BY <1>2, <2>1, LeastNat
<1>4. m \in Pinned /\ \A u \in Pinned : m <= u
  BY <1>3
<1>5. ASSUME NEW u \in Tid, u < m PROVE txns[u].refs = 0
  <2>1. m \in Nat /\ u \in Nat /\ m <= read_txn /\ read_txn \in Nat /\ txns[read_txn].start \in Nat
    BY <1>0, <1>1, <1>4, Ids
  <2>2. CASE u < txns[read_txn].start
    BY <2>2 DEF RefInv, StartInv, ChainFrom
  <2>3. CASE ~(u < txns[read_txn].start)
    <3>1. u \in Chain
      BY <1>5, <2>1, <2>3 DEF Chain
    <3>2. u \notin Pinned
      BY <1>4, <1>5, <2>1
    <3> QED
      BY <1>0, <3>1, <3>2, Kinds DEF Pinned
  <2> QED
    BY <2>2, <2>3
<1> QED
  BY <1>1, <1>2, <1>4, <1>5

(* The walk of start_transaction() sets the start of the new chain. *)
LEMMA CollectStep ==
    ASSUME IInv, RefInv, NEW c \in Cursors, CollectTransactions(c)
    PROVE  RefInv'
<1> DEFINE m == CHOOSE t \in Pinned : \A u \in Pinned : t <= u
<1>0. TypeOK /\ IInv
  BY DEF IInv
<1>1. /\ UNCHANGED <<read_txn, prepared_txn, next_txn_page, txn_cursor_id, active_txn, up>>
      /\ up /\ cur[c].pc = "locked" /\ cur'[c].pc = "gc"
      /\ \A d \in Cursors : cur'[d].txn = cur[d].txn /\ cur'[d].ref = cur[d].ref
      /\ \A d \in Cursors \ {c} : cur'[d] = cur[d]
  BY DEF CollectTransactions, Goto, At, header, IInv, TypeOK
<1>2. Starting /\ Starting'
  BY <1>1 DEF Starting
<1>3. active_txn \in Tid /\ active_txn = read_txn + 1 /\ ~Prepared
  BY <1>2, StartingFacts DEF RefInv
<1>4. /\ Pinned # {} /\ m \in Tid /\ m <= read_txn /\ txns[read_txn].start <= m
      /\ \A u \in Tid : u < m => txns[u].refs = 0
  BY <1>2, Oldest
<1>5. /\ \A t \in Tid : txns'[t].refs = txns[t].refs
      /\ \A t \in Tid : t # active_txn => txns'[t].start = txns[t].start
      /\ txns'[active_txn].start = m
  <2> DEFINE first == txns[read_txn].start
             freed == [i \in 1 .. m - first |->
                         [page |-> txns[first + i - 1].page, tid |-> active_txn]]
  <2>1. txns' = [txns EXCEPT ![active_txn].start = m, ![active_txn].garbage = @ \o freed]
    BY <1>4 DEF CollectTransactions
  <2> HIDE DEF m, freed
  <2> QED
    BY <1>3, <2>1 DEF IInv, TypeOK, Txn
<1> HIDE DEF m
<1>6. \A t \in Tid : Holders(t)' = Holders(t) /\ Pin(t)' = Pin(t)
  BY <1>1, <1>2, HoldersSame DEF Pin
<1>7. PhaseInv'
  BY <1>1, <1>2, <1>3 DEF RefInv, PhaseInv, Prepared, Recovered
<1>8. NextInv'
  BY <1>0, <1>1, <1>5, Kinds DEF RefInv, NextInv, Prepared
<1>9. HoldInv'
  BY <1>0, <1>1, Kinds, Ids DEF RefInv, HoldInv, Owner
<1>10. CountInv'
  BY <1>0, <1>1, <1>5, <1>6, Kinds, Ids DEF RefInv, CountInv, Slack
<1>11. DraftInv'
  BY <1>0, <1>1, <1>2, <1>3, <1>5, Kinds, Ids DEF RefInv, DraftInv, Prepared
<1>12. StartInv'
  <2>1. \A t \in Tid : t <= read_txn => txns'[t].start = txns[t].start
    BY <1>0, <1>3, <1>5, Kinds, Ids
  <2> QED
    BY <1>0, <1>1, <1>3, <1>4, <1>5, <2>1, Kinds, Ids DEF RefInv, StartInv, ChainFrom, Prepared
<1> QED
  BY <1>7, <1>8, <1>9, <1>10, <1>11, <1>12 DEF RefInv

(* The committed transaction is unpinned, the cursor moves to the new one.  *)
LEMMA EnterStep ==
    ASSUME IInv, RefInv, NEW c \in Cursors, EnterTransaction(c)
    PROVE  RefInv'
<1> DEFINE x == cur[c].txn
<1>0. TypeOK /\ IInv
  BY DEF IInv
<1>1. /\ UNCHANGED <<read_txn, prepared_txn, next_txn_page, txn_cursor_id, active_txn, up>>
      /\ up /\ cur[c].pc = "gc" /\ cur[c].ref = 0 /\ x \in Tid /\ x <= read_txn
      /\ cur'[c].pc = "idle" /\ cur'[c].txn = active_txn /\ cur'[c].ref = 0
      /\ \A d \in Cursors \ {c} : cur'[d] = cur[d]
  BY DEF EnterTransaction, At, header, object, IInv, TypeOK, CursorInv, RefInv, HoldInv
<1>2. /\ txn_cursor_id = c /\ \A d \in Cursors \ {c} : cur[d].pc \notin WritePoints
  BY <1>1, Alone DEF WritePoints
<1>3. Starting /\ ~Starting'
  BY <1>1, <1>2 DEF Starting, WritePoints
<1>4. active_txn \in Tid /\ active_txn = read_txn + 1 /\ ~Prepared
  BY <1>3, StartingFacts DEF RefInv
<1>5. /\ \A t \in Tid : txns'[t].start = txns[t].start
      /\ \A t \in Tid : t \notin {x, read_txn, active_txn} => txns'[t].refs = txns[t].refs
      /\ txns'[active_txn].refs = Inc(txns[active_txn].refs)
      /\ x # read_txn => /\ txns'[x].refs = Dec(txns[x].refs)
                         /\ txns'[read_txn].refs = Dec(txns[read_txn].refs)
      /\ x = read_txn => txns'[read_txn].refs = Dec(Dec(txns[read_txn].refs))
  <2> DEFINE unpinned == [txns EXCEPT ![read_txn].refs = Dec(@)]
             left     == [unpinned EXCEPT ![x].refs = Dec(@)]
  <2> HIDE DEF x
  <2>1. read_txn \in Tid /\ active_txn # read_txn /\ active_txn # x
    BY <1>0, <1>1, <1>4, Kinds, Ids
  <2>2. unpinned \in [Tid -> Txn]
    BY <2>1, RefsType DEF IInv, TypeOK
  <2>3. /\ \A t \in Tid : unpinned[t].start = txns[t].start
        /\ \A t \in Tid : unpinned[t].refs = IF t = read_txn THEN Dec(txns[t].refs) ELSE txns[t].refs
    BY <2>1 DEF IInv, TypeOK, Txn
  <2> HIDE DEF unpinned
  <2>4. left \in [Tid -> Txn]
    BY <1>1, <2>2, RefsType
  <2>5. /\ \A t \in Tid : left[t].start = unpinned[t].start
        /\ \A t \in Tid : left[t].refs = IF t = x THEN Dec(unpinned[t].refs) ELSE unpinned[t].refs
    BY <1>1, <2>2 DEF Txn
  <2>6. txns' = [left EXCEPT ![active_txn].refs = Inc(@)]
    BY DEF EnterTransaction, left, unpinned, x
  <2> HIDE DEF left
  <2>7. /\ \A t \in Tid : txns'[t].start = left[t].start
        /\ \A t \in Tid : txns'[t].refs = IF t = active_txn THEN Inc(left[t].refs) ELSE left[t].refs
    BY <1>4, <2>4, <2>6 DEF Txn
  <2> QED
    BY <1>1, <1>4, <2>1, <2>3, <2>5, <2>7
<1>6. ASSUME NEW t \in Tid
      PROVE  /\ Holders(t) \in Nat /\ Holders(t)' \in Nat
             /\ Holders(t)' + (IF t = x THEN 1 ELSE 0) = Holders(t) + (IF t = active_txn THEN 1 ELSE 0)
             /\ Pin(t) = (IF t = read_txn THEN 1 ELSE 0) /\ Pin(t)' = 0
  <2>1. /\ Holders(t) \in Nat /\ Holders(t)' \in Nat
        /\ Holders(t)' + On(cur[c], t) = Holders(t) + On(cur'[c], t)
    BY <1>1, HoldersMove
  <2>2. /\ On(cur[c], t) = (IF t = x THEN 1 ELSE 0)
        /\ On(cur'[c], t) = (IF t = active_txn THEN 1 ELSE 0)
    BY <1>1, <1>4, Ids DEF On
  <2>3. Pin(t) = (IF t = read_txn THEN 1 ELSE 0) /\ Pin(t)' = 0
    BY <1>3 DEF Pin
  <2> HIDE DEF x
  <2> QED
    BY <2>1, <2>2, <2>3
<1> HIDE DEF x
<1>7. Slack \in Nat
  BY DEF Slack
<1>b. MaxRefs \in Nat /\ MaxRefs >= 3
  <2>1. /\ Holders(read_txn) \in Nat /\ On(cur[c], read_txn) \in Nat
        /\ On(cur[c], read_txn) <= Holders(read_txn) /\ Holders(read_txn) + 3 <= MaxRefs + On(cur[c], read_txn)
    BY HoldersRoom
  <2>2. MaxRefs \in Nat
    BY MvccAssumption
  <2> QED
    BY <2>1, <2>2
<1>c. /\ read_txn \in Nat /\ active_txn \in Nat /\ next_txn_page \in Nat
      /\ \A t \in Tid : t \in Nat /\ t >= 1
      /\ next_txn_page # 0 => next_txn_page \in Tid
  BY <1>0, Numbers, Kinds, Ids
<1>8. txns[active_txn].refs = 0 /\ txns'[active_txn].refs = 1
  <2>1. txns[active_txn].refs = 0
    BY <1>3 DEF RefInv, DraftInv
  <2>2. MaxRefs \in Nat /\ MaxRefs # 0
    BY <1>b
  <2> QED
    BY <1>5, <2>1, <2>2 DEF Inc
<1>a. ASSUME NEW t \in Tid, t <= read_txn
      PROVE  txns[t].refs >= (IF t = x THEN 1 ELSE 0) + (IF t = read_txn THEN 1 ELSE 0)
  <2>1. txns[t].refs >= Holders(t) + Pin(t)
    BY <1>1, <1>a DEF RefInv, CountInv
  <2>2. t # active_txn
    BY <1>4, <1>a, <1>c
  <2>3. Holders(t) >= (IF t = x THEN 1 ELSE 0)
    BY <1>6, <2>2
  <2>4. txns[t].refs \in Nat
    BY <1>0, Kinds
  <2> QED
    BY <1>6, <2>1, <2>3, <2>4
<1>9. ASSUME NEW t \in Tid, t <= read_txn
      PROVE  txns'[t].refs = txns[t].refs - (IF t = x THEN 1 ELSE 0) - (IF t = read_txn THEN 1 ELSE 0)
  <2>1. t # active_txn
    BY <1>4, <1>9, <1>c
  <2>2. txns[t].refs \in Nat
    BY <1>0, Kinds
  <2> QED
    BY <1>5, <1>9, <1>a, <2>1, <2>2, Counts
<1>10. PhaseInv'
  BY <1>0, <1>1, <1>2, <1>3, <1>4, Kinds, Ids, MvccAssumption DEF RefInv, PhaseInv, Prepared, Recovered
<1>11. NextInv'
  <2> SUFFICES ASSUME next_txn_page # 0
               PROVE  /\ next_txn_page > read_txn /\ next_txn_page # active_txn
                      /\ txns'[next_txn_page].refs = 0
    BY <1>1, <1>4 DEF NextInv, Prepared
  <2>1. /\ next_txn_page > read_txn /\ next_txn_page # active_txn
        /\ txns[next_txn_page].refs = 0
    BY DEF RefInv, NextInv
  <2>2. next_txn_page \notin {x, read_txn, active_txn} /\ next_txn_page \in Tid
    BY <1>1, <1>c, <2>1
  <2> QED
    BY <1>5, <2>1, <2>2
<1>12. HoldInv'
  BY <1>0, <1>1, <1>2, Kinds, Ids DEF RefInv, HoldInv, Owner
<1>13. CountInv'
  BY <1>0, <1>1, <1>4, <1>6, <1>7, <1>8, <1>9, Kinds, Ids DEF RefInv, CountInv, Slack
<1>14. DraftInv'
  BY <1>0, <1>1, <1>3, <1>4, <1>8, Kinds, Ids DEF DraftInv, Prepared
<1>15. StartInv'
  <2>1. \A t \in Tid : t <= read_txn /\ txns[t].refs = 0 => txns'[t].refs = 0
    BY <1>9, <1>a
  <2>2. /\ \A d \in Cursors : cur[d].pc # "locked"
        /\ \A d \in Cursors : cur'[d].pc # "locked"
    BY <1>1, <1>2 DEF WritePoints
  <2> QED
    BY <1>0, <1>1, <1>4, <1>5, <2>1, <2>2, Kinds, Ids DEF RefInv, StartInv, ChainFrom, Prepared
<1> QED
  BY <1>10, <1>11, <1>12, <1>13, <1>14, <1>15 DEF RefInv

-----------------------------------------------------------------------------
(* The owner of the write transaction. *)

(* A step that changes no count, no start and no cursor. *)
LEMMA QuietStep ==
    ASSUME IInv, RefInv, UNCHANGED <<header, object, cur>>,
           \A t \in Tid : txns'[t].start = txns[t].start /\ txns'[t].refs = txns[t].refs
    PROVE  RefInv'
<1>0. TypeOK /\ UNCHANGED <<read_txn, prepared_txn, next_txn_page, txn_cursor_id, active_txn, up, cur>>
  BY DEF IInv, header, object
<1>1. Starting' <=> Starting
  BY <1>0 DEF Starting
<1>2. \A t \in Tid : Holders(t)' = Holders(t) /\ Pin(t)' = Pin(t)
  BY <1>0, <1>1, HoldersSame DEF Pin
<1>3. PhaseInv'
  BY <1>0, <1>1 DEF RefInv, PhaseInv, Prepared, Recovered
<1>4. NextInv'
  BY <1>0, Kinds DEF RefInv, NextInv, Prepared
<1>5. HoldInv'
  BY <1>0 DEF RefInv, HoldInv, Owner
<1>6. CountInv'
  BY <1>0, <1>2 DEF RefInv, CountInv, Slack
<1>7. DraftInv'
  BY <1>0, <1>1, StartingFacts, Kinds, Ids DEF RefInv, DraftInv, Prepared
<1>8. StartInv'
  BY <1>0, Kinds, Ids DEF RefInv, StartInv, ChainFrom, Prepared
<1> QED
  BY <1>3, <1>4, <1>5, <1>6, <1>7, <1>8 DEF RefInv

(* alloc() and free() change neither the count nor the start of the chain. *)
LEMMA SameCounts ==
    ASSUME NEW t \in Txn, NEW p, NEW id, start_txn_id \in Tid \cup {0}, CanAlloc(t)
    PROVE  /\ Allocated(t).refs = t.refs /\ Allocated(t).start = t.start
           /\ Clone(t).refs = 0 /\ Clone(t).start = t.start
BY AllocType DEF Allocated, Clone, Txn

(* value() and remove() *)
LEMMA WriteStep ==
    ASSUME IInv, RefInv, NEW c \in Cursors,
           \/ \E k \in Keys, v \in Vals : Put(c, k, v)
           \/ \E k \in Keys : Remove(c, k)
    PROVE  RefInv'
<1>0. TypeOK
  BY DEF IInv
<1>1. ASSUME NEW k \in Keys, NEW v \in Vals, Put(c, k, v) PROVE RefInv'
  <2> DEFINE t   == txns[active_txn]
             old == t.root[k]
             p   == IF Owns(old) THEN old ELSE AllocPage(t)
             new == IF Owns(old) THEN t ELSE [Allocated(t) EXCEPT !.root[k] = p]
             all == IF Owns(old) \/ old = 0 THEN new ELSE FreePage(new, old, active_txn)
  <2>1. active_txn \in Tid /\ t \in Txn
    BY <1>0, <1>1, OwnerFacts DEF Put, At, TypeOK
  <2>2. Owns(old) \/ CanAlloc(t)
    BY <1>1 DEF Put
  <2>3. txns' = [txns EXCEPT ![active_txn] = all]
    BY <1>1 DEF Put
  <2>4. new.refs = t.refs /\ new.start = t.start
    <3>1. CASE Owns(old)
      BY <3>1
    <3>2. CASE ~Owns(old)
      <4>1. Allocated(t).refs = t.refs /\ Allocated(t).start = t.start /\ Allocated(t) \in Txn
        BY <1>0, <2>1, <2>2, <3>2, SameCounts, AllocType DEF TypeOK
      <4> DEFINE a == Allocated(t)
      <4>2. new = [a EXCEPT !.root[k] = p]
        BY <3>2
      <4> HIDE DEF a, p, new, t
      <4> QED
        BY <4>1, <4>2 DEF Txn, a
    <3> QED
      BY <3>1, <3>2
  <2>5. all.refs = t.refs /\ all.start = t.start
    <3> HIDE DEF old, t
    <3>1. FreePage(new, old, active_txn).refs = new.refs /\ FreePage(new, old, active_txn).start = new.start
      <4> HIDE DEF new
      <4> QED
        BY DEF FreePage
    <3> HIDE DEF new
    <3> QED
      BY <2>4, <3>1
  <2> HIDE DEF all
  <2>6. \A u \in Tid : txns'[u].start = txns[u].start /\ txns'[u].refs = txns[u].refs
    BY <1>0, <2>1, <2>3, <2>5 DEF TypeOK
  <2>7. UNCHANGED <<header, object, cur>>
    BY <1>1 DEF Put
  <2> QED
    BY <2>6, <2>7, QuietStep
<1>2. ASSUME NEW k \in Keys, Remove(c, k) PROVE RefInv'
  <2> DEFINE t == txns[active_txn]
             f == [FreePage(t, t.root[k], active_txn) EXCEPT !.root[k] = 0]
  <2>1. active_txn \in Tid /\ t \in Txn
    BY <1>0, <1>2, OwnerFacts DEF Remove, At, TypeOK
  <2>2. txns' = [txns EXCEPT ![active_txn] = f]
    BY <1>2 DEF Remove
  <2>3. f.refs = t.refs /\ f.start = t.start
    <3> HIDE DEF t
    <3> QED
      BY <2>1 DEF FreePage, Txn
  <2> HIDE DEF f
  <2>4. \A u \in Tid : txns'[u].start = txns[u].start /\ txns'[u].refs = txns[u].refs
    BY <1>0, <2>1, <2>2, <2>3 DEF TypeOK
  <2>5. UNCHANGED <<header, object, cur>>
    BY <1>2 DEF Remove
  <2> QED
    BY <2>4, <2>5, QuietStep
<1> QED
  BY <1>1, <1>2

(* What the owner knows between two calls: its transaction is the successor *)
(* of the committed one, and it alone is on it.                             *)
LEMMA OwnerKnows ==
    ASSUME IInv, RefInv, NEW c \in Cursors, up,
           (Owner(c) /\ cur[c].pc = "idle") \/ cur[c].pc \in {"cloned", "unprepared"}
    PROVE  /\ txn_cursor_id = c /\ active_txn \in Tid /\ active_txn + 1 \in Tid
           /\ active_txn = read_txn + 1 /\ cur[c].txn = active_txn /\ cur[c].ref = 0
           /\ ~Starting
           /\ \A d \in Cursors : cur[d].pc \notin {"locked", "gc", "switched"}
           /\ \A d \in Cursors \ {c} : cur[d].pc \notin WritePoints /\ ~Owner(d)
<1>1. /\ txn_cursor_id = c /\ active_txn \in Tid /\ active_txn + 1 \in Tid
      /\ \A d \in Cursors \ {c} : cur[d].pc \notin WritePoints
  BY Alone DEF WritePoints
<1>2. \A d \in Cursors : cur[d].pc \notin {"locked", "gc", "switched"}
  BY <1>1 DEF WritePoints
<1>3. active_txn # 0 /\ ~Starting
  BY <1>1, <1>2, Ids DEF Starting
<1>4. active_txn = read_txn + 1
  BY <1>2, <1>3 DEF RefInv, PhaseInv
<1>5. cur[c].txn = active_txn /\ cur[c].ref = 0
  BY <1>1 DEF RefInv, HoldInv, Owner
<1> QED
  BY <1>1, <1>2, <1>3, <1>4, <1>5 DEF Owner

(* prepare_commit(), first store. *)
LEMMA PrepareCloneStep ==
    ASSUME IInv, RefInv, NEW c \in Cursors, PrepareClone(c)
    PROVE  RefInv'
<1>0. TypeOK
  BY DEF IInv
<1>1. /\ UNCHANGED <<read_txn, prepared_txn, txn_cursor_id, active_txn, up>>
      /\ up /\ cur[c].pc = "idle" /\ Owner(c) /\ ~Prepared /\ cur'[c].pc = "cloned"
      /\ next_txn_page' = active_txn + 1
      /\ \A d \in Cursors : cur'[d].txn = cur[d].txn /\ cur'[d].ref = cur[d].ref
      /\ \A d \in Cursors \ {c} : cur'[d] = cur[d]
  BY <1>0 DEF PrepareClone, Goto, At, object, TypeOK
<1>2. /\ active_txn \in Tid /\ active_txn + 1 \in Tid /\ active_txn = read_txn + 1
      /\ \A d \in Cursors : cur[d].pc \notin {"locked", "gc", "switched"}
  BY <1>1, OwnerKnows
<1>3. ~Starting /\ ~Starting'
  BY <1>1, <1>2 DEF Starting
<1>4. /\ \A t \in Tid : t # active_txn + 1 =>
            txns'[t].start = txns[t].start /\ txns'[t].refs = txns[t].refs
      /\ txns'[active_txn + 1].refs = 0
  <2> DEFINE a == Allocated(txns[active_txn])
             n == Clone(txns[active_txn])
  <2>1. a.refs = txns[active_txn].refs /\ a.start = txns[active_txn].start /\ n.refs = 0
    BY <1>0, <1>2, SameCounts DEF PrepareClone, TypeOK
  <2>2. txns' = [txns EXCEPT ![active_txn] = a, ![active_txn + 1] = n]
    BY DEF PrepareClone
  <2> HIDE DEF a, n
  <2> QED
    BY <1>0, <1>2, <2>1, <2>2, Ids DEF TypeOK
<1>5. \A t \in Tid : Holders(t)' = Holders(t) /\ Pin(t)' = Pin(t)
  BY <1>1, <1>3, HoldersSame DEF Pin
<1>6. PhaseInv'
  BY <1>1, <1>2, <1>3 DEF RefInv, PhaseInv, Prepared, Recovered
<1>7. NextInv'
  <2>1. active_txn + 1 # active_txn /\ active_txn + 1 > read_txn
    BY <1>0, <1>2, Numbers
  <2> QED
    BY <1>1, <1>4, <2>1 DEF NextInv, Prepared
<1>8. HoldInv'
  BY <1>0, <1>1, <1>2, Kinds, Ids DEF RefInv, HoldInv, Owner
<1>9. CountInv'
  BY <1>0, <1>1, <1>2, <1>4, <1>5, Kinds, Ids DEF RefInv, CountInv, Slack
<1>10. DraftInv'
  BY <1>0, <1>1, <1>2, <1>3, <1>4, Kinds, Ids DEF RefInv, DraftInv, Prepared
<1>11. StartInv'
  <2>1. \A t \in Tid : t <= active_txn =>
            txns'[t].start = txns[t].start /\ txns'[t].refs = txns[t].refs
    BY <1>2, <1>4, Ids
  <2>2. \A t \in Tid : t <= read_txn => t <= active_txn
    BY <1>0, <1>2, Numbers, Ids
  <2>3. ASSUME NEW t \in Tid, t <= active_txn, ChainFrom(t)
        PROVE  ChainFrom(t)'
    <3>1. \A u \in Tid : u < txns[t].start => u <= active_txn
      BY <1>0, <1>2, <2>3, Kinds, Numbers, Ids DEF ChainFrom
    <3>2. /\ txns'[t].start = txns[t].start /\ txns'[read_txn].start = txns[read_txn].start
          /\ \A u \in Tid : u <= active_txn => txns'[u].refs = txns[u].refs
      BY <1>0, <1>2, <2>1, <2>2, <2>3, Kinds, Numbers
    <3> QED
      BY <1>1, <2>3, <3>1, <3>2 DEF ChainFrom
  <2>4. ChainFrom(read_txn)' /\ ChainFrom(active_txn)'
    <3>1. ChainFrom(read_txn) /\ ChainFrom(active_txn) /\ read_txn \in Tid
      BY <1>0, <1>2, Kinds DEF RefInv, StartInv
    <3>2. read_txn <= active_txn /\ active_txn <= active_txn
      BY <1>0, <1>2, Numbers
    <3> QED
      BY <1>1, <1>2, <2>3, <3>1, <3>2
  <2> QED
    BY <1>0, <1>1, <1>2, <2>1, <2>2, <2>4, Kinds, Ids DEF RefInv, StartInv, Prepared
<1> QED
  BY <1>6, <1>7, <1>8, <1>9, <1>10, <1>11 DEF RefInv

(* A step of the owner that changes no transaction: prepare_commit(),       *)
(* second store, and the first store of rollback().                         *)
LEMMA MarkStep ==
    ASSUME IInv, RefInv, NEW c \in Cursors, PrepareMark(c) \/ RollbackUnprepare(c)
    PROVE  RefInv'
<1>0. TypeOK
  BY DEF IInv
<1>1. /\ UNCHANGED <<read_txn, next_txn_page, txn_cursor_id, active_txn, up, txns>>
      /\ up /\ ((Owner(c) /\ cur[c].pc = "idle") \/ cur[c].pc \in {"cloned", "unprepared"})
      /\ cur'[c].pc \in {"idle", "unprepared"} /\ prepared_txn' \in {active_txn, read_txn}
      /\ \A d \in Cursors : cur'[d].txn = cur[d].txn /\ cur'[d].ref = cur[d].ref
      /\ \A d \in Cursors \ {c} : cur'[d] = cur[d]
  <2>1. CASE PrepareMark(c)
    BY <1>0, <2>1 DEF PrepareMark, Goto, At, object, TypeOK
  <2>2. CASE RollbackUnprepare(c)
    BY <1>0, <2>2 DEF RollbackUnprepare, Goto, At, object, TypeOK
  <2> QED
    BY <2>1, <2>2
<1>2. /\ txn_cursor_id = c /\ active_txn \in Tid /\ active_txn + 1 \in Tid /\ active_txn = read_txn + 1
      /\ \A d \in Cursors : cur[d].pc \notin {"locked", "gc", "switched"}
  BY <1>1, OwnerKnows
<1>3. ~Starting /\ ~Starting' /\ \A d \in Cursors : cur'[d].pc \notin {"locked", "switched"}
  BY <1>1, <1>2 DEF Starting
<1>4. \A t \in Tid : Holders(t)' = Holders(t) /\ Pin(t)' = Pin(t)
  BY <1>1, <1>3, HoldersSame DEF Pin
<1>5. PhaseInv'
  BY <1>1, <1>2, <1>3, MvccAssumption DEF RefInv, PhaseInv, Prepared, Recovered
<1>6. NextInv'
  BY <1>0, <1>1, <1>2, Kinds, Ids DEF RefInv, NextInv, Prepared
<1>7. HoldInv'
  BY <1>0, <1>1, <1>2, Kinds, Ids DEF RefInv, HoldInv, Owner
<1>8. CountInv'
  BY <1>0, <1>1, <1>4, Kinds, Ids DEF RefInv, CountInv, Slack
<1>9. DraftInv'
  BY <1>0, <1>1, <1>2, <1>3, Kinds, Ids DEF RefInv, DraftInv, Prepared
<1>10. StartInv'
  BY <1>0, <1>1, <1>2, <1>3, Kinds, Ids DEF RefInv, StartInv, ChainFrom, Prepared
<1> QED
  BY <1>5, <1>6, <1>7, <1>8, <1>9, <1>10 DEF RefInv

(* The committed chain after a commit is the chain of what was prepared. *)
LEMMA SwitchStarts ==
    ASSUME IInv, RefInv, Prepared, read_txn' = prepared_txn, prepared_txn' = prepared_txn,
           txns' = txns, active_txn' = prepared_txn \/ active_txn' = 0
    PROVE  StartInv'
<1>1. TypeOK /\ prepared_txn \in Tid /\ prepared_txn = read_txn + 1 /\ ChainFrom(prepared_txn)
  BY Kinds DEF IInv, RefInv, PhaseInv, StartInv
<1>2. \A t \in Tid : t <= prepared_txn <=> t <= read_txn \/ t = prepared_txn
  BY <1>1, Numbers, Ids
<1>a. txns[prepared_txn].start \in Nat /\ read_txn \in Tid /\ read_txn \in Nat
  BY <1>1, Starts, Numbers, Kinds
<1>b. txns[read_txn].start <= txns[prepared_txn].start /\ txns[prepared_txn].start <= read_txn
  BY <1>1 DEF ChainFrom
<1>3. txns[prepared_txn].start <= prepared_txn /\ txns[prepared_txn].start <= txns[prepared_txn].start
  BY <1>1, <1>a, <1>b
<1>4. ASSUME NEW t \in Tid, t <= read_txn
      PROVE  txns[t].start <= txns[prepared_txn].start
  <2>1. txns[t].start <= txns[read_txn].start
    <3>1. read_txn <= read_txn
      BY <1>a
    <3> QED
      BY <1>4, <1>a, <3>1 DEF RefInv, StartInv
  <2>2. txns[t].start \in Nat /\ txns[read_txn].start \in Nat
    BY <1>1, <1>a, Starts
  <2> QED
    BY <1>a, <1>b, <2>1, <2>2
<1>5. \A t \in Tid : t <= prepared_txn =>
          /\ txns[t].start <= t
          /\ \A u \in Tid : u <= t => txns[u].start <= txns[t].start
  BY <1>1, <1>2, <1>3, <1>4, Numbers, Ids DEF RefInv, StartInv
<1>6. /\ txns[prepared_txn].start <= prepared_txn
      /\ \A u \in Tid : u < txns[prepared_txn].start => txns[u].refs = 0
  BY <1>1, <1>3 DEF ChainFrom
<1>7. ~Prepared' /\ active_txn' # read_txn' + 1
  BY <1>1, Numbers DEF Prepared
<1> QED
  BY <1>3, <1>5, <1>6, <1>7 DEF StartInv, ChainFrom

(* commit(): the one store. *)
LEMMA CommitSwitchStep ==
    ASSUME IInv, RefInv, NEW c \in Cursors, CommitSwitch(c)
    PROVE  RefInv'
<1>0. TypeOK
  BY DEF IInv
<1>1. /\ UNCHANGED <<prepared_txn, next_txn_page, txn_cursor_id, active_txn, up, txns>>
      /\ up /\ cur[c].pc = "idle" /\ Owner(c) /\ Prepared /\ cur'[c].pc = "switched"
      /\ read_txn' = prepared_txn
      /\ \A d \in Cursors : cur'[d].txn = cur[d].txn /\ cur'[d].ref = cur[d].ref
      /\ \A d \in Cursors \ {c} : cur'[d] = cur[d]
  BY <1>0 DEF CommitSwitch, Goto, At, object, TypeOK
<1>2. /\ txn_cursor_id = c /\ active_txn \in Tid /\ active_txn = read_txn + 1 /\ cur[c].txn = active_txn
      /\ \A d \in Cursors : cur[d].pc \notin {"locked", "gc", "switched"}
      /\ active_txn = prepared_txn
  BY <1>1, OwnerKnows DEF RefInv, PhaseInv
<1>3. ~Starting /\ ~Starting'
  BY <1>1, <1>2 DEF Starting
<1>4. \A t \in Tid : Holders(t)' = Holders(t) /\ Pin(t)' = Pin(t)
  BY <1>1, <1>3, HoldersSame DEF Pin
<1>5. \A t \in Tid : t <= prepared_txn <=> t <= read_txn \/ t = active_txn
  BY <1>0, <1>2, Numbers, Ids
<1>6. PhaseInv'
  BY <1>1, <1>2, <1>3, MvccAssumption DEF RefInv, PhaseInv, Prepared, Recovered
<1>7. NextInv'
  BY <1>0, <1>1, <1>2, Numbers DEF RefInv, NextInv, Prepared
<1>8. HoldInv'
  <2>1. \A t \in Nat : t <= read_txn => t <= prepared_txn
    BY <1>0, <1>2, Numbers
  <2>2. \A d \in Cursors : cur[d].txn \in Nat /\ cur[d].ref \in Nat
    BY <1>0, Kinds, Ids
  <2> QED
    BY <1>1, <1>2, <2>1, <2>2 DEF RefInv, HoldInv, Owner
<1>9. CountInv'
  BY <1>1, <1>2, <1>4, <1>5 DEF RefInv, CountInv, Slack
<1>10. DraftInv'
  BY <1>0, <1>1, <1>2, <1>3, Numbers DEF DraftInv, Prepared
<1>11. StartInv'
  BY <1>1, <1>2, SwitchStarts
<1> QED
  BY <1>6, <1>7, <1>8, <1>9, <1>10, <1>11 DEF RefInv

(* end_transaction() of commit() *)
LEMMA CommitEndStep ==
    ASSUME IInv, RefInv, NEW c \in Cursors, CommitEnd(c)
    PROVE  RefInv'
<1>0. TypeOK
  BY DEF IInv
<1>1. /\ UNCHANGED <<read_txn, prepared_txn, next_txn_page, up, txns>>
      /\ up /\ cur[c].pc = "switched" /\ cur'[c].pc = "idle"
      /\ txn_cursor_id' = NoCursor /\ active_txn' = 0
      /\ \A d \in Cursors : cur'[d].txn = cur[d].txn /\ cur'[d].ref = cur[d].ref
      /\ \A d \in Cursors \ {c} : cur'[d] = cur[d]
  BY <1>0 DEF CommitEnd, EndTransaction, Goto, At, TypeOK
<1>2. /\ txn_cursor_id = c /\ active_txn = read_txn
      /\ \A d \in Cursors \ {c} : cur[d].pc \notin WritePoints
  BY <1>1, Alone DEF RefInv, PhaseInv, WritePoints
<1>3. ~Starting /\ ~Starting' /\ ~Prepared
  BY <1>1, <1>2 DEF Starting, WritePoints, IInv, NextPageInv
<1>4. \A t \in Tid : Holders(t)' = Holders(t) /\ Pin(t)' = Pin(t)
  BY <1>1, <1>3, HoldersSame DEF Pin
<1>5. 0 \notin Tid /\ NoCursor \notin Cursors
  BY Ids, MvccAssumption
<1>6. PhaseInv'
  BY <1>0, <1>1, <1>2, <1>3, Numbers DEF RefInv, PhaseInv, Prepared, Recovered, WritePoints
<1>7. NextInv'
  BY <1>0, <1>1, Numbers DEF RefInv, NextInv, Prepared
<1>8. HoldInv'
  BY <1>0, <1>1, <1>2, <1>5, Kinds, Numbers, Ids DEF RefInv, HoldInv, Owner
<1>9. CountInv'
  BY <1>1, <1>4, <1>5 DEF RefInv, CountInv, Slack
<1>10. DraftInv'
  BY <1>0, <1>1, <1>3, Numbers DEF DraftInv, Prepared
<1>11. StartInv'
  BY <1>0, <1>1, <1>3, Numbers DEF RefInv, StartInv, ChainFrom, Prepared
<1> QED
  BY <1>6, <1>7, <1>8, <1>9, <1>10, <1>11 DEF RefInv

(* The rest of rollback() leaves the committed transactions alone; what it  *)
(* writes over has no count.                                                *)
LEMMA DropCounts ==
    ASSUME IInv, RefInv, active_txn = read_txn + 1, active_txn \in Tid, DropActive,
           UNCHANGED <<read_txn, up>>, prepared_txn' = read_txn
    PROVE  /\ \A t \in Tid : t <= read_txn =>
                txns'[t].start = txns[t].start /\ txns'[t].refs = txns[t].refs
           /\ NextInv' /\ StartInv'
           /\ next_txn_page' = active_txn /\ active_txn' = 0 /\ txn_cursor_id' = NoCursor
<1>0. TypeOK /\ read_txn \in Tid
  BY Kinds DEF IInv
<1>1. /\ txns' = [t \in Tid |-> IF t < active_txn THEN txns[t] ELSE Recycled]
      /\ next_txn_page' = active_txn /\ active_txn' = 0 /\ txn_cursor_id' = NoCursor
  BY DEF DropActive, EndTransaction
<1>2. Recycled.refs = 0
  BY <1>0 DEF Recycled, TypeOK, Txn
<1>3. \A t \in Tid : t <= read_txn <=> t < active_txn
  BY <1>0, Numbers, Ids
<1>4. \A t \in Tid : t <= read_txn => txns'[t] = txns[t]
  BY <1>1, <1>3
<1>5. NextInv'
  <2>1. txns'[active_txn].refs = 0
    BY <1>0, <1>1, <1>2, Numbers
  <2>2. active_txn > read_txn /\ active_txn # 0 /\ ~Prepared'
    BY <1>0, Numbers DEF Prepared
  <2> QED
    BY <1>1, <2>1, <2>2 DEF NextInv
<1>6. StartInv'
  <2>1. ASSUME NEW u \in Tid, u < txns[read_txn].start PROVE txns'[u].refs = 0
    <3>1. txns[u].refs = 0 /\ txns[read_txn].start <= read_txn
      BY <2>1 DEF RefInv, StartInv, ChainFrom
    <3>2. u <= read_txn
      BY <1>0, <2>1, <3>1, Starts, Numbers, Ids
    <3> QED
      BY <1>4, <3>1, <3>2
  <2>2. ChainFrom(read_txn)'
    BY <1>0, <1>4, <2>1, Numbers DEF RefInv, StartInv, ChainFrom
  <2>3. ~Prepared' /\ active_txn' # read_txn' + 1
    BY <1>0, <1>1, Numbers DEF Prepared
  <2> QED
    BY <1>0, <1>4, <2>2, <2>3, Ids, Numbers DEF RefInv, StartInv
<1> QED
  BY <1>1, <1>4, <1>5, <1>6

(* The rest of rollback(). *)
LEMMA RollbackEndStep ==
    ASSUME IInv, RefInv, NEW c \in Cursors, RollbackEnd(c)
    PROVE  RefInv'
<1>0. TypeOK
  BY DEF IInv
<1>1. /\ UNCHANGED <<read_txn, prepared_txn, up>> /\ DropActive
      /\ up /\ cur[c].pc = "unprepared"
      /\ cur'[c].pc = "rolled" /\ cur'[c].txn = 0 /\ cur'[c].ref = 0
      /\ \A d \in Cursors \ {c} : cur'[d] = cur[d]
  BY <1>0 DEF RollbackEnd, At, TypeOK
<1>2. /\ active_txn \in Tid /\ active_txn = read_txn + 1 /\ cur[c].txn = active_txn /\ cur[c].ref = 0
      /\ \A d \in Cursors : cur[d].pc \notin {"locked", "gc", "switched"}
      /\ \A d \in Cursors \ {c} : ~Owner(d)
  BY <1>1, OwnerKnows
<1>3. ~Starting /\ ~Starting' /\ ~Prepared
  BY <1>1, <1>2 DEF Starting, IInv, NextPageInv
<1>4. /\ \A t \in Tid : t <= read_txn =>
            txns'[t].start = txns[t].start /\ txns'[t].refs = txns[t].refs
      /\ NextInv' /\ StartInv' /\ active_txn' = 0 /\ txn_cursor_id' = NoCursor
  BY <1>1, <1>2, <1>3, DropCounts DEF Prepared
<1>5. ASSUME NEW t \in Tid, t <= read_txn
      PROVE  Holders(t)' = Holders(t) /\ Pin(t)' = Pin(t)
  <2>1. On(cur[c], t) = 0 /\ On(cur'[c], t) = 0
    BY <1>0, <1>1, <1>2, <1>5, Numbers, Ids DEF On
  <2> QED
    BY <1>1, <1>3, <2>1, HoldersMove DEF Pin
<1>6. NoCursor \notin Cursors /\ 0 \notin Tid
  BY MvccAssumption, Ids
<1>7. PhaseInv'
  BY <1>0, <1>1, <1>2, <1>3, <1>4, Numbers DEF RefInv, PhaseInv, Prepared, Recovered
<1>8. HoldInv'
  BY <1>0, <1>1, <1>2, <1>4, <1>6, Kinds, Numbers DEF RefInv, HoldInv, Owner
<1>9. CountInv'
  BY <1>1, <1>4, <1>5, <1>6 DEF RefInv, CountInv, Slack
<1>10. DraftInv'
  BY <1>0, <1>1, <1>3, <1>4, Numbers DEF DraftInv, Prepared
<1> QED
  BY <1>4, <1>7, <1>8, <1>9, <1>10 DEF RefInv

(* The cursor pins the committed transaction again. *)
LEMMA RollbackRefStep ==
    ASSUME IInv, RefInv, NEW c \in Cursors, RollbackRef(c)
    PROVE  RefInv'
<1>0. TypeOK
  BY DEF IInv
<1>1. /\ UNCHANGED <<read_txn, prepared_txn, next_txn_page, txn_cursor_id, active_txn, up>>
      /\ up /\ cur[c].pc = "rolled" /\ cur[c].txn = 0 /\ cur[c].ref = 0
      /\ cur'[c].pc = "idle" /\ cur'[c].txn = read_txn /\ cur'[c].ref = 0
      /\ \A d \in Cursors \ {c} : cur'[d] = cur[d]
      /\ \A t \in Tid : /\ txns'[t].start = txns[t].start
                        /\ t # read_txn => txns'[t].refs = txns[t].refs
      /\ txns'[read_txn].refs = Inc(txns[read_txn].refs)
  BY <1>0 DEF RollbackRef, At, RefInv, HoldInv, header, object, TypeOK, Txn
<1>2. ~Owner(c)
  <2>1. Owner(c) => active_txn \in Tid /\ cur[c].txn = active_txn
    BY <1>1, Alone DEF RefInv, HoldInv
  <2> QED
    BY <1>1, <2>1, Ids
<1>3. Starting' <=> Starting
  BY <1>1 DEF Starting
<1>4. Slack \in Nat /\ Slack <= 1 /\ \A t \in Tid : Pin(t) \in Nat /\ Pin(t) <= 1
  BY DEF Slack, Pin
<1>5. ASSUME NEW t \in Tid
      PROVE  /\ Holders(t) \in Nat
             /\ Holders(t)' = Holders(t) + (IF t = read_txn THEN 1 ELSE 0)
             /\ Pin(t)' = Pin(t)
  BY <1>0, <1>1, <1>3, HoldersMove, Kinds, Ids DEF On, Pin
<1>6. txns'[read_txn].refs = txns[read_txn].refs + 1
  <2>1. txns[read_txn].refs <= Holders(read_txn) + Pin(read_txn) + Slack
    BY <1>0, <1>1, Kinds, Ids DEF RefInv, CountInv
  <2>2. On(cur[c], read_txn) = 0
    BY <1>0, <1>1, Numbers DEF On
  <2>3. txns[read_txn].refs < MaxRefs
    BY <1>0, <1>4, <2>1, <2>2, HoldersRoom, Kinds, MvccAssumption
  <2> QED
    BY <1>0, <1>1, <2>3, Kinds, Counts
<1>7. PhaseInv'
  BY <1>1, <1>3 DEF RefInv, PhaseInv, Prepared, Recovered
<1>8. NextInv'
  BY <1>0, <1>1, Kinds, Ids DEF RefInv, NextInv, Prepared
<1>9. HoldInv'
  BY <1>0, <1>1, <1>2, Kinds, Ids DEF RefInv, HoldInv, Owner
<1>10. CountInv'
  BY <1>0, <1>1, <1>4, <1>5, <1>6, Kinds, Ids DEF RefInv, CountInv, Slack
<1>11. DraftInv'
  BY <1>0, <1>1, <1>3, StartingFacts, Kinds, Ids DEF RefInv, DraftInv, PhaseInv, Prepared
<1>12. StartInv'
  BY <1>0, <1>1, <1>3, Kinds, Ids DEF RefInv, StartInv, ChainFrom, Prepared
<1> QED
  BY <1>7, <1>8, <1>9, <1>10, <1>11, <1>12 DEF RefInv

-----------------------------------------------------------------------------
(* Crash, recovery and repair. *)

(* No cursor is in a write call when the write transaction has no owner. *)
LEMMA Ownerless ==
    ASSUME IInv, up, txn_cursor_id = NoCursor
    PROVE  ~Starting /\ \A d \in Cursors : ~Owner(d) /\ cur[d].pc \notin WritePoints
<1>1. \A d \in Cursors : ~Owner(d) /\ cur[d].pc \notin WritePoints
  BY Alone, MvccAssumption DEF Owner
<1> QED
  BY <1>1 DEF Starting, WritePoints

(* A crash *)
LEMMA CrashStep ==
    ASSUME IInv, RefInv, Crash
    PROVE  RefInv'
<1>0. TypeOK
  BY DEF IInv
<1>1. /\ UNCHANGED <<read_txn, prepared_txn, next_txn_page, txns>> /\ ~up' /\ active_txn' = 0
      /\ \A d \in Cursors : cur'[d].pc = "closed" /\ cur'[d].txn = 0 /\ cur'[d].ref = 0
      /\ CrashPoints # {}
  BY MvccAssumption DEF Crash, header
<1>2. ~Starting'
  BY <1>1 DEF Starting
<1>3. PhaseInv'
  BY <1>1, <1>2 DEF RefInv, PhaseInv, Prepared
<1>4. NextInv'
  BY <1>1 DEF RefInv, NextInv, Prepared
<1>5. HoldInv'
  BY <1>0, <1>1, Numbers DEF HoldInv
<1>6. CountInv'
  BY <1>1 DEF CountInv
<1>7. DraftInv'
  BY <1>0, <1>1, <1>2, Numbers DEF RefInv, DraftInv, Prepared
<1>8. StartInv'
  BY <1>0, <1>1, Numbers DEF RefInv, StartInv, ChainFrom, Prepared
<1> QED
  BY <1>3, <1>4, <1>5, <1>6, <1>7, <1>8 DEF RefInv

(* sanitize() *)
LEMMA SanitizeStep ==
    ASSUME IInv, RefInv, Sanitize
    PROVE  RefInv'
<1> DEFINE clean == [t \in Tid |-> IF t \in Chain THEN [txns[t] EXCEPT !.refs = 0] ELSE txns[t]]
<1>0. TypeOK /\ read_txn \in Tid /\ read_txn + 1 \in Tid
  BY Kinds, TidFacts, Numbers DEF IInv, WriterInv
<1>1. /\ UNCHANGED <<read_txn, prepared_txn, cur>> /\ ~up /\ up' /\ txn_cursor_id' = NoCursor
      /\ active_txn' = (IF Prepared THEN prepared_txn ELSE 0)
      /\ CrashPoints # {}
      /\ Prepared => next_txn_page # 0 /\ prepared_txn = read_txn + 1
  BY DEF Sanitize, RefInv, PhaseInv, IInv, NextPageInv
<1>2. \A d \in Cursors : cur[d].pc = "closed" /\ cur[d].txn = 0 /\ cur[d].ref = 0
  BY <1>1 DEF IInv, CursorInv, RefInv, HoldInv
<1>3. ~Starting'
  BY <1>1, <1>2 DEF Starting
<1>4. /\ clean \in [Tid -> Txn]
      /\ \A t \in Tid : clean[t].start = txns[t].start
      /\ \A t \in Tid : t <= read_txn => clean[t].refs = 0
      /\ \A t \in Tid : t > read_txn => clean[t].refs = txns[t].refs
  <2>1. clean \in [Tid -> Txn]
    BY <1>0, RefsType DEF TypeOK
  <2>2. \A t \in Tid : /\ clean[t].start = txns[t].start
                       /\ clean[t].refs = IF t \in Chain THEN 0 ELSE txns[t].refs
    BY <1>0 DEF TypeOK, Txn
  <2>3. ASSUME NEW t \in Tid, t <= read_txn, t \notin Chain PROVE txns[t].refs = 0
    <3>1. t < txns[read_txn].start
      BY <1>0, <2>3, Starts, Numbers, Ids DEF Chain
    <3> QED
      BY <3>1 DEF RefInv, StartInv, ChainFrom
  <2>4. \A t \in Tid : t > read_txn => t \notin Chain
    BY <1>0, Starts, Numbers, Ids DEF Chain
  <2> QED
    BY <2>1, <2>2, <2>3, <2>4
<1>5. /\ \A t \in Tid : t <= read_txn => txns'[t].start = txns[t].start /\ txns'[t].refs = 0
      /\ Prepared => /\ txns'[prepared_txn].start = txns[prepared_txn].start
                     /\ txns'[prepared_txn].refs = txns[prepared_txn].refs
      /\ next_txn_page' \in Tid /\ next_txn_page' > read_txn /\ txns'[next_txn_page'].refs = 0
      /\ Prepared => next_txn_page' # prepared_txn
  <2> DEFINE read == clean[read_txn]
  <2>1. CASE /\ next_txn_page = 0
             /\ CanAlloc(read)
             /\ next_txn_page' = read_txn + 1
             /\ txns' = [clean EXCEPT ![read_txn] = Allocated(@),
                                      ![read_txn + 1] = Clone(read)]
    <3> DEFINE a == Allocated(read)
               n == Clone(read)
    <3>1. a.refs = 0 /\ a.start = txns[read_txn].start /\ n.refs = 0
      <4>1. read \in Txn /\ read.refs = 0 /\ read.start = txns[read_txn].start
        BY <1>0, <1>4, Numbers
      <4> HIDE DEF read
      <4> QED
        BY <1>0, <2>1, <4>1, SameCounts DEF TypeOK
    <3>2. txns' = [clean EXCEPT ![read_txn] = a, ![read_txn + 1] = n]
      BY <2>1
    <3>3. read_txn + 1 # read_txn /\ read_txn + 1 > read_txn /\ \A t \in Tid : t <= read_txn => t # read_txn + 1
      BY <1>0, Numbers, Ids
    <3> HIDE DEF a, n, clean, read
    <3>4. ~Prepared
      BY <1>1, <2>1
    <3>5. /\ txns'[read_txn] = a /\ txns'[read_txn + 1] = n
          /\ \A t \in Tid : t # read_txn /\ t # read_txn + 1 => txns'[t] = clean[t]
      BY <1>0, <1>4, <3>2, <3>3
    <3> QED
      BY <1>0, <1>4, <2>1, <3>1, <3>3, <3>4, <3>5
  <2>2. CASE /\ next_txn_page # 0
             /\ txns' = [clean EXCEPT ![next_txn_page].refs = 0]
             /\ UNCHANGED next_txn_page
    <3>1. /\ next_txn_page \in Tid /\ next_txn_page > read_txn
          /\ Prepared => next_txn_page # prepared_txn
      BY <1>0, <2>2, Kinds DEF RefInv, NextInv
    <3>2. Prepared => prepared_txn \in Tid /\ prepared_txn > read_txn
      BY <1>0, <1>1, Kinds, Numbers
    <3> HIDE DEF clean
    <3>3. /\ \A t \in Tid : txns'[t].start = clean[t].start
          /\ \A t \in Tid : t # next_txn_page => txns'[t].refs = clean[t].refs
          /\ txns'[next_txn_page].refs = 0
      BY <1>4, <2>2, <3>1 DEF Txn
    <3>4. \A t \in Tid : t <= read_txn => t # next_txn_page
      BY <1>0, <3>1, Numbers, Ids
    <3> QED
      BY <1>4, <2>2, <3>1, <3>2, <3>3, <3>4
  <2> QED
    BY <2>1, <2>2 DEF Sanitize
<1> HIDE DEF clean
<1>6. \A t \in Tid : Holders(t)' = 0 /\ Pin(t)' = 0
  <2>1. ASSUME NEW t \in Tid PROVE Holders(t) = 0
    BY <1>2, HoldersNone, Ids
  <2> QED
    BY <1>1, <1>3, <2>1, HoldersSame DEF Pin
<1>7. PhaseInv'
  BY <1>0, <1>1, <1>2, <1>3, Numbers DEF PhaseInv, Prepared
<1>8. NextInv'
  BY <1>1, <1>5, Ids DEF NextInv, Prepared
<1>9. HoldInv'
  BY <1>0, <1>1, <1>2, Numbers, MvccAssumption DEF HoldInv, Owner
<1>10. Prepared => prepared_txn \in Tid /\ txns'[prepared_txn].refs \in {0, 1} /\ ChainFrom(prepared_txn)
  BY <1>0, <1>5, Kinds DEF RefInv, DraftInv, StartInv
<1>11. CountInv'
  <2>1. Slack = 1
    BY <1>1 DEF Slack
  <2> QED
    BY <1>1, <1>5, <1>6, <1>10, <2>1, Ids DEF CountInv
<1>12. DraftInv'
  BY <1>0, <1>1, <1>3, <1>10, Numbers DEF DraftInv, Prepared
<1>13. ASSUME NEW t \in Tid, ChainFrom(t), txns'[t].start = txns[t].start
       PROVE  ChainFrom(t)'
  <2>1. \A u \in Tid : u < txns[t].start => u <= read_txn
    BY <1>0, <1>13, Starts, Numbers, Ids DEF ChainFrom
  <2>2. read_txn <= read_txn
    BY <1>0, Numbers
  <2> QED
    BY <1>0, <1>1, <1>5, <1>13, <2>1, <2>2 DEF ChainFrom
<1>14. StartInv'
  <2>1. ChainFrom(read_txn)'
    <3>1. ChainFrom(read_txn) /\ read_txn <= read_txn
      BY <1>0, Numbers DEF RefInv, StartInv
    <3> QED
      BY <1>0, <1>1, <1>5, <1>13, <3>1
  <2>2. Prepared => ChainFrom(prepared_txn)'
    BY <1>1, <1>5, <1>10, <1>13
  <2>3. active_txn' = read_txn + 1 => Prepared /\ active_txn' = prepared_txn
    BY <1>0, <1>1, Numbers
  <2>4. Prepared' <=> Prepared
    BY <1>1 DEF Prepared
  <2>5. \A t, u \in Tid : u <= t /\ t <= read_txn => u <= read_txn
    BY <1>0, Numbers, Ids
  <2>6. Prepared => ChainFrom(active_txn)'
    BY <1>1, <2>2 DEF ChainFrom
  <2> QED
    BY <1>1, <1>5, <2>1, <2>2, <2>3, <2>4, <2>5, <2>6 DEF RefInv, StartInv
<1> QED
  BY <1>7, <1>8, <1>9, <1>11, <1>12, <1>14 DEF RefInv

(* commit() of a recovered transaction, through the database *)
LEMMA CommitRecoveredStep ==
    ASSUME IInv, RefInv, CommitRecovered
    PROVE  RefInv'
<1>0. TypeOK
  BY DEF IInv
<1>1. /\ UNCHANGED <<prepared_txn, next_txn_page, up, txns, cur>> /\ up /\ txn_cursor_id = NoCursor
      /\ read_txn' = prepared_txn /\ active_txn' = 0 /\ txn_cursor_id' = NoCursor
      /\ Recovered /\ Prepared
  BY DEF CommitRecovered, EndTransaction, Recovered, IInv, NextPageInv
<1>2. prepared_txn \in Tid /\ prepared_txn = read_txn + 1 /\ active_txn = prepared_txn
  BY <1>0, <1>1, Kinds DEF RefInv, PhaseInv
<1>3. ~Starting /\ \A d \in Cursors : ~Owner(d) /\ cur[d].pc \notin WritePoints
  BY <1>1, Ownerless
<1>4. ~Starting'
  BY <1>1, <1>3 DEF Starting
<1>5. \A t \in Tid : Holders(t)' = Holders(t) /\ Pin(t)' = Pin(t)
  BY <1>1, <1>3, <1>4, HoldersSame DEF Pin
<1>6. \A t \in Tid : t <= prepared_txn <=> t <= read_txn \/ t = active_txn
  BY <1>0, <1>2, Numbers, Ids
<1>7. 0 \notin Tid /\ NoCursor \notin Cursors
  BY Ids, MvccAssumption
<1>8. PhaseInv'
  BY <1>0, <1>1, <1>2, <1>3, <1>4, Numbers DEF RefInv, PhaseInv, Prepared, Recovered, WritePoints
<1>9. NextInv'
  BY <1>0, <1>1, <1>2, Numbers DEF RefInv, NextInv, Prepared
<1>10. HoldInv'
  <2>1. \A t \in Nat : t <= read_txn => t <= prepared_txn
    BY <1>0, <1>2, Numbers
  <2>2. \A d \in Cursors : cur[d].txn \in Nat /\ cur[d].ref \in Nat
    BY <1>0, Kinds, Ids
  <2> QED
    BY <1>1, <1>3, <1>7, <2>1, <2>2 DEF RefInv, HoldInv, Owner
<1>11. CountInv'
  BY <1>1, <1>2, <1>5, <1>6, <1>7 DEF RefInv, CountInv, Slack
<1>12. DraftInv'
  BY <1>0, <1>1, <1>2, <1>4, Numbers DEF DraftInv, Prepared
<1>13. StartInv'
  BY <1>1, SwitchStarts
<1> QED
  BY <1>8, <1>9, <1>10, <1>11, <1>12, <1>13 DEF RefInv

(* rollback() of a recovered transaction, through the database *)
LEMMA RollbackRecoveredStep ==
    ASSUME IInv, RefInv, RollbackRecovered
    PROVE  RefInv'
<1>0. TypeOK
  BY DEF IInv
<1>1. /\ UNCHANGED <<read_txn, up, cur>> /\ prepared_txn' = read_txn /\ DropActive
      /\ up /\ Recovered /\ Prepared /\ txn_cursor_id = NoCursor
  BY DEF RollbackRecovered, Recovered, IInv, NextPageInv
<1>2. active_txn \in Tid /\ active_txn = read_txn + 1
  BY <1>0, <1>1, Kinds DEF RefInv, PhaseInv
<1>3. ~Starting /\ \A d \in Cursors : ~Owner(d) /\ cur[d].pc \notin WritePoints
  BY <1>1, Ownerless
<1>4. ~Starting'
  BY <1>1, <1>3 DEF Starting
<1>5. /\ \A t \in Tid : t <= read_txn =>
            txns'[t].start = txns[t].start /\ txns'[t].refs = txns[t].refs
      /\ NextInv' /\ StartInv' /\ active_txn' = 0 /\ txn_cursor_id' = NoCursor
  BY <1>1, <1>2, DropCounts
<1>6. \A t \in Tid : Holders(t)' = Holders(t) /\ Pin(t)' = Pin(t)
  BY <1>1, <1>3, <1>4, HoldersSame DEF Pin
<1>7. 0 \notin Tid /\ NoCursor \notin Cursors
  BY Ids, MvccAssumption
<1>8. PhaseInv'
  BY <1>0, <1>1, <1>3, <1>4, <1>5, Numbers DEF RefInv, PhaseInv, Prepared, Recovered, WritePoints
<1>9. HoldInv'
  BY <1>1, <1>3, <1>5, <1>7 DEF RefInv, HoldInv, Owner
<1>10. CountInv'
  BY <1>1, <1>5, <1>6, <1>7 DEF RefInv, CountInv, Slack
<1>11. DraftInv'
  BY <1>0, <1>1, <1>4, <1>5, Numbers DEF DraftInv, Prepared
<1> QED
  BY <1>5, <1>8, <1>9, <1>10, <1>11 DEF RefInv

(* repair() goes back to an older transaction that nobody is on. *)
LEMMA RepairStep ==
    ASSUME IInv, RefInv, Repair
    PROVE  RefInv'
<1>0. TypeOK /\ read_txn \in Tid /\ read_txn \in Nat
  BY Kinds, Numbers DEF IInv
<1>1. PICK h \in Chain \ {read_txn} : read_txn' = h /\ prepared_txn' = h
  BY DEF Repair
<1>2. /\ UNCHANGED <<next_txn_page, txn_cursor_id, up, active_txn, txns, cur>>
      /\ up /\ active_txn = 0 /\ Pinned = {}
  BY DEF Repair, object
<1>3. h \in Tid /\ h \in Nat /\ h < read_txn
  BY <1>0, <1>1, Kinds, Starts, Ids, MvccAssumption DEF Chain, Tid
<1>4. /\ ~Starting /\ \A d \in Cursors : ~Owner(d) /\ cur[d].pc \notin WritePoints
  <2>1. \A d \in Cursors : ~Owner(d) /\ cur[d].pc \notin WritePoints
    BY <1>2, Alone, Ids
  <2> QED
    BY <2>1 DEF Starting, WritePoints
<1>5. ASSUME NEW t \in Tid, t <= read_txn
      PROVE  txns[t].refs = 0 /\ Holders(t) = 0
  <2>1. txns[t].refs = 0
    <3>1. CASE t < txns[read_txn].start
      BY <3>1 DEF RefInv, StartInv, ChainFrom
    <3>2. CASE ~(t < txns[read_txn].start)
      <4>1. txns[read_txn].start \in Nat /\ t \in Nat
        BY <1>0, Starts, Ids
      <4>2. t \in Chain
        BY <1>0, <1>5, <3>2, <4>1 DEF Chain
      <4> QED
        BY <1>0, <1>2, <4>2, Kinds DEF Pinned
    <3> QED
      BY <3>1, <3>2
  <2>2. Holders(t) \in Nat /\ Pin(t) \in Nat /\ txns[t].refs >= Holders(t) + Pin(t)
    BY <1>2, <1>5, HoldersRoom, MvccAssumption DEF RefInv, CountInv, Pin
  <2> QED
    BY <2>1, <2>2
<1>6. \A d \in Cursors : cur[d].txn = 0 /\ cur[d].ref = 0
  <2> SUFFICES ASSUME NEW d \in Cursors PROVE cur[d].txn = 0 /\ cur[d].ref = 0
    OBVIOUS
  <2>1. /\ cur[d].txn \in Tid \cup {0} /\ cur[d].ref \in Tid \cup {0}
        /\ cur[d].txn <= read_txn /\ cur[d].ref <= read_txn
    BY <1>0, <1>4, Kinds DEF RefInv, HoldInv
  <2>2. \A t \in Tid : t <= read_txn => On(cur[d], t) = 0
    <3> SUFFICES ASSUME NEW t \in Tid, t <= read_txn PROVE On(cur[d], t) = 0
      OBVIOUS
    <3> QED
      BY <1>5, HoldersRoom
  <2> QED
    BY <2>1, <2>2 DEF On
<1>7. ~Starting'
  BY <1>2, <1>4 DEF Starting
<1>8. \A t \in Tid : t <= h => t <= read_txn
  BY <1>0, <1>3, Ids
<1>9. PhaseInv'
  BY <1>1, <1>2, <1>3, <1>4, <1>7 DEF RefInv, PhaseInv, Prepared, Recovered, WritePoints
<1>10. NextInv'
  BY <1>0, <1>1, <1>2, <1>3, Numbers DEF RefInv, NextInv, Prepared
<1>11. HoldInv'
  BY <1>1, <1>2, <1>3, <1>4, <1>6 DEF RefInv, HoldInv, Owner
<1>12. CountInv'
  <2>1. \A t \in Tid : Holders(t)' = Holders(t) /\ Pin(t)' = 0
    BY <1>2, <1>7, HoldersSame DEF Pin
  <2>2. Slack \in Nat
    BY DEF Slack
  <2> QED
    BY <1>1, <1>2, <1>5, <1>8, <2>1, <2>2, Ids DEF CountInv, Slack
<1>13. DraftInv'
  BY <1>1, <1>2, <1>3, <1>7 DEF DraftInv, Prepared
<1>14. StartInv'
  <2>1. h <= h /\ h <= read_txn
    BY <1>0, <1>3
  <2>2. txns[h].start <= h /\ txns[h].start \in Nat
    BY <1>0, <1>3, <2>1, Starts DEF RefInv, StartInv
  <2>3. \A u \in Tid : u < txns[h].start => u <= read_txn
    BY <1>0, <1>3, <2>2, Ids
  <2>4. ChainFrom(read_txn)'
    BY <1>1, <1>2, <1>3, <1>5, <2>2, <2>3 DEF ChainFrom
  <2> QED
    BY <1>1, <1>2, <1>3, <1>8, <2>4 DEF RefInv, StartInv, Prepared
<1> QED
  BY <1>9, <1>10, <1>11, <1>12, <1>13, <1>14 DEF RefInv

-----------------------------------------------------------------------------
(* The invariant of the counts. *)

(* It holds initially. *)
LEMMA InitRefInv == Init => RefInv
<1> SUFFICES ASSUME Init PROVE RefInv
  OBVIOUS
<1>1. /\ read_txn = 1 /\ prepared_txn = 1 /\ next_txn_page = 2 /\ txn_cursor_id = NoCursor
      /\ active_txn = 0 /\ up /\ 2 \in Tid /\ 1 \in Tid
      /\ \A d \in Cursors : cur[d].pc = "closed" /\ cur[d].txn = 0 /\ cur[d].ref = 0
      /\ \A t \in Tid : txns[t].start = 1 /\ txns[t].refs = 0
  BY TidFacts DEF Init, FirstTxn
<1>2. ~Starting /\ ~Prepared /\ ~Recovered
  BY <1>1 DEF Starting, Prepared, Recovered
<1>3. \A t \in Tid : Holders(t) = 0 /\ Pin(t) = 0
  BY <1>1, <1>2, HoldersNone, Ids DEF Pin
<1>4. Slack \in Nat /\ NoCursor \notin Cursors
  BY MvccAssumption DEF Slack
<1>5. PhaseInv /\ NextInv /\ DraftInv
  BY <1>1, <1>2 DEF PhaseInv, NextInv, DraftInv
<1>6. HoldInv
  BY <1>1, <1>4 DEF HoldInv, Owner
<1>7. CountInv
  BY <1>1, <1>3, <1>4 DEF CountInv
<1>8. StartInv
  BY <1>1, <1>2, Ids DEF StartInv, ChainFrom
<1> QED
  BY <1>5, <1>6, <1>7, <1>8 DEF RefInv

(* Every step keeps it, unless commit() runs out of storage. *)
LEMMA StepRefInv ==
    ASSUME NoFull, IInv, RefInv, [Next]_vars
    PROVE  RefInv'
<1>1. ASSUME NEW c \in Cursors, CursorNext(c) PROVE RefInv'
  <2>1. ~CommitFails(c)
    BY DEF CommitFails, NoFull
  <2> QED
    BY <1>1, <2>1, TxnRefStep, UpdateStep, CloseStep, StartStep, CollectStep, EnterStep, WriteStep,
       PrepareCloneStep, MarkStep, CommitSwitchStep, CommitEndStep, RollbackEndStep, RollbackRefStep
       DEF CursorNext
<1>2. CASE Crash \/ Sanitize \/ CommitRecovered \/ RollbackRecovered \/ Repair
  BY <1>2, CrashStep, SanitizeStep, CommitRecoveredStep, RollbackRecoveredStep, RepairStep
<1>3. CASE UNCHANGED vars
  <2>1. UNCHANGED <<header, object, cur, txns>>
    BY <1>3 DEF vars
  <2> QED
    BY <2>1, QuietStep
<1> QED
  BY <1>1, <1>2, <1>3 DEF Next

(* The counts, in every reachable state. *)
THEOREM CountsHold == ASSUME NoFull PROVE Spec => [](IInv /\ RefInv)
<1>1. Init => IInv /\ RefInv
  BY InitIInv, InitRefInv
<1>2. IInv /\ RefInv /\ [Next]_vars => (IInv /\ RefInv)'
  BY StepIInv, StepRefInv
<1> QED
  BY <1>1, <1>2, PTL DEF Spec

(* The transactions of the chain are transactions. *)
LEMMA ChainIds == TypeOK => \A t \in Chain : t \in Tid /\ t <= read_txn
<1> SUFFICES ASSUME TypeOK, NEW t \in Chain PROVE t \in Tid /\ t <= read_txn
  OBVIOUS
<1>1. read_txn \in Tid /\ txns[read_txn].start \in Tid
  BY Kinds
<1> QED
  BY <1>1, MvccAssumption DEF Chain, Tid

(* A count of zero means that nobody is on the transaction: no cursor is    *)
(* ever on one that start_transaction() frees, also after crashes and a     *)
(* recovered transaction.                                                   *)
THEOREM CoverTheorem == ASSUME NoFull PROVE Spec => []RefsCoverCursors
<1>1. IInv /\ RefInv => RefsCoverCursors
  <2> SUFFICES ASSUME IInv, RefInv, up, NEW t \in (Chain \cup {active_txn}) \ {0}
               PROVE  txns[t].refs >= Holders(t)
    BY DEF RefsCoverCursors
  <2>1. TypeOK /\ t \in Tid /\ (t <= read_txn \/ t = active_txn)
    BY ChainIds, Kinds DEF IInv
  <2>2. Holders(t) \in Nat /\ Pin(t) \in Nat
    BY HoldersRoom, MvccAssumption DEF Pin
  <2>3. txns[t].refs >= Holders(t) + Pin(t) /\ txns[t].refs \in Nat
    BY <2>1, Kinds DEF RefInv, CountInv
  <2> QED
    BY <2>2, <2>3
<1> QED
  BY <1>1, CountsHold, PTL

(* Without a crash no count is left behind: start_transaction() can free    *)
(* every transaction that nobody is on.                                     *)
THEOREM ExactTheorem == ASSUME NoFull, CrashPoints = {} PROVE Spec => []RefsExact
<1>1. IInv /\ RefInv => RefsExact
  <2> SUFFICES ASSUME IInv, RefInv, up, ~txn_lock, NEW t \in Chain
               PROVE  txns[t].refs = Holders(t)
    BY DEF RefsExact
  <2>1. TypeOK /\ t \in Tid /\ t <= read_txn
    BY ChainIds DEF IInv
  <2>2. ~Starting
    BY Alone DEF Starting, WritePoints
  <2>3. Holders(t) \in Nat /\ Pin(t) = 0 /\ Slack = 0 /\ txns[t].refs \in Nat
    BY <2>1, <2>2, HoldersRoom, MvccAssumption, Kinds DEF Pin, Slack
  <2>4. txns[t].refs >= Holders(t) + Pin(t) /\ txns[t].refs <= Holders(t) + Pin(t) + Slack
    BY <2>1 DEF RefInv, CountInv
  <2> QED
    BY <2>3, <2>4
<1> QED
  BY <1>1, CountsHold, PTL

(* assert(new_txn->refs.load() == 0) after start_transaction() never fails: *)
(* nobody is on the page a write transaction starts on.                     *)
THEOREM UnreferencedTheorem == ASSUME NoFull PROVE Spec => []NewTxnUnreferenced
<1>1. IInv /\ RefInv => NewTxnUnreferenced
  <2> SUFFICES ASSUME IInv, RefInv, NEW c \in Cursors, cur[c].pc \in {"locked", "gc"}
               PROVE  txns[active_txn].refs = 0 /\ Holders(active_txn) = 0
    BY DEF NewTxnUnreferenced
  <2>1. Starting /\ TypeOK
    BY DEF Starting, IInv
  <2>2. up /\ active_txn \in Tid /\ active_txn = read_txn + 1
    BY <2>1, StartingFacts DEF RefInv
  <2>3. txns[active_txn].refs = 0
    BY <2>1 DEF RefInv, DraftInv
  <2>4. Holders(active_txn) \in Nat /\ Pin(active_txn) \in Nat
    BY HoldersRoom DEF Pin
  <2>5. txns[active_txn].refs >= Holders(active_txn) + Pin(active_txn)
    BY <2>2 DEF RefInv, CountInv
  <2> QED
    BY <2>3, <2>4, <2>5
<1> QED
  BY <1>1, CountsHold, PTL

(* update(), start_transaction() and every other call take a cursor to a    *)
(* transaction at least as new as the one it was on.                        *)
THEOREM ForwardTheorem == ASSUME NoFull PROVE Spec => ViewsMoveForward
<1> DEFINE Forward == \A c \in Cursors : cur[c].txn # 0 /\ cur'[c].txn # 0 => cur'[c].txn >= cur[c].txn
<1>1. ASSUME IInv, RefInv, [Next]_vars PROVE [Forward]_vars
  <2>0. TypeOK /\ \A d \in Cursors : cur[d].txn \in Nat /\ cur[d].ref \in Nat
    BY <1>1, Kinds, Ids DEF IInv
  <2>1. ASSUME NEW c \in Cursors, CursorNext(c) PROVE Forward
    <3>1. \A d \in Cursors \ {c} : cur'[d].txn = cur[d].txn
      BY <2>0, <2>1 DEF CursorNext, TxnRef, Update, Close, StartTransaction, CollectTransactions,
         EnterTransaction, Put, Remove, PrepareClone, PrepareMark, CommitSwitch, CommitEnd,
         RollbackUnprepare, RollbackEnd, RollbackRef, CommitFails, Goto, TypeOK
    <3>2. \/ cur'[c].txn \in {cur[c].txn, 0} \/ cur[c].txn = 0
          \/ cur'[c].txn = cur[c].ref /\ cur[c].ref > cur[c].txn
          \/ EnterTransaction(c)
      <4>1. cur[c].pc = "rolled" => cur[c].txn = 0
        BY <1>1 DEF RefInv, HoldInv
      <4>2. CASE \/ TxnRef(c) \/ StartTransaction(c) \/ CollectTransactions(c) \/ PrepareClone(c)
                 \/ PrepareMark(c) \/ CommitSwitch(c) \/ CommitEnd(c) \/ RollbackUnprepare(c)
                 \/ CommitFails(c) \/ (\E k \in Keys, v \in Vals : Put(c, k, v)) \/ (\E k \in Keys : Remove(c, k))
        <5>1. CASE TxnRef(c)
          BY <2>0, <5>1 DEF TxnRef, TypeOK
        <5>2. CASE StartTransaction(c) \/ CollectTransactions(c) \/ PrepareClone(c) \/ PrepareMark(c)
                   \/ CommitSwitch(c) \/ CommitEnd(c) \/ RollbackUnprepare(c)
          <6>1. \E p \in Points : Goto(c, p)
            BY <5>2 DEF StartTransaction, CollectTransactions, PrepareClone, PrepareMark, CommitSwitch,
               CommitEnd, RollbackUnprepare, Points
          <6> QED
            BY <2>0, <6>1 DEF Goto, TypeOK
        <5>3. CASE CommitFails(c) \/ (\E k \in Keys, v \in Vals : Put(c, k, v)) \/ (\E k \in Keys : Remove(c, k))
          <6>1. cur' = cur
            BY <5>3 DEF CommitFails, Put, Remove
          <6> QED
            BY <6>1
        <5> QED
          BY <4>2, <5>1, <5>2, <5>3
      <4>3. CASE Update(c)
        <5>1. cur'[c].txn = IF Newer(cur[c].ref, cur[c].txn) THEN cur[c].ref ELSE cur[c].txn
          BY <2>0, <4>3 DEF Update, TypeOK
        <5> QED
          BY <5>1 DEF Newer
      <4>4. CASE Close(c) \/ RollbackEnd(c) \/ RollbackRef(c)
        <5>1. cur'[c].txn = 0 \/ cur[c].txn = 0
          BY <2>0, <4>1, <4>4 DEF Close, RollbackEnd, RollbackRef, At, TypeOK
        <5> QED
          BY <5>1
      <4> QED
        BY <2>1, <4>2, <4>3, <4>4 DEF CursorNext
    <3>3. ASSUME EnterTransaction(c) PROVE cur'[c].txn >= cur[c].txn
      <4>1. cur[c].pc = "gc" /\ cur'[c].txn = active_txn
        BY <2>0, <3>3 DEF EnterTransaction, At, TypeOK
      <4>2. active_txn = read_txn + 1
        BY <1>1, <2>0, <4>1, StartingFacts DEF Starting, RefInv
      <4>3. cur[c].txn <= read_txn
        BY <1>1, <4>1 DEF RefInv, HoldInv
      <4> QED
        BY <2>0, <4>1, <4>2, <4>3, Numbers
    <3>4. cur[c].txn # 0 /\ cur'[c].txn # 0 => cur'[c].txn >= cur[c].txn
      BY <2>0, <3>2, <3>3
    <3>5. \A d \in Cursors \ {c} : cur'[d].txn >= cur[d].txn
      BY <2>0, <3>1
    <3> QED
      BY <3>4, <3>5
  <2>2. CASE Crash \/ Sanitize \/ CommitRecovered \/ RollbackRecovered \/ Repair
    <3>1. \A d \in Cursors : cur'[d].txn \in {cur[d].txn, 0}
      BY <2>0, <2>2 DEF Crash, Sanitize, CommitRecovered, RollbackRecovered, Repair, TypeOK
    <3> QED
      BY <2>0, <3>1
  <2> QED
    BY <1>1, <2>1, <2>2 DEF Next
<1>2. Spec => [][Forward]_vars
  <2>1. IInv /\ RefInv /\ [Next]_vars => [Forward]_vars
    BY <1>1
  <2> QED
    BY <2>1, CountsHold, PTL DEF Spec
<1> QED
  BY <1>2 DEF ViewsMoveForward
=============================================================================
