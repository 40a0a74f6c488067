-------------------------------- MODULE Mvcc --------------------------------
(***************************************************************************)
(* The transactional core of a leaves database: db/_db.hpp (struct _DB)    *)
(* and the transaction part of db/_cursor.hpp (_TransactionalCursor).      *)
(*                                                                         *)
(* One writer at a time (txn_lock) builds a copy-on-write successor of the *)
(* committed transaction.  Readers pin a transaction by a reference count  *)
(* and never lock out the writer.  A freed page is stamped with the id of  *)
(* the transaction that freed it and may be recycled once that id is below *)
(* _start_txn_id, the oldest transaction somebody may still read.          *)
(*                                                                         *)
(* Abstractions.  Transactions are named by their txn_id: the next_txn     *)
(* link of a committed transaction always leads to id + 1, so the walk of  *)
(* iter_transactions is the interval start_txn .. read_txn.  The trie is   *)
(* one page per key.  All pages are of one size class, so a memory manager *)
(* is a FIFO of freed pages and a bump pointer (MemManager.tla has the     *)
(* containers).  txn_id is a natural number below MaxTxn (SerialNumber.tla *)
(* has the wrap-around).                                                   *)
(***************************************************************************)
EXTENDS Naturals, Sequences, FiniteSets

CONSTANTS Cursors,      \* cursors, each used by a thread of its own
          Keys, Vals,   \* keys and values of the application
          Missing,      \* no value
          NoCursor,     \* txn_cursor_id == 0
          NoMap,        \* no snapshot (for SnapshotStore)
          MaxTxn,       \* bound: highest transaction id
          MaxPage,      \* bound: highest page number
          MaxRefs,      \* largest value of a reference count (uint32_t)
          CrashPoints,  \* program points of a cursor at which a crash may hit
          Faults        \* rare paths: "repair" (repair() is called),
                        \* "full" (StorageFull while commit() allocates)

ASSUME MvccAssumption ==
    /\ Cursors # {} /\ IsFiniteSet(Cursors)
    /\ NoCursor \notin Cursors
    /\ Missing \notin Vals
    /\ MaxTxn \in Nat \ {0} /\ MaxPage \in Nat /\ MaxPage >= 2
    /\ MaxRefs \in Nat /\ MaxRefs > 2 * Cardinality(Cursors)

ASSUME NoMapAssumption == NoMap \notin [Keys -> Vals \cup {Missing}]

VARIABLES
    \* _DBHeader, in the mapped file
    read_txn, prepared_txn, next_txn_page, txn_lock, txn_cursor_id,
    txns,          \* the transaction pages, by txn_id
    pages,         \* the data pages: value and txn_id stamp
    \* the _DB object of the process
    active_txn, start_txn_id, up,
    \* the cursors
    cur

header == <<read_txn, prepared_txn, next_txn_page, txn_lock, txn_cursor_id>>
object == <<active_txn, start_txn_id, up>>
vars   == <<header, txns, pages, object, cur>>

Tid   == 1 .. MaxTxn + 1      \* the last one only ever pre-allocated
Page  == 1 .. MaxPage
Freed == [page : Page, tid : Tid]
Txn   == [page : Page, root : [Keys -> Page \cup {0}], start : Tid,
          garbage : Seq(Freed), bump : 1 .. MaxPage + 1, refs : 0 .. MaxRefs]
Points == {"closed", "idle", "pinned", "locked", "gc", "cloned", "switched",
           "unprepared", "rolled"}

(* Header, transaction pages and cursors stay in their types: no reference *)
(* count below zero, no id or page beyond the bounds.                      *)
TypeOK ==
    /\ read_txn \in Tid /\ prepared_txn \in Tid
    /\ next_txn_page \in Tid \cup {0}
    /\ txn_lock \in BOOLEAN
    /\ txn_cursor_id \in Cursors \cup {NoCursor}
    /\ txns \in [Tid -> Txn]
    /\ pages \in [Page -> [val : Vals \cup {Missing}, txn_id : Tid \cup {0}]]
    /\ active_txn \in Tid \cup {0}
    /\ start_txn_id \in Tid \cup {0}
    /\ up \in BOOLEAN
    /\ cur \in [Cursors -> [pc : Points, txn : Tid \cup {0}, ref : Tid \cup {0}]]

-----------------------------------------------------------------------------
(* _DB::init(): the first transaction on the first page, the pre-allocated *)
(* successor (clone) on the second.                                        *)
FirstTxn == [page |-> 1, root |-> [k \in Keys |-> 0], start |-> 1,
             garbage |-> << >>, bump |-> 3, refs |-> 0]

Init ==
    /\ read_txn = 1 /\ prepared_txn = 1
    /\ next_txn_page = 2
    /\ txn_lock = FALSE /\ txn_cursor_id = NoCursor
    /\ txns = [t \in Tid |-> [FirstTxn EXCEPT !.page = IF t = 1 THEN 1 ELSE 2]]
    /\ pages = [p \in Page |-> [val |-> Missing, txn_id |-> 0]]
    /\ active_txn = 0 /\ start_txn_id = 0 /\ up = TRUE
    /\ cur = [c \in Cursors |-> [pc |-> "closed", txn |-> 0, ref |-> 0]]

-----------------------------------------------------------------------------
(* The memory manager of a transaction t. *)

(* may_recycle() of the front of the queue of freed pages. *)
MayRecycle(t) == t.garbage # << >> /\ Head(t.garbage).tid < start_txn_id

(* _MemManager::alloc(): recycle the front of the queue, else bump. *)
CanAlloc(t)  == MayRecycle(t) \/ t.bump <= MaxPage
AllocPage(t) == IF MayRecycle(t) THEN Head(t.garbage).page ELSE t.bump
Allocated(t) == IF MayRecycle(t) THEN [t EXCEPT !.garbage = Tail(@)]
                                 ELSE [t EXCEPT !.bump = @ + 1]

(* _MemManager::free() and mark_for_recycle(), by transaction id. *)
FreePage(t, p, id) == [t EXCEPT !.garbage = Append(@, [page |-> p, tid |-> id])]

(* refs.fetch_add(1) and refs.fetch_sub(1) of an unsigned counter. *)
Inc(r) == IF r = MaxRefs THEN 0 ELSE r + 1
Dec_Signed(r) == r - 1
Dec(r) == IF r = 0 THEN MaxRefs ELSE r - 1

(* What a reader of transaction t sees under key k, through the pages. *)
Lookup(t, k) == IF t.root[k] = 0 THEN Missing ELSE pages[t.root[k]].val

(* Pages a transaction needs: its own and those its trie reaches. *)
Reach(t) == {t.page} \cup ({t.root[k] : k \in Keys} \ {0})

(* The transactions iter_transactions() visits. *)
Chain == txns[read_txn].start .. read_txn

At(c, p)   == up /\ cur[c].pc = p
Owner(c)   == txn_cursor_id = c
Goto(c, p) == cur' = [cur EXCEPT ![c].pc = p]
Prepared   == prepared_txn # read_txn

-----------------------------------------------------------------------------
(* Cursor constructor and update(): nothing to do when the cursor is on the *)
(* committed transaction; else txn_ref() resolves it and counts a reference *)
(* under txn_ref_lock ...                                                   *)
TxnRef_NoRef(c) ==
    /\ At(c, "closed") \/ At(c, "idle")
    /\ cur[c].txn # read_txn
    /\ cur' = [cur EXCEPT ![c].pc = "pinned", ![c].ref = read_txn]
    /\ UNCHANGED <<header, txns, pages, object>>

TxnRef(c) ==
    /\ At(c, "closed") \/ At(c, "idle")
    /\ cur[c].txn # read_txn
    /\ txns' = [txns EXCEPT ![read_txn].refs = Inc(@)]
    /\ cur' = [cur EXCEPT ![c].pc = "pinned", ![c].ref = read_txn]
    /\ UNCHANGED <<header, pages, object>>

Newer_Always(new, old) == TRUE
Newer(new, old) == old = 0 \/ new > old

(* ... and the cursor moves to it if it is newer than its own (_set_txn), *)
(* dropping the reference that is no longer needed.                       *)
Update(c) ==
    /\ At(c, "pinned")
    /\ LET new   == cur[c].ref
           old   == cur[c].txn
           newer == Newer(new, old)
       IN /\ txns' = IF newer /\ old = 0 THEN txns
                     ELSE [txns EXCEPT ![IF newer THEN old ELSE new].refs = Dec(@)]
          /\ cur' = [cur EXCEPT ![c] = [pc |-> "idle", ref |-> 0,
                                        txn |-> IF newer THEN new ELSE old]]
    /\ UNCHANGED <<header, pages, object>>

(* Destructor of a cursor that owns no write transaction (an owner rolls *)
(* back first, which is RollbackEnd).                                    *)
Close_NoUnref(c) ==
    /\ At(c, "idle")
    /\ ~Owner(c)
    /\ cur' = [cur EXCEPT ![c] = [pc |-> "closed", txn |-> 0, ref |-> 0]]
    /\ UNCHANGED <<header, txns, pages, object>>

Close(c) ==
    /\ At(c, "idle")
    /\ ~Owner(c)
    /\ txns' = [txns EXCEPT ![cur[c].txn].refs = Dec(@)]
    /\ cur' = [cur EXCEPT ![c] = [pc |-> "closed", txn |-> 0, ref |-> 0]]
    /\ UNCHANGED <<header, pages, object>>

-----------------------------------------------------------------------------
(* start_transaction(): with txn_lock held, the pre-allocated page becomes *)
(* the active transaction and the committed one is pinned.                 *)
StartTransaction(c) ==
    /\ At(c, "idle")
    /\ ~txn_lock
    /\ next_txn_page # 0
    /\ read_txn < MaxTxn
    /\ txn_lock' = TRUE
    /\ txn_cursor_id' = c
    /\ active_txn' = read_txn + 1
    /\ LET taken == [txns EXCEPT ![read_txn + 1] = txns[next_txn_page]]
       IN txns' = [taken EXCEPT ![read_txn].refs = Inc(@)]
    /\ next_txn_page' = 0
    /\ start_txn_id' = read_txn
    /\ Goto(c, "locked")
    /\ UNCHANGED <<read_txn, prepared_txn, pages, up>>

(* The walk under txn_ref_lock: every transaction before the first one in   *)
(* use is freed, oldest first, and the chain of the new transaction starts  *)
(* at the first one in use.  A freed page keeps what it holds: after a      *)
(* rollback or a crash the next walk comes by again.                        *)
Pinned == {t \in Chain : txns[t].refs > 0}

(* _start_txn_id after the walk that stopped at transaction `stop'. *)
RecycleBelow_Committed(stop) == start_txn_id
RecycleBelow(stop) == IF Pinned = {} THEN start_txn_id ELSE stop

CollectTransactions(c) ==
    /\ At(c, "locked")
    /\ LET first  == txns[read_txn].start
           stop   == IF Pinned = {} THEN read_txn + 1
                     ELSE CHOOSE t \in Pinned : \A u \in Pinned : t <= u
           freed  == [i \in 1 .. stop - first |->
                         [page |-> txns[first + i - 1].page, tid |-> active_txn]]
           oldest == IF Pinned = {} THEN first ELSE stop
       IN /\ txns' = [txns EXCEPT ![active_txn].start = oldest,
                                  ![active_txn].garbage = @ \o freed]
          /\ start_txn_id' = RecycleBelow(stop)
    /\ Goto(c, "gc")
    /\ UNCHANGED <<header, pages, active_txn, up>>

(* The committed transaction is unpinned and the cursor moves to the new   *)
(* one (_set_txn).                                                         *)
EnterTransaction(c) ==
    /\ At(c, "gc")
    /\ LET unpinned == [txns EXCEPT ![read_txn].refs = Dec(@)]
           left     == [unpinned EXCEPT ![cur[c].txn].refs = Dec(@)]
       IN txns' = [left EXCEPT ![active_txn].refs = Inc(@)]
    /\ cur' = [cur EXCEPT ![c] = [pc |-> "idle", txn |-> active_txn, ref |-> 0]]
    /\ UNCHANGED <<header, pages, object>>

(* A page the active transaction wrote itself. *)
Owns_Any(p) == p # 0
Owns(p) == p # 0 /\ pages[p].txn_id = active_txn

(* cursor.value(v): a page of this transaction is written in place, any    *)
(* other is copied to a new page and freed.  A prepared transaction is only *)
(* committed or rolled back (the caller's side of two-phase commit).       *)
Put(c, k, v) ==
    /\ At(c, "idle") /\ Owner(c) /\ ~Prepared
    /\ LET t   == txns[active_txn]
           old == t.root[k]
           own == Owns(old)
           p   == IF own THEN old ELSE AllocPage(t)
           new == IF own THEN t ELSE [Allocated(t) EXCEPT !.root[k] = p]
       IN /\ own \/ CanAlloc(t)
          /\ txns' = [txns EXCEPT ![active_txn] =
                        IF own \/ old = 0 THEN new
                        ELSE FreePage(new, old, active_txn)]
          /\ pages' = [pages EXCEPT ![p] = [val |-> v, txn_id |-> active_txn]]
    /\ UNCHANGED <<header, object, cur>>

(* cursor.remove(): the leaf's page is freed, whoever wrote it. *)
Remove(c, k) ==
    /\ At(c, "idle") /\ Owner(c) /\ ~Prepared
    /\ LET t == txns[active_txn]
       IN /\ t.root[k] # 0
          /\ txns' = [txns EXCEPT ![active_txn] =
                        [FreePage(t, t.root[k], active_txn) EXCEPT !.root[k] = 0]]
    /\ UNCHANGED <<header, pages, object, cur>>

-----------------------------------------------------------------------------
(* _Transaction::clone(): a page from t's own memory manager receives a    *)
(* copy of t, made after the allocation, that nobody references yet.       *)
Clone(t) == [Allocated(t) EXCEPT !.page = AllocPage(t), !.refs = 0]

(* prepare_commit(): the next transaction page is allocated as part of the *)
(* transaction and stored in the header ...                                *)
PrepareClone(c) ==
    /\ At(c, "idle") /\ Owner(c) /\ ~Prepared
    /\ CanAlloc(txns[active_txn])
    /\ next_txn_page' = active_txn + 1
    /\ txns' = [txns EXCEPT ![active_txn] = Allocated(@),
                            ![active_txn + 1] = Clone(txns[active_txn])]
    /\ Goto(c, "cloned")
    /\ UNCHANGED <<read_txn, prepared_txn, txn_lock, txn_cursor_id, pages, object>>

(* ... then the header names the prepared transaction. *)
PrepareMark(c) ==
    /\ At(c, "cloned")
    /\ prepared_txn' = active_txn
    /\ Goto(c, "idle")
    /\ UNCHANGED <<read_txn, next_txn_page, txn_lock, txn_cursor_id, txns, pages, object>>

(* commit(): one store switches the committed transaction. *)
CommitSwitch(c) ==
    /\ At(c, "idle") /\ Owner(c) /\ Prepared
    /\ read_txn' = prepared_txn
    /\ Goto(c, "switched")
    /\ UNCHANGED <<prepared_txn, next_txn_page, txn_lock, txn_cursor_id, txns, pages, object>>

(* end_transaction() *)
EndTransaction ==
    /\ txn_cursor_id' = NoCursor
    /\ active_txn' = 0
    /\ txn_lock' = FALSE

CommitEnd(c) ==
    /\ At(c, "switched")
    /\ EndTransaction
    /\ Goto(c, "idle")
    /\ UNCHANGED <<read_txn, prepared_txn, next_txn_page, txns, pages, start_txn_id, up>>

(* rollback(): the header forgets the prepared transaction ... *)
RollbackUnprepare(c) ==
    /\ At(c, "idle") /\ Owner(c)
    /\ prepared_txn' = read_txn
    /\ Goto(c, "unprepared")
    /\ UNCHANGED <<read_txn, next_txn_page, txn_lock, txn_cursor_id, txns, pages, object>>

(* The page of the active transaction, overwritten with the committed one, *)
(* becomes the next transaction page again.                                *)
Recycled_KeepRefs == [txns[read_txn] EXCEPT !.page = txns[active_txn].page]
Recycled_KeepRoot == [txns[read_txn] EXCEPT !.page = txns[active_txn].page,
                                            !.refs = 0, !.root = txns[active_txn].root]
Recycled == [txns[read_txn] EXCEPT !.page = txns[active_txn].page, !.refs = 0]

(* ... and lets go of everything the transaction built, its clone included:  *)
(* the rest of DB::rollback().                                              *)
DropActive_NoPage ==
    /\ txns' = [t \in Tid |-> IF t < active_txn THEN txns[t] ELSE Recycled]
    /\ UNCHANGED next_txn_page
    /\ EndTransaction

DropActive ==
    /\ txns' = [t \in Tid |-> IF t < active_txn THEN txns[t] ELSE Recycled]
    /\ next_txn_page' = active_txn
    /\ EndTransaction

RollbackEnd(c) ==
    /\ At(c, "unprepared")
    /\ DropActive
    /\ cur' = [cur EXCEPT ![c] = [pc |-> "rolled", txn |-> 0, ref |-> 0]]
    /\ UNCHANGED <<read_txn, prepared_txn, pages, start_txn_id, up>>

(* commit() when the allocation in prepare_commit() throws StorageFull: the *)
(* database rolls back, the exception passes through the cursor, and the    *)
(* cursor is still on the transaction it lost.                              *)
CommitFails(c) ==
    /\ "full" \in Faults
    /\ At(c, "idle") /\ Owner(c) /\ ~Prepared
    /\ ~MayRecycle(txns[active_txn])
    /\ DropActive
    /\ UNCHANGED <<read_txn, prepared_txn, pages, start_txn_id, up, cur>>

(* The cursor then pins the committed transaction of that moment. *)
RollbackRef(c) ==
    /\ At(c, "rolled")
    /\ txns' = [txns EXCEPT ![read_txn].refs = Inc(@)]
    /\ cur' = [cur EXCEPT ![c] = [pc |-> "idle", txn |-> read_txn, ref |-> 0]]
    /\ UNCHANGED <<header, pages, object>>

-----------------------------------------------------------------------------
(* The process dies.  The mapped file keeps whatever was stored. *)
Crash ==
    /\ up
    /\ \A c \in Cursors : cur[c].pc \in CrashPoints
    /\ txns[read_txn].bump <= MaxPage      \* bound: leaves room for sanitize()
    /\ up' = FALSE
    /\ active_txn' = 0
    /\ start_txn_id' = 0
    /\ cur' = [c \in Cursors |-> [pc |-> "closed", txn |-> 0, ref |-> 0]]
    /\ UNCHANGED <<header, txns, pages>>

(* sanitize() on the next open: references of the chain are cleared, a     *)
(* missing next transaction page is cloned from the committed transaction, *)
(* and a prepared transaction becomes the active one, with the lock held.  *)
(* (The write-ahead log is empty here; see Wal.tla.)                       *)
Sanitize ==
    /\ ~up
    /\ LET clean == [t \in Tid |-> IF t \in Chain THEN [txns[t] EXCEPT !.refs = 0]
                                                  ELSE txns[t]]
           read  == clean[read_txn]
       IN \/ /\ next_txn_page = 0
             /\ CanAlloc(read)
             /\ next_txn_page' = read_txn + 1
             /\ txns' = [clean EXCEPT ![read_txn] = Allocated(@),
                                      ![read_txn + 1] = Clone(read)]
          \/ /\ next_txn_page # 0
             /\ txns' = [clean EXCEPT ![next_txn_page].refs = 0]
             /\ UNCHANGED next_txn_page
    /\ txn_lock' = Prepared
    /\ active_txn' = IF Prepared THEN prepared_txn ELSE 0
    /\ txn_cursor_id' = NoCursor
    /\ up' = TRUE
    /\ UNCHANGED <<read_txn, prepared_txn, pages, start_txn_id, cur>>

(* The application settles a recovered prepared transaction through the DB *)
(* object, DB::commit(0) or DB::rollback(0).                               *)
Recovered == up /\ active_txn # 0 /\ txn_cursor_id = NoCursor

CommitRecovered ==
    /\ Recovered
    /\ read_txn' = prepared_txn
    /\ EndTransaction
    /\ UNCHANGED <<prepared_txn, next_txn_page, txns, pages, start_txn_id, up, cur>>

RollbackRecovered ==
    /\ Recovered
    /\ prepared_txn' = read_txn
    /\ DropActive
    /\ UNCHANGED <<read_txn, pages, start_txn_id, up, cur>>

(* repair(): nobody is active; the newest transaction of the healthy prefix *)
(* of the chain becomes the committed one.  Which tries are healthy is not  *)
(* modelled: any prefix may be.                                             *)
Repair ==
    /\ "repair" \in Faults
    /\ up /\ active_txn = 0
    /\ Pinned = {}
    /\ \E healthy \in Chain \ {read_txn} :
          /\ read_txn' = healthy
          /\ prepared_txn' = healthy
    /\ UNCHANGED <<next_txn_page, txn_lock, txn_cursor_id, txns, pages, object, cur>>

-----------------------------------------------------------------------------
CursorNext(c) ==
    \/ TxnRef(c) \/ Update(c) \/ Close(c)
    \/ StartTransaction(c) \/ CollectTransactions(c) \/ EnterTransaction(c)
    \/ \E k \in Keys, v \in Vals : Put(c, k, v)
    \/ \E k \in Keys : Remove(c, k)
    \/ PrepareClone(c) \/ PrepareMark(c) \/ CommitSwitch(c) \/ CommitEnd(c)
    \/ RollbackUnprepare(c) \/ RollbackEnd(c) \/ RollbackRef(c)
    \/ CommitFails(c)

Next ==
    \/ \E c \in Cursors : CursorNext(c)
    \/ Crash \/ Sanitize \/ CommitRecovered \/ RollbackRecovered
    \/ Repair

Spec == Init /\ [][Next]_vars

-----------------------------------------------------------------------------
(* Properties *)

(* Transactions somebody may still read or go back to: the committed one,  *)
(* the active or prepared one, and those the cursors hold.                 *)
InUse ==
    ({read_txn, prepared_txn, active_txn}
       \cup {cur[c].txn : c \in Cursors} \cup {cur[c].ref : c \in Cursors}) \ {0}

(* Pages the memory manager of t may hand out, at once or after others. *)
Allocatable(t) ==
    (t.bump .. MaxPage)
      \cup {t.garbage[i].page : i \in {j \in DOMAIN t.garbage :
                                          t.garbage[j].tid < start_txn_id}}

(* Once start_transaction() has found the oldest transaction in use,        *)
(* may_recycle() releases no page that a transaction in use still reaches:  *)
(* neither a data page nor the transaction page itself.                     *)
NoPageInUseRecycled ==
    active_txn # 0 /\ (\A c \in Cursors : cur[c].pc # "locked") =>
        \A t \in InUse : Reach(txns[t]) \cap Allocatable(txns[active_txn]) = {}

(* The reference count of a transaction is at least the number of cursors  *)
(* on it, so a count of zero means that nobody is.                         *)
Holders(t) == Cardinality({c \in Cursors : cur[c].txn = t})
              + Cardinality({c \in Cursors : cur[c].ref = t})
RefsCoverCursors == up => \A t \in (Chain \cup {active_txn}) \ {0} : txns[t].refs >= Holders(t)

(* When no write transaction is open, no count is left behind: every        *)
(* transaction of the chain is referenced by exactly the cursors on it.     *)
RefsExact == up /\ ~txn_lock => \A t \in Chain : txns[t].refs = Holders(t)

(* assert(_header->next_txn_page): whoever gets txn_lock finds the page     *)
(* that commit, rollback, init or sanitize() has pre-allocated.             *)
NextTxnPageReady == up /\ ~txn_lock => next_txn_page # 0

(* assert(new_txn->refs.load() == 0), "no one can reference it yet": the     *)
(* page start_transaction() takes carries no count and no cursor is on it.   *)
NewTxnUnreferenced ==
    \A c \in Cursors : cur[c].pc \in {"locked", "gc"} =>
        txns[active_txn].refs = 0 /\ Holders(active_txn) = 0

(* A write transaction starts from the committed map, also after rollbacks  *)
(* and crashes.                                                             *)
StartsFromCommitted ==
    \A c \in Cursors : cur[c].pc \in {"locked", "gc"} =>
        \A k \in Keys : Lookup(txns[active_txn], k) = Lookup(txns[read_txn], k)

(* update() never takes a cursor back to an older transaction. *)
ViewsMoveForward ==
    [][\A c \in Cursors : cur[c].txn # 0 /\ cur'[c].txn # 0
                            => cur'[c].txn >= cur[c].txn]_vars

(* Refinement: the maps read through the pages behave like SnapshotStore. *)
MapOf(t) == [k \in Keys |-> Lookup(txns[t], k)]
View(c)  == IF cur[c].ref > cur[c].txn THEN cur[c].ref ELSE cur[c].txn
Draft    == IF Prepared THEN prepared_txn
            ELSE IF active_txn # read_txn THEN active_txn ELSE 0

Abs == INSTANCE SnapshotStore WITH
    NoMap     <- NoMap,
    committed <- MapOf(read_txn),
    draft     <- IF Draft = 0 THEN NoMap ELSE MapOf(Draft),
    ready     <- Prepared,
    snapshot  <- [c \in Cursors |-> IF View(c) = 0 THEN NoMap ELSE MapOf(View(c))]

(* Every cursor keeps reading the map it pinned, commits are atomic, and    *)
(* crashes lose only what was not prepared.                                 *)
ImplementsSnapshots == Abs!Spec
=============================================================================
