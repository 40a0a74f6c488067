----------------------------- MODULE MemManager -----------------------------
(***************************************************************************)
(* memory/_memory.hpp: _PageContainer, _GarbageSlot and _MemManager, with  *)
(* the calls _DB makes around them: the walk of start_transaction() that   *)
(* frees unused transaction pages, clone() in prepare_commit(), rollback().*)
(*                                                                         *)
(* Freed pages of a class wait in a queue of containers, pages themselves, *)
(* that are allocated and freed by the same manager.  Every transaction    *)
(* has its own ends of the queues; the containers are shared with the      *)
(* transactions before it and are written in place, so a rollback takes    *)
(* back the ends but not what was written into the containers.             *)
(*                                                                         *)
(* Abstractions.  Three classes: "c", that of the containers, "t", that of *)
(* the transaction pages, and "d", one of the others; data may be in all.  *)
(* Pages have one size and areas are endless, so the left-over and the     *)
(* area of a manager are one bump pointer.  Page 0 is the null offset.     *)
(***************************************************************************)
EXTENDS Naturals, Sequences, FiniteSets, SequencesExt

CONSTANTS COUNT,       \* blocks of a container, 340 in the program
          MaxTxn,      \* bound: highest transaction id
          MaxPage,     \* bound: highest page number
          MaxData,     \* bound: data pages of a transaction
          MaxOps,      \* bound: data operations of a transaction
          DataClasses, \* classes the application allocates from
          Cases        \* which of the following the run includes

(* "walk":   the walk of start_transaction() recycles a page that it would  *)
(*           not recycle with the _start_txn_id it computes                 *)
(* "stale":  rollback() of a transaction that has linked a new container    *)
(*           to one of a committed queue                                    *)
(* "nested": push() to a full queue of containers whose front container     *)
(*           has one block left                                             *)
AllCases == {"walk", "stale", "nested"}

ASSUME MemAssumption ==
    /\ COUNT \in Nat /\ COUNT >= 2
    /\ MaxTxn \in Nat /\ MaxPage \in Nat /\ MaxData \in Nat /\ MaxOps \in Nat
    /\ DataClasses \subseteq {"c", "t", "d"}
    /\ Cases \subseteq AllCases

VARIABLES
    box,       \* content of the pages: containers
    cls,       \* slot_id in the page headers
    written,   \* the transaction that last allocated each page (ghost)
    chain,     \* the committed transactions, oldest first, newest last
    next_page, \* next_txn_page
    open,      \* a write transaction is open
    act,       \* the open transaction: its page, manager, data pages, and
               \* how many of chain it has freed
    start      \* _start_txn_id

vars  == <<box, cls, written, chain, next_page, open, act, start>>

Class == {"c", "t", "d"}
Spare == 4                         \* pages one operation may add beyond MaxPage
Page  == 0 .. MaxPage + Spare
Tid   == 0 .. MaxTxn + 1

NoBlocks == [i \in 0 .. COUNT - 1 |-> [link |-> 0, tid |-> 0]]
NoBox    == [next |-> 0, blocks |-> NoBlocks]
NoSlot   == [ostart |-> 0, oend |-> 0, count |-> 0, istart |-> 0, iend |-> 0]

Slot    == [ostart : Page, oend : Page, count : 0 .. MaxPage + Spare,
            istart : 0 .. COUNT, iend : 0 .. COUNT]
Manager == [slots : [Class -> Slot], bump : 1 .. MaxPage + Spare]

Last1 == chain[Len(chain)]         \* read_txn
ActiveId == Last1.id + 1

-----------------------------------------------------------------------------
(* The manager as operators.  m holds a manager, the shared pages, and the *)
(* two ids an operation depends on: now, the transaction, and start.       *)
Mem(mgr, at) == [slots |-> mgr.slots, bump |-> mgr.bump, box |-> box, cls |-> cls,
                 written |-> written, now |-> ActiveId, start |-> at]
Mgr(m) == [slots |-> m.slots, bump |-> m.bump]

RECURSIVE Pop(_, _), Push(_, _), Alloc(_, _)

(* A page in hand: slot_id is set; the ghost notes who took it. *)
Take(m, p, s) == [m EXCEPT !.cls[p] = s, !.written[p] = m.now]

(* pop(): nothing if the front may not be recycled.  The last block of a    *)
(* container takes the container with it, unless that would be a circle.    *)
HeadBlock(m, s) == m.box[m.slots[s].ostart].blocks[m.slots[s].istart]
MayRecycle_Always(m, s) == m.slots[s].count > 0
MayRecycle(m, s) == m.slots[s].count > 0 /\ HeadBlock(m, s).tid < m.start
Circle(m, s) == m.cls[HeadBlock(m, s).link] = "c" /\ m.slots[s].count = 1

Emptied_SkipBlock(slot, next) ==
    [ostart |-> next, istart |-> 1, count |-> slot.count - 1,
     oend |-> IF next = 0 THEN 0 ELSE slot.oend,
     iend |-> IF next = 0 THEN 0 ELSE slot.iend]
Emptied_KeepStart(slot, next) == [slot EXCEPT !.istart = 0, !.count = @ - 1]
Emptied(slot, next) ==
    [ostart |-> next, istart |-> 0, count |-> slot.count - 1,
     oend |-> IF next = 0 THEN 0 ELSE slot.oend,
     iend |-> IF next = 0 THEN 0 ELSE slot.iend]

Pop(m, s) ==
    LET slot  == m.slots[s]
        front == slot.ostart
        page  == HeadBlock(m, s).link
    IN IF ~MayRecycle(m, s) THEN [m |-> m, page |-> 0]
       ELSE IF slot.istart + 1 < COUNT
       THEN [m |-> [m EXCEPT !.slots[s].istart = @ + 1, !.slots[s].count = @ - 1],
             page |-> page]
       ELSE IF Circle(m, s) THEN [m |-> m, page |-> 0]
       ELSE [m |-> Push([m EXCEPT !.slots[s] = Emptied(slot, m.box[front].next)], front),
             page |-> page]

(* alloc(): recycle, else bump. *)
Alloc(m, s) ==
    LET r == Pop(m, s)
    IN IF r.page # 0 THEN [m |-> Take(r.m, r.page, s), page |-> r.page]
       ELSE [m |-> Take([m EXCEPT !.bump = @ + 1], m.bump, s), page |-> m.bump]

(* push(): a block at the end, in a new container if the last is full.  The *)
(* end of the queue is read before the container is allocated, and linked   *)
(* after.                                                                   *)
Linked(m, s, back, new) ==
    [m EXCEPT !.box = [@ EXCEPT ![new].next = 0, ![back].next = new],
              !.slots[s].oend = new, !.slots[s].iend = 0]
First(m, s, new) ==
    [m EXCEPT !.box[new].next = 0, !.slots[s].ostart = new, !.slots[s].oend = new]

WithEnd(m, s) ==
    LET slot == m.slots[s]
    IN IF slot.oend = 0
       THEN LET r == Alloc(m, "c") IN First(r.m, s, r.page)
       ELSE IF slot.iend >= COUNT
       THEN LET r == Alloc(m, "c") IN Linked(r.m, s, slot.oend, r.page)
       ELSE m

Push(m, p) ==
    LET s == m.cls[p]
        e == WithEnd(m, s)
        t == e.slots[s]
    IN [e EXCEPT !.box[t.oend].blocks[t.iend] = [link |-> p, tid |-> m.now],
                 !.slots[s].iend = @ + 1, !.slots[s].count = @ + 1]

Store(m) ==
    /\ box' = m.box /\ cls' = m.cls /\ written' = m.written
    /\ m.bump <= MaxPage + 1           \* bound

-----------------------------------------------------------------------------
(* init(): transaction 1 on page 1, its successor on page 2. *)
Init ==
    /\ box = [p \in Page |-> NoBox]
    /\ cls = [p \in Page |-> "t"]
    /\ written = [p \in Page |-> 0]
    /\ chain = << [id |-> 1, page |-> 1, data |-> {}, refs |-> FALSE,
                   mgr |-> [slots |-> [s \in Class |-> NoSlot], bump |-> 3]] >>
    /\ next_page = 2
    /\ open = FALSE
    /\ act = << >>
    /\ start = 0

(* A cursor pins the committed transaction, or lets go of one. *)
Pin ==
    /\ ~Last1.refs
    /\ chain' = [chain EXCEPT ![Len(chain)].refs = TRUE]
    /\ UNCHANGED <<box, cls, written, next_page, open, act, start>>

Unpin(i) ==
    /\ chain[i].refs
    /\ chain' = [chain EXCEPT ![i].refs = FALSE]
    /\ UNCHANGED <<box, cls, written, next_page, open, act, start>>

(* start_transaction(): the walk frees the transactions before the first    *)
(* one in use with _start_txn_id still that of the committed transaction.   *)
InUse == {i \in DOMAIN chain : chain[i].refs \/ i = Len(chain)}
Oldest == CHOOSE i \in InUse : \A j \in InUse : i <= j

Walked(at) == FoldLeft(Push, Mem(Last1.mgr, at), [i \in 1 .. Oldest - 1 |-> chain[i].page])
Early == Mgr(Walked(Last1.id)) # Mgr(Walked(chain[Oldest].id))

StartTransaction ==
    /\ ~open
    /\ Last1.id < MaxTxn
    /\ "walk" \in Cases \/ ~Early
    /\ LET m == Walked(Last1.id)
       IN /\ act' = [page |-> next_page, mgr |-> Mgr(m), data |-> Last1.data,
                     freed |-> Oldest - 1, ops |-> 0]
          /\ Store(m)
    /\ start' = chain[Oldest].id
    /\ open' = TRUE
    /\ next_page' = 0
    /\ UNCHANGED chain

(* A data page: its content is the application's. *)
AllocData(s) ==
    /\ open
    /\ act.ops < MaxOps /\ Cardinality(act.data) < MaxData
    /\ LET r == Alloc(Mem(act.mgr, start), s)
       IN /\ Store([r.m EXCEPT !.box[r.page] = NoBox])
          /\ act' = [act EXCEPT !.mgr = Mgr(r.m), !.data = @ \cup {r.page}, !.ops = @ + 1]
    /\ UNCHANGED <<chain, next_page, open, start>>

Nested(s) ==
    LET slot == act.mgr.slots[s]
    IN /\ s = "c" /\ slot.iend = COUNT /\ slot.istart = COUNT - 1
       /\ slot.ostart # slot.oend /\ MayRecycle(Mem(act.mgr, start), s)

FreeData(p) ==
    /\ open
    /\ act.ops < MaxOps /\ p \in act.data
    /\ "nested" \in Cases \/ ~Nested(cls[p])
    /\ LET m == Push(Mem(act.mgr, start), p)
       IN /\ Store(m)
          /\ act' = [act EXCEPT !.mgr = Mgr(m), !.data = @ \ {p}, !.ops = @ + 1]
    /\ UNCHANGED <<chain, next_page, open, start>>

(* prepare_commit() and commit(): the successor's page is allocated by the  *)
(* transaction itself.                                                      *)
Commit ==
    /\ open
    /\ LET r == Alloc(Mem(act.mgr, start), "t")
       IN /\ Store(r.m)
          /\ next_page' = r.page
          /\ chain' = Append(SubSeq(chain, act.freed + 1, Len(chain)),
                             [id |-> ActiveId, page |-> act.page, data |-> act.data,
                              refs |-> FALSE, mgr |-> Mgr(r.m)])
    /\ open' = FALSE /\ act' = << >>
    /\ UNCHANGED start

(* rollback(): the committed manager is back, the containers keep what was  *)
(* written to them.                                                         *)
StaleLink == \E s \in Class : LET e == Last1.mgr.slots[s].oend IN e # 0 /\ box[e].next # 0

Rollback ==
    /\ open
    /\ "stale" \in Cases \/ ~StaleLink
    /\ next_page' = act.page
    /\ open' = FALSE /\ act' = << >>
    /\ UNCHANGED <<box, cls, written, chain, start>>

Next ==
    \/ Pin \/ (\E i \in DOMAIN chain : Unpin(i))
    \/ StartTransaction
    \/ (\E s \in DataClasses : AllocData(s))
    \/ (\E p \in Page : FreeData(p))
    \/ Commit \/ Rollback

Spec == Init /\ [][Next]_vars

-----------------------------------------------------------------------------
(* Properties *)

(* The containers of a queue from its start to its end, as iter() walks. *)
RECURSIVE Walk(_, _, _)
Walk(from, to, fuel) ==
    IF from = 0 \/ fuel = 0 THEN << >>
    ELSE IF from = to THEN <<from>>
    ELSE <<from>> \o Walk(box[from].next, to, fuel - 1)

Containers(slot) == IF slot.oend = 0 THEN << >> ELSE Walk(slot.ostart, slot.oend, MaxPage)
Entries(slot) ==
    LET cs == Containers(slot)
        part(i) == LET lo == IF i = 1 THEN slot.istart ELSE 0
                       hi == IF i = Len(cs) THEN slot.iend ELSE COUNT
                   IN [j \in 1 .. IF hi > lo THEN hi - lo ELSE 0 |->
                          box[cs[i]].blocks[lo + j - 1].link]
    IN FlattenSeq([i \in 1 .. Len(cs) |-> part(i)])

(* The manager in force, and every page with the uses it has. *)
Current == IF open THEN act.mgr ELSE Last1.mgr
TxnPages == [i \in 1 .. Len(chain) - (IF open THEN act.freed ELSE 0) |->
                chain[i + (IF open THEN act.freed ELSE 0)].page]
            \o << IF open THEN act.page ELSE next_page >>
Data == IF open THEN act.data ELSE Last1.data
Uses == TxnPages \o SetToSeq(Data)
        \o FlattenSeq([i \in 1 .. 3 |-> LET slot == Current.slots[<<"c", "t", "d">>[i]]
                                        IN Containers(slot) \o Entries(slot)])

(* Containers, managers and transactions stay in their types: pop() and     *)
(* push() keep both indices of a container within its blocks.               *)
TypeOK ==
    /\ box \in [Page -> [next : Page, blocks : [0 .. COUNT - 1 -> [link : Page, tid : Tid]]]]
    /\ cls \in [Page -> Class] /\ written \in [Page -> Tid]
    /\ \A i \in DOMAIN chain : chain[i].mgr \in Manager
    /\ next_page \in Page /\ open \in BOOLEAN /\ start \in Tid
    /\ open => act.mgr \in Manager

(* No page has two uses: data, transaction page, container or waiting in a  *)
(* queue.                                                                   *)
OneUse == IsInjective(Uses)

(* No page is lost: everything below the bump pointer has a use.  The count *)
(* of a queue is the number of its entries.                                 *)
NoLeak ==
    /\ ToSet(Uses) = 1 .. Current.bump - 1
    /\ \A s \in Class : Len(Entries(Current.slots[s])) = Current.slots[s].count

(* "no reader can observe a page being reused while it still holds valid    *)
(* data": no page of a transaction in use has been allocated since.         *)
SnapshotsIntact ==
    \A i \in DOMAIN chain : (chain[i].refs \/ i = Len(chain)) =>
        \A p \in chain[i].data : written[p] <= chain[i].id
=============================================================================
