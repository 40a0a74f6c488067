--------------------------- MODULE ConfluenceWrites ---------------------------
(***************************************************************************)
(* Confluence: who owns a slot, where a committed write is, what a cursor  *)
(* reads and what the destructor of the database leaves, for every number  *)
(* of cursors, slots and events.  All of it rests on a slot not being      *)
(* pinned, looked at and recycled in separate steps: NoCorners leaves      *)
(* those schedules out, which the code does not exclude and the model can  *)
(* take one by one.                                                        *)
(***************************************************************************)
EXTENDS ConfluenceProofs

NoCorners == Corners \cap {"unpin_window", "late_pin", "reclaim_pinned"} = {}

(* Nobody is between looking at a slot and acting on it. *)
NoWindow  == /\ \A p \in Procs : peek[p] = 0 /\ fix[p] = 0
             /\ \A c \in Cursors : pc[c] # "pin"
(* The parts of OneOwner. *)
OwnOnce   == \A c, d \in Cursors : own[c] # 0 /\ own[c] = own[d] => c = d
TxnWrites == \A c \in Cursors : in[c] => own[c] # 0 /\ st[own[c]] \in {"FIRST_WRITING", "WRITING"}
Written   == \A s \in Slots : st[s] \in {"FIRST_WRITING", "WRITING"} => \E c \in Cursors : in[c] /\ own[c] = s
EmptyFree == \A s \in Slots : st[s] = "EMPTY" => refs[s] = 0 /\ trie[s] = {}
(* The slot that is being merged, and the one whose first commit is about   *)
(* to be made known.                                                        *)
MergeHas  == job = "merging" => st[Slot1] = "MERGING"
BumpHas   == \A c \in Cursors :
                pc[c] \in {"bump", "bump_full"} => st[own[c]] \in {"ATTACHED", "MERGING", "MERGED"}
OwnerInv  == NoWindow /\ OwnOnce /\ TxnWrites /\ Written /\ EmptyFree /\ MergeHas /\ BumpHas

(* Where the writes are.                                                    *)
MergedIn  == \A s \in Slots : st[s] = "MERGED" => trie[s] \subseteq main
FreshIs   == \A s \in Slots : st[s] \in {"EMPTY", "FIRST_WRITING"} => trie[s] = {}
OwnWrites == \A c \in Cursors : own[c] # 0 => \A w \in trie[own[c]] : w[1] = c
Kept      == \A w \in acked : w \in main \/ \E s \in Slots : st[s] \in Readable /\ w \in trie[s]
DataInv   == MergedIn /\ FreshIs /\ OwnWrites /\ Kept

USE ConfluenceAssumption DEF Slots, Procs, slotVars, curVars, pinVars, jobVars, dbVars,
    CallVars, Goto, Event, Settled, CursorPoints, States, Job

(* A set with a member has at least one. *)
LEMMA Counted == ASSUME NEW S, IsFiniteSet(S), NEW x \in S PROVE Cardinality(S) >= 1
<1>1. Cardinality(S) \in Nat /\ Cardinality(S) # 0
  BY FS_EmptySet, FS_CardinalityType
<1> QED
  BY <1>1

(* A slot whose refs is 0 is nobody's. *)
LEMMA Unheld ==
    ASSUME PinsExact, NEW s \in Slots, refs[s] = 0
    PROVE  /\ \A c \in Cursors : own[c] # s /\ s \notin src[c]
           /\ \A p \in Procs : s \notin drop[p]
           /\ ~(job = "merging" /\ s = Slot1)
<1>1. Cardinality(Owners(s)) + Cardinality(Readers(s)) + Cardinality(Givers(s)) + Merges(s) = 0
  BY PinsHeld DEF Held
<1>2. /\ Cardinality(Owners(s)) = 0 /\ Cardinality(Readers(s)) = 0
      /\ Cardinality(Givers(s)) = 0 /\ Merges(s) = 0
  BY <1>1, HoldersCount
<1>3. IsFiniteSet(Owners(s)) /\ IsFiniteSet(Readers(s)) /\ IsFiniteSet(Givers(s))
  BY Finite, FS_Subset DEF Owners, Readers, Givers
<1>4. Owners(s) = {} /\ Readers(s) = {} /\ Givers(s) = {}
  BY <1>2, <1>3, FS_EmptySet
<1> QED
  BY <1>2, <1>4 DEF Owners, Readers, Givers, Merges

(* A slot that p gives back and whose refs is 1 is nobody else's: so        *)
(* reset_in_place() does not throw when _unpin_slot() recycles it.          *)
LEMMA LastPin ==
    ASSUME PinsExact, NEW s \in Slots, NEW p \in Procs, s \in drop[p]
    PROVE  /\ refs[s] >= 1
           /\ refs[s] = 1 => /\ \A c \in Cursors : own[c] # s /\ s \notin src[c]
                             /\ ~(job = "merging" /\ s = Slot1)
<1>1. refs[s] = Cardinality(Owners(s)) + Cardinality(Readers(s)) + Cardinality(Givers(s)) + Merges(s)
  BY PinsHeld DEF Held
<1>2. IsFiniteSet(Owners(s)) /\ IsFiniteSet(Readers(s)) /\ IsFiniteSet(Givers(s))
  BY Finite, FS_Subset DEF Owners, Readers, Givers
<1>3. p \in Givers(s)
  BY DEF Givers
<1>4. Cardinality(Givers(s)) >= 1
  BY <1>2, <1>3, Counted
<1>5. refs[s] >= 1
  BY <1>1, <1>4, HoldersCount
<1>6. ASSUME refs[s] = 1
      PROVE  \A c \in Cursors : own[c] # s /\ s \notin src[c]
  <2>1. Cardinality(Owners(s)) = 0 /\ Cardinality(Readers(s)) = 0
    BY <1>1, <1>4, <1>6, HoldersCount
  <2>2. Owners(s) = {} /\ Readers(s) = {}
    BY <1>2, <2>1, FS_EmptySet
  <2> QED
    BY <2>2 DEF Owners, Readers
<1>7. ASSUME refs[s] = 1
      PROVE  ~(job = "merging" /\ s = Slot1)
  <2>1. Merges(s) = 0
    BY <1>1, <1>4, <1>7, HoldersCount
  <2> QED
    BY <2>1 DEF Merges
<1> QED
  BY <1>5, <1>6, <1>7

(* A slot that a cursor owns or reads has a pin. *)
LEMMA HeldPinned ==
    ASSUME TypeInv, PinsExact, NEW c \in Cursors, NEW s \in Slots, own[c] = s \/ s \in src[c]
    PROVE  refs[s] # 0
BY Unheld

(* What the type invariant says of the variables below: no more is needed   *)
(* of it, but for the places.                                               *)
LEMMA Kinds ==
    TypeInv =>
        /\ st \in [Slots -> States] /\ refs \in [Slots -> Int] /\ DOMAIN trie = Slots
        /\ own \in [Cursors -> Nat] /\ in \in [Cursors -> BOOLEAN] /\ pc \in [Cursors -> CursorPoints]
        /\ \A c \in Cursors : own[c] # 0 => own[c] \in Slots
        /\ job = "merging" => Slot1 \in Slots /\ Slot1 \in list
<1> SUFFICES ASSUME TypeInv
             PROVE  /\ st \in [Slots -> States] /\ refs \in [Slots -> Int] /\ DOMAIN trie = Slots
                    /\ own \in [Cursors -> Nat] /\ in \in [Cursors -> BOOLEAN] /\ pc \in [Cursors -> CursorPoints]
                    /\ \A c \in Cursors : own[c] # 0 => own[c] \in Slots
                    /\ job = "merging" => Slot1 \in Slots /\ Slot1 \in list
  OBVIOUS
<1>1. st \in [Slots -> States] /\ refs \in [Slots -> Int] /\ DOMAIN trie = Slots
  BY DEF TypeInv, SlotTypes
<1>2. own \in [Cursors -> Nat] /\ in \in [Cursors -> BOOLEAN] /\ pc \in [Cursors -> CursorPoints]
  BY DEF TypeInv, CursorTypes
<1>3. \A c \in Cursors : own[c] # 0 => own[c] \in Slots
  BY DEF TypeInv, CountInv, CursorTypes
<1>4. job = "merging" => Slot1 \in Slots /\ Slot1 \in list
  BY SlotMin DEF Slot1, TypeInv, JobTypes
<1> QED
  BY <1>1, <1>2, <1>3, <1>4

(* _unpin_slot() keeps the types: it gives back, looks or recycles. *)
LEMMA UnpinOwner ==
    ASSUME NoCorners, TypeInv, PinsExact, OwnerInv, NEW p \in Procs, Unpin(p)
    PROVE  OwnerInv'
<1> DEFINE t == Min(drop[p])
<1>a. drop[p] # {} /\ t \in drop[p] /\ t \in Slots /\ GiveBack(p, t)
  <2>1. drop[p] # {} /\ GiveBack(p, t)
    BY DEF Unpin, OwnerInv, NoWindow
  <2> QED
    BY <2>1, SlotMin DEF TypeInv, PinTypes
<1> HIDE DEF t
<1>b. refs[t] >= 1 /\ (refs[t] = 1 => ~InUse(t) /\ ~(job = "merging" /\ t = Slot1))
  BY <1>a, LastPin DEF InUse
<1>d. /\ refs' = [refs EXCEPT ![t] = @ - 1]
      /\ \/ UNCHANGED <<st, trie>> /\ (refs[t] = 1 => st[t] # "MERGED")
         \/ /\ refs[t] = 1 /\ st[t] = "MERGED"
            /\ st' = [st EXCEPT ![t] = "EMPTY"] /\ trie' = [trie EXCEPT ![t] = {}]
  BY <1>a, <1>b DEF GiveBack, Recycle, NoCorners
<1>e. UNCHANGED <<own, in, pc, job, list, peek, fix>>
  BY <1>a DEF Unpin, GiveBack, NoCorners, OwnerInv, NoWindow
<1>1. NoWindow'
  BY <1>a, <1>b, <1>d, <1>e, Kinds DEF InUse, OwnerInv, NoWindow, EmptyFree
<1>2. TxnWrites'
  BY <1>a, <1>b, <1>d, <1>e, Kinds DEF InUse, OwnerInv, TxnWrites, EmptyFree
<1>3. Written'
  BY <1>a, <1>b, <1>d, <1>e, Kinds DEF InUse, OwnerInv, Written, EmptyFree
<1>4. EmptyFree'
  BY <1>a, <1>b, <1>d, <1>e, Kinds DEF InUse, OwnerInv, EmptyFree
<1>5. MergeHas'
  BY <1>a, <1>b, <1>d, <1>e, Kinds DEF InUse, OwnerInv, MergeHas, EmptyFree, Slot1
<1>6. BumpHas'
  BY <1>a, <1>b, <1>d, <1>e, Kinds DEF InUse, OwnerInv, BumpHas, TypeInv, PlaceInv
<1> QED
  BY <1>1, <1>2, <1>3, <1>4, <1>5, <1>6 DEF Unpin, Recycle, GiveBack, OwnerInv, OwnOnce

(* The cursor counts up _merge_signal. *)
LEMMA CursorSignalOwner ==
    ASSUME NoCorners, TypeInv, PinsExact, OwnerInv, NEW c \in Cursors, CursorSignal(c)
    PROVE  OwnerInv'
<1>1. NoWindow'
  BY Kinds DEF CursorSignal, Signal, OwnerInv, NoWindow
<1>2. BumpHas'
  BY Kinds DEF CursorSignal, Signal, OwnerInv, BumpHas
<1> QED
  BY <1>1, <1>2 DEF CursorSignal, Signal, OwnerInv, OwnOnce, TxnWrites, Written,
     EmptyFree, MergeHas, Slot1

(* The cursor schedules the merge task. *)
LEMMA CursorScheduleOwner ==
    ASSUME NoCorners, TypeInv, PinsExact, OwnerInv, NEW c \in Cursors, CursorSchedule(c)
    PROVE  OwnerInv'
<1>a. then[c] \in {"ready", "claim", "closed"}
  BY DEF TypeInv, CursorTypes
<1>1. NoWindow'
  BY <1>a, Kinds DEF CursorSchedule, ScheduleTask, OwnerInv, NoWindow, OwnOnce,
     TxnWrites, Written, EmptyFree, MergeHas, BumpHas, TypeInv, PlaceInv
<1>2. MergeHas'
  BY <1>a, Kinds DEF CursorSchedule, ScheduleTask, OwnerInv, MergeHas, Slot1
<1>3. BumpHas'
  BY <1>a, Kinds DEF CursorSchedule, ScheduleTask, OwnerInv, BumpHas, NoWindow, OwnOnce,
     TxnWrites, Written, EmptyFree, MergeHas, TypeInv, PlaceInv
<1> QED
  BY <1>1, <1>2, <1>3 DEF CursorSchedule, ScheduleTask, OwnerInv, OwnOnce, TxnWrites,
     Written, EmptyFree

(* _try_claim(): an empty slot that is published. *)
LEMMA TryClaimOwner ==
    ASSUME NoCorners, TypeInv, PinsExact, OwnerInv, NEW c \in Cursors, TryClaim(c)
    PROVE  OwnerInv'
<1>a. PICK t \in Slots : st[t] = "EMPTY" /\ Claimed(c, t)
  BY DEF TryClaim, TypeInv, CountInv
<1>b. refs[t] = 0 /\ \A d \in Cursors : own[d] # t
  <2>1. refs[t] = 0
    BY <1>a DEF OwnerInv, EmptyFree
  <2> QED
    BY <2>1, Unheld
<1>d. /\ st' = [st EXCEPT ![t] = "FIRST_WRITING"] /\ own' = [own EXCEPT ![c] = t]
      /\ refs' = [refs EXCEPT ![t] = @ + 1] /\ in' = [in EXCEPT ![c] = TRUE]
      /\ pc' = [pc EXCEPT ![c] = "ready"] /\ UNCHANGED <<trie, peek, fix, job, list>>
  BY <1>a DEF Claimed
<1>e. own[c] = 0
  BY DEF TryClaim, TypeInv, PlaceInv
<1>1. NoWindow'
  BY <1>a, <1>b, <1>d, Kinds DEF OwnerInv, NoWindow
<1>2. OwnOnce'
  BY <1>a, <1>b, <1>d, Kinds DEF OwnerInv, OwnOnce
<1>3. TxnWrites'
  BY <1>a, <1>b, <1>d, Kinds DEF OwnerInv, TxnWrites
<1>4. Written'
  <2> SUFFICES ASSUME NEW s \in Slots, st'[s] \in {"FIRST_WRITING", "WRITING"}
               PROVE  \E d \in Cursors : in'[d] /\ own'[d] = s
    BY DEF Written
  <2>1. CASE s = t
    BY <1>d, <2>1, Kinds
  <2>2. CASE s # t
    <3>1. PICK d \in Cursors : in[d] /\ own[d] = s
      BY <1>d, <2>2, Kinds DEF OwnerInv, Written
    <3> QED
      BY <1>d, <1>e, <3>1, Kinds
  <2> QED
    BY <2>1, <2>2
<1>5. EmptyFree'
  BY <1>a, <1>b, <1>d, Kinds DEF OwnerInv, EmptyFree
<1>6. MergeHas'
  BY <1>a, <1>b, <1>d, Kinds DEF OwnerInv, MergeHas, Slot1
<1>7. BumpHas'
  BY <1>a, <1>b, <1>d, Kinds DEF OwnerInv, BumpHas
<1> QED
  BY <1>1, <1>2, <1>3, <1>4, <1>5, <1>6, <1>7 DEF OwnerInv

(* _alloc_new_slot() publishes one slot more. *)
LEMMA AllocNewSlotOwner ==
    ASSUME NoCorners, TypeInv, PinsExact, OwnerInv, NEW c \in Cursors, AllocNewSlot(c)
    PROVE  OwnerInv'
<1>a. PICK t \in Slots : st[t] = "EMPTY" /\ Claimed(c, t)
  <2>1. count + 1 \in Slots /\ Claimed(c, count + 1)
    BY DEF AllocNewSlot, TypeInv, CountInv
  <2>2. st[count + 1] = "EMPTY"
    BY <2>1 DEF TypeInv, CountInv, SlotTypes
  <2> QED
    BY <2>1, <2>2
<1>b. refs[t] = 0 /\ \A d \in Cursors : own[d] # t
  <2>1. refs[t] = 0
    BY <1>a DEF OwnerInv, EmptyFree
  <2> QED
    BY <2>1, Unheld
<1>d. /\ st' = [st EXCEPT ![t] = "FIRST_WRITING"] /\ own' = [own EXCEPT ![c] = t]
      /\ refs' = [refs EXCEPT ![t] = @ + 1] /\ in' = [in EXCEPT ![c] = TRUE]
      /\ pc' = [pc EXCEPT ![c] = "ready"] /\ UNCHANGED <<trie, peek, fix, job, list>>
  BY <1>a DEF Claimed
<1>e. own[c] = 0
  BY DEF AllocNewSlot, TypeInv, PlaceInv
<1>1. NoWindow'
  BY <1>a, <1>b, <1>d, Kinds DEF OwnerInv, NoWindow
<1>2. OwnOnce'
  BY <1>a, <1>b, <1>d, Kinds DEF OwnerInv, OwnOnce
<1>3. TxnWrites'
  BY <1>a, <1>b, <1>d, Kinds DEF OwnerInv, TxnWrites
<1>4. Written'
  <2> SUFFICES ASSUME NEW s \in Slots, st'[s] \in {"FIRST_WRITING", "WRITING"}
               PROVE  \E d \in Cursors : in'[d] /\ own'[d] = s
    BY DEF Written
  <2>1. CASE s = t
    BY <1>d, <2>1, Kinds
  <2>2. CASE s # t
    <3>1. PICK d \in Cursors : in[d] /\ own[d] = s
      BY <1>d, <2>2, Kinds DEF OwnerInv, Written
    <3> QED
      BY <1>d, <1>e, <3>1, Kinds
  <2> QED
    BY <2>1, <2>2
<1>5. EmptyFree'
  BY <1>a, <1>b, <1>d, Kinds DEF OwnerInv, EmptyFree
<1>6. MergeHas'
  BY <1>a, <1>b, <1>d, Kinds DEF OwnerInv, MergeHas, Slot1
<1>7. BumpHas'
  BY <1>a, <1>b, <1>d, Kinds DEF OwnerInv, BumpHas
<1> QED
  BY <1>1, <1>2, <1>3, <1>4, <1>5, <1>6, <1>7 DEF OwnerInv

(* All slots are taken: the sources go to drop. *)
LEMMA AtCapOwner ==
    ASSUME NoCorners, TypeInv, PinsExact, OwnerInv, NEW c \in Cursors, AtCap(c)
    PROVE  OwnerInv'
<1>1. NoWindow'
  BY Kinds DEF AtCap, OwnerInv, NoWindow
<1>2. BumpHas'
  BY Kinds DEF AtCap, OwnerInv, BumpHas
<1> QED
  BY <1>1, <1>2 DEF AtCap, OwnerInv, OwnOnce, TxnWrites, Written, EmptyFree, MergeHas,
     Slot1

(* commit() after the epoch: the slot goes to drop or stays. *)
LEMMA CommitBumpOwner ==
    ASSUME NoCorners, TypeInv, PinsExact, OwnerInv, NEW c \in Cursors, CommitBump(c)
    PROVE  OwnerInv'
<1>a. own[c] \in Slots /\ refs[own[c]] # 0
  <2>1. own[c] \in Slots
    BY DEF CommitBump, TypeInv, CountInv, CursorTypes, PlaceInv
  <2> QED
    BY <2>1, HeldPinned
<1>1. NoWindow'
  BY <1>a, Kinds DEF CommitBump, BumpEpoch, EndCommit, OwnerInv, NoWindow
<1>2. OwnOnce'
  BY <1>a, Kinds DEF CommitBump, BumpEpoch, EndCommit, OwnerInv, OwnOnce
<1>3. TxnWrites'
  BY <1>a, Kinds DEF CommitBump, BumpEpoch, EndCommit, OwnerInv, TxnWrites, TypeInv,
     PlaceInv
<1>4. Written'
  BY <1>a, Kinds DEF CommitBump, BumpEpoch, EndCommit, OwnerInv, Written, NoWindow,
     OwnOnce, TxnWrites, EmptyFree, MergeHas, BumpHas, TypeInv, PlaceInv
<1>5. BumpHas'
  BY <1>a, Kinds DEF CommitBump, BumpEpoch, EndCommit, OwnerInv, BumpHas
<1> QED
  BY <1>1, <1>2, <1>3, <1>4, <1>5 DEF CommitBump, BumpEpoch, EndCommit, OwnerInv,
     EmptyFree, MergeHas, Slot1

(* fill_sources_lockfree(): the next slot, which is above all the sources. *)
LEMMA ScanOwner ==
    ASSUME NoCorners, TypeInv, PinsExact, OwnerInv, NEW c \in Cursors, Scan(c)
    PROVE  OwnerInv'
<1>a. at[c] \in Slots
  BY DEF Scan, TypeInv, CountInv, CursorTypes, PlaceInv
<1>1. NoWindow'
  BY <1>a, Kinds DEF Scan, PinSource, OwnerInv, NoWindow, NoCorners, Readable
<1>2. EmptyFree'
  BY <1>a, Kinds DEF Scan, PinSource, OwnerInv, EmptyFree, NoCorners, Readable,
     NoWindow, OwnOnce, TxnWrites, Written, MergeHas, BumpHas, TypeInv, PlaceInv
<1>3. BumpHas'
  BY <1>a, Kinds DEF Scan, PinSource, OwnerInv, BumpHas, NoCorners, Readable
<1> QED
  BY <1>1, <1>2, <1>3 DEF Scan, PinSource, OwnerInv, OwnOnce, TxnWrites, Written,
     MergeHas, Slot1

(* The snapshot of the main database ends the look for sources. *)
LEMMA TakeMainOwner ==
    ASSUME NoCorners, TypeInv, PinsExact, OwnerInv, NEW c \in Cursors, TakeMain(c)
    PROVE  OwnerInv'
<1>1. NoWindow'
  BY Kinds DEF TakeMain, OwnerInv, NoWindow
<1>2. BumpHas'
  BY Kinds DEF TakeMain, OwnerInv, BumpHas
<1> QED
  BY <1>1, <1>2 DEF TakeMain, OwnerInv, OwnOnce, TxnWrites, Written, EmptyFree,
     MergeHas, Slot1

(* _release_write_source() looks at the state or lets go of the slot. *)
LEMMA DetachOwner ==
    ASSUME NoCorners, TypeInv, PinsExact, OwnerInv, NEW c \in Cursors, Detach(c)
    PROVE  OwnerInv'
<1>a. own[c] \in Slots /\ refs[own[c]] # 0
  <2>1. own[c] \in Slots
    BY DEF Detach, TypeInv, CountInv, CursorTypes, PlaceInv
  <2> QED
    BY <2>1, HeldPinned
<1>1. NoWindow'
  BY <1>a, Kinds DEF Detach, GiveUp, OwnerInv, NoWindow
<1>2. OwnOnce'
  BY <1>a, Kinds DEF Detach, GiveUp, OwnerInv, OwnOnce
<1>3. TxnWrites'
  BY <1>a, Kinds DEF Detach, GiveUp, OwnerInv, TxnWrites, NoWindow, OwnOnce, Written,
     EmptyFree, MergeHas, BumpHas, TypeInv, PlaceInv
<1>4. Written'
  BY <1>a, Kinds DEF Detach, GiveUp, OwnerInv, Written, NoWindow, OwnOnce, TxnWrites,
     EmptyFree, MergeHas, BumpHas, TypeInv, PlaceInv
<1>5. EmptyFree'
  BY <1>a, Kinds DEF Detach, GiveUp, OwnerInv, EmptyFree
<1>6. MergeHas'
  BY <1>a, Kinds DEF Detach, GiveUp, OwnerInv, MergeHas, Slot1
<1>7. BumpHas'
  BY <1>a, Kinds DEF Detach, GiveUp, OwnerInv, BumpHas, TypeInv, PlaceInv
<1> QED
  BY <1>1, <1>2, <1>3, <1>4, <1>5, <1>6, <1>7 DEF OwnerInv

(* start_transaction() in the slot of the last transaction. *)
LEMMA StartAttachedOwner ==
    ASSUME NoCorners, TypeInv, PinsExact, OwnerInv, NEW c \in Cursors, StartAttached(c)
    PROVE  OwnerInv'
<1>a. own[c] \in Slots /\ refs[own[c]] # 0
  <2>1. own[c] \in Slots
    BY DEF StartAttached, TypeInv, CountInv, CursorTypes
  <2> QED
    BY <2>1, HeldPinned
<1>1. NoWindow'
  BY <1>a, Kinds DEF StartAttached, Begins, OwnerInv, NoWindow
<1>2. OwnOnce'
  BY <1>a, Kinds DEF StartAttached, Begins, OwnerInv, OwnOnce
<1>3. TxnWrites'
  BY <1>a, Kinds DEF StartAttached, Begins, OwnerInv, TxnWrites
<1>4. Written'
  BY <1>a, Kinds DEF StartAttached, Begins, OwnerInv, Written
<1>5. EmptyFree'
  BY <1>a, Kinds DEF StartAttached, Begins, OwnerInv, EmptyFree
<1>6. MergeHas'
  BY <1>a, Kinds DEF StartAttached, Begins, OwnerInv, MergeHas, Slot1
<1>7. BumpHas'
  BY <1>a, Kinds DEF StartAttached, Begins, OwnerInv, BumpHas, OwnOnce, TxnWrites,
     Written, NoWindow
<1> QED
  BY <1>1, <1>2, <1>3, <1>4, <1>5, <1>6, <1>7 DEF OwnerInv

(* start_transaction() with a merged slot made new in place. *)
LEMMA StartReclaimOwner ==
    ASSUME NoCorners, TypeInv, PinsExact, OwnerInv, NEW c \in Cursors, StartReclaim(c)
    PROVE  OwnerInv'
<1>a. own[c] \in Slots /\ refs[own[c]] # 0
  <2>1. own[c] \in Slots
    BY DEF StartReclaim, TypeInv, CountInv, CursorTypes
  <2> QED
    BY <2>1, HeldPinned
<1>1. NoWindow'
  BY <1>a, Kinds DEF StartReclaim, Begins, OwnerInv, NoWindow, NoCorners
<1>2. OwnOnce'
  BY <1>a, Kinds DEF StartReclaim, Begins, OwnerInv, OwnOnce, NoCorners
<1>3. TxnWrites'
  BY <1>a, Kinds DEF StartReclaim, Begins, OwnerInv, TxnWrites, NoCorners
<1>4. Written'
  BY <1>a, Kinds DEF StartReclaim, Begins, OwnerInv, Written, NoCorners
<1>5. EmptyFree'
  BY <1>a, Kinds DEF StartReclaim, Begins, OwnerInv, EmptyFree, NoCorners
<1>6. MergeHas'
  BY <1>a, Kinds DEF StartReclaim, Begins, OwnerInv, MergeHas, NoCorners, Slot1
<1>7. BumpHas'
  BY <1>a, Kinds DEF StartReclaim, Begins, OwnerInv, BumpHas, NoCorners, OwnOnce,
     TxnWrites, Written, NoWindow
<1> QED
  BY <1>1, <1>2, <1>3, <1>4, <1>5, <1>6, <1>7 DEF OwnerInv

(* start_transaction() that has to claim another slot. *)
LEMMA StartElseOwner ==
    ASSUME NoCorners, TypeInv, PinsExact, OwnerInv, NEW c \in Cursors, StartElse(c)
    PROVE  OwnerInv'
<1>1. NoWindow'
  BY Kinds DEF StartElse, Begins, OwnerInv, NoWindow
<1>2. OwnOnce'
  BY Kinds DEF StartElse, Begins, OwnerInv, OwnOnce
<1>3. TxnWrites'
  BY Kinds DEF StartElse, Begins, OwnerInv, TxnWrites
<1>4. Written'
  BY Kinds DEF StartElse, Begins, OwnerInv, Written
<1>5. BumpHas'
  BY Kinds DEF StartElse, Begins, OwnerInv, BumpHas
<1> QED
  BY <1>1, <1>2, <1>3, <1>4, <1>5 DEF StartElse, Begins, OwnerInv, EmptyFree, MergeHas,
     Slot1

(* commit() of the tributary and W1. *)
LEMMA CommitOwner ==
    ASSUME NoCorners, TypeInv, PinsExact, OwnerInv, NEW c \in Cursors, NEW full \in BOOLEAN, Commit(c, full)
    PROVE  OwnerInv'
<1>a. own[c] \in Slots /\ refs[own[c]] # 0
  <2>1. own[c] \in Slots
    BY DEF Commit, TypeInv, CountInv, CursorTypes, PlaceInv
  <2> QED
    BY <2>1, HeldPinned
<1>1. NoWindow'
  BY <1>a, Kinds DEF Commit, EndCommit, OwnerInv, NoWindow
<1>2. OwnOnce'
  BY <1>a, Kinds DEF Commit, EndCommit, OwnerInv, OwnOnce
<1>3. TxnWrites'
  BY <1>a, Kinds DEF Commit, EndCommit, OwnerInv, TxnWrites, OwnOnce, Written, NoWindow
<1>4. Written'
  BY <1>a, Kinds DEF Commit, EndCommit, OwnerInv, Written
<1>5. EmptyFree'
  BY <1>a, Kinds DEF Commit, EndCommit, OwnerInv, EmptyFree
<1>6. MergeHas'
  BY <1>a, Kinds DEF Commit, EndCommit, OwnerInv, MergeHas, Slot1, OwnOnce, TxnWrites,
     Written, NoWindow
<1>7. BumpHas'
  BY <1>a, Kinds DEF Commit, EndCommit, OwnerInv, BumpHas
<1> QED
  BY <1>1, <1>2, <1>3, <1>4, <1>5, <1>6, <1>7 DEF OwnerInv

(* rollback() attaches the slot or hands it over. *)
LEMMA RollbackOwner ==
    ASSUME NoCorners, TypeInv, PinsExact, OwnerInv, NEW c \in Cursors, Rollback(c)
    PROVE  OwnerInv'
<1>a. own[c] \in Slots /\ refs[own[c]] # 0
  <2>1. own[c] \in Slots
    BY DEF Rollback, TypeInv, CountInv, CursorTypes, PlaceInv
  <2> QED
    BY <2>1, HeldPinned
<1>1. NoWindow'
  BY <1>a, Kinds DEF Rollback, EndCommit, OwnerInv, NoWindow
<1>2. OwnOnce'
  BY <1>a, Kinds DEF Rollback, EndCommit, OwnerInv, OwnOnce
<1>3. TxnWrites'
  BY <1>a, Kinds DEF Rollback, EndCommit, OwnerInv, TxnWrites, OwnOnce, Written,
     NoWindow
<1>4. Written'
  BY <1>a, Kinds DEF Rollback, EndCommit, OwnerInv, Written
<1>5. EmptyFree'
  BY <1>a, Kinds DEF Rollback, EndCommit, OwnerInv, EmptyFree
<1>6. MergeHas'
  BY <1>a, Kinds DEF Rollback, EndCommit, OwnerInv, MergeHas, Slot1
<1>7. BumpHas'
  BY <1>a, Kinds DEF Rollback, EndCommit, OwnerInv, BumpHas
<1> QED
  BY <1>1, <1>2, <1>3, <1>4, <1>5, <1>6, <1>7 DEF OwnerInv

(* _ensure_sources() begins: the old sources go to drop. *)
LEMMA RebuildOwner ==
    ASSUME NoCorners, TypeInv, PinsExact, OwnerInv, NEW c \in Cursors, Rebuild(c)
    PROVE  OwnerInv'
<1>1. NoWindow'
  BY Kinds DEF Rebuild, OwnerInv, NoWindow
<1>2. BumpHas'
  BY Kinds DEF Rebuild, OwnerInv, BumpHas
<1> QED
  BY <1>1, <1>2 DEF Rebuild, OwnerInv, OwnOnce, TxnWrites, Written, EmptyFree, MergeHas,
     Slot1

(* The destructor of a cursor begins: the sources go to drop. *)
LEMMA CloseCursorOwner ==
    ASSUME NoCorners, TypeInv, PinsExact, OwnerInv, NEW c \in Cursors, CloseCursor(c)
    PROVE  OwnerInv'
<1>1. NoWindow'
  BY Kinds DEF CloseCursor, OwnerInv, NoWindow
<1>2. BumpHas'
  BY Kinds DEF CloseCursor, OwnerInv, BumpHas
<1> QED
  BY <1>1, <1>2 DEF CloseCursor, OwnerInv, OwnOnce, TxnWrites, Written, EmptyFree,
     MergeHas, Slot1

(* merge_tributary() takes the first slot of the list or passes it. *)
LEMMA TakeSlotOwner ==
    ASSUME NoCorners, TypeInv, PinsExact, OwnerInv, TakeSlot
    PROVE  OwnerInv'
<1>a. Slot1 \in list /\ Slot1 \in Slots
  BY SlotMin DEF TakeSlot, Slot1, TypeInv, JobTypes
<1>1. NoWindow'
  BY <1>a, Kinds DEF TakeSlot, OwnerInv, NoWindow
<1>2. TxnWrites'
  BY <1>a, Kinds DEF TakeSlot, OwnerInv, TxnWrites
<1>3. Written'
  BY <1>a, Kinds DEF TakeSlot, OwnerInv, Written
<1>4. EmptyFree'
  BY <1>a, Kinds DEF TakeSlot, OwnerInv, EmptyFree
<1>5. MergeHas'
  BY <1>a, Kinds DEF TakeSlot, OwnerInv, MergeHas, Slot1
<1>6. BumpHas'
  BY <1>a, Kinds DEF TakeSlot, OwnerInv, BumpHas, TypeInv, PlaceInv
<1> QED
  BY <1>1, <1>2, <1>3, <1>4, <1>5, <1>6 DEF TakeSlot, OwnerInv, OwnOnce

(* _do_merge(): the slot is merged and its pin goes to drop. *)
LEMMA DoMergeOwner ==
    ASSUME NoCorners, TypeInv, PinsExact, OwnerInv, DoMerge
    PROVE  OwnerInv'
<1>a. Slot1 \in list /\ Slot1 \in Slots
  BY SlotMin DEF DoMerge, Slot1, TypeInv, JobTypes
<1>1. NoWindow'
  BY <1>a, Kinds DEF DoMerge, BumpEpoch, OwnerInv, NoWindow
<1>2. TxnWrites'
  BY <1>a, Kinds DEF DoMerge, BumpEpoch, OwnerInv, TxnWrites, NoWindow, OwnOnce,
     Written, EmptyFree, MergeHas, BumpHas, TypeInv, PlaceInv
<1>3. Written'
  BY <1>a, Kinds DEF DoMerge, BumpEpoch, OwnerInv, Written
<1>4. EmptyFree'
  BY <1>a, Kinds DEF DoMerge, BumpEpoch, OwnerInv, EmptyFree
<1>5. MergeHas'
  BY <1>a, Kinds DEF DoMerge, BumpEpoch, OwnerInv, MergeHas, Slot1
<1>6. BumpHas'
  BY <1>a, Kinds DEF DoMerge, BumpEpoch, OwnerInv, BumpHas
<1> QED
  BY <1>1, <1>2, <1>3, <1>4, <1>5, <1>6 DEF DoMerge, BumpEpoch, OwnerInv, OwnOnce

(* _do_merge() throws: the slot is attached again. *)
LEMMA MergeFailsOwner ==
    ASSUME NoCorners, TypeInv, PinsExact, OwnerInv, MergeFails
    PROVE  OwnerInv'
<1>a. Slot1 \in list /\ Slot1 \in Slots
  BY SlotMin DEF MergeFails, Slot1, TypeInv, JobTypes
<1>1. NoWindow'
  BY <1>a, Kinds DEF MergeFails, OwnerInv, NoWindow
<1>2. TxnWrites'
  BY <1>a, Kinds DEF MergeFails, OwnerInv, TxnWrites, NoWindow, OwnOnce, Written,
     EmptyFree, MergeHas, BumpHas, TypeInv, PlaceInv
<1>3. Written'
  BY <1>a, Kinds DEF MergeFails, OwnerInv, Written
<1>4. EmptyFree'
  BY <1>a, Kinds DEF MergeFails, OwnerInv, EmptyFree
<1>5. MergeHas'
  BY <1>a, Kinds DEF MergeFails, OwnerInv, MergeHas, Slot1
<1>6. BumpHas'
  BY <1>a, Kinds DEF MergeFails, OwnerInv, BumpHas
<1> QED
  BY <1>1, <1>2, <1>3, <1>4, <1>5, <1>6 DEF MergeFails, OwnerInv, OwnOnce

(* The end of a pass after which another one follows. *)
LEMMA PassEndOwner ==
    ASSUME NoCorners, TypeInv, PinsExact, OwnerInv, PassEnd
    PROVE  OwnerInv'
<1>1. NoWindow'
  BY Kinds DEF PassEnd, OwnerInv, NoWindow
<1>2. MergeHas'
  BY Kinds DEF PassEnd, OwnerInv, MergeHas, Slot1
<1> QED
  BY <1>1, <1>2 DEF PassEnd, OwnerInv, OwnOnce, TxnWrites, Written, EmptyFree, BumpHas

(* J1: the task lets go of _merge_task_active. *)
LEMMA ReleaseOwner ==
    ASSUME NoCorners, TypeInv, PinsExact, OwnerInv, Release
    PROVE  OwnerInv'
<1>1. NoWindow'
  BY Kinds DEF Release, OwnerInv, NoWindow
<1>2. MergeHas'
  BY Kinds DEF Release, OwnerInv, MergeHas, Slot1
<1> QED
  BY <1>1, <1>2 DEF Release, OwnerInv, OwnOnce, TxnWrites, Written, EmptyFree, BumpHas

(* J2: the task looks at the signal and the slots again. *)
LEMMA RecheckOwner ==
    ASSUME NoCorners, TypeInv, PinsExact, OwnerInv, Recheck
    PROVE  OwnerInv'
BY DEF Recheck, OwnerInv, NoWindow, OwnOnce, TxnWrites, Written, EmptyFree, MergeHas,
   BumpHas, Slot1

(* The task that was signalled on its way out schedules another. *)
LEMMA RegateOwner ==
    ASSUME NoCorners, TypeInv, PinsExact, OwnerInv, Regate
    PROVE  OwnerInv'
<1>1. NoWindow'
  BY Kinds DEF Regate, ScheduleTask, OwnerInv, NoWindow
<1>2. MergeHas'
  BY Kinds DEF Regate, ScheduleTask, OwnerInv, MergeHas, Slot1
<1> QED
  BY <1>1, <1>2 DEF Regate, ScheduleTask, OwnerInv, OwnOnce, TxnWrites, Written,
     EmptyFree, BumpHas

(* _run_age_sweep() signals and schedules. *)
LEMMA SweepFiresOwner ==
    ASSUME NoCorners, TypeInv, PinsExact, OwnerInv, SweepFires
    PROVE  OwnerInv'
<1>1. NoWindow'
  BY Kinds DEF SweepFires, Signal, ScheduleTask, OwnerInv, NoWindow
<1>2. MergeHas'
  BY Kinds DEF SweepFires, Signal, ScheduleTask, OwnerInv, MergeHas, Slot1
<1> QED
  BY <1>1, <1>2 DEF SweepFires, Signal, ScheduleTask, OwnerInv, OwnOnce, TxnWrites,
     Written, EmptyFree, BumpHas

(* _request_drain_and_wait() counts up the signal. *)
LEMMA DrainSignalOwner ==
    ASSUME NoCorners, TypeInv, PinsExact, OwnerInv, DrainSignal
    PROVE  OwnerInv'
BY DEF DrainSignal, Signal, OwnerInv, NoWindow, OwnOnce, TxnWrites, Written, EmptyFree,
   MergeHas, BumpHas, Slot1

(* _request_drain_and_wait() schedules the task. *)
LEMMA DrainScheduleOwner ==
    ASSUME NoCorners, TypeInv, PinsExact, OwnerInv, DrainSchedule
    PROVE  OwnerInv'
<1>1. NoWindow'
  BY Kinds DEF DrainSchedule, ScheduleTask, OwnerInv, NoWindow
<1>2. MergeHas'
  BY Kinds DEF DrainSchedule, ScheduleTask, OwnerInv, MergeHas, Slot1
<1> QED
  BY <1>1, <1>2 DEF DrainSchedule, ScheduleTask, OwnerInv, OwnOnce, TxnWrites, Written,
     EmptyFree, BumpHas

(* The destructor of the database asks for a drain of all slots. *)
LEMMA ShutdownOwner ==
    ASSUME NoCorners, TypeInv, PinsExact, OwnerInv, Shutdown
    PROVE  OwnerInv'
BY DEF Shutdown, Request, OwnerInv, NoWindow, OwnOnce, TxnWrites, Written, EmptyFree,
   MergeHas, BumpHas, Slot1

(* The caller of a drain wakes up. *)
LEMMA AwakeOwner ==
    ASSUME NoCorners, TypeInv, PinsExact, OwnerInv, Awake
    PROVE  OwnerInv'
BY DEF Awake, OwnerInv, NoWindow, OwnOnce, TxnWrites, Written, EmptyFree, MergeHas,
   BumpHas, Slot1

(* The destructor has seen the task out. *)
LEMMA DestroyedOwner ==
    ASSUME NoCorners, TypeInv, PinsExact, OwnerInv, Destroyed
    PROVE  OwnerInv'
BY DEF Destroyed, OwnerInv, NoWindow, OwnOnce, TxnWrites, Written, EmptyFree, MergeHas,
   BumpHas, Slot1

(* The process dies and the database is opened again. *)
LEMMA CrashOwner ==
    ASSUME NoCorners, TypeInv, PinsExact, OwnerInv, Crash
    PROVE  OwnerInv'
<1>1. NoWindow'
  BY Kinds DEF Crash, OwnerInv, NoWindow
<1>2. OwnOnce'
  BY Kinds DEF Crash, OwnerInv, OwnOnce
<1>3. TxnWrites'
  BY Kinds DEF Crash, OwnerInv, TxnWrites
<1>4. Written'
  BY Kinds DEF Crash, OwnerInv, Written
<1>5. EmptyFree'
  BY Kinds DEF Crash, OwnerInv, EmptyFree
<1>6. MergeHas'
  BY Kinds DEF Crash, OwnerInv, MergeHas, Slot1
<1>7. BumpHas'
  BY Kinds DEF Crash, OwnerInv, BumpHas
<1> QED
  BY <1>1, <1>2, <1>3, <1>4, <1>5, <1>6, <1>7 DEF OwnerInv

(* Nothing happens after the destructor. *)
LEMMA FinishedOwner ==
    ASSUME NoCorners, TypeInv, PinsExact, OwnerInv, Finished
    PROVE  OwnerInv'
BY DEF Finished, vars, OwnerInv, NoWindow, OwnOnce, TxnWrites, Written, EmptyFree,
   MergeHas, BumpHas, Slot1

(* _collect_and_merge_locked() picks published slots. *)
LEMMA CollectOwner ==
    ASSUME NoCorners, TypeInv, PinsExact, OwnerInv, NEW old, Collect(old)
    PROVE  OwnerInv'
<1>1. NoWindow'
  BY Kinds DEF Collect, OwnerInv, NoWindow
<1>2. MergeHas'
  BY Kinds DEF Collect, OwnerInv, MergeHas, Slot1
<1> QED
  BY <1>1, <1>2 DEF Collect, OwnerInv, OwnOnce, TxnWrites, Written, EmptyFree, BumpHas

(* merge_now() or merge_all_now() asks for a drain. *)
LEMMA MergeNowOwner ==
    ASSUME NoCorners, TypeInv, PinsExact, OwnerInv, NEW all \in BOOLEAN, MergeNow(all)
    PROVE  OwnerInv'
BY DEF MergeNow, Request, OwnerInv, NoWindow, OwnOnce, TxnWrites, Written, EmptyFree,
   MergeHas, BumpHas, Slot1

(* Every step keeps OwnerInv. *)
LEMMA OwnerStep == NoCorners /\ TypeInv /\ PinsExact /\ OwnerInv /\ [Next]_vars => OwnerInv'
<1> SUFFICES ASSUME NoCorners, TypeInv, PinsExact, OwnerInv, [Next]_vars PROVE OwnerInv'
  OBVIOUS
<1>1. ASSUME NEW p \in Procs, Unpin(p) PROVE OwnerInv'
  BY <1>1, UnpinOwner
<1>2. ASSUME NEW c \in Cursors, CursorSignal(c) PROVE OwnerInv'
  BY <1>2, CursorSignalOwner
<1>3. ASSUME NEW c \in Cursors, CursorSchedule(c) PROVE OwnerInv'
  BY <1>3, CursorScheduleOwner
<1>4. ASSUME NEW c \in Cursors, TryClaim(c) PROVE OwnerInv'
  BY <1>4, TryClaimOwner
<1>5. ASSUME NEW c \in Cursors, AllocNewSlot(c) PROVE OwnerInv'
  BY <1>5, AllocNewSlotOwner
<1>6. ASSUME NEW c \in Cursors, AtCap(c) PROVE OwnerInv'
  BY <1>6, AtCapOwner
<1>7. ASSUME NEW c \in Cursors, CommitBump(c) PROVE OwnerInv'
  BY <1>7, CommitBumpOwner
<1>8. ASSUME NEW c \in Cursors, Scan(c) PROVE OwnerInv'
  BY <1>8, ScanOwner
<1>9. ASSUME NEW c \in Cursors, TakeMain(c) PROVE OwnerInv'
  BY <1>9, TakeMainOwner
<1>10. ASSUME NEW c \in Cursors, Detach(c) PROVE OwnerInv'
  BY <1>10, DetachOwner
<1>11. ASSUME NEW c \in Cursors, StartAttached(c) PROVE OwnerInv'
  BY <1>11, StartAttachedOwner
<1>12. ASSUME NEW c \in Cursors, StartReclaim(c) PROVE OwnerInv'
  BY <1>12, StartReclaimOwner
<1>13. ASSUME NEW c \in Cursors, StartElse(c) PROVE OwnerInv'
  BY <1>13, StartElseOwner
<1>14. ASSUME NEW c \in Cursors, NEW full \in BOOLEAN, Commit(c, full) PROVE OwnerInv'
  BY <1>14, CommitOwner
<1>15. ASSUME NEW c \in Cursors, Rollback(c) PROVE OwnerInv'
  BY <1>15, RollbackOwner
<1>16. ASSUME NEW c \in Cursors, Rebuild(c) PROVE OwnerInv'
  BY <1>16, RebuildOwner
<1>17. ASSUME NEW c \in Cursors, CloseCursor(c) PROVE OwnerInv'
  BY <1>17, CloseCursorOwner
<1>18. ASSUME TakeSlot PROVE OwnerInv'
  BY <1>18, TakeSlotOwner
<1>19. ASSUME DoMerge PROVE OwnerInv'
  BY <1>19, DoMergeOwner
<1>20. ASSUME MergeFails PROVE OwnerInv'
  BY <1>20, MergeFailsOwner
<1>21. ASSUME PassEnd PROVE OwnerInv'
  BY <1>21, PassEndOwner
<1>22. ASSUME Release PROVE OwnerInv'
  BY <1>22, ReleaseOwner
<1>23. ASSUME Recheck PROVE OwnerInv'
  BY <1>23, RecheckOwner
<1>24. ASSUME Regate PROVE OwnerInv'
  BY <1>24, RegateOwner
<1>25. ASSUME SweepFires PROVE OwnerInv'
  BY <1>25, SweepFiresOwner
<1>26. ASSUME DrainSignal PROVE OwnerInv'
  BY <1>26, DrainSignalOwner
<1>27. ASSUME DrainSchedule PROVE OwnerInv'
  BY <1>27, DrainScheduleOwner
<1>28. ASSUME Shutdown PROVE OwnerInv'
  BY <1>28, ShutdownOwner
<1>29. ASSUME Awake PROVE OwnerInv'
  BY <1>29, AwakeOwner
<1>30. ASSUME Destroyed PROVE OwnerInv'
  BY <1>30, DestroyedOwner
<1>31. ASSUME Crash PROVE OwnerInv'
  BY <1>31, CrashOwner
<1>32. ASSUME Finished PROVE OwnerInv'
  BY <1>32, FinishedOwner
<1>33. ASSUME NEW old, Collect(old) PROVE OwnerInv'
  BY <1>33, CollectOwner
<1>34. ASSUME NEW all \in BOOLEAN, MergeNow(all) PROVE OwnerInv'
  BY <1>34, MergeNowOwner
<1>35. CASE UNCHANGED vars
  BY <1>35 DEF vars, OwnerInv, NoWindow, OwnOnce, TxnWrites, Written, EmptyFree,
     MergeHas, BumpHas, Slot1
<1> QED
  BY <1>1, <1>2, <1>3, <1>4, <1>5, <1>6, <1>7, <1>8, <1>9, <1>10, <1>11, <1>12, <1>13,
     <1>14, <1>15, <1>16, <1>17, <1>18, <1>19, <1>20, <1>21, <1>22, <1>23, <1>24, <1>25,
     <1>26, <1>27, <1>28, <1>29, <1>30, <1>31, <1>32, <1>33, <1>34, <1>35
     DEF Next, CursorStep, Call, JobStep, LeaveStep, DrainStep, Procs

(* _unpin_slot() keeps the types: it gives back, looks or recycles. *)
LEMMA UnpinData ==
    ASSUME NoCorners, TypeInv, PinsExact, OwnerInv, DataInv, NEW p \in Procs, Unpin(p)
    PROVE  DataInv'
<1> DEFINE t == Min(drop[p])
<1>a. drop[p] # {} /\ t \in drop[p] /\ t \in Slots /\ GiveBack(p, t)
  <2>1. drop[p] # {} /\ GiveBack(p, t)
    BY DEF Unpin, OwnerInv, NoWindow
  <2> QED
    BY <2>1, SlotMin DEF TypeInv, PinTypes
<1> HIDE DEF t
<1>b. refs[t] >= 1 /\ (refs[t] = 1 => ~InUse(t) /\ ~(job = "merging" /\ t = Slot1))
  BY <1>a, LastPin DEF InUse
<1>d. /\ refs' = [refs EXCEPT ![t] = @ - 1]
      /\ \/ UNCHANGED <<st, trie>> /\ (refs[t] = 1 => st[t] # "MERGED")
         \/ /\ refs[t] = 1 /\ st[t] = "MERGED"
            /\ st' = [st EXCEPT ![t] = "EMPTY"] /\ trie' = [trie EXCEPT ![t] = {}]
  BY <1>a, <1>b DEF GiveBack, Recycle, NoCorners
<1>e. UNCHANGED <<own, main, acked>>
  BY DEF Unpin
<1>1. MergedIn'
  BY <1>a, <1>b, <1>d, <1>e, Kinds DEF InUse, DataInv, MergedIn
<1>2. FreshIs'
  BY <1>a, <1>b, <1>d, <1>e, Kinds DEF InUse, DataInv, FreshIs
<1>3. OwnWrites'
  BY <1>a, <1>b, <1>d, <1>e, Kinds DEF InUse, DataInv, OwnWrites
<1>4. Kept'
  BY <1>a, <1>b, <1>d, <1>e, Kinds DEF InUse, DataInv, Kept, Readable
<1> QED
  BY <1>1, <1>2, <1>3, <1>4 DEF DataInv

(* The cursor counts up _merge_signal. *)
LEMMA CursorSignalData ==
    ASSUME NoCorners, TypeInv, PinsExact, OwnerInv, DataInv, NEW c \in Cursors, CursorSignal(c)
    PROVE  DataInv'
BY DEF CursorSignal, Signal, DataInv, MergedIn, FreshIs, OwnWrites, Kept

(* The cursor schedules the merge task. *)
LEMMA CursorScheduleData ==
    ASSUME NoCorners, TypeInv, PinsExact, OwnerInv, DataInv, NEW c \in Cursors, CursorSchedule(c)
    PROVE  DataInv'
BY DEF CursorSchedule, ScheduleTask, DataInv, MergedIn, FreshIs, OwnWrites, Kept

(* _try_claim(): an empty slot that is published. *)
LEMMA TryClaimData ==
    ASSUME NoCorners, TypeInv, PinsExact, OwnerInv, DataInv, NEW c \in Cursors, TryClaim(c)
    PROVE  DataInv'
<1>a. PICK t \in Slots : st[t] = "EMPTY" /\ Claimed(c, t)
  BY DEF TryClaim, TypeInv, CountInv
<1>b. refs[t] = 0 /\ \A d \in Cursors : own[d] # t
  <2>1. refs[t] = 0
    BY <1>a DEF OwnerInv, EmptyFree
  <2> QED
    BY <2>1, Unheld
<1>e. trie[t] = {}
  BY <1>a DEF OwnerInv, EmptyFree
<1>d. /\ st' = [st EXCEPT ![t] = "FIRST_WRITING"] /\ own' = [own EXCEPT ![c] = t]
      /\ refs' = [refs EXCEPT ![t] = @ + 1] /\ in' = [in EXCEPT ![c] = TRUE]
      /\ UNCHANGED <<trie, main, acked>>
  BY <1>a DEF Claimed
<1>1. MergedIn'
  BY <1>a, <1>b, <1>d, <1>e, Kinds DEF DataInv, MergedIn
<1>2. FreshIs'
  BY <1>a, <1>b, <1>d, <1>e, Kinds DEF DataInv, FreshIs
<1>3. OwnWrites'
  BY <1>a, <1>b, <1>d, <1>e, Kinds DEF DataInv, OwnWrites
<1>4. Kept'
  BY <1>a, <1>b, <1>d, <1>e, Kinds DEF DataInv, Kept, Readable
<1> QED
  BY <1>1, <1>2, <1>3, <1>4 DEF DataInv

(* _alloc_new_slot() publishes one slot more. *)
LEMMA AllocNewSlotData ==
    ASSUME NoCorners, TypeInv, PinsExact, OwnerInv, DataInv, NEW c \in Cursors, AllocNewSlot(c)
    PROVE  DataInv'
<1>a. PICK t \in Slots : st[t] = "EMPTY" /\ Claimed(c, t)
  <2>1. count + 1 \in Slots /\ Claimed(c, count + 1)
    BY DEF AllocNewSlot, TypeInv, CountInv
  <2>2. st[count + 1] = "EMPTY"
    BY <2>1 DEF TypeInv, CountInv, SlotTypes
  <2> QED
    BY <2>1, <2>2
<1>b. refs[t] = 0 /\ \A d \in Cursors : own[d] # t
  <2>1. refs[t] = 0
    BY <1>a DEF OwnerInv, EmptyFree
  <2> QED
    BY <2>1, Unheld
<1>e. trie[t] = {}
  BY <1>a DEF OwnerInv, EmptyFree
<1>d. /\ st' = [st EXCEPT ![t] = "FIRST_WRITING"] /\ own' = [own EXCEPT ![c] = t]
      /\ refs' = [refs EXCEPT ![t] = @ + 1] /\ in' = [in EXCEPT ![c] = TRUE]
      /\ UNCHANGED <<trie, main, acked>>
  BY <1>a DEF Claimed
<1>1. MergedIn'
  BY <1>a, <1>b, <1>d, <1>e, Kinds DEF DataInv, MergedIn
<1>2. FreshIs'
  BY <1>a, <1>b, <1>d, <1>e, Kinds DEF DataInv, FreshIs
<1>3. OwnWrites'
  BY <1>a, <1>b, <1>d, <1>e, Kinds DEF DataInv, OwnWrites
<1>4. Kept'
  BY <1>a, <1>b, <1>d, <1>e, Kinds DEF DataInv, Kept, Readable
<1> QED
  BY <1>1, <1>2, <1>3, <1>4 DEF DataInv

(* All slots are taken: the sources go to drop. *)
LEMMA AtCapData ==
    ASSUME NoCorners, TypeInv, PinsExact, OwnerInv, DataInv, NEW c \in Cursors, AtCap(c)
    PROVE  DataInv'
BY DEF AtCap, DataInv, MergedIn, FreshIs, OwnWrites, Kept

(* commit() after the epoch: the slot goes to drop or stays. *)
LEMMA CommitBumpData ==
    ASSUME NoCorners, TypeInv, PinsExact, OwnerInv, DataInv, NEW c \in Cursors, CommitBump(c)
    PROVE  DataInv'
<1>a. own[c] \in Slots /\ refs[own[c]] # 0
  <2>1. own[c] \in Slots
    BY DEF CommitBump, TypeInv, CountInv, CursorTypes, PlaceInv
  <2> QED
    BY <2>1, HeldPinned
<1>b. st[own[c]] \in {"ATTACHED", "MERGING", "MERGED"}
  BY DEF CommitBump, OwnerInv, BumpHas
<1>1. OwnWrites'
  BY <1>a, <1>b, Kinds DEF CommitBump, BumpEpoch, EndCommit, DataInv, OwnWrites
<1>2. Kept'
  BY <1>a, <1>b, Kinds DEF CommitBump, BumpEpoch, EndCommit, DataInv, Kept, Readable,
     MergedIn, FreshIs, OwnerInv, OwnOnce
<1> QED
  BY <1>1, <1>2 DEF CommitBump, BumpEpoch, EndCommit, DataInv, MergedIn, FreshIs

(* fill_sources_lockfree(): the next slot, which is above all the sources. *)
LEMMA ScanData ==
    ASSUME NoCorners, TypeInv, PinsExact, OwnerInv, DataInv, NEW c \in Cursors, Scan(c)
    PROVE  DataInv'
BY DEF Scan, PinSource, DataInv, MergedIn, FreshIs, OwnWrites, Kept

(* The snapshot of the main database ends the look for sources. *)
LEMMA TakeMainData ==
    ASSUME NoCorners, TypeInv, PinsExact, OwnerInv, DataInv, NEW c \in Cursors, TakeMain(c)
    PROVE  DataInv'
BY DEF TakeMain, DataInv, MergedIn, FreshIs, OwnWrites, Kept

(* _release_write_source() looks at the state or lets go of the slot. *)
LEMMA DetachData ==
    ASSUME NoCorners, TypeInv, PinsExact, OwnerInv, DataInv, NEW c \in Cursors, Detach(c)
    PROVE  DataInv'
<1>a. own[c] \in Slots /\ refs[own[c]] # 0
  <2>1. own[c] \in Slots
    BY DEF Detach, TypeInv, CountInv, CursorTypes, PlaceInv
  <2> QED
    BY <2>1, HeldPinned
<1>1. MergedIn'
  BY <1>a, Kinds DEF Detach, GiveUp, DataInv, MergedIn
<1>2. FreshIs'
  BY <1>a, Kinds DEF Detach, GiveUp, DataInv, FreshIs
<1>3. OwnWrites'
  BY <1>a, Kinds DEF Detach, GiveUp, DataInv, OwnWrites
<1>4. Kept'
  BY <1>a, Kinds DEF Detach, GiveUp, DataInv, Kept, Readable
<1> QED
  BY <1>1, <1>2, <1>3, <1>4 DEF DataInv

(* start_transaction() in the slot of the last transaction. *)
LEMMA StartAttachedData ==
    ASSUME NoCorners, TypeInv, PinsExact, OwnerInv, DataInv, NEW c \in Cursors, StartAttached(c)
    PROVE  DataInv'
<1>a. own[c] \in Slots /\ refs[own[c]] # 0
  <2>1. own[c] \in Slots
    BY DEF StartAttached, TypeInv, CountInv, CursorTypes
  <2> QED
    BY <2>1, HeldPinned
<1>1. MergedIn'
  BY <1>a, Kinds DEF StartAttached, Begins, DataInv, MergedIn
<1>2. FreshIs'
  BY <1>a, Kinds DEF StartAttached, Begins, DataInv, FreshIs
<1>3. OwnWrites'
  BY <1>a, Kinds DEF StartAttached, Begins, DataInv, OwnWrites
<1>4. Kept'
  BY <1>a, Kinds DEF StartAttached, Begins, DataInv, Kept, Readable
<1> QED
  BY <1>1, <1>2, <1>3, <1>4 DEF DataInv

(* start_transaction() with a merged slot made new in place. *)
LEMMA StartReclaimData ==
    ASSUME NoCorners, TypeInv, PinsExact, OwnerInv, DataInv, NEW c \in Cursors, StartReclaim(c)
    PROVE  DataInv'
<1>a. own[c] \in Slots /\ refs[own[c]] # 0
  <2>1. own[c] \in Slots
    BY DEF StartReclaim, TypeInv, CountInv, CursorTypes
  <2> QED
    BY <2>1, HeldPinned
<1>1. MergedIn'
  BY <1>a, Kinds DEF StartReclaim, Begins, DataInv, MergedIn, NoCorners
<1>2. FreshIs'
  BY <1>a, Kinds DEF StartReclaim, Begins, DataInv, FreshIs, NoCorners
<1>3. OwnWrites'
  BY <1>a, Kinds DEF StartReclaim, Begins, DataInv, OwnWrites, NoCorners
<1>4. Kept'
  BY <1>a, Kinds DEF StartReclaim, Begins, DataInv, Kept, NoCorners, Readable
<1> QED
  BY <1>1, <1>2, <1>3, <1>4 DEF DataInv

(* start_transaction() that has to claim another slot. *)
LEMMA StartElseData ==
    ASSUME NoCorners, TypeInv, PinsExact, OwnerInv, DataInv, NEW c \in Cursors, StartElse(c)
    PROVE  DataInv'
<1>1. OwnWrites'
  BY Kinds DEF StartElse, Begins, DataInv, OwnWrites
<1> QED
  BY <1>1 DEF StartElse, Begins, DataInv, MergedIn, FreshIs, Kept

(* commit() of the tributary and W1. *)
LEMMA CommitData ==
    ASSUME NoCorners, TypeInv, PinsExact, OwnerInv, DataInv, NEW c \in Cursors, NEW full \in BOOLEAN, Commit(c, full)
    PROVE  DataInv'
<1>a. own[c] \in Slots /\ refs[own[c]] # 0
  <2>1. own[c] \in Slots
    BY DEF Commit, TypeInv, CountInv, CursorTypes, PlaceInv
  <2> QED
    BY <2>1, HeldPinned
<1>b. NextWrite(c)[1] = c
  BY DEF NextWrite
<1>d. st[own[c]] \in {"FIRST_WRITING", "WRITING"} /\ \A d \in Cursors : own[d] = own[c] => d = c
  BY <1>a DEF Commit, OwnerInv, TxnWrites, OwnOnce
<1>1. MergedIn'
  BY <1>a, <1>b, <1>d, Kinds DEF Commit, EndCommit, DataInv, MergedIn
<1>2. FreshIs'
  BY <1>a, <1>b, <1>d, Kinds DEF Commit, EndCommit, DataInv, FreshIs
<1>3. OwnWrites'
  BY <1>a, <1>b, <1>d, Kinds DEF Commit, EndCommit, DataInv, OwnWrites
<1>4. Kept'
  BY <1>a, <1>b, <1>d, Kinds DEF Commit, EndCommit, DataInv, Kept, Readable
<1> QED
  BY <1>1, <1>2, <1>3, <1>4 DEF DataInv

(* rollback() attaches the slot or hands it over. *)
LEMMA RollbackData ==
    ASSUME NoCorners, TypeInv, PinsExact, OwnerInv, DataInv, NEW c \in Cursors, Rollback(c)
    PROVE  DataInv'
<1>a. own[c] \in Slots /\ refs[own[c]] # 0
  <2>1. own[c] \in Slots
    BY DEF Rollback, TypeInv, CountInv, CursorTypes, PlaceInv
  <2> QED
    BY <2>1, HeldPinned
<1>1. MergedIn'
  BY <1>a, Kinds DEF Rollback, EndCommit, DataInv, MergedIn
<1>2. FreshIs'
  BY <1>a, Kinds DEF Rollback, EndCommit, DataInv, FreshIs
<1>3. OwnWrites'
  BY <1>a, Kinds DEF Rollback, EndCommit, DataInv, OwnWrites
<1>4. Kept'
  BY <1>a, Kinds DEF Rollback, EndCommit, DataInv, Kept, Readable
<1> QED
  BY <1>1, <1>2, <1>3, <1>4 DEF DataInv

(* _ensure_sources() begins: the old sources go to drop. *)
LEMMA RebuildData ==
    ASSUME NoCorners, TypeInv, PinsExact, OwnerInv, DataInv, NEW c \in Cursors, Rebuild(c)
    PROVE  DataInv'
BY DEF Rebuild, DataInv, MergedIn, FreshIs, OwnWrites, Kept

(* The destructor of a cursor begins: the sources go to drop. *)
LEMMA CloseCursorData ==
    ASSUME NoCorners, TypeInv, PinsExact, OwnerInv, DataInv, NEW c \in Cursors, CloseCursor(c)
    PROVE  DataInv'
BY DEF CloseCursor, DataInv, MergedIn, FreshIs, OwnWrites, Kept

(* merge_tributary() takes the first slot of the list or passes it. *)
LEMMA TakeSlotData ==
    ASSUME NoCorners, TypeInv, PinsExact, OwnerInv, DataInv, TakeSlot
    PROVE  DataInv'
<1>a. Slot1 \in list /\ Slot1 \in Slots
  BY SlotMin DEF TakeSlot, Slot1, TypeInv, JobTypes
<1>1. MergedIn'
  BY <1>a, Kinds DEF TakeSlot, DataInv, MergedIn
<1>2. FreshIs'
  BY <1>a, Kinds DEF TakeSlot, DataInv, FreshIs
<1>3. Kept'
  BY <1>a, Kinds DEF TakeSlot, DataInv, Kept, Readable
<1> QED
  BY <1>1, <1>2, <1>3 DEF TakeSlot, DataInv, OwnWrites

(* _do_merge(): the slot is merged and its pin goes to drop. *)
LEMMA DoMergeData ==
    ASSUME NoCorners, TypeInv, PinsExact, OwnerInv, DataInv, DoMerge
    PROVE  DataInv'
<1>a. Slot1 \in list /\ Slot1 \in Slots
  BY SlotMin DEF DoMerge, Slot1, TypeInv, JobTypes
<1>b. st[Slot1] = "MERGING"
  BY DEF DoMerge, OwnerInv, MergeHas
<1>1. MergedIn'
  BY <1>a, <1>b, Kinds DEF DoMerge, BumpEpoch, DataInv, MergedIn
<1>2. FreshIs'
  BY <1>a, <1>b, Kinds DEF DoMerge, BumpEpoch, DataInv, FreshIs
<1>3. Kept'
  BY <1>a, <1>b, Kinds DEF DoMerge, BumpEpoch, DataInv, Kept, Readable
<1> QED
  BY <1>1, <1>2, <1>3 DEF DoMerge, BumpEpoch, DataInv, OwnWrites

(* _do_merge() throws: the slot is attached again. *)
LEMMA MergeFailsData ==
    ASSUME NoCorners, TypeInv, PinsExact, OwnerInv, DataInv, MergeFails
    PROVE  DataInv'
<1>a. Slot1 \in list /\ Slot1 \in Slots
  BY SlotMin DEF MergeFails, Slot1, TypeInv, JobTypes
<1>b. st[Slot1] = "MERGING"
  BY DEF MergeFails, OwnerInv, MergeHas
<1>1. MergedIn'
  BY <1>a, <1>b, Kinds DEF MergeFails, DataInv, MergedIn
<1>2. FreshIs'
  BY <1>a, <1>b, Kinds DEF MergeFails, DataInv, FreshIs
<1>3. Kept'
  BY <1>a, <1>b, Kinds DEF MergeFails, DataInv, Kept, Readable
<1> QED
  BY <1>1, <1>2, <1>3 DEF MergeFails, DataInv, OwnWrites

(* The end of a pass after which another one follows. *)
LEMMA PassEndData ==
    ASSUME NoCorners, TypeInv, PinsExact, OwnerInv, DataInv, PassEnd
    PROVE  DataInv'
BY DEF PassEnd, DataInv, MergedIn, FreshIs, OwnWrites, Kept

(* J1: the task lets go of _merge_task_active. *)
LEMMA ReleaseData ==
    ASSUME NoCorners, TypeInv, PinsExact, OwnerInv, DataInv, Release
    PROVE  DataInv'
BY DEF Release, DataInv, MergedIn, FreshIs, OwnWrites, Kept

(* J2: the task looks at the signal and the slots again. *)
LEMMA RecheckData ==
    ASSUME NoCorners, TypeInv, PinsExact, OwnerInv, DataInv, Recheck
    PROVE  DataInv'
BY DEF Recheck, DataInv, MergedIn, FreshIs, OwnWrites, Kept

(* The task that was signalled on its way out schedules another. *)
LEMMA RegateData ==
    ASSUME NoCorners, TypeInv, PinsExact, OwnerInv, DataInv, Regate
    PROVE  DataInv'
BY DEF Regate, ScheduleTask, DataInv, MergedIn, FreshIs, OwnWrites, Kept

(* _run_age_sweep() signals and schedules. *)
LEMMA SweepFiresData ==
    ASSUME NoCorners, TypeInv, PinsExact, OwnerInv, DataInv, SweepFires
    PROVE  DataInv'
BY DEF SweepFires, Signal, ScheduleTask, DataInv, MergedIn, FreshIs, OwnWrites, Kept

(* _request_drain_and_wait() counts up the signal. *)
LEMMA DrainSignalData ==
    ASSUME NoCorners, TypeInv, PinsExact, OwnerInv, DataInv, DrainSignal
    PROVE  DataInv'
BY DEF DrainSignal, Signal, DataInv, MergedIn, FreshIs, OwnWrites, Kept

(* _request_drain_and_wait() schedules the task. *)
LEMMA DrainScheduleData ==
    ASSUME NoCorners, TypeInv, PinsExact, OwnerInv, DataInv, DrainSchedule
    PROVE  DataInv'
BY DEF DrainSchedule, ScheduleTask, DataInv, MergedIn, FreshIs, OwnWrites, Kept

(* The destructor of the database asks for a drain of all slots. *)
LEMMA ShutdownData ==
    ASSUME NoCorners, TypeInv, PinsExact, OwnerInv, DataInv, Shutdown
    PROVE  DataInv'
BY DEF Shutdown, Request, DataInv, MergedIn, FreshIs, OwnWrites, Kept

(* The caller of a drain wakes up. *)
LEMMA AwakeData ==
    ASSUME NoCorners, TypeInv, PinsExact, OwnerInv, DataInv, Awake
    PROVE  DataInv'
BY DEF Awake, DataInv, MergedIn, FreshIs, OwnWrites, Kept

(* The destructor has seen the task out. *)
LEMMA DestroyedData ==
    ASSUME NoCorners, TypeInv, PinsExact, OwnerInv, DataInv, Destroyed
    PROVE  DataInv'
BY DEF Destroyed, DataInv, MergedIn, FreshIs, OwnWrites, Kept

(* The process dies and the database is opened again. *)
LEMMA CrashData ==
    ASSUME NoCorners, TypeInv, PinsExact, OwnerInv, DataInv, Crash
    PROVE  DataInv'
<1>1. MergedIn'
  BY Kinds DEF Crash, DataInv, MergedIn, Recovered
<1>2. FreshIs'
  BY Kinds DEF Crash, DataInv, FreshIs, Recovered
<1>3. OwnWrites'
  BY Kinds DEF Crash, DataInv, OwnWrites, Recovered
<1>4. Kept'
  BY Kinds DEF Crash, DataInv, Kept, Readable, Recovered
<1> QED
  BY <1>1, <1>2, <1>3, <1>4 DEF DataInv

(* Nothing happens after the destructor. *)
LEMMA FinishedData ==
    ASSUME NoCorners, TypeInv, PinsExact, OwnerInv, DataInv, Finished
    PROVE  DataInv'
BY DEF Finished, vars, DataInv, MergedIn, FreshIs, OwnWrites, Kept

(* _collect_and_merge_locked() picks published slots. *)
LEMMA CollectData ==
    ASSUME NoCorners, TypeInv, PinsExact, OwnerInv, DataInv, NEW old, Collect(old)
    PROVE  DataInv'
BY DEF Collect, DataInv, MergedIn, FreshIs, OwnWrites, Kept

(* merge_now() or merge_all_now() asks for a drain. *)
LEMMA MergeNowData ==
    ASSUME NoCorners, TypeInv, PinsExact, OwnerInv, DataInv, NEW all \in BOOLEAN, MergeNow(all)
    PROVE  DataInv'
BY DEF MergeNow, Request, DataInv, MergedIn, FreshIs, OwnWrites, Kept

(* Every step keeps DataInv. *)
LEMMA DataStep == NoCorners /\ TypeInv /\ PinsExact /\ OwnerInv /\ DataInv /\ [Next]_vars => DataInv'
<1> SUFFICES ASSUME NoCorners, TypeInv, PinsExact, OwnerInv, DataInv, [Next]_vars PROVE DataInv'
  OBVIOUS
<1>1. ASSUME NEW p \in Procs, Unpin(p) PROVE DataInv'
  BY <1>1, UnpinData
<1>2. ASSUME NEW c \in Cursors, CursorSignal(c) PROVE DataInv'
  BY <1>2, CursorSignalData
<1>3. ASSUME NEW c \in Cursors, CursorSchedule(c) PROVE DataInv'
  BY <1>3, CursorScheduleData
<1>4. ASSUME NEW c \in Cursors, TryClaim(c) PROVE DataInv'
  BY <1>4, TryClaimData
<1>5. ASSUME NEW c \in Cursors, AllocNewSlot(c) PROVE DataInv'
  BY <1>5, AllocNewSlotData
<1>6. ASSUME NEW c \in Cursors, AtCap(c) PROVE DataInv'
  BY <1>6, AtCapData
<1>7. ASSUME NEW c \in Cursors, CommitBump(c) PROVE DataInv'
  BY <1>7, CommitBumpData
<1>8. ASSUME NEW c \in Cursors, Scan(c) PROVE DataInv'
  BY <1>8, ScanData
<1>9. ASSUME NEW c \in Cursors, TakeMain(c) PROVE DataInv'
  BY <1>9, TakeMainData
<1>10. ASSUME NEW c \in Cursors, Detach(c) PROVE DataInv'
  BY <1>10, DetachData
<1>11. ASSUME NEW c \in Cursors, StartAttached(c) PROVE DataInv'
  BY <1>11, StartAttachedData
<1>12. ASSUME NEW c \in Cursors, StartReclaim(c) PROVE DataInv'
  BY <1>12, StartReclaimData
<1>13. ASSUME NEW c \in Cursors, StartElse(c) PROVE DataInv'
  BY <1>13, StartElseData
<1>14. ASSUME NEW c \in Cursors, NEW full \in BOOLEAN, Commit(c, full) PROVE DataInv'
  BY <1>14, CommitData
<1>15. ASSUME NEW c \in Cursors, Rollback(c) PROVE DataInv'
  BY <1>15, RollbackData
<1>16. ASSUME NEW c \in Cursors, Rebuild(c) PROVE DataInv'
  BY <1>16, RebuildData
<1>17. ASSUME NEW c \in Cursors, CloseCursor(c) PROVE DataInv'
  BY <1>17, CloseCursorData
<1>18. ASSUME TakeSlot PROVE DataInv'
  BY <1>18, TakeSlotData
<1>19. ASSUME DoMerge PROVE DataInv'
  BY <1>19, DoMergeData
<1>20. ASSUME MergeFails PROVE DataInv'
  BY <1>20, MergeFailsData
<1>21. ASSUME PassEnd PROVE DataInv'
  BY <1>21, PassEndData
<1>22. ASSUME Release PROVE DataInv'
  BY <1>22, ReleaseData
<1>23. ASSUME Recheck PROVE DataInv'
  BY <1>23, RecheckData
<1>24. ASSUME Regate PROVE DataInv'
  BY <1>24, RegateData
<1>25. ASSUME SweepFires PROVE DataInv'
  BY <1>25, SweepFiresData
<1>26. ASSUME DrainSignal PROVE DataInv'
  BY <1>26, DrainSignalData
<1>27. ASSUME DrainSchedule PROVE DataInv'
  BY <1>27, DrainScheduleData
<1>28. ASSUME Shutdown PROVE DataInv'
  BY <1>28, ShutdownData
<1>29. ASSUME Awake PROVE DataInv'
  BY <1>29, AwakeData
<1>30. ASSUME Destroyed PROVE DataInv'
  BY <1>30, DestroyedData
<1>31. ASSUME Crash PROVE DataInv'
  BY <1>31, CrashData
<1>32. ASSUME Finished PROVE DataInv'
  BY <1>32, FinishedData
<1>33. ASSUME NEW old, Collect(old) PROVE DataInv'
  BY <1>33, CollectData
<1>34. ASSUME NEW all \in BOOLEAN, MergeNow(all) PROVE DataInv'
  BY <1>34, MergeNowData
<1>35. CASE UNCHANGED vars
  BY <1>35 DEF vars, DataInv, MergedIn, FreshIs, OwnWrites, Kept
<1> QED
  BY <1>1, <1>2, <1>3, <1>4, <1>5, <1>6, <1>7, <1>8, <1>9, <1>10, <1>11, <1>12, <1>13,
     <1>14, <1>15, <1>16, <1>17, <1>18, <1>19, <1>20, <1>21, <1>22, <1>23, <1>24, <1>25,
     <1>26, <1>27, <1>28, <1>29, <1>30, <1>31, <1>32, <1>33, <1>34, <1>35
     DEF Next, CursorStep, Call, JobStep, LeaveStep, DrainStep, Procs

(* NoWriteLost, said of every committed write. *)
LEMMA KeptIsNoWriteLost == Kept <=> NoWriteLost
BY DEF Kept, NoWriteLost

(* At first nobody owns a slot and nothing is written. *)
LEMMA InitOwner == Init => OwnerInv /\ DataInv
<1> SUFFICES ASSUME Init PROVE OwnerInv /\ DataInv
  OBVIOUS
<1>1. OwnerInv
  BY DEF Init, OwnerInv, NoWindow, OwnOnce, TxnWrites, Written, EmptyFree, MergeHas, BumpHas
<1>2. DataInv
  BY DEF Init, DataInv, MergedIn, FreshIs, OwnWrites, Kept
<1> QED
  BY <1>1, <1>2

(* The pins, the owners and the writes together. *)
WriteInv == TypeInv /\ PinsExact /\ OwnerInv /\ DataInv

(* WriteInv holds at first and every step keeps it. *)
LEMMA WriteInduction ==
    ASSUME NoCorners
    PROVE  /\ Init => WriteInv
           /\ WriteInv /\ [Next]_vars => WriteInv'
<1>1. Init => PinsExact
  BY NobodyHolds DEF Init
<1> QED
  BY <1>1, InitType, InitOwner, TypeStep, PinsStep, OwnerStep, DataStep DEF WriteInv

(* In every reachable state no slot belongs to two cursors, the slot of a   *)
(* transaction is being written to and no other is, and an empty slot is    *)
(* nobody's and holds nothing.                                              *)
THEOREM OwnerTheorem == ASSUME NoCorners PROVE Spec => []OneOwner
<1>1. Init => WriteInv
  BY WriteInduction
<1>2. WriteInv /\ [Next]_vars => WriteInv'
  BY WriteInduction
<1>3. WriteInv => OneOwner
  BY DEF WriteInv, OwnerInv, OwnOnce, TxnWrites, Written, EmptyFree, OneOwner
<1> QED
  BY <1>1, <1>2, <1>3, PTL DEF Spec

(* In every reachable state every committed write is in the main database   *)
(* or in a slot that will be merged.                                        *)
THEOREM WriteTheorem == ASSUME NoCorners PROVE Spec => []NoWriteLost
<1>1. Init => WriteInv
  BY WriteInduction
<1>2. WriteInv /\ [Next]_vars => WriteInv'
  BY WriteInduction
<1>3. WriteInv => NoWriteLost
  BY KeptIsNoWriteLost DEF WriteInv, DataInv
<1> QED
  BY <1>1, <1>2, <1>3, PTL DEF Spec

-----------------------------------------------------------------------------
(* The destructor of the database.  After _shutdown no cursor is left;      *)
(* until the drain of the destructor is served every slot with writes is    *)
(* still to be picked (force) or on the list; the pass that serves it       *)
(* leaves none.                                                             *)
ShutQuiet == shut => ~sweep /\ \A c \in Cursors : pc[c] = "closed" /\ Settled(c)
ShutAt    == (dpc \in {"leave", "closed"} => shut) /\ (dpc = "open" => ~shut)
ListIdle  == job \in {"none", "queued", "pass"} => list = {}
ToMerge   == shut /\ ~failed => \A s \in Slots : st[s] \in {"ATTACHED", "MERGING"} => force \/ s \in list
CoverAll  == shut /\ covers /\ dpc \in {"cas", "wait"} => ~force
AllMerged == shut /\ ~failed /\ ((served /\ dpc \in {"cas", "wait"}) \/ dpc \in {"leave", "closed"})
                => \A s \in Slots : st[s] \in {"EMPTY", "MERGED"}
CloseInv  == ShutQuiet /\ ShutAt /\ ListIdle /\ ToMerge /\ CoverAll /\ AllMerged /\ CloseRight

(* _unpin_slot() keeps the types: it gives back, looks or recycles. *)
LEMMA UnpinClose ==
    ASSUME NoCorners, TypeInv, PinsExact, OwnerInv, DataInv, CloseInv, NEW p \in Procs, Unpin(p)
    PROVE  CloseInv'
<1> DEFINE t == Min(drop[p])
<1>a. drop[p] # {} /\ t \in drop[p] /\ t \in Slots /\ GiveBack(p, t)
  <2>1. drop[p] # {} /\ GiveBack(p, t)
    BY DEF Unpin, OwnerInv, NoWindow
  <2> QED
    BY <2>1, SlotMin DEF TypeInv, PinTypes
<1> HIDE DEF t
<1>b. refs[t] >= 1 /\ (refs[t] = 1 => ~InUse(t) /\ ~(job = "merging" /\ t = Slot1))
  BY <1>a, LastPin DEF InUse
<1>d. /\ refs' = [refs EXCEPT ![t] = @ - 1]
      /\ \/ UNCHANGED <<st, trie>> /\ (refs[t] = 1 => st[t] # "MERGED")
         \/ /\ refs[t] = 1 /\ st[t] = "MERGED"
            /\ st' = [st EXCEPT ![t] = "EMPTY"] /\ trie' = [trie EXCEPT ![t] = {}]
  BY <1>a, <1>b DEF GiveBack, Recycle, NoCorners
<1>e. UNCHANGED <<pc, main, acked, jobVars, dbVars>>
  BY DEF Unpin
<1>f. drop' = [drop EXCEPT ![p] = @ \ {t}] /\ UNCHANGED <<peek, fix>>
  BY <1>a DEF GiveBack, NoCorners
<1>1. ShutQuiet'
  BY <1>a, <1>e, <1>f DEF CloseInv, ShutQuiet
<1>2. ToMerge'
  BY <1>a, <1>b, <1>d, <1>e, Kinds DEF CloseInv, ToMerge
<1>3. AllMerged'
  BY <1>a, <1>b, <1>d, <1>e, Kinds DEF CloseInv, AllMerged
<1> QED
  BY <1>1, <1>2, <1>3 DEF Unpin, Recycle, GiveBack, CloseInv, ShutAt, ListIdle,
     CoverAll, CloseRight

(* The cursor counts up _merge_signal. *)
LEMMA CursorSignalClose ==
    ASSUME NoCorners, TypeInv, PinsExact, OwnerInv, DataInv, CloseInv, NEW c \in Cursors, CursorSignal(c)
    PROVE  CloseInv'
<1>a. ~shut
  BY DEF CursorSignal, CloseInv, ShutQuiet
<1>1. ShutQuiet'
  BY <1>a, Kinds DEF CursorSignal, Signal, CloseInv, ShutQuiet
<1>2. ShutAt'
  BY <1>a, Kinds DEF CursorSignal, Signal, CloseInv, ShutAt
<1>3. AllMerged'
  BY <1>a, Kinds DEF CursorSignal, Signal, CloseInv, AllMerged
<1>4. CloseRight'
  BY <1>a, Kinds DEF CursorSignal, Signal, CloseInv, CloseRight
<1> QED
  BY <1>1, <1>2, <1>3, <1>4 DEF CursorSignal, Signal, CloseInv, ListIdle, ToMerge,
     CoverAll

(* The cursor schedules the merge task. *)
LEMMA CursorScheduleClose ==
    ASSUME NoCorners, TypeInv, PinsExact, OwnerInv, DataInv, CloseInv, NEW c \in Cursors, CursorSchedule(c)
    PROVE  CloseInv'
<1>a. ~shut
  BY DEF CursorSchedule, CloseInv, ShutQuiet
<1>1. ShutQuiet'
  BY <1>a, Kinds DEF CursorSchedule, ScheduleTask, CloseInv, ShutQuiet
<1>2. ListIdle'
  BY <1>a, Kinds DEF CursorSchedule, ScheduleTask, CloseInv, ListIdle
<1>3. CloseRight'
  BY <1>a, Kinds DEF CursorSchedule, ScheduleTask, CloseInv, CloseRight, ShutAt,
     ShutQuiet, ToMerge, CoverAll, ListIdle, TypeInv, JobTypes, DbTypes
<1> QED
  BY <1>1, <1>2, <1>3 DEF CursorSchedule, ScheduleTask, CloseInv, ShutAt, ToMerge,
     CoverAll, AllMerged

(* _try_claim(): an empty slot that is published. *)
LEMMA TryClaimClose ==
    ASSUME NoCorners, TypeInv, PinsExact, OwnerInv, DataInv, CloseInv, NEW c \in Cursors, TryClaim(c)
    PROVE  CloseInv'
<1>a. ~shut
  BY DEF TryClaim, CloseInv, ShutQuiet
<1>1. ShutQuiet'
  BY <1>a, Kinds DEF TryClaim, Claimed, CloseInv, ShutQuiet
<1>2. ShutAt'
  BY <1>a, Kinds DEF TryClaim, Claimed, CloseInv, ShutAt
<1>3. ListIdle'
  BY <1>a, Kinds DEF TryClaim, Claimed, CloseInv, ListIdle
<1>4. ToMerge'
  BY <1>a, Kinds DEF TryClaim, Claimed, CloseInv, ToMerge
<1>5. CoverAll'
  BY <1>a, Kinds DEF TryClaim, Claimed, CloseInv, CoverAll
<1>6. AllMerged'
  BY <1>a, Kinds DEF TryClaim, Claimed, CloseInv, AllMerged
<1> QED
  BY <1>1, <1>2, <1>3, <1>4, <1>5, <1>6 DEF TryClaim, Claimed, CloseInv, CloseRight

(* _alloc_new_slot() publishes one slot more. *)
LEMMA AllocNewSlotClose ==
    ASSUME NoCorners, TypeInv, PinsExact, OwnerInv, DataInv, CloseInv, NEW c \in Cursors, AllocNewSlot(c)
    PROVE  CloseInv'
<1>a. ~shut
  BY DEF AllocNewSlot, CloseInv, ShutQuiet
<1>1. ShutQuiet'
  BY <1>a, Kinds DEF AllocNewSlot, Claimed, CloseInv, ShutQuiet
<1>2. ShutAt'
  BY <1>a, Kinds DEF AllocNewSlot, Claimed, CloseInv, ShutAt
<1>3. ListIdle'
  BY <1>a, Kinds DEF AllocNewSlot, Claimed, CloseInv, ListIdle
<1>4. ToMerge'
  BY <1>a, Kinds DEF AllocNewSlot, Claimed, CloseInv, ToMerge
<1>5. CoverAll'
  BY <1>a, Kinds DEF AllocNewSlot, Claimed, CloseInv, CoverAll
<1>6. AllMerged'
  BY <1>a, Kinds DEF AllocNewSlot, Claimed, CloseInv, AllMerged
<1> QED
  BY <1>1, <1>2, <1>3, <1>4, <1>5, <1>6 DEF AllocNewSlot, Claimed, CloseInv, CloseRight

(* All slots are taken: the sources go to drop. *)
LEMMA AtCapClose ==
    ASSUME NoCorners, TypeInv, PinsExact, OwnerInv, DataInv, CloseInv, NEW c \in Cursors, AtCap(c)
    PROVE  CloseInv'
<1>a. ~shut
  BY DEF AtCap, CloseInv, ShutQuiet
<1>1. ShutQuiet'
  BY <1>a, Kinds DEF AtCap, CloseInv, ShutQuiet
<1> QED
  BY <1>1 DEF AtCap, CloseInv, ShutAt, ListIdle, ToMerge, CoverAll, AllMerged,
     CloseRight

(* commit() after the epoch: the slot goes to drop or stays. *)
LEMMA CommitBumpClose ==
    ASSUME NoCorners, TypeInv, PinsExact, OwnerInv, DataInv, CloseInv, NEW c \in Cursors, CommitBump(c)
    PROVE  CloseInv'
<1>a. ~shut
  BY DEF CommitBump, CloseInv, ShutQuiet
<1>1. ShutQuiet'
  BY <1>a, Kinds DEF CommitBump, BumpEpoch, EndCommit, CloseInv, ShutQuiet
<1>2. CloseRight'
  BY <1>a, Kinds DEF CommitBump, BumpEpoch, EndCommit, CloseInv, CloseRight, ShutAt,
     ShutQuiet, ToMerge, CoverAll, ListIdle, TypeInv, JobTypes, DbTypes
<1> QED
  BY <1>1, <1>2 DEF CommitBump, BumpEpoch, EndCommit, CloseInv, ShutAt, ListIdle,
     ToMerge, CoverAll, AllMerged

(* fill_sources_lockfree(): the next slot, which is above all the sources. *)
LEMMA ScanClose ==
    ASSUME NoCorners, TypeInv, PinsExact, OwnerInv, DataInv, CloseInv, NEW c \in Cursors, Scan(c)
    PROVE  CloseInv'
<1>a. ~shut
  BY DEF Scan, CloseInv, ShutQuiet
<1>1. ShutQuiet'
  BY <1>a, Kinds DEF Scan, PinSource, CloseInv, ShutQuiet
<1> QED
  BY <1>1 DEF Scan, PinSource, CloseInv, ShutAt, ListIdle, ToMerge, CoverAll, AllMerged,
     CloseRight

(* The snapshot of the main database ends the look for sources. *)
LEMMA TakeMainClose ==
    ASSUME NoCorners, TypeInv, PinsExact, OwnerInv, DataInv, CloseInv, NEW c \in Cursors, TakeMain(c)
    PROVE  CloseInv'
<1>a. ~shut
  BY DEF TakeMain, CloseInv, ShutQuiet
<1>1. ShutQuiet'
  BY <1>a, Kinds DEF TakeMain, CloseInv, ShutQuiet
<1> QED
  BY <1>1 DEF TakeMain, CloseInv, ShutAt, ListIdle, ToMerge, CoverAll, AllMerged,
     CloseRight

(* _release_write_source() looks at the state or lets go of the slot. *)
LEMMA DetachClose ==
    ASSUME NoCorners, TypeInv, PinsExact, OwnerInv, DataInv, CloseInv, NEW c \in Cursors, Detach(c)
    PROVE  CloseInv'
<1>a. ~shut
  BY DEF Detach, CloseInv, ShutQuiet
<1>1. ShutQuiet'
  BY <1>a, Kinds DEF Detach, GiveUp, CloseInv, ShutQuiet
<1>2. ToMerge'
  BY <1>a, Kinds DEF Detach, GiveUp, CloseInv, ToMerge
<1>3. AllMerged'
  BY <1>a, Kinds DEF Detach, GiveUp, CloseInv, AllMerged
<1> QED
  BY <1>1, <1>2, <1>3 DEF Detach, GiveUp, CloseInv, ShutAt, ListIdle, CoverAll,
     CloseRight

(* start_transaction() in the slot of the last transaction. *)
LEMMA StartAttachedClose ==
    ASSUME NoCorners, TypeInv, PinsExact, OwnerInv, DataInv, CloseInv, NEW c \in Cursors, StartAttached(c)
    PROVE  CloseInv'
<1>a. ~shut
  BY DEF StartAttached, Begins, CloseInv, ShutQuiet
<1>1. ShutQuiet'
  BY <1>a, Kinds DEF StartAttached, Begins, CloseInv, ShutQuiet
<1>2. ShutAt'
  BY <1>a, Kinds DEF StartAttached, Begins, CloseInv, ShutAt
<1>3. ListIdle'
  BY <1>a, Kinds DEF StartAttached, Begins, CloseInv, ListIdle
<1>4. ToMerge'
  BY <1>a, Kinds DEF StartAttached, Begins, CloseInv, ToMerge
<1>5. CoverAll'
  BY <1>a, Kinds DEF StartAttached, Begins, CloseInv, CoverAll
<1>6. AllMerged'
  BY <1>a, Kinds DEF StartAttached, Begins, CloseInv, AllMerged
<1> QED
  BY <1>1, <1>2, <1>3, <1>4, <1>5, <1>6 DEF StartAttached, Begins, CloseInv, CloseRight

(* start_transaction() with a merged slot made new in place. *)
LEMMA StartReclaimClose ==
    ASSUME NoCorners, TypeInv, PinsExact, OwnerInv, DataInv, CloseInv, NEW c \in Cursors, StartReclaim(c)
    PROVE  CloseInv'
<1>a. ~shut
  BY DEF StartReclaim, Begins, CloseInv, ShutQuiet
<1>1. ShutQuiet'
  BY <1>a, Kinds DEF StartReclaim, Begins, CloseInv, ShutQuiet
<1>2. ShutAt'
  BY <1>a, Kinds DEF StartReclaim, Begins, CloseInv, ShutAt
<1>3. ListIdle'
  BY <1>a, Kinds DEF StartReclaim, Begins, CloseInv, ListIdle
<1>4. ToMerge'
  BY <1>a, Kinds DEF StartReclaim, Begins, CloseInv, ToMerge
<1>5. CoverAll'
  BY <1>a, Kinds DEF StartReclaim, Begins, CloseInv, CoverAll
<1>6. AllMerged'
  BY <1>a, Kinds DEF StartReclaim, Begins, CloseInv, AllMerged
<1> QED
  BY <1>1, <1>2, <1>3, <1>4, <1>5, <1>6 DEF StartReclaim, Begins, CloseInv, CloseRight

(* start_transaction() that has to claim another slot. *)
LEMMA StartElseClose ==
    ASSUME NoCorners, TypeInv, PinsExact, OwnerInv, DataInv, CloseInv, NEW c \in Cursors, StartElse(c)
    PROVE  CloseInv'
<1>a. ~shut
  BY DEF StartElse, Begins, CloseInv, ShutQuiet
<1>1. ShutQuiet'
  BY <1>a, Kinds DEF StartElse, Begins, CloseInv, ShutQuiet
<1> QED
  BY <1>1 DEF StartElse, Begins, CloseInv, ShutAt, ListIdle, ToMerge, CoverAll,
     AllMerged, CloseRight

(* commit() of the tributary and W1. *)
LEMMA CommitClose ==
    ASSUME NoCorners, TypeInv, PinsExact, OwnerInv, DataInv, CloseInv, NEW c \in Cursors, NEW full \in BOOLEAN, Commit(c, full)
    PROVE  CloseInv'
<1>a. ~shut
  BY DEF Commit, CloseInv, ShutQuiet
<1>1. ShutQuiet'
  BY <1>a, Kinds DEF Commit, EndCommit, CloseInv, ShutQuiet
<1>2. ShutAt'
  BY <1>a, Kinds DEF Commit, EndCommit, CloseInv, ShutAt
<1>3. ListIdle'
  BY <1>a, Kinds DEF Commit, EndCommit, CloseInv, ListIdle
<1>4. ToMerge'
  BY <1>a, Kinds DEF Commit, EndCommit, CloseInv, ToMerge
<1>5. CoverAll'
  BY <1>a, Kinds DEF Commit, EndCommit, CloseInv, CoverAll
<1>6. AllMerged'
  BY <1>a, Kinds DEF Commit, EndCommit, CloseInv, AllMerged
<1>7. CloseRight'
  BY <1>a, Kinds DEF Commit, EndCommit, CloseInv, CloseRight, ShutAt, ShutQuiet,
     ToMerge, CoverAll, ListIdle, TypeInv, JobTypes, DbTypes
<1> QED
  BY <1>1, <1>2, <1>3, <1>4, <1>5, <1>6, <1>7 DEF CloseInv

(* rollback() attaches the slot or hands it over. *)
LEMMA RollbackClose ==
    ASSUME NoCorners, TypeInv, PinsExact, OwnerInv, DataInv, CloseInv, NEW c \in Cursors, Rollback(c)
    PROVE  CloseInv'
<1>a. ~shut
  BY DEF Rollback, CloseInv, ShutQuiet
<1>1. ShutQuiet'
  BY <1>a, Kinds DEF Rollback, EndCommit, CloseInv, ShutQuiet
<1>2. ShutAt'
  BY <1>a, Kinds DEF Rollback, EndCommit, CloseInv, ShutAt
<1>3. ListIdle'
  BY <1>a, Kinds DEF Rollback, EndCommit, CloseInv, ListIdle
<1>4. ToMerge'
  BY <1>a, Kinds DEF Rollback, EndCommit, CloseInv, ToMerge
<1>5. CoverAll'
  BY <1>a, Kinds DEF Rollback, EndCommit, CloseInv, CoverAll
<1>6. AllMerged'
  BY <1>a, Kinds DEF Rollback, EndCommit, CloseInv, AllMerged
<1>7. CloseRight'
  BY <1>a, Kinds DEF Rollback, EndCommit, CloseInv, CloseRight, ShutAt, ShutQuiet,
     ToMerge, CoverAll, ListIdle, TypeInv, JobTypes, DbTypes
<1> QED
  BY <1>1, <1>2, <1>3, <1>4, <1>5, <1>6, <1>7 DEF CloseInv

(* _ensure_sources() begins: the old sources go to drop. *)
LEMMA RebuildClose ==
    ASSUME NoCorners, TypeInv, PinsExact, OwnerInv, DataInv, CloseInv, NEW c \in Cursors, Rebuild(c)
    PROVE  CloseInv'
<1>a. ~shut
  BY DEF Rebuild, CloseInv, ShutQuiet
<1>1. ShutQuiet'
  BY <1>a, Kinds DEF Rebuild, CloseInv, ShutQuiet
<1> QED
  BY <1>1 DEF Rebuild, CloseInv, ShutAt, ListIdle, ToMerge, CoverAll, AllMerged,
     CloseRight

(* The destructor of a cursor begins: the sources go to drop. *)
LEMMA CloseCursorClose ==
    ASSUME NoCorners, TypeInv, PinsExact, OwnerInv, DataInv, CloseInv, NEW c \in Cursors, CloseCursor(c)
    PROVE  CloseInv'
<1>a. ~shut
  BY DEF CloseCursor, CloseInv, ShutQuiet
<1>1. ShutQuiet'
  BY <1>a, Kinds DEF CloseCursor, CloseInv, ShutQuiet
<1> QED
  BY <1>1 DEF CloseCursor, CloseInv, ShutAt, ListIdle, ToMerge, CoverAll, AllMerged,
     CloseRight

(* merge_tributary() takes the first slot of the list or passes it. *)
LEMMA TakeSlotClose ==
    ASSUME NoCorners, TypeInv, PinsExact, OwnerInv, DataInv, CloseInv, TakeSlot
    PROVE  CloseInv'
<1>a. Slot1 \in list /\ Slot1 \in Slots
  BY SlotMin DEF TakeSlot, Slot1, TypeInv, JobTypes
<1>1. ListIdle'
  BY <1>a, Kinds DEF TakeSlot, CloseInv, ListIdle
<1>2. ToMerge'
  BY <1>a, Kinds DEF TakeSlot, CloseInv, ToMerge
<1>3. AllMerged'
  BY <1>a, Kinds DEF TakeSlot, CloseInv, AllMerged
<1>4. CloseRight'
  BY <1>a, Kinds DEF TakeSlot, CloseInv, CloseRight
<1> QED
  BY <1>1, <1>2, <1>3, <1>4 DEF TakeSlot, CloseInv, ShutQuiet, ShutAt, CoverAll

(* _do_merge(): the slot is merged and its pin goes to drop. *)
LEMMA DoMergeClose ==
    ASSUME NoCorners, TypeInv, PinsExact, OwnerInv, DataInv, CloseInv, DoMerge
    PROVE  CloseInv'
<1>a. Slot1 \in list /\ Slot1 \in Slots
  BY SlotMin DEF DoMerge, Slot1, TypeInv, JobTypes
<1>b. st[Slot1] = "MERGING"
  BY DEF DoMerge, OwnerInv, MergeHas
<1>1. ShutQuiet'
  BY <1>a, <1>b, Kinds DEF DoMerge, BumpEpoch, CloseInv, ShutQuiet
<1>2. ListIdle'
  BY <1>a, <1>b, Kinds DEF DoMerge, BumpEpoch, CloseInv, ListIdle
<1>3. ToMerge'
  BY <1>a, <1>b, Kinds DEF DoMerge, BumpEpoch, CloseInv, ToMerge
<1>4. AllMerged'
  BY <1>a, <1>b, Kinds DEF DoMerge, BumpEpoch, CloseInv, AllMerged
<1>5. CloseRight'
  BY <1>a, <1>b, Kinds DEF DoMerge, BumpEpoch, CloseInv, CloseRight
<1> QED
  BY <1>1, <1>2, <1>3, <1>4, <1>5 DEF DoMerge, BumpEpoch, CloseInv, ShutAt, CoverAll

(* _do_merge() throws: the slot is attached again. *)
LEMMA MergeFailsClose ==
    ASSUME NoCorners, TypeInv, PinsExact, OwnerInv, DataInv, CloseInv, MergeFails
    PROVE  CloseInv'
<1>a. Slot1 \in list /\ Slot1 \in Slots
  BY SlotMin DEF MergeFails, Slot1, TypeInv, JobTypes
<1>b. st[Slot1] = "MERGING"
  BY DEF MergeFails, OwnerInv, MergeHas
<1>1. ListIdle'
  BY <1>a, <1>b, Kinds DEF MergeFails, CloseInv, ListIdle
<1>2. ToMerge'
  BY <1>a, <1>b, Kinds DEF MergeFails, CloseInv, ToMerge
<1>3. AllMerged'
  BY <1>a, <1>b, Kinds DEF MergeFails, CloseInv, AllMerged
<1>4. CloseRight'
  BY <1>a, <1>b, Kinds DEF MergeFails, CloseInv, CloseRight
<1> QED
  BY <1>1, <1>2, <1>3, <1>4 DEF MergeFails, CloseInv, ShutQuiet, ShutAt, CoverAll

(* The end of a pass after which another one follows. *)
LEMMA PassEndClose ==
    ASSUME NoCorners, TypeInv, PinsExact, OwnerInv, DataInv, CloseInv, PassEnd
    PROVE  CloseInv'
<1>b. shut => \A s \in Slots : st[s] \notin {"FIRST_WRITING", "WRITING"}
  BY DEF CloseInv, ShutQuiet, OwnerInv, Written, TypeInv, PlaceInv
<1>1. ListIdle'
  BY <1>b, Kinds DEF PassEnd, CloseInv, ListIdle
<1>2. CoverAll'
  BY <1>b, Kinds DEF PassEnd, CloseInv, CoverAll
<1>3. AllMerged'
  BY <1>b, Kinds DEF PassEnd, CloseInv, AllMerged, ShutAt, ShutQuiet, ToMerge, CoverAll,
     ListIdle, TypeInv, JobTypes, DbTypes
<1>4. CloseRight'
  BY <1>b, Kinds DEF PassEnd, CloseInv, CloseRight
<1> QED
  BY <1>1, <1>2, <1>3, <1>4 DEF PassEnd, CloseInv, ShutQuiet, ShutAt, ToMerge

(* J1: the task lets go of _merge_task_active. *)
LEMMA ReleaseClose ==
    ASSUME NoCorners, TypeInv, PinsExact, OwnerInv, DataInv, CloseInv, Release
    PROVE  CloseInv'
<1>b. shut => \A s \in Slots : st[s] \notin {"FIRST_WRITING", "WRITING"}
  BY DEF CloseInv, ShutQuiet, OwnerInv, Written, TypeInv, PlaceInv
<1>1. ShutQuiet'
  BY <1>b, Kinds DEF Release, CloseInv, ShutQuiet, EnsureAgeSweep
<1>2. ShutAt'
  BY <1>b, Kinds DEF Release, CloseInv, ShutAt, EnsureAgeSweep
<1>3. ListIdle'
  BY <1>b, Kinds DEF Release, CloseInv, ListIdle, EnsureAgeSweep
<1>4. CoverAll'
  BY <1>b, Kinds DEF Release, CloseInv, CoverAll, EnsureAgeSweep
<1>5. AllMerged'
  BY <1>b, Kinds DEF Release, CloseInv, AllMerged, EnsureAgeSweep, ShutAt, ShutQuiet,
     ToMerge, CoverAll, ListIdle, TypeInv, JobTypes, DbTypes
<1>6. CloseRight'
  BY <1>b, Kinds DEF Release, CloseInv, CloseRight, EnsureAgeSweep
<1> QED
  BY <1>1, <1>2, <1>3, <1>4, <1>5, <1>6 DEF Release, CloseInv, ToMerge

(* J2: the task looks at the signal and the slots again. *)
LEMMA RecheckClose ==
    ASSUME NoCorners, TypeInv, PinsExact, OwnerInv, DataInv, CloseInv, Recheck
    PROVE  CloseInv'
<1>1. ShutAt'
  BY Kinds DEF Recheck, CloseInv, ShutAt
<1>2. AllMerged'
  BY Kinds DEF Recheck, CloseInv, AllMerged
<1>3. CloseRight'
  BY Kinds DEF Recheck, CloseInv, CloseRight
<1> QED
  BY <1>1, <1>2, <1>3 DEF Recheck, CloseInv, ShutQuiet, ListIdle, ToMerge, CoverAll

(* The task that was signalled on its way out schedules another. *)
LEMMA RegateClose ==
    ASSUME NoCorners, TypeInv, PinsExact, OwnerInv, DataInv, CloseInv, Regate
    PROVE  CloseInv'
<1>1. ShutAt'
  BY Kinds DEF Regate, ScheduleTask, CloseInv, ShutAt
<1>2. ListIdle'
  BY Kinds DEF Regate, ScheduleTask, CloseInv, ListIdle
<1>3. AllMerged'
  BY Kinds DEF Regate, ScheduleTask, CloseInv, AllMerged
<1>4. CloseRight'
  BY Kinds DEF Regate, ScheduleTask, CloseInv, CloseRight
<1> QED
  BY <1>1, <1>2, <1>3, <1>4 DEF Regate, ScheduleTask, CloseInv, ShutQuiet, ToMerge,
     CoverAll

(* _run_age_sweep() signals and schedules. *)
LEMMA SweepFiresClose ==
    ASSUME NoCorners, TypeInv, PinsExact, OwnerInv, DataInv, CloseInv, SweepFires
    PROVE  CloseInv'
<1>1. ShutQuiet'
  BY Kinds DEF SweepFires, Signal, ScheduleTask, CloseInv, ShutQuiet
<1>2. ShutAt'
  BY Kinds DEF SweepFires, Signal, ScheduleTask, CloseInv, ShutAt
<1>3. ListIdle'
  BY Kinds DEF SweepFires, Signal, ScheduleTask, CloseInv, ListIdle
<1>4. AllMerged'
  BY Kinds DEF SweepFires, Signal, ScheduleTask, CloseInv, AllMerged
<1>5. CloseRight'
  BY Kinds DEF SweepFires, Signal, ScheduleTask, CloseInv, CloseRight
<1> QED
  BY <1>1, <1>2, <1>3, <1>4, <1>5 DEF SweepFires, Signal, ScheduleTask, CloseInv,
     ToMerge, CoverAll

(* _request_drain_and_wait() counts up the signal. *)
LEMMA DrainSignalClose ==
    ASSUME NoCorners, TypeInv, PinsExact, OwnerInv, DataInv, CloseInv, DrainSignal
    PROVE  CloseInv'
<1>1. ShutAt'
  BY Kinds DEF DrainSignal, Signal, CloseInv, ShutAt
<1>2. CoverAll'
  BY Kinds DEF DrainSignal, Signal, CloseInv, CoverAll
<1>3. AllMerged'
  BY Kinds DEF DrainSignal, Signal, CloseInv, AllMerged
<1>4. CloseRight'
  BY Kinds DEF DrainSignal, Signal, CloseInv, CloseRight
<1> QED
  BY <1>1, <1>2, <1>3, <1>4 DEF DrainSignal, Signal, CloseInv, ShutQuiet, ListIdle,
     ToMerge

(* _request_drain_and_wait() schedules the task. *)
LEMMA DrainScheduleClose ==
    ASSUME NoCorners, TypeInv, PinsExact, OwnerInv, DataInv, CloseInv, DrainSchedule
    PROVE  CloseInv'
<1>1. ShutAt'
  BY Kinds DEF DrainSchedule, ScheduleTask, CloseInv, ShutAt
<1>2. ListIdle'
  BY Kinds DEF DrainSchedule, ScheduleTask, CloseInv, ListIdle
<1>3. CoverAll'
  BY Kinds DEF DrainSchedule, ScheduleTask, CloseInv, CoverAll
<1>4. AllMerged'
  BY Kinds DEF DrainSchedule, ScheduleTask, CloseInv, AllMerged
<1>5. CloseRight'
  BY Kinds DEF DrainSchedule, ScheduleTask, CloseInv, CloseRight
<1> QED
  BY <1>1, <1>2, <1>3, <1>4, <1>5 DEF DrainSchedule, ScheduleTask, CloseInv, ShutQuiet,
     ToMerge

(* The destructor of the database asks for a drain of all slots. *)
LEMMA ShutdownClose ==
    ASSUME NoCorners, TypeInv, PinsExact, OwnerInv, DataInv, CloseInv, Shutdown
    PROVE  CloseInv'
<1>1. ShutQuiet'
  BY Kinds DEF Shutdown, Request, CloseInv, ShutQuiet
<1>2. ShutAt'
  BY Kinds DEF Shutdown, Request, CloseInv, ShutAt
<1>3. ToMerge'
  BY Kinds DEF Shutdown, Request, CloseInv, ToMerge
<1>4. CoverAll'
  BY Kinds DEF Shutdown, Request, CloseInv, CoverAll
<1>5. AllMerged'
  BY Kinds DEF Shutdown, Request, CloseInv, AllMerged
<1>6. CloseRight'
  BY Kinds DEF Shutdown, Request, CloseInv, CloseRight
<1> QED
  BY <1>1, <1>2, <1>3, <1>4, <1>5, <1>6 DEF Shutdown, Request, CloseInv, ListIdle

(* The caller of a drain wakes up. *)
LEMMA AwakeClose ==
    ASSUME NoCorners, TypeInv, PinsExact, OwnerInv, DataInv, CloseInv, Awake
    PROVE  CloseInv'
<1>1. ShutAt'
  BY Kinds DEF Awake, CloseInv, ShutAt
<1>2. CoverAll'
  BY Kinds DEF Awake, CloseInv, CoverAll
<1>3. AllMerged'
  BY Kinds DEF Awake, CloseInv, AllMerged
<1>4. CloseRight'
  BY Kinds DEF Awake, CloseInv, CloseRight
<1> QED
  BY <1>1, <1>2, <1>3, <1>4 DEF Awake, CloseInv, ShutQuiet, ListIdle, ToMerge

(* The destructor has seen the task out. *)
LEMMA DestroyedClose ==
    ASSUME NoCorners, TypeInv, PinsExact, OwnerInv, DataInv, CloseInv, Destroyed
    PROVE  CloseInv'
<1>1. ShutAt'
  BY Kinds DEF Destroyed, CloseInv, ShutAt
<1>2. CoverAll'
  BY Kinds DEF Destroyed, CloseInv, CoverAll
<1>3. AllMerged'
  BY Kinds DEF Destroyed, CloseInv, AllMerged
<1>4. CloseRight'
  <2>1. shut /\ ~sweep
    BY DEF Destroyed, CloseInv, ShutAt, ShutQuiet
  <2>2. ~failed => \A s \in Slots : st[s] \in {"EMPTY", "MERGED"}
    BY <2>1 DEF Destroyed, CloseInv, AllMerged
  <2>3. ~failed => acked \subseteq main
    BY <2>2 DEF DataInv, Kept, Readable
  <2> QED
    BY <2>1, <2>3 DEF Destroyed, CloseRight
<1> QED
  BY <1>1, <1>2, <1>3, <1>4 DEF Destroyed, CloseInv, ShutQuiet, ListIdle, ToMerge

(* The process dies and the database is opened again. *)
LEMMA CrashClose ==
    ASSUME NoCorners, TypeInv, PinsExact, OwnerInv, DataInv, CloseInv, Crash
    PROVE  CloseInv'
<1>1. ShutQuiet'
  BY Kinds DEF Crash, CloseInv, ShutQuiet
<1>2. ShutAt'
  BY Kinds DEF Crash, CloseInv, ShutAt
<1>3. ListIdle'
  BY Kinds DEF Crash, CloseInv, ListIdle
<1>4. ToMerge'
  BY Kinds DEF Crash, CloseInv, ToMerge
<1>5. CoverAll'
  BY Kinds DEF Crash, CloseInv, CoverAll
<1>6. AllMerged'
  BY Kinds DEF Crash, CloseInv, AllMerged
<1>7. CloseRight'
  BY Kinds DEF Crash, CloseInv, CloseRight
<1> QED
  BY <1>1, <1>2, <1>3, <1>4, <1>5, <1>6, <1>7 DEF CloseInv

(* Nothing happens after the destructor. *)
LEMMA FinishedClose ==
    ASSUME NoCorners, TypeInv, PinsExact, OwnerInv, DataInv, CloseInv, Finished
    PROVE  CloseInv'
BY DEF Finished, vars, CloseInv, ShutQuiet, ShutAt, ListIdle, ToMerge, CoverAll,
   AllMerged, CloseRight

(* _collect_and_merge_locked() picks published slots. *)
LEMMA CollectClose ==
    ASSUME NoCorners, TypeInv, PinsExact, OwnerInv, DataInv, CloseInv, NEW old, Collect(old)
    PROVE  CloseInv'
<1>1. ListIdle'
  BY Kinds DEF Collect, CloseInv, ListIdle
<1>2. ToMerge'
  BY DEF Collect, CloseInv, ToMerge, TypeInv, JobTypes, DbTypes, CountInv, SlotTypes,
     ShutQuiet, ShutAt, ListIdle, CoverAll, AllMerged, CloseRight
<1>3. CoverAll'
  BY Kinds DEF Collect, CloseInv, CoverAll
<1>4. CloseRight'
  BY Kinds DEF Collect, CloseInv, CloseRight
<1> QED
  BY <1>1, <1>2, <1>3, <1>4 DEF Collect, CloseInv, ShutQuiet, ShutAt, AllMerged

(* merge_now() or merge_all_now() asks for a drain. *)
LEMMA MergeNowClose ==
    ASSUME NoCorners, TypeInv, PinsExact, OwnerInv, DataInv, CloseInv, NEW all \in BOOLEAN, MergeNow(all)
    PROVE  CloseInv'
<1>1. ShutAt'
  BY Kinds DEF MergeNow, Request, CloseInv, ShutAt
<1>2. ToMerge'
  BY Kinds DEF MergeNow, Request, CloseInv, ToMerge
<1>3. CoverAll'
  BY Kinds DEF MergeNow, Request, CloseInv, CoverAll
<1>4. AllMerged'
  BY Kinds DEF MergeNow, Request, CloseInv, AllMerged
<1>5. CloseRight'
  BY Kinds DEF MergeNow, Request, CloseInv, CloseRight
<1> QED
  BY <1>1, <1>2, <1>3, <1>4, <1>5 DEF MergeNow, Request, CloseInv, ShutQuiet, ListIdle

(* Every step keeps CloseInv. *)
LEMMA CloseStep == NoCorners /\ TypeInv /\ PinsExact /\ OwnerInv /\ DataInv /\ CloseInv /\ [Next]_vars => CloseInv'
<1> SUFFICES ASSUME NoCorners, TypeInv, PinsExact, OwnerInv, DataInv, CloseInv, [Next]_vars PROVE CloseInv'
  OBVIOUS
<1>1. ASSUME NEW p \in Procs, Unpin(p) PROVE CloseInv'
  BY <1>1, UnpinClose
<1>2. ASSUME NEW c \in Cursors, CursorSignal(c) PROVE CloseInv'
  BY <1>2, CursorSignalClose
<1>3. ASSUME NEW c \in Cursors, CursorSchedule(c) PROVE CloseInv'
  BY <1>3, CursorScheduleClose
<1>4. ASSUME NEW c \in Cursors, TryClaim(c) PROVE CloseInv'
  BY <1>4, TryClaimClose
<1>5. ASSUME NEW c \in Cursors, AllocNewSlot(c) PROVE CloseInv'
  BY <1>5, AllocNewSlotClose
<1>6. ASSUME NEW c \in Cursors, AtCap(c) PROVE CloseInv'
  BY <1>6, AtCapClose
<1>7. ASSUME NEW c \in Cursors, CommitBump(c) PROVE CloseInv'
  BY <1>7, CommitBumpClose
<1>8. ASSUME NEW c \in Cursors, Scan(c) PROVE CloseInv'
  BY <1>8, ScanClose
<1>9. ASSUME NEW c \in Cursors, TakeMain(c) PROVE CloseInv'
  BY <1>9, TakeMainClose
<1>10. ASSUME NEW c \in Cursors, Detach(c) PROVE CloseInv'
  BY <1>10, DetachClose
<1>11. ASSUME NEW c \in Cursors, StartAttached(c) PROVE CloseInv'
  BY <1>11, StartAttachedClose
<1>12. ASSUME NEW c \in Cursors, StartReclaim(c) PROVE CloseInv'
  BY <1>12, StartReclaimClose
<1>13. ASSUME NEW c \in Cursors, StartElse(c) PROVE CloseInv'
  BY <1>13, StartElseClose
<1>14. ASSUME NEW c \in Cursors, NEW full \in BOOLEAN, Commit(c, full) PROVE CloseInv'
  BY <1>14, CommitClose
<1>15. ASSUME NEW c \in Cursors, Rollback(c) PROVE CloseInv'
  BY <1>15, RollbackClose
<1>16. ASSUME NEW c \in Cursors, Rebuild(c) PROVE CloseInv'
  BY <1>16, RebuildClose
<1>17. ASSUME NEW c \in Cursors, CloseCursor(c) PROVE CloseInv'
  BY <1>17, CloseCursorClose
<1>18. ASSUME TakeSlot PROVE CloseInv'
  BY <1>18, TakeSlotClose
<1>19. ASSUME DoMerge PROVE CloseInv'
  BY <1>19, DoMergeClose
<1>20. ASSUME MergeFails PROVE CloseInv'
  BY <1>20, MergeFailsClose
<1>21. ASSUME PassEnd PROVE CloseInv'
  BY <1>21, PassEndClose
<1>22. ASSUME Release PROVE CloseInv'
  BY <1>22, ReleaseClose
<1>23. ASSUME Recheck PROVE CloseInv'
  BY <1>23, RecheckClose
<1>24. ASSUME Regate PROVE CloseInv'
  BY <1>24, RegateClose
<1>25. ASSUME SweepFires PROVE CloseInv'
  BY <1>25, SweepFiresClose
<1>26. ASSUME DrainSignal PROVE CloseInv'
  BY <1>26, DrainSignalClose
<1>27. ASSUME DrainSchedule PROVE CloseInv'
  BY <1>27, DrainScheduleClose
<1>28. ASSUME Shutdown PROVE CloseInv'
  BY <1>28, ShutdownClose
<1>29. ASSUME Awake PROVE CloseInv'
  BY <1>29, AwakeClose
<1>30. ASSUME Destroyed PROVE CloseInv'
  BY <1>30, DestroyedClose
<1>31. ASSUME Crash PROVE CloseInv'
  BY <1>31, CrashClose
<1>32. ASSUME Finished PROVE CloseInv'
  BY <1>32, FinishedClose
<1>33. ASSUME NEW old, Collect(old) PROVE CloseInv'
  BY <1>33, CollectClose
<1>34. ASSUME NEW all \in BOOLEAN, MergeNow(all) PROVE CloseInv'
  BY <1>34, MergeNowClose
<1>35. CASE UNCHANGED vars
  BY <1>35 DEF vars, CloseInv, ShutQuiet, ShutAt, ListIdle, ToMerge, CoverAll,
     AllMerged, CloseRight
<1> QED
  BY <1>1, <1>2, <1>3, <1>4, <1>5, <1>6, <1>7, <1>8, <1>9, <1>10, <1>11, <1>12, <1>13,
     <1>14, <1>15, <1>16, <1>17, <1>18, <1>19, <1>20, <1>21, <1>22, <1>23, <1>24, <1>25,
     <1>26, <1>27, <1>28, <1>29, <1>30, <1>31, <1>32, <1>33, <1>34, <1>35
     DEF Next, CursorStep, Call, JobStep, LeaveStep, DrainStep, Procs

(* When the destructor of the database has ended, every committed write is  *)
(* in the main database (unless a merge failed) and no task and no sweep is *)
(* left that would use it.                                                  *)
THEOREM CloseTheorem == ASSUME NoCorners PROVE Spec => []CloseRight
<1>1. Init => WriteInv /\ CloseInv
  <2>1. Init => CloseInv
    BY DEF Init, CloseInv, ShutQuiet, ShutAt, ListIdle, ToMerge, CoverAll, AllMerged, CloseRight
  <2> QED
    BY <2>1, WriteInduction
<1>2. WriteInv /\ CloseInv /\ [Next]_vars => WriteInv' /\ CloseInv'
  BY WriteInduction, CloseStep DEF WriteInv
<1>3. CloseInv => CloseRight
  BY DEF CloseInv
<1> QED
  BY <1>1, <1>2, <1>3, PTL DEF Spec

-----------------------------------------------------------------------------
(* A cursor reads every write it must.  The invariant says of every cursor  *)
(* that a write it must see is in its sources or its snapshot or, while it  *)
(* looks for sources, still ahead: in the main database, of which it takes  *)
(* the snapshot last, or in a readable slot that it has yet to look at.     *)
Reaches(c, w) ==
    \/ w[1] = c \/ \E s \in src[c] : w \in trie[s]
    \/ /\ pc[c] = "scan"
       /\ w \in main \/ \E s \in Slots : s >= at[c] /\ st[s] \in Readable /\ w \in trie[s]
    \/ pc[c] # "scan" /\ w \in snap[c]

(* Cursor c reaches what was committed when it began to look, and, if its   *)
(* epoch is the current one, all that is committed.                         *)
WantAt(c) == \A w \in want[c] : Reaches(c, w)
AckAt(c)  == ~stale[c] => \A w \in acked : Reaches(c, w)
(* The slot of cursor d that may get more writes without the epoch telling. *)
Told(d)   == own[d] # 0 /\ st[own[d]] \in Readable /\ pc[d] \notin {"bump", "bump_full"}
SeenAt(c) ==
    ~stale[c] => \A d \in Cursors \ {c} :
        Told(d) => own[d] \in src[c] \/ (pc[c] = "scan" /\ at[c] <= own[d])
ReadInv   == \A c \in Cursors : WantAt(c) /\ AckAt(c) /\ SeenAt(c)

(* What every step but a crash keeps: a write in the main database; one in  *)
(* a readable slot, unless the slot is merged; one in a source of a cursor. *)
Keeps ==
    /\ main \subseteq main'
    /\ \A s \in Slots : st[s] \in Readable =>
          \A w \in trie[s] : w \in main' \/ (st'[s] \in Readable /\ w \in trie'[s])
    /\ \A c \in Cursors : \A s \in src[c] : trie[s] \subseteq trie'[s]
(* No slot comes to be of the kind of Told. *)
NoNews == \A d \in Cursors : Told(d)' => Told(d) /\ own'[d] = own[d]
(* Cursor c has the sources it had. *)
SameReader(c) ==
    /\ src'[c] = src[c] /\ snap'[c] = snap[c] /\ at'[c] = at[c]
    /\ pc'[c] = "scan" <=> pc[c] = "scan"
Quiet(c) == SameReader(c) /\ want'[c] = want[c] /\ (stale'[c] \/ stale'[c] = stale[c])

(* What the type invariant says of the sources of a cursor. *)
LEMMA ReaderKinds ==
    TypeInv =>
        /\ src \in [Cursors -> SUBSET Slots] /\ at \in [Cursors -> Nat]
        /\ DOMAIN snap = Cursors /\ DOMAIN want = Cursors /\ stale \in [Cursors -> BOOLEAN]
        /\ pc \in [Cursors -> CursorPoints]
BY DEF TypeInv, CursorTypes

(* What a cursor reaches it still reaches after a step that leaves its      *)
(* sources alone.                                                           *)
LEMMA ReachKept ==
    ASSUME TypeInv, Keeps, NEW c \in Cursors, SameReader(c), NEW w, Reaches(c, w)
    PROVE  Reaches(c, w)'
<1>0. src[c] \subseteq Slots
  BY ReaderKinds
<1>1. CASE w[1] = c
  BY <1>1 DEF Reaches
<1>2. CASE \E s \in src[c] : w \in trie[s]
  BY <1>2 DEF Reaches, Keeps, SameReader
<1>3. CASE pc[c] = "scan" /\ w \in main
  BY <1>3 DEF Reaches, Keeps, SameReader
<1>4. CASE pc[c] = "scan" /\ \E s \in Slots : s >= at[c] /\ st[s] \in Readable /\ w \in trie[s]
  <2>1. PICK s \in Slots : s >= at[c] /\ st[s] \in Readable /\ w \in trie[s]
    BY <1>4
  <2>2. w \in main' \/ (st'[s] \in Readable /\ w \in trie'[s])
    BY <2>1 DEF Keeps
  <2> QED
    BY <1>4, <2>1, <2>2 DEF Reaches, SameReader
<1>5. CASE pc[c] # "scan" /\ w \in snap[c]
  BY <1>5 DEF Reaches, SameReader
<1> QED
  BY <1>1, <1>2, <1>3, <1>4, <1>5 DEF Reaches

(* A cursor that a step leaves alone reaches what it must. *)
LEMMA QuietWant ==
    ASSUME TypeInv, Keeps, NEW c \in Cursors, Quiet(c), WantAt(c)
    PROVE  WantAt(c)'
BY ReachKept DEF WantAt, Quiet

(* The same of all that is committed, if the step commits nothing. *)
LEMMA QuietAck ==
    ASSUME TypeInv, Keeps, NEW c \in Cursors, Quiet(c), AckAt(c), acked' = acked
    PROVE  AckAt(c)'
BY ReachKept DEF AckAt, Quiet

(* The same of the slots of the others. *)
LEMMA QuietSeen ==
    ASSUME NoNews, NEW c \in Cursors, Quiet(c), SeenAt(c)
    PROVE  SeenAt(c)'
BY DEF SeenAt, Quiet, SameReader, NoNews

(* A step that leaves all cursors alone and commits nothing. *)
LEMMA QuietStep ==
    ASSUME TypeInv, Keeps, NoNews, ReadInv, acked' = acked, \A c \in Cursors : Quiet(c)
    PROVE  ReadInv'
BY QuietWant, QuietAck, QuietSeen DEF ReadInv

(* A step that leaves all cursors but one alone. *)
LEMMA OtherReaders ==
    ASSUME TypeInv, Keeps, NoNews, ReadInv, acked' = acked, NEW c \in Cursors,
           \A d \in Cursors \ {c} : Quiet(d), WantAt(c)', AckAt(c)', SeenAt(c)'
    PROVE  ReadInv'
BY QuietWant, QuietAck, QuietSeen DEF ReadInv

(* A cursor that has let go of its sources must see nothing. *)
LEMMA Forgets ==
    ASSUME NEW c \in Cursors, want'[c] = {}, stale'[c]
    PROVE  WantAt(c)' /\ AckAt(c)' /\ SeenAt(c)'
BY DEF WantAt, AckAt, SeenAt

(* _unpin_slot() keeps the types: it gives back, looks or recycles. *)
LEMMA UnpinKeeps ==
    ASSUME NoCorners, TypeInv, PinsExact, OwnerInv, DataInv, NEW p \in Procs, Unpin(p)
    PROVE  Keeps /\ NoNews
<1> DEFINE t == Min(drop[p])
<1>a. drop[p] # {} /\ t \in drop[p] /\ t \in Slots /\ GiveBack(p, t)
  <2>1. drop[p] # {} /\ GiveBack(p, t)
    BY DEF Unpin, OwnerInv, NoWindow
  <2> QED
    BY <2>1, SlotMin DEF TypeInv, PinTypes
<1> HIDE DEF t
<1>b. refs[t] >= 1 /\ (refs[t] = 1 => ~InUse(t) /\ ~(job = "merging" /\ t = Slot1))
  BY <1>a, LastPin DEF InUse
<1>d. /\ refs' = [refs EXCEPT ![t] = @ - 1]
      /\ \/ UNCHANGED <<st, trie>> /\ (refs[t] = 1 => st[t] # "MERGED")
         \/ /\ refs[t] = 1 /\ st[t] = "MERGED"
            /\ st' = [st EXCEPT ![t] = "EMPTY"] /\ trie' = [trie EXCEPT ![t] = {}]
  BY <1>a, <1>b DEF GiveBack, Recycle, NoCorners
<1>e. UNCHANGED <<own, pc, main>>
  BY DEF Unpin
<1>1. Keeps
  <2>1. main' = main
    BY <1>a, <1>b, <1>d, <1>e DEF InUse
  <2>2. ASSUME NEW s \in Slots, st[s] \in Readable
        PROVE  trie'[s] = trie[s] /\ st'[s] \in Readable
    BY <1>a, <1>b, <1>d, <1>e, <2>2, Kinds DEF InUse, Readable
  <2>3. ASSUME NEW d \in Cursors, NEW s \in src[d]
        PROVE  trie[s] \subseteq trie'[s]
    <3>1. s \in Slots
      BY ReaderKinds
    <3> QED
      BY <1>a, <1>b, <1>d, <1>e, <3>1, Kinds DEF InUse
  <2> QED
    BY <2>1, <2>2, <2>3 DEF Keeps
<1>2. NoNews
  BY <1>a, <1>b, <1>d, <1>e, Kinds DEF NoNews, Told, Readable
<1> QED
  BY <1>1, <1>2

(* The cursor counts up _merge_signal. *)
LEMMA CursorSignalKeeps ==
    ASSUME NoCorners, TypeInv, PinsExact, OwnerInv, DataInv, NEW c \in Cursors, CursorSignal(c)
    PROVE  Keeps /\ NoNews
<1>1. Keeps
  BY DEF CursorSignal, Signal, Keeps, Readable
<1>2. NoNews
  BY DEF CursorSignal, Signal, NoNews, Told, Readable
<1> QED
  BY <1>1, <1>2

(* The cursor schedules the merge task. *)
LEMMA CursorScheduleKeeps ==
    ASSUME NoCorners, TypeInv, PinsExact, OwnerInv, DataInv, NEW c \in Cursors, CursorSchedule(c)
    PROVE  Keeps /\ NoNews
<1>a. then[c] \in {"ready", "claim", "closed"}
  BY DEF TypeInv, CursorTypes
<1>1. Keeps
  BY <1>a DEF CursorSchedule, ScheduleTask, Keeps, Readable
<1>2. NoNews
  BY <1>a DEF CursorSchedule, ScheduleTask, NoNews, Told, Readable
<1> QED
  BY <1>1, <1>2

(* _try_claim(): an empty slot that is published. *)
LEMMA TryClaimKeeps ==
    ASSUME NoCorners, TypeInv, PinsExact, OwnerInv, DataInv, NEW c \in Cursors, TryClaim(c)
    PROVE  Keeps /\ NoNews
<1>a. PICK t \in Slots : st[t] = "EMPTY" /\ Claimed(c, t)
  BY DEF TryClaim, TypeInv, CountInv
<1>b. refs[t] = 0 /\ \A d \in Cursors : own[d] # t
  <2>1. refs[t] = 0
    BY <1>a DEF OwnerInv, EmptyFree
  <2> QED
    BY <2>1, Unheld
<1>e. trie[t] = {}
  BY <1>a DEF OwnerInv, EmptyFree
<1>d. /\ st' = [st EXCEPT ![t] = "FIRST_WRITING"] /\ own' = [own EXCEPT ![c] = t]
      /\ refs' = [refs EXCEPT ![t] = @ + 1] /\ in' = [in EXCEPT ![c] = TRUE]
      /\ pc' = [pc EXCEPT ![c] = "ready"] /\ UNCHANGED <<trie, main>>
  BY <1>a DEF Claimed
<1>1. Keeps
  BY <1>a, <1>d, Kinds DEF Keeps, Readable
<1>2. NoNews
  BY <1>a, <1>d, Kinds DEF NoNews, Told, Readable
<1> QED
  BY <1>1, <1>2

(* _alloc_new_slot() publishes one slot more. *)
LEMMA AllocNewSlotKeeps ==
    ASSUME NoCorners, TypeInv, PinsExact, OwnerInv, DataInv, NEW c \in Cursors, AllocNewSlot(c)
    PROVE  Keeps /\ NoNews
<1>a. PICK t \in Slots : st[t] = "EMPTY" /\ Claimed(c, t)
  <2>1. count + 1 \in Slots /\ Claimed(c, count + 1)
    BY DEF AllocNewSlot, TypeInv, CountInv
  <2>2. st[count + 1] = "EMPTY"
    BY <2>1 DEF TypeInv, CountInv, SlotTypes
  <2> QED
    BY <2>1, <2>2
<1>b. refs[t] = 0 /\ \A d \in Cursors : own[d] # t
  <2>1. refs[t] = 0
    BY <1>a DEF OwnerInv, EmptyFree
  <2> QED
    BY <2>1, Unheld
<1>e. trie[t] = {}
  BY <1>a DEF OwnerInv, EmptyFree
<1>d. /\ st' = [st EXCEPT ![t] = "FIRST_WRITING"] /\ own' = [own EXCEPT ![c] = t]
      /\ refs' = [refs EXCEPT ![t] = @ + 1] /\ in' = [in EXCEPT ![c] = TRUE]
      /\ pc' = [pc EXCEPT ![c] = "ready"] /\ UNCHANGED <<trie, main>>
  BY <1>a DEF Claimed
<1>1. Keeps
  BY <1>a, <1>d, Kinds DEF Keeps, Readable
<1>2. NoNews
  BY <1>a, <1>d, Kinds DEF NoNews, Told, Readable
<1> QED
  BY <1>1, <1>2

(* All slots are taken: the sources go to drop. *)
LEMMA AtCapKeeps ==
    ASSUME NoCorners, TypeInv, PinsExact, OwnerInv, DataInv, NEW c \in Cursors, AtCap(c)
    PROVE  Keeps /\ NoNews
<1>1. Keeps
  BY DEF AtCap, Keeps, Readable
<1>2. NoNews
  BY DEF AtCap, NoNews, Told, Readable
<1> QED
  BY <1>1, <1>2

(* commit() after the epoch: the slot goes to drop or stays. *)
LEMMA CommitBumpKeeps ==
    ASSUME NoCorners, TypeInv, PinsExact, OwnerInv, DataInv, NEW c \in Cursors, CommitBump(c)
    PROVE  Keeps
<1>a. own[c] \in Slots /\ refs[own[c]] # 0
  <2>1. own[c] \in Slots
    BY DEF CommitBump, TypeInv, CountInv, CursorTypes, PlaceInv
  <2> QED
    BY <2>1, HeldPinned
<1>b. st[own[c]] \in {"ATTACHED", "MERGING", "MERGED"}
  BY DEF CommitBump, OwnerInv, BumpHas
<1>1. Keeps
  BY <1>a, <1>b DEF CommitBump, BumpEpoch, EndCommit, Keeps, Readable
<1> QED
  BY <1>1

(* fill_sources_lockfree(): the next slot, which is above all the sources. *)
LEMMA ScanKeeps ==
    ASSUME NoCorners, TypeInv, PinsExact, OwnerInv, DataInv, NEW c \in Cursors, Scan(c)
    PROVE  Keeps /\ NoNews
<1>a. at[c] \in Slots
  BY DEF Scan, TypeInv, CountInv, CursorTypes, PlaceInv
<1>1. Keeps
  BY <1>a DEF Scan, PinSource, Keeps, Readable
<1>2. NoNews
  BY <1>a, Kinds DEF Scan, PinSource, NoNews, Told, Readable
<1> QED
  BY <1>1, <1>2

(* The snapshot of the main database ends the look for sources. *)
LEMMA TakeMainKeeps ==
    ASSUME NoCorners, TypeInv, PinsExact, OwnerInv, DataInv, NEW c \in Cursors, TakeMain(c)
    PROVE  Keeps /\ NoNews
<1>1. Keeps
  BY DEF TakeMain, Keeps, Readable
<1>2. NoNews
  BY DEF TakeMain, NoNews, Told, Readable
<1> QED
  BY <1>1, <1>2

(* _release_write_source() looks at the state or lets go of the slot. *)
LEMMA DetachKeeps ==
    ASSUME NoCorners, TypeInv, PinsExact, OwnerInv, DataInv, NEW c \in Cursors, Detach(c)
    PROVE  Keeps /\ NoNews
<1>a. own[c] \in Slots /\ refs[own[c]] # 0
  <2>1. own[c] \in Slots
    BY DEF Detach, TypeInv, CountInv, CursorTypes, PlaceInv
  <2> QED
    BY <2>1, HeldPinned
<1>1. Keeps
  BY <1>a, Kinds DEF Detach, GiveUp, Keeps, Readable
<1>2. NoNews
  BY <1>a, Kinds, ReaderKinds DEF Detach, GiveUp, NoNews, Told, Readable, OwnerInv,
     OwnOnce
<1> QED
  BY <1>1, <1>2

(* start_transaction() in the slot of the last transaction. *)
LEMMA StartAttachedKeeps ==
    ASSUME NoCorners, TypeInv, PinsExact, OwnerInv, DataInv, NEW c \in Cursors, StartAttached(c)
    PROVE  Keeps /\ NoNews
<1>a. own[c] \in Slots /\ refs[own[c]] # 0
  <2>1. own[c] \in Slots
    BY DEF StartAttached, TypeInv, CountInv, CursorTypes
  <2> QED
    BY <2>1, HeldPinned
<1>1. Keeps
  BY <1>a DEF StartAttached, Begins, Keeps, Readable
<1>2. NoNews
  BY <1>a DEF StartAttached, Begins, NoNews, Told, Readable
<1> QED
  BY <1>1, <1>2

(* start_transaction() with a merged slot made new in place. *)
LEMMA StartReclaimKeeps ==
    ASSUME NoCorners, TypeInv, PinsExact, OwnerInv, DataInv, NEW c \in Cursors, StartReclaim(c)
    PROVE  Keeps /\ NoNews
<1>a. own[c] \in Slots /\ refs[own[c]] # 0
  <2>1. own[c] \in Slots
    BY DEF StartReclaim, TypeInv, CountInv, CursorTypes
  <2> QED
    BY <2>1, HeldPinned
<1>b. \A d \in Cursors : own[c] \notin src[d]
  BY DEF StartReclaim, NoCorners
<1>1. Keeps
  <2>1. main' = main
    BY <1>a, <1>b DEF StartReclaim
  <2>2. ASSUME NEW s \in Slots, st[s] \in Readable
        PROVE  trie'[s] = trie[s] /\ st'[s] \in Readable
    BY <1>a, <1>b, <2>2, Kinds DEF StartReclaim, Readable
  <2>3. ASSUME NEW d \in Cursors, NEW s \in src[d]
        PROVE  trie[s] \subseteq trie'[s]
    <3>1. s \in Slots
      BY ReaderKinds
    <3> QED
      BY <1>a, <1>b, <3>1, Kinds DEF StartReclaim
  <2> QED
    BY <2>1, <2>2, <2>3 DEF Keeps
<1>2. NoNews
  BY <1>a, <1>b DEF StartReclaim, Begins, NoNews, Told, Readable
<1> QED
  BY <1>1, <1>2

(* start_transaction() that has to claim another slot. *)
LEMMA StartElseKeeps ==
    ASSUME NoCorners, TypeInv, PinsExact, OwnerInv, DataInv, NEW c \in Cursors, StartElse(c)
    PROVE  Keeps /\ NoNews
<1>1. Keeps
  BY DEF StartElse, Begins, Keeps, Readable
<1>2. NoNews
  BY DEF StartElse, Begins, NoNews, Told, Readable
<1> QED
  BY <1>1, <1>2

(* commit() of the tributary and W1. *)
LEMMA CommitKeeps ==
    ASSUME NoCorners, TypeInv, PinsExact, OwnerInv, DataInv, NEW c \in Cursors, NEW full \in BOOLEAN, Commit(c, full)
    PROVE  Keeps /\ NoNews
<1>a. own[c] \in Slots /\ refs[own[c]] # 0
  <2>1. own[c] \in Slots
    BY DEF Commit, TypeInv, CountInv, CursorTypes, PlaceInv
  <2> QED
    BY <2>1, HeldPinned
<1>b. NextWrite(c)[1] = c
  BY DEF NextWrite
<1>d. st[own[c]] \in {"FIRST_WRITING", "WRITING"} /\ \A d \in Cursors : own[d] = own[c] => d = c
  BY <1>a DEF Commit, OwnerInv, TxnWrites, OwnOnce
<1>e. st[own[c]] = "FIRST_WRITING" => trie[own[c]] = {}
  BY <1>a DEF DataInv, FreshIs
<1>1. Keeps
  BY <1>a, <1>b, <1>d, <1>e DEF Commit, EndCommit, Keeps, Readable
<1>2. NoNews
  BY <1>a, <1>b, <1>d, <1>e, Kinds DEF Commit, EndCommit, NoNews, Told, Readable
<1> QED
  BY <1>1, <1>2

(* rollback() attaches the slot or hands it over. *)
LEMMA RollbackKeeps ==
    ASSUME NoCorners, TypeInv, PinsExact, OwnerInv, DataInv, NEW c \in Cursors, Rollback(c)
    PROVE  Keeps /\ NoNews
<1>a. own[c] \in Slots /\ refs[own[c]] # 0
  <2>1. own[c] \in Slots
    BY DEF Rollback, TypeInv, CountInv, CursorTypes, PlaceInv
  <2> QED
    BY <2>1, HeldPinned
<1>b. st[own[c]] \in {"FIRST_WRITING", "WRITING"}
  BY DEF Rollback, OwnerInv, TxnWrites
<1>d. st[own[c]] = "FIRST_WRITING" => trie[own[c]] = {}
  BY <1>a DEF DataInv, FreshIs
<1>1. Keeps
  BY <1>a, <1>b, <1>d DEF Rollback, EndCommit, Keeps, Readable
<1>2. NoNews
  BY <1>a, <1>b, <1>d, Kinds, ReaderKinds DEF Rollback, EndCommit, NoNews, Told,
     Readable, OwnerInv, OwnOnce
<1> QED
  BY <1>1, <1>2

(* _ensure_sources() begins: the old sources go to drop. *)
LEMMA RebuildKeeps ==
    ASSUME NoCorners, TypeInv, PinsExact, OwnerInv, DataInv, NEW c \in Cursors, Rebuild(c)
    PROVE  Keeps /\ NoNews
<1>1. Keeps
  BY DEF Rebuild, Keeps, Readable
<1>2. NoNews
  BY DEF Rebuild, NoNews, Told, Readable
<1> QED
  BY <1>1, <1>2

(* The destructor of a cursor begins: the sources go to drop. *)
LEMMA CloseCursorKeeps ==
    ASSUME NoCorners, TypeInv, PinsExact, OwnerInv, DataInv, NEW c \in Cursors, CloseCursor(c)
    PROVE  Keeps /\ NoNews
<1>1. Keeps
  BY DEF CloseCursor, Keeps, Readable
<1>2. NoNews
  BY DEF CloseCursor, NoNews, Told, Readable
<1> QED
  BY <1>1, <1>2

(* merge_tributary() takes the first slot of the list or passes it. *)
LEMMA TakeSlotKeeps ==
    ASSUME NoCorners, TypeInv, PinsExact, OwnerInv, DataInv, TakeSlot
    PROVE  Keeps /\ NoNews
<1>a. Slot1 \in list /\ Slot1 \in Slots
  BY SlotMin DEF TakeSlot, Slot1, TypeInv, JobTypes
<1>1. Keeps
  BY <1>a, Kinds DEF TakeSlot, Keeps, Readable
<1>2. NoNews
  BY <1>a, Kinds DEF TakeSlot, NoNews, Told, Readable
<1> QED
  BY <1>1, <1>2

(* _do_merge(): the slot is merged and its pin goes to drop. *)
LEMMA DoMergeKeeps ==
    ASSUME NoCorners, TypeInv, PinsExact, OwnerInv, DataInv, DoMerge
    PROVE  Keeps /\ NoNews
<1>a. Slot1 \in list /\ Slot1 \in Slots
  BY SlotMin DEF DoMerge, Slot1, TypeInv, JobTypes
<1>b. st[Slot1] = "MERGING"
  BY DEF DoMerge, OwnerInv, MergeHas
<1>1. Keeps
  BY <1>a, <1>b DEF DoMerge, BumpEpoch, Keeps, Readable
<1>2. NoNews
  BY <1>a, <1>b DEF DoMerge, BumpEpoch, NoNews, Told, Readable
<1> QED
  BY <1>1, <1>2

(* _do_merge() throws: the slot is attached again. *)
LEMMA MergeFailsKeeps ==
    ASSUME NoCorners, TypeInv, PinsExact, OwnerInv, DataInv, MergeFails
    PROVE  Keeps /\ NoNews
<1>a. Slot1 \in list /\ Slot1 \in Slots
  BY SlotMin DEF MergeFails, Slot1, TypeInv, JobTypes
<1>b. st[Slot1] = "MERGING"
  BY DEF MergeFails, OwnerInv, MergeHas
<1>1. Keeps
  BY <1>a, <1>b DEF MergeFails, Keeps, Readable
<1>2. NoNews
  BY <1>a, <1>b DEF MergeFails, NoNews, Told, Readable
<1> QED
  BY <1>1, <1>2

(* A step that leaves the slots and the places alone. *)
LEMMA StillKeeps == UNCHANGED <<main, st, trie, own, pc>> => Keeps /\ NoNews
BY DEF Keeps, NoNews, Told

(* _ensure_sources() begins: what is committed is in the main database or   *)
(* in a readable slot, and the cursor has looked at none.                   *)
LEMMA RebuildReads ==
    ASSUME NoCorners, TypeInv, PinsExact, OwnerInv, DataInv, ReadInv, NEW c \in Cursors, Rebuild(c)
    PROVE  ReadInv'
<1>1. Keeps /\ NoNews
  BY RebuildKeeps
<1>2. acked' = acked /\ \A d \in Cursors \ {c} : Quiet(d)
  BY ReaderKinds DEF Rebuild, Quiet, SameReader
<1>3. /\ want'[c] = acked /\ src'[c] = {} /\ at'[c] = 1 /\ pc'[c] = "scan"
      /\ UNCHANGED <<main, st, trie, acked, own>>
  BY ReaderKinds DEF Rebuild
<1>4. \A w \in acked : Reaches(c, w)'
  <2> SUFFICES ASSUME NEW w \in acked PROVE Reaches(c, w)'
    OBVIOUS
  <2>1. w \in main \/ \E s \in Slots : st[s] \in Readable /\ w \in trie[s]
    BY DEF DataInv, Kept
  <2> QED
    BY <1>3, <2>1 DEF Reaches
<1>5. WantAt(c)' /\ AckAt(c)'
  BY <1>3, <1>4 DEF WantAt, AckAt
<1>6. SeenAt(c)'
  <2>1. \A d \in Cursors : own[d] # 0 => own[d] \in Slots
    BY Kinds
  <2>2. \A d \in Cursors : Told(d)' => own'[d] >= 1
    BY <1>3, <2>1 DEF Told
  <2> QED
    BY <1>3, <2>2 DEF SeenAt
<1> QED
  BY <1>1, <1>2, <1>5, <1>6, OtherReaders

(* fill_sources_lockfree(): a slot that is passed over holds nothing to see *)
(* or is the cursor's own; one that is readable becomes a source.           *)
LEMMA ScanReads ==
    ASSUME NoCorners, TypeInv, PinsExact, OwnerInv, DataInv, ReadInv, NEW c \in Cursors, Scan(c)
    PROVE  ReadInv'
<1> DEFINE t == at[c]
<1>1. Keeps /\ NoNews
  BY ScanKeeps
<1>2. acked' = acked /\ \A d \in Cursors \ {c} : Quiet(d)
  BY ReaderKinds DEF Scan, PinSource, Quiet, SameReader
<1>3. pc[c] = "scan" /\ t \in Nat
  BY ReaderKinds DEF Scan, OwnerInv, NoWindow
<1>4. /\ at'[c] = t + 1 /\ pc'[c] = "scan"
      /\ UNCHANGED <<main, st, trie, acked, own, want, stale>>
      /\ \/ src'[c] = src[c] \cup {t}
         \/ src'[c] = src[c] /\ (st[t] \notin Readable \/ t = own[c])
  BY <1>3, ReaderKinds DEF Scan, PinSource, NoCorners
<1>t. \A d \in Cursors \ {c} : pc'[d] = pc[d]
  BY ReaderKinds DEF Scan, PinSource
<1> HIDE DEF t
<1>5. t = own[c] => t # 0
  BY DEF t, Scan, TypeInv, PlaceInv
<1>6. ASSUME NEW w, Reaches(c, w) PROVE Reaches(c, w)'
  <2>1. CASE \E s \in Slots : s >= t /\ st[s] \in Readable /\ w \in trie[s]
    <3>1. PICK s \in Slots : s >= t /\ st[s] \in Readable /\ w \in trie[s]
      BY <2>1
    <3>2. CASE s = t
      <4>1. t = own[c] => w[1] = c
        BY <1>5, <3>1, <3>2 DEF DataInv, OwnWrites
      <4> QED
        BY <1>4, <3>1, <3>2, <4>1 DEF Reaches
    <3>3. CASE s # t
      <4>1. s >= t + 1
        BY <1>3, <3>1, <3>3
      <4> QED
        BY <1>4, <3>1, <4>1 DEF Reaches
    <3> QED
      BY <3>2, <3>3
  <2>2. CASE w[1] = c \/ \E s \in src[c] : w \in trie[s]
    BY <1>4, <2>2 DEF Reaches
  <2>3. CASE w \in main
    BY <1>4, <2>3 DEF Reaches
  <2> QED
    BY <1>3, <1>6, <2>1, <2>2, <2>3 DEF Reaches, t
<1>7. WantAt(c)' /\ AckAt(c)'
  BY <1>4, <1>6 DEF ReadInv, WantAt, AckAt
<1>8. SeenAt(c)'
  <2> SUFFICES ASSUME ~stale[c], NEW d \in Cursors \ {c}, Told(d)'
               PROVE  own[d] \in src'[c] \/ t + 1 <= own[d]
    BY <1>4 DEF SeenAt
  <2>1. Told(d) /\ own[d] \in Nat /\ own[d] # own[c]
    <3>1. Told(d)
      BY <1>1 DEF NoNews
    <3> QED
      BY <3>1, Kinds DEF Told, OwnerInv, OwnOnce
  <2>2. own[d] \in src[c] \/ t <= own[d]
    BY <2>1 DEF ReadInv, SeenAt, t
  <2>3. CASE own[d] = t
    BY <1>4, <2>1, <2>3 DEF Told
  <2> QED
    BY <1>3, <1>4, <2>1, <2>2, <2>3
<1> QED
  BY <1>1, <1>2, <1>7, <1>8, OtherReaders

(* The snapshot of the main database is taken when every published slot has *)
(* been looked at: nothing is left ahead.                                   *)
LEMMA TakeMainReads ==
    ASSUME NoCorners, TypeInv, PinsExact, OwnerInv, DataInv, ReadInv, NEW c \in Cursors, TakeMain(c)
    PROVE  ReadInv'
<1>1. Keeps /\ NoNews
  BY TakeMainKeeps
<1>2. acked' = acked /\ \A d \in Cursors \ {c} : Quiet(d)
  BY ReaderKinds DEF TakeMain, Quiet, SameReader
<1>3. /\ pc[c] = "scan" /\ at[c] \in Nat /\ at[c] > count /\ pc'[c] = "ready" /\ snap'[c] = main
      /\ UNCHANGED <<main, st, trie, acked, own, want, stale, src>>
  BY ReaderKinds DEF TakeMain
<1>4. \A s \in Slots : s >= at[c] => st[s] \notin Readable
  <2>1. \A s \in Slots : st[s] # "EMPTY" => s <= count
    BY DEF TypeInv, SlotTypes
  <2>2. count \in Nat
    BY DEF TypeInv, CountInv
  <2> QED
    BY <1>3, <2>1, <2>2 DEF Readable
<1>5. ASSUME NEW w, Reaches(c, w) PROVE Reaches(c, w)'
  BY <1>3, <1>4, <1>5 DEF Reaches
<1>6. WantAt(c)' /\ AckAt(c)'
  BY <1>3, <1>5 DEF ReadInv, WantAt, AckAt
<1>7. SeenAt(c)'
  <2> SUFFICES ASSUME ~stale[c], NEW d \in Cursors \ {c}, Told(d)'
               PROVE  own[d] \in src[c]
    BY <1>3 DEF SeenAt
  <2>1. Told(d)
    BY <1>1 DEF NoNews
  <2>2. own[d] \in src[c] \/ at[c] <= own[d]
    BY <2>1 DEF ReadInv, SeenAt
  <2>3. own[d] \in Slots /\ st[own[d]] \in Readable
    BY <2>1, Kinds DEF Told
  <2> QED
    BY <1>3, <1>4, <2>2, <2>3
<1> QED
  BY <1>1, <1>2, <1>6, <1>7, OtherReaders

(* All slots are taken: the cursor has let go of its sources. *)
LEMMA AtCapReads ==
    ASSUME NoCorners, TypeInv, PinsExact, OwnerInv, DataInv, ReadInv, NEW c \in Cursors, AtCap(c)
    PROVE  ReadInv'
<1>1. Keeps /\ NoNews
  BY AtCapKeeps
<1>2. acked' = acked /\ \A d \in Cursors \ {c} : Quiet(d)
  BY ReaderKinds DEF AtCap, Quiet, SameReader
<1>3. want'[c] = {} /\ stale'[c]
  BY ReaderKinds DEF AtCap
<1> QED
  BY <1>1, <1>2, <1>3, Forgets, OtherReaders

(* So has the cursor that is being destroyed. *)
LEMMA CloseCursorReads ==
    ASSUME NoCorners, TypeInv, PinsExact, OwnerInv, DataInv, ReadInv, NEW c \in Cursors, CloseCursor(c)
    PROVE  ReadInv'
<1>1. Keeps /\ NoNews
  BY CloseCursorKeeps
<1>2. acked' = acked /\ \A d \in Cursors \ {c} : Quiet(d)
  BY ReaderKinds DEF CloseCursor, Quiet, SameReader
<1>3. want'[c] = {} /\ stale'[c]
  BY ReaderKinds DEF CloseCursor
<1> QED
  BY <1>1, <1>2, <1>3, Forgets, OtherReaders

(* commit(): what it tells the readers of at once is in a slot that every   *)
(* reader with the current epoch has or will look at.                       *)
LEMMA CommitReads ==
    ASSUME NoCorners, TypeInv, PinsExact, OwnerInv, DataInv, ReadInv, NEW c \in Cursors,
           NEW full \in BOOLEAN, Commit(c, full)
    PROVE  ReadInv'
<1> DEFINE new == NextWrite(c)
<1>1. Keeps /\ NoNews
  BY CommitKeeps
<1>2. \A d \in Cursors : Quiet(d)
  BY ReaderKinds DEF Commit, EndCommit, Quiet, SameReader
<1>3. \A d \in Cursors : WantAt(d)' /\ SeenAt(d)'
  BY <1>1, <1>2, QuietWant, QuietSeen DEF ReadInv
<1>4. ASSUME NEW d \in Cursors PROVE AckAt(d)'
  <2> SUFFICES ASSUME ~stale[d], NEW w \in acked' PROVE Reaches(d, w)'
    BY DEF AckAt, Commit
  <2>1. CASE w \in acked
    <3>1. Reaches(d, w)
      BY <2>1 DEF ReadInv, AckAt
    <3> QED
      BY <1>1, <1>2, <3>1, ReachKept DEF Quiet
  <2>2. CASE w \notin acked
    <3>1. w = new /\ st[own[c]] # "FIRST_WRITING"
      BY <2>2 DEF Commit, EndCommit
    <3>2. new[1] = c
      BY DEF NextWrite
    <3>3. own[c] # 0 /\ own[c] \in Slots /\ st[own[c]] = "WRITING" /\ pc[c] = "ready"
      BY <3>1, Kinds DEF Commit, OwnerInv, TxnWrites
    <3>4. Told(c)
      BY <3>3 DEF Told, Readable
    <3>5. new \in trie'[own[c]] /\ st'[own[c]] \in Readable
      BY <3>3, Kinds DEF Commit, Readable
    <3>6. d # c => own[c] \in src[d] \/ (pc[d] = "scan" /\ at[d] <= own[c])
      BY <3>4 DEF ReadInv, SeenAt
    <3>7. at[d] \in Nat /\ own[c] \in Nat
      BY <3>3, ReaderKinds
    <3> HIDE DEF new
    <3>8. SameReader(d)
      BY <1>2 DEF Quiet
    <3> QED
      BY <3>1, <3>2, <3>3, <3>5, <3>6, <3>7, <3>8 DEF Reaches, SameReader
  <2> QED
    BY <2>1, <2>2
<1> QED
  BY <1>3, <1>4 DEF ReadInv

(* commit() of the first write in a slot: the epoch makes every reader look *)
(* again.                                                                   *)
LEMMA CommitBumpReads ==
    ASSUME NoCorners, TypeInv, PinsExact, OwnerInv, DataInv, ReadInv, NEW c \in Cursors, CommitBump(c)
    PROVE  ReadInv'
<1>1. Keeps
  BY CommitBumpKeeps
<1>2. \A d \in Cursors : Quiet(d) /\ stale'[d]
  BY ReaderKinds DEF CommitBump, BumpEpoch, EndCommit, Quiet, SameReader
<1> QED
  BY <1>1, <1>2, QuietWant DEF ReadInv, AckAt, SeenAt

(* After a crash no cursor has sources. *)
LEMMA CrashReads == Crash => ReadInv'
BY DEF Crash, ReadInv, WantAt, AckAt, SeenAt

(* Every step keeps ReadInv. *)
LEMMA ReadStep == NoCorners /\ TypeInv /\ PinsExact /\ OwnerInv /\ DataInv /\ ReadInv
                      /\ [Next]_vars => ReadInv'
<1> SUFFICES ASSUME NoCorners, TypeInv, PinsExact, OwnerInv, DataInv, ReadInv, [Next]_vars
             PROVE  ReadInv'
  OBVIOUS
<1>1. ASSUME NEW p \in Procs, Unpin(p) PROVE ReadInv'
  <2>1. Keeps /\ NoNews
    BY <1>1, UnpinKeeps
  <2>2. acked' = acked /\ \A d \in Cursors : Quiet(d)
    BY <1>1, ReaderKinds DEF Unpin, Recycle, GiveBack, Quiet, SameReader
  <2> QED
    BY <2>1, <2>2, QuietStep
<1>2. ASSUME NEW c \in Cursors, CursorSignal(c) PROVE ReadInv'
  <2>1. Keeps /\ NoNews
    BY <1>2, CursorSignalKeeps
  <2>2. acked' = acked /\ \A d \in Cursors : Quiet(d)
    BY <1>2, ReaderKinds DEF CursorSignal, Signal, Quiet, SameReader
  <2> QED
    BY <2>1, <2>2, QuietStep
<1>3. ASSUME NEW c \in Cursors, CursorSchedule(c) PROVE ReadInv'
  <2>1. Keeps /\ NoNews
    BY <1>3, CursorScheduleKeeps
  <2>2. acked' = acked /\ \A d \in Cursors : Quiet(d)
    <3>1. then[c] \in {"ready", "claim", "closed"}
      BY DEF TypeInv, CursorTypes
    <3> QED
      BY <1>3, <3>1, ReaderKinds DEF CursorSchedule, Quiet, SameReader
  <2> QED
    BY <2>1, <2>2, QuietStep
<1>4. ASSUME NEW c \in Cursors, TryClaim(c) PROVE ReadInv'
  <2>1. Keeps /\ NoNews
    BY <1>4, TryClaimKeeps
  <2>2. acked' = acked /\ \A d \in Cursors : Quiet(d)
    BY <1>4, ReaderKinds DEF TryClaim, Claimed, Quiet, SameReader
  <2> QED
    BY <2>1, <2>2, QuietStep
<1>5. ASSUME NEW c \in Cursors, AllocNewSlot(c) PROVE ReadInv'
  <2>1. Keeps /\ NoNews
    BY <1>5, AllocNewSlotKeeps
  <2>2. acked' = acked /\ \A d \in Cursors : Quiet(d)
    BY <1>5, ReaderKinds DEF AllocNewSlot, Claimed, Quiet, SameReader
  <2> QED
    BY <2>1, <2>2, QuietStep
<1>6. ASSUME NEW c \in Cursors, AtCap(c) PROVE ReadInv'
  BY <1>6, AtCapReads
<1>7. ASSUME NEW c \in Cursors, CommitBump(c) PROVE ReadInv'
  BY <1>7, CommitBumpReads
<1>8. ASSUME NEW c \in Cursors, Scan(c) PROVE ReadInv'
  BY <1>8, ScanReads
<1>9. ASSUME NEW c \in Cursors, TakeMain(c) PROVE ReadInv'
  BY <1>9, TakeMainReads
<1>10. ASSUME NEW c \in Cursors, Detach(c) PROVE ReadInv'
  <2>1. Keeps /\ NoNews
    BY <1>10, DetachKeeps
  <2>2. acked' = acked /\ \A d \in Cursors : Quiet(d)
    BY <1>10, ReaderKinds DEF Detach, GiveUp, Quiet, SameReader
  <2> QED
    BY <2>1, <2>2, QuietStep
<1>11. ASSUME NEW c \in Cursors, StartAttached(c) PROVE ReadInv'
  <2>1. Keeps /\ NoNews
    BY <1>11, StartAttachedKeeps
  <2>2. acked' = acked /\ \A d \in Cursors : Quiet(d)
    BY <1>11, ReaderKinds DEF StartAttached, Begins, Quiet, SameReader
  <2> QED
    BY <2>1, <2>2, QuietStep
<1>12. ASSUME NEW c \in Cursors, StartReclaim(c) PROVE ReadInv'
  <2>1. Keeps /\ NoNews
    BY <1>12, StartReclaimKeeps
  <2>2. acked' = acked /\ \A d \in Cursors : Quiet(d)
    BY <1>12, ReaderKinds DEF StartReclaim, Begins, Quiet, SameReader
  <2> QED
    BY <2>1, <2>2, QuietStep
<1>13. ASSUME NEW c \in Cursors, StartElse(c) PROVE ReadInv'
  <2>1. Keeps /\ NoNews
    BY <1>13, StartElseKeeps
  <2>2. acked' = acked /\ \A d \in Cursors : Quiet(d)
    BY <1>13, ReaderKinds DEF StartElse, Begins, Quiet, SameReader
  <2> QED
    BY <2>1, <2>2, QuietStep
<1>14. ASSUME NEW c \in Cursors, NEW full \in BOOLEAN, Commit(c, full) PROVE ReadInv'
  BY <1>14, CommitReads
<1>15. ASSUME NEW c \in Cursors, Rollback(c) PROVE ReadInv'
  <2>1. Keeps /\ NoNews
    BY <1>15, RollbackKeeps
  <2>2. acked' = acked /\ \A d \in Cursors : Quiet(d)
    BY <1>15, ReaderKinds DEF Rollback, EndCommit, Quiet, SameReader
  <2> QED
    BY <2>1, <2>2, QuietStep
<1>16. ASSUME NEW c \in Cursors, Rebuild(c) PROVE ReadInv'
  BY <1>16, RebuildReads
<1>17. ASSUME NEW c \in Cursors, CloseCursor(c) PROVE ReadInv'
  BY <1>17, CloseCursorReads
<1>18. ASSUME TakeSlot PROVE ReadInv'
  <2>1. Keeps /\ NoNews
    BY <1>18, TakeSlotKeeps
  <2>2. acked' = acked /\ \A d \in Cursors : Quiet(d)
    BY <1>18, ReaderKinds DEF TakeSlot, Quiet, SameReader
  <2> QED
    BY <2>1, <2>2, QuietStep
<1>19. ASSUME DoMerge PROVE ReadInv'
  <2>1. Keeps /\ NoNews
    BY <1>19, DoMergeKeeps
  <2>2. acked' = acked /\ \A d \in Cursors : Quiet(d)
    BY <1>19, ReaderKinds DEF DoMerge, BumpEpoch, Quiet, SameReader
  <2> QED
    BY <2>1, <2>2, QuietStep
<1>20. ASSUME MergeFails PROVE ReadInv'
  <2>1. Keeps /\ NoNews
    BY <1>20, MergeFailsKeeps
  <2>2. acked' = acked /\ \A d \in Cursors : Quiet(d)
    BY <1>20, ReaderKinds DEF MergeFails, Quiet, SameReader
  <2> QED
    BY <2>1, <2>2, QuietStep
<1>21. ASSUME PassEnd PROVE ReadInv'
  <2>1. Keeps /\ NoNews
    BY <1>21, StillKeeps DEF PassEnd
  <2>2. acked' = acked /\ \A d \in Cursors : Quiet(d)
    BY <1>21, ReaderKinds DEF PassEnd, Quiet, SameReader
  <2> QED
    BY <2>1, <2>2, QuietStep
<1>22. ASSUME Release PROVE ReadInv'
  <2>1. Keeps /\ NoNews
    BY <1>22, StillKeeps DEF Release
  <2>2. acked' = acked /\ \A d \in Cursors : Quiet(d)
    BY <1>22, ReaderKinds DEF Release, Quiet, SameReader
  <2> QED
    BY <2>1, <2>2, QuietStep
<1>23. ASSUME Recheck PROVE ReadInv'
  <2>1. Keeps /\ NoNews
    BY <1>23, StillKeeps DEF Recheck
  <2>2. acked' = acked /\ \A d \in Cursors : Quiet(d)
    BY <1>23, ReaderKinds DEF Recheck, Quiet, SameReader
  <2> QED
    BY <2>1, <2>2, QuietStep
<1>24. ASSUME Regate PROVE ReadInv'
  <2>1. Keeps /\ NoNews
    BY <1>24, StillKeeps DEF Regate, ScheduleTask
  <2>2. acked' = acked /\ \A d \in Cursors : Quiet(d)
    BY <1>24, ReaderKinds DEF Regate, ScheduleTask, Quiet, SameReader
  <2> QED
    BY <2>1, <2>2, QuietStep
<1>25. ASSUME SweepFires PROVE ReadInv'
  <2>1. Keeps /\ NoNews
    BY <1>25, StillKeeps DEF SweepFires, Signal, ScheduleTask
  <2>2. acked' = acked /\ \A d \in Cursors : Quiet(d)
    BY <1>25, ReaderKinds DEF SweepFires, Signal, ScheduleTask, Quiet, SameReader
  <2> QED
    BY <2>1, <2>2, QuietStep
<1>26. ASSUME DrainSignal PROVE ReadInv'
  <2>1. Keeps /\ NoNews
    BY <1>26, StillKeeps DEF DrainSignal, Signal
  <2>2. acked' = acked /\ \A d \in Cursors : Quiet(d)
    BY <1>26, ReaderKinds DEF DrainSignal, Signal, Quiet, SameReader
  <2> QED
    BY <2>1, <2>2, QuietStep
<1>27. ASSUME DrainSchedule PROVE ReadInv'
  <2>1. Keeps /\ NoNews
    BY <1>27, StillKeeps DEF DrainSchedule, ScheduleTask
  <2>2. acked' = acked /\ \A d \in Cursors : Quiet(d)
    BY <1>27, ReaderKinds DEF DrainSchedule, ScheduleTask, Quiet, SameReader
  <2> QED
    BY <2>1, <2>2, QuietStep
<1>28. ASSUME Shutdown PROVE ReadInv'
  <2>1. Keeps /\ NoNews
    BY <1>28, StillKeeps DEF Shutdown, Request
  <2>2. acked' = acked /\ \A d \in Cursors : Quiet(d)
    BY <1>28, ReaderKinds DEF Shutdown, Request, Quiet, SameReader
  <2> QED
    BY <2>1, <2>2, QuietStep
<1>29. ASSUME Awake PROVE ReadInv'
  <2>1. Keeps /\ NoNews
    BY <1>29, StillKeeps DEF Awake
  <2>2. acked' = acked /\ \A d \in Cursors : Quiet(d)
    BY <1>29, ReaderKinds DEF Awake, Quiet, SameReader
  <2> QED
    BY <2>1, <2>2, QuietStep
<1>30. ASSUME Destroyed PROVE ReadInv'
  <2>1. Keeps /\ NoNews
    BY <1>30, StillKeeps DEF Destroyed
  <2>2. acked' = acked /\ \A d \in Cursors : Quiet(d)
    BY <1>30, ReaderKinds DEF Destroyed, Quiet, SameReader
  <2> QED
    BY <2>1, <2>2, QuietStep
<1>31. ASSUME Crash PROVE ReadInv'
  BY <1>31, CrashReads
<1>32. ASSUME Finished PROVE ReadInv'
  <2>1. Keeps /\ NoNews
    BY <1>32, StillKeeps DEF Finished, vars
  <2>2. acked' = acked /\ \A d \in Cursors : Quiet(d)
    BY <1>32, ReaderKinds DEF Finished, vars, Quiet, SameReader
  <2> QED
    BY <2>1, <2>2, QuietStep
<1>33. ASSUME NEW old, Collect(old) PROVE ReadInv'
  <2>1. Keeps /\ NoNews
    BY <1>33, StillKeeps DEF Collect
  <2>2. acked' = acked /\ \A d \in Cursors : Quiet(d)
    BY <1>33, ReaderKinds DEF Collect, Quiet, SameReader
  <2> QED
    BY <2>1, <2>2, QuietStep
<1>34. ASSUME NEW all \in BOOLEAN, MergeNow(all) PROVE ReadInv'
  <2>1. Keeps /\ NoNews
    BY <1>34, StillKeeps DEF MergeNow, Request
  <2>2. acked' = acked /\ \A d \in Cursors : Quiet(d)
    BY <1>34, ReaderKinds DEF MergeNow, Request, Quiet, SameReader
  <2> QED
    BY <2>1, <2>2, QuietStep
<1>35. CASE UNCHANGED vars
  <2>1. Keeps /\ NoNews
    BY <1>35, StillKeeps DEF vars
  <2>2. acked' = acked /\ \A d \in Cursors : Quiet(d)
    BY <1>35, ReaderKinds DEF vars, Quiet, SameReader
  <2> QED
    BY <2>1, <2>2, QuietStep
<1> QED
  BY <1>1, <1>2, <1>3, <1>4, <1>5, <1>6, <1>7, <1>8, <1>9, <1>10, <1>11, <1>12, <1>13,
     <1>14, <1>15, <1>16, <1>17, <1>18, <1>19, <1>20, <1>21, <1>22, <1>23, <1>24, <1>25,
     <1>26, <1>27, <1>28, <1>29, <1>30, <1>31, <1>32, <1>33, <1>34, <1>35
     DEF Next, CursorStep, Call, JobStep, LeaveStep, DrainStep, Procs

(* At first no cursor has sources. *)
LEMMA InitReads == Init => ReadInv
BY DEF Init, ReadInv, WantAt, AckAt, SeenAt

(* A cursor that is not looking sees what it reaches. *)
LEMMA ReachedIsSeen ==
    ASSUME NEW c \in Cursors, pc[c] = "ready", NEW w, Reaches(c, w)
    PROVE  Sees(c, w)
BY DEF Reaches, Sees

(* A cursor that has looked for its sources sees every write that was       *)
(* committed before it began, even of slots merged while it looked.         *)
THEOREM ReadTheorem == ASSUME NoCorners PROVE Spec => []ReadComplete
<1>1. Init => WriteInv /\ ReadInv
  BY WriteInduction, InitReads
<1>2. WriteInv /\ ReadInv /\ [Next]_vars => WriteInv' /\ ReadInv'
  BY WriteInduction, ReadStep DEF WriteInv
<1>3. ReadInv => ReadComplete
  BY ReachedIsSeen DEF ReadInv, WantAt, ReadComplete
<1> QED
  BY <1>1, <1>2, <1>3, PTL DEF Spec

(* A cursor whose epoch is the current one sees every committed write: the  *)
(* epoch tells it of every slot it does not have.                           *)
THEOREM EpochTheorem == ASSUME NoCorners PROVE Spec => []EpochTells
<1>1. Init => WriteInv /\ ReadInv
  BY WriteInduction, InitReads
<1>2. WriteInv /\ ReadInv /\ [Next]_vars => WriteInv' /\ ReadInv'
  BY WriteInduction, ReadStep DEF WriteInv
<1>3. ReadInv => EpochTells
  BY ReachedIsSeen DEF ReadInv, AckAt, EpochTells
<1> QED
  BY <1>1, <1>2, <1>3, PTL DEF Spec

======================================================================
