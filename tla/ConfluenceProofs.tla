--------------------------- MODULE ConfluenceProofs ---------------------------
(***************************************************************************)
(* Theorems about Confluence for every number of cursors, slots and        *)
(* events.  This module: what holds with all the Corners as well, the      *)
(* handshakes with the merge task and the count of the pins.               *)
(***************************************************************************)
EXTENDS Confluence, Integers, FiniteSetTheorems, WellFoundedInduction, TLAPS

CursorPoints == {"ready", "wake", "cas", "claim", "bump", "bump_full", "scan", "pin",
                 "detach", "store", "closed"}

(* The types of what the handshakes and the pins need. *)
CountInv == count \in 0 .. MaxSlots
SlotTypes ==
    /\ st \in [Slots -> States] /\ refs \in [Slots -> Int]
    /\ DOMAIN trie = Slots /\ DOMAIN used = Slots
    /\ \A s \in Slots : st[s] # "EMPTY" => s <= count
CursorTypes ==
    /\ pc \in [Cursors -> CursorPoints]
    /\ then \in [Cursors -> {"ready", "claim", "closed"}]
    /\ in \in [Cursors -> BOOLEAN] /\ stale \in [Cursors -> BOOLEAN]
    /\ own \in [Cursors -> Nat] /\ \A c \in Cursors : own[c] <= count
    /\ src \in [Cursors -> SUBSET Slots] /\ \A c \in Cursors : \A s \in src[c] : s <= count
    /\ at \in [Cursors -> Nat]
    /\ DOMAIN snap = Cursors /\ DOMAIN want = Cursors
PinTypes ==
    /\ drop \in [Procs -> SUBSET Slots] /\ \A p \in Procs : \A s \in drop[p] : s <= count
    /\ peek \in [Procs -> Nat] /\ fix \in [Procs -> Nat]
JobTypes ==
    /\ job \in {"none", "queued", "pass", "merge", "merging"}
    /\ leave \in {"none", "recheck", "signalled", "regate"}
    /\ signalled \in BOOLEAN /\ covers \in BOOLEAN /\ served \in BOOLEAN
    /\ force \in BOOLEAN /\ seen \in BOOLEAN /\ idle \in BOOLEAN
    /\ list \subseteq Slots /\ \A s \in list : s <= count
    /\ job = "merging" => list # {}
DbTypes ==
    /\ sweep \in BOOLEAN /\ shut \in BOOLEAN /\ failed \in BOOLEAN /\ events \in Nat
    /\ dpc \in {"open", "signal", "cas", "wait", "leave", "closed"}

(* What a cursor owns at which place. *)
PlaceInv ==
    \A c \in Cursors :
        /\ in[c] => own[c] # 0 /\ pc[c] \in {"ready", "scan", "pin"}
        /\ pc[c] \in {"bump", "bump_full", "detach", "store"} => own[c] # 0
        /\ pc[c] \in {"claim", "wake", "cas", "closed"} => own[c] = 0
        /\ pc[c] \in {"ready", "cas", "bump", "bump_full", "pin", "store"} => drop[c] = {}
        /\ pc[c] \in {"scan", "pin"} => at[c] >= 1 /\ \A s \in src[c] : s < at[c]
JobPlaceInv == job = "merging" => drop[Job] = {}

TypeInv == CountInv /\ SlotTypes /\ CursorTypes /\ PinTypes /\ JobTypes /\ DbTypes
           /\ PlaceInv /\ JobPlaceInv

(* The waiting drain: a task on its way out is only needed when no other    *)
(* task is there.  A drain that has counted up the signal and not yet       *)
(* scheduled a task needs none while no task is there.                      *)
DrainInv ==
    /\ dpc = "wait" /\ ~served =>
        \/ job = "queued" \/ covers
        \/ job # "none" /\ signalled
        \/ job = "none" /\ leave \in {"signalled", "regate"}
    /\ dpc = "cas" /\ ~served => job \in {"none", "queued"} \/ covers \/ signalled

(* The slot to merge: who still has to see it, by what the task is doing.   *)
AttendInv ==
    \A s \in Slots : st[s] = "MERGING" =>
        \/ job \in {"queued", "pass"}
        \/ /\ job \in {"merge", "merging"}
           /\ \/ seen \/ s \in list \/ signalled
              \/ \E c \in Cursors : pc[c] \in {"bump_full", "wake"}
        \/ /\ job = "none"
           /\ leave # "none" \/ \E c \in Cursors : pc[c] \in {"bump_full", "wake", "cas"}

USE DEF Slots, Procs, slotVars, curVars, pinVars, jobVars, dbVars, CallVars, Goto,
        Event, Settled, CursorPoints, States, Job

(* The least of a set of numbers is in it. *)
LEMMA LeastIn ==
    ASSUME NEW S, S \subseteq Nat, S # {}
    PROVE  Min(S) \in S
<1>1. PICK m \in S : \A y \in S : <<y, m>> \notin OpToRel(<, Nat)
  BY NatLessThanWellFounded, WFMin
<1>2. \A y \in S : ~(y < m)
  BY <1>1 DEF OpToRel
<1>3. m \in Nat /\ \A y \in S : y \in Nat
  OBVIOUS
<1> HIDE DEF OpToRel
<1>4. \A y \in S : m <= y
  BY <1>2, <1>3
<1> QED
  BY <1>4 DEF Min

(* So is the slot that _unpin_slot() or the merge task takes first. *)
LEMMA SlotMin == \A S \in SUBSET Slots : S # {} => Min(S) \in S
<1> SUFFICES ASSUME NEW S \in SUBSET Slots, S # {} PROVE Min(S) \in S
  OBVIOUS
<1>1. S \subseteq Nat
  BY ConfluenceAssumption
<1> QED
  BY <1>1, LeastIn

USE ConfluenceAssumption

(* _unpin_slot() keeps the types: it gives back, looks or recycles. *)
LEMMA UnpinType ==
    ASSUME TypeInv, NEW p \in Procs, Unpin(p)
    PROVE  TypeInv'
<1>a. drop[p] # {} => Min(drop[p]) \in drop[p] /\ Min(drop[p]) \in Slots
  BY SlotMin DEF TypeInv, PinTypes
<1>1. SlotTypes'
  <2>1. CASE fix[p] # 0
    BY <2>1 DEF Unpin, Recycle, TypeInv, SlotTypes
  <2>2. CASE fix[p] = 0 /\ peek[p] # 0
    BY <2>2 DEF Unpin, TypeInv, SlotTypes
  <2>3. CASE fix[p] = 0 /\ peek[p] = 0
    BY <1>a, <2>3 DEF Unpin, GiveBack, Recycle, TypeInv, SlotTypes
  <2> QED
    BY <2>1, <2>2, <2>3
<1>2. PinTypes'
  <2>1. drop' = drop \/ drop' = [drop EXCEPT ![p] = @ \ {Min(drop[p])}]
    BY DEF Unpin, GiveBack
  <2>2. drop' \in [Procs -> SUBSET Slots] /\ \A q \in Procs : \A s \in drop'[q] : s <= count
    BY <2>1 DEF TypeInv, PinTypes
  <2>3. peek' \in [Procs -> Nat] /\ fix' \in [Procs -> Nat]
    BY <1>a DEF Unpin, GiveBack, TypeInv, PinTypes
  <2> QED
    BY <2>2, <2>3 DEF Unpin, PinTypes
<1>3. PlaceInv'
  BY DEF Unpin, Recycle, GiveBack, TypeInv, CountInv, CursorTypes, PinTypes, PlaceInv
<1>4. JobPlaceInv'
  BY DEF Unpin, Recycle, GiveBack, TypeInv, CountInv, CursorTypes, PinTypes, PlaceInv,
     JobPlaceInv
<1> QED
  BY <1>1, <1>2, <1>3, <1>4 DEF Unpin, Recycle, GiveBack, TypeInv, CountInv,
     CursorTypes, JobTypes, DbTypes

(* The cursor counts up _merge_signal. *)
LEMMA CursorSignalType ==
    ASSUME TypeInv, NEW c \in Cursors, CursorSignal(c)
    PROVE  TypeInv'
<1>1. CursorTypes'
  BY DEF CursorSignal, Signal, TypeInv, CursorTypes
<1>2. JobTypes'
  BY DEF CursorSignal, Signal, TypeInv, JobTypes
<1>3. DbTypes'
  BY DEF CursorSignal, Signal, TypeInv, DbTypes
<1>4. PlaceInv'
  BY DEF CursorSignal, Signal, TypeInv, PlaceInv
<1> QED
  BY <1>1, <1>2, <1>3, <1>4 DEF CursorSignal, Signal, TypeInv, CountInv, SlotTypes,
     PinTypes, JobPlaceInv

(* The cursor schedules the merge task. *)
LEMMA CursorScheduleType ==
    ASSUME TypeInv, NEW c \in Cursors, CursorSchedule(c)
    PROVE  TypeInv'
<1>1. CursorTypes'
  BY DEF CursorSchedule, ScheduleTask, TypeInv, CursorTypes
<1>2. PinTypes'
  BY DEF CursorSchedule, ScheduleTask, TypeInv, PinTypes
<1>3. JobTypes'
  BY DEF CursorSchedule, ScheduleTask, TypeInv, JobTypes
<1>4. PlaceInv'
  BY DEF CursorSchedule, ScheduleTask, TypeInv, CursorTypes, PlaceInv
<1>5. JobPlaceInv'
  BY DEF CursorSchedule, ScheduleTask, TypeInv, JobPlaceInv
<1> QED
  BY <1>1, <1>2, <1>3, <1>4, <1>5 DEF CursorSchedule, ScheduleTask, TypeInv, CountInv,
     SlotTypes, DbTypes

(* _try_claim(): an empty slot that is published. *)
LEMMA TryClaimType ==
    ASSUME TypeInv, NEW c \in Cursors, TryClaim(c)
    PROVE  TypeInv'
<1>1. CountInv'
  BY DEF TryClaim, Claimed, TypeInv, CountInv
<1>2. SlotTypes'
  BY DEF TryClaim, Claimed, TypeInv, CountInv, SlotTypes, CursorTypes, PlaceInv
<1>3. CursorTypes'
  BY DEF TryClaim, Claimed, TypeInv, CursorTypes
<1>4. PinTypes'
  BY DEF TryClaim, Claimed, TypeInv, PinTypes
<1>5. JobTypes'
  BY DEF TryClaim, Claimed, TypeInv, JobTypes
<1>6. DbTypes'
  BY DEF TryClaim, Claimed, TypeInv, DbTypes
<1>7. PlaceInv'
  BY DEF TryClaim, Claimed, TypeInv, CursorTypes, PlaceInv
<1> QED
  BY <1>1, <1>2, <1>3, <1>4, <1>5, <1>6, <1>7 DEF TryClaim, Claimed, TypeInv,
     JobPlaceInv

(* _alloc_new_slot() publishes one slot more. *)
LEMMA AllocNewSlotType ==
    ASSUME TypeInv, NEW c \in Cursors, AllocNewSlot(c)
    PROVE  TypeInv'
<1>1. CountInv'
  BY DEF AllocNewSlot, Claimed, TypeInv, CountInv
<1>2. SlotTypes'
  BY DEF AllocNewSlot, Claimed, TypeInv, CountInv, SlotTypes
<1>3. CursorTypes'
  BY DEF AllocNewSlot, Claimed, TypeInv, CountInv, CursorTypes
<1>4. PinTypes'
  BY DEF AllocNewSlot, Claimed, TypeInv, CountInv, PinTypes
<1>5. JobTypes'
  BY DEF AllocNewSlot, Claimed, TypeInv, CountInv, JobTypes
<1>6. DbTypes'
  BY DEF AllocNewSlot, Claimed, TypeInv, DbTypes
<1>7. PlaceInv'
  BY DEF AllocNewSlot, Claimed, TypeInv, CountInv, CursorTypes, PlaceInv
<1> QED
  BY <1>1, <1>2, <1>3, <1>4, <1>5, <1>6, <1>7 DEF AllocNewSlot, Claimed, TypeInv,
     JobPlaceInv

(* All slots are taken: the sources go to drop. *)
LEMMA AtCapType ==
    ASSUME TypeInv, NEW c \in Cursors, AtCap(c)
    PROVE  TypeInv'
<1>1. CursorTypes'
  BY DEF AtCap, TypeInv, CursorTypes
<1>2. PinTypes'
  BY DEF AtCap, TypeInv, CursorTypes, PinTypes, PlaceInv
<1>3. PlaceInv'
  BY DEF AtCap, TypeInv, PlaceInv
<1>4. JobPlaceInv'
  BY DEF AtCap, TypeInv, JobPlaceInv
<1> QED
  BY <1>1, <1>2, <1>3, <1>4 DEF AtCap, TypeInv, CountInv, SlotTypes, JobTypes, DbTypes

(* commit() after the epoch: the slot goes to drop or stays. *)
LEMMA CommitBumpType ==
    ASSUME TypeInv, NEW c \in Cursors, CommitBump(c)
    PROVE  TypeInv'
<1>a. own[c] \in Slots /\ own[c] <= count
  BY DEF CommitBump, TypeInv, CountInv, CursorTypes, PlaceInv
<1>1. CursorTypes'
  <2>1. own' = own \/ own' = [own EXCEPT ![c] = 0]
    BY DEF CommitBump, EndCommit
  <2>2. pc' \in [Cursors -> CursorPoints]
    BY DEF CommitBump, EndCommit, TypeInv, CursorTypes
  <2>3. own' \in [Cursors -> Nat] /\ \A e \in Cursors : own'[e] <= count
    BY <2>1 DEF TypeInv, CountInv, CursorTypes
  <2>4. stale' \in [Cursors -> BOOLEAN]
    BY DEF CommitBump, BumpEpoch
  <2> QED
    BY <2>2, <2>3, <2>4 DEF CommitBump, TypeInv, CursorTypes
<1>2. PinTypes'
  <2>1. drop' = drop \/ drop' = [drop EXCEPT ![c] = {own[c]}]
    BY DEF CommitBump, EndCommit
  <2> QED
    BY <1>a, <2>1 DEF CommitBump, TypeInv, PinTypes
<1>3. DbTypes'
  BY DEF CommitBump, BumpEpoch, EndCommit, EnsureAgeSweep, TypeInv, DbTypes
<1>4. PlaceInv'
  BY DEF CommitBump, BumpEpoch, EndCommit, TypeInv, CountInv, CursorTypes, PinTypes,
     PlaceInv
<1>5. JobPlaceInv'
  BY DEF CommitBump, BumpEpoch, EndCommit, TypeInv, CountInv, CursorTypes, PinTypes,
     PlaceInv, JobPlaceInv
<1> QED
  BY <1>1, <1>2, <1>3, <1>4, <1>5 DEF CommitBump, BumpEpoch, EndCommit, TypeInv,
     CountInv, SlotTypes, JobTypes

(* fill_sources_lockfree(): the next slot, which is above all the sources. *)
LEMMA ScanType ==
    ASSUME TypeInv, NEW c \in Cursors, Scan(c)
    PROVE  TypeInv'
<1>a. at[c] \in Slots /\ at[c] <= count
  BY DEF Scan, TypeInv, CountInv, CursorTypes, PlaceInv
<1>1. SlotTypes'
  BY <1>a DEF Scan, PinSource, TypeInv, SlotTypes
<1>2. CursorTypes'
  <2>1. src' = src \/ src' = [src EXCEPT ![c] = @ \cup {at[c]}]
    BY DEF Scan, PinSource
  <2>2. pc' \in [Cursors -> CursorPoints]
    BY DEF Scan, PinSource, TypeInv, CursorTypes
  <2>3. at' = at \/ at' = [at EXCEPT ![c] = @ + 1]
    BY DEF Scan, PinSource
  <2>4. at' \in [Cursors -> Nat]
    BY <2>3 DEF TypeInv, CursorTypes
  <2>5. src' \in [Cursors -> SUBSET Slots] /\ \A d \in Cursors : \A s \in src'[d] : s <= count
    BY <1>a, <2>1 DEF TypeInv, CursorTypes
  <2> QED
    BY <2>2, <2>4, <2>5 DEF Scan, TypeInv, CursorTypes
<1>3. PlaceInv'
  BY DEF Scan, PinSource, TypeInv, CursorTypes, PlaceInv
<1> QED
  BY <1>1, <1>2, <1>3 DEF Scan, PinSource, TypeInv, CountInv, PinTypes, JobTypes,
     DbTypes, JobPlaceInv

(* The snapshot of the main database ends the look for sources. *)
LEMMA TakeMainType ==
    ASSUME TypeInv, NEW c \in Cursors, TakeMain(c)
    PROVE  TypeInv'
<1>1. CursorTypes'
  BY DEF TakeMain, TypeInv, CursorTypes
<1>2. PlaceInv'
  BY DEF TakeMain, TypeInv, CursorTypes, PlaceInv
<1> QED
  BY <1>1, <1>2 DEF TakeMain, TypeInv, CountInv, SlotTypes, PinTypes, JobTypes, DbTypes,
     JobPlaceInv

(* _release_write_source() looks at the state or lets go of the slot. *)
LEMMA DetachType ==
    ASSUME TypeInv, NEW c \in Cursors, Detach(c)
    PROVE  TypeInv'
<1>a. own[c] \in Slots /\ own[c] <= count
  BY DEF Detach, TypeInv, CountInv, CursorTypes, PlaceInv
<1>1. SlotTypes'
  BY DEF Detach, GiveUp, TypeInv, SlotTypes, CursorTypes, PlaceInv
<1>2. CursorTypes'
  <2>1. own' = own \/ own' = [own EXCEPT ![c] = 0]
    BY DEF Detach, GiveUp
  <2>2. pc' \in [Cursors -> CursorPoints]
    BY DEF Detach, GiveUp, TypeInv, CursorTypes
  <2>3. own' \in [Cursors -> Nat] /\ \A e \in Cursors : own'[e] <= count
    BY <2>1 DEF TypeInv, CountInv, CursorTypes
  <2>4. then' \in [Cursors -> {"ready", "claim", "closed"}]
    BY DEF Detach, GiveUp, TypeInv, CursorTypes
  <2> QED
    BY <2>2, <2>3, <2>4 DEF Detach, TypeInv, CursorTypes
<1>3. PinTypes'
  <2>1. drop' = drop \/ drop' = [drop EXCEPT ![c] = {own[c]}]
    BY DEF Detach, GiveUp
  <2> QED
    BY <1>a, <2>1 DEF Detach, TypeInv, PinTypes
<1>4. PlaceInv'
  BY DEF Detach, GiveUp, TypeInv, CountInv, CursorTypes, PinTypes, PlaceInv
<1>5. JobPlaceInv'
  BY DEF Detach, GiveUp, TypeInv, CountInv, CursorTypes, PinTypes, PlaceInv, JobPlaceInv
<1> QED
  BY <1>1, <1>2, <1>3, <1>4, <1>5 DEF Detach, GiveUp, TypeInv, CountInv, JobTypes,
     DbTypes

(* start_transaction() in the slot of the last transaction. *)
LEMMA StartAttachedType ==
    ASSUME TypeInv, NEW c \in Cursors, StartAttached(c)
    PROVE  TypeInv'
<1>1. CountInv'
  BY DEF StartAttached, Begins, TypeInv, CountInv
<1>2. SlotTypes'
  BY DEF StartAttached, Begins, TypeInv, SlotTypes
<1>3. CursorTypes'
  BY DEF StartAttached, Begins, TypeInv, CursorTypes
<1>4. PinTypes'
  BY DEF StartAttached, Begins, TypeInv, PinTypes
<1>5. JobTypes'
  BY DEF StartAttached, Begins, TypeInv, JobTypes
<1>6. DbTypes'
  BY DEF StartAttached, Begins, TypeInv, DbTypes
<1>7. PlaceInv'
  BY DEF StartAttached, Begins, TypeInv, PlaceInv
<1> QED
  BY <1>1, <1>2, <1>3, <1>4, <1>5, <1>6, <1>7 DEF StartAttached, Begins, TypeInv,
     JobPlaceInv

(* start_transaction() with a merged slot made new in place. *)
LEMMA StartReclaimType ==
    ASSUME TypeInv, NEW c \in Cursors, StartReclaim(c)
    PROVE  TypeInv'
<1>1. CountInv'
  BY DEF StartReclaim, Begins, TypeInv, CountInv
<1>2. SlotTypes'
  BY DEF StartReclaim, Begins, TypeInv, SlotTypes
<1>3. CursorTypes'
  BY DEF StartReclaim, Begins, TypeInv, CursorTypes
<1>4. PinTypes'
  BY DEF StartReclaim, Begins, TypeInv, PinTypes
<1>5. JobTypes'
  BY DEF StartReclaim, Begins, TypeInv, JobTypes
<1>6. DbTypes'
  BY DEF StartReclaim, Begins, TypeInv, DbTypes
<1>7. PlaceInv'
  BY DEF StartReclaim, Begins, TypeInv, CursorTypes, PlaceInv
<1> QED
  BY <1>1, <1>2, <1>3, <1>4, <1>5, <1>6, <1>7 DEF StartReclaim, Begins, TypeInv,
     JobPlaceInv

(* start_transaction() that has to claim another slot. *)
LEMMA StartElseType ==
    ASSUME TypeInv, NEW c \in Cursors, StartElse(c)
    PROVE  TypeInv'
<1>1. CursorTypes'
  BY DEF StartElse, Begins, TypeInv, CountInv, CursorTypes
<1>2. PinTypes'
  BY DEF StartElse, Begins, TypeInv, CountInv, CursorTypes, PinTypes, PlaceInv
<1>3. DbTypes'
  BY DEF StartElse, Begins, TypeInv, DbTypes
<1>4. PlaceInv'
  BY DEF StartElse, Begins, TypeInv, CursorTypes, PlaceInv
<1>5. JobPlaceInv'
  BY DEF StartElse, Begins, TypeInv, JobPlaceInv
<1> QED
  BY <1>1, <1>2, <1>3, <1>4, <1>5 DEF StartElse, Begins, TypeInv, CountInv, SlotTypes,
     JobTypes

(* commit() of the tributary and W1. *)
LEMMA CommitType ==
    ASSUME TypeInv, NEW c \in Cursors, NEW full \in BOOLEAN, Commit(c, full)
    PROVE  TypeInv'
<1>a. own[c] \in Slots /\ own[c] <= count
  BY DEF Commit, TypeInv, CountInv, CursorTypes, PlaceInv
<1>1. CountInv'
  BY DEF Commit, EndCommit, TypeInv, CountInv
<1>2. SlotTypes'
  BY DEF Commit, EndCommit, TypeInv, SlotTypes, CursorTypes, PlaceInv
<1>3. CursorTypes'
  <2>1. own' = own \/ own' = [own EXCEPT ![c] = 0]
    BY DEF Commit, EndCommit
  <2>2. pc' \in [Cursors -> CursorPoints]
    BY DEF Commit, EndCommit, TypeInv, CursorTypes
  <2>3. own' \in [Cursors -> Nat] /\ \A e \in Cursors : own'[e] <= count
    BY <2>1 DEF TypeInv, CountInv, CursorTypes
  <2> QED
    BY <2>2, <2>3 DEF Commit, TypeInv, CursorTypes
<1>4. PinTypes'
  <2>1. drop' = drop \/ drop' = [drop EXCEPT ![c] = {own[c]}]
    BY DEF Commit, EndCommit
  <2> QED
    BY <1>a, <2>1 DEF Commit, TypeInv, PinTypes
<1>5. JobTypes'
  BY DEF Commit, EndCommit, TypeInv, JobTypes
<1>6. DbTypes'
  BY DEF Commit, EndCommit, EnsureAgeSweep, TypeInv, DbTypes
<1>7. PlaceInv'
  BY DEF Commit, EndCommit, TypeInv, CountInv, CursorTypes, PinTypes, PlaceInv
<1>8. JobPlaceInv'
  BY DEF Commit, EndCommit, TypeInv, CountInv, CursorTypes, PinTypes, PlaceInv,
     JobPlaceInv
<1> QED
  BY <1>1, <1>2, <1>3, <1>4, <1>5, <1>6, <1>7, <1>8 DEF Commit, EndCommit, TypeInv

(* rollback() attaches the slot or hands it over. *)
LEMMA RollbackType ==
    ASSUME TypeInv, NEW c \in Cursors, Rollback(c)
    PROVE  TypeInv'
<1>a. own[c] \in Slots /\ own[c] <= count
  BY DEF Rollback, TypeInv, CountInv, CursorTypes, PlaceInv
<1>1. CountInv'
  BY DEF Rollback, EndCommit, TypeInv, CountInv
<1>2. SlotTypes'
  BY DEF Rollback, EndCommit, TypeInv, SlotTypes, CursorTypes, PlaceInv
<1>3. CursorTypes'
  <2>1. own' = own \/ own' = [own EXCEPT ![c] = 0]
    BY DEF Rollback, EndCommit
  <2>2. pc' \in [Cursors -> CursorPoints]
    BY DEF Rollback, EndCommit, TypeInv, CursorTypes
  <2>3. own' \in [Cursors -> Nat] /\ \A e \in Cursors : own'[e] <= count
    BY <2>1 DEF TypeInv, CountInv, CursorTypes
  <2> QED
    BY <2>2, <2>3 DEF Rollback, TypeInv, CursorTypes
<1>4. PinTypes'
  <2>1. drop' = drop \/ drop' = [drop EXCEPT ![c] = {own[c]}]
    BY DEF Rollback, EndCommit
  <2> QED
    BY <1>a, <2>1 DEF Rollback, TypeInv, PinTypes
<1>5. JobTypes'
  BY DEF Rollback, EndCommit, TypeInv, JobTypes
<1>6. DbTypes'
  BY DEF Rollback, EndCommit, EnsureAgeSweep, TypeInv, DbTypes
<1>7. PlaceInv'
  BY DEF Rollback, EndCommit, TypeInv, CountInv, CursorTypes, PinTypes, PlaceInv
<1>8. JobPlaceInv'
  BY DEF Rollback, EndCommit, TypeInv, CountInv, CursorTypes, PinTypes, PlaceInv,
     JobPlaceInv
<1> QED
  BY <1>1, <1>2, <1>3, <1>4, <1>5, <1>6, <1>7, <1>8 DEF Rollback, EndCommit, TypeInv

(* _ensure_sources() begins: the old sources go to drop. *)
LEMMA RebuildType ==
    ASSUME TypeInv, NEW c \in Cursors, Rebuild(c)
    PROVE  TypeInv'
<1>1. CursorTypes'
  BY DEF Rebuild, TypeInv, CursorTypes
<1>2. PinTypes'
  BY DEF Rebuild, TypeInv, CursorTypes, PinTypes, PlaceInv
<1>3. DbTypes'
  BY DEF Rebuild, TypeInv, DbTypes
<1>4. PlaceInv'
  BY DEF Rebuild, TypeInv, CursorTypes, PlaceInv
<1>5. JobPlaceInv'
  BY DEF Rebuild, TypeInv, JobPlaceInv
<1> QED
  BY <1>1, <1>2, <1>3, <1>4, <1>5 DEF Rebuild, TypeInv, CountInv, SlotTypes, JobTypes

(* The destructor of a cursor begins: the sources go to drop. *)
LEMMA CloseCursorType ==
    ASSUME TypeInv, NEW c \in Cursors, CloseCursor(c)
    PROVE  TypeInv'
<1>1. CursorTypes'
  BY DEF CloseCursor, TypeInv, CursorTypes
<1>2. PinTypes'
  BY DEF CloseCursor, TypeInv, CursorTypes, PinTypes, PlaceInv
<1>3. PlaceInv'
  BY DEF CloseCursor, TypeInv, CursorTypes, PlaceInv
<1>4. JobPlaceInv'
  BY DEF CloseCursor, TypeInv, JobPlaceInv
<1> QED
  BY <1>1, <1>2, <1>3, <1>4 DEF CloseCursor, TypeInv, CountInv, SlotTypes, JobTypes,
     DbTypes

(* merge_tributary() takes the first slot of the list or passes it. *)
LEMMA TakeSlotType ==
    ASSUME TypeInv, TakeSlot
    PROVE  TypeInv'
<1>a. Slot1 \in list /\ Slot1 \in Slots /\ Slot1 <= count
  BY SlotMin DEF TakeSlot, Slot1, TypeInv, JobTypes
<1>1. SlotTypes'
  <2>1. CASE st[Slot1] \in {"ATTACHED", "MERGING"}
    BY <1>a, <2>1 DEF TakeSlot, TypeInv, SlotTypes
  <2>2. CASE st[Slot1] \notin {"ATTACHED", "MERGING"}
    BY <2>2 DEF TakeSlot, TypeInv, SlotTypes
  <2> QED
    BY <2>1, <2>2
<1>2. PinTypes'
  BY DEF TakeSlot, Slot1, TypeInv, PinTypes
<1>3. JobTypes'
  BY DEF TakeSlot, Slot1, TypeInv, JobTypes
<1>4. JobPlaceInv'
  BY DEF TakeSlot, Slot1, TypeInv, JobPlaceInv
<1> QED
  BY <1>1, <1>2, <1>3, <1>4 DEF TakeSlot, Slot1, TypeInv, CountInv, CursorTypes,
     DbTypes, PlaceInv

(* _do_merge(): the slot is merged and its pin goes to drop. *)
LEMMA DoMergeType ==
    ASSUME TypeInv, DoMerge
    PROVE  TypeInv'
<1>a. Slot1 \in list /\ Slot1 \in Slots /\ Slot1 <= count
  BY SlotMin DEF DoMerge, Slot1, TypeInv, JobTypes
<1>1. SlotTypes'
  BY <1>a DEF DoMerge, TypeInv, SlotTypes
<1>2. CursorTypes'
  BY DEF DoMerge, Slot1, BumpEpoch, TypeInv, CursorTypes
<1>3. PinTypes'
  BY <1>a DEF DoMerge, TypeInv, PinTypes
<1>4. JobTypes'
  BY DEF DoMerge, Slot1, BumpEpoch, TypeInv, JobTypes
<1>5. PlaceInv'
  BY DEF DoMerge, Slot1, BumpEpoch, TypeInv, PlaceInv
<1>6. JobPlaceInv'
  BY DEF DoMerge, Slot1, BumpEpoch, TypeInv, JobPlaceInv
<1> QED
  BY <1>1, <1>2, <1>3, <1>4, <1>5, <1>6 DEF DoMerge, Slot1, BumpEpoch, TypeInv,
     CountInv, DbTypes

(* _do_merge() throws: the slot is attached again. *)
LEMMA MergeFailsType ==
    ASSUME TypeInv, MergeFails
    PROVE  TypeInv'
<1>a. Slot1 \in list /\ Slot1 \in Slots /\ Slot1 <= count
  BY SlotMin DEF MergeFails, Slot1, TypeInv, JobTypes
<1>1. SlotTypes'
  BY <1>a DEF MergeFails, TypeInv, SlotTypes
<1>2. PinTypes'
  BY DEF MergeFails, Slot1, TypeInv, PinTypes
<1>3. JobTypes'
  BY DEF MergeFails, Slot1, TypeInv, JobTypes
<1>4. DbTypes'
  BY DEF MergeFails, Slot1, TypeInv, DbTypes
<1>5. JobPlaceInv'
  BY DEF MergeFails, Slot1, TypeInv, JobPlaceInv
<1> QED
  BY <1>1, <1>2, <1>3, <1>4, <1>5 DEF MergeFails, Slot1, TypeInv, CountInv, CursorTypes,
     PlaceInv

(* The end of a pass after which another one follows. *)
LEMMA PassEndType ==
    ASSUME TypeInv, PassEnd
    PROVE  TypeInv'
<1>1. PinTypes'
  BY DEF PassEnd, TypeInv, PinTypes
<1>2. JobTypes'
  BY DEF PassEnd, TypeInv, JobTypes
<1>3. JobPlaceInv'
  BY DEF PassEnd, TypeInv, JobPlaceInv
<1> QED
  BY <1>1, <1>2, <1>3 DEF PassEnd, TypeInv, CountInv, SlotTypes, CursorTypes, DbTypes,
     PlaceInv

(* J1: the task lets go of _merge_task_active. *)
LEMMA ReleaseType ==
    ASSUME TypeInv, Release
    PROVE  TypeInv'
<1>1. PinTypes'
  BY DEF Release, EnsureAgeSweep, TypeInv, PinTypes
<1>2. JobTypes'
  BY DEF Release, EnsureAgeSweep, TypeInv, JobTypes
<1>3. DbTypes'
  BY DEF Release, EnsureAgeSweep, TypeInv, DbTypes
<1>4. JobPlaceInv'
  BY DEF Release, EnsureAgeSweep, TypeInv, JobPlaceInv
<1> QED
  BY <1>1, <1>2, <1>3, <1>4 DEF Release, EnsureAgeSweep, TypeInv, CountInv, SlotTypes,
     CursorTypes, PlaceInv

(* J2: the task looks at the signal and the slots again. *)
LEMMA RecheckType ==
    ASSUME TypeInv, Recheck
    PROVE  TypeInv'
<1>1. JobTypes'
  BY DEF Recheck, TypeInv, JobTypes
<1>2. DbTypes'
  BY DEF Recheck, TypeInv, DbTypes
<1> QED
  BY <1>1, <1>2 DEF Recheck, TypeInv, CountInv, SlotTypes, CursorTypes, PinTypes,
     PlaceInv, JobPlaceInv

(* The task that was signalled on its way out schedules another. *)
LEMMA RegateType ==
    ASSUME TypeInv, Regate
    PROVE  TypeInv'
<1>1. PinTypes'
  BY DEF Regate, ScheduleTask, TypeInv, PinTypes
<1>2. JobTypes'
  BY DEF Regate, ScheduleTask, TypeInv, JobTypes
<1>3. DbTypes'
  BY DEF Regate, ScheduleTask, TypeInv, DbTypes
<1>4. JobPlaceInv'
  BY DEF Regate, ScheduleTask, TypeInv, JobPlaceInv
<1> QED
  BY <1>1, <1>2, <1>3, <1>4 DEF Regate, ScheduleTask, TypeInv, CountInv, SlotTypes,
     CursorTypes, PlaceInv

(* _run_age_sweep() signals and schedules. *)
LEMMA SweepFiresType ==
    ASSUME TypeInv, SweepFires
    PROVE  TypeInv'
<1>1. PinTypes'
  BY DEF SweepFires, Signal, ScheduleTask, TypeInv, PinTypes
<1>2. JobTypes'
  BY DEF SweepFires, Signal, ScheduleTask, TypeInv, JobTypes
<1>3. DbTypes'
  BY DEF SweepFires, Signal, ScheduleTask, TypeInv, DbTypes
<1>4. JobPlaceInv'
  BY DEF SweepFires, Signal, ScheduleTask, TypeInv, JobPlaceInv
<1> QED
  BY <1>1, <1>2, <1>3, <1>4 DEF SweepFires, Signal, ScheduleTask, TypeInv, CountInv,
     SlotTypes, CursorTypes, PlaceInv

(* _request_drain_and_wait() counts up the signal. *)
LEMMA DrainSignalType ==
    ASSUME TypeInv, DrainSignal
    PROVE  TypeInv'
<1>1. JobTypes'
  BY DEF DrainSignal, Signal, TypeInv, JobTypes
<1>2. DbTypes'
  BY DEF DrainSignal, Signal, TypeInv, DbTypes
<1> QED
  BY <1>1, <1>2 DEF DrainSignal, Signal, TypeInv, CountInv, SlotTypes, CursorTypes,
     PinTypes, PlaceInv, JobPlaceInv

(* _request_drain_and_wait() schedules the task. *)
LEMMA DrainScheduleType ==
    ASSUME TypeInv, DrainSchedule
    PROVE  TypeInv'
<1>1. PinTypes'
  BY DEF DrainSchedule, ScheduleTask, TypeInv, PinTypes
<1>2. JobTypes'
  BY DEF DrainSchedule, ScheduleTask, TypeInv, JobTypes
<1>3. DbTypes'
  BY DEF DrainSchedule, ScheduleTask, TypeInv, DbTypes
<1>4. JobPlaceInv'
  BY DEF DrainSchedule, ScheduleTask, TypeInv, JobPlaceInv
<1> QED
  BY <1>1, <1>2, <1>3, <1>4 DEF DrainSchedule, ScheduleTask, TypeInv, CountInv,
     SlotTypes, CursorTypes, PlaceInv

(* The destructor of the database asks for a drain of all slots. *)
LEMMA ShutdownType ==
    ASSUME TypeInv, Shutdown
    PROVE  TypeInv'
<1>1. JobTypes'
  BY DEF Shutdown, Request, TypeInv, JobTypes
<1>2. DbTypes'
  BY DEF Shutdown, Request, TypeInv, DbTypes
<1> QED
  BY <1>1, <1>2 DEF Shutdown, Request, TypeInv, CountInv, SlotTypes, CursorTypes,
     PinTypes, PlaceInv, JobPlaceInv

(* The caller of a drain wakes up. *)
LEMMA AwakeType ==
    ASSUME TypeInv, Awake
    PROVE  TypeInv'
<1>1. JobTypes'
  BY DEF Awake, TypeInv, JobTypes
<1>2. DbTypes'
  BY DEF Awake, TypeInv, DbTypes
<1> QED
  BY <1>1, <1>2 DEF Awake, TypeInv, CountInv, SlotTypes, CursorTypes, PinTypes,
     PlaceInv, JobPlaceInv

(* The destructor has seen the task out. *)
LEMMA DestroyedType ==
    ASSUME TypeInv, Destroyed
    PROVE  TypeInv'
<1>1. DbTypes'
  BY DEF Destroyed, TypeInv, DbTypes
<1> QED
  BY <1>1 DEF Destroyed, TypeInv, CountInv, SlotTypes, CursorTypes, PinTypes, JobTypes,
     PlaceInv, JobPlaceInv

(* The process dies and the database is opened again. *)
LEMMA CrashType ==
    ASSUME TypeInv, Crash
    PROVE  TypeInv'
<1>1. CountInv'
  BY DEF Crash, TypeInv, CountInv
<1>2. SlotTypes'
  BY DEF Crash, TypeInv, SlotTypes
<1>3. CursorTypes'
  BY DEF Crash, TypeInv, CountInv, CursorTypes
<1>4. PinTypes'
  BY DEF Crash, TypeInv, PinTypes
<1>5. JobTypes'
  BY DEF Crash, TypeInv, JobTypes
<1>6. DbTypes'
  <2>1. sweep' = FALSE /\ shut' = FALSE /\ failed' = failed /\ dpc' = "open" /\ events' = events + 1
    BY DEF Crash
  <2>2. sweep' \in BOOLEAN /\ shut' \in BOOLEAN /\ failed' \in BOOLEAN
    BY <2>1 DEF TypeInv, DbTypes
  <2>3. events' \in Nat
    BY <2>1 DEF TypeInv, DbTypes
  <2> QED
    BY <2>1, <2>2, <2>3 DEF DbTypes
<1>7. PlaceInv'
  BY DEF Crash, TypeInv, PlaceInv
<1>8. JobPlaceInv'
  BY DEF Crash, TypeInv, JobPlaceInv
<1> QED
  BY <1>1, <1>2, <1>3, <1>4, <1>5, <1>6, <1>7, <1>8 DEF Crash, TypeInv

(* Nothing happens after the destructor. *)
LEMMA FinishedType ==
    ASSUME TypeInv, Finished
    PROVE  TypeInv'
<1> QED
  BY DEF Finished, vars, TypeInv, CountInv, SlotTypes, CursorTypes, PinTypes, JobTypes,
     DbTypes, PlaceInv, JobPlaceInv

(* _collect_and_merge_locked() picks published slots. *)
LEMMA CollectType ==
    ASSUME TypeInv, NEW old, Collect(old)
    PROVE  TypeInv'
<1>1. PinTypes'
  BY DEF Collect, TypeInv, PinTypes
<1>2. JobTypes'
  <2>1. list' \subseteq Slots /\ \A s \in list' : s <= count
    BY DEF Collect, TypeInv, CountInv, JobTypes
  <2>2. signalled' \in BOOLEAN /\ covers' \in BOOLEAN
    <3>1. CASE job = "pass"
      BY <3>1 DEF Collect, TypeInv, JobTypes
    <3>2. CASE job # "pass"
      <4>1. signalled' = FALSE
        BY <3>2, Zenon DEF Collect
      <4>2. covers' = (dpc \in {"cas", "wait"})
        BY <3>2, Zenon DEF Collect
      <4>3. covers' \in BOOLEAN
        BY <4>2
      <4> QED
        BY <4>1, <4>3
    <3> QED
      BY <3>1, <3>2
  <2>3. seen' \in BOOLEAN
    BY Zenon DEF Collect
  <2>4. idle' \in BOOLEAN
    BY Zenon DEF Collect
  <2> QED
    BY <2>1, <2>2, <2>3, <2>4 DEF Collect, TypeInv, JobTypes
<1>3. JobPlaceInv'
  BY DEF Collect, TypeInv, JobPlaceInv
<1> QED
  BY <1>1, <1>2, <1>3 DEF Collect, TypeInv, CountInv, SlotTypes, CursorTypes, DbTypes,
     PlaceInv

(* merge_now() or merge_all_now() asks for a drain. *)
LEMMA MergeNowType ==
    ASSUME TypeInv, NEW all \in BOOLEAN, MergeNow(all)
    PROVE  TypeInv'
<1>1. JobTypes'
  BY DEF MergeNow, Request, TypeInv, JobTypes
<1>2. DbTypes'
  BY DEF MergeNow, Request, TypeInv, DbTypes
<1> QED
  BY <1>1, <1>2 DEF MergeNow, Request, TypeInv, CountInv, SlotTypes, CursorTypes,
     PinTypes, PlaceInv, JobPlaceInv

(* The types hold when the database is opened for the first time. *)
LEMMA InitType == Init => TypeInv
<1> SUFFICES ASSUME Init PROVE TypeInv
  OBVIOUS
<1>1. CountInv
  BY DEF Init, CountInv
<1>2. SlotTypes
  BY DEF Init, SlotTypes
<1>3. CursorTypes
  BY DEF Init, CursorTypes
<1>4. PinTypes
  BY DEF Init, PinTypes
<1>5. JobTypes
  BY DEF Init, JobTypes
<1>6. DbTypes
  BY DEF Init, DbTypes
<1>7. PlaceInv
  BY DEF Init, PlaceInv
<1>8. JobPlaceInv
  BY DEF Init, JobPlaceInv
<1> QED
  BY <1>1, <1>2, <1>3, <1>4, <1>5, <1>6, <1>7, <1>8 DEF TypeInv

(* Every step keeps the types. *)
LEMMA TypeStep == TypeInv /\ [Next]_vars => TypeInv'
<1> SUFFICES ASSUME TypeInv, [Next]_vars PROVE TypeInv'
  OBVIOUS
<1>1. ASSUME NEW p \in Procs, Unpin(p) PROVE TypeInv'
  BY <1>1, UnpinType
<1>2. ASSUME NEW c \in Cursors, CursorSignal(c) PROVE TypeInv'
  BY <1>2, CursorSignalType
<1>3. ASSUME NEW c \in Cursors, CursorSchedule(c) PROVE TypeInv'
  BY <1>3, CursorScheduleType
<1>4. ASSUME NEW c \in Cursors, TryClaim(c) PROVE TypeInv'
  BY <1>4, TryClaimType
<1>5. ASSUME NEW c \in Cursors, AllocNewSlot(c) PROVE TypeInv'
  BY <1>5, AllocNewSlotType
<1>6. ASSUME NEW c \in Cursors, AtCap(c) PROVE TypeInv'
  BY <1>6, AtCapType
<1>7. ASSUME NEW c \in Cursors, CommitBump(c) PROVE TypeInv'
  BY <1>7, CommitBumpType
<1>8. ASSUME NEW c \in Cursors, Scan(c) PROVE TypeInv'
  BY <1>8, ScanType
<1>9. ASSUME NEW c \in Cursors, TakeMain(c) PROVE TypeInv'
  BY <1>9, TakeMainType
<1>10. ASSUME NEW c \in Cursors, Detach(c) PROVE TypeInv'
  BY <1>10, DetachType
<1>11. ASSUME NEW c \in Cursors, StartAttached(c) PROVE TypeInv'
  BY <1>11, StartAttachedType
<1>12. ASSUME NEW c \in Cursors, StartReclaim(c) PROVE TypeInv'
  BY <1>12, StartReclaimType
<1>13. ASSUME NEW c \in Cursors, StartElse(c) PROVE TypeInv'
  BY <1>13, StartElseType
<1>14. ASSUME NEW c \in Cursors, NEW full \in BOOLEAN, Commit(c, full) PROVE TypeInv'
  BY <1>14, CommitType
<1>15. ASSUME NEW c \in Cursors, Rollback(c) PROVE TypeInv'
  BY <1>15, RollbackType
<1>16. ASSUME NEW c \in Cursors, Rebuild(c) PROVE TypeInv'
  BY <1>16, RebuildType
<1>17. ASSUME NEW c \in Cursors, CloseCursor(c) PROVE TypeInv'
  BY <1>17, CloseCursorType
<1>18. ASSUME TakeSlot PROVE TypeInv'
  BY <1>18, TakeSlotType
<1>19. ASSUME DoMerge PROVE TypeInv'
  BY <1>19, DoMergeType
<1>20. ASSUME MergeFails PROVE TypeInv'
  BY <1>20, MergeFailsType
<1>21. ASSUME PassEnd PROVE TypeInv'
  BY <1>21, PassEndType
<1>22. ASSUME Release PROVE TypeInv'
  BY <1>22, ReleaseType
<1>23. ASSUME Recheck PROVE TypeInv'
  BY <1>23, RecheckType
<1>24. ASSUME Regate PROVE TypeInv'
  BY <1>24, RegateType
<1>25. ASSUME SweepFires PROVE TypeInv'
  BY <1>25, SweepFiresType
<1>26. ASSUME DrainSignal PROVE TypeInv'
  BY <1>26, DrainSignalType
<1>27. ASSUME DrainSchedule PROVE TypeInv'
  BY <1>27, DrainScheduleType
<1>28. ASSUME Shutdown PROVE TypeInv'
  BY <1>28, ShutdownType
<1>29. ASSUME Awake PROVE TypeInv'
  BY <1>29, AwakeType
<1>30. ASSUME Destroyed PROVE TypeInv'
  BY <1>30, DestroyedType
<1>31. ASSUME Crash PROVE TypeInv'
  BY <1>31, CrashType
<1>32. ASSUME Finished PROVE TypeInv'
  BY <1>32, FinishedType
<1>33. ASSUME NEW old, Collect(old) PROVE TypeInv'
  BY <1>33, CollectType
<1>34. ASSUME NEW all \in BOOLEAN, MergeNow(all) PROVE TypeInv'
  BY <1>34, MergeNowType
<1>35. CASE UNCHANGED vars
  BY <1>35 DEF vars, TypeInv, CountInv, SlotTypes, CursorTypes, PinTypes, JobTypes,
     DbTypes, PlaceInv, JobPlaceInv
<1> QED
  BY <1>1, <1>2, <1>3, <1>4, <1>5, <1>6, <1>7, <1>8, <1>9, <1>10, <1>11, <1>12, <1>13,
     <1>14, <1>15, <1>16, <1>17, <1>18, <1>19, <1>20, <1>21, <1>22, <1>23, <1>24, <1>25,
     <1>26, <1>27, <1>28, <1>29, <1>30, <1>31, <1>32, <1>33, <1>34, <1>35
     DEF Next, CursorStep, Call, JobStep, LeaveStep, DrainStep, Procs

(* The types, the places of the cursors and of the task hold in every       *)
(* reachable state, for every number of cursors, slots and events and with  *)
(* every set of Corners.                                                    *)
THEOREM TypeTheorem == Spec => []TypeInv
<1>1. Init => TypeInv
  BY InitType
<1>2. TypeInv /\ [Next]_vars => TypeInv'
  BY TypeStep
<1> QED
  BY <1>1, <1>2, PTL DEF Spec

(* Every step keeps DrainInv. *)
LEMMA DrainInvStep == TypeInv /\ DrainInv /\ [Next]_vars => DrainInv'
<1> SUFFICES ASSUME TypeInv, DrainInv, [Next]_vars PROVE DrainInv'
  OBVIOUS
<1>t. JobTypes /\ DbTypes
  BY DEF TypeInv
<1>1. ASSUME NEW c \in Cursors, CursorSignal(c) PROVE DrainInv'
  BY <1>1, <1>t DEF CursorSignal, Signal, DrainInv, JobTypes, DbTypes
<1>2. ASSUME NEW c \in Cursors, CursorSchedule(c) PROVE DrainInv'
  BY <1>2, <1>t DEF CursorSchedule, ScheduleTask, DrainInv, JobTypes, DbTypes
<1>3. ASSUME TakeSlot PROVE DrainInv'
  BY <1>3, <1>t DEF TakeSlot, DrainInv, JobTypes, DbTypes
<1>4. ASSUME DoMerge PROVE DrainInv'
  BY <1>4, <1>t DEF DoMerge, BumpEpoch, DrainInv, JobTypes, DbTypes
<1>5. ASSUME MergeFails PROVE DrainInv'
  BY <1>5, <1>t DEF MergeFails, DrainInv, JobTypes, DbTypes
<1>6. ASSUME PassEnd PROVE DrainInv'
  BY <1>6, <1>t DEF PassEnd, DrainInv, JobTypes, DbTypes
<1>7. ASSUME Release PROVE DrainInv'
  BY <1>7, <1>t DEF Release, DrainInv, JobTypes, DbTypes
<1>8. ASSUME Recheck PROVE DrainInv'
  BY <1>8, <1>t DEF Recheck, DrainInv, JobTypes, DbTypes
<1>9. ASSUME Regate PROVE DrainInv'
  BY <1>9, <1>t DEF Regate, ScheduleTask, DrainInv, JobTypes, DbTypes
<1>10. ASSUME SweepFires PROVE DrainInv'
  BY <1>10, <1>t DEF SweepFires, Signal, ScheduleTask, DrainInv, JobTypes, DbTypes
<1>11. ASSUME DrainSignal PROVE DrainInv'
  BY <1>11, <1>t DEF DrainSignal, Signal, DrainInv, JobTypes, DbTypes
<1>12. ASSUME DrainSchedule PROVE DrainInv'
  BY <1>12, <1>t DEF DrainSchedule, ScheduleTask, DrainInv, JobTypes, DbTypes
<1>13. ASSUME Shutdown PROVE DrainInv'
  BY <1>13, <1>t DEF Shutdown, Request, DrainInv, JobTypes, DbTypes
<1>14. ASSUME Awake PROVE DrainInv'
  BY <1>14, <1>t DEF Awake, DrainInv, JobTypes, DbTypes
<1>15. ASSUME Destroyed PROVE DrainInv'
  BY <1>15, <1>t DEF Destroyed, DrainInv, JobTypes, DbTypes
<1>16. ASSUME Crash PROVE DrainInv'
  BY <1>16, <1>t DEF Crash, DrainInv, JobTypes, DbTypes
<1>17. ASSUME NEW old, Collect(old) PROVE DrainInv'
  BY <1>17, <1>t DEF Collect, DrainInv, JobTypes, DbTypes
<1>18. ASSUME NEW all \in BOOLEAN, MergeNow(all) PROVE DrainInv'
  BY <1>18, <1>t DEF MergeNow, Request, DrainInv, JobTypes, DbTypes
<1>19. ASSUME NEW p \in Procs, Unpin(p) PROVE DrainInv'
  BY <1>19 DEF Unpin, Recycle, GiveBack, DrainInv
<1>20. ASSUME NEW c \in Cursors,
           TryClaim(c) \/ AllocNewSlot(c) \/ AtCap(c) \/ CommitBump(c) \/ Scan(c)
           \/ TakeMain(c) \/ Detach(c) \/ StartAttached(c) \/ StartReclaim(c)
           \/ StartElse(c) \/ Rollback(c) \/ Rebuild(c) \/ CloseCursor(c)
     PROVE  DrainInv'
  BY <1>20 DEF TryClaim, Claimed, AllocNewSlot, AtCap, CommitBump, BumpEpoch, EndCommit,
     Scan, PinSource, TakeMain, Detach, GiveUp, StartAttached, Begins, StartReclaim,
     StartElse, Rollback, Rebuild, CloseCursor, DrainInv
<1>21. ASSUME NEW c \in Cursors, NEW full \in BOOLEAN, Commit(c, full) PROVE DrainInv'
  BY <1>21 DEF Commit, EndCommit, DrainInv
<1>22. CASE Finished
  BY <1>22 DEF Finished, vars, DrainInv
<1>23. CASE UNCHANGED vars
  BY <1>23 DEF vars, DrainInv
<1> QED
  BY <1>1, <1>2, <1>3, <1>4, <1>5, <1>6, <1>7, <1>8, <1>9, <1>10, <1>11, <1>12, <1>13,
     <1>14, <1>15, <1>16, <1>17, <1>18, <1>19, <1>20, <1>21, <1>22, <1>23
     DEF Next, CursorStep, Call, JobStep, LeaveStep, DrainStep, Procs

(* Every step keeps AttendInv. *)
LEMMA AttendInvStep == TypeInv /\ AttendInv /\ [Next]_vars => AttendInv'
<1> SUFFICES ASSUME TypeInv, AttendInv, [Next]_vars PROVE AttendInv'
  OBVIOUS
<1>1. ASSUME NEW p \in Procs, Unpin(p) PROVE AttendInv'
  BY <1>1 DEF Unpin, Recycle, GiveBack, AttendInv, TypeInv, SlotTypes, JobTypes,
     CursorTypes
<1>2. ASSUME NEW c \in Cursors, CursorSignal(c) PROVE AttendInv'
  BY <1>2 DEF CursorSignal, Signal, AttendInv, TypeInv, SlotTypes, JobTypes, CursorTypes
<1>3. ASSUME NEW c \in Cursors, CursorSchedule(c) PROVE AttendInv'
  BY <1>3 DEF CursorSchedule, ScheduleTask, AttendInv, TypeInv, SlotTypes, JobTypes,
     CursorTypes
<1>4. ASSUME NEW c \in Cursors, TryClaim(c) PROVE AttendInv'
  <2>1. PICK s \in 1 .. count : st[s] = "EMPTY" /\ Claimed(c, s)
    BY <1>4 DEF TryClaim
  <2>2. s \in Slots
    BY DEF TypeInv, CountInv
  <2>3. st' = [st EXCEPT ![s] = "FIRST_WRITING"] /\ pc' = [pc EXCEPT ![c] = "ready"]
    BY <2>1 DEF Claimed
  <2>4. pc[c] = "claim"
    BY <1>4 DEF TryClaim
  <2>5. UNCHANGED <<job, seen, list, signalled, leave>>
    BY <2>1 DEF Claimed
  <2> QED
    BY <2>2, <2>3, <2>4, <2>5 DEF AttendInv, TypeInv, SlotTypes, CursorTypes
<1>5. ASSUME NEW c \in Cursors, AllocNewSlot(c) PROVE AttendInv'
  BY <1>5 DEF AllocNewSlot, Claimed, AttendInv, TypeInv, SlotTypes, JobTypes,
     CursorTypes
<1>6. ASSUME NEW c \in Cursors, AtCap(c) PROVE AttendInv'
  BY <1>6 DEF AtCap, AttendInv, TypeInv, SlotTypes, JobTypes, CursorTypes
<1>7. ASSUME NEW c \in Cursors, CommitBump(c) PROVE AttendInv'
  BY <1>7 DEF CommitBump, BumpEpoch, EndCommit, AttendInv, TypeInv, SlotTypes, JobTypes,
     CursorTypes
<1>8. ASSUME NEW c \in Cursors, Scan(c) PROVE AttendInv'
  BY <1>8 DEF Scan, PinSource, AttendInv, TypeInv, SlotTypes, JobTypes, CursorTypes
<1>9. ASSUME NEW c \in Cursors, TakeMain(c) PROVE AttendInv'
  BY <1>9 DEF TakeMain, AttendInv, TypeInv, SlotTypes, JobTypes, CursorTypes
<1>10. ASSUME NEW c \in Cursors, Detach(c) PROVE AttendInv'
  BY <1>10 DEF Detach, GiveUp, AttendInv, TypeInv, SlotTypes, JobTypes, CursorTypes
<1>11. ASSUME NEW c \in Cursors, StartAttached(c) PROVE AttendInv'
  BY <1>11 DEF StartAttached, Begins, AttendInv, TypeInv, SlotTypes, JobTypes,
     CursorTypes
<1>12. ASSUME NEW c \in Cursors, StartReclaim(c) PROVE AttendInv'
  BY <1>12 DEF StartReclaim, Begins, AttendInv, TypeInv, SlotTypes, JobTypes,
     CursorTypes
<1>13. ASSUME NEW c \in Cursors, StartElse(c) PROVE AttendInv'
  BY <1>13 DEF StartElse, Begins, AttendInv, TypeInv, SlotTypes, JobTypes, CursorTypes
<1>14. ASSUME NEW c \in Cursors, NEW full \in BOOLEAN, Commit(c, full) PROVE AttendInv'
  BY <1>14 DEF Commit, EndCommit, AttendInv, TypeInv, SlotTypes, JobTypes, CursorTypes
<1>15. ASSUME NEW c \in Cursors, Rollback(c) PROVE AttendInv'
  BY <1>15 DEF Rollback, EndCommit, AttendInv, TypeInv, SlotTypes, JobTypes, CursorTypes
<1>16. ASSUME NEW c \in Cursors, Rebuild(c) PROVE AttendInv'
  BY <1>16 DEF Rebuild, AttendInv, TypeInv, SlotTypes, JobTypes, CursorTypes
<1>17. ASSUME NEW c \in Cursors, CloseCursor(c) PROVE AttendInv'
  BY <1>17 DEF CloseCursor, AttendInv, TypeInv, SlotTypes, JobTypes, CursorTypes
<1>18. ASSUME TakeSlot PROVE AttendInv'
  <2>1. Slot1 \in list /\ Slot1 \in Slots
    BY <1>18, SlotMin DEF TakeSlot, Slot1, TypeInv, JobTypes
  <2>2. CASE st[Slot1] \in {"ATTACHED", "MERGING"}
    BY <1>18, <2>1, <2>2 DEF TakeSlot, AttendInv, TypeInv, SlotTypes, JobTypes
  <2>3. CASE st[Slot1] \notin {"ATTACHED", "MERGING"}
    BY <1>18, <2>1, <2>3 DEF TakeSlot, AttendInv, TypeInv, SlotTypes, JobTypes
  <2> QED
    BY <2>2, <2>3
<1>19. ASSUME DoMerge PROVE AttendInv'
  BY <1>19 DEF DoMerge, BumpEpoch, AttendInv, TypeInv, SlotTypes, JobTypes, CursorTypes
<1>20. ASSUME MergeFails PROVE AttendInv'
  BY <1>20 DEF MergeFails, AttendInv, TypeInv, SlotTypes, JobTypes, CursorTypes
<1>21. ASSUME PassEnd PROVE AttendInv'
  BY <1>21 DEF PassEnd, AttendInv, TypeInv, SlotTypes, JobTypes, CursorTypes
<1>22. ASSUME Release PROVE AttendInv'
  BY <1>22 DEF Release, AttendInv, TypeInv, SlotTypes, JobTypes, CursorTypes
<1>23. ASSUME Recheck PROVE AttendInv'
  BY <1>23 DEF Recheck, AttendInv, TypeInv, SlotTypes, JobTypes, CursorTypes
<1>24. ASSUME Regate PROVE AttendInv'
  BY <1>24 DEF Regate, ScheduleTask, AttendInv, TypeInv, SlotTypes, JobTypes,
     CursorTypes
<1>25. ASSUME SweepFires PROVE AttendInv'
  BY <1>25 DEF SweepFires, Signal, ScheduleTask, AttendInv, TypeInv, SlotTypes,
     JobTypes, CursorTypes
<1>26. ASSUME DrainSignal PROVE AttendInv'
  BY <1>26 DEF DrainSignal, Signal, AttendInv, TypeInv, SlotTypes, JobTypes, CursorTypes
<1>27. ASSUME DrainSchedule PROVE AttendInv'
  BY <1>27 DEF DrainSchedule, ScheduleTask, AttendInv, TypeInv, SlotTypes, JobTypes,
     CursorTypes
<1>28. ASSUME Crash PROVE AttendInv'
  BY <1>28 DEF Crash, AttendInv, TypeInv, SlotTypes, JobTypes, CursorTypes
<1>29. ASSUME NEW old, Collect(old) PROVE AttendInv'
  BY <1>29 DEF Collect, AttendInv, TypeInv, SlotTypes, JobTypes, CursorTypes
<1>30. ASSUME NEW all \in BOOLEAN, MergeNow(all) PROVE AttendInv'
  BY <1>30 DEF MergeNow, Request, AttendInv
<1>31. CASE Shutdown \/ Awake \/ Destroyed \/ Finished
  BY <1>31 DEF Shutdown, Request, Awake, Destroyed, Finished, vars, AttendInv
<1>32. CASE UNCHANGED vars
  BY <1>32 DEF vars, AttendInv
<1> QED
  BY <1>1, <1>2, <1>3, <1>4, <1>5, <1>6, <1>7, <1>8, <1>9, <1>10, <1>11, <1>12, <1>13,
     <1>14, <1>15, <1>16, <1>17, <1>18, <1>19, <1>20, <1>21, <1>22, <1>23, <1>24, <1>25,
     <1>26, <1>27, <1>28, <1>29, <1>30, <1>31, <1>32
     DEF Next, CursorStep, Call, JobStep, LeaveStep, DrainStep, Procs

(* Who waits in merge_now(), merge_all_now() or the destructor of the       *)
(* database will be woken, in every reachable state: a task has the request *)
(* still to read, covers it, or will be put in place by the one that        *)
(* leaves.                                                                  *)
THEOREM DrainTheorem == Spec => []DrainServed
<1>1. Init => TypeInv /\ DrainInv
  <2>1. Init => DrainInv
    BY DEF Init, DrainInv
  <2> QED
    BY <2>1, InitType
<1>2. TypeInv /\ DrainInv /\ [Next]_vars => TypeInv' /\ DrainInv'
  BY TypeStep, DrainInvStep
<1>3. DrainInv => DrainServed
  BY DEF DrainInv, DrainServed
<1> QED
  BY <1>1, <1>2, <1>3, PTL DEF Spec

(* No slot handed to the merge task is forgotten, whatever the order of W1, *)
(* W2 of the cursors and J1, J2 of the tasks.                               *)
THEOREM AttendTheorem == Spec => []Attended
<1>1. Init => TypeInv /\ AttendInv
  <2>1. Init => AttendInv
    BY DEF Init, AttendInv
  <2> QED
    BY <2>1, InitType
<1>2. TypeInv /\ AttendInv /\ [Next]_vars => TypeInv' /\ AttendInv'
  BY TypeStep, AttendInvStep
<1>3. AttendInv => Attended
  BY DEF AttendInv, Attended
<1> QED
  BY <1>1, <1>2, <1>3, PTL DEF Spec

-----------------------------------------------------------------------------
(* The pins.  Every action moves pins between four kinds of holders; the    *)
(* lemmas below say what one move does to the number of holders of a kind,  *)
(* and what moves the actions make.                                         *)

(* The holders of a pin of slot s: its writer, its readers, those who are   *)
(* about to give it back, the merge.                                        *)
Owners(s)  == {c \in Cursors : own[c] = s}
Readers(s) == {c \in Cursors : s \in src[c]}
Givers(s)  == {p \in Procs : s \in drop[p]}
Merges(s)  == IF job = "merging" /\ s = Slot1 THEN 1 ELSE 0
Held(s)    == Cardinality(Owners(s)) + Cardinality(Readers(s)) + Cardinality(Givers(s)) + Merges(s)

(* Two subsets of a finite set that differ in x at most. *)
LEMMA Change ==
    ASSUME NEW P, IsFiniteSet(P), NEW A \in SUBSET P, NEW B \in SUBSET P, NEW x \in P,
           \A y \in P \ {x} : y \in A <=> y \in B
    PROVE  /\ Cardinality(A) \in Nat /\ Cardinality(B) \in Nat
           /\ Cardinality(B) + (IF x \in A THEN 1 ELSE 0) = Cardinality(A) + (IF x \in B THEN 1 ELSE 0)
<1>1. IsFiniteSet(A) /\ IsFiniteSet(B)
  BY FS_Subset
<1>2. Cardinality(A) \in Nat /\ Cardinality(B) \in Nat
  BY <1>1, FS_CardinalityType
<1>3. CASE x \in A <=> x \in B
  <2>1. A = B
    BY <1>3
  <2> QED
    BY <1>2, <2>1
<1>4. CASE x \in A /\ x \notin B
  <2>1. A = B \cup {x}
    BY <1>4
  <2>2. Cardinality(A) = Cardinality(B) + 1
    BY <1>1, <1>4, <2>1, FS_AddElement
  <2> QED
    BY <1>2, <1>4, <2>2
<1>5. CASE x \notin A /\ x \in B
  <2>1. B = A \cup {x}
    BY <1>5
  <2>2. Cardinality(B) = Cardinality(A) + 1
    BY <1>1, <1>5, <2>1, FS_AddElement
  <2> QED
    BY <1>2, <1>5, <2>2
<1> QED
  BY <1>3, <1>4, <1>5

(* There are finitely many cursors and processes. *)
LEMMA Finite == IsFiniteSet(Cursors) /\ IsFiniteSet(Procs)
<1>1. IsFiniteSet(Cursors)
  OBVIOUS
<1>2. IsFiniteSet(Procs)
  BY <1>1, FS_AddElement
<1> QED
  BY <1>1, <1>2

(* The number of holders of every kind is a number. *)
LEMMA HoldersCount ==
    ASSUME NEW s
    PROVE  /\ Cardinality(Owners(s)) \in Nat /\ Cardinality(Readers(s)) \in Nat
           /\ Cardinality(Givers(s)) \in Nat /\ Merges(s) \in Nat
<1>1. IsFiniteSet(Owners(s)) /\ IsFiniteSet(Readers(s)) /\ IsFiniteSet(Givers(s))
  BY Finite, FS_Subset DEF Owners, Readers, Givers
<1>2. Merges(s) \in Nat
  BY DEF Merges
<1> QED
  BY <1>1, <1>2, FS_CardinalityType

(* What the type invariant says of the variables that hold pins. *)
LEMMA PinDomains ==
    TypeInv => /\ refs \in [Slots -> Int] /\ own \in [Cursors -> Nat]
               /\ src \in [Cursors -> SUBSET Slots] /\ drop \in [Procs -> SUBSET Slots]
BY DEF TypeInv, SlotTypes, CursorTypes, PinTypes

(* PinsExact in terms of the holders. *)
LEMMA PinsHeld == PinsExact <=> \A s \in Slots : refs[s] = Held(s)
BY DEF PinsExact, Held, Owners, Readers, Givers, Merges

(* The same of the next state. *)
LEMMA PinsHeldNext == PinsExact' <=> \A s \in Slots : refs'[s] = Held(s)'
BY DEF PinsExact, Held, Owners, Readers, Givers, Merges

(* The owners of s after cursor c has changed its write source to v. *)
OwnersMove(s, c, v) ==
    /\ Cardinality(Owners(s)') \in Nat
    /\ Cardinality(Owners(s)') + (IF own[c] = s THEN 1 ELSE 0)
         = Cardinality(Owners(s)) + (IF v = s THEN 1 ELSE 0)

(* A cursor changes its write source. *)
LEMMA OwnMove ==
    ASSUME TypeInv, NEW c \in Cursors, NEW v, own' = [own EXCEPT ![c] = v], NEW s
    PROVE  OwnersMove(s, c, v)
<1>1. own \in [Cursors -> Nat]
  BY PinDomains
<1>2. Owners(s) \in SUBSET Cursors /\ Owners(s)' \in SUBSET Cursors
  BY DEF Owners
<1>3. \A d \in Cursors \ {c} : d \in Owners(s) <=> d \in Owners(s)'
  BY <1>1 DEF Owners
<1>4. (c \in Owners(s) <=> own[c] = s) /\ (c \in Owners(s)' <=> v = s)
  BY <1>1 DEF Owners
<1>5. /\ Cardinality(Owners(s)') \in Nat
      /\ Cardinality(Owners(s)') + (IF c \in Owners(s) THEN 1 ELSE 0)
           = Cardinality(Owners(s)) + (IF c \in Owners(s)' THEN 1 ELSE 0)
  BY <1>2, <1>3, Change, Finite
<1> QED
  BY <1>4, <1>5 DEF OwnersMove

(* A cursor changes its sources. *)
LEMMA SrcMove ==
    ASSUME TypeInv, NEW c \in Cursors, NEW V, src' = [src EXCEPT ![c] = V], NEW s
    PROVE  /\ Cardinality(Readers(s)') \in Nat
           /\ Cardinality(Readers(s)') + (IF s \in src[c] THEN 1 ELSE 0)
                = Cardinality(Readers(s)) + (IF s \in V THEN 1 ELSE 0)
<1>1. src \in [Cursors -> SUBSET Slots]
  BY PinDomains
<1>2. Readers(s) \in SUBSET Cursors /\ Readers(s)' \in SUBSET Cursors
  BY DEF Readers
<1>3. \A d \in Cursors \ {c} : d \in Readers(s) <=> d \in Readers(s)'
  BY <1>1 DEF Readers
<1>4. (c \in Readers(s) <=> s \in src[c]) /\ (c \in Readers(s)' <=> s \in V)
  BY <1>1 DEF Readers
<1>5. /\ Cardinality(Readers(s)') \in Nat
      /\ Cardinality(Readers(s)') + (IF c \in Readers(s) THEN 1 ELSE 0)
           = Cardinality(Readers(s)) + (IF c \in Readers(s)' THEN 1 ELSE 0)
  BY <1>2, <1>3, Change, Finite
<1> QED
  BY <1>4, <1>5

(* A process changes what it gives back. *)
LEMMA DropMove ==
    ASSUME TypeInv, NEW p \in Procs, NEW V, drop' = [drop EXCEPT ![p] = V], NEW s
    PROVE  /\ Cardinality(Givers(s)') \in Nat
           /\ Cardinality(Givers(s)') + (IF s \in drop[p] THEN 1 ELSE 0)
                = Cardinality(Givers(s)) + (IF s \in V THEN 1 ELSE 0)
<1>1. drop \in [Procs -> SUBSET Slots]
  BY PinDomains
<1>2. Givers(s) \in SUBSET Procs /\ Givers(s)' \in SUBSET Procs
  BY DEF Givers
<1>3. \A q \in Procs \ {p} : q \in Givers(s) <=> q \in Givers(s)'
  BY <1>1 DEF Givers
<1>4. (p \in Givers(s) <=> s \in drop[p]) /\ (p \in Givers(s)' <=> s \in V)
  BY <1>1 DEF Givers
<1>5. /\ Cardinality(Givers(s)') \in Nat
      /\ Cardinality(Givers(s)') + (IF p \in Givers(s) THEN 1 ELSE 0)
           = Cardinality(Givers(s)) + (IF p \in Givers(s)' THEN 1 ELSE 0)
  BY <1>2, <1>3, Change, Finite
<1> QED
  BY <1>4, <1>5

(* The task does not begin or end a merge. *)
SameMerge == (job = "merging" <=> job' = "merging") /\ (job = "merging" => list' = list)

(* Then the merge holds what it held. *)
LEMMA MergesSame == ASSUME SameMerge, NEW s PROVE Merges(s)' = Merges(s)
BY DEF SameMerge, Merges, Slot1

(* A step that moves no pin. *)
LEMMA NoMove ==
    ASSUME PinsExact, UNCHANGED <<own, src, drop, refs>>, SameMerge
    PROVE  PinsExact'
<1> SUFFICES ASSUME NEW s \in Slots PROVE refs'[s] = Held(s)'
  BY PinsHeldNext
<1>1. Merges(s)' = Merges(s)
  BY MergesSame
<1>2. Held(s)' = Held(s)
  BY <1>1 DEF Held, Owners, Readers, Givers
<1> QED
  BY <1>2, PinsHeld

(* A cursor that lets go of its write source: the pin goes to drop. *)
LEMMA OwnToDrop ==
    ASSUME TypeInv, PinsExact, NEW c \in Cursors, drop[c] = {},
           own' = [own EXCEPT ![c] = 0], drop' = [drop EXCEPT ![c] = {own[c]} \ {0}],
           UNCHANGED <<src, refs>>, SameMerge
    PROVE  PinsExact'
<1> SUFFICES ASSUME NEW s \in Slots PROVE refs'[s] = Held(s)'
  BY PinsHeldNext
<1>1. Merges(s)' = Merges(s) /\ Readers(s)' = Readers(s)
  BY MergesSame DEF Readers
<1>2. /\ Cardinality(Owners(s)') \in Nat
      /\ Cardinality(Owners(s)') + (IF own[c] = s THEN 1 ELSE 0)
           = Cardinality(Owners(s)) + (IF 0 = s THEN 1 ELSE 0)
  <2>1. OwnersMove(s, c, 0)
    BY OwnMove
  <2> QED
    BY <2>1 DEF OwnersMove
<1>3. /\ Cardinality(Givers(s)') \in Nat
      /\ Cardinality(Givers(s)') + (IF s \in drop[c] THEN 1 ELSE 0)
           = Cardinality(Givers(s)) + (IF s \in {own[c]} \ {0} THEN 1 ELSE 0)
  <2> DEFINE V == {own[c]} \ {0}
  <2>1. drop' = [drop EXCEPT ![c] = V] /\ c \in Procs
    OBVIOUS
  <2> HIDE DEF V
  <2>2. /\ Cardinality(Givers(s)') \in Nat
        /\ Cardinality(Givers(s)') + (IF s \in drop[c] THEN 1 ELSE 0)
             = Cardinality(Givers(s)) + (IF s \in V THEN 1 ELSE 0)
    BY <2>1, DropMove
  <2> QED
    BY <2>2 DEF V
<1>4. s # 0 /\ refs[s] = Held(s)
  BY PinsHeld
<1>5. Cardinality(Owners(s)') + Cardinality(Givers(s)') = Cardinality(Owners(s)) + Cardinality(Givers(s))
  BY <1>2, <1>3, <1>4, HoldersCount
<1> QED
  BY <1>1, <1>2, <1>3, <1>4, <1>5, HoldersCount DEF Held

(* A cursor that lets go of its sources: the pins go to drop. *)
LEMMA SrcToDrop ==
    ASSUME TypeInv, PinsExact, NEW c \in Cursors, drop[c] = {},
           src' = [src EXCEPT ![c] = {}], drop' = [drop EXCEPT ![c] = src[c]],
           UNCHANGED <<own, refs>>, SameMerge
    PROVE  PinsExact'
<1> SUFFICES ASSUME NEW s \in Slots PROVE refs'[s] = Held(s)'
  BY PinsHeldNext
<1>1. Merges(s)' = Merges(s) /\ Owners(s)' = Owners(s)
  BY MergesSame DEF Owners
<1>2. /\ Cardinality(Readers(s)') \in Nat
      /\ Cardinality(Readers(s)') + (IF s \in src[c] THEN 1 ELSE 0)
           = Cardinality(Readers(s)) + (IF s \in {} THEN 1 ELSE 0)
  BY SrcMove
<1>3. /\ Cardinality(Givers(s)') \in Nat
      /\ Cardinality(Givers(s)') + (IF s \in drop[c] THEN 1 ELSE 0)
           = Cardinality(Givers(s)) + (IF s \in src[c] THEN 1 ELSE 0)
  BY DropMove
<1>4. refs[s] = Held(s)
  BY PinsHeld
<1>5. Cardinality(Readers(s)') + Cardinality(Givers(s)') = Cardinality(Readers(s)) + Cardinality(Givers(s))
  BY <1>2, <1>3, HoldersCount
<1> QED
  BY <1>1, <1>2, <1>3, <1>4, <1>5, HoldersCount DEF Held

(* A cursor claims a slot: a pin more, and it is the writer's. *)
LEMMA PinOwn ==
    ASSUME TypeInv, PinsExact, NEW c \in Cursors, own[c] \notin Slots, NEW t \in Slots,
           own' = [own EXCEPT ![c] = t], refs' = [refs EXCEPT ![t] = @ + 1],
           UNCHANGED <<src, drop>>, SameMerge
    PROVE  PinsExact'
<1> SUFFICES ASSUME NEW s \in Slots PROVE refs'[s] = Held(s)'
  BY PinsHeldNext
<1>1. Merges(s)' = Merges(s) /\ Readers(s)' = Readers(s) /\ Givers(s)' = Givers(s)
  BY MergesSame DEF Readers, Givers
<1>2. /\ Cardinality(Owners(s)') \in Nat
      /\ Cardinality(Owners(s)') + (IF own[c] = s THEN 1 ELSE 0)
           = Cardinality(Owners(s)) + (IF t = s THEN 1 ELSE 0)
  <2>1. OwnersMove(s, c, t)
    BY OwnMove
  <2> QED
    BY <2>1 DEF OwnersMove
<1>3. own[c] # s /\ refs[s] = Held(s)
  BY PinsHeld
<1>4. refs'[s] = refs[s] + (IF t = s THEN 1 ELSE 0)
  BY PinDomains
<1> QED
  BY <1>1, <1>2, <1>3, <1>4, HoldersCount DEF Held

(* A cursor pins a source that it does not have yet. *)
LEMMA PinRead ==
    ASSUME TypeInv, PinsExact, NEW c \in Cursors, NEW t \in Slots, t \notin src[c],
           src' = [src EXCEPT ![c] = @ \cup {t}], refs' = [refs EXCEPT ![t] = @ + 1],
           UNCHANGED <<own, drop>>, SameMerge
    PROVE  PinsExact'
<1> SUFFICES ASSUME NEW s \in Slots PROVE refs'[s] = Held(s)'
  BY PinsHeldNext
<1>1. Merges(s)' = Merges(s) /\ Owners(s)' = Owners(s) /\ Givers(s)' = Givers(s)
  BY MergesSame DEF Owners, Givers
<1>2. /\ Cardinality(Readers(s)') \in Nat
      /\ Cardinality(Readers(s)') + (IF s \in src[c] THEN 1 ELSE 0)
           = Cardinality(Readers(s)) + (IF s \in src[c] \cup {t} THEN 1 ELSE 0)
  <2> DEFINE V == src[c] \cup {t}
  <2>1. src' = [src EXCEPT ![c] = V]
    OBVIOUS
  <2> HIDE DEF V
  <2>2. /\ Cardinality(Readers(s)') \in Nat
        /\ Cardinality(Readers(s)') + (IF s \in src[c] THEN 1 ELSE 0)
             = Cardinality(Readers(s)) + (IF s \in V THEN 1 ELSE 0)
    BY <2>1, SrcMove
  <2> QED
    BY <2>2 DEF V
<1>3. refs[s] = Held(s)
  BY PinsHeld
<1>4. refs'[s] = refs[s] + (IF t = s THEN 1 ELSE 0)
  BY PinDomains
<1>5. Cardinality(Readers(s)') = Cardinality(Readers(s)) + (IF t = s THEN 1 ELSE 0)
  BY <1>2, HoldersCount
<1> QED
  BY <1>1, <1>3, <1>4, <1>5, HoldersCount DEF Held

(* A process gives back a pin. *)
LEMMA PinGiven ==
    ASSUME TypeInv, PinsExact, NEW p \in Procs, NEW t \in Slots, t \in drop[p],
           drop' = [drop EXCEPT ![p] = @ \ {t}], refs' = [refs EXCEPT ![t] = @ - 1],
           UNCHANGED <<own, src>>, SameMerge
    PROVE  PinsExact'
<1> SUFFICES ASSUME NEW s \in Slots PROVE refs'[s] = Held(s)'
  BY PinsHeldNext
<1>1. Merges(s)' = Merges(s) /\ Owners(s)' = Owners(s) /\ Readers(s)' = Readers(s)
  BY MergesSame DEF Owners, Readers
<1>2. /\ Cardinality(Givers(s)') \in Nat
      /\ Cardinality(Givers(s)') + (IF s \in drop[p] THEN 1 ELSE 0)
           = Cardinality(Givers(s)) + (IF s \in drop[p] \ {t} THEN 1 ELSE 0)
  <2> DEFINE V == drop[p] \ {t}
  <2>1. drop' = [drop EXCEPT ![p] = V]
    OBVIOUS
  <2> HIDE DEF V
  <2>2. /\ Cardinality(Givers(s)') \in Nat
        /\ Cardinality(Givers(s)') + (IF s \in drop[p] THEN 1 ELSE 0)
             = Cardinality(Givers(s)) + (IF s \in V THEN 1 ELSE 0)
    BY <2>1, DropMove
  <2> QED
    BY <2>2 DEF V
<1>3. refs[s] = Held(s)
  BY PinsHeld
<1>4. refs'[s] = refs[s] - (IF t = s THEN 1 ELSE 0)
  BY PinDomains
<1>5. Cardinality(Givers(s)') + (IF t = s THEN 1 ELSE 0) = Cardinality(Givers(s))
  BY <1>2, HoldersCount
<1> QED
  BY <1>1, <1>2, <1>3, <1>4, <1>5, HoldersCount DEF Held

(* The merge pins the slot it takes, *)
LEMMA PinMerge ==
    ASSUME TypeInv, PinsExact, Slot1 \in Slots, job # "merging", job' = "merging", list' = list,
           refs' = [refs EXCEPT ![Slot1] = @ + 1], UNCHANGED <<own, src, drop>>
    PROVE  PinsExact'
<1> SUFFICES ASSUME NEW s \in Slots PROVE refs'[s] = Held(s)'
  BY PinsHeldNext
<1>1. Owners(s)' = Owners(s) /\ Readers(s)' = Readers(s) /\ Givers(s)' = Givers(s)
  BY DEF Owners, Readers, Givers
<1>2. Slot1' = Slot1
  BY DEF Slot1
<1>3. Merges(s) = 0 /\ Merges(s)' = (IF s = Slot1 THEN 1 ELSE 0)
  BY <1>2 DEF Merges
<1>4. refs[s] = Held(s)
  BY PinsHeld
<1>5. refs'[s] = refs[s] + (IF s = Slot1 THEN 1 ELSE 0)
  BY PinDomains
<1> QED
  BY <1>1, <1>3, <1>4, <1>5, HoldersCount DEF Held

(* gives the pin back when it fails, *)
LEMMA UnpinMerge ==
    ASSUME TypeInv, PinsExact, Slot1 \in Slots, job = "merging", job' # "merging",
           refs' = [refs EXCEPT ![Slot1] = @ - 1], UNCHANGED <<own, src, drop>>
    PROVE  PinsExact'
<1> SUFFICES ASSUME NEW s \in Slots PROVE refs'[s] = Held(s)'
  BY PinsHeldNext
<1>1. Owners(s)' = Owners(s) /\ Readers(s)' = Readers(s) /\ Givers(s)' = Givers(s)
  BY DEF Owners, Readers, Givers
<1>2. Merges(s)' = 0 /\ Merges(s) = (IF s = Slot1 THEN 1 ELSE 0)
  BY DEF Merges
<1>3. refs[s] = Held(s)
  BY PinsHeld
<1>4. refs'[s] = refs[s] - (IF s = Slot1 THEN 1 ELSE 0)
  BY PinDomains
<1> QED
  BY <1>1, <1>2, <1>3, <1>4, HoldersCount DEF Held

(* and puts it into drop when it is done. *)
LEMMA MergeToDrop ==
    ASSUME TypeInv, PinsExact, Slot1 \in Slots, job = "merging", job' # "merging",
           drop[Job] = {}, drop' = [drop EXCEPT ![Job] = {Slot1}], UNCHANGED <<own, src, refs>>
    PROVE  PinsExact'
<1> SUFFICES ASSUME NEW s \in Slots PROVE refs'[s] = Held(s)'
  BY PinsHeldNext
<1>1. Owners(s)' = Owners(s) /\ Readers(s)' = Readers(s)
  BY DEF Owners, Readers
<1>2. Merges(s)' = 0 /\ Merges(s) = (IF s = Slot1 THEN 1 ELSE 0)
  BY DEF Merges
<1>3. /\ Cardinality(Givers(s)') \in Nat
      /\ Cardinality(Givers(s)') + (IF s \in drop[Job] THEN 1 ELSE 0)
           = Cardinality(Givers(s)) + (IF s \in {Slot1} THEN 1 ELSE 0)
  <2> DEFINE V == {Slot1}
  <2>1. drop' = [drop EXCEPT ![Job] = V] /\ Job \in Procs
    OBVIOUS
  <2> HIDE DEF V
  <2>2. /\ Cardinality(Givers(s)') \in Nat
        /\ Cardinality(Givers(s)') + (IF s \in drop[Job] THEN 1 ELSE 0)
             = Cardinality(Givers(s)) + (IF s \in V THEN 1 ELSE 0)
    BY <2>1, DropMove
  <2> QED
    BY <2>2 DEF V
<1>4. refs[s] = Held(s)
  BY PinsHeld
<1> QED
  BY <1>1, <1>2, <1>3, <1>4, HoldersCount DEF Held

(* With no holder of any kind refs is 0. *)
LEMMA NobodyHolds ==
    ASSUME \A s \in Slots : refs[s] = 0, \A c \in Cursors : own[c] = 0 /\ src[c] = {},
           \A p \in Procs : drop[p] = {}, job # "merging"
    PROVE  PinsExact
<1> SUFFICES ASSUME NEW s \in Slots PROVE refs[s] = Held(s)
  BY PinsHeld
<1>1. Owners(s) = {} /\ Readers(s) = {} /\ Givers(s) = {} /\ Merges(s) = 0
  BY DEF Owners, Readers, Givers, Merges
<1>2. Cardinality({}) = 0
  BY FS_EmptySet
<1> QED
  BY <1>1, <1>2 DEF Held

(* After a crash nobody holds a slot. *)
LEMMA CrashPins == Crash => PinsExact'
<1> SUFFICES ASSUME Crash, NEW s \in Slots PROVE refs'[s] = Held(s)'
  BY PinsHeldNext
<1>1. Owners(s)' = {} /\ Readers(s)' = {}
  BY DEF Crash, Owners, Readers
<1>2. Givers(s)' = {} /\ Merges(s)' = 0
  BY DEF Crash, Givers, Merges
<1>3. Cardinality({}) = 0
  BY FS_EmptySet
<1>4. refs'[s] = 0
  BY DEF Crash
<1> QED
  BY <1>1, <1>2, <1>3, <1>4 DEF Held

(* Every step keeps the count of the pins. *)
LEMMA PinsStep == TypeInv /\ PinsExact /\ [Next]_vars => PinsExact'
<1> SUFFICES ASSUME TypeInv, PinsExact, [Next]_vars PROVE PinsExact'
  OBVIOUS
<1>1. ASSUME NEW p \in Procs, Unpin(p) PROVE PinsExact'
  <2> DEFINE t == Min(drop[p])
  <2>1. UNCHANGED <<own, src>> /\ SameMerge
    BY <1>1 DEF Unpin, SameMerge
  <2>2. \/ UNCHANGED <<refs, drop>>
        \/ /\ drop[p] # {}
           /\ drop' = [drop EXCEPT ![p] = @ \ {t}] /\ refs' = [refs EXCEPT ![t] = @ - 1]
    BY <1>1 DEF Unpin, GiveBack
  <2>3. drop[p] # {} => t \in drop[p] /\ t \in Slots
    BY SlotMin DEF TypeInv, PinTypes
  <2> HIDE DEF t
  <2>4. CASE UNCHANGED <<refs, drop>>
    BY <2>1, <2>4, NoMove
  <2>5. CASE /\ drop[p] # {}
             /\ drop' = [drop EXCEPT ![p] = @ \ {t}] /\ refs' = [refs EXCEPT ![t] = @ - 1]
    BY <2>1, <2>3, <2>5, PinGiven
  <2> QED
    BY <2>2, <2>4, <2>5
<1>2. ASSUME NEW c \in Cursors, CursorSignal(c) PROVE PinsExact'
  <2>1. UNCHANGED <<own, src, drop, refs>> /\ SameMerge
    BY <1>2 DEF CursorSignal, Signal, SameMerge
  <2> QED
    BY <2>1, NoMove
<1>3. ASSUME NEW c \in Cursors, CursorSchedule(c) PROVE PinsExact'
  <2>1. UNCHANGED <<own, src, drop, refs>> /\ SameMerge
    BY <1>3 DEF CursorSchedule, ScheduleTask, SameMerge
  <2> QED
    BY <2>1, NoMove
<1>4. ASSUME NEW c \in Cursors, TryClaim(c) PROVE PinsExact'
  <2>1. PICK t \in 1 .. count : Claimed(c, t)
    BY <1>4 DEF TryClaim
  <2>2. t \in Slots
    BY DEF TypeInv, CountInv
  <2>3. own[c] \notin Slots
    BY <1>4 DEF TryClaim, TypeInv, PlaceInv
  <2>4. /\ own' = [own EXCEPT ![c] = t] /\ refs' = [refs EXCEPT ![t] = @ + 1]
        /\ UNCHANGED <<src, drop>> /\ SameMerge
    BY <2>1 DEF Claimed, SameMerge
  <2> QED
    BY <2>2, <2>3, <2>4, PinOwn
<1>5. ASSUME NEW c \in Cursors, AllocNewSlot(c) PROVE PinsExact'
  <2> DEFINE t == count + 1
  <2>1. t \in Slots /\ Claimed(c, t)
    BY <1>5 DEF AllocNewSlot, TypeInv, CountInv
  <2> HIDE DEF t
  <2>2. own[c] \notin Slots
    BY <1>5 DEF AllocNewSlot, TypeInv, PlaceInv
  <2>3. /\ own' = [own EXCEPT ![c] = t] /\ refs' = [refs EXCEPT ![t] = @ + 1]
        /\ UNCHANGED <<src, drop>> /\ SameMerge
    BY <2>1 DEF Claimed, SameMerge
  <2> QED
    BY <2>1, <2>2, <2>3, PinOwn
<1>6. ASSUME NEW c \in Cursors, AtCap(c) PROVE PinsExact'
  <2>1. drop[c] = {}
    BY <1>6 DEF AtCap, TypeInv, PlaceInv
  <2>2. /\ src' = [src EXCEPT ![c] = {}] /\ drop' = [drop EXCEPT ![c] = src[c]]
        /\ UNCHANGED <<own, refs>> /\ SameMerge
    BY <1>6 DEF AtCap, SameMerge
  <2> QED
    BY <2>1, <2>2, SrcToDrop
<1>7. ASSUME NEW c \in Cursors, CommitBump(c) PROVE PinsExact'
  <2>1. drop[c] = {} /\ own[c] # 0
    BY <1>7 DEF CommitBump, TypeInv, PlaceInv
  <2>2. \/ UNCHANGED <<own, drop>>
        \/ own' = [own EXCEPT ![c] = 0] /\ drop' = [drop EXCEPT ![c] = {own[c]}]
    BY <1>7 DEF CommitBump, EndCommit
  <2>3. UNCHANGED <<src, refs>> /\ SameMerge
    BY <1>7 DEF CommitBump, SameMerge
  <2>4. CASE UNCHANGED <<own, drop>>
    BY <2>3, <2>4, NoMove
  <2>5. CASE own' = [own EXCEPT ![c] = 0] /\ drop' = [drop EXCEPT ![c] = {own[c]}]
    <3>1. drop' = [drop EXCEPT ![c] = {own[c]} \ {0}]
      <4>1. {own[c]} = {own[c]} \ {0}
        BY <2>1
      <4> QED
        BY <2>5, <4>1
    <3> QED
      BY <2>1, <2>3, <2>5, <3>1, OwnToDrop
  <2> QED
    BY <2>2, <2>4, <2>5
<1>8. ASSUME NEW c \in Cursors, Scan(c) PROVE PinsExact'
  <2> DEFINE t == at[c]
  <2>1. t \in Slots
    BY <1>8 DEF Scan, TypeInv, CountInv, CursorTypes, PlaceInv
  <2>2. t \notin src[c]
    BY <1>8 DEF Scan, TypeInv, CursorTypes, PlaceInv
  <2>3. \/ UNCHANGED <<src, refs>>
        \/ src' = [src EXCEPT ![c] = @ \cup {t}] /\ refs' = [refs EXCEPT ![t] = @ + 1]
    BY <1>8 DEF Scan, PinSource
  <2>4. UNCHANGED <<own, drop>> /\ SameMerge
    BY <1>8 DEF Scan, SameMerge
  <2> HIDE DEF t
  <2>5. CASE UNCHANGED <<src, refs>>
    BY <2>4, <2>5, NoMove
  <2>6. CASE src' = [src EXCEPT ![c] = @ \cup {t}] /\ refs' = [refs EXCEPT ![t] = @ + 1]
    BY <2>1, <2>2, <2>4, <2>6, PinRead
  <2> QED
    BY <2>3, <2>5, <2>6
<1>9. ASSUME NEW c \in Cursors, TakeMain(c) PROVE PinsExact'
  <2>1. UNCHANGED <<own, src, drop, refs>> /\ SameMerge
    BY <1>9 DEF TakeMain, SameMerge
  <2> QED
    BY <2>1, NoMove
<1>10. ASSUME NEW c \in Cursors, Detach(c) PROVE PinsExact'
  <2>1. drop[c] = {} /\ own[c] # 0
    BY <1>10 DEF Detach, TypeInv, PlaceInv
  <2>2. \/ UNCHANGED <<own, drop>>
        \/ own' = [own EXCEPT ![c] = 0] /\ drop' = [drop EXCEPT ![c] = {own[c]}]
    BY <1>10 DEF Detach, GiveUp
  <2>3. UNCHANGED <<src, refs>> /\ SameMerge
    BY <1>10 DEF Detach, SameMerge
  <2>4. CASE UNCHANGED <<own, drop>>
    BY <2>3, <2>4, NoMove
  <2>5. CASE own' = [own EXCEPT ![c] = 0] /\ drop' = [drop EXCEPT ![c] = {own[c]}]
    <3>1. drop' = [drop EXCEPT ![c] = {own[c]} \ {0}]
      <4>1. {own[c]} = {own[c]} \ {0}
        BY <2>1
      <4> QED
        BY <2>5, <4>1
    <3> QED
      BY <2>1, <2>3, <2>5, <3>1, OwnToDrop
  <2> QED
    BY <2>2, <2>4, <2>5
<1>11. ASSUME NEW c \in Cursors, StartAttached(c) PROVE PinsExact'
  <2>1. UNCHANGED <<own, src, drop, refs>> /\ SameMerge
    BY <1>11 DEF StartAttached, Begins, SameMerge
  <2> QED
    BY <2>1, NoMove
<1>12. ASSUME NEW c \in Cursors, StartReclaim(c) PROVE PinsExact'
  <2>1. UNCHANGED <<own, src, drop, refs>> /\ SameMerge
    BY <1>12 DEF StartReclaim, Begins, SameMerge
  <2> QED
    BY <2>1, NoMove
<1>13. ASSUME NEW c \in Cursors, StartElse(c) PROVE PinsExact'
  <2>1. drop[c] = {}
    BY <1>13 DEF StartElse, Begins, TypeInv, PlaceInv
  <2>2. /\ own' = [own EXCEPT ![c] = 0] /\ drop' = [drop EXCEPT ![c] = {own[c]} \ {0}]
        /\ UNCHANGED <<src, refs>> /\ SameMerge
    BY <1>13 DEF StartElse, SameMerge
  <2> QED
    BY <2>1, <2>2, OwnToDrop
<1>14. ASSUME NEW c \in Cursors, NEW full \in BOOLEAN, Commit(c, full) PROVE PinsExact'
  <2>1. drop[c] = {} /\ own[c] # 0
    BY <1>14 DEF Commit, TypeInv, PlaceInv
  <2>2. \/ UNCHANGED <<own, drop>>
        \/ own' = [own EXCEPT ![c] = 0] /\ drop' = [drop EXCEPT ![c] = {own[c]}]
    BY <1>14 DEF Commit, EndCommit
  <2>3. UNCHANGED <<src, refs>> /\ SameMerge
    BY <1>14 DEF Commit, SameMerge
  <2>4. CASE UNCHANGED <<own, drop>>
    BY <2>3, <2>4, NoMove
  <2>5. CASE own' = [own EXCEPT ![c] = 0] /\ drop' = [drop EXCEPT ![c] = {own[c]}]
    <3>1. drop' = [drop EXCEPT ![c] = {own[c]} \ {0}]
      <4>1. {own[c]} = {own[c]} \ {0}
        BY <2>1
      <4> QED
        BY <2>5, <4>1
    <3> QED
      BY <2>1, <2>3, <2>5, <3>1, OwnToDrop
  <2> QED
    BY <2>2, <2>4, <2>5
<1>15. ASSUME NEW c \in Cursors, Rollback(c) PROVE PinsExact'
  <2>1. drop[c] = {} /\ own[c] # 0
    BY <1>15 DEF Rollback, TypeInv, PlaceInv
  <2>2. \/ UNCHANGED <<own, drop>>
        \/ own' = [own EXCEPT ![c] = 0] /\ drop' = [drop EXCEPT ![c] = {own[c]}]
    BY <1>15 DEF Rollback, EndCommit
  <2>3. UNCHANGED <<src, refs>> /\ SameMerge
    BY <1>15 DEF Rollback, SameMerge
  <2>4. CASE UNCHANGED <<own, drop>>
    BY <2>3, <2>4, NoMove
  <2>5. CASE own' = [own EXCEPT ![c] = 0] /\ drop' = [drop EXCEPT ![c] = {own[c]}]
    <3>1. drop' = [drop EXCEPT ![c] = {own[c]} \ {0}]
      <4>1. {own[c]} = {own[c]} \ {0}
        BY <2>1
      <4> QED
        BY <2>5, <4>1
    <3> QED
      BY <2>1, <2>3, <2>5, <3>1, OwnToDrop
  <2> QED
    BY <2>2, <2>4, <2>5
<1>16. ASSUME NEW c \in Cursors, Rebuild(c) PROVE PinsExact'
  <2>1. drop[c] = {}
    BY <1>16 DEF Rebuild, TypeInv, PlaceInv
  <2>2. /\ src' = [src EXCEPT ![c] = {}] /\ drop' = [drop EXCEPT ![c] = src[c]]
        /\ UNCHANGED <<own, refs>> /\ SameMerge
    BY <1>16 DEF Rebuild, SameMerge
  <2> QED
    BY <2>1, <2>2, SrcToDrop
<1>17. ASSUME NEW c \in Cursors, CloseCursor(c) PROVE PinsExact'
  <2>1. drop[c] = {}
    BY <1>17 DEF CloseCursor, TypeInv, PlaceInv
  <2>2. /\ src' = [src EXCEPT ![c] = {}] /\ drop' = [drop EXCEPT ![c] = src[c]]
        /\ UNCHANGED <<own, refs>> /\ SameMerge
    BY <1>17 DEF CloseCursor, SameMerge
  <2> QED
    BY <2>1, <2>2, SrcToDrop
<1>18. ASSUME TakeSlot PROVE PinsExact'
  <2>1. Slot1 \in Slots
    BY <1>18, SlotMin DEF TakeSlot, Slot1, TypeInv, JobTypes
  <2>2. CASE st[Slot1] \in {"ATTACHED", "MERGING"}
    <3>1. /\ job # "merging" /\ job' = "merging" /\ list' = list
          /\ refs' = [refs EXCEPT ![Slot1] = @ + 1] /\ UNCHANGED <<own, src, drop>>
      BY <1>18, <2>2 DEF TakeSlot
    <3> QED
      BY <2>1, <3>1, PinMerge
  <2>3. CASE st[Slot1] \notin {"ATTACHED", "MERGING"}
    <3>1. UNCHANGED <<own, src, drop, refs>> /\ SameMerge
      BY <1>18, <2>3 DEF TakeSlot, SameMerge
    <3> QED
      BY <3>1, NoMove
  <2> QED
    BY <2>2, <2>3
<1>19. ASSUME DoMerge PROVE PinsExact'
  <2>1. Slot1 \in Slots
    BY <1>19, SlotMin DEF DoMerge, Slot1, TypeInv, JobTypes
  <2>2. /\ job = "merging" /\ job' # "merging" /\ UNCHANGED <<own, src, refs>>
        /\ drop' = [drop EXCEPT ![Job] = {Slot1}]
    BY <1>19 DEF DoMerge
  <2>3. drop[Job] = {}
    BY <2>2 DEF TypeInv, JobPlaceInv
  <2> QED
    BY <2>1, <2>2, <2>3, MergeToDrop
<1>20. ASSUME MergeFails PROVE PinsExact'
  <2>1. Slot1 \in Slots
    BY <1>20, SlotMin DEF MergeFails, Slot1, TypeInv, JobTypes
  <2>2. /\ job = "merging" /\ job' # "merging" /\ UNCHANGED <<own, src, drop>>
        /\ refs' = [refs EXCEPT ![Slot1] = @ - 1]
    BY <1>20 DEF MergeFails
  <2> QED
    BY <2>1, <2>2, UnpinMerge
<1>21. ASSUME PassEnd PROVE PinsExact'
  <2>1. UNCHANGED <<own, src, drop, refs>> /\ SameMerge
    BY <1>21 DEF PassEnd, SameMerge
  <2> QED
    BY <2>1, NoMove
<1>22. ASSUME Release PROVE PinsExact'
  <2>1. UNCHANGED <<own, src, drop, refs>> /\ SameMerge
    BY <1>22 DEF Release, SameMerge
  <2> QED
    BY <2>1, NoMove
<1>23. ASSUME Recheck PROVE PinsExact'
  <2>1. UNCHANGED <<own, src, drop, refs>> /\ SameMerge
    BY <1>23 DEF Recheck, SameMerge
  <2> QED
    BY <2>1, NoMove
<1>24. ASSUME Regate PROVE PinsExact'
  <2>1. UNCHANGED <<own, src, drop, refs>> /\ SameMerge
    BY <1>24 DEF Regate, ScheduleTask, SameMerge
  <2> QED
    BY <2>1, NoMove
<1>25. ASSUME SweepFires PROVE PinsExact'
  <2>1. UNCHANGED <<own, src, drop, refs>> /\ SameMerge
    BY <1>25 DEF SweepFires, Signal, ScheduleTask, SameMerge
  <2> QED
    BY <2>1, NoMove
<1>26. ASSUME DrainSignal PROVE PinsExact'
  <2>1. UNCHANGED <<own, src, drop, refs>> /\ SameMerge
    BY <1>26 DEF DrainSignal, Signal, SameMerge
  <2> QED
    BY <2>1, NoMove
<1>27. ASSUME DrainSchedule PROVE PinsExact'
  <2>1. UNCHANGED <<own, src, drop, refs>> /\ SameMerge
    BY <1>27 DEF DrainSchedule, ScheduleTask, SameMerge
  <2> QED
    BY <2>1, NoMove
<1>28. ASSUME Shutdown PROVE PinsExact'
  <2>1. UNCHANGED <<own, src, drop, refs>> /\ SameMerge
    BY <1>28 DEF Shutdown, Request, SameMerge
  <2> QED
    BY <2>1, NoMove
<1>29. ASSUME Awake PROVE PinsExact'
  <2>1. UNCHANGED <<own, src, drop, refs>> /\ SameMerge
    BY <1>29 DEF Awake, SameMerge
  <2> QED
    BY <2>1, NoMove
<1>30. ASSUME Destroyed PROVE PinsExact'
  <2>1. UNCHANGED <<own, src, drop, refs>> /\ SameMerge
    BY <1>30 DEF Destroyed, SameMerge
  <2> QED
    BY <2>1, NoMove
<1>31. ASSUME Crash PROVE PinsExact'
  BY <1>31, CrashPins
<1>32. ASSUME Finished PROVE PinsExact'
  <2>1. UNCHANGED <<own, src, drop, refs>> /\ SameMerge
    BY <1>32 DEF Finished, vars, SameMerge
  <2> QED
    BY <2>1, NoMove
<1>33. ASSUME NEW old, Collect(old) PROVE PinsExact'
  <2>1. UNCHANGED <<own, src, drop, refs>> /\ SameMerge
    BY <1>33 DEF Collect, SameMerge
  <2> QED
    BY <2>1, NoMove
<1>34. ASSUME NEW all \in BOOLEAN, MergeNow(all) PROVE PinsExact'
  <2>1. UNCHANGED <<own, src, drop, refs>> /\ SameMerge
    BY <1>34 DEF MergeNow, Request, SameMerge
  <2> QED
    BY <2>1, NoMove
<1>35. CASE UNCHANGED vars
  <2>1. UNCHANGED <<own, src, drop, refs>> /\ SameMerge
    BY <1>35 DEF vars, SameMerge
  <2> QED
    BY <2>1, NoMove
<1> QED
  BY <1>1, <1>2, <1>3, <1>4, <1>5, <1>6, <1>7, <1>8, <1>9, <1>10, <1>11, <1>12, <1>13,
     <1>14, <1>15, <1>16, <1>17, <1>18, <1>19, <1>20, <1>21, <1>22, <1>23, <1>24, <1>25,
     <1>26, <1>27, <1>28, <1>29, <1>30, <1>31, <1>32, <1>33, <1>34, <1>35
     DEF Next, CursorStep, Call, JobStep, LeaveStep, DrainStep, Procs

(* refs of every slot is the number of the pins on it, in every reachable   *)
(* state.                                                                   *)
THEOREM PinsTheorem == Spec => []PinsExact
<1>1. Init => TypeInv /\ PinsExact
  <2>1. Init => PinsExact
    BY NobodyHolds DEF Init
  <2> QED
    BY <2>1, InitType
<1>2. TypeInv /\ PinsExact /\ [Next]_vars => TypeInv' /\ PinsExact'
  BY TypeStep, PinsStep
<1> QED
  BY <1>1, <1>2, PTL DEF Spec

======================================================================
