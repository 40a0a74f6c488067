------------------------------ MODULE Confluence ------------------------------
(***************************************************************************)
(* multi/_confluence_db.hpp, multi/_tributary.hpp, util/_threadpool.hpp:   *)
(* cursors that write to tributaries of their own, the pool task that      *)
(* merges the tributaries into the main database, readers that look at     *)
(* all of them, the age sweep, the destructor, and a crash.                *)
(*                                                                         *)
(* A write is <<cursor, n>>, a new key of that cursor; a tributary and the *)
(* main database are sets of writes.  Counters of which the code only      *)
(* compares two readings are kept as the outcome of the comparison:        *)
(*   stale[c]   state_epoch # _sources_state_epoch of the cursor;          *)
(*   signalled  _merge_signal # the sig that the task has read;            *)
(*   covers     the sig of the task is not below the request of a drain,   *)
(*   served     and _merge_done is not.                                    *)
(* The task that has _merge_task_active is job; leave is one that has let  *)
(* go of it and is on its way out.                                         *)
(*                                                                         *)
(* Corners are the places where the code looks and acts in two steps and   *)
(* a run lets others come in between:                                      *)
(*   "unpin_window"   _unpin_slot() brings refs to 0, then looks at the    *)
(*                    state, then recycles the slot;                       *)
(*   "late_pin"       a reader looks at the state of a slot, then pins it; *)
(* and "reclaim_pinned": a slot is reclaimed in place while a reader has   *)
(* it pinned.                                                              *)
(***************************************************************************)
EXTENDS Naturals, FiniteSets, FiniteSetsExt

CONSTANTS Cursors,
          MaxSlots,     \* MAX_TRIBUTARIES
          MaxEvents,    \* bound on the transactions and reads that begin, the
                        \* drains, the crashes and the failing merges together
          Corners

Job    == "job"

ASSUME ConfluenceAssumption ==
    /\ IsFiniteSet(Cursors) /\ Job \notin Cursors
    /\ MaxSlots \in Nat \ {0} /\ MaxEvents \in Nat

Slots  == 1 .. MaxSlots
Procs  == Cursors \cup {Job}
Writes == Cursors \X (1 .. MaxEvents)
States == {"EMPTY", "FIRST_WRITING", "WRITING", "ATTACHED", "MERGING", "MERGED"}
Readable == {"WRITING", "ATTACHED", "MERGING"}

VARIABLES
    count,      \* slots_count: the slots 1 .. count are published
    st, refs,   \* of a slot: state, refs
    trie,       \* of a slot: what is committed in the tributary
    used,       \* of a slot: last_used_time > 0
    main,       \* what is committed in the main database
    acked,      \* the writes of which commit() has told the readers
    pc, then,   \* of a cursor: its place in an operation, and the next one
    in,         \* of a cursor: _in_transaction
    own,        \* of a cursor: the slot of _write_source, or 0
    src, snap,  \* of a cursor: the slots of _sources, and _main_txn
    stale,      \* of a cursor: see above
    want,       \* of a cursor: acked when it last began to look for sources
    at,         \* of a cursor: the slot it looks at
    drop,       \* of a process: the pins it gives back
    peek, fix,  \* of a process: the slot it is about to look at, to recycle
    job, leave, signalled, covers, served,
    force,      \* _merge_force
    list,       \* _merge_slots
    seen, idle, \* merging_seen, pending_idle
    sweep,      \* an age sweep is armed
    dpc,        \* the thread that asks for drains and closes the database
    shut,       \* _shutdown
    failed,     \* a merge has failed
    events

slotVars == <<count, st, refs, trie, used, main, acked>>
curVars  == <<pc, then, in, own, src, snap, stale, want, at>>
pinVars  == <<drop, peek, fix>>
jobVars  == <<job, leave, signalled, covers, served, force, list, seen, idle>>
dbVars   == <<sweep, dpc, shut, failed, events>>
vars     == <<slotVars, curVars, pinVars, jobVars, dbVars>>

-----------------------------------------------------------------------------
Event == events < MaxEvents /\ events' = events + 1

(* Pins *)

(* _TributaryDB::reset_in_place() throws while a cursor is on the tributary. *)
InUse(s) == \E c \in Cursors : own[c] = s \/ s \in src[c]

(* _recycle_slot() *)
Recycle(s) ==
    IF InUse(s) THEN UNCHANGED <<st, trie, used>>
    ELSE /\ trie' = [trie EXCEPT ![s] = {}]
         /\ used' = [used EXCEPT ![s] = FALSE]
         /\ st' = [st EXCEPT ![s] = "EMPTY"]

(* Mutant: the state is not looked at. *)
GiveBack_Any(p, s) ==
    /\ refs' = [refs EXCEPT ![s] = @ - 1]
    /\ drop' = [drop EXCEPT ![p] = @ \ {s}]
    /\ IF refs[s] = 1 THEN Recycle(s) ELSE UNCHANGED <<st, trie, used>>
    /\ UNCHANGED <<peek, fix>>

(* _unpin_slot(): the last pin given back recycles a merged slot. *)
GiveBack(p, s) ==
    /\ refs' = [refs EXCEPT ![s] = @ - 1]
    /\ drop' = [drop EXCEPT ![p] = @ \ {s}]
    /\ UNCHANGED fix
    /\ IF refs[s] = 1 /\ "unpin_window" \in Corners
       THEN peek' = [peek EXCEPT ![p] = s] /\ UNCHANGED <<st, trie, used>>
       ELSE /\ UNCHANGED peek
            /\ IF refs[s] = 1 /\ st[s] = "MERGED" THEN Recycle(s) ELSE UNCHANGED <<st, trie, used>>
Unpin(p) ==
    /\ IF fix[p] # 0
       THEN Recycle(fix[p]) /\ fix' = [fix EXCEPT ![p] = 0] /\ UNCHANGED <<refs, drop, peek>>
       ELSE IF peek[p] # 0
       THEN /\ fix' = [fix EXCEPT ![p] = IF st[peek[p]] = "MERGED" THEN peek[p] ELSE 0]
            /\ peek' = [peek EXCEPT ![p] = 0]
            /\ UNCHANGED <<st, trie, used, refs, drop>>
       ELSE drop[p] # {} /\ GiveBack(p, Min(drop[p]))
    /\ UNCHANGED <<count, main, acked, curVars, jobVars, dbVars>>

(* The process has given back what it had to. *)
Settled(p) == drop[p] = {} /\ peek[p] = 0 /\ fix[p] = 0

-----------------------------------------------------------------------------
(* Waking the merge task *)

(* W2: _merge_signal.fetch_add(1) *)
Signal ==
    /\ signalled' = (signalled \/ job \in {"pass", "merge", "merging"})
    /\ leave' = IF leave = "recheck" THEN "signalled" ELSE leave

(* _schedule_merge_task(), submit_task(): one task at a time is active. *)
ScheduleTask == job' = IF job = "none" THEN "queued" ELSE job

Goto(c, l) == pc' = [pc EXCEPT ![c] = l]

(* _schedule_merge() of a cursor *)
CursorSignal(c) ==
    /\ pc[c] = "wake" /\ Settled(c)
    /\ Signal /\ Goto(c, "cas")
    /\ UNCHANGED <<slotVars, then, in, own, src, snap, stale, want, at, pinVars,
                   job, covers, served, force, list, seen, idle, dbVars>>
CursorSchedule(c) ==
    /\ pc[c] = "cas"
    /\ ScheduleTask /\ Goto(c, then[c])
    /\ then' = [then EXCEPT ![c] = "ready"]
    /\ UNCHANGED <<slotVars, in, own, src, snap, stale, want, at, pinVars,
                   leave, signalled, covers, served, force, list, seen, idle, dbVars>>

-----------------------------------------------------------------------------
(* Write transactions of a cursor *)

CallVars == <<sweep, dpc, shut, failed>>
Begins(c) == pc[c] = "ready" /\ ~in[c] /\ Event

(* start_transaction(), the slot of the last transaction is still there. *)
StartAttached(c) ==
    /\ Begins(c) /\ own[c] # 0 /\ st[own[c]] = "ATTACHED"
    /\ st' = [st EXCEPT ![own[c]] = "WRITING"]
    /\ in' = [in EXCEPT ![c] = TRUE]
    /\ UNCHANGED <<count, refs, trie, used, main, acked, pc, then, own, src, snap, stale,
                   want, at, pinVars, jobVars, CallVars>>

(* The slot was merged: it is made new in place, reclaim_in_place(), which  *)
(* throws when a reader has it.                                             *)
StartReclaim(c) ==
    /\ Begins(c) /\ own[c] # 0 /\ st[own[c]] = "MERGED"
    /\ st' = [st EXCEPT ![own[c]] = "FIRST_WRITING"]
    /\ IF \A d \in Cursors : own[c] \notin src[d]
       THEN /\ trie' = [trie EXCEPT ![own[c]] = {}]
            /\ used' = [used EXCEPT ![own[c]] = FALSE]
            /\ in' = [in EXCEPT ![c] = TRUE]
       ELSE "reclaim_pinned" \in Corners /\ UNCHANGED <<trie, used, in>>
    /\ UNCHANGED <<count, refs, main, acked, pc, then, own, src, snap, stale, want, at,
                   pinVars, jobVars, CallVars>>

(* Mutant: the pin of the old slot is not given back. *)
StartElse_Kept(c) ==
    /\ Begins(c)
    /\ own[c] # 0 => st[own[c]] \notin {"ATTACHED", "MERGED"}
    /\ own' = [own EXCEPT ![c] = 0]
    /\ Goto(c, "claim")
    /\ UNCHANGED <<slotVars, then, in, src, snap, stale, want, at, pinVars, jobVars, CallVars>>

(* The slot is being merged, or there is none: another one is claimed. *)
StartElse(c) ==
    /\ Begins(c)
    /\ own[c] # 0 => st[own[c]] \notin {"ATTACHED", "MERGED"}
    /\ drop' = [drop EXCEPT ![c] = {own[c]} \ {0}]
    /\ own' = [own EXCEPT ![c] = 0]
    /\ Goto(c, "claim")
    /\ UNCHANGED <<slotVars, then, in, src, snap, stale, want, at, peek, fix, jobVars, CallVars>>

Claimed(c, s) ==
    /\ st' = [st EXCEPT ![s] = "FIRST_WRITING"]
    /\ refs' = [refs EXCEPT ![s] = @ + 1]
    /\ own' = [own EXCEPT ![c] = s]
    /\ in' = [in EXCEPT ![c] = TRUE]
    /\ Goto(c, "ready")
    /\ UNCHANGED <<trie, used, main, acked, then, src, snap, stale, want, at, pinVars, jobVars, dbVars>>

(* Mutant: a merged slot is taken for an empty one. *)
TryClaim_Merged(c) ==
    /\ pc[c] = "claim" /\ Settled(c)
    /\ \E s \in 1 .. count : st[s] \in {"EMPTY", "MERGED"} /\ Claimed(c, s)
    /\ UNCHANGED count

(* _try_claim(): an empty slot. *)
TryClaim(c) ==
    /\ pc[c] = "claim" /\ Settled(c)
    /\ \E s \in 1 .. count : st[s] = "EMPTY" /\ Claimed(c, s)
    /\ UNCHANGED count

(* _alloc_new_slot() *)
AllocNewSlot(c) ==
    /\ pc[c] = "claim" /\ Settled(c)
    /\ \A s \in 1 .. count : st[s] # "EMPTY"
    /\ count < MaxSlots /\ count' = count + 1
    /\ Claimed(c, count + 1)
(* All slots are taken: the cursor lets go of its sources and asks for a    *)
(* merge before it tries again.                                             *)
AtCap(c) ==
    /\ pc[c] = "claim" /\ Settled(c)
    /\ count = MaxSlots /\ \A s \in Slots : st[s] # "EMPTY"
    /\ drop' = [drop EXCEPT ![c] = src[c]]
    /\ src' = [src EXCEPT ![c] = {}]
    /\ want' = [want EXCEPT ![c] = {}]
    /\ stale' = [stale EXCEPT ![c] = TRUE]
    /\ then' = [then EXCEPT ![c] = "claim"]
    /\ Goto(c, "wake")
    /\ UNCHANGED <<slotVars, in, own, snap, at, peek, fix, jobVars, dbVars>>

(* _ensure_age_sweep(), schedule_after() *)
EnsureAgeSweep == sweep' = (sweep \/ ~shut)

BumpEpoch == stale' = [c \in Cursors |-> TRUE]

(* The end of commit(): the slot goes to the merge task, or stays. *)
EndCommit(c, full, new) ==
    /\ acked' = acked \cup new
    /\ Goto(c, IF full THEN "wake" ELSE "ready")
    /\ IF full
       THEN /\ drop' = [drop EXCEPT ![c] = {own[c]}]
            /\ own' = [own EXCEPT ![c] = 0]
            /\ UNCHANGED sweep
       ELSE EnsureAgeSweep /\ UNCHANGED <<drop, own>>

(* commit(): the tributary commits, W1 hands the slot over when the write   *)
(* count is at the threshold (full).  The first commit of a slot makes it   *)
(* readable, of which the epoch tells the readers.                          *)
NextWrite(c) ==
    <<c, 1 + Cardinality({w \in acked \cup main \cup UNION {trie[s] : s \in Slots} : w[1] = c})>>
Commit(c, full) ==
    /\ pc[c] = "ready" /\ in[c]
    /\ trie' = [trie EXCEPT ![own[c]] = @ \cup {NextWrite(c)}]
    /\ used' = [used EXCEPT ![own[c]] = TRUE]
    /\ st' = [st EXCEPT ![own[c]] = IF full THEN "MERGING" ELSE "ATTACHED"]
    /\ in' = [in EXCEPT ![c] = FALSE]
    /\ IF st[own[c]] = "FIRST_WRITING"
       THEN /\ Goto(c, IF full THEN "bump_full" ELSE "bump")
            /\ UNCHANGED <<acked, own, drop, sweep>>
       ELSE EndCommit(c, full, {NextWrite(c)})
    /\ UNCHANGED <<count, refs, main, then, src, snap, stale, want, at, peek, fix, jobVars,
                   dpc, shut, failed, events>>

(* Mutant: a slot handed over at once is not made known. *)
CommitBump_Attached(c) ==
    /\ pc[c] \in {"bump", "bump_full"}
    /\ IF pc[c] = "bump" THEN BumpEpoch ELSE UNCHANGED stale
    /\ EndCommit(c, pc[c] = "bump_full", trie[own[c]])
    /\ UNCHANGED <<count, st, refs, trie, used, main, then, in, src, snap, want, at, peek, fix,
                   jobVars, dpc, shut, failed, events>>

CommitBump(c) ==
    /\ pc[c] \in {"bump", "bump_full"}
    /\ BumpEpoch
    /\ EndCommit(c, pc[c] = "bump_full", trie[own[c]])
    /\ UNCHANGED <<count, st, refs, trie, used, main, then, in, src, snap, want, at, peek, fix,
                   jobVars, dpc, shut, failed, events>>

(* rollback(): a slot with nothing committed goes to the merge task. *)
Rollback(c) ==
    /\ pc[c] = "ready" /\ in[c]
    /\ in' = [in EXCEPT ![c] = FALSE]
    /\ st' = [st EXCEPT ![own[c]] = IF @ = "WRITING" THEN "ATTACHED" ELSE "MERGING"]
    /\ EndCommit(c, st[own[c]] # "WRITING", {})
    /\ UNCHANGED <<count, refs, trie, used, main, then, src, snap, stale, want, at, peek, fix,
                   jobVars, dpc, shut, failed, events>>

-----------------------------------------------------------------------------
(* Reading: _ensure_sources() *)

(* The epoch is read first; the old sources are given back. *)
Rebuild(c) ==
    /\ pc[c] = "ready" /\ stale[c] /\ Event
    /\ stale' = [stale EXCEPT ![c] = FALSE]
    /\ want' = [want EXCEPT ![c] = acked]
    /\ drop' = [drop EXCEPT ![c] = src[c]]
    /\ src' = [src EXCEPT ![c] = {}]
    /\ at' = [at EXCEPT ![c] = 1]
    /\ Goto(c, "scan")
    /\ UNCHANGED <<slotVars, then, in, own, snap, peek, fix, jobVars, CallVars>>

PinSource(c) ==
    /\ src' = [src EXCEPT ![c] = @ \cup {at[c]}]
    /\ refs' = [refs EXCEPT ![at[c]] = @ + 1]
    /\ at' = [at EXCEPT ![c] = @ + 1]
    /\ Goto(c, "scan")

(* Mutant: the snapshot of the main database is taken with the first slot.  *)
Scan_MainFirst(c) ==
    /\ pc[c] = "scan" /\ Settled(c) /\ at[c] <= count
    /\ snap' = IF at[c] = 1 THEN [snap EXCEPT ![c] = main] ELSE snap
    /\ at' = [at EXCEPT ![c] = IF at[c] = count THEN 0 ELSE @ + 1]
    /\ Goto(c, IF at[c] = count THEN "ready" ELSE "scan")
    /\ IF st[at[c]] \in Readable /\ at[c] # own[c]
       THEN /\ src' = [src EXCEPT ![c] = @ \cup {at[c]}]
            /\ refs' = [refs EXCEPT ![at[c]] = @ + 1]
       ELSE UNCHANGED <<src, refs>>
    /\ UNCHANGED <<count, st, trie, used, main, acked, then, in, own, stale, want,
                   pinVars, jobVars, dbVars>>

(* fill_sources_lockfree(): the next slot is pinned if it is readable. *)
Scan(c) ==
    /\ pc[c] \in {"scan", "pin"} /\ Settled(c) /\ at[c] <= count
    /\ IF pc[c] = "pin" THEN PinSource(c)
       ELSE IF st[at[c]] \notin Readable \/ at[c] = own[c]
       THEN at' = [at EXCEPT ![c] = @ + 1] /\ UNCHANGED <<pc, src, refs>>
       ELSE IF "late_pin" \in Corners
       THEN Goto(c, "pin") /\ UNCHANGED <<at, src, refs>>
       ELSE PinSource(c)
    /\ UNCHANGED <<count, st, trie, used, main, acked, then, in, own, snap, stale, want,
                   pinVars, jobVars, dbVars>>

(* The snapshot of the main database is taken last. *)
TakeMain(c) ==
    /\ pc[c] = "scan" /\ Settled(c) /\ at[c] > count
    /\ snap' = [snap EXCEPT ![c] = main]
    /\ at' = [at EXCEPT ![c] = 0]
    /\ Goto(c, "ready")
    /\ UNCHANGED <<slotVars, then, in, own, src, stale, want, pinVars, jobVars, dbVars>>

-----------------------------------------------------------------------------
(* The destructor of a cursor: _release_sources(), _release_write_source() *)

CloseCursor(c) ==
    /\ pc[c] = "ready" /\ ~in[c]
    /\ drop' = [drop EXCEPT ![c] = src[c]]
    /\ src' = [src EXCEPT ![c] = {}] /\ snap' = [snap EXCEPT ![c] = {}]
    /\ want' = [want EXCEPT ![c] = {}]
    /\ stale' = [stale EXCEPT ![c] = TRUE]
    /\ Goto(c, IF own[c] = 0 THEN "closed" ELSE "detach")
    /\ UNCHANGED <<slotVars, then, in, own, at, peek, fix, jobVars, dbVars>>

(* Mutant: the slot is handed over and nobody is woken. *)
GiveUp_Quiet(c, merging) ==
    /\ drop' = [drop EXCEPT ![c] = {own[c]}]
    /\ own' = [own EXCEPT ![c] = 0]
    /\ Goto(c, "closed")
    /\ st' = IF merging THEN [st EXCEPT ![own[c]] = "MERGING"] ELSE st
    /\ UNCHANGED then

GiveUp(c, merging) ==
    /\ drop' = [drop EXCEPT ![c] = {own[c]}]
    /\ own' = [own EXCEPT ![c] = 0]
    /\ then' = [then EXCEPT ![c] = IF merging THEN "closed" ELSE "ready"]
    /\ Goto(c, IF merging THEN "wake" ELSE "closed")
    /\ st' = IF merging THEN [st EXCEPT ![own[c]] = "MERGING"] ELSE st

(* _release_write_source() looks at the state, then stores MERGING: in      *)
(* between the merge task may take the slot.                                *)
Detach(c) ==
    /\ pc[c] \in {"detach", "store"} /\ Settled(c)
    /\ IF pc[c] = "detach" /\ st[own[c]] = "ATTACHED"
       THEN Goto(c, "store") /\ UNCHANGED <<st, drop, own, then>>
       ELSE GiveUp(c, pc[c] = "store" \/ st[own[c]] = "ATTACHED")
    /\ UNCHANGED <<count, refs, trie, used, main, acked, in, src, snap, stale, want, at,
                   peek, fix, jobVars, dbVars>>

-----------------------------------------------------------------------------
(* The merge task *)

(* A worker of the pool runs _run_merge_task(): it reads the signal and     *)
(* _collect_and_merge_locked() picks the slots to merge, old those of the   *)
(* attached ones that are past their age.                                   *)
Collect(old) ==
    /\ job \in {"queued", "pass"}
    /\ IF job = "pass" THEN UNCHANGED <<signalled, covers>>
       ELSE signalled' = FALSE /\ covers' = (dpc \in {"cas", "wait"})
    /\ old \subseteq {s \in 1 .. count : st[s] = "ATTACHED" /\ used[s]}
    /\ seen' = \E s \in 1 .. count : st[s] = "MERGING"
    /\ list' = {s \in 1 .. count : st[s] = "MERGING" \/ (st[s] = "ATTACHED" /\ (force \/ s \in old))}
    /\ idle' = (idle \/ (~force /\ \E s \in 1 .. count \ old : st[s] = "ATTACHED" /\ used[s]))
    /\ force' = FALSE
    /\ job' = "merge"
    /\ UNCHANGED <<slotVars, curVars, pinVars, leave, served, dbVars>>

(* merge_tributary(): the slot is taken if it is still to be merged, *)
Slot1 == Min(list)
TakeSlot ==
    /\ job = "merge" /\ Settled(Job) /\ list # {}
    /\ IF st[Slot1] \in {"ATTACHED", "MERGING"}
       THEN /\ st' = [st EXCEPT ![Slot1] = "MERGING"]
            /\ refs' = [refs EXCEPT ![Slot1] = @ + 1]
            /\ job' = "merging" /\ UNCHANGED list
       ELSE list' = list \ {Slot1} /\ UNCHANGED <<st, refs, job>>
    /\ UNCHANGED <<count, trie, used, main, acked, curVars, pinVars, leave, signalled,
                   covers, served, force, seen, idle, dbVars>>
(* _do_merge() commits in the main database and the slot is merged, *)
DoMerge ==
    /\ job = "merging" /\ job' = "merge"
    /\ main' = main \cup trie[Slot1]
    /\ st' = [st EXCEPT ![Slot1] = "MERGED"]
    /\ BumpEpoch
    /\ drop' = [drop EXCEPT ![Job] = {Slot1}]
    /\ list' = list \ {Slot1}
    /\ UNCHANGED <<count, refs, trie, used, acked, pc, then, in, own, src, snap, want, at,
                   peek, fix, leave, signalled, covers, served, force, seen, idle, dbVars>>
(* or it fails and the slot is left for a later pass. *)
MergeFails ==
    /\ job = "merging" /\ job' = "merge"
    /\ Event /\ failed' = TRUE
    /\ st' = [st EXCEPT ![Slot1] = "ATTACHED"]
    /\ refs' = [refs EXCEPT ![Slot1] = @ - 1]
    /\ list' = list \ {Slot1}
    /\ UNCHANGED <<count, trie, used, main, acked, curVars, pinVars, leave, signalled,
                   covers, served, force, seen, idle, sweep, dpc, shut>>

(* The end of a pass wakes whom it covers; another one follows if slots to  *)
(* merge were seen.                                                         *)
PassEnd ==
    /\ job = "merge" /\ Settled(Job) /\ list = {} /\ seen
    /\ job' = "pass"
    /\ served' = (served \/ covers)
    /\ covers' = FALSE /\ seen' = FALSE
    /\ UNCHANGED <<slotVars, curVars, pinVars, leave, signalled, force, list, idle, dbVars>>
(* Else J1: the task lets go of _merge_task_active. *)
Release ==
    /\ job = "merge" /\ Settled(Job) /\ list = {} /\ ~seen
    /\ leave = "none"   \* bound: one task at a time is on its way out
    /\ job' = "none" /\ leave' = IF signalled THEN "signalled" ELSE "recheck"
    /\ served' = (served \/ covers)
    /\ covers' = FALSE /\ idle' = FALSE /\ signalled' = FALSE
    /\ IF idle THEN EnsureAgeSweep ELSE UNCHANGED sweep
    /\ UNCHANGED <<slotVars, curVars, pinVars, force, list, seen, dpc, shut, failed, events>>


(* Mutant: the task does not look at the signal again. *)
Recheck_Blind ==
    /\ leave \in {"recheck", "signalled"}
    /\ leave' = IF \E s \in 1 .. count : st[s] = "MERGING" THEN "regate" ELSE "none"
    /\ UNCHANGED <<slotVars, curVars, pinVars, job, signalled, covers, served, force, list,
                   seen, idle, dbVars>>

(* J2: it looks again, and retires (_retire_merge_task()) if there is       *)
(* nothing,                                                                 *)
Recheck ==
    /\ leave \in {"recheck", "signalled"}
    /\ leave' = IF leave = "signalled" \/ \E s \in 1 .. count : st[s] = "MERGING"
                THEN "regate" ELSE "none"
    /\ UNCHANGED <<slotVars, curVars, pinVars, job, signalled, covers, served, force, list,
                   seen, idle, dbVars>>
(* or if somebody else was woken. *)
Regate ==
    /\ leave = "regate" /\ leave' = "none"
    /\ ScheduleTask
    /\ UNCHANGED <<slotVars, curVars, pinVars, signalled, covers, served, force, list, seen, idle, dbVars>>

(* _run_age_sweep() *)
SweepFires ==
    /\ sweep /\ sweep' = FALSE
    /\ Signal /\ ScheduleTask
    /\ UNCHANGED <<slotVars, curVars, pinVars, covers, served, force, list, seen,
                   idle, dpc, shut, failed, events>>

-----------------------------------------------------------------------------
(* merge_now(), merge_all_now() and the destructor of the database *)

(* _request_drain_and_wait(): _merge_force is stored, *)
Request(all) ==
    /\ force' = (force \/ all) /\ dpc' = "signal"
    /\ UNCHANGED <<slotVars, curVars, pinVars, job, leave, signalled, covers, served,
                   list, seen, idle, failed>>
(* the signal counted up, which no task has read and no pass has served yet, *)
DrainSignal ==
    /\ dpc = "signal" /\ dpc' = "cas"
    /\ Signal /\ covers' = FALSE /\ served' = FALSE
    /\ UNCHANGED <<slotVars, curVars, pinVars, job, force, list, seen, idle,
                   sweep, shut, failed, events>>
(* a task scheduled, and the caller waits. *)
DrainSchedule ==
    /\ dpc = "cas" /\ dpc' = "wait"
    /\ ScheduleTask
    /\ UNCHANGED <<slotVars, curVars, pinVars, leave, signalled, covers, served, force,
                   list, seen, idle, sweep, shut, failed, events>>
MergeNow(all) ==
    /\ dpc = "open" /\ Event
    /\ Request(all)
    /\ UNCHANGED <<sweep, shut>>
(* The destructor comes when the cursors are gone; it cancels the sweep. *)
Shutdown ==
    /\ dpc = "open" /\ \A c \in Cursors : pc[c] = "closed" /\ Settled(c)
    /\ shut' = TRUE /\ sweep' = FALSE
    /\ Request(TRUE)
    /\ UNCHANGED events
Awake ==
    /\ dpc = "wait" /\ served
    /\ dpc' = (IF shut THEN "leave" ELSE "open") /\ served' = FALSE
    /\ UNCHANGED <<slotVars, curVars, pinVars, job, leave, signalled, covers, force, list,
                   seen, idle, sweep, shut, failed, events>>
(* Mutant: the destructor does not wait for the task. *)
Destroyed_NoWait ==
    /\ dpc = "leave" /\ dpc' = "closed"
    /\ UNCHANGED <<slotVars, curVars, pinVars, jobVars, sweep, shut, failed, events>>
(* The destructor waits until no merge task is in flight. *)
Destroyed ==
    /\ dpc = "leave" /\ job = "none" /\ leave = "none"
    /\ dpc' = "closed"
    /\ UNCHANGED <<slotVars, curVars, pinVars, jobVars, sweep, shut, failed, events>>

-----------------------------------------------------------------------------
(* The process dies and the database is opened again: sanitize(),           *)
(* _merge_unclaimed_tributaries() merge and recycle every slot.             *)
Recovered == main \cup UNION {trie[s] : s \in {s \in Slots : st[s] \notin {"EMPTY", "MERGED"}}}
Crash ==
    /\ dpc # "closed" /\ Event
    /\ main' = Recovered
    /\ st' = [s \in Slots |-> "EMPTY"] /\ refs' = [s \in Slots |-> 0]
    /\ trie' = [s \in Slots |-> {}] /\ used' = [s \in Slots |-> FALSE]
    /\ UNCHANGED <<count, acked, failed>>
    /\ pc' = [c \in Cursors |-> "ready"] /\ then' = [c \in Cursors |-> "ready"]
    /\ in' = [c \in Cursors |-> FALSE] /\ own' = [c \in Cursors |-> 0]
    /\ src' = [c \in Cursors |-> {}] /\ snap' = [c \in Cursors |-> {}]
    /\ stale' = [c \in Cursors |-> TRUE] /\ want' = [c \in Cursors |-> {}]
    /\ at' = [c \in Cursors |-> 0]
    /\ drop' = [p \in Procs |-> {}] /\ peek' = [p \in Procs |-> 0] /\ fix' = [p \in Procs |-> 0]
    /\ job' = "none" /\ leave' = "none"
    /\ signalled' = FALSE /\ covers' = FALSE /\ served' = FALSE /\ force' = FALSE
    /\ list' = {} /\ seen' = FALSE /\ idle' = FALSE
    /\ sweep' = FALSE /\ dpc' = "open" /\ shut' = FALSE

Finished == dpc = "closed" /\ UNCHANGED vars

Init ==
    /\ count = 0
    /\ st = [s \in Slots |-> "EMPTY"] /\ refs = [s \in Slots |-> 0]
    /\ trie = [s \in Slots |-> {}] /\ used = [s \in Slots |-> FALSE]
    /\ main = {} /\ acked = {}
    /\ failed = FALSE /\ events = 0
    /\ pc = [c \in Cursors |-> "ready"] /\ then = [c \in Cursors |-> "ready"]
    /\ in = [c \in Cursors |-> FALSE] /\ own = [c \in Cursors |-> 0]
    /\ src = [c \in Cursors |-> {}] /\ snap = [c \in Cursors |-> {}]
    /\ stale = [c \in Cursors |-> TRUE] /\ want = [c \in Cursors |-> {}]
    /\ at = [c \in Cursors |-> 0]
    /\ drop = [p \in Procs |-> {}] /\ peek = [p \in Procs |-> 0] /\ fix = [p \in Procs |-> 0]
    /\ job = "none" /\ leave = "none"
    /\ signalled = FALSE /\ covers = FALSE /\ served = FALSE /\ force = FALSE
    /\ list = {} /\ seen = FALSE /\ idle = FALSE
    /\ sweep = FALSE /\ dpc = "open" /\ shut = FALSE

(* The steps of an operation that has begun. *)
CursorStep(c) ==
    \/ Unpin(c) \/ CursorSignal(c) \/ CursorSchedule(c)
    \/ TryClaim(c) \/ AllocNewSlot(c) \/ AtCap(c)
    \/ CommitBump(c) \/ Scan(c) \/ TakeMain(c) \/ Detach(c)
JobStep ==
    \/ Unpin(Job) \/ (\E old \in SUBSET Slots : Collect(old)) \/ TakeSlot
    \/ DoMerge \/ MergeFails \/ PassEnd \/ Release
LeaveStep == Recheck \/ Regate
DrainStep == DrainSignal \/ DrainSchedule \/ Awake \/ Destroyed

(* The calls a program makes. *)
Call(c) ==
    \/ StartAttached(c) \/ StartReclaim(c) \/ StartElse(c) \/ (\E full \in BOOLEAN : Commit(c, full))
    \/ Rollback(c) \/ Rebuild(c) \/ CloseCursor(c)

Next ==
    \/ \E c \in Cursors : CursorStep(c) \/ Call(c)
    \/ JobStep \/ LeaveStep \/ SweepFires
    \/ (\E all \in BOOLEAN : MergeNow(all)) \/ Shutdown \/ DrainStep
    \/ Crash \/ Finished

Spec == Init /\ [][Next]_vars

-----------------------------------------------------------------------------
(* The types of the variables. *)
TypeOK ==
    /\ count \in 0 .. MaxSlots /\ st \in [Slots -> States]
    /\ refs \in [Slots -> 0 .. Cardinality(Procs)] /\ used \in [Slots -> BOOLEAN]
    /\ trie \in [Slots -> SUBSET Writes] /\ main \subseteq Writes /\ acked \subseteq Writes
    /\ own \in [Cursors -> 0 .. count] /\ src \in [Cursors -> SUBSET (1 .. count)]
    /\ drop \in [Procs -> SUBSET Slots] /\ list \subseteq Slots
    /\ peek \in [Procs -> 0 .. count] /\ fix \in [Procs -> 0 .. count]

(* Pins: refs of a slot is the number of those that hold it or are about to *)
(* give it back (a writer, readers, the merge), so that _unpin_slot() comes *)
(* to 0 when the last one is gone and not before.                           *)
PinsExact ==
    \A s \in Slots :
        refs[s] = Cardinality({c \in Cursors : own[c] = s})
                  + Cardinality({c \in Cursors : s \in src[c]})
                  + Cardinality({p \in Procs : s \in drop[p]})
                  + (IF job = "merging" /\ s = Slot1 THEN 1 ELSE 0)

(* One owner: no slot belongs to two cursors, one that is being written to  *)
(* belongs to the cursor in that transaction, one that is recycled or       *)
(* waits to be claimed belongs to nobody and holds nothing.                 *)
OneOwner ==
    /\ \A c, d \in Cursors : own[c] # 0 /\ own[c] = own[d] => c = d
    /\ \A c \in Cursors : in[c] => own[c] # 0 /\ st[own[c]] \in {"FIRST_WRITING", "WRITING"}
    /\ \A s \in Slots : st[s] \in {"FIRST_WRITING", "WRITING"} => \E c \in Cursors : in[c] /\ own[c] = s
    /\ \A s \in Slots : st[s] = "EMPTY" => refs[s] = 0 /\ trie[s] = {}

(* No committed write is lost: it is in the main database or in a           *)
(* tributary that will be merged, whatever merges, recycles, crashes or     *)
(* fails in between.                                                        *)
NoWriteLost ==
    acked \subseteq main \cup UNION {trie[s] : s \in {s \in Slots : st[s] \in Readable}}

(* A cursor that has looked for its sources sees every write of others      *)
(* that was committed before it began to, in the main database or in a      *)
(* tributary it has pinned, even if that is merged while it looks.          *)
Sees(c, w) == w[1] = c \/ w \in snap[c] \/ \E s \in src[c] : w \in trie[s]
ReadComplete == \A c \in Cursors : pc[c] = "ready" => \A w \in want[c] : Sees(c, w)

(* A cursor whose epoch is the current one has every tributary with a       *)
(* committed write among its sources: state_epoch tells it all it must      *)
(* know.                                                                    *)
EpochTells ==
    \A c \in Cursors : pc[c] = "ready" /\ ~stale[c] => \A w \in acked : Sees(c, w)

(* When the destructor of the database ends, all is merged (unless the      *)
(* storage was full) and no task or sweep is left to use it.                *)
CloseRight ==
    dpc = "closed" =>
        /\ ~failed => acked \subseteq main
        /\ job = "none" /\ leave = "none" /\ ~sweep

(* No lost wake-up: a slot handed to the merge task is still to be seen by  *)
(* somebody: a task that has not passed it, a task on its way out that      *)
(* looks again, or the cursor that has yet to signal.  W1, W2 of the        *)
(* cursor against J1, J2 of the task, in every order.                       *)
Attended ==
    \A s \in Slots : st[s] = "MERGING" =>
        \/ job \in {"queued", "pass"} \/ leave # "none"
        \/ job \in {"merge", "merging"} /\ (seen \/ s \in list \/ signalled)
        \/ \E c \in Cursors : pc[c] \in {"bump_full", "wake", "cas"}

(* Who waits in merge_now(), merge_all_now() or the destructor is woken: by *)
(* a task that has not read the signal, by one whose pass covers it, or by  *)
(* the one that a leaving task puts in its place.                           *)
DrainServed ==
    dpc = "wait" /\ ~served =>
        \/ job = "queued" \/ covers
        \/ job # "none" /\ signalled
        \/ leave \in {"signalled", "regate"}

==============================================================================
