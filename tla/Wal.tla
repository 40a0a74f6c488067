--------------------------------- MODULE Wal ---------------------------------
(***************************************************************************)
(* The write-ahead log of a leaves database: storage/_wal.hpp (_WalWriter, *)
(* wal_parse), the WAL part of db/_db.hpp (_WalDbMixin) and of             *)
(* db/_cursor.hpp (_WalAware and the calls of _TransactionalCursor).       *)
(*                                                                         *)
(* Two files are used in turn.  A transaction logs to the file next_log    *)
(* names when it begins.  When that file is large enough, the commit hands *)
(* a task to the thread pool that flushes the storage and then empties the *)
(* other file.                                                             *)
(*                                                                         *)
(* Abstractions.  What a transaction writes is one label; a database image *)
(* is the set of labels applied to it.  prepare() writes BEGIN, the        *)
(* operations and PREPARE as one chunk and commit() another: a torn chunk  *)
(* is what wal_parse discards, so a chunk is in the file or is not.        *)
(* Losing the memory (power failure, or a crash over a storage that caches *)
(* in process memory) goes back to the image of the last flush; partial    *)
(* write-back of dirty pages by the system is not modelled.  DB::commit()  *)
(* is one step: Mvcc models the crash between its stores to the header.    *)
(***************************************************************************)
EXTENDS Naturals, Sequences

CONSTANTS MaxLabel,   \* bound: number of transactions ever started
          MaxCrash,   \* bound: number of crashes
          Threshold,  \* _wal_flush_threshold, in chunks
          Enabled     \* which of the behaviours below the run includes

(* "crash": the process dies and the memory image survives (mapped file)   *)
(* "loss":  the memory image is lost, and the unsynced tail of the files   *)
(* "2pc":   prepare_commit() before commit                                 *)
(* "undo":  rollback() of a prepared transaction which the log or the      *)
(*          flushed image still holds as prepared                          *)
(* "early": the flush task of a transaction runs before its commit         *)
(* "race":  a transaction begins between the choice of the file to empty   *)
(*          and its truncation                                             *)
(* "bare":  a recovery that replays nothing removes the files although the *)
(*          system has not written back the image of the memory            *)
Behaviours == {"crash", "loss", "2pc", "undo", "early", "race", "bare"}

ASSUME WalAssumption ==
    /\ MaxLabel \in Nat \ {0} /\ MaxCrash \in Nat /\ Threshold \in Nat \ {0}
    /\ Enabled \subseteq Behaviours

VARIABLES
    mem, disk,    \* the database image in memory and as of the last flush
    file,         \* the chunks of .wal.0 and .wal.1
    synced,       \* how many of them have been synced
    wal,          \* WalState, in the header
    pc, txn,      \* the writer: program point and transaction
    tasks,        \* flush tasks in the thread pool, by txn_id
    worker,       \* the task that holds _flush_lock
    rec,          \* wal_recover(): what is left to replay, have_committed
    logged,       \* labels whose COMMIT record has been synced
    undone,       \* labels rolled back
    pledged,      \* label prepare_commit() has returned for and nobody settled
    label, crashes

vars == <<mem, disk, file, synced, wal, pc, txn, tasks, worker, rec, logged,
          undone, pledged, label, crashes>>
store  == <<mem, disk>>
log    == <<file, synced, wal>>
pool   == <<tasks, worker>>
ledger == <<logged, undone, pledged, label, crashes>>

Labels == 1 .. MaxLabel
Tid    == Nat
Log    == {0, 1}

(* read_txn's id and content, prepared_txn's content when it differs from   *)
(* read_txn, and whether next_txn_page is there.                            *)
Image == [read : Tid, applied : SUBSET Labels, prep : BOOLEAN,
          prepared : SUBSET Labels, next : BOOLEAN]
Chunk == [op : {"prepare", "commit"}, id : Tid, label : Labels]

(* Every value in its type; a file never has more synced chunks than it     *)
(* holds (write_off follows truncate()).                                    *)
TypeOK ==
    /\ mem \in Image /\ disk \in Image
    /\ file \in [Log -> Seq(Chunk)]
    /\ synced \in [Log -> Nat] /\ \A i \in Log : synced[i] <= Len(file[i])
    /\ wal \in [next_log : Log, active_log : Log, last_commit : [Log -> Tid]]
    /\ pc \in {"idle", "begin", "open", "logged", "prepared", "promised",
               "durable", "down", "replaying", "flushed", "recovered", "failed"}
    /\ txn \in [id : Tid, label : Labels \cup {0}, wrote : BOOLEAN, idx : Log]
    /\ tasks \subseteq Tid
    /\ worker \in [pc : {"idle", "flushed", "chosen"}, id : Tid, idx : Log]
    /\ rec \in [txns : SUBSET Chunk, doubt : SUBSET Chunk, have : BOOLEAN]
    /\ logged \subseteq Labels /\ undone \subseteq Labels /\ pledged \subseteq Labels
    /\ label \in 0 .. MaxLabel /\ crashes \in 0 .. MaxCrash

NoTxn   == [id |-> 0, label |-> 0, wrote |-> FALSE, idx |-> 0]
NoTask  == [pc |-> "idle", id |-> 0, idx |-> 0]
NoRec   == [txns |-> {}, doubt |-> {}, have |-> FALSE]
(* _WalWriter::open() *)
OpenWal == [next_log |-> 0, active_log |-> 0, last_commit |-> [i \in Log |-> 0]]
Fresh   == [read |-> 1, applied |-> {}, prep |-> FALSE, prepared |-> {}, next |-> TRUE]

Init ==
    /\ mem = Fresh /\ disk = Fresh
    /\ file = [i \in Log |-> << >>] /\ synced = [i \in Log |-> 0]
    /\ wal = OpenWal
    /\ pc = "idle" /\ txn = NoTxn
    /\ tasks = {} /\ worker = NoTask /\ rec = NoRec
    /\ logged = {} /\ undone = {} /\ pledged = {} /\ label = 0 /\ crashes = 0

-----------------------------------------------------------------------------
(* The effect of the database's own calls on an image. *)

(* start_transaction() takes the next transaction page. *)
Started(m) == [m EXCEPT !.next = FALSE]

(* prepare_commit(): nothing if the header already names a prepared         *)
(* transaction; else the next page is allocated and the header updated.     *)
PreparedImage(m, l) ==
    IF m.prep THEN m
    ELSE [m EXCEPT !.prep = TRUE, !.prepared = m.applied \cup l, !.next = TRUE]

(* commit(): prepare_commit(), then read_txn = prepared_txn. *)
CommittedImage(m, l) ==
    LET p == PreparedImage(m, l)
    IN [p EXCEPT !.read = @ + 1, !.applied = p.prepared, !.prep = FALSE, !.prepared = {}]

(* rollback() *)
RolledBackImage_KeepPrepared(m) == [m EXCEPT !.next = TRUE]
RolledBackImage(m) == [m EXCEPT !.prep = FALSE, !.prepared = {}, !.next = TRUE]

-----------------------------------------------------------------------------
(* The writer.  txn.label is 0 as long as nothing was written. *)
Written == IF txn.wrote THEN {txn.label} ELSE {}

(* cursor.start_transaction(use_wal): the database starts a transaction ... *)
StartTransaction ==
    /\ pc = "idle"
    /\ mem.next
    /\ worker.pc = "chosen" => "race" \in Enabled
    /\ label < MaxLabel
    /\ mem' = Started(mem)
    /\ label' = label + 1
    /\ txn' = [id |-> mem.read + 1, label |-> label + 1, wrote |-> FALSE,
               idx |-> wal.next_log]
    /\ pc' = "begin"
    /\ UNCHANGED <<disk, log, pool, rec, logged, undone, pledged, crashes>>

(* ... and _WalWriter::begin() pins the file it has loaded from next_log. *)
WalBegin ==
    /\ pc = "begin"
    /\ wal' = [wal EXCEPT !.last_commit[txn.idx] = txn.id, !.active_log = txn.idx]
    /\ pc' = "open"
    /\ UNCHANGED <<store, file, synced, txn, pool, rec, ledger>>

(* value() and remove(): the operation goes to the trie and to _buf. *)
Write ==
    /\ pc = "open" /\ ~txn.wrote
    /\ txn' = [txn EXCEPT !.wrote = TRUE]
    /\ UNCHANGED <<store, log, pc, pool, rec, ledger>>

Append1(i, op) ==
    file' = [file EXCEPT ![i] = Append(@, [op |-> op, id |-> txn.id, label |-> txn.label])]
Sync(i) == synced' = [synced EXCEPT ![i] = Len(file'[i])]

(* cursor.prepare_commit(): _WalWriter::prepare() writes and syncs ... *)
WalPrepare ==
    /\ "2pc" \in Enabled
    /\ pc = "open"
    /\ IF txn.wrote THEN Append1(wal.active_log, "prepare") /\ Sync(wal.active_log)
                    ELSE UNCHANGED <<file, synced>>
    /\ pc' = "logged"
    /\ UNCHANGED <<store, wal, txn, pool, rec, ledger>>

(* ... and the database prepares and flushes (sync = true). *)
DbPrepare ==
    /\ pc = "logged"
    /\ mem' = PreparedImage(mem, Written)
    /\ disk' = mem'
    /\ pledged' = Written
    /\ pc' = "prepared"
    /\ UNCHANGED <<log, txn, pool, rec, logged, undone, label, crashes>>

(* cursor.commit(): prepare(skip_sync) unless already prepared ... *)
CommitPrepare_StalePrepared ==
    /\ pc = "open"
    /\ IF txn.wrote /\ wal.active_log = 0 /\ file[0] = << >>
          THEN Append1(wal.active_log, "prepare") ELSE UNCHANGED file
    /\ pc' = "promised"
    /\ UNCHANGED <<store, synced, wal, txn, pool, rec, ledger>>

CommitPrepare ==
    /\ pc = "open"
    /\ IF txn.wrote THEN Append1(wal.active_log, "prepare") ELSE UNCHANGED file
    /\ pc' = "promised"
    /\ UNCHANGED <<store, synced, wal, txn, pool, rec, ledger>>

(* _WalWriter::commit() appends COMMIT and syncs; wal_commit() then submits *)
(* the flush task if the active file has reached the threshold.             *)
SubmitAt(n) == n >= Threshold
WalCommit ==
    /\ pc \in {"promised", "prepared"}
    /\ IF txn.wrote THEN Append1(wal.active_log, "commit") /\ Sync(wal.active_log)
                    ELSE UNCHANGED <<file, synced>>
    /\ tasks' = IF SubmitAt(Len(file'[wal.active_log])) THEN tasks \cup {txn.id} ELSE tasks
    /\ logged' = logged \cup Written
    /\ pledged' = {}
    /\ pc' = "durable"
    /\ UNCHANGED <<store, wal, txn, worker, rec, undone, label, crashes>>

(* ... and only then the database commits; the call returns. *)
DbCommit ==
    /\ pc = "durable"
    /\ mem' = CommittedImage(mem, Written)
    /\ txn' = NoTxn
    /\ pc' = "idle"
    /\ UNCHANGED <<disk, log, pool, rec, ledger>>

(* cursor.rollback(): _WalWriter::abort() clears the buffer, the database   *)
(* rolls back.  Nothing is written to the log.                              *)
Rollback ==
    /\ pc = "open" \/ (pc = "prepared" /\ "undo" \in Enabled)
    /\ mem' = RolledBackImage(mem)
    /\ undone' = undone \cup Written
    /\ pledged' = {}
    /\ txn' = NoTxn
    /\ pc' = "idle"
    /\ UNCHANGED <<disk, log, pool, rec, logged, label, crashes>>

-----------------------------------------------------------------------------
(* The flush task, in the thread pool and under _flush_lock. *)

(* _storage.flush(true, true) *)
TaskFlush(id) ==
    /\ worker.pc = "idle" /\ id \in tasks
    /\ pc = "durable" /\ txn.id = id => "early" \in Enabled
    /\ tasks' = tasks \ {id}
    /\ disk' = mem
    /\ worker' = [pc |-> "flushed", id |-> id, idx |-> 0]
    /\ UNCHANGED <<mem, log, pc, txn, rec, ledger>>

(* flushed(txn_id): the other file, if all it logged is at most txn_id ... *)
MayTruncate(idx, id) == wal.last_commit[idx] <= id
TaskChoose ==
    /\ worker.pc = "flushed"
    /\ pc = "begin" => "race" \in Enabled
    /\ LET idx == 1 - wal.active_log
       IN worker' = IF MayTruncate(idx, worker.id)
                    THEN [worker EXCEPT !.pc = "chosen", !.idx = idx] ELSE NoTask
    /\ UNCHANGED <<store, log, pc, txn, tasks, rec, ledger>>

(* ... is emptied and becomes the next one to write to. *)
TaskTruncate ==
    /\ worker.pc = "chosen"
    /\ file' = [file EXCEPT ![worker.idx] = << >>]
    /\ synced' = [synced EXCEPT ![worker.idx] = 0]
    /\ wal' = [wal EXCEPT !.last_commit[worker.idx] = 0, !.next_log = worker.idx]
    /\ worker' = NoTask
    /\ UNCHANGED <<store, pc, txn, tasks, rec, ledger>>

-----------------------------------------------------------------------------
(* A crash, at any program point of the writer, of the task and of the      *)
(* recovery.  Without the memory, the files keep what was synced and any    *)
(* prefix of what was not.                                                  *)
Die ==
    /\ pc # "down" /\ pc # "failed"
    /\ crashes < MaxCrash
    /\ crashes' = crashes + 1
    /\ pc' = "down"
    /\ txn' = NoTxn
    /\ tasks' = {} /\ worker' = NoTask /\ rec' = NoRec
    /\ UNCHANGED <<wal, logged, undone, pledged, label>>

Crash ==
    /\ "crash" \in Enabled
    /\ Die
    /\ UNCHANGED <<store, file, synced>>

Loss ==
    /\ "loss" \in Enabled
    /\ Die
    /\ mem' = disk
    /\ \E keep \in [Log -> 0 .. 2 * MaxLabel] :
          /\ \A i \in Log : synced[i] <= keep[i] /\ keep[i] <= Len(file[i])
          /\ file' = [i \in Log |-> SubSeq(file[i], 1, keep[i])]
          /\ synced' = keep
    /\ UNCHANGED disk

(* wal_parse() of one file reads up to the first COMMIT outside of a         *)
(* transaction and returns the transactions with PREPARE and COMMIT, and a   *)
(* dangling one at the end.                                                  *)
Stray(f, j) == f[j].op = "commit" /\ (j = 1 \/ f[j - 1].op # "prepare")
Readable(f) == {j \in 1 .. Len(f) : \A k \in 1 .. j : ~Stray(f, k)}
Complete(f) == {f[j] : j \in {i \in Readable(f) :
                            i < Len(f) /\ f[i].op = "prepare" /\ f[i + 1].op = "commit"}}
Dangling(f) == {f[j] : j \in {i \in Readable(f) : i = Len(f) /\ f[i].op = "prepare"}}

(* parse(): the transactions of both files; a dangling one of the second    *)
(* file overwrites one of the first.                                        *)
Replayable == Complete(file[0]) \cup Complete(file[1])
InDoubt == IF Dangling(file[1]) # {} THEN Dangling(file[1]) ELSE Dangling(file[0])

(* sanitize() before wal_recover(): a missing next page is re-created. *)
Sanitized_DropPrepared(m) == [m EXCEPT !.next = TRUE, !.prep = FALSE, !.prepared = {}]
Sanitized(m) == [m EXCEPT !.next = TRUE]

(* wal_recover() takes the logged transactions newer than read_txn, as it   *)
(* is when the recovery begins.                                             *)
Newer_SkipFirst(t) == t.id > mem.read + 1
Newer(t) == t.id > mem.read
RecoverParse ==
    /\ pc = "down"
    /\ mem' = Sanitized(mem)
    /\ rec' = [txns  |-> {t \in Replayable : Newer(t)},
               doubt |-> {t \in InDoubt : Newer(t)}, have |-> FALSE]
    /\ pc' = "replaying"
    /\ UNCHANGED <<disk, log, txn, pool, ledger>>

(* Each, in the order of txn_id, is a transaction with commit(true) ... *)
ReplayTxn ==
    /\ pc = "replaying" /\ mem.next
    /\ \E t \in rec.txns :
          /\ \A u \in rec.txns : t.id <= u.id
          /\ mem' = CommittedImage(Started(mem), {t.label})
          /\ rec' = [rec EXCEPT !.txns = @ \ {t}, !.have = TRUE]
    /\ disk' = mem'
    /\ UNCHANGED <<log, pc, txn, pool, ledger>>

(* ... and the dangling one a transaction with prepare_commit(false). *)
ReplayDangling ==
    /\ pc = "replaying" /\ mem.next /\ rec.txns = {}
    /\ \E d \in rec.doubt : mem' = PreparedImage(Started(mem), {d.label})
    /\ rec' = [rec EXCEPT !.doubt = {}, !.have = TRUE]
    /\ UNCHANGED <<disk, log, pc, txn, pool, ledger>>

(* start_transaction() without a next page: the database cannot be opened. *)
ReplayFails ==
    /\ pc = "replaying" /\ ~mem.next
    /\ rec.txns \cup rec.doubt # {}
    /\ pc' = "failed"
    /\ UNCHANGED <<store, log, txn, pool, rec, ledger>>

(* The replayed state is flushed, if there is any ... *)
RecoverFlush ==
    /\ pc = "replaying" /\ rec.txns \cup rec.doubt = {}
    /\ disk' = mem \/ (UNCHANGED disk /\ ~rec.have /\ "bare" \in Enabled)
    /\ pc' = "flushed"
    /\ UNCHANGED <<mem, log, txn, pool, rec, ledger>>

(* ... before the files are removed; sanitize() makes a prepared            *)
(* transaction the active one.                                              *)
RecoverReset ==
    /\ pc = "flushed"
    /\ file' = [i \in Log |-> << >>] /\ synced' = [i \in Log |-> 0]
    /\ wal' = OpenWal /\ rec' = NoRec
    /\ pc' = IF mem.prep THEN "recovered" ELSE "idle"
    /\ UNCHANGED <<store, txn, pool, ledger>>

(* The application settles it: DB::commit(0, sync) or DB::rollback(0), which *)
(* does not flush; the application may do it.                                *)
CommitRecovered ==
    /\ pc = "recovered"
    /\ mem' = CommittedImage(mem, {})
    /\ disk' = mem'
    /\ logged' = logged \cup mem.prepared
    /\ pledged' = {}
    /\ pc' = "idle"
    /\ UNCHANGED <<log, txn, pool, rec, undone, label, crashes>>

RollbackRecovered ==
    /\ pc = "recovered"
    /\ mem' = RolledBackImage(mem)
    /\ disk' = mem' \/ (UNCHANGED disk /\ "undo" \in Enabled)
    /\ undone' = undone \cup (mem.prepared \ mem.applied)
    /\ pledged' = {}
    /\ pc' = "idle"
    /\ UNCHANGED <<log, txn, pool, rec, logged, label, crashes>>

-----------------------------------------------------------------------------
Next ==
    \/ StartTransaction \/ WalBegin \/ Write
    \/ WalPrepare \/ DbPrepare \/ CommitPrepare \/ WalCommit \/ DbCommit \/ Rollback
    \/ (\E id \in tasks : TaskFlush(id)) \/ TaskChoose \/ TaskTruncate
    \/ Crash \/ Loss
    \/ RecoverParse \/ ReplayTxn \/ ReplayDangling \/ ReplayFails
    \/ RecoverFlush \/ RecoverReset
    \/ CommitRecovered \/ RollbackRecovered

Spec == Init /\ [][Next]_vars

-----------------------------------------------------------------------------
(* Properties *)

Running == pc \notin {"down", "replaying", "flushed", "failed"}

(* A transaction whose COMMIT record was synced is in the database once     *)
(* commit() has returned or the recovery is over, whatever was lost in      *)
(* between: "the WAL can be replayed to reconstruct the lost updates".      *)
Durable == Running /\ pc # "durable" => logged \subseteq mem.applied

(* "a transaction's records + sentinels always land in ONE file": a COMMIT   *)
(* follows the PREPARE of its own transaction, so wal_parse() accepts it.    *)
ChunksTogether ==
    \A i \in Log : \A j \in 1 .. Len(file[i]) :
        file[i][j].op = "commit" =>
            /\ j > 1
            /\ file[i][j - 1] = [file[i][j] EXCEPT !.op = "prepare"]

(* What was rolled back never comes back, committed or as a prepared        *)
(* transaction the application is asked to settle.                          *)
RolledBackStaysOut == Running => undone \cap (mem.applied \cup mem.prepared) = {}

(* After prepare_commit() has returned, the transaction outlives crashes,   *)
(* also during the recovery, until the application has settled it.          *)
PreparedSurvives == Running => pledged \subseteq mem.prepared \cup mem.applied
=============================================================================
