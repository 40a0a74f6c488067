------------------------------ MODULE WalProofs ------------------------------
(***************************************************************************)
(* Proofs about Wal, for every number of transactions and crashes and      *)
(* every threshold:                                                        *)
(*   - a prepared transaction survives until it is settled, under every    *)
(*     behaviour of the model;                                             *)
(*   - a COMMIT follows its PREPARE, without "race";                       *)
(*   - what was rolled back stays out, without "undo";                     *)
(*   - what was logged is durable, under crashes and losses.               *)
(* Each has an inductive invariant of its own over TypeInv; the last one   *)
(* also uses that of the second.                                           *)
(***************************************************************************)
EXTENDS Wal, TLAPS

-----------------------------------------------------------------------------
(* Images *)

(* start_transaction() changes next_txn_page only. *)
LEMMA StartedFields ==
    ASSUME NEW m \in Image
    PROVE  /\ Started(m) \in Image
           /\ Started(m).read = m.read /\ Started(m).applied = m.applied
           /\ Started(m).prep = m.prep /\ Started(m).prepared = m.prepared
  BY DEF Started, Image

(* sanitize() too. *)
LEMMA SanitizedFields ==
    ASSUME NEW m \in Image
    PROVE  /\ Sanitized(m) \in Image
           /\ Sanitized(m).read = m.read /\ Sanitized(m).applied = m.applied
           /\ Sanitized(m).prep = m.prep /\ Sanitized(m).prepared = m.prepared
  BY DEF Sanitized, Image

(* rollback() keeps what is committed and drops what is prepared. *)
LEMMA RolledBackFields ==
    ASSUME NEW m \in Image
    PROVE  /\ RolledBackImage(m) \in Image
           /\ RolledBackImage(m).read = m.read
           /\ RolledBackImage(m).applied = m.applied
           /\ ~RolledBackImage(m).prep /\ RolledBackImage(m).prepared = {}
  BY DEF RolledBackImage, Image

(* prepare_commit() of a database without a prepared transaction. *)
LEMMA PreparedFields ==
    ASSUME NEW m \in Image, NEW l \in SUBSET Labels
    PROVE  /\ PreparedImage(m, l) \in Image
           /\ m.prep => PreparedImage(m, l) = m
           /\ PreparedImage(m, l).prep
           /\ PreparedImage(m, l).read = m.read
           /\ PreparedImage(m, l).applied = m.applied
           /\ ~m.prep => PreparedImage(m, l).prepared = m.applied \cup l
<1>1. CASE m.prep
  BY <1>1 DEF PreparedImage
<1>2. CASE ~m.prep
  <2>1. PreparedImage(m, l) =
            [m EXCEPT !.prep = TRUE, !.prepared = m.applied \cup l, !.next = TRUE]
    BY <1>2 DEF PreparedImage
  <2>2. QED
    BY <1>2, <2>1 DEF Image
<1>3. QED
  BY <1>1, <1>2

(* commit() moves on to what is prepared, its own or an older one. *)
LEMMA CommittedFields ==
    ASSUME NEW m \in Image, NEW l \in SUBSET Labels
    PROVE  /\ CommittedImage(m, l) \in Image
           /\ CommittedImage(m, l).read = m.read + 1
           /\ ~CommittedImage(m, l).prep /\ CommittedImage(m, l).prepared = {}
           /\ m.prep => CommittedImage(m, l).applied = m.prepared
           /\ ~m.prep => CommittedImage(m, l).applied = m.applied \cup l
<1> DEFINE p == PreparedImage(m, l)
<1>1. /\ p \in Image /\ p.read = m.read
      /\ m.prep => p.prepared = m.prepared
      /\ ~m.prep => p.prepared = m.applied \cup l
  BY PreparedFields
<1>2. CommittedImage(m, l) =
          [p EXCEPT !.read = @ + 1, !.applied = p.prepared, !.prep = FALSE, !.prepared = {}]
  BY DEF CommittedImage
<1> HIDE DEF p
<1>3. CommittedImage(m, l) =
          [read |-> p.read + 1, applied |-> p.prepared, prep |-> FALSE, prepared |-> {},
           next |-> p.next]
  BY <1>1, <1>2 DEF Image
<1>4. p.read + 1 \in Tid /\ p.prepared \in SUBSET Labels /\ p.next \in BOOLEAN
  BY <1>1 DEF Image, Tid
<1>5. CommittedImage(m, l) \in Image
  BY <1>3, <1>4 DEF Image
<1>6. QED
  BY <1>1, <1>3, <1>5

-----------------------------------------------------------------------------
(* Files *)

(* What an appended chunk changes. *)
LEMMA AppendedFile ==
    ASSUME NEW f \in [Log -> Seq(Chunk)], NEW a \in Log, NEW c \in Chunk,
           NEW g, g = [f EXCEPT ![a] = Append(@, c)]
    PROVE  /\ g \in [Log -> Seq(Chunk)]
           /\ \A i \in Log : i # a => g[i] = f[i]
           /\ Len(f[a]) \in Nat
           /\ Len(g[a]) = Len(f[a]) + 1
           /\ \A j \in 1 .. Len(f[a]) : g[a][j] = f[a][j]
           /\ g[a][Len(f[a]) + 1] = c
<1>1. f[a] \in Seq(Chunk)
  OBVIOUS
<1>2. g[a] = Append(f[a], c)
  OBVIOUS
<1>3. Append(f[a], c) \in Seq(Chunk)
  BY <1>1
<1>4. g \in [Log -> Seq(Chunk)] /\ \A i \in Log : i # a => g[i] = f[i]
  BY <1>3
<1>5. QED
  BY <1>1, <1>2, <1>4

(* A prefix of a file. *)
LEMMA Prefix ==
    ASSUME NEW s \in Seq(Chunk), NEW k \in Nat, k <= Len(s)
    PROVE  /\ SubSeq(s, 1, k) \in Seq(Chunk)
           /\ Len(SubSeq(s, 1, k)) = k
           /\ \A j \in 1 .. k : SubSeq(s, 1, k)[j] = s[j]
  OBVIOUS

(* A chunk of file i, of one of the files. *)
InFile(f, i, c) == \E j \in 1 .. Len(f[i]) : c = f[i][j]
InLog(f, c) == \E i \in Log : InFile(f, i, c)

(* g is f with the chunk c more in file a. *)
GrewBy(f, g, a, c) ==
    /\ \A i \in Log, d \in Chunk : i # a => (InFile(g, i, d) <=> InFile(f, i, d))
    /\ \A d \in Chunk : InFile(g, a, d) <=> InFile(f, a, d) \/ d = c

(* A chunk appended to a file is all that the files gain. *)
LEMMA AppendedChunks ==
    ASSUME NEW f \in [Log -> Seq(Chunk)], NEW a \in Log, NEW c \in Chunk,
           NEW g, g = [f EXCEPT ![a] = Append(@, c)]
    PROVE  GrewBy(f, g, a, c)
<1>1. /\ \A i \in Log : i # a => g[i] = f[i]
      /\ Len(f[a]) \in Nat
      /\ Len(g[a]) = Len(f[a]) + 1
      /\ \A j \in 1 .. Len(f[a]) : g[a][j] = f[a][j]
      /\ g[a][Len(f[a]) + 1] = c
  BY AppendedFile
<1>2. \A i \in Log, d \in Chunk : i # a => (InFile(g, i, d) <=> InFile(f, i, d))
  BY <1>1 DEF InFile
<1>3. \A j \in 1 .. Len(g[a]) : j \in 1 .. Len(f[a]) \/ j = Len(f[a]) + 1
  BY <1>1
<1>4. Len(f[a]) + 1 \in 1 .. Len(g[a]) /\ 1 .. Len(f[a]) \subseteq 1 .. Len(g[a])
  BY <1>1
<1>5. ASSUME NEW d \in Chunk PROVE InFile(g, a, d) <=> InFile(f, a, d) \/ d = c
  <2>1. ASSUME InFile(g, a, d) PROVE InFile(f, a, d) \/ d = c
    BY <1>1, <1>3, <2>1 DEF InFile
  <2>2. ASSUME InFile(f, a, d) PROVE InFile(g, a, d)
    BY <1>1, <1>4, <2>2 DEF InFile
  <2>3. ASSUME d = c PROVE InFile(g, a, d)
    BY <1>1, <1>4, <2>3 DEF InFile
  <2>4. QED
    BY <2>1, <2>2, <2>3
<1>6. QED
  BY <1>2, <1>5 DEF GrewBy

-----------------------------------------------------------------------------
(* Types *)

Active == {"begin", "open", "logged", "prepared", "promised", "durable"}

(* The writer's transaction has a label as long as it is active. *)
TypeInv ==
    /\ TypeOK
    /\ pc \in Active => txn.label \in Labels
    /\ pc \notin Active => txn = NoTxn

(* The chunk of the writer's transaction. *)
Own(op) == [op |-> op, id |-> txn.id, label |-> txn.label]

(* What the transaction being written has in the log and in memory is typed. *)
LEMMA OwnTypes ==
    ASSUME TypeInv, pc \in Active
    PROVE  /\ Written \in SUBSET Labels
           /\ \A op \in {"prepare", "commit"} : Own(op) \in Chunk
  BY DEF TypeInv, TypeOK, Written, Own, Chunk

(* wal_parse() returns chunks of the file. *)
LEMMA ParsedChunks ==
    ASSUME TypeOK
    PROVE  /\ Replayable \subseteq Chunk /\ InDoubt \subseteq Chunk
           /\ \A c \in Replayable \cup InDoubt : InLog(file, c)
<1>1. ASSUME NEW i \in Log
      PROVE  /\ \A c \in Complete(file[i]) \cup Dangling(file[i]) :
                   c \in Chunk /\ InFile(file, i, c)
  BY DEF TypeOK, Complete, Dangling, Readable, InFile
<1>2. 0 \in Log /\ 1 \in Log
  BY DEF Log
<1>3. \A c \in Replayable \cup InDoubt : \E i \in Log : c \in Complete(file[i]) \cup Dangling(file[i])
  BY <1>2 DEF Replayable, InDoubt
<1>4. QED
  BY <1>1, <1>3 DEF InLog

(* The types hold of a fresh database. *)
LEMMA TypeInit == Init => TypeInv
<1> SUFFICES ASSUME Init PROVE TypeInv
  OBVIOUS
<1> USE WalAssumption
<1>1. mem \in Image /\ disk \in Image
  BY DEF Init, Fresh, Image, Tid
<1>2. file \in [Log -> Seq(Chunk)]
  BY DEF Init
<1>3. synced \in [Log -> Nat] /\ \A i \in Log : synced[i] <= Len(file[i])
  BY DEF Init
<1>4. wal \in [next_log : Log, active_log : Log, last_commit : [Log -> Tid]]
  BY DEF Init, OpenWal, Log, Tid
<1>5. txn \in [id : Tid, label : Labels \cup {0}, wrote : BOOLEAN, idx : Log]
  BY DEF Init, NoTxn, Log, Tid
<1>6. worker \in [pc : {"idle", "flushed", "chosen"}, id : Tid, idx : Log]
  BY DEF Init, NoTask, Log, Tid
<1>7. rec \in [txns : SUBSET Chunk, doubt : SUBSET Chunk, have : BOOLEAN]
  BY DEF Init, NoRec
<1>8. QED
  BY <1>1, <1>2, <1>3, <1>4, <1>5, <1>6, <1>7 DEF Init, TypeInv, TypeOK, Active

(* ... and every step keeps them. *)
LEMMA TypeStep == TypeInv /\ [Next]_vars => TypeInv'
<1> SUFFICES ASSUME TypeInv, [Next]_vars PROVE TypeInv'
  OBVIOUS
<1> USE WalAssumption
<1>m. mem \in Image /\ disk \in Image
  BY DEF TypeInv, TypeOK
<1>w. pc \in Active => Written \in SUBSET Labels /\ \A op \in {"prepare", "commit"} : Own(op) \in Chunk
  BY OwnTypes
<1>l. NoTxn \in [id : Tid, label : Labels \cup {0}, wrote : BOOLEAN, idx : Log]
  BY DEF NoTxn, Tid, Log
<1>k. NoTask \in [pc : {"idle", "flushed", "chosen"}, id : Tid, idx : Log]
  BY DEF NoTask, Tid, Log
<1>r. NoRec \in [txns : SUBSET Chunk, doubt : SUBSET Chunk, have : BOOLEAN]
  BY DEF NoRec
(* An appended chunk keeps the types of file and synced. *)
<1>a. ASSUME NEW a \in Log, NEW op \in {"prepare", "commit"}, pc \in Active, Append1(a, op)
      PROVE  /\ file' \in [Log -> Seq(Chunk)]
             /\ \A i \in Log : Len(file[i]) \in Nat /\ Len(file'[i]) \in Nat
             /\ \A i \in Log : Len(file[i]) <= Len(file'[i])
  <2>1. file' = [file EXCEPT ![a] = Append(@, Own(op))]
    BY <1>a DEF Append1, Own
  <2>2. Own(op) \in Chunk
    BY <1>a, <1>w
  <2>3. file \in [Log -> Seq(Chunk)]
    BY DEF TypeInv, TypeOK
  <2>4. /\ file' \in [Log -> Seq(Chunk)]
        /\ \A i \in Log : i # a => file'[i] = file[i]
        /\ Len(file[a]) \in Nat
        /\ Len(file'[a]) = Len(file[a]) + 1
    BY <2>1, <2>2, <2>3, AppendedFile
  <2>5. \A i \in Log : Len(file[i]) \in Nat
    BY <2>3
  <2>6. ASSUME NEW i \in Log
        PROVE  Len(file'[i]) \in Nat /\ Len(file[i]) <= Len(file'[i])
    <3>1. CASE i = a
      BY <2>4, <3>1
    <3>2. CASE i # a
      BY <2>4, <2>5, <3>2
    <3>3. QED
      BY <3>1, <3>2
  <2>7. QED
    BY <2>4, <2>5, <2>6
<1>s. ASSUME NEW a \in Log, NEW op \in {"prepare", "commit"}, pc \in Active,
             Append1(a, op), Sync(a)
      PROVE  synced' \in [Log -> Nat] /\ \A i \in Log : synced'[i] <= Len(file'[i])
  <2>1. /\ synced \in [Log -> Nat] /\ \A i \in Log : synced[i] <= Len(file[i])
        /\ synced' = [synced EXCEPT ![a] = Len(file'[a])]
    BY <1>s DEF TypeInv, TypeOK, Sync
  <2>2. /\ \A i \in Log : Len(file[i]) \in Nat /\ Len(file'[i]) \in Nat
        /\ \A i \in Log : Len(file[i]) <= Len(file'[i])
    BY <1>a, <1>s
  <2>3. synced' \in [Log -> Nat]
    BY <2>1, <2>2
  <2>4. ASSUME NEW i \in Log PROVE synced'[i] <= Len(file'[i])
    <3>1. synced[i] \in Nat /\ synced[i] <= Len(file[i])
      BY <2>1
    <3>2. CASE i = a
      BY <2>1, <2>2, <3>2
    <3>3. CASE i # a
      <4>1. synced'[i] = synced[i]
        BY <2>1, <3>3
      <4>2. QED
        BY <2>2, <3>1, <4>1
    <3>4. QED
      BY <3>2, <3>3
  <2>5. QED
    BY <2>3, <2>4
<1>1. CASE StartTransaction
  <2>1. mem' \in Image
    BY <1>1, <1>m, StartedFields DEF StartTransaction
  <2>2. /\ label' \in Labels /\ label' \in 0 .. MaxLabel
        /\ txn' \in [id : Tid, label : Labels \cup {0}, wrote : BOOLEAN, idx : Log]
        /\ txn'.label \in Labels
    <3>1. label \in 0 .. MaxLabel /\ label < MaxLabel /\ label' = label + 1
      BY <1>1 DEF StartTransaction, TypeInv, TypeOK
    <3>2. label' \in Labels /\ label' \in 0 .. MaxLabel
      BY <3>1 DEF Labels
    <3>3. mem.read + 1 \in Tid /\ wal.next_log \in Log
      BY <1>m DEF Image, Tid, TypeInv, TypeOK
    <3>4. txn' = [id |-> mem.read + 1, label |-> label', wrote |-> FALSE, idx |-> wal.next_log]
      BY <1>1 DEF StartTransaction
    <3>5. QED
      BY <3>2, <3>3, <3>4
  <2>3. QED
    BY <1>1, <2>1, <2>2 DEF StartTransaction, TypeInv, TypeOK, Active, log, pool
<1>2. CASE WalBegin
  <2>1. wal' \in [next_log : Log, active_log : Log, last_commit : [Log -> Tid]]
    BY <1>2 DEF WalBegin, TypeInv, TypeOK
  <2>2. QED
    BY <1>2, <2>1 DEF WalBegin, TypeInv, TypeOK, Active, store, pool, ledger
<1>3. CASE Write
  BY <1>3 DEF Write, TypeInv, TypeOK, Active, store, log, pool, ledger
<1>4. CASE WalPrepare
  <2>1. wal.active_log \in Log /\ pc \in Active
    BY <1>4 DEF WalPrepare, TypeInv, TypeOK, Active
  <2>2. /\ file' \in [Log -> Seq(Chunk)]
        /\ synced' \in [Log -> Nat] /\ \A i \in Log : synced'[i] <= Len(file'[i])
    <3>1. CASE txn.wrote
      BY <1>4, <2>1, <3>1, <1>a, <1>s DEF WalPrepare
    <3>2. CASE ~txn.wrote
      BY <1>4, <3>2 DEF WalPrepare, TypeInv, TypeOK
    <3>3. QED
      BY <3>1, <3>2
  <2>3. QED
    BY <1>4, <2>2 DEF WalPrepare, TypeInv, TypeOK, Active, store, pool, ledger
<1>5. CASE DbPrepare
  <2>1. mem' \in Image /\ disk' \in Image /\ pledged' \subseteq Labels
    BY <1>5, <1>m, <1>w, PreparedFields DEF DbPrepare, Active
  <2>2. QED
    BY <1>5, <2>1 DEF DbPrepare, TypeInv, TypeOK, Active, log, pool
<1>6. CASE CommitPrepare
  <2>1. wal.active_log \in Log /\ pc \in Active
    BY <1>6 DEF CommitPrepare, TypeInv, TypeOK, Active
  <2>2. file' \in [Log -> Seq(Chunk)] /\ \A i \in Log : synced[i] <= Len(file'[i])
    <3>1. CASE txn.wrote
      <4>1. Append1(wal.active_log, "prepare")
        BY <1>6, <3>1 DEF CommitPrepare
      <4>2. /\ file' \in [Log -> Seq(Chunk)]
            /\ \A i \in Log : Len(file[i]) \in Nat /\ Len(file'[i]) \in Nat
            /\ \A i \in Log : Len(file[i]) <= Len(file'[i])
        BY <2>1, <4>1, <1>a
      <4>3. synced \in [Log -> Nat] /\ \A i \in Log : synced[i] <= Len(file[i])
        BY DEF TypeInv, TypeOK
      <4>4. QED
        BY <4>2, <4>3
    <3>2. CASE ~txn.wrote
      BY <1>6, <3>2 DEF CommitPrepare, TypeInv, TypeOK
    <3>3. QED
      BY <3>1, <3>2
  <2>3. QED
    BY <1>6, <2>2 DEF CommitPrepare, TypeInv, TypeOK, Active, store, pool, ledger
<1>7. CASE WalCommit
  <2>1. wal.active_log \in Log /\ pc \in Active
    BY <1>7 DEF WalCommit, TypeInv, TypeOK, Active
  <2>2. /\ file' \in [Log -> Seq(Chunk)]
        /\ synced' \in [Log -> Nat] /\ \A i \in Log : synced'[i] <= Len(file'[i])
    <3>1. CASE txn.wrote
      BY <1>7, <2>1, <3>1, <1>a, <1>s DEF WalCommit
    <3>2. CASE ~txn.wrote
      BY <1>7, <3>2 DEF WalCommit, TypeInv, TypeOK
    <3>3. QED
      BY <3>1, <3>2
  <2>3. tasks' \subseteq Tid /\ logged' \subseteq Labels
    BY <1>7, <2>1, <1>w DEF WalCommit, TypeInv, TypeOK
  <2>4. QED
    BY <1>7, <2>2, <2>3 DEF WalCommit, TypeInv, TypeOK, Active, store
<1>8. CASE DbCommit
  <2>1. mem' \in Image
    BY <1>8, <1>m, <1>w, CommittedFields DEF DbCommit, Active
  <2>2. QED
    BY <1>8, <2>1, <1>l DEF DbCommit, TypeInv, TypeOK, Active, log, pool, ledger
<1>9. CASE Rollback
  <2>1. mem' \in Image /\ undone' \subseteq Labels
    <3>1. undone \subseteq Labels
      BY DEF TypeInv, TypeOK
    <3>2. QED
      BY <1>9, <1>m, <1>w, <3>1, RolledBackFields DEF Rollback, Active
  <2>2. QED
    BY <1>9, <2>1, <1>l DEF Rollback, TypeInv, TypeOK, Active, log, pool
<1>10. ASSUME NEW id \in tasks, TaskFlush(id) PROVE TypeInv'
  <2>1. worker' \in [pc : {"idle", "flushed", "chosen"}, id : Tid, idx : Log]
    BY <1>10 DEF TaskFlush, TypeInv, TypeOK, Log
  <2>2. QED
    BY <1>10, <2>1 DEF TaskFlush, TypeInv, TypeOK, Active, log, ledger
<1>11. CASE TaskChoose
  <2>1. worker' \in [pc : {"idle", "flushed", "chosen"}, id : Tid, idx : Log]
    <3>1. worker \in [pc : {"idle", "flushed", "chosen"}, id : Tid, idx : Log]
      BY DEF TypeInv, TypeOK
    <3>2. 1 - wal.active_log \in Log
      BY DEF TypeInv, TypeOK, Log
    <3>3. \/ worker' = [worker EXCEPT !.pc = "chosen", !.idx = 1 - wal.active_log]
          \/ worker' = NoTask
      BY <1>11 DEF TaskChoose
    <3>4. QED
      BY <3>1, <3>2, <3>3, <1>k
  <2>2. QED
    BY <1>11, <2>1 DEF TaskChoose, TypeInv, TypeOK, Active, store, log, ledger
<1>12. CASE TaskTruncate
  <2>1. /\ file' \in [Log -> Seq(Chunk)]
        /\ synced' \in [Log -> Nat] /\ \A i \in Log : synced'[i] <= Len(file'[i])
    BY <1>12 DEF TaskTruncate, TypeInv, TypeOK
  <2>2. wal' \in [next_log : Log, active_log : Log, last_commit : [Log -> Tid]]
    <3>1. worker.idx \in Log /\ 0 \in Tid
      BY DEF TypeInv, TypeOK, Tid
    <3>2. wal \in [next_log : Log, active_log : Log, last_commit : [Log -> Tid]]
      BY DEF TypeInv, TypeOK
    <3>3. QED
      BY <1>12, <3>1, <3>2 DEF TaskTruncate
  <2>3. QED
    BY <1>12, <2>1, <2>2, <1>k DEF TaskTruncate, TypeInv, TypeOK, Active, store, ledger
<1>13. CASE Crash
  <2>1. crashes' \in 0 .. MaxCrash
    BY <1>13 DEF Crash, Die, TypeInv, TypeOK
  <2>2. QED
    BY <1>13, <2>1, <1>l, <1>k, <1>r DEF Crash, Die, TypeInv, TypeOK, Active, store
<1>14. CASE Loss
  <2>1. crashes' \in 0 .. MaxCrash
    BY <1>14 DEF Loss, Die, TypeInv, TypeOK
  <2>2. PICK keep \in [Log -> 0 .. 2 * MaxLabel] :
            /\ \A i \in Log : synced[i] <= keep[i] /\ keep[i] <= Len(file[i])
            /\ file' = [i \in Log |-> SubSeq(file[i], 1, keep[i])]
            /\ synced' = keep
    BY <1>14 DEF Loss
  <2>3. \A i \in Log : keep[i] \in Nat /\ keep[i] <= Len(file[i])
    BY <2>2
  <2>4. file \in [Log -> Seq(Chunk)]
    BY DEF TypeInv, TypeOK
  <2>5. \A i \in Log : file'[i] \in Seq(Chunk) /\ Len(file'[i]) = keep[i]
    BY <2>2, <2>3, <2>4, Prefix
  <2>6. file' \in [Log -> Seq(Chunk)]
    BY <2>2, <2>5
  <2>7. synced' \in [Log -> Nat] /\ \A i \in Log : synced'[i] <= Len(file'[i])
    BY <2>2, <2>3, <2>5
  <2>8. QED
    BY <1>14, <2>1, <2>6, <2>7, <1>l, <1>k, <1>r DEF Loss, Die, TypeInv, TypeOK, Active
<1>15. CASE RecoverParse
  <2>1. mem' \in Image
    BY <1>15, <1>m, SanitizedFields DEF RecoverParse
  <2>2. rec' \in [txns : SUBSET Chunk, doubt : SUBSET Chunk, have : BOOLEAN]
    BY <1>15, ParsedChunks DEF RecoverParse, TypeInv
  <2>3. QED
    BY <1>15, <2>1, <2>2 DEF RecoverParse, TypeInv, TypeOK, Active, log, pool, ledger
<1>16. CASE ReplayTxn
  <2>1. PICK t \in rec.txns :
            /\ mem' = CommittedImage(Started(mem), {t.label})
            /\ rec' = [rec EXCEPT !.txns = @ \ {t}, !.have = TRUE]
    BY <1>16 DEF ReplayTxn
  <2>2. {t.label} \in SUBSET Labels
    BY <2>1 DEF TypeInv, TypeOK, Chunk
  <2>3. mem' \in Image
    BY <2>1, <2>2, <1>m, StartedFields, CommittedFields
  <2>4. rec' \in [txns : SUBSET Chunk, doubt : SUBSET Chunk, have : BOOLEAN]
    BY <2>1 DEF TypeInv, TypeOK
  <2>5. QED
    BY <1>16, <2>3, <2>4 DEF ReplayTxn, TypeInv, TypeOK, Active, log, pool, ledger
<1>17. CASE ReplayDangling
  <2>1. PICK d \in rec.doubt : mem' = PreparedImage(Started(mem), {d.label})
    BY <1>17 DEF ReplayDangling
  <2>2. {d.label} \in SUBSET Labels
    BY <2>1 DEF TypeInv, TypeOK, Chunk
  <2>3. mem' \in Image
    BY <2>1, <2>2, <1>m, StartedFields, PreparedFields
  <2>4. rec' \in [txns : SUBSET Chunk, doubt : SUBSET Chunk, have : BOOLEAN]
    BY <1>17 DEF ReplayDangling, TypeInv, TypeOK
  <2>5. QED
    BY <1>17, <2>3, <2>4 DEF ReplayDangling, TypeInv, TypeOK, Active, log, pool, ledger
<1>18. CASE ReplayFails
  BY <1>18 DEF ReplayFails, TypeInv, TypeOK, Active, store, log, pool, ledger
<1>19. CASE RecoverFlush
  BY <1>19 DEF RecoverFlush, TypeInv, TypeOK, Active, log, pool, ledger
<1>20. CASE RecoverReset
  <2>1. wal' \in [next_log : Log, active_log : Log, last_commit : [Log -> Tid]]
    BY <1>20 DEF RecoverReset, OpenWal, Log, Tid
  <2>2. /\ file' \in [Log -> Seq(Chunk)]
        /\ synced' \in [Log -> Nat] /\ \A i \in Log : synced'[i] <= Len(file'[i])
    BY <1>20 DEF RecoverReset
  <2>3. QED
    BY <1>20, <2>1, <2>2, <1>r DEF RecoverReset, TypeInv, TypeOK, Active, store, pool, ledger
<1>21. CASE CommitRecovered
  <2>1. mem' \in Image /\ {} \in SUBSET Labels
    BY <1>21, <1>m, CommittedFields DEF CommitRecovered
  <2>2. logged' \subseteq Labels
    BY <1>21, <1>m DEF CommitRecovered, TypeInv, TypeOK, Image
  <2>3. QED
    BY <1>21, <2>1, <2>2 DEF CommitRecovered, TypeInv, TypeOK, Active, log, pool
<1>22. CASE RollbackRecovered
  <2>1. mem' \in Image /\ disk' \in Image
    BY <1>22, <1>m, RolledBackFields DEF RollbackRecovered
  <2>2. undone' \subseteq Labels
    BY <1>22, <1>m DEF RollbackRecovered, TypeInv, TypeOK, Image
  <2>3. QED
    BY <1>22, <2>1, <2>2 DEF RollbackRecovered, TypeInv, TypeOK, Active, log, pool
<1>23. CASE UNCHANGED vars
  BY <1>23 DEF vars, TypeInv, TypeOK, Active
<1>24. QED
  BY <1>1, <1>2, <1>3, <1>4, <1>5, <1>6, <1>7, <1>8, <1>9, <1>10, <1>11, <1>12, <1>13,
     <1>14, <1>15, <1>16, <1>17, <1>18, <1>19, <1>20, <1>21, <1>22, <1>23 DEF Next

(* Every reachable state is well typed. *)
THEOREM TypeTheorem == Spec => []TypeInv
  BY TypeInit, TypeStep, PTL DEF Spec

-----------------------------------------------------------------------------
(* Prepared transactions *)

Sound(m) ==
    /\ m.prep => m.applied \subseteq m.prepared
    /\ ~m.prep => m.prepared = {}
Keeps(m) == pledged \subseteq m.prepared \cup m.applied

(* Both images hold what was pledged, and no transaction begins over a      *)
(* header that names a prepared one: there prepare_commit() does nothing.   *)
PledgeInv ==
    /\ Sound(mem) /\ Sound(disk)
    /\ Keeps(mem) /\ Keeps(disk)
    /\ pc \in {"idle", "begin", "open", "logged"} => ~mem.prep

(* start_transaction(), prepare_commit() and commit() lose nothing. *)
LEMMA StartedSound ==
    ASSUME NEW m \in Image, Sound(m)
    PROVE  Sound(Started(m)) /\ (Keeps(m) => Keeps(Started(m)))
  BY StartedFields DEF Sound, Keeps

(* prepare_commit() keeps an image sound. *)
LEMMA PreparedSound ==
    ASSUME NEW m \in Image, NEW l \in SUBSET Labels, Sound(m)
    PROVE  Sound(PreparedImage(m, l)) /\ (Keeps(m) => Keeps(PreparedImage(m, l)))
<1>1. CASE m.prep
  BY <1>1, PreparedFields
<1>2. CASE ~m.prep
  BY <1>2, PreparedFields DEF Sound, Keeps
<1>3. QED
  BY <1>1, <1>2

(* ... and so does commit(). *)
LEMMA CommittedSound ==
    ASSUME NEW m \in Image, NEW l \in SUBSET Labels, Sound(m)
    PROVE  Sound(CommittedImage(m, l)) /\ (Keeps(m) => Keeps(CommittedImage(m, l)))
<1>1. CASE m.prep
  BY <1>1, CommittedFields DEF Sound, Keeps
<1>2. CASE ~m.prep
  BY <1>2, CommittedFields DEF Sound, Keeps
<1>3. QED
  BY <1>1, <1>2

(* A fresh database has nothing prepared. *)
LEMMA PledgeInit == Init => PledgeInv
  BY DEF Init, Fresh, PledgeInv, Sound, Keeps

(* Every step keeps what prepare_commit() pledged. *)
LEMMA PledgeStep == TypeInv /\ TypeInv' /\ PledgeInv /\ [Next]_vars => PledgeInv'
<1> SUFFICES ASSUME TypeInv, TypeInv', PledgeInv, [Next]_vars PROVE PledgeInv'
  OBVIOUS
<1>m. mem \in Image /\ disk \in Image /\ mem' \in Image /\ disk' \in Image
  BY DEF TypeInv, TypeOK
<1>w. pc \in Active => Written \in SUBSET Labels
  BY OwnTypes
<1>s. Sound(mem) /\ Sound(disk) /\ Keeps(mem) /\ Keeps(disk)
  BY DEF PledgeInv
(* A step that leaves the pledge alone and loses nothing of an image. *)
<1>k. ASSUME NEW m, Keeps(m), pledged' = pledged PROVE pledged' \subseteq m.prepared \cup m.applied
  BY <1>k DEF Keeps
<1>e. pledged' = {} => \A m : pledged' \subseteq m.prepared \cup m.applied
  OBVIOUS
<1>q. ASSUME Sound(mem'), Sound(disk'),
             pledged' \subseteq mem'.prepared \cup mem'.applied,
             pledged' \subseteq disk'.prepared \cup disk'.applied,
             pc' \in {"idle", "begin", "open", "logged"} => ~mem'.prep
      PROVE  PledgeInv'
  BY <1>q DEF PledgeInv, Sound, Keeps
<1>1. CASE StartTransaction
  <2>1. mem' = Started(mem) /\ disk' = disk /\ pledged' = pledged
    BY <1>1 DEF StartTransaction
  <2>2. ~mem'.prep
    BY <1>1, <2>1, <1>m, StartedFields DEF StartTransaction, PledgeInv
  <2>3. QED
    BY <2>1, <2>2, <1>m, <1>s, <1>k, <1>q, StartedSound
<1>2. CASE WalBegin
  BY <1>2, <1>s, <1>k, <1>q DEF WalBegin, store, ledger, PledgeInv
<1>3. CASE Write
  BY <1>3, <1>s, <1>k, <1>q DEF Write, store, ledger, PledgeInv
<1>4. CASE WalPrepare
  BY <1>4, <1>s, <1>k, <1>q DEF WalPrepare, store, ledger, PledgeInv
<1>5. CASE DbPrepare
  <2>1. mem' = PreparedImage(mem, Written) /\ disk' = mem' /\ pledged' = Written
        /\ ~mem.prep /\ pc' = "prepared" /\ Written \in SUBSET Labels
    BY <1>5, <1>w DEF DbPrepare, PledgeInv, Active
  <2>2. Sound(mem') /\ pledged' \subseteq mem'.prepared
    BY <2>1, <1>m, <1>s, PreparedSound, PreparedFields
  <2>3. QED
    BY <2>1, <2>2, <1>q
<1>6. CASE CommitPrepare
  BY <1>6, <1>s, <1>k, <1>q DEF CommitPrepare, store, ledger, PledgeInv
<1>7. CASE WalCommit
  <2>1. mem' = mem /\ disk' = disk /\ pledged' = {} /\ pc' = "durable"
    BY <1>7 DEF WalCommit, store
  <2>2. QED
    BY <2>1, <1>s, <1>e, <1>q
<1>8. CASE DbCommit
  <2>1. mem' = CommittedImage(mem, Written) /\ disk' = disk /\ pledged' = pledged
        /\ Written \in SUBSET Labels
    BY <1>8, <1>w DEF DbCommit, ledger, Active
  <2>2. ~mem'.prep
    BY <2>1, <1>m, CommittedFields
  <2>3. QED
    BY <2>1, <2>2, <1>m, <1>s, <1>k, <1>q, CommittedSound
<1>9. CASE Rollback
  <2>1. mem' = RolledBackImage(mem) /\ disk' = disk /\ pledged' = {}
    BY <1>9 DEF Rollback
  <2>2. ~mem'.prep /\ Sound(mem')
    BY <2>1, <1>m, RolledBackFields DEF Sound
  <2>3. QED
    BY <2>1, <2>2, <1>s, <1>e, <1>q
<1>10. ASSUME NEW id \in tasks, TaskFlush(id) PROVE PledgeInv'
  BY <1>10, <1>s, <1>k, <1>q DEF TaskFlush, ledger, PledgeInv
<1>11. CASE TaskChoose
  BY <1>11, <1>s, <1>k, <1>q DEF TaskChoose, store, ledger, PledgeInv
<1>12. CASE TaskTruncate
  BY <1>12, <1>s, <1>k, <1>q DEF TaskTruncate, store, ledger, PledgeInv
<1>13. CASE Crash
  BY <1>13, <1>s, <1>k, <1>q DEF Crash, Die, store, PledgeInv
<1>14. CASE Loss
  BY <1>14, <1>s, <1>k, <1>q DEF Loss, Die, PledgeInv
<1>15. CASE RecoverParse
  <2>1. mem' = Sanitized(mem) /\ disk' = disk /\ pledged' = pledged /\ pc' = "replaying"
    BY <1>15 DEF RecoverParse, ledger
  <2>2. Sound(mem') /\ Keeps(mem')
    BY <2>1, <1>m, <1>s, SanitizedFields DEF Sound, Keeps
  <2>3. QED
    BY <2>1, <2>2, <1>s, <1>k, <1>q
<1>16. CASE ReplayTxn
  <2>1. PICK t \in rec.txns : mem' = CommittedImage(Started(mem), {t.label})
    BY <1>16 DEF ReplayTxn
  <2>2. disk' = mem' /\ pledged' = pledged /\ pc' = "replaying"
    BY <1>16 DEF ReplayTxn, ledger
  <2>3. {t.label} \in SUBSET Labels
    BY <2>1 DEF TypeInv, TypeOK, Chunk
  <2>4. Sound(mem') /\ Keeps(mem')
    BY <2>1, <2>3, <1>m, <1>s, StartedFields, StartedSound, CommittedSound
  <2>5. QED
    BY <2>2, <2>4, <1>k, <1>q
<1>17. CASE ReplayDangling
  <2>1. PICK d \in rec.doubt : mem' = PreparedImage(Started(mem), {d.label})
    BY <1>17 DEF ReplayDangling
  <2>2. disk' = disk /\ pledged' = pledged /\ pc' = "replaying"
    BY <1>17 DEF ReplayDangling, ledger
  <2>3. {d.label} \in SUBSET Labels
    BY <2>1 DEF TypeInv, TypeOK, Chunk
  <2>4. Sound(mem') /\ Keeps(mem')
    BY <2>1, <2>3, <1>m, <1>s, StartedFields, StartedSound, PreparedSound
  <2>5. QED
    BY <2>2, <2>4, <1>s, <1>k, <1>q
<1>18. CASE ReplayFails
  BY <1>18, <1>s, <1>k, <1>q DEF ReplayFails, store, ledger
<1>19. CASE RecoverFlush
  BY <1>19, <1>s, <1>k, <1>q DEF RecoverFlush, ledger
<1>20. CASE RecoverReset
  <2>1. /\ mem' = mem /\ disk' = disk /\ pledged' = pledged
        /\ pc' = IF mem.prep THEN "recovered" ELSE "idle"
    BY <1>20 DEF RecoverReset, store, ledger
  <2>2. QED
    BY <2>1, <1>s, <1>k, <1>q
<1>21. CASE CommitRecovered
  <2>1. mem' = CommittedImage(mem, {}) /\ disk' = mem' /\ pledged' = {}
    BY <1>21 DEF CommitRecovered
  <2>2. ~mem'.prep /\ Sound(mem')
    BY <2>1, <1>m, <1>s, CommittedFields, CommittedSound
  <2>3. QED
    BY <2>1, <2>2, <1>e, <1>q
<1>22. CASE RollbackRecovered
  <2>1. mem' = RolledBackImage(mem) /\ (disk' = mem' \/ disk' = disk) /\ pledged' = {}
    BY <1>22 DEF RollbackRecovered
  <2>2. ~mem'.prep /\ Sound(mem')
    BY <2>1, <1>m, RolledBackFields DEF Sound
  <2>3. QED
    BY <2>1, <2>2, <1>s, <1>e, <1>q
<1>23. CASE UNCHANGED vars
  BY <1>23 DEF vars, PledgeInv, Sound, Keeps
<1>24. QED
  BY <1>1, <1>2, <1>3, <1>4, <1>5, <1>6, <1>7, <1>8, <1>9, <1>10, <1>11, <1>12, <1>13,
     <1>14, <1>15, <1>16, <1>17, <1>18, <1>19, <1>20, <1>21, <1>22, <1>23 DEF Next

(* Under every behaviour of the model, crashes in the recovery included, a  *)
(* transaction prepare_commit() has returned for is in the database until   *)
(* the application settles it.                                              *)
THEOREM PreparedTheorem == Spec => []PreparedSurvives
<1>1. PledgeInv => PreparedSurvives
  BY DEF PledgeInv, Keeps, PreparedSurvives
<1>2. QED
  BY <1>1, PledgeInit, PledgeStep, TypeTheorem, PTL DEF Spec

-----------------------------------------------------------------------------
(* PREPARE and COMMIT *)

NoRace == "race" \notin Enabled

(* The file that is being emptied is not the one transactions write to ...  *)
Apart ==
    worker.pc = "chosen" => worker.idx = 1 - wal.active_log /\ pc # "begin"
(* ... and the PREPARE of the writer is the last chunk of its file.         *)
LastIsOwn ==
    pc \in {"promised", "logged", "prepared"} /\ txn.wrote =>
        /\ Len(file[wal.active_log]) > 0
        /\ file[wal.active_log][Len(file[wal.active_log])] = Own("prepare")
(* No task outlives the process. *)
Quiet == pc \in {"down", "replaying", "flushed"} => tasks = {} /\ worker = NoTask
TogetherInv == Apart /\ LastIsOwn /\ Quiet /\ ChunksTogether

Paired(f) ==
    \A j \in 1 .. Len(f) :
        f[j].op = "commit" => j > 1 /\ f[j - 1] = [f[j] EXCEPT !.op = "prepare"]

(* ChunksTogether, file by file. *)
LEMMA TogetherPaired == ChunksTogether <=> \A i \in Log : Paired(file[i])
  BY DEF ChunksTogether, Paired

(* A prefix of a paired file is paired, *)
LEMMA PairedPrefix ==
    ASSUME NEW s \in Seq(Chunk), NEW k \in Nat, k <= Len(s), Paired(s)
    PROVE  Paired(SubSeq(s, 1, k))
<1>1. /\ Len(SubSeq(s, 1, k)) = k /\ Len(s) \in Nat
      /\ \A j \in 1 .. k : SubSeq(s, 1, k)[j] = s[j]
  BY Prefix
<1>2. ASSUME NEW j \in 1 .. k, s[j].op = "commit"
      PROVE  j > 1 /\ SubSeq(s, 1, k)[j - 1] = [s[j] EXCEPT !.op = "prepare"]
  <2>1. j \in 1 .. Len(s)
    BY <1>1
  <2>2. j > 1 /\ s[j - 1] = [s[j] EXCEPT !.op = "prepare"]
    BY <1>2, <2>1 DEF Paired
  <2>3. j - 1 \in 1 .. k
    BY <2>2
  <2>4. QED
    BY <1>1, <2>2, <2>3
<1>3. QED
  BY <1>1, <1>2 DEF Paired

(* and so is a file with a PREPARE more, or with the COMMIT of the last one. *)
LEMMA PairedAppend ==
    ASSUME NEW s \in Seq(Chunk), NEW c \in Chunk, Paired(s),
           \/ c.op = "prepare"
           \/ Len(s) > 0 /\ s[Len(s)] = [c EXCEPT !.op = "prepare"]
    PROVE  Paired(Append(s, c))
<1> DEFINE g == Append(s, c)
<1>1. /\ Len(s) \in Nat /\ Len(g) = Len(s) + 1
      /\ \A j \in 1 .. Len(s) : g[j] = s[j]
      /\ g[Len(s) + 1] = c
  OBVIOUS
<1> HIDE DEF g
<1>2. ASSUME NEW j \in 1 .. Len(g), g[j].op = "commit"
      PROVE  j > 1 /\ g[j - 1] = [g[j] EXCEPT !.op = "prepare"]
  <2>1. CASE j = Len(s) + 1
    <3>1. g[j] = c /\ c.op = "commit"
      BY <1>1, <1>2, <2>1
    <3>2. Len(s) > 0 /\ s[Len(s)] = [c EXCEPT !.op = "prepare"]
      BY <3>1
    <3>3. j - 1 = Len(s) /\ Len(s) \in 1 .. Len(s)
      BY <1>1, <2>1, <3>2
    <3>4. QED
      BY <1>1, <2>1, <3>1, <3>2, <3>3
  <2>2. CASE j \in 1 .. Len(s)
    <3>1. g[j] = s[j]
      BY <1>1, <2>2
    <3>2. j > 1 /\ s[j - 1] = [s[j] EXCEPT !.op = "prepare"]
      BY <1>2, <2>2, <3>1 DEF Paired
    <3>3. j - 1 \in 1 .. Len(s)
      BY <1>1, <2>2, <3>2
    <3>4. QED
      BY <1>1, <3>1, <3>2, <3>3
  <2>3. QED
    BY <1>1, <2>1, <2>2
<1>3. QED
  BY <1>2 DEF Paired, g

(* The files are empty at first. *)
LEMMA TogetherInit == Init => TogetherInv
<1> SUFFICES ASSUME Init PROVE TogetherInv
  OBVIOUS
<1>1. \A i \in Log : Len(file[i]) = 0
  BY DEF Init
<1>2. ChunksTogether
  BY <1>1 DEF ChunksTogether
<1>3. QED
  BY <1>2 DEF Init, NoTask, TogetherInv, Apart, LastIsOwn, Quiet

(* Every step keeps the pairs, while no begin races a truncation. *)
LEMMA TogetherStep ==
    ASSUME NoRace
    PROVE  TypeInv /\ TypeInv' /\ TogetherInv /\ [Next]_vars => TogetherInv'
<1> SUFFICES ASSUME TypeInv, TypeInv', TogetherInv, [Next]_vars PROVE TogetherInv'
  OBVIOUS
<1> USE NoRace DEF NoRace
<1>f. /\ file \in [Log -> Seq(Chunk)] /\ wal.active_log \in Log
      /\ worker.idx \in Log /\ wal.next_log \in Log
  BY DEF TypeInv, TypeOK
<1>o. pc \in Active => Own("prepare") \in Chunk /\ Own("commit") \in Chunk
  BY OwnTypes
<1>p. \A i \in Log : Paired(file[i])
  BY TogetherPaired DEF TogetherInv
<1>t. (\A i \in Log : Paired(file'[i])) => ChunksTogether'
  BY DEF ChunksTogether, Paired
(* The writer appends its chunk to the active file. *)
<1>a. ASSUME NEW op \in {"prepare", "commit"}, Append1(wal.active_log, op), pc \in Active,
             op = "commit" => /\ Len(file[wal.active_log]) > 0
                              /\ file[wal.active_log][Len(file[wal.active_log])] = Own("prepare")
      PROVE  /\ ChunksTogether'
             /\ Len(file'[wal.active_log]) > 0
             /\ file'[wal.active_log][Len(file'[wal.active_log])] = Own(op)
  <2>1. file' = [file EXCEPT ![wal.active_log] = Append(@, Own(op))]
    BY <1>a DEF Append1, Own
  <2>2. Own(op) \in Chunk
    BY <1>a, <1>o
  <2>3. /\ \A i \in Log : i # wal.active_log => file'[i] = file[i]
        /\ Len(file[wal.active_log]) \in Nat
        /\ Len(file'[wal.active_log]) = Len(file[wal.active_log]) + 1
        /\ file'[wal.active_log][Len(file[wal.active_log]) + 1] = Own(op)
    BY <1>f, <2>1, <2>2, AppendedFile
  <2>4. file'[wal.active_log] = Append(file[wal.active_log], Own(op))
    BY <1>f, <2>1
  <2>5. Own(op).op = op /\ [Own("commit") EXCEPT !.op = "prepare"] = Own("prepare")
    BY DEF Own
  <2>6. Paired(file'[wal.active_log])
    BY <1>a, <1>f, <1>p, <2>2, <2>4, <2>5, PairedAppend
  <2>7. ChunksTogether'
    BY <1>p, <1>t, <2>3, <2>6
  <2>8. QED
    BY <2>3, <2>7
<1>c. file' = file => ChunksTogether'
  BY <1>p, <1>t
<1>q. Quiet'
  <2>1. CASE pc' \in {"down", "replaying", "flushed"} /\ pc \in {"down", "replaying", "flushed"}
    <3>1. tasks = {} /\ worker = NoTask
      BY <2>1 DEF TogetherInv, Quiet
    <3>2. worker.pc = "idle"
      BY <3>1 DEF NoTask
    <3>3. (tasks' = tasks /\ worker' = worker) \/ (tasks' = {} /\ worker' = NoTask)
      BY <2>1, <3>1, <3>2 DEF Next, StartTransaction, WalBegin, Write, WalPrepare, DbPrepare,
         CommitPrepare, WalCommit, DbCommit, Rollback, TaskChoose, TaskTruncate, Crash, Loss,
         Die, RecoverParse, ReplayTxn, ReplayDangling, ReplayFails, RecoverFlush,
         RecoverReset, CommitRecovered, RollbackRecovered, pool, vars
    <3>4. QED
      BY <3>1, <3>3 DEF Quiet
  <2>2. CASE pc' \in {"down", "replaying", "flushed"} /\ pc \notin {"down", "replaying", "flushed"}
    <3>1. Crash \/ Loss
      BY <2>2 DEF Next, StartTransaction, WalBegin, Write, WalPrepare, DbPrepare,
         CommitPrepare, WalCommit, DbCommit, Rollback, TaskFlush, TaskChoose, TaskTruncate,
         RecoverParse, ReplayTxn, ReplayDangling, ReplayFails, RecoverFlush,
         RecoverReset, CommitRecovered, RollbackRecovered, vars
    <3>2. QED
      BY <3>1 DEF Crash, Loss, Die, Quiet
  <2>3. QED
    BY <2>1, <2>2 DEF Quiet
<1>1. CASE StartTransaction
  <2>1. Apart'
    BY <1>1 DEF StartTransaction, Apart, pool
  <2>2. LastIsOwn' /\ file' = file
    BY <1>1 DEF StartTransaction, LastIsOwn, log
  <2>3. QED
    BY <1>q, <2>1, <2>2, <1>c DEF TogetherInv
<1>2. CASE WalBegin
  <2>1. Apart'
    BY <1>2 DEF WalBegin, TogetherInv, Apart, pool
  <2>2. LastIsOwn' /\ file' = file
    BY <1>2 DEF WalBegin, LastIsOwn
  <2>3. QED
    BY <1>q, <2>1, <2>2, <1>c DEF TogetherInv
<1>3. CASE Write
  <2>1. Apart'
    BY <1>3 DEF Write, TogetherInv, Apart, pool, log
  <2>2. LastIsOwn' /\ file' = file
    BY <1>3 DEF Write, LastIsOwn, log
  <2>3. QED
    BY <1>q, <2>1, <2>2, <1>c DEF TogetherInv
<1>4. CASE WalPrepare
  <2>1. Apart'
    BY <1>4 DEF WalPrepare, TogetherInv, Apart, pool
  <2>2. CASE txn.wrote
    <3>1. Append1(wal.active_log, "prepare") /\ pc \in Active /\ wal' = wal /\ txn' = txn
      BY <1>4, <2>2 DEF WalPrepare, Active
    <3>2. /\ ChunksTogether' /\ Len(file'[wal.active_log]) > 0
          /\ file'[wal.active_log][Len(file'[wal.active_log])] = Own("prepare")
      BY <3>1, <1>a
    <3>3. QED
      BY <1>q, <2>1, <3>1, <3>2 DEF TogetherInv, LastIsOwn, Own
  <2>3. CASE ~txn.wrote
    BY <1>q, <1>4, <2>1, <2>3, <1>c DEF WalPrepare, TogetherInv, LastIsOwn
  <2>4. QED
    BY <2>2, <2>3
<1>5. CASE DbPrepare
  <2>1. Apart'
    BY <1>5 DEF DbPrepare, TogetherInv, Apart, pool, log
  <2>2. LastIsOwn' /\ file' = file
    BY <1>5 DEF DbPrepare, TogetherInv, LastIsOwn, Own, log
  <2>3. QED
    BY <1>q, <2>1, <2>2, <1>c DEF TogetherInv
<1>6. CASE CommitPrepare
  <2>1. Apart'
    BY <1>6 DEF CommitPrepare, TogetherInv, Apart, pool
  <2>2. CASE txn.wrote
    <3>1. Append1(wal.active_log, "prepare") /\ pc \in Active /\ wal' = wal /\ txn' = txn
      BY <1>6, <2>2 DEF CommitPrepare, Active
    <3>2. /\ ChunksTogether' /\ Len(file'[wal.active_log]) > 0
          /\ file'[wal.active_log][Len(file'[wal.active_log])] = Own("prepare")
      BY <3>1, <1>a
    <3>3. QED
      BY <1>q, <2>1, <3>1, <3>2 DEF TogetherInv, LastIsOwn, Own
  <2>3. CASE ~txn.wrote
    BY <1>q, <1>6, <2>1, <2>3, <1>c DEF CommitPrepare, TogetherInv, LastIsOwn
  <2>4. QED
    BY <2>2, <2>3
<1>7. CASE WalCommit
  <2>1. Apart' /\ LastIsOwn'
    BY <1>7 DEF WalCommit, TogetherInv, Apart, LastIsOwn
  <2>2. CASE txn.wrote
    <3>1. Append1(wal.active_log, "commit") /\ pc \in Active
      BY <1>7, <2>2 DEF WalCommit, Active
    <3>2. /\ Len(file[wal.active_log]) > 0
          /\ file[wal.active_log][Len(file[wal.active_log])] = Own("prepare")
      BY <1>7, <2>2 DEF WalCommit, TogetherInv, LastIsOwn
    <3>3. ChunksTogether'
      BY <3>1, <3>2, <1>a
    <3>4. QED
      BY <1>q, <2>1, <3>3 DEF TogetherInv
  <2>3. CASE ~txn.wrote
    BY <1>q, <1>7, <2>1, <2>3, <1>c DEF WalCommit, TogetherInv
  <2>4. QED
    BY <2>2, <2>3
<1>8. CASE DbCommit
  <2>1. Apart'
    BY <1>8 DEF DbCommit, TogetherInv, Apart, pool, log
  <2>2. LastIsOwn' /\ file' = file
    BY <1>8 DEF DbCommit, LastIsOwn, log
  <2>3. QED
    BY <1>q, <2>1, <2>2, <1>c DEF TogetherInv
<1>9. CASE Rollback
  <2>1. Apart'
    BY <1>9 DEF Rollback, TogetherInv, Apart, pool, log
  <2>2. LastIsOwn' /\ file' = file
    BY <1>9 DEF Rollback, LastIsOwn, log
  <2>3. QED
    BY <1>q, <2>1, <2>2, <1>c DEF TogetherInv
<1>10. ASSUME NEW id \in tasks, TaskFlush(id) PROVE TogetherInv'
  <2>1. Apart'
    BY <1>10 DEF TaskFlush, Apart
  <2>2. LastIsOwn' /\ file' = file
    BY <1>10 DEF TaskFlush, TogetherInv, LastIsOwn, Own, log
  <2>3. QED
    BY <1>q, <2>1, <2>2, <1>c DEF TogetherInv
<1>11. CASE TaskChoose
  <2>1. Apart'
    <3>1. worker \in [pc : {"idle", "flushed", "chosen"}, id : Tid, idx : Log]
      BY DEF TypeInv, TypeOK
    <3>2. \/ worker' = [worker EXCEPT !.pc = "chosen", !.idx = 1 - wal.active_log]
          \/ worker' = NoTask
      BY <1>11 DEF TaskChoose
    <3>3. wal' = wal /\ pc' = pc /\ pc # "begin"
      BY <1>11 DEF TaskChoose, log
    <3>4. CASE worker' = [worker EXCEPT !.pc = "chosen", !.idx = 1 - wal.active_log]
      <4>1. worker'.idx = 1 - wal.active_log
        BY <3>1, <3>4
      <4>2. QED
        BY <3>3, <4>1 DEF Apart
    <3>5. CASE worker' = NoTask
      BY <3>5 DEF Apart, NoTask
    <3>6. QED
      BY <3>2, <3>4, <3>5
  <2>2. LastIsOwn' /\ file' = file
    BY <1>11 DEF TaskChoose, TogetherInv, LastIsOwn, Own, log
  <2>3. QED
    BY <1>q, <2>1, <2>2, <1>c DEF TogetherInv
<1>12. CASE TaskTruncate
  <2>1. /\ wal'.active_log = wal.active_log
        /\ worker.idx # wal.active_log
    <3>1. wal \in [next_log : Log, active_log : Log, last_commit : [Log -> Tid]]
      BY DEF TypeInv, TypeOK
    <3>2. QED
      BY <1>q, <1>12, <1>f, <3>1 DEF TaskTruncate, TogetherInv, Apart, Log
  <2>2. file' = [file EXCEPT ![worker.idx] = << >>] /\ pc' = pc /\ txn' = txn
    BY <1>12 DEF TaskTruncate
  <2>3. Apart'
    BY <1>12 DEF TaskTruncate, Apart, NoTask
  <2>4. LastIsOwn'
    <3>1. file'[wal.active_log] = file[wal.active_log]
      BY <1>f, <2>1, <2>2
    <3>2. QED
      BY <1>q, <2>1, <2>2, <3>1 DEF TogetherInv, LastIsOwn, Own
  <2>5. \A i \in Log : Paired(file'[i])
    <3>1. Paired(<< >>)
      BY DEF Paired
    <3>2. \A i \in Log : file'[i] = file[i] \/ file'[i] = << >>
      BY <1>f, <2>2
    <3>3. QED
      BY <1>p, <3>1, <3>2
  <2>6. QED
    BY <1>q, <2>3, <2>4, <2>5, <1>t DEF TogetherInv
<1>13. CASE Crash
  BY <1>q, <1>13, <1>c DEF Crash, Die, TogetherInv, Apart, LastIsOwn, NoTask
<1>14. CASE Loss
  <2>1. PICK keep \in [Log -> 0 .. 2 * MaxLabel] :
            /\ \A i \in Log : synced[i] <= keep[i] /\ keep[i] <= Len(file[i])
            /\ file' = [i \in Log |-> SubSeq(file[i], 1, keep[i])]
    BY <1>14 DEF Loss
  <2>2. \A i \in Log : keep[i] \in Nat /\ keep[i] <= Len(file[i])
    BY <2>1
  <2>3. \A i \in Log : Paired(file'[i])
    BY <2>1, <2>2, <1>f, <1>p, PairedPrefix
  <2>4. QED
    BY <1>q, <1>14, <2>3, <1>t DEF Loss, Die, TogetherInv, Apart, LastIsOwn, NoTask
<1>15. CASE RecoverParse
  BY <1>q, <1>15, <1>c DEF RecoverParse, TogetherInv, Apart, LastIsOwn, log, pool
<1>16. CASE ReplayTxn
  BY <1>q, <1>16, <1>c DEF ReplayTxn, TogetherInv, Apart, LastIsOwn, log, pool
<1>17. CASE ReplayDangling
  BY <1>q, <1>17, <1>c DEF ReplayDangling, TogetherInv, Apart, LastIsOwn, log, pool
<1>18. CASE ReplayFails
  BY <1>q, <1>18, <1>c DEF ReplayFails, TogetherInv, Apart, LastIsOwn, log, pool
<1>19. CASE RecoverFlush
  BY <1>q, <1>19, <1>c DEF RecoverFlush, TogetherInv, Apart, LastIsOwn, log, pool
<1>20. CASE RecoverReset
  <2>1. \A i \in Log : Paired(file'[i])
    BY <1>20 DEF RecoverReset, Paired
  <2>2. worker.pc # "chosen"
    BY <1>20 DEF RecoverReset, TogetherInv, Quiet, NoTask
  <2>3. QED
    BY <1>q, <1>20, <2>1, <2>2, <1>t DEF RecoverReset, TogetherInv, Apart, LastIsOwn, pool
<1>21. CASE CommitRecovered
  BY <1>q, <1>21, <1>c DEF CommitRecovered, TogetherInv, Apart, LastIsOwn, log, pool
<1>22. CASE RollbackRecovered
  BY <1>q, <1>22, <1>c DEF RollbackRecovered, TogetherInv, Apart, LastIsOwn, log, pool
<1>23. CASE UNCHANGED vars
  BY <1>q, <1>23 DEF vars, TogetherInv, Apart, LastIsOwn, Own, ChunksTogether
<1>24. QED
  BY <1>1, <1>2, <1>3, <1>4, <1>5, <1>6, <1>7, <1>8, <1>9, <1>10, <1>11, <1>12, <1>13,
     <1>14, <1>15, <1>16, <1>17, <1>18, <1>19, <1>20, <1>21, <1>22, <1>23 DEF Next

(* The invariant of the pairs, for the proofs below. *)
LEMMA TogetherHolds == ASSUME NoRace PROVE Spec => []TogetherInv
  BY NoRace, TogetherInit, TogetherStep, TypeTheorem, PTL DEF Spec

(* Unless a transaction begins while the other file is being emptied, a     *)
(* COMMIT follows the PREPARE of its own transaction in its file, through   *)
(* changes of the file, crashes and losses of the tail.                     *)
THEOREM TogetherTheorem == ASSUME NoRace PROVE Spec => []ChunksTogether
<1>1. TogetherInv => ChunksTogether
  BY DEF TogetherInv
<1>2. QED
  BY <1>1, TogetherHolds, NoRace, PTL

-----------------------------------------------------------------------------
(* What a step does to the files *)

Appending == {"logged", "promised", "durable"}

(* A step adds no chunk to a file but that of the writer to the active one. *)
LEMMA FileStep ==
    ASSUME TypeInv, TypeInv', [Next]_vars, NEW i \in Log, NEW c \in Chunk,
           InFile(file', i, c), ~InFile(file, i, c)
    PROVE  /\ pc \in Active /\ pc' \in Appending /\ txn.wrote
           /\ i = wal.active_log
           /\ \/ c = Own("prepare") /\ pc = "open"
              \/ c = Own("commit") /\ pc' = "durable" /\ WalCommit
<1>f. file \in [Log -> Seq(Chunk)] /\ wal.active_log \in Log /\ worker.idx \in Log
  BY DEF TypeInv, TypeOK
<1>o. pc \in Active => Own("prepare") \in Chunk /\ Own("commit") \in Chunk
  BY OwnTypes
<1>u. file' # file
  OBVIOUS
<1>1. CASE WalPrepare \/ CommitPrepare
  <2>1. /\ txn.wrote /\ pc = "open" /\ pc' \in Appending
        /\ file' = [file EXCEPT ![wal.active_log] = Append(@, Own("prepare"))]
    BY <1>1, <1>u DEF WalPrepare, CommitPrepare, Append1, Own, Appending
  <2>2. pc \in Active
    BY <2>1 DEF Active
  <2>3. i = wal.active_log /\ c = Own("prepare")
    <3>1. Own("prepare") \in Chunk
      BY <1>o, <2>2
    <3>2. GrewBy(file, file', wal.active_log, Own("prepare"))
      BY <1>f, <2>1, <3>1, AppendedChunks
    <3>3. QED
      BY <3>2 DEF GrewBy
  <2>4. QED
    BY <2>1, <2>2, <2>3
<1>2. CASE WalCommit
  <2>1. /\ txn.wrote /\ pc \in Active /\ pc' = "durable"
        /\ file' = [file EXCEPT ![wal.active_log] = Append(@, Own("commit"))]
    BY <1>2, <1>u DEF WalCommit, Append1, Own, Active
  <2>2. i = wal.active_log /\ c = Own("commit")
    <3>1. Own("commit") \in Chunk
      BY <1>o, <2>1
    <3>2. GrewBy(file, file', wal.active_log, Own("commit"))
      BY <1>f, <2>1, <3>1, AppendedChunks
    <3>3. QED
      BY <3>2 DEF GrewBy
  <2>3. QED
    BY <1>2, <2>1, <2>2 DEF Appending
<1>3. CASE TaskTruncate
  <2>1. file' = [file EXCEPT ![worker.idx] = << >>]
    BY <1>3 DEF TaskTruncate
  <2>2. file'[i] = file[i] \/ file'[i] = << >>
    BY <1>f, <2>1
  <2>3. QED
    BY <2>2 DEF InFile
<1>4. CASE Loss
  <2>1. PICK keep \in [Log -> 0 .. 2 * MaxLabel] :
            /\ \A k \in Log : synced[k] <= keep[k] /\ keep[k] <= Len(file[k])
            /\ file' = [k \in Log |-> SubSeq(file[k], 1, keep[k])]
    BY <1>4 DEF Loss
  <2>2. keep[i] \in Nat /\ keep[i] <= Len(file[i]) /\ Len(file[i]) \in Nat
    BY <1>f, <2>1, WalAssumption
  <2>3. /\ Len(file'[i]) = keep[i]
        /\ \A j \in 1 .. keep[i] : file'[i][j] = file[i][j]
    BY <1>f, <2>1, <2>2, Prefix
  <2>4. 1 .. keep[i] \subseteq 1 .. Len(file[i])
    BY <2>2
  <2>5. QED
    BY <2>3, <2>4 DEF InFile
<1>5. CASE RecoverReset
  <2>1. file'[i] = << >>
    BY <1>5 DEF RecoverReset
  <2>2. QED
    BY <2>1 DEF InFile
<1>6. QED
  BY <1>u, <1>1, <1>2, <1>3, <1>4, <1>5 DEF Next, StartTransaction, WalBegin, Write,
     DbPrepare, DbCommit, Rollback, TaskFlush, TaskChoose, Crash, RecoverParse, ReplayTxn,
     ReplayDangling, ReplayFails, RecoverFlush, CommitRecovered, RollbackRecovered,
     log, vars

-----------------------------------------------------------------------------
(* Rolled back transactions *)

NoUndo == "undo" \notin Enabled

(* A label that is in no image, in no file and not to be replayed. *)
Unused(l) ==
    /\ l \notin mem.applied \cup mem.prepared
    /\ l \notin disk.applied \cup disk.prepared
    /\ \A c \in Chunk : InLog(file, c) => c.label # l
    /\ \A c \in rec.txns \cup rec.doubt : c.label # l

(* Rolled back labels are unused; so are those to come and the one of a     *)
(* transaction that has not reached prepare() yet.                          *)
UndoneInv ==
    /\ \A l \in undone : Unused(l)
    /\ \A l \in Labels : l > label => Unused(l) /\ l \notin undone
    /\ pc \in Active => txn.label \notin undone /\ txn.label <= label
    /\ pc \in {"begin", "open"} => Unused(txn.label)
    /\ pc = "recovered" => rec = NoRec /\ \A c \in Chunk : ~InLog(file, c)

Writing == pc' \in {"logged", "promised", "prepared", "durable"} \/ pc = "durable"

(* The images after a step hold no label but those of the images before, of *)
(* the log and of the writer.                                               *)
LEMMA ImageStep ==
    ASSUME TypeInv, TypeInv', [Next]_vars, NEW l \in Labels, Unused(l),
           pc \in Active /\ Writing => l # txn.label
    PROVE  /\ l \notin mem'.applied \cup mem'.prepared
           /\ l \notin disk'.applied \cup disk'.prepared
<1>m. mem \in Image /\ disk \in Image
  BY DEF TypeInv, TypeOK
<1>w. pc \in Active => Written \in SUBSET Labels
  BY OwnTypes
<1>n. pc \in Active /\ Writing => l \notin Written
  BY DEF Written
<1>u. /\ l \notin mem.applied \cup mem.prepared
      /\ l \notin disk.applied \cup disk.prepared
      /\ \A c \in rec.txns \cup rec.doubt : c.label # l
  BY DEF Unused
<1>1. CASE StartTransaction
  BY <1>1, <1>m, <1>u, StartedFields DEF StartTransaction
<1>2. CASE DbPrepare
  <2>1. pc \in Active /\ Writing /\ mem' = PreparedImage(mem, Written) /\ disk' = mem'
    BY <1>2 DEF DbPrepare, Active, Writing
  <2>2. CASE mem.prep
    BY <1>m, <1>u, <1>w, <2>1, <2>2, PreparedFields
  <2>3. CASE ~mem.prep
    BY <1>m, <1>u, <1>w, <1>n, <2>1, <2>3, PreparedFields
  <2>4. QED
    BY <2>2, <2>3
<1>3. CASE DbCommit
  <2>1. pc \in Active /\ Writing /\ mem' = CommittedImage(mem, Written) /\ disk' = disk
    BY <1>3 DEF DbCommit, Active, Writing
  <2>2. CASE mem.prep
    BY <1>m, <1>u, <1>w, <2>1, <2>2, CommittedFields
  <2>3. CASE ~mem.prep
    BY <1>m, <1>u, <1>w, <1>n, <2>1, <2>3, CommittedFields
  <2>4. QED
    BY <2>2, <2>3
<1>4. CASE Rollback
  BY <1>4, <1>m, <1>u, RolledBackFields DEF Rollback
<1>5. CASE RecoverParse
  BY <1>5, <1>m, <1>u, SanitizedFields DEF RecoverParse
<1>6. CASE ReplayTxn
  <2>1. PICK t \in rec.txns : mem' = CommittedImage(Started(mem), {t.label})
    BY <1>6 DEF ReplayTxn
  <2>2. {t.label} \in SUBSET Labels /\ disk' = mem' /\ t.label # l
    BY <1>6, <1>u, <2>1 DEF ReplayTxn, TypeInv, TypeOK, Chunk
  <2>3. Started(mem) \in Image /\ l \notin Started(mem).applied \cup Started(mem).prepared
    BY <1>m, <1>u, StartedFields
  <2>4. CASE Started(mem).prep
    BY <2>1, <2>2, <2>3, <2>4, CommittedFields
  <2>5. CASE ~Started(mem).prep
    BY <2>1, <2>2, <2>3, <2>5, CommittedFields
  <2>6. QED
    BY <2>4, <2>5
<1>7. CASE ReplayDangling
  <2>1. PICK d \in rec.doubt : mem' = PreparedImage(Started(mem), {d.label})
    BY <1>7 DEF ReplayDangling
  <2>2. {d.label} \in SUBSET Labels /\ disk' = disk /\ d.label # l
    BY <1>7, <1>u, <2>1 DEF ReplayDangling, TypeInv, TypeOK, Chunk
  <2>3. Started(mem) \in Image /\ l \notin Started(mem).applied \cup Started(mem).prepared
    BY <1>m, <1>u, StartedFields
  <2>4. CASE Started(mem).prep
    BY <1>u, <2>1, <2>2, <2>3, <2>4, PreparedFields
  <2>5. CASE ~Started(mem).prep
    BY <1>u, <2>1, <2>2, <2>3, <2>5, PreparedFields
  <2>6. QED
    BY <2>4, <2>5
<1>8. CASE CommitRecovered
  <2>1. mem' = CommittedImage(mem, {}) /\ disk' = mem'
    BY <1>8 DEF CommitRecovered
  <2>2. QED
    BY <1>m, <1>u, <2>1, CommittedFields
<1>9. CASE RollbackRecovered
  <2>1. mem' = RolledBackImage(mem) /\ (disk' = mem' \/ disk' = disk)
    BY <1>9 DEF RollbackRecovered
  <2>2. QED
    BY <1>m, <1>u, <2>1, RolledBackFields
<1>10. QED
  <2>1. ASSUME mem' = mem, disk' = disk \/ disk' = mem
        PROVE  /\ l \notin mem'.applied \cup mem'.prepared
               /\ l \notin disk'.applied \cup disk'.prepared
    BY <1>u, <2>1
  <2>2. ASSUME mem' = disk, disk' = disk
        PROVE  /\ l \notin mem'.applied \cup mem'.prepared
               /\ l \notin disk'.applied \cup disk'.prepared
    BY <1>u, <2>2
  <2>3. \/ StartTransaction \/ DbPrepare \/ DbCommit \/ Rollback \/ RecoverParse
        \/ ReplayTxn \/ ReplayDangling \/ CommitRecovered \/ RollbackRecovered
        \/ mem' = mem /\ (disk' = disk \/ disk' = mem)
        \/ mem' = disk /\ disk' = disk
    BY DEF Next, WalBegin, Write, WalPrepare, CommitPrepare, WalCommit, TaskFlush,
       TaskChoose, TaskTruncate, Crash, Loss, ReplayFails, RecoverFlush, RecoverReset,
       store, vars
  <2>4. QED
    BY <1>1, <1>2, <1>3, <1>4, <1>5, <1>6, <1>7, <1>8, <1>9, <2>1, <2>2, <2>3

(* What is to be replayed comes from the files. *)
LEMMA RecStep ==
    ASSUME TypeInv, [Next]_vars, NEW c \in rec'.txns \cup rec'.doubt
    PROVE  c \in rec.txns \cup rec.doubt \/ (c \in Chunk /\ InLog(file, c))
<1>r. rec \in [txns : SUBSET Chunk, doubt : SUBSET Chunk, have : BOOLEAN]
  BY DEF TypeInv, TypeOK
<1>1. CASE RecoverParse
  <2>1. rec'.txns \subseteq Replayable /\ rec'.doubt \subseteq InDoubt
    BY <1>1 DEF RecoverParse
  <2>2. QED
    BY <2>1, ParsedChunks DEF TypeInv
<1>2. CASE ReplayTxn
  <2>1. PICK t \in rec.txns : rec' = [rec EXCEPT !.txns = @ \ {t}, !.have = TRUE]
    BY <1>2 DEF ReplayTxn
  <2>2. QED
    BY <1>r, <2>1
<1>3. CASE ReplayDangling
  <2>1. rec' = [rec EXCEPT !.doubt = {}, !.have = TRUE]
    BY <1>3 DEF ReplayDangling
  <2>2. QED
    BY <1>r, <2>1
<1>4. CASE rec' = NoRec
  BY <1>4 DEF NoRec
<1>5. CASE rec' = rec
  BY <1>5
<1>6. RecoverParse \/ ReplayTxn \/ ReplayDangling \/ rec' = NoRec \/ rec' = rec
  BY DEF Next, StartTransaction, WalBegin, Write, WalPrepare, DbPrepare, CommitPrepare,
     WalCommit, DbCommit, Rollback, TaskFlush, TaskChoose, TaskTruncate, Crash, Loss, Die,
     ReplayFails, RecoverFlush, RecoverReset, CommitRecovered, RollbackRecovered, vars
<1>7. QED
  BY <1>1, <1>2, <1>3, <1>4, <1>5, <1>6

(* A label stays unused unless it is the writer's. *)
LEMMA UnusedStep ==
    ASSUME TypeInv, TypeInv', [Next]_vars, NEW l \in Labels, Unused(l),
           pc \in Active /\ Writing => l # txn.label
    PROVE  Unused(l)'
<1>1. /\ l \notin mem'.applied \cup mem'.prepared
      /\ l \notin disk'.applied \cup disk'.prepared
  BY ImageStep
<1>2. ASSUME NEW c \in Chunk, InLog(file', c) PROVE c.label # l
  <2>1. PICK i \in Log : InFile(file', i, c)
    BY <1>2 DEF InLog
  <2>2. CASE InFile(file, i, c)
    BY <2>2 DEF Unused, InLog
  <2>3. CASE ~InFile(file, i, c)
    <3>1. pc \in Active /\ pc' \in Appending /\ (c = Own("prepare") \/ c = Own("commit"))
      BY <2>1, <2>3, FileStep
    <3>2. l # txn.label /\ c.label = txn.label
      BY <3>1 DEF Appending, Writing, Own
    <3>3. QED
      BY <3>2 DEF GrewBy
  <2>4. QED
    BY <2>2, <2>3
<1>3. ASSUME NEW c \in rec'.txns \cup rec'.doubt PROVE c.label # l
  BY <1>3, RecStep DEF Unused
<1>4. QED
  BY <1>1, <1>2, <1>3 DEF Unused

(* Nothing was rolled back at first. *)
LEMMA UndoneInit == Init => UndoneInv
<1> SUFFICES ASSUME Init PROVE UndoneInv
  OBVIOUS
<1>1. \A c \in Chunk : ~InLog(file, c)
  BY DEF Init, InLog, InFile
<1>2. \A l : Unused(l)
  BY <1>1 DEF Init, Fresh, NoRec, Unused
<1>3. QED
  BY <1>2 DEF Init, UndoneInv, Active

(* Only a rollback adds to undone. *)
LEMMA UndoneGrows ==
    ASSUME [Next]_vars, ~RollbackRecovered, NEW l \in undone', l \notin undone
    PROVE  Rollback /\ l \in Written
  BY DEF Next, StartTransaction, WalBegin, Write, WalPrepare, DbPrepare, CommitPrepare,
     WalCommit, DbCommit, Rollback, TaskFlush, TaskChoose, TaskTruncate, Crash, Loss, Die,
     RecoverParse, ReplayTxn, ReplayDangling, ReplayFails, RecoverFlush, RecoverReset,
     CommitRecovered, ledger, vars

(* The writer's transaction and the counter of labels. *)
LEMMA WriterStep ==
    ASSUME [Next]_vars
    PROVE  \/ /\ StartTransaction
              /\ pc' = "begin" /\ label' = label + 1 /\ txn'.label = label + 1
           \/ /\ label' = label
              /\ pc' \in Active => pc \in Active /\ txn'.label = txn.label /\ undone' = undone
              /\ pc' \in {"begin", "open"} => pc \in {"begin", "open"}
<1>1. CASE StartTransaction
  BY <1>1 DEF StartTransaction
<1>2. CASE Write
  <2>1. txn'.label = txn.label
    BY <1>2 DEF Write
  <2>2. QED
    BY <1>2, <2>1 DEF Write, ledger, Active
<1>3. QED
  BY <1>1, <1>2 DEF Next, WalBegin, WalPrepare, DbPrepare, CommitPrepare,
     WalCommit, DbCommit, Rollback, TaskFlush, TaskChoose, TaskTruncate, Crash, Loss, Die,
     RecoverParse, ReplayTxn, ReplayDangling, ReplayFails, RecoverFlush, RecoverReset,
     CommitRecovered, RollbackRecovered, ledger, vars, Active

(* Every step keeps what was rolled back out of the images and the log. *)
LEMMA UndoneStep ==
    ASSUME NoUndo
    PROVE  TypeInv /\ TypeInv' /\ UndoneInv /\ [Next]_vars => UndoneInv'
<1> SUFFICES ASSUME TypeInv, TypeInv', UndoneInv, [Next]_vars PROVE UndoneInv'
  OBVIOUS
<1> USE NoUndo DEF NoUndo
<1>t. /\ undone \subseteq Labels /\ undone' \subseteq Labels
      /\ label \in Nat /\ \A l \in Labels : l \in Nat
      /\ pc \in Active => txn.label \in Labels
      /\ pc' \in Active => txn'.label \in Labels
  <2>1. undone \subseteq Labels /\ undone' \subseteq Labels /\ label \in 0 .. MaxLabel
    BY DEF TypeInv, TypeOK
  <2>2. label \in Nat /\ \A l \in Labels : l \in Nat
    BY <2>1, WalAssumption DEF Labels
  <2>3. QED
    BY <2>1, <2>2 DEF TypeInv
<1>i. /\ \A l \in undone : Unused(l)
      /\ \A l \in Labels : l > label => Unused(l) /\ l \notin undone
      /\ pc \in Active => txn.label \notin undone /\ txn.label <= label
      /\ pc \in {"begin", "open"} => Unused(txn.label)
      /\ pc = "recovered" => rec = NoRec /\ \A c \in Chunk : ~InLog(file, c)
  BY DEF UndoneInv
<1>w. pc' \in Active => pc \in Active \/ StartTransaction
  BY WriterStep
(* Labels rolled back before, and labels to come, stay unused. *)
<1>1. \A l \in undone : Unused(l)'
  BY <1>t, <1>i, UnusedStep
<1>2. \A l \in Labels : l > label => Unused(l)'
  <2>1. ASSUME NEW l \in Labels, l > label PROVE pc \in Active => l # txn.label
    BY <1>t, <1>i, <2>1
  <2>2. QED
    BY <1>i, <2>1, UnusedStep
<1>3. pc' \in {"begin", "open"} => Unused(txn.label)'
  <2>1. CASE StartTransaction /\ txn'.label = label + 1 /\ pc' = "begin"
    <3>1. txn'.label \in Labels /\ txn'.label > label
      BY <1>t, <2>1 DEF Active
    <3>2. PICK l \in Labels : l = txn'.label /\ l > label
      BY <3>1
    <3>3. Unused(l)'
      BY <1>2, <3>2
    <3>4. QED
      BY <3>2, <3>3 DEF Unused
  <2>2. CASE pc' \in {"begin", "open"} /\ pc \in {"begin", "open"} /\ txn'.label = txn.label
    <3>1. Unused(txn.label) /\ txn.label \in Labels /\ ~Writing
      BY <1>t, <1>i, <2>2 DEF Active, Writing
    <3>2. Unused(txn.label)'
      <4>1. PICK l \in Labels : l = txn.label /\ l = txn'.label
        BY <2>2, <3>1
      <4>2. Unused(l)
        BY <3>1, <4>1
      <4>3. Unused(l)'
        BY <3>1, <4>2, UnusedStep
      <4>4. QED
        BY <4>1, <4>3 DEF Unused
    <3>3. QED
      BY <3>2
  <2>3. QED
    BY <2>1, <2>2, WriterStep DEF Active
<1>4. pc' \in Active => txn'.label \notin undone' /\ txn'.label <= label'
  <2>1. CASE StartTransaction /\ label' = label + 1 /\ txn'.label = label + 1 /\ pc' = "begin"
    <3>1. txn'.label \in Labels /\ txn'.label > label /\ undone' = undone
      BY <1>t, <2>1 DEF Active, StartTransaction
    <3>2. QED
      BY <1>t, <1>i, <2>1, <3>1
  <2>2. CASE label' = label /\ (pc' \in Active => pc \in Active /\ txn'.label = txn.label
                                                  /\ undone' = undone)
    BY <1>i, <2>2
  <2>3. QED
    BY <2>1, <2>2, WriterStep
<1>5. pc' = "recovered" => rec' = NoRec /\ \A c \in Chunk : ~InLog(file', c)
  <2>1. SUFFICES ASSUME pc' = "recovered"
                 PROVE  rec' = NoRec /\ \A c \in Chunk : ~InLog(file', c)
    OBVIOUS
  <2>2. CASE RecoverReset
    <3>1. rec' = NoRec /\ \A i \in Log : file'[i] = << >>
      BY <2>2 DEF RecoverReset
    <3>2. QED
      BY <3>1 DEF InLog, InFile
  <2>3. CASE pc = "recovered" /\ rec' = rec
    <3>1. ASSUME NEW c \in Chunk, InLog(file', c) PROVE FALSE
      <4>1. PICK i \in Log : InFile(file', i, c)
        BY <3>1 DEF InLog
      <4>2. ~InFile(file, i, c)
        BY <1>i, <2>3 DEF InLog
      <4>3. pc \in Active
        BY <4>1, <4>2, FileStep
      <4>4. QED
        BY <2>3, <4>3 DEF Active
    <3>2. QED
      BY <1>i, <2>3, <3>1
  <2>4. QED
    BY <2>1, <2>2, <2>3 DEF Next, StartTransaction, WalBegin, Write, WalPrepare, DbPrepare,
       CommitPrepare, WalCommit, DbCommit, Rollback, TaskFlush, TaskChoose, TaskTruncate,
       Crash, Loss, Die, RecoverParse, ReplayTxn, ReplayDangling, ReplayFails, RecoverFlush,
       CommitRecovered, RollbackRecovered, vars
(* The labels rolled back by the step itself. *)
<1>6. ASSUME NEW l \in undone', l \notin undone
      PROVE  Unused(l)' /\ l <= label
  <2>1. CASE RollbackRecovered
    <3>1. /\ pc = "recovered" /\ mem' = RolledBackImage(mem) /\ disk' = mem'
          /\ undone' = undone \cup (mem.prepared \ mem.applied)
          /\ file' = file /\ rec' = rec
      BY <2>1 DEF RollbackRecovered, log
    <3>2. mem \in Image
      BY DEF TypeInv, TypeOK
    <3>3. l \in mem.prepared /\ l \notin mem.applied /\ l \in Labels
      BY <1>6, <3>1, <3>2 DEF Image
    <3>4. mem'.applied = mem.applied /\ mem'.prepared = {}
      BY <3>1, <3>2, RolledBackFields
    <3>5. rec'.txns \cup rec'.doubt = {} /\ \A c \in Chunk : ~InLog(file', c)
      BY <1>i, <3>1 DEF NoRec
    <3>6. Unused(l)'
      BY <3>1, <3>3, <3>4, <3>5 DEF Unused
    <3>7. ~Unused(l)
      BY <3>3 DEF Unused
    <3>8. QED
      BY <1>t, <1>i, <3>3, <3>6, <3>7
  <2>2. CASE ~RollbackRecovered
    <3>1. Rollback /\ l \in Written
      BY <1>6, <2>2, UndoneGrows
    <3>2. pc = "open" /\ pc' = "idle" /\ l = txn.label
      BY <3>1 DEF Rollback, Written
    <3>3. l \in Labels /\ Unused(l) /\ l <= label /\ ~Writing
      BY <1>t, <1>i, <3>2 DEF Active, Writing
    <3>4. QED
      BY <3>3, UnusedStep
  <2>3. QED
    BY <2>1, <2>2
<1>7. \A l \in undone' : Unused(l)'
  BY <1>1, <1>6
<1>8. \A l \in Labels : l > label' => Unused(l)' /\ l \notin undone'
  <2>1. label' = label \/ label' = label + 1
    BY WriterStep
  <2>2. \A l \in Labels : l > label' => l > label
    BY <1>t, <2>1
  <2>3. QED
    BY <1>t, <1>i, <1>2, <1>6, <2>2
<1>9. QED
  BY <1>3, <1>4, <1>5, <1>7, <1>8 DEF UndoneInv

(* Unless a prepared transaction is rolled back while the log or the        *)
(* flushed image still holds it, what was rolled back never comes back,     *)
(* whatever the schedule of the flush tasks, the crashes and the losses.    *)
THEOREM UndoneTheorem == ASSUME NoUndo PROVE Spec => []RolledBackStaysOut
<1>1. UndoneInv => RolledBackStaysOut
  BY DEF UndoneInv, Unused, RolledBackStaysOut
<1>2. QED
  BY <1>1, NoUndo, UndoneInit, UndoneStep, TypeTheorem, PTL DEF Spec

-----------------------------------------------------------------------------
(* Durability *)

OnlyCrashes == Enabled \subseteq {"crash", "loss"}

(* A COMMIT of file i, of one of the files. *)
CommitIn(f, i, c) == c.op = "commit" /\ InFile(f, i, c)
Commit(f, c) == \E i \in Log : CommitIn(f, i, c)
Same(f, g) == \A i \in Log, c \in Chunk : CommitIn(g, i, c) <=> CommitIn(f, i, c)

(* An image from which the log restores what was logged: what it lacks has  *)
(* a COMMIT, a COMMIT that is not newer is in it, and if it has a prepared  *)
(* transaction then there is nothing to restore.                            *)
Restores(m, done, f) ==
    \A l \in done : l \in m.applied \/ \E c \in Chunk : Commit(f, c) /\ c.label = l
Older(m, f) == \A c \in Chunk : Commit(f, c) /\ c.id <= m.read => c.label \in m.applied
HasAll(m, f) == \A c \in Chunk : Commit(f, c) => c.label \in m.applied
Good(m, done, f) == Restores(m, done, f) /\ Older(m, f) /\ (m.prep => HasAll(m, f))

(* Every COMMIT is synced, no two have the same id, and last_commit bounds  *)
(* those of its file.                                                       *)
SyncedCommits(f, s) ==
    \A i \in Log : \A j \in 1 .. Len(f[i]) : f[i][j].op = "commit" => j <= s[i]
UniqueIds(f) ==
    \A c, d \in Chunk : Commit(f, c) /\ Commit(f, d) /\ c.id = d.id => c = d
Bounded(f, w) ==
    \A i \in Log, c \in Chunk : CommitIn(f, i, c) => c.id <= w.last_commit[i]
LogInv == SyncedCommits(file, synced) /\ UniqueIds(file) /\ Bounded(file, wal)

Up == {"idle", "begin", "open", "promised", "durable"}

(* While the database is open, memory is ahead of the flushed image and     *)
(* holds everything logged, but for the transaction that is being committed. *)
WriterInv ==
    /\ pc \notin {"logged", "prepared"}
    /\ pc \in Up => ~mem.prep /\ ~disk.prep /\ disk.read <= mem.read
    /\ pc \in Up /\ pc # "durable" => logged \subseteq mem.applied
    /\ pc = "durable" => logged \subseteq mem.applied \cup Written
    /\ pc \in Active => txn.id = mem.read + 1
    /\ pc \in {"open", "promised", "durable"} => wal.last_commit[wal.active_log] = txn.id
    /\ pc \in Up => \A c \in Chunk : Commit(file, c) =>
          \/ c.id <= mem.read
          \/ pc = "durable" /\ txn.wrote /\ c = Own("commit")

(* The task knows of transactions that are committed; once it has flushed   *)
(* they are in the flushed image, and it empties a file with no others.     *)
PoolInv ==
    /\ pc \notin Up => tasks = {} /\ worker = NoTask
    /\ \A id \in tasks : id <= mem.read \/ (pc = "durable" /\ id = txn.id)
    /\ worker.pc # "idle" => worker.id <= disk.read
    /\ worker.pc = "chosen" =>
          \A c \in Chunk : CommitIn(file, worker.idx, c) => c.id <= worker.id

PrepareOf(c) == [op |-> "prepare", id |-> c.id, label |-> c.label]
CommitOf(t) == [op |-> "commit", id |-> t.id, label |-> t.label]

(* During the recovery a COMMIT is replayed already or to be replayed. *)
RecoveryInv ==
    /\ pc = "replaying" =>
          /\ \A c \in Chunk : Commit(file, c) =>
                c.label \in mem.applied \/ PrepareOf(c) \in rec.txns
          /\ \A t \in rec.txns : t.op = "prepare" /\ Commit(file, CommitOf(t)) /\ t.id > mem.read
    /\ pc \in {"flushed", "recovered"} => disk = mem
    /\ pc = "flushed" => HasAll(mem, file)
    /\ pc = "recovered" =>
          mem.prep /\ logged \subseteq mem.applied /\ \A c \in Chunk : ~Commit(file, c)

DurableInv ==
    /\ Good(mem, logged, file) /\ Good(disk, logged, file)
    /\ LogInv /\ WriterInv /\ PoolInv /\ RecoveryInv

Known == TypeInv /\ TogetherInv /\ PledgeInv

-----------------------------------------------------------------------------
(* The COMMITs *)

(* Equal files hold the same COMMITs. *)
LEMMA SameCommits ==
    ASSUME NEW f, NEW g, Same(f, g)
    PROVE  /\ \A c \in Chunk : Commit(g, c) <=> Commit(f, c)
           /\ \A m, done : Good(m, done, f) => Good(m, done, g)
           /\ UniqueIds(f) => UniqueIds(g)
           /\ \A w : Bounded(f, w) => Bounded(g, w)
           /\ \A m : HasAll(m, f) => HasAll(m, g)
<1>1. \A c \in Chunk : Commit(g, c) <=> Commit(f, c)
  BY DEF Same, Commit
<1>2. \A m : HasAll(m, f) => HasAll(m, g)
  BY <1>1 DEF HasAll
<1>3. \A m, done : Good(m, done, f) => Good(m, done, g)
  BY <1>1, <1>2 DEF Good, Restores, Older
<1>4. UniqueIds(f) => UniqueIds(g)
  BY <1>1 DEF UniqueIds
<1>5. \A w : Bounded(f, w) => Bounded(g, w)
  BY DEF Bounded, Same
<1>6. QED
  BY <1>1, <1>2, <1>3, <1>4, <1>5

(* An image with the same committed state. *)
LEMMA GoodLike ==
    ASSUME NEW m, NEW n, NEW done, NEW f, Good(m, done, f),
           n.read = m.read, n.applied = m.applied, n.prep => m.prep
    PROVE  Good(n, done, f)
  BY DEF Good, Restores, Older, HasAll

(* Empty files hold none. *)
LEMMA NoCommits ==
    ASSUME NEW f, \A i \in Log : f[i] = << >>
    PROVE  /\ \A i \in Log, c \in Chunk : ~CommitIn(f, i, c)
           /\ \A c \in Chunk : ~Commit(f, c)
  BY DEF CommitIn, InFile, Commit

(* Only a commit() adds a COMMIT, only the flush task and the end of the    *)
(* recovery remove some: what a loss cuts off is not synced.                *)
LEMMA CommitsStep ==
    ASSUME TypeInv, TypeInv', SyncedCommits(file, synced), [Next]_vars
    PROVE  \/ Same(file, file')
           \/ /\ WalCommit /\ txn.wrote
              /\ GrewBy(file, file', wal.active_log, Own("commit"))
           \/ TaskTruncate
           \/ RecoverReset
<1>f. file \in [Log -> Seq(Chunk)] /\ wal.active_log \in Log
  BY DEF TypeInv, TypeOK
<1>o. pc \in Active => Own("prepare") \in Chunk /\ Own("commit") \in Chunk
  BY OwnTypes
<1>e. file' = file => Same(file, file')
  BY DEF Same
<1>1. CASE WalPrepare \/ CommitPrepare
  <2>1. CASE txn.wrote
    <3>1. /\ pc \in Active
          /\ file' = [file EXCEPT ![wal.active_log] = Append(@, Own("prepare"))]
      BY <1>1, <2>1 DEF WalPrepare, CommitPrepare, Append1, Own, Active
    <3>2. Own("prepare") \in Chunk
      BY <1>o, <3>1
    <3>3. GrewBy(file, file', wal.active_log, Own("prepare"))
      BY <1>f, <3>1, <3>2, AppendedChunks
    <3>4. Own("prepare").op # "commit"
      BY DEF Own
    <3>5. Same(file, file')
      BY <3>3, <3>4 DEF Same, CommitIn, GrewBy
    <3>6. QED
      BY <3>5
  <2>2. CASE ~txn.wrote
    BY <1>1, <1>e, <2>2 DEF WalPrepare, CommitPrepare
  <2>3. QED
    BY <2>1, <2>2
<1>2. CASE WalCommit
  <2>1. CASE txn.wrote
    <3>1. /\ pc \in Active
          /\ file' = [file EXCEPT ![wal.active_log] = Append(@, Own("commit"))]
      BY <1>2, <2>1 DEF WalCommit, Append1, Own, Active
    <3>2. Own("commit") \in Chunk
      BY <1>o, <3>1
    <3>3. GrewBy(file, file', wal.active_log, Own("commit"))
      BY <1>f, <3>1, <3>2, AppendedChunks
    <3>4. QED
      BY <1>2, <2>1, <3>3
  <2>2. CASE ~txn.wrote
    BY <1>2, <1>e, <2>2 DEF WalCommit
  <2>3. QED
    BY <2>1, <2>2
<1>3. CASE Loss
  <2>1. PICK keep \in [Log -> 0 .. 2 * MaxLabel] :
            /\ \A k \in Log : synced[k] <= keep[k] /\ keep[k] <= Len(file[k])
            /\ file' = [k \in Log |-> SubSeq(file[k], 1, keep[k])]
    BY <1>3 DEF Loss
  <2>2. ASSUME NEW i \in Log, NEW c \in Chunk
        PROVE  CommitIn(file', i, c) <=> CommitIn(file, i, c)
    <3>1. /\ keep[i] \in Nat /\ keep[i] <= Len(file[i]) /\ Len(file[i]) \in Nat
          /\ synced[i] \in Nat /\ synced[i] <= keep[i] /\ file[i] \in Seq(Chunk)
      BY <1>f, <2>1, WalAssumption DEF TypeInv, TypeOK
    <3>2. /\ Len(file'[i]) = keep[i]
          /\ \A j \in 1 .. keep[i] : file'[i][j] = file[i][j]
      BY <1>f, <2>1, <3>1, Prefix
    <3>3. ASSUME CommitIn(file', i, c) PROVE CommitIn(file, i, c)
      <4>1. 1 .. keep[i] \subseteq 1 .. Len(file[i])
        BY <3>1
      <4>2. QED
        BY <3>2, <3>3, <4>1 DEF CommitIn, InFile
    <3>4. ASSUME CommitIn(file, i, c) PROVE CommitIn(file', i, c)
      <4>1. PICK j \in 1 .. Len(file[i]) : c = file[i][j] /\ file[i][j].op = "commit"
        BY <3>4 DEF CommitIn, InFile
      <4>2. j <= synced[i]
        BY <4>1 DEF SyncedCommits
      <4>3. j \in 1 .. keep[i]
        BY <3>1, <4>2
      <4>4. QED
        BY <3>2, <3>4, <4>1, <4>3 DEF CommitIn, InFile
    <3>5. QED
      BY <3>3, <3>4
  <2>3. QED
    BY <2>2 DEF Same
<1>4. QED
  BY <1>e, <1>1, <1>2, <1>3 DEF Next, StartTransaction, WalBegin, Write,
     DbPrepare, DbCommit, Rollback, TaskFlush, TaskChoose, Crash, RecoverParse, ReplayTxn,
     ReplayDangling, ReplayFails, RecoverFlush, CommitRecovered, RollbackRecovered,
     log, vars

(* wal_parse() returns the transactions with a COMMIT: no COMMIT is stray.  *)
LEMMA ParseComplete ==
    ASSUME TypeInv, ChunksTogether
    PROVE  /\ \A c \in Chunk : Commit(file, c) => PrepareOf(c) \in Replayable
           /\ \A t \in Replayable : t.op = "prepare" /\ Commit(file, CommitOf(t))
<1>f. file \in [Log -> Seq(Chunk)]
  BY DEF TypeInv, TypeOK
<1>l. Log = {0, 1}
  BY DEF Log
<1>1. ASSUME NEW i \in Log, NEW j \in 1 .. Len(file[i]), file[i][j].op = "commit"
      PROVE  /\ j > 1 /\ j - 1 \in 1 .. Len(file[i])
             /\ file[i][j - 1] = PrepareOf(file[i][j]) /\ ~Stray(file[i], j)
             /\ file[i][j] \in Chunk
  <2>1. Len(file[i]) \in Nat /\ file[i][j] \in Chunk
    BY <1>f
  <2>2. j > 1 /\ file[i][j - 1] = [file[i][j] EXCEPT !.op = "prepare"]
    BY <1>1 DEF ChunksTogether
  <2>3. file[i][j - 1] = PrepareOf(file[i][j])
    BY <2>1, <2>2 DEF PrepareOf, Chunk
  <2>4. file[i][j - 1].op = "prepare" /\ j # 1
    BY <2>2, <2>3 DEF PrepareOf
  <2>5. ~Stray(file[i], j)
    BY <2>4 DEF Stray
  <2>6. QED
    BY <2>1, <2>2, <2>3, <2>5
<1>2. ASSUME NEW i \in Log PROVE Readable(file[i]) = 1 .. Len(file[i])
  <2>1. \A j \in 1 .. Len(file[i]) : ~Stray(file[i], j)
    BY <1>1 DEF Stray
  <2>2. \A j \in 1 .. Len(file[i]) : 1 .. j \subseteq 1 .. Len(file[i])
    BY <1>f
  <2>3. QED
    BY <2>1, <2>2 DEF Readable
<1>3. ASSUME NEW c \in Chunk, Commit(file, c) PROVE PrepareOf(c) \in Replayable
  <2>1. PICK i \in Log : c.op = "commit" /\ \E j \in 1 .. Len(file[i]) : c = file[i][j]
    BY <1>3 DEF Commit, CommitIn, InFile
  <2>2. PICK j \in 1 .. Len(file[i]) : c = file[i][j]
    BY <2>1
  <2>3. j > 1 /\ j - 1 \in 1 .. Len(file[i]) /\ file[i][j - 1] = PrepareOf(c)
    BY <1>1, <2>1, <2>2
  <2>4. Len(file[i]) \in Nat /\ j \in Nat
    BY <1>f
  <2>5. j - 1 < Len(file[i]) /\ (j - 1) + 1 = j
    BY <2>3, <2>4
  <2>6. file[i][j - 1].op = "prepare" /\ file[i][(j - 1) + 1].op = "commit"
    BY <2>1, <2>2, <2>3, <2>5 DEF PrepareOf
  <2>7. PrepareOf(c) \in Complete(file[i])
    BY <1>2, <2>3, <2>5, <2>6 DEF Complete
  <2>8. QED
    BY <1>l, <2>7 DEF Replayable
<1>4. ASSUME NEW t \in Replayable PROVE t.op = "prepare" /\ Commit(file, CommitOf(t))
  <2>1. PICK i \in Log : t \in Complete(file[i])
    BY <1>l DEF Replayable
  <2>2. PICK j \in 1 .. Len(file[i]) :
            t = file[i][j] /\ j < Len(file[i]) /\ t.op = "prepare" /\ file[i][j + 1].op = "commit"
    BY <1>2, <2>1 DEF Complete
  <2>3. Len(file[i]) \in Nat /\ j \in Nat
    BY <1>f
  <2>4. j + 1 \in 1 .. Len(file[i]) /\ (j + 1) - 1 = j
    BY <2>2, <2>3
  <2>5. t = PrepareOf(file[i][j + 1]) /\ file[i][j + 1] \in Chunk
    BY <1>1, <2>2, <2>4
  <2>6. CommitOf(t) = file[i][j + 1]
    BY <2>2, <2>5 DEF PrepareOf, CommitOf, Chunk
  <2>7. QED
    BY <2>2, <2>4, <2>6 DEF Commit, CommitIn, InFile
<1>5. QED
  BY <1>3, <1>4

-----------------------------------------------------------------------------
(* DurableInv, one part after the other *)

(* A fresh database lacks nothing. *)
LEMMA DurableInit == Init => DurableInv
<1> SUFFICES ASSUME Init PROVE DurableInv
  OBVIOUS
<1>1. \A i \in Log : file[i] = << >>
  BY DEF Init
<1>2. /\ \A i \in Log, c \in Chunk : ~CommitIn(file, i, c)
      /\ \A c \in Chunk : ~Commit(file, c)
  BY <1>1, NoCommits
<1>3. Good(mem, logged, file) /\ Good(disk, logged, file)
  BY <1>2 DEF Init, Good, Restores, Older, HasAll
<1>4. LogInv
  BY <1>1, <1>2 DEF LogInv, SyncedCommits, UniqueIds, Bounded
<1>5. WriterInv
  BY <1>2 DEF Init, Fresh, WriterInv, Active
<1>6. PoolInv /\ RecoveryInv
  BY DEF Init, NoTask, PoolInv, RecoveryInv, Up
<1>7. QED
  BY <1>3, <1>4, <1>5, <1>6 DEF DurableInv

(* The numbers that the steps compare. *)
LEMMA NumberTypes ==
    ASSUME TypeInv
    PROVE  /\ mem \in Image /\ disk \in Image
           /\ mem.read \in Nat /\ disk.read \in Nat /\ txn.id \in Nat
           /\ worker.id \in Nat /\ worker.idx \in Log
           /\ wal.active_log \in Log /\ \A i \in Log : wal.last_commit[i] \in Nat
           /\ \A id \in tasks : id \in Nat
           /\ \A c \in Chunk : c.id \in Nat /\ c.label \in Labels
           /\ rec.txns \subseteq Chunk
<1>1. mem \in Image /\ disk \in Image
  BY DEF TypeInv, TypeOK
<1>2. mem.read \in Nat /\ disk.read \in Nat
  BY <1>1 DEF Image, Tid
<1>3. wal.active_log \in Log /\ \A i \in Log : wal.last_commit[i] \in Nat
  BY DEF TypeInv, TypeOK, Tid
<1>4. txn.id \in Nat /\ worker.id \in Nat /\ worker.idx \in Log /\ \A id \in tasks : id \in Nat
  BY DEF TypeInv, TypeOK, Tid
<1>5. \A c \in Chunk : c.id \in Nat /\ c.label \in Labels
  BY DEF Chunk, Tid
<1>6. rec.txns \subseteq Chunk
  BY DEF TypeInv, TypeOK
<1>7. QED
  BY <1>1, <1>2, <1>3, <1>4, <1>5, <1>6

(* Without two-phase commits the steps of WalPrepare and DbPrepare are out. *)
LEMMA NoTwoPhase ==
    ASSUME OnlyCrashes, WriterInv
    PROVE  ~WalPrepare /\ ~DbPrepare
  BY DEF OnlyCrashes, WriterInv, WalPrepare, DbPrepare

(* Every step keeps the numbers of the log files right. *)
LEMMA LogStep ==
    ASSUME OnlyCrashes, Known, TypeInv', DurableInv, [Next]_vars
    PROVE  LogInv'
<1>k. TypeInv /\ LogInv /\ WriterInv
  BY DEF Known, DurableInv
<1>n. /\ mem.read \in Nat /\ txn.id \in Nat /\ wal.active_log \in Log
      /\ \A i \in Log : wal.last_commit[i] \in Nat
      /\ \A c \in Chunk : c.id \in Nat
  BY <1>k, NumberTypes
<1>f. file \in [Log -> Seq(Chunk)] /\ file' \in [Log -> Seq(Chunk)] /\ synced \in [Log -> Nat]
  BY <1>k DEF TypeInv, TypeOK
<1>o. pc \in Active => Own("prepare") \in Chunk /\ Own("commit") \in Chunk
  BY <1>k, OwnTypes
<1>c. \/ Same(file, file')
      \/ /\ WalCommit /\ txn.wrote
         /\ GrewBy(file, file', wal.active_log, Own("commit"))
      \/ TaskTruncate
      \/ RecoverReset
  BY <1>k, CommitsStep DEF LogInv
<1>1. SyncedCommits(file', synced')
  <2>1. CASE CommitPrepare
    <3>1. CASE txn.wrote
      <4>1. /\ pc \in Active /\ synced' = synced
            /\ file' = [file EXCEPT ![wal.active_log] = Append(@, Own("prepare"))]
        BY <2>1, <3>1 DEF CommitPrepare, Append1, Own, Active
      <4>2. Own("prepare") \in Chunk
        BY <1>o, <4>1
      <4>3. /\ \A i \in Log : i # wal.active_log => file'[i] = file[i]
            /\ Len(file[wal.active_log]) \in Nat
            /\ Len(file'[wal.active_log]) = Len(file[wal.active_log]) + 1
            /\ \A j \in 1 .. Len(file[wal.active_log]) :
                   file'[wal.active_log][j] = file[wal.active_log][j]
            /\ file'[wal.active_log][Len(file[wal.active_log]) + 1] = Own("prepare")
        BY <1>f, <1>n, <4>1, <4>2, AppendedFile
      <4>4. Own("prepare").op # "commit"
        BY DEF Own
      <4>5. ASSUME NEW i \in Log, NEW j \in 1 .. Len(file'[i]), file'[i][j].op = "commit"
            PROVE  j <= synced[i]
        <5>1. CASE i # wal.active_log
          BY <1>k, <4>3, <4>5, <5>1 DEF LogInv, SyncedCommits
        <5>2. CASE i = wal.active_log
          <6>1. j # Len(file[i]) + 1
            BY <4>3, <4>4, <4>5, <5>2
          <6>2. j \in 1 .. Len(file[i])
            BY <4>3, <5>2, <6>1
          <6>3. QED
            BY <1>k, <4>3, <4>5, <5>2, <6>2 DEF LogInv, SyncedCommits
        <5>3. QED
          BY <5>1, <5>2
      <4>6. QED
        BY <4>1, <4>5 DEF SyncedCommits
    <3>2. CASE ~txn.wrote
      BY <1>k, <2>1, <3>2 DEF CommitPrepare, LogInv, SyncedCommits
    <3>3. QED
      BY <3>1, <3>2
  <2>2. CASE WalCommit
    <3>1. CASE txn.wrote
      <4>1. /\ file' = [file EXCEPT ![wal.active_log] = Append(@, Own("commit"))]
            /\ synced' = [synced EXCEPT ![wal.active_log] = Len(file'[wal.active_log])]
        BY <2>2, <3>1 DEF WalCommit, Append1, Sync, Own
      <4>2. /\ \A i \in Log : i # wal.active_log => file'[i] = file[i] /\ synced'[i] = synced[i]
            /\ synced'[wal.active_log] = Len(file'[wal.active_log])
        BY <1>f, <1>n, <4>1
      <4>3. Len(file'[wal.active_log]) \in Nat
        BY <1>f, <1>n
      <4>4. ASSUME NEW i \in Log, NEW j \in 1 .. Len(file'[i]), file'[i][j].op = "commit"
            PROVE  j <= synced'[i]
        <5>1. CASE i # wal.active_log
          BY <1>k, <4>2, <4>4, <5>1 DEF LogInv, SyncedCommits
        <5>2. CASE i = wal.active_log
          BY <4>2, <4>3, <5>2
        <5>3. QED
          BY <5>1, <5>2
      <4>5. QED
        BY <4>4 DEF SyncedCommits
    <3>2. CASE ~txn.wrote
      BY <1>k, <2>2, <3>2 DEF WalCommit, LogInv, SyncedCommits
    <3>3. QED
      BY <3>1, <3>2
  <2>3. CASE TaskTruncate
    <3>1. /\ file' = [file EXCEPT ![worker.idx] = << >>]
          /\ synced' = [synced EXCEPT ![worker.idx] = 0]
      BY <2>3 DEF TaskTruncate
    <3>2. ASSUME NEW i \in Log, NEW j \in 1 .. Len(file'[i]), file'[i][j].op = "commit"
          PROVE  j <= synced'[i]
      <4>1. CASE i = worker.idx
        <5>1. file'[i] = << >>
          BY <1>f, <3>1, <4>1
        <5>2. QED
          BY <5>1
      <4>2. CASE i # worker.idx
        <5>1. file'[i] = file[i] /\ synced'[i] = synced[i]
          BY <1>f, <3>1, <4>2
        <5>2. QED
          BY <1>k, <3>2, <5>1 DEF LogInv, SyncedCommits
      <4>3. QED
        BY <4>1, <4>2
    <3>3. QED
      BY <3>2 DEF SyncedCommits
  <2>4. CASE Loss
    <3>1. PICK keep \in [Log -> 0 .. 2 * MaxLabel] :
              /\ \A k \in Log : synced[k] <= keep[k] /\ keep[k] <= Len(file[k])
              /\ file' = [k \in Log |-> SubSeq(file[k], 1, keep[k])]
              /\ synced' = keep
      BY <2>4 DEF Loss
    <3>2. \A i \in Log : keep[i] \in Nat /\ keep[i] <= Len(file[i])
      BY <3>1, WalAssumption
    <3>3. \A i \in Log : Len(file'[i]) = synced'[i]
      BY <1>f, <3>1, <3>2, Prefix
    <3>4. \A i \in Log : synced'[i] \in Nat
      BY <3>1, <3>2
    <3>5. QED
      BY <3>3, <3>4 DEF SyncedCommits
  <2>5. CASE RecoverReset
    BY <2>5 DEF RecoverReset, SyncedCommits
  <2>6. (file' = file /\ synced' = synced)
        \/ CommitPrepare \/ WalCommit \/ TaskTruncate \/ Loss \/ RecoverReset
    BY <1>k, NoTwoPhase DEF Next, StartTransaction, WalBegin, Write, DbCommit, Rollback,
       TaskFlush, TaskChoose, Crash, RecoverParse, ReplayTxn, ReplayDangling, ReplayFails,
       RecoverFlush, CommitRecovered, RollbackRecovered, log, vars
  <2>7. QED
    BY <1>k, <2>1, <2>2, <2>3, <2>4, <2>5, <2>6 DEF LogInv
<1>2. CASE WalCommit /\ txn.wrote /\ GrewBy(file, file', wal.active_log, Own("commit"))
  <2>1. pc = "promised" /\ pc \in Up /\ pc \in Active /\ wal' = wal
    BY <1>k, <1>2 DEF WalCommit, WriterInv, Up, Active
  <2>2. /\ txn.id = mem.read + 1 /\ wal.last_commit[wal.active_log] = txn.id
        /\ \A c \in Chunk : Commit(file, c) => c.id <= mem.read
    BY <1>k, <2>1 DEF WriterInv
  <2>3. \A i \in Log, c \in Chunk :
            CommitIn(file', i, c) => CommitIn(file, i, c) \/ (c = Own("commit") /\ i = wal.active_log)
    BY <1>2 DEF GrewBy, CommitIn
  <2>4. \A c \in Chunk : Commit(file', c) => Commit(file, c) \/ c = Own("commit")
    BY <2>3 DEF Commit
  <2>5. Own("commit").id = txn.id
    BY DEF Own
  <2>6. UniqueIds(file')
    <3>1. \A c \in Chunk : Commit(file, c) => c.id # txn.id
      BY <1>n, <2>2
    <3>2. ASSUME NEW c \in Chunk, NEW d \in Chunk, Commit(file', c), Commit(file', d), c.id = d.id
          PROVE  c = d
      <4>1. CASE Commit(file, c) /\ Commit(file, d)
        BY <1>k, <3>2, <4>1 DEF LogInv, UniqueIds
      <4>2. CASE ~(Commit(file, c) /\ Commit(file, d))
        BY <2>4, <2>5, <3>1, <3>2, <4>2
      <4>3. QED
        BY <4>1, <4>2
    <3>3. QED
      BY <3>2 DEF UniqueIds
  <2>7. Bounded(file', wal')
    BY <1>k, <1>n, <2>1, <2>2, <2>3, <2>5 DEF LogInv, Bounded
  <2>8. QED
    BY <1>1, <2>6, <2>7 DEF LogInv
<1>3. CASE TaskTruncate
  <2>1. file' = [file EXCEPT ![worker.idx] = << >>]
    BY <1>3 DEF TaskTruncate
  <2>2. \A i \in Log : /\ i = worker.idx => file'[i] = << >>
                       /\ i # worker.idx => file'[i] = file[i]
    BY <1>f, <2>1
  <2>3. \A i \in Log, c \in Chunk : CommitIn(file', i, c) => CommitIn(file, i, c) /\ i # worker.idx
    BY <2>2 DEF CommitIn, InFile
  <2>4. \A c \in Chunk : Commit(file', c) => Commit(file, c)
    BY <2>3 DEF Commit
  <2>5. \A i \in Log : i # worker.idx => wal'.last_commit[i] = wal.last_commit[i]
    <3>1. wal \in [next_log : Log, active_log : Log, last_commit : [Log -> Tid]]
      BY <1>k DEF TypeInv, TypeOK
    <3>2. wal' = [wal EXCEPT !.last_commit[worker.idx] = 0, !.next_log = worker.idx]
      BY <1>3 DEF TaskTruncate
    <3>3. QED
      BY <3>1, <3>2
  <2>6. QED
    BY <1>k, <1>1, <2>3, <2>4, <2>5 DEF LogInv, UniqueIds, Bounded
<1>4. CASE RecoverReset
  <2>1. \A i \in Log : file'[i] = << >>
    BY <1>4 DEF RecoverReset
  <2>2. /\ \A i \in Log, c \in Chunk : ~CommitIn(file', i, c)
        /\ \A c \in Chunk : ~Commit(file', c)
    BY <2>1, NoCommits
  <2>3. QED
    BY <1>1, <2>2 DEF LogInv, UniqueIds, Bounded
<1>5. CASE Same(file, file')
  <2>1. UniqueIds(file')
    BY <1>k, <1>5, SameCommits DEF LogInv
  <2>2. Bounded(file', wal')
    <3>1. CASE WalBegin
      <4>1. wal' = [wal EXCEPT !.last_commit[txn.idx] = txn.id, !.active_log = txn.idx]
            /\ pc = "begin" /\ file' = file
        BY <3>1 DEF WalBegin
      <4>2. /\ txn.id = mem.read + 1
            /\ \A c \in Chunk : Commit(file, c) => c.id <= mem.read
        BY <1>k, <4>1 DEF WriterInv, Up, Active
      <4>3. /\ wal \in [next_log : Log, active_log : Log, last_commit : [Log -> Tid]]
            /\ txn.idx \in Log
        BY <1>k DEF TypeInv, TypeOK
      <4>4. \A i \in Log : wal'.last_commit[i] = IF i = txn.idx THEN txn.id ELSE wal.last_commit[i]
        BY <4>1, <4>3
      <4>5. \A i \in Log, c \in Chunk : CommitIn(file, i, c) => c.id <= txn.id
        BY <1>n, <4>2 DEF Commit
      <4>6. QED
        BY <1>k, <4>1, <4>4, <4>5 DEF LogInv, Bounded
    <3>2. CASE wal' = wal
      BY <1>k, <1>5, <3>2, SameCommits DEF LogInv
    <3>3. WalBegin \/ TaskTruncate \/ RecoverReset \/ wal' = wal
      BY DEF Next, StartTransaction, Write, WalPrepare, DbPrepare, CommitPrepare, WalCommit,
         DbCommit, Rollback, TaskFlush, TaskChoose, Crash, Loss, Die, RecoverParse, ReplayTxn,
         ReplayDangling, ReplayFails, RecoverFlush, CommitRecovered, RollbackRecovered,
         log, vars
    <3>4. QED
      BY <1>3, <1>4, <3>1, <3>2, <3>3 DEF LogInv
  <2>3. QED
    BY <1>1, <2>1, <2>2 DEF LogInv
<1>6. QED
  BY <1>c, <1>2, <1>3, <1>4, <1>5

(* What the flush task removes is in the flushed image, and so in memory. *)
LEMMA TruncateGood ==
    ASSUME Known, DurableInv, TaskTruncate
    PROVE  /\ Good(mem, logged, file') /\ Good(disk, logged, file')
           /\ \A c \in Chunk : Commit(file', c) => Commit(file, c)
<1>k. TypeInv /\ WriterInv /\ PoolInv /\ Good(mem, logged, file) /\ Good(disk, logged, file)
  BY DEF Known, DurableInv
<1>n. /\ mem.read \in Nat /\ disk.read \in Nat /\ worker.id \in Nat
      /\ \A c \in Chunk : c.id \in Nat
  BY <1>k, NumberTypes
<1>f. file \in [Log -> Seq(Chunk)]
  BY <1>k DEF TypeInv, TypeOK
<1>1. /\ worker.pc = "chosen" /\ worker # NoTask
      /\ file' = [file EXCEPT ![worker.idx] = << >>]
  BY DEF TaskTruncate, NoTask
<1>2. pc \in Up /\ disk.read <= mem.read /\ worker.id <= disk.read
  BY <1>k, <1>1 DEF PoolInv, WriterInv
<1>3. \A c \in Chunk : CommitIn(file, worker.idx, c) => c.id <= worker.id
  BY <1>k, <1>1 DEF PoolInv
<1>4. \A i \in Log : /\ i = worker.idx => file'[i] = << >>
                     /\ i # worker.idx => file'[i] = file[i]
  BY <1>f, <1>1
<1>5. \A i \in Log, c \in Chunk : CommitIn(file', i, c) => CommitIn(file, i, c)
  BY <1>4 DEF CommitIn, InFile
<1>6. \A i \in Log, c \in Chunk : i # worker.idx /\ CommitIn(file, i, c) => CommitIn(file', i, c)
  BY <1>4 DEF CommitIn, InFile
<1>7. \A c \in Chunk : Commit(file', c) => Commit(file, c)
  BY <1>5 DEF Commit
<1>8. \A c \in Chunk : Commit(file, c) => Commit(file', c) \/ (c.id <= disk.read /\ c.id <= mem.read)
  <2>1. ASSUME NEW c \in Chunk, NEW i \in Log, CommitIn(file, i, c)
        PROVE  Commit(file', c) \/ (c.id <= disk.read /\ c.id <= mem.read)
    <3>1. CASE i = worker.idx
      BY <1>n, <1>2, <1>3, <2>1, <3>1
    <3>2. CASE i # worker.idx
      BY <1>6, <2>1, <3>2 DEF Commit
    <3>3. QED
      BY <3>1, <3>2
  <2>2. QED
    BY <2>1 DEF Commit
<1>9. ASSUME NEW m \in {mem, disk} PROVE Good(m, logged, file')
  <2>1. Good(m, logged, file)
    BY <1>k
  <2>2. Restores(m, logged, file')
    <3>1. \A c \in Chunk : Commit(file, c) => Commit(file', c) \/ c.label \in m.applied
      BY <1>8, <2>1 DEF Good, Older
    <3>2. QED
      BY <2>1, <3>1 DEF Good, Restores
  <2>3. Older(m, file') /\ (m.prep => HasAll(m, file'))
    BY <1>7, <2>1 DEF Good, Older, HasAll
  <2>4. QED
    BY <2>2, <2>3 DEF Good
<1>10. QED
  BY <1>7, <1>9

(* A commit() of an image without a prepared transaction, with all COMMITs  *)
(* up to the new read_txn in it. *)
LEMMA GoodCommitted ==
    ASSUME NEW m \in Image, NEW l \in SUBSET Labels, NEW done, NEW f, Good(m, done, f), Sound(m),
           \A c \in Chunk : Commit(f, c) /\ c.id <= m.read + 1 =>
               c.label \in CommittedImage(m, l).applied
    PROVE  Good(CommittedImage(m, l), done, f)
<1>1. m.applied \subseteq CommittedImage(m, l).applied
  <2>1. CASE m.prep
    BY <2>1, CommittedFields DEF Sound
  <2>2. CASE ~m.prep
    BY <2>2, CommittedFields
  <2>3. QED
    BY <2>1, <2>2
<1>2. CommittedImage(m, l).read = m.read + 1 /\ ~CommittedImage(m, l).prep
  BY CommittedFields
<1>3. QED
  BY <1>1, <1>2 DEF Good, Restores, Older

(* The next transaction to replay: no COMMIT between read_txn and it. *)
LEMMA ReplayedGood ==
    ASSUME Known, DurableInv, pc = "replaying", NEW t \in rec.txns,
           \A u \in rec.txns : t.id <= u.id, NEW n, n = CommittedImage(Started(mem), {t.label})
    PROVE  /\ n \in Image /\ Good(n, logged, file)
           /\ n.read = mem.read + 1
           /\ mem.applied \subseteq n.applied
           /\ \A c \in Chunk : Commit(file, c) => c.label \in n.applied \/ PrepareOf(c) \in rec.txns \ {t}
           /\ \A u \in rec.txns \ {t} : u.id > n.read
<1>k. TypeInv /\ PledgeInv /\ LogInv /\ RecoveryInv /\ Good(mem, logged, file)
  BY DEF Known, DurableInv
<1>n. /\ mem \in Image /\ mem.read \in Nat /\ rec.txns \subseteq Chunk
      /\ \A c \in Chunk : c.id \in Nat /\ c.label \in Labels
  BY <1>k, NumberTypes
<1> DEFINE m == Started(mem)
<1>1. /\ m \in Image /\ m.read = mem.read /\ m.applied = mem.applied
      /\ m.prep = mem.prep /\ m.prepared = mem.prepared
  BY <1>n, StartedFields
<1>2. Sound(m) /\ Good(m, logged, file)
  BY <1>k, <1>n, <1>1, StartedSound, GoodLike DEF PledgeInv
<1> HIDE DEF m
<1>3. {t.label} \in SUBSET Labels
  BY <1>n
<1>4. n = CommittedImage(m, {t.label})
  BY DEF m
<1>5. n \in Image /\ n.read = mem.read + 1
  BY <1>1, <1>3, <1>4, CommittedFields
<1>r. /\ \A c \in Chunk : Commit(file, c) =>
            c.label \in mem.applied \/ PrepareOf(c) \in rec.txns
      /\ \A u \in rec.txns : u.op = "prepare" /\ Commit(file, CommitOf(u)) /\ u.id > mem.read
  BY <1>k DEF RecoveryInv
<1>6. mem.applied \subseteq n.applied
  <2>1. CASE m.prep
    BY <1>1, <1>2, <1>3, <1>4, <2>1, CommittedFields DEF Sound
  <2>2. CASE ~m.prep
    BY <1>1, <1>3, <1>4, <2>2, CommittedFields
  <2>3. QED
    BY <2>1, <2>2
<1>7. t.label \in n.applied
  <2>1. CASE m.prep
    <3>1. HasAll(m, file)
      BY <1>2, <2>1 DEF Good
    <3>2. CommitOf(t) \in Chunk /\ Commit(file, CommitOf(t)) /\ CommitOf(t).label = t.label
      BY <1>n, <1>r DEF CommitOf, Chunk
    <3>3. t.label \in mem.applied
      BY <1>1, <3>1, <3>2 DEF HasAll
    <3>4. QED
      BY <1>6, <3>3
  <2>2. CASE ~m.prep
    BY <1>1, <1>3, <1>4, <2>2, CommittedFields
  <2>3. QED
    BY <2>1, <2>2
<1>8. ASSUME NEW u \in rec.txns, u.id = t.id PROVE u = t
  <2>1. CommitOf(u) \in Chunk /\ CommitOf(t) \in Chunk /\ CommitOf(u).id = CommitOf(t).id
    BY <1>n, <1>8 DEF CommitOf, Chunk
  <2>2. CommitOf(u) = CommitOf(t)
    BY <1>k, <1>r, <2>1 DEF LogInv, UniqueIds
  <2>3. u.label = t.label /\ u.op = t.op
    BY <1>r, <2>2 DEF CommitOf
  <2>4. u \in Chunk /\ t \in Chunk
    BY <1>n
  <2>5. QED
    BY <1>8, <2>3, <2>4 DEF Chunk
<1>9. \A u \in rec.txns \ {t} : u.id > n.read
  <2>1. ASSUME NEW u \in rec.txns, u # t PROVE u.id > n.read
    <3>1. t.id <= u.id /\ t.id # u.id /\ t.id > mem.read
      BY <1>8, <1>r, <2>1
    <3>2. t.id \in Nat /\ u.id \in Nat
      BY <1>n
    <3>3. QED
      BY <1>n, <1>5, <3>1, <3>2
  <2>2. QED
    BY <2>1
<1>10. \A c \in Chunk : Commit(file, c) => c.label \in n.applied \/ PrepareOf(c) \in rec.txns \ {t}
  <2>1. \A c \in Chunk : PrepareOf(c) = t => c.label = t.label
    BY DEF PrepareOf
  <2>2. QED
    BY <1>6, <1>7, <1>r, <2>1
<1>11. ASSUME NEW c \in Chunk, Commit(file, c), c.id <= m.read + 1 PROVE c.label \in n.applied
  <2>1. CASE PrepareOf(c) \in rec.txns \ {t}
    <3>1. PrepareOf(c).id = c.id
      BY DEF PrepareOf
    <3>2. c.id > n.read /\ c.id \in Nat
      BY <1>9, <1>n, <2>1, <3>1
    <3>3. QED
      BY <1>n, <1>1, <1>5, <1>11, <3>2
  <2>2. QED
    BY <1>10, <1>11, <2>1
<1>12. Good(n, logged, file)
  BY <1>1, <1>2, <1>3, <1>4, <1>11, GoodCommitted
<1>13. QED
  BY <1>5, <1>6, <1>9, <1>10, <1>12

(* Every step leaves both images with what they need to be brought up to date. *)
LEMMA GoodStep ==
    ASSUME OnlyCrashes, Known, TypeInv', DurableInv, [Next]_vars
    PROVE  Good(mem', logged', file') /\ Good(disk', logged', file')
<1>k. /\ TypeInv /\ PledgeInv /\ LogInv /\ WriterInv /\ RecoveryInv
      /\ Good(mem, logged, file) /\ Good(disk, logged, file)
  BY DEF Known, DurableInv
<1>n. /\ mem \in Image /\ disk \in Image
      /\ mem.read \in Nat /\ disk.read \in Nat /\ txn.id \in Nat
      /\ \A c \in Chunk : c.id \in Nat
  BY <1>k, NumberTypes
<1>s. Sound(mem) /\ Sound(disk)
  BY <1>k DEF PledgeInv
<1>w. pc \in Active => Written \in SUBSET Labels
  BY <1>k, OwnTypes
(* The steps that change neither the COMMITs nor what is logged. *)
<1>g. Same(file, file') => Good(mem, logged, file') /\ Good(disk, logged, file')
  BY <1>k, SameCommits
<1>e. file' = file => Same(file, file')
  BY DEF Same
<1>q. ASSUME logged' = logged, Same(file, file'), mem' \in {mem, disk}, disk' \in {mem, disk}
      PROVE  Good(mem', logged', file') /\ Good(disk', logged', file')
  BY <1>g, <1>q
<1>1. CASE StartTransaction
  <2>1. mem' = Started(mem) /\ disk' = disk /\ logged' = logged /\ file' = file
    BY <1>1 DEF StartTransaction, log
  <2>2. mem'.read = mem.read /\ mem'.applied = mem.applied /\ mem'.prep = mem.prep
    BY <1>n, <2>1, StartedFields
  <2>3. QED
    BY <1>k, <2>1, <2>2, GoodLike
<1>2. CASE WalCommit
  <2>1. pc = "promised" /\ pc \in Up /\ pc \in Active /\ mem' = mem /\ disk' = disk
        /\ logged' = logged \cup Written
    BY <1>k, <1>2 DEF WalCommit, WriterInv, Up, Active, store
  <2>2. CASE txn.wrote
    <3>1. GrewBy(file, file', wal.active_log, Own("commit"))
      <4>1. file' = [file EXCEPT ![wal.active_log] = Append(@, Own("commit"))]
        BY <1>2, <2>2 DEF WalCommit, Append1, Own
      <4>2. Own("commit") \in Chunk
        BY <1>k, <2>1, OwnTypes
      <4>3. file \in [Log -> Seq(Chunk)] /\ wal.active_log \in Log
        BY <1>k DEF TypeInv, TypeOK
      <4>4. QED
        BY <4>1, <4>2, <4>3, AppendedChunks
    <3>2. /\ Own("commit") \in Chunk /\ Own("commit").label = txn.label
          /\ Own("commit").id = txn.id /\ Own("commit").op = "commit"
          /\ wal.active_log \in Log /\ Written = {txn.label}
      BY <1>k, <2>1, <2>2, OwnTypes DEF Own, TypeInv, TypeOK, Written
    <3>3. \A c \in Chunk : Commit(file', c) <=> Commit(file, c) \/ c = Own("commit")
      BY <3>1, <3>2 DEF Commit, CommitIn, GrewBy
    <3>4. txn.id = mem.read + 1 /\ disk.read <= mem.read /\ ~mem.prep /\ ~disk.prep
      BY <1>k, <2>1 DEF WriterInv
    <3>5. ASSUME NEW m \in {mem, disk} PROVE Good(m, logged', file')
      <4>1. Good(m, logged, file) /\ ~m.prep
        BY <1>k, <3>4
      <4>2. Restores(m, logged', file')
        BY <2>1, <3>2, <3>3, <4>1 DEF Good, Restores
      <4>3. ~(txn.id <= m.read)
        BY <1>n, <3>4
      <4>4. Older(m, file')
        BY <3>2, <3>3, <4>1, <4>3 DEF Good, Older
      <4>5. QED
        BY <4>1, <4>2, <4>4 DEF Good
    <3>6. QED
      BY <2>1, <3>5
  <2>3. CASE ~txn.wrote
    BY <1>2, <1>e, <1>q, <2>1, <2>3 DEF WalCommit, Written
  <2>4. QED
    BY <2>2, <2>3
<1>3. CASE DbCommit
  <2>1. pc = "durable" /\ pc \in Up /\ pc \in Active /\ mem' = CommittedImage(mem, Written)
        /\ disk' = disk /\ logged' = logged /\ file' = file
    BY <1>3 DEF DbCommit, Up, Active, log, ledger
  <2>2. /\ ~mem.prep /\ txn.id = mem.read + 1
        /\ \A c \in Chunk : Commit(file, c) =>
              c.id <= mem.read \/ (txn.wrote /\ c = Own("commit"))
    BY <1>k, <2>1 DEF WriterInv
  <2>3. Written \in SUBSET Labels /\ mem'.applied = mem.applied \cup Written
    BY <1>n, <1>w, <2>1, <2>2, CommittedFields
  <2>4. txn.wrote => Own("commit").label \in Written
    BY DEF Own, Written
  <2>5. \A c \in Chunk : Commit(file, c) => c.label \in mem'.applied
    BY <1>k, <2>2, <2>3, <2>4 DEF Good, Older
  <2>6. Good(mem', logged, file)
    BY <1>k, <1>n, <1>s, <2>1, <2>3, <2>5, GoodCommitted
  <2>7. QED
    BY <1>k, <2>1, <2>6
<1>4. CASE Rollback
  <2>1. mem' = RolledBackImage(mem) /\ disk' = disk /\ logged' = logged /\ file' = file
    BY <1>4 DEF Rollback, log
  <2>2. mem'.read = mem.read /\ mem'.applied = mem.applied /\ ~mem'.prep
    BY <1>n, <2>1, RolledBackFields
  <2>3. QED
    BY <1>k, <2>1, <2>2, GoodLike
<1>5. CASE TaskTruncate
  <2>1. mem' = mem /\ disk' = disk /\ logged' = logged
    BY <1>5 DEF TaskTruncate, store, ledger
  <2>2. QED
    BY <1>5, <2>1, TruncateGood
<1>6. CASE Loss
  <2>1. mem' = disk /\ disk' = disk /\ logged' = logged
    BY <1>6 DEF Loss, Die
  <2>2. Same(file, file')
    <3>1. ~WalCommit /\ ~TaskTruncate /\ ~RecoverReset
      BY <1>6 DEF Loss, Die, WalCommit, TaskTruncate, RecoverReset
    <3>2. QED
      BY <1>k, <3>1, CommitsStep DEF LogInv
  <2>3. QED
    BY <1>q, <2>1, <2>2
<1>7. CASE RecoverParse
  <2>1. mem' = Sanitized(mem) /\ disk' = disk /\ logged' = logged /\ file' = file
    BY <1>7 DEF RecoverParse, log, ledger
  <2>2. mem'.read = mem.read /\ mem'.applied = mem.applied /\ mem'.prep = mem.prep
    BY <1>n, <2>1, SanitizedFields
  <2>3. QED
    BY <1>k, <2>1, <2>2, GoodLike
<1>8. CASE ReplayTxn
  <2>1. PICK t \in rec.txns : /\ \A u \in rec.txns : t.id <= u.id
                              /\ mem' = CommittedImage(Started(mem), {t.label})
    BY <1>8 DEF ReplayTxn
  <2>2. disk' = mem' /\ logged' = logged /\ file' = file /\ pc = "replaying"
    BY <1>8 DEF ReplayTxn, log, ledger
  <2>3. Good(mem', logged, file)
    BY <2>1, <2>2, ReplayedGood
  <2>4. QED
    BY <2>2, <2>3
<1>9. CASE ReplayDangling
  <2>1. PICK d \in rec.doubt : mem' = PreparedImage(Started(mem), {d.label})
    BY <1>9 DEF ReplayDangling
  <2>2. /\ disk' = disk /\ logged' = logged /\ file' = file
        /\ pc = "replaying" /\ rec.txns = {}
    BY <1>9 DEF ReplayDangling, log, ledger
  <2>3. {d.label} \in SUBSET Labels
    BY <1>k, <2>1 DEF TypeInv, TypeOK, Chunk
  <2>4. mem'.read = mem.read /\ mem'.applied = mem.applied
    BY <1>n, <2>1, <2>3, StartedFields, PreparedFields
  <2>5. HasAll(mem, file)
    BY <1>k, <2>2 DEF RecoveryInv, HasAll
  <2>6. Good(mem', logged, file)
    BY <1>k, <2>4, <2>5 DEF Good, Restores, Older, HasAll
  <2>7. QED
    BY <1>k, <2>2, <2>6
<1>10. CASE RecoverReset
  <2>1. mem' = mem /\ disk' = disk /\ logged' = logged /\ pc = "flushed"
        /\ \A i \in Log : file'[i] = << >>
    BY <1>10 DEF RecoverReset, store, ledger
  <2>2. disk = mem /\ HasAll(mem, file)
    BY <1>k, <2>1 DEF RecoveryInv
  <2>3. logged \subseteq mem.applied
    BY <1>k, <2>2 DEF Good, Restores, HasAll
  <2>4. \A c \in Chunk : ~Commit(file', c)
    BY <2>1, NoCommits
  <2>5. QED
    BY <2>1, <2>2, <2>3, <2>4 DEF Good, Restores, Older, HasAll
<1>11. CASE CommitRecovered
  <2>1. mem' = CommittedImage(mem, {}) /\ disk' = mem' /\ logged' = logged \cup mem.prepared
        /\ file' = file /\ pc = "recovered"
    BY <1>11 DEF CommitRecovered, log
  <2>2. mem.prep /\ logged \subseteq mem.applied /\ \A c \in Chunk : ~Commit(file, c)
    BY <1>k, <2>1 DEF RecoveryInv
  <2>3. mem'.applied = mem.prepared /\ mem.applied \subseteq mem.prepared
    BY <1>n, <1>s, <2>1, <2>2, CommittedFields DEF Sound
  <2>4. logged' \subseteq mem'.applied
    BY <2>1, <2>2, <2>3
  <2>5. QED
    BY <2>1, <2>2, <2>4 DEF Good, Restores, Older, HasAll
<1>12. CASE RollbackRecovered
  <2>1. mem' = RolledBackImage(mem) /\ disk' = mem' /\ logged' = logged /\ file' = file
    BY <1>12 DEF RollbackRecovered, log, OnlyCrashes
  <2>2. mem'.read = mem.read /\ mem'.applied = mem.applied /\ ~mem'.prep
    BY <1>n, <2>1, RolledBackFields
  <2>3. QED
    BY <1>k, <2>1, <2>2, GoodLike
<1>13. CASE CommitPrepare
  <2>1. mem' = mem /\ disk' = disk /\ logged' = logged
    BY <1>13 DEF CommitPrepare, store, ledger
  <2>2. ~WalCommit /\ ~RecoverReset
    BY <1>13 DEF CommitPrepare, WalCommit, RecoverReset
  <2>3. QED
    BY <1>k, <1>5, <1>q, <2>1, <2>2, CommitsStep DEF LogInv
<1>14. QED
  BY <1>k, <1>e, <1>q, <1>1, <1>2, <1>3, <1>4, <1>5, <1>6, <1>7, <1>8, <1>9, <1>10, <1>11,
     <1>12, <1>13, NoTwoPhase
     DEF Next, WalBegin, Write, TaskFlush, TaskChoose, Crash, Die, ReplayFails, RecoverFlush,
         store, log, ledger, vars

(* Nothing is claimed of the writer while the process is down. *)
LEMMA DownWriter ==
    ASSUME pc' \notin Up \cup {"logged", "prepared"}
    PROVE  WriterInv'
  BY DEF WriterInv, Up, Active

(* Every step keeps the writer's part. *)
LEMMA WriterInvStep ==
    ASSUME OnlyCrashes, Known, TypeInv', DurableInv, [Next]_vars
    PROVE  WriterInv'
<1>k. /\ TypeInv /\ PledgeInv /\ LogInv /\ WriterInv /\ RecoveryInv /\ PoolInv /\ TogetherInv
      /\ Good(mem, logged, file) /\ Good(disk, logged, file)
  BY DEF Known, DurableInv
<1>n. /\ mem \in Image /\ disk \in Image
      /\ mem.read \in Nat /\ disk.read \in Nat /\ txn.id \in Nat
      /\ wal.active_log \in Log
      /\ \A c \in Chunk : c.id \in Nat
  BY <1>k, NumberTypes
<1>w. pc \in Active => Written \in SUBSET Labels
  BY <1>k, OwnTypes
<1>u. pc \in Up => ~mem.prep /\ ~disk.prep /\ disk.read <= mem.read
  BY <1>k DEF WriterInv
<1>l. pc \in Up /\ pc # "durable" =>
        /\ logged \subseteq mem.applied
        /\ \A c \in Chunk : Commit(file, c) => c.id <= mem.read
  BY <1>k DEF WriterInv
<1>i. pc \in Active => txn.id = mem.read + 1
  BY <1>k DEF WriterInv
<1>c. \/ \A c \in Chunk : Commit(file', c) => Commit(file, c)
      \/ /\ WalCommit /\ txn.wrote
         /\ \A c \in Chunk : Commit(file', c) => Commit(file, c) \/ c = Own("commit")
  <2>1. CASE Same(file, file')
    BY <2>1, SameCommits
  <2>2. CASE /\ WalCommit /\ txn.wrote
             /\ GrewBy(file, file', wal.active_log, Own("commit"))
    BY <2>2 DEF Commit, CommitIn, GrewBy
  <2>3. CASE TaskTruncate
    BY <2>3, TruncateGood
  <2>4. CASE RecoverReset
    <3>1. \A i \in Log : file'[i] = << >>
      BY <2>4 DEF RecoverReset
    <3>2. QED
      BY <3>1, NoCommits
  <2>5. QED
    BY <1>k, <2>1, <2>2, <2>3, <2>4, CommitsStep DEF LogInv
(* The database is open and idle after the step. *)
<1>q. ASSUME pc' = "idle", ~mem'.prep, ~disk'.prep, disk'.read <= mem'.read,
             logged' \subseteq mem'.applied,
             \A c \in Chunk : Commit(file', c) => c.id <= mem'.read
      PROVE  WriterInv'
  BY <1>q DEF WriterInv, Active
<1>1. CASE StartTransaction
  <2>1. /\ pc = "idle" /\ pc' = "begin" /\ mem' = Started(mem) /\ disk' = disk
        /\ logged' = logged /\ file' = file /\ txn'.id = mem.read + 1
    BY <1>1 DEF StartTransaction, log
  <2>2. mem'.read = mem.read /\ mem'.applied = mem.applied /\ mem'.prep = mem.prep
    BY <1>n, <2>1, StartedFields
  <2>3. QED
    BY <1>u, <1>l, <2>1, <2>2 DEF WriterInv, Up
<1>2. CASE WalBegin
  <2>1. /\ pc = "begin" /\ pc' = "open" /\ mem' = mem /\ disk' = disk /\ txn' = txn
        /\ logged' = logged /\ file' = file
        /\ wal' = [wal EXCEPT !.last_commit[txn.idx] = txn.id, !.active_log = txn.idx]
    BY <1>2 DEF WalBegin, store, ledger
  <2>2. wal'.last_commit[wal'.active_log] = txn.id
    <3>1. /\ wal \in [next_log : Log, active_log : Log, last_commit : [Log -> Tid]]
          /\ txn.idx \in Log
      BY <1>k DEF TypeInv, TypeOK
    <3>2. QED
      BY <2>1, <3>1
  <2>3. QED
    BY <1>u, <1>l, <1>i, <2>1, <2>2 DEF WriterInv, Up, Active
<1>3. CASE Write
  <2>1. /\ pc = "open" /\ pc' = "open" /\ mem' = mem /\ disk' = disk
        /\ logged' = logged /\ file' = file /\ wal' = wal
        /\ txn' = [txn EXCEPT !.wrote = TRUE]
    BY <1>3 DEF Write, store, log, ledger
  <2>2. txn'.id = txn.id
    BY <2>1
  <2>3. wal.last_commit[wal.active_log] = txn.id
    BY <1>k, <2>1 DEF WriterInv
  <2>4. QED
    BY <1>u, <1>l, <1>i, <2>1, <2>2, <2>3 DEF WriterInv, Up, Active
<1>4. CASE CommitPrepare
  <2>1. /\ pc = "open" /\ pc' = "promised" /\ mem' = mem /\ disk' = disk /\ txn' = txn
        /\ logged' = logged /\ wal' = wal
    BY <1>4 DEF CommitPrepare, store, ledger
  <2>2. wal.last_commit[wal.active_log] = txn.id
    BY <1>k, <2>1 DEF WriterInv
  <2>3. \A c \in Chunk : Commit(file', c) => Commit(file, c)
    BY <1>c, <2>1 DEF WalCommit
  <2>4. QED
    BY <1>u, <1>l, <1>i, <2>1, <2>2, <2>3 DEF WriterInv, Up, Active
<1>5. CASE WalCommit
  <2>1. /\ pc = "promised" /\ pc' = "durable" /\ mem' = mem /\ disk' = disk /\ txn' = txn
        /\ logged' = logged \cup Written /\ wal' = wal
    BY <1>k, <1>5 DEF WalCommit, WriterInv, store
  <2>2. wal.last_commit[wal.active_log] = txn.id
    BY <1>k, <2>1 DEF WriterInv
  <2>3. \A c \in Chunk : Commit(file', c) => Commit(file, c) \/ (txn.wrote /\ c = Own("commit"))
    BY <1>c
  <2>4. Own("commit")' = Own("commit") /\ Written' = Written
    BY <2>1 DEF Own, Written
  <2>5. logged' \subseteq mem'.applied \cup Written'
    BY <1>l, <2>1, <2>4 DEF Up
  <2>6. \A c \in Chunk : Commit(file', c) =>
            c.id <= mem'.read \/ (txn'.wrote /\ c = Own("commit")')
    BY <1>l, <2>1, <2>3, <2>4 DEF Up
  <2>7. ~mem'.prep /\ ~disk'.prep /\ disk'.read <= mem'.read /\ txn'.id = mem'.read + 1
    BY <1>u, <1>i, <2>1 DEF Up, Active
  <2>8. QED
    BY <2>1, <2>2, <2>5, <2>6, <2>7 DEF WriterInv
<1>6. CASE DbCommit
  <2>1. pc = "durable" /\ pc' = "idle" /\ mem' = CommittedImage(mem, Written)
        /\ disk' = disk /\ logged' = logged /\ file' = file
    BY <1>6 DEF DbCommit, log, ledger
  <2>2. /\ ~mem.prep /\ ~disk.prep /\ disk.read <= mem.read /\ txn.id = mem.read + 1
        /\ Written \in SUBSET Labels /\ logged \subseteq mem.applied \cup Written
    BY <1>k, <1>u, <1>i, <1>w, <2>1 DEF Up, Active, WriterInv
  <2>3. mem'.read = mem.read + 1 /\ ~mem'.prep /\ mem'.applied = mem.applied \cup Written
    BY <1>n, <2>1, <2>2, CommittedFields
  <2>4. \A c \in Chunk : Commit(file, c) => c.id <= mem.read \/ c = Own("commit")
    BY <1>k, <2>1 DEF WriterInv, Up
  <2>5. Own("commit").id = txn.id
    BY DEF Own
  <2>6. \A c \in Chunk : Commit(file, c) => c.id <= mem.read + 1
    BY <1>n, <2>2, <2>4, <2>5
  <2>7. disk'.read <= mem'.read
    BY <1>n, <2>1, <2>2, <2>3
  <2>8. QED
    BY <1>q, <2>1, <2>2, <2>3, <2>6, <2>7
<1>7. CASE Rollback
  <2>1. pc = "open" /\ pc' = "idle" /\ mem' = RolledBackImage(mem)
        /\ disk' = disk /\ logged' = logged /\ file' = file
    BY <1>k, <1>7 DEF Rollback, WriterInv, log
  <2>2. mem'.read = mem.read /\ mem'.applied = mem.applied /\ ~mem'.prep
    BY <1>n, <2>1, RolledBackFields
  <2>3. QED
    BY <1>u, <1>l, <1>q, <2>1, <2>2 DEF Up
<1>8. ASSUME NEW id \in tasks, TaskFlush(id) PROVE WriterInv'
  <2>1. /\ mem' = mem /\ disk' = mem /\ pc' = pc /\ txn' = txn
        /\ file' = file /\ wal' = wal /\ logged' = logged
    BY <1>8 DEF TaskFlush, log, ledger
  <2>2. Own("commit")' = Own("commit") /\ Written' = Written /\ disk'.read <= mem'.read
    BY <1>n, <2>1 DEF Own, Written
  <2>3. QED
    BY <1>k, <2>1, <2>2 DEF WriterInv
<1>9. CASE TaskChoose
  <2>1. /\ mem' = mem /\ disk' = disk /\ pc' = pc /\ txn' = txn
        /\ file' = file /\ wal' = wal /\ logged' = logged
    BY <1>9 DEF TaskChoose, store, log, ledger
  <2>2. QED
    BY <1>k, <2>1 DEF WriterInv, Own, Written
<1>10. CASE TaskTruncate
  <2>1. /\ mem' = mem /\ disk' = disk /\ pc' = pc /\ txn' = txn /\ logged' = logged
        /\ wal' = [wal EXCEPT !.last_commit[worker.idx] = 0, !.next_log = worker.idx]
        /\ worker.pc = "chosen"
    BY <1>10 DEF TaskTruncate, store, ledger
  <2>2. \A c \in Chunk : Commit(file', c) => Commit(file, c)
    BY <1>10, TruncateGood
  <2>3. wal'.last_commit[wal'.active_log] = wal.last_commit[wal.active_log]
    <3>1. wal \in [next_log : Log, active_log : Log, last_commit : [Log -> Tid]]
          /\ worker.idx \in Log
      BY <1>k DEF TypeInv, TypeOK
    <3>2. worker.idx # wal.active_log
      BY <1>k, <1>n, <2>1 DEF TogetherInv, Apart, Log
    <3>3. QED
      BY <2>1, <3>1, <3>2
  <2>4. Own("commit")' = Own("commit") /\ Written' = Written
    BY <2>1 DEF Own, Written
  <2>5. QED
    BY <1>k, <2>1, <2>2, <2>3, <2>4 DEF WriterInv
<1>11. CASE RecoverReset
  <2>1. mem' = mem /\ disk' = disk /\ logged' = logged /\ pc = "flushed"
        /\ (\A i \in Log : file'[i] = << >>)
        /\ pc' = IF mem.prep THEN "recovered" ELSE "idle"
    BY <1>11 DEF RecoverReset, store, ledger
  <2>2. CASE mem.prep
    BY <2>1, <2>2, DownWriter DEF Up
  <2>3. CASE ~mem.prep
    <3>1. disk = mem /\ HasAll(mem, file)
      BY <1>k, <2>1 DEF RecoveryInv
    <3>2. logged \subseteq mem.applied
      BY <1>k, <3>1 DEF Good, Restores, HasAll
    <3>3. \A c \in Chunk : ~Commit(file', c)
      BY <2>1, NoCommits
    <3>4. QED
      BY <1>n, <1>q, <2>1, <2>3, <3>1, <3>2, <3>3
  <2>4. QED
    BY <2>2, <2>3
<1>12. CASE CommitRecovered
  <2>1. mem' = CommittedImage(mem, {}) /\ disk' = mem' /\ logged' = logged \cup mem.prepared
        /\ file' = file /\ pc = "recovered" /\ pc' = "idle"
    BY <1>12 DEF CommitRecovered, log
  <2>2. mem.prep /\ logged \subseteq mem.applied /\ \A c \in Chunk : ~Commit(file, c)
    BY <1>k, <2>1 DEF RecoveryInv
  <2>3. /\ mem'.applied = mem.prepared /\ mem.applied \subseteq mem.prepared
        /\ ~mem'.prep /\ mem'.read = mem.read + 1
    BY <1>k, <1>n, <2>1, <2>2, CommittedFields DEF PledgeInv, Sound
  <2>4. disk'.read <= mem'.read /\ logged' \subseteq mem'.applied
    BY <1>n, <2>1, <2>2, <2>3
  <2>5. QED
    BY <1>q, <2>1, <2>2, <2>3, <2>4
<1>13. CASE RollbackRecovered
  <2>1. mem' = RolledBackImage(mem) /\ disk' = mem' /\ logged' = logged /\ file' = file
        /\ pc = "recovered" /\ pc' = "idle"
    BY <1>13 DEF RollbackRecovered, log, OnlyCrashes
  <2>2. logged \subseteq mem.applied /\ \A c \in Chunk : ~Commit(file, c)
    BY <1>k, <2>1 DEF RecoveryInv
  <2>3. mem'.read = mem.read /\ mem'.applied = mem.applied /\ ~mem'.prep
    BY <1>n, <2>1, RolledBackFields
  <2>4. disk'.read <= mem'.read
    BY <1>n, <2>1, <2>3
  <2>5. QED
    BY <1>q, <2>1, <2>2, <2>3, <2>4
<1>14. CASE pc' \in {"down", "replaying", "flushed", "failed"}
  BY <1>14, DownWriter DEF Up
<1>15. CASE UNCHANGED vars
  BY <1>k, <1>15 DEF vars, WriterInv, Own, Written
<1>16. QED
  BY <1>k, <1>1, <1>2, <1>3, <1>4, <1>5, <1>6, <1>7, <1>8, <1>9, <1>10, <1>11, <1>12, <1>13,
     <1>14, <1>15, NoTwoPhase
     DEF Next, Crash, Loss, Die, RecoverParse, ReplayTxn, ReplayDangling, ReplayFails,
         RecoverFlush

(* Every step keeps the flush tasks' part. *)
LEMMA PoolStep ==
    ASSUME OnlyCrashes, Known, TypeInv', DurableInv, [Next]_vars
    PROVE  PoolInv'
<1>k. TypeInv /\ LogInv /\ WriterInv /\ PoolInv /\ TogetherInv
  BY DEF Known, DurableInv
<1>n. /\ mem \in Image /\ mem.read \in Nat /\ disk.read \in Nat /\ txn.id \in Nat
      /\ worker.id \in Nat /\ worker.idx \in Log
      /\ wal.active_log \in Log /\ \A i \in Log : wal.last_commit[i] \in Nat
      /\ \A id \in tasks : id \in Nat
      /\ \A c \in Chunk : c.id \in Nat
  BY <1>k, NumberTypes
<1>i. /\ NoTask.pc = "idle"
      /\ tasks' = {} /\ worker' = NoTask => PoolInv'
  BY DEF NoTask, PoolInv
<1>d. pc \notin Up => tasks = {} /\ worker = NoTask
  BY <1>k DEF PoolInv
<1>1. CASE pc \notin Up
  <2>1. tasks = {} /\ worker = NoTask /\ worker.pc = "idle"
    BY <1>d, <1>i, <1>1
  <2>2. tasks' = {} /\ worker' = NoTask
    BY <1>k, <1>1, <2>1, NoTwoPhase DEF Next, StartTransaction, WalBegin, Write,
       CommitPrepare, WalCommit, WriterInv, DbCommit, Rollback, TaskChoose, TaskTruncate, Crash, Loss, Die,
       RecoverParse, ReplayTxn, ReplayDangling, ReplayFails, RecoverFlush, RecoverReset,
       CommitRecovered, RollbackRecovered, pool, vars, Up
  <2>3. QED
    BY <1>i, <2>2
<1>2. CASE pc \in Up /\ (Crash \/ Loss)
  BY <1>i, <1>2 DEF Crash, Loss, Die
<1>p. /\ \A id \in tasks : id <= mem.read \/ (pc = "durable" /\ id = txn.id)
      /\ worker.pc # "idle" => worker.id <= disk.read
      /\ worker.pc = "chosen" =>
            \A c \in Chunk : CommitIn(file, worker.idx, c) => c.id <= worker.id
  BY <1>k DEF PoolInv
(* A step of the writer that leaves the pool and the COMMITs alone. *)
<1>q. ASSUME pc \in Up, pc' \in Up, tasks' = tasks, worker' = worker, disk' = disk,
             mem'.read = mem.read, pc # "durable",
             \A c \in Chunk : CommitIn(file', worker.idx, c) => CommitIn(file, worker.idx, c)
      PROVE  PoolInv'
  BY <1>p, <1>q DEF PoolInv
<1>3. CASE StartTransaction
  <2>1. /\ pc = "idle" /\ pc' = "begin" /\ mem' = Started(mem) /\ disk' = disk
        /\ tasks' = tasks /\ worker' = worker /\ file' = file
    BY <1>3 DEF StartTransaction, log, pool
  <2>2. mem'.read = mem.read
    BY <1>n, <2>1, StartedFields
  <2>3. QED
    BY <1>q, <2>1, <2>2 DEF Up
<1>4. CASE WalBegin \/ Write
  BY <1>4, <1>q DEF WalBegin, Write, store, log, pool, Up
<1>5. CASE CommitPrepare
  <2>1. /\ pc = "open" /\ pc' = "promised" /\ mem' = mem /\ disk' = disk
        /\ tasks' = tasks /\ worker' = worker
    BY <1>5 DEF CommitPrepare, store, pool
  <2>2. ~WalCommit /\ ~RecoverReset
    BY <2>1 DEF WalCommit, RecoverReset
  <2>3. ~TaskTruncate
    BY <1>5 DEF CommitPrepare, TaskTruncate
  <2>4. Same(file, file')
    BY <1>k, <2>2, <2>3, CommitsStep DEF LogInv
  <2>5. \A c \in Chunk : CommitIn(file', worker.idx, c) => CommitIn(file, worker.idx, c)
    BY <1>n, <2>4 DEF Same
  <2>6. QED
    BY <1>q, <2>1, <2>5 DEF Up
<1>6. CASE WalCommit
  <2>1. /\ pc = "promised" /\ pc' = "durable" /\ mem' = mem /\ disk' = disk
        /\ worker' = worker /\ txn' = txn /\ tasks' \subseteq tasks \cup {txn.id}
    BY <1>k, <1>6 DEF WalCommit, WriterInv, store
  <2>2. \A id \in tasks' : id <= mem'.read \/ id = txn'.id
    BY <1>p, <2>1
  <2>3. ASSUME worker.pc = "chosen", NEW c \in Chunk, CommitIn(file', worker.idx, c)
        PROVE  CommitIn(file, worker.idx, c)
    <3>1. worker.idx # wal.active_log
      BY <1>k, <1>n, <2>3 DEF TogetherInv, Apart, Log
    <3>2. CASE GrewBy(file, file', wal.active_log, Own("commit"))
      BY <1>n, <2>3, <3>1, <3>2 DEF GrewBy, CommitIn
    <3>3. CASE Same(file, file')
      BY <1>n, <2>3, <3>3 DEF Same
    <3>4. ~TaskTruncate /\ ~RecoverReset
      BY <1>6 DEF WalCommit, TaskTruncate, RecoverReset
    <3>5. QED
      BY <1>k, <3>2, <3>3, <3>4, CommitsStep DEF LogInv
  <2>4. QED
    BY <1>p, <2>1, <2>2, <2>3 DEF PoolInv, Up
<1>7. CASE DbCommit
  <2>1. pc = "durable" /\ pc' = "idle" /\ mem' = CommittedImage(mem, Written)
        /\ disk' = disk /\ tasks' = tasks /\ worker' = worker /\ file' = file
    BY <1>7 DEF DbCommit, log, pool
  <2>2. mem'.read = mem.read + 1 /\ txn.id = mem.read + 1
    <3>1. Written \in SUBSET Labels
      BY <1>k, <2>1, OwnTypes DEF Active
    <3>2. QED
      BY <1>k, <1>n, <2>1, <3>1, CommittedFields DEF WriterInv, Active
  <2>3. \A id \in tasks' : id <= mem'.read
    BY <1>n, <1>p, <2>1, <2>2
  <2>4. QED
    BY <1>p, <2>1, <2>3 DEF PoolInv, Up
<1>8. CASE Rollback
  <2>1. pc = "open" /\ pc' = "idle" /\ mem' = RolledBackImage(mem)
        /\ disk' = disk /\ tasks' = tasks /\ worker' = worker /\ file' = file
    BY <1>k, <1>8 DEF Rollback, WriterInv, log, pool
  <2>2. mem'.read = mem.read
    BY <1>n, <2>1, RolledBackFields
  <2>3. QED
    BY <1>q, <2>1, <2>2 DEF Up
<1>9. ASSUME NEW id \in tasks, TaskFlush(id), pc \in Up PROVE PoolInv'
  <2>1. /\ pc' = pc /\ txn' = txn /\ mem' = mem /\ disk' = mem /\ tasks' = tasks \ {id}
        /\ worker' = [pc |-> "flushed", id |-> id, idx |-> 0]
    BY <1>9 DEF TaskFlush
  <2>2. ~(pc = "durable" /\ txn.id = id)
    BY <1>9 DEF TaskFlush, OnlyCrashes
  <2>3. id <= mem.read
    BY <1>p, <2>2
  <2>4. worker'.id = id /\ worker'.pc = "flushed"
    BY <2>1
  <2>5. QED
    BY <1>p, <1>9, <2>1, <2>3, <2>4 DEF PoolInv
<1>10. CASE TaskChoose /\ pc \in Up
  <2>1. pc' = pc /\ txn' = txn /\ mem' = mem /\ disk' = disk /\ tasks' = tasks /\ file' = file
        /\ worker.pc = "flushed"
    BY <1>10 DEF TaskChoose, store, log
  <2>2. CASE MayTruncate(1 - wal.active_log, worker.id)
    <3>1. worker' = [worker EXCEPT !.pc = "chosen", !.idx = 1 - wal.active_log]
      BY <1>10, <2>2 DEF TaskChoose
    <3>2. worker \in [pc : {"idle", "flushed", "chosen"}, id : Tid, idx : Log]
      BY <1>k DEF TypeInv, TypeOK
    <3>3. worker'.idx = 1 - wal.active_log /\ worker'.id = worker.id
      BY <3>1, <3>2
    <3>4. 1 - wal.active_log \in Log
      BY <1>n DEF Log
    <3>5. wal.last_commit[1 - wal.active_log] <= worker.id
      BY <2>2 DEF MayTruncate
    <3>6. \A c \in Chunk : CommitIn(file, 1 - wal.active_log, c) => c.id <= worker.id
      BY <1>k, <1>n, <3>4, <3>5 DEF LogInv, Bounded
    <3>7. QED
      BY <1>10, <1>p, <2>1, <3>3, <3>6 DEF PoolInv
  <2>3. CASE ~MayTruncate(1 - wal.active_log, worker.id)
    <3>1. worker' = NoTask
      BY <1>10, <2>3 DEF TaskChoose
    <3>2. QED
      BY <1>10, <1>i, <1>p, <2>1, <3>1 DEF PoolInv
  <2>4. QED
    BY <2>2, <2>3
<1>11. CASE TaskTruncate /\ pc \in Up
  <2>1. pc' = pc /\ txn' = txn /\ mem' = mem /\ tasks' = tasks /\ worker' = NoTask
    BY <1>11 DEF TaskTruncate, store
  <2>2. QED
    BY <1>11, <1>i, <1>p, <2>1 DEF PoolInv
<1>12. CASE UNCHANGED vars
  BY <1>k, <1>12 DEF vars, PoolInv
<1>13. pc \in Up => ~RecoverParse /\ ~ReplayTxn /\ ~ReplayDangling /\ ~ReplayFails /\ ~RecoverFlush
                    /\ ~RecoverReset /\ ~CommitRecovered /\ ~RollbackRecovered
  BY DEF Up, RecoverParse, ReplayTxn, ReplayDangling, ReplayFails, RecoverFlush,
     RecoverReset, CommitRecovered, RollbackRecovered
<1>14. QED
  BY <1>k, <1>1, <1>2, <1>3, <1>4, <1>5, <1>6, <1>7, <1>8, <1>9, <1>10, <1>11, <1>12, <1>13,
     NoTwoPhase DEF Next

(* Every step keeps the recovery's part. *)
LEMMA RecoveryStep ==
    ASSUME OnlyCrashes, Known, TypeInv', DurableInv, [Next]_vars
    PROVE  RecoveryInv'
<1>k. /\ TypeInv /\ LogInv /\ WriterInv /\ PoolInv /\ TogetherInv /\ RecoveryInv
      /\ Good(mem, logged, file) /\ Good(disk, logged, file)
  BY DEF Known, DurableInv
<1>n. mem \in Image /\ mem.read \in Nat /\ rec.txns \subseteq Chunk /\ \A c \in Chunk : c.id \in Nat
  BY <1>k, NumberTypes
<1>1. CASE RecoverParse
  <2>1. /\ pc' = "replaying" /\ mem' = Sanitized(mem) /\ file' = file
        /\ rec'.txns = {t \in Replayable : Newer(t)}
    BY <1>1 DEF RecoverParse, log
  <2>2. mem'.read = mem.read /\ mem'.applied = mem.applied
    BY <1>n, <2>1, SanitizedFields
  <2>3. ChunksTogether
    BY <1>k DEF TogetherInv
  <2>4. ASSUME NEW c \in Chunk, Commit(file, c)
        PROVE  c.label \in mem.applied \/ PrepareOf(c) \in rec'.txns
    <3>1. PrepareOf(c) \in Replayable /\ PrepareOf(c).id = c.id
      BY <1>k, <2>3, <2>4, ParseComplete DEF PrepareOf
    <3>2. CASE c.id <= mem.read
      BY <1>k, <2>4, <3>2 DEF Good, Older
    <3>3. CASE c.id > mem.read
      BY <2>1, <3>1, <3>3 DEF Newer
    <3>4. QED
      BY <1>n, <3>2, <3>3
  <2>5. \A t \in rec'.txns : t.op = "prepare" /\ Commit(file, CommitOf(t)) /\ t.id > mem.read
    BY <1>k, <2>1, <2>3, ParseComplete DEF Newer
  <2>6. QED
    BY <2>1, <2>2, <2>4, <2>5 DEF RecoveryInv
<1>2. CASE ReplayTxn
  <2>1. PICK t \in rec.txns : /\ \A u \in rec.txns : t.id <= u.id
                              /\ mem' = CommittedImage(Started(mem), {t.label})
                              /\ rec' = [rec EXCEPT !.txns = @ \ {t}, !.have = TRUE]
    BY <1>2 DEF ReplayTxn
  <2>2. file' = file /\ pc = "replaying" /\ pc' = "replaying"
    BY <1>2 DEF ReplayTxn, log
  <2>3. rec'.txns = rec.txns \ {t}
    BY <1>k, <2>1 DEF TypeInv, TypeOK
  <2>4. /\ \A c \in Chunk : Commit(file, c) => c.label \in mem'.applied \/ PrepareOf(c) \in rec.txns \ {t}
        /\ \A u \in rec.txns \ {t} : u.id > mem'.read
    BY <2>1, <2>2, ReplayedGood
  <2>5. \A u \in rec.txns : u.op = "prepare" /\ Commit(file, CommitOf(u))
    BY <1>k, <2>2 DEF RecoveryInv
  <2>6. QED
    BY <2>2, <2>3, <2>4, <2>5 DEF RecoveryInv
<1>3. CASE ReplayDangling
  <2>1. PICK d \in rec.doubt : mem' = PreparedImage(Started(mem), {d.label})
    BY <1>3 DEF ReplayDangling
  <2>2. file' = file /\ pc = "replaying" /\ pc' = "replaying" /\ rec.txns = {}
        /\ rec' = [rec EXCEPT !.doubt = {}, !.have = TRUE]
    BY <1>3 DEF ReplayDangling, log
  <2>3. {d.label} \in SUBSET Labels /\ rec'.txns = {}
    BY <1>k, <2>1, <2>2 DEF TypeInv, TypeOK, Chunk
  <2>4. mem'.applied = mem.applied
    BY <1>n, <2>1, <2>3, StartedFields, PreparedFields
  <2>5. QED
    BY <1>k, <2>2, <2>3, <2>4 DEF RecoveryInv
<1>4. CASE RecoverFlush
  <2>1. /\ pc = "replaying" /\ pc' = "flushed" /\ rec.txns = {} /\ mem' = mem /\ disk' = mem
        /\ file' = file
    BY <1>4 DEF RecoverFlush, OnlyCrashes, log
  <2>2. HasAll(mem, file)
    BY <1>k, <2>1 DEF RecoveryInv, HasAll
  <2>3. QED
    BY <2>1, <2>2 DEF RecoveryInv
<1>5. CASE RecoverReset
  <2>1. mem' = mem /\ disk' = disk /\ logged' = logged /\ pc = "flushed"
        /\ (\A i \in Log : file'[i] = << >>)
        /\ pc' = IF mem.prep THEN "recovered" ELSE "idle"
    BY <1>5 DEF RecoverReset, store, ledger
  <2>2. disk = mem /\ HasAll(mem, file)
    BY <1>k, <2>1 DEF RecoveryInv
  <2>3. logged \subseteq mem.applied
    BY <1>k, <2>2 DEF Good, Restores, HasAll
  <2>4. \A c \in Chunk : ~Commit(file', c)
    BY <2>1, NoCommits
  <2>5. QED
    BY <2>1, <2>2, <2>3, <2>4 DEF RecoveryInv
<1>6. CASE pc' \notin {"replaying", "flushed", "recovered"}
  BY <1>6 DEF RecoveryInv
<1>7. CASE /\ pc \in {"replaying", "flushed", "recovered"}
           /\ TaskChoose \/ TaskTruncate \/ \E id \in tasks : TaskFlush(id)
  <2>1. tasks = {} /\ worker.pc = "idle"
    BY <1>k, <1>7 DEF PoolInv, Up, NoTask
  <2>2. QED
    BY <1>7, <2>1 DEF TaskChoose, TaskTruncate
<1>8. CASE UNCHANGED vars
  BY <1>k, <1>8 DEF vars, RecoveryInv
<1>9. QED
  BY <1>k, <1>1, <1>2, <1>3, <1>4, <1>5, <1>6, <1>7, <1>8, NoTwoPhase
     DEF Next, StartTransaction, WalBegin, Write, CommitPrepare, WalCommit, DbCommit, Rollback,
         TaskFlush, TaskChoose, TaskTruncate, Crash, Loss, Die, ReplayFails,
         CommitRecovered, RollbackRecovered

(* The parts together. *)
LEMMA DurableStep ==
    ASSUME OnlyCrashes
    PROVE  Known /\ TypeInv' /\ DurableInv /\ [Next]_vars => DurableInv'
<1> SUFFICES ASSUME Known, TypeInv', DurableInv, [Next]_vars PROVE DurableInv'
  OBVIOUS
<1>1. Good(mem', logged', file') /\ Good(disk', logged', file')
  BY OnlyCrashes, GoodStep
<1>2. LogInv' /\ WriterInv' /\ PoolInv' /\ RecoveryInv'
  BY OnlyCrashes, LogStep, WriterInvStep, PoolStep, RecoveryStep
<1>3. QED
  BY <1>1, <1>2 DEF DurableInv

(* Under crashes and losses at any point, of the recovery too, a            *)
(* transaction whose COMMIT was synced is in the database once commit() has *)
(* returned or the recovery is over.                                        *)
THEOREM DurableTheorem == ASSUME OnlyCrashes PROVE Spec => []Durable
<1>1. NoRace
  BY OnlyCrashes DEF OnlyCrashes, NoRace
<1>2. TypeInv /\ DurableInv => Durable
  <2>1. SUFFICES ASSUME TypeInv, DurableInv, Running, pc # "durable" PROVE logged \subseteq mem.applied
    BY DEF Durable
  <2>2. WriterInv /\ RecoveryInv
    BY <2>1 DEF DurableInv
  <2>3. CASE pc \in Up
    BY <2>1, <2>2, <2>3 DEF WriterInv
  <2>4. CASE pc = "recovered"
    BY <2>2, <2>4 DEF RecoveryInv
  <2>5. pc \in Up \cup {"recovered"}
    BY <2>1, <2>2 DEF Running, WriterInv, Up, TypeInv, TypeOK
  <2>6. QED
    BY <2>3, <2>4, <2>5
<1>3. QED
  BY <1>1, <1>2, OnlyCrashes, DurableInit, DurableStep, TypeTheorem, TogetherHolds,
     PledgeInit, PledgeStep, PTL DEF Spec, Known
=============================================================================
