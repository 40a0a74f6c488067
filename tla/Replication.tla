----------------------------- MODULE Replication -----------------------------
(***************************************************************************)
(* One-way replication from the database of side S to that of side R:      *)
(* replication/_replication_fsm.hpp (sender and receiver state machines,   *)
(* ReplicationMergePolicy), _transfer.hpp (TransferTrieSender),            *)
(* _big_value_receiver.hpp, _replication_slot.hpp and the hash trie,       *)
(* deletion trie and purge of _replication_db.hpp.                         *)
(*                                                                         *)
(* The sender walks its hash trie and sends one subtrie per message; the   *)
(* receiver compares hashes, acknowledges what it has, keeps the rest in   *)
(* temporary buffers and merges it at the end, or in fractions when the    *)
(* buffers outgrow the memory budget.  First the main trie is sent, then   *)
(* the big values, then the deletion trie.                                 *)
(*                                                                         *)
(* Abstractions.  A transaction's content is a function from keys to       *)
(* values, its trie HashTrie's.  A node takes one unit of a message, a big *)
(* value two units of the stream (header and data).  The transport is a    *)
(* pair of reliable channels that a session opens and a disconnect throws  *)
(* away with both state machines: messages of other sessions and malformed *)
(* messages do not arrive.  Merges are transactions of their own           *)
(* (Mvcc.tla) and acquire_hash_trie() one step.                            *)
(***************************************************************************)
EXTENDS HashTrie

CONSTANTS Keys, SmallValues, BigValues, Stamps,
          RetiredKeys, \* the keys that deletions are about
          BigKeys,     \* the keys that may have a big value
          Cap,         \* nodes in a message
          MaxDepth,    \* _max_depth of a subtrie
          Budgets,     \* possible _memory_budget, in buffers
          ChunkUnits,  \* BIG_VALUE_CHUNK_SIZE
          TmpBig,      \* big values that fit in the temporary area
          MaxBig,      \* _big_value._max_size, in big values
          MaxSessions, \* bound
          MaxEvents,   \* bound: client operations and faults together
          None,        \* no transaction, no trie
          Overlap      \* sides where another session may hold the hash trie

Values == SmallValues \cup BigValues
Side   == {"S", "R"}
Tries  == {"main", "del"}
Empty  == << >>          \* the value of a leaf whose big value is unknown

Contents(V) == UNION {[D -> V] : D \in SUBSET Keys}
Mains       == {m \in Contents(Values) : \A k \in DOMAIN m : m[k] \in BigValues => k \in BigKeys}
Txn == [main : Contents(Values \cup {Empty}), del : Contents(Stamps)]

ASSUME ReplicationAssumption ==
    /\ Cap \in Nat \ {0} /\ MaxDepth \in Nat /\ ChunkUnits \in Nat \ {0}
    /\ Budgets \subseteq Nat \ {0} /\ TmpBig \in Nat /\ MaxBig \in Nat
    /\ Overlap \subseteq Side /\ RetiredKeys \subseteq Keys /\ BigKeys \subseteq Keys
    /\ Empty \notin Values /\ SmallValues \cap BigValues = {} /\ Stamps \cap BigValues = {}
    /\ None \notin Txn

VARIABLES
    db,       \* committed content of both databases
    hash,     \* hash_control: content the hash tries stand for, ref_count
    other,    \* sides where another session holds the hash trie
    snd, rcv, \* the state machines
    toR, toS, \* the messages on their way to each side
    slot,     \* replication_slots: "free", "claimed" (sentinel) or "area"
    loose,    \* areas allocated that no area list and no pool holds
    sent,     \* the snapshot the sender's current round sends
    sessions, ops, faults

vars == <<db, hash, other, snd, rcv, toR, toS, slot, loose, sent, sessions, ops, faults>>
ledger == <<other, sessions, ops, faults>>

NoSnd == [state |-> "IDLE", txn |-> None, db |-> "main", pending |-> << >>,
          last |-> << >>, bigs |-> << >>, lastBigs |-> << >>, pos |-> 0]
NoBig == [expected |-> 0, received |-> 0, got |-> {}, area |-> "none"]
NoRcv(b) == [state |-> "IDLE", txn |-> None, db |-> "main", look |-> "main",
             prune |-> {}, pend |-> 0, new |-> 0, bufs |-> 1, temp |-> None,
             hold |-> None, bigLeaves |-> 0, big |-> NoBig, budget |-> b]

(* A receiver with a budget less than the largest may merge in fractions.   *)
(* Then a run leaves out what makes a fraction gain nothing: big values,    *)
(* keys the receiver has deleted, and a hash trie another session holds.    *)
Fractional == rcv.budget < Max(Budgets)

Pending == [path : UNION {{SubSeq(k, 1, n) : n \in 0 .. Len(k)} : k \in Keys}, next : Nat]
Prune   == [path : UNION {{SubSeq(k, 1, n) : n \in 0 .. Len(k)} : k \in Keys}, leaf : BOOLEAN]

(* Every value in its type; _pending_children never goes below zero, where  *)
(* it would wrap.                                                           *)
TypeOK ==
    /\ db \in [Side -> Txn]
    /\ \A s \in Side : hash[s].txn \in Txn /\ hash[s].refs \in 0 .. 2
    /\ other \subseteq Overlap
    /\ snd.state \in {"IDLE", "AWAITING_RESPONSE", "AWAITING_BIG_VALUE_START_ACK",
                      "AWAITING_BIG_VALUE_ACK", "ERR"}
    /\ snd.txn \in Txn \cup {None} /\ snd.db \in Tries
    /\ \A q \in {snd.pending, snd.last} : \A i \in DOMAIN q : q[i] \in Pending
    /\ rcv.state \in {"IDLE", "RECEIVING", "AWAITING_BIG_VALUES",
                      "RECEIVING_BIG_VALUES", "ERR"}
    /\ rcv.txn \in Txn \cup {None} /\ rcv.db \in Tries /\ rcv.look \in Tries
    /\ rcv.prune \subseteq Prune /\ rcv.pend \in Nat /\ rcv.new \in Nat
    /\ rcv.bufs \in Nat /\ rcv.bigLeaves \in Nat /\ rcv.budget \in Budgets
    /\ rcv.temp \in Contents(Values \cup Stamps) \cup {None}
    /\ rcv.hold \in Contents(Values) \cup {None}
    /\ slot \in {"free", "claimed", "area"} /\ loose \in Nat
    /\ sessions \in 0 .. MaxSessions /\ ops + faults \in 0 .. MaxEvents

-----------------------------------------------------------------------------
(* acquire_hash_trie() and release_hash_trie(): the first session brings    *)
(* the hash trie up to date, the others take the transaction it stands for. *)
Acquire_Current(h, current) == [txn |-> current, refs |-> h.refs + 1]
Acquire(h, current) ==
    [txn |-> IF h.refs = 0 THEN current ELSE h.txn, refs |-> h.refs + 1]
Release(h, txn) == IF txn = None THEN h ELSE [h EXCEPT !.refs = @ - 1]
Reacquire(h, txn, current) == Acquire(Release(h, txn), current)

-----------------------------------------------------------------------------
(* TransferTrieSender *)

(* begin(): start from the root of a trie. *)
BeginTrie_KeepPending(x, d) == [x EXCEPT !.db = d]
BeginTrie(x, d) ==
    [x EXCEPT !.db = d, !.pending = << >>, !.last = << >>, !.bigs = << >>,
              !.lastBigs = << >>]

Count(K, p) == Cardinality(Branches(K, p))

(* _write_subtree(): the nodes of the subtrie at top that a depth first     *)
(* walk of limited depth enters before the buffer is full.                  *)
Shallow(below) == {n \in below : Cardinality({a \in below : Above(a, n)}) <= MaxDepth}
WriteSubtree(K, top) ==
    LET walk == Shallow({n \in Nodes(K) : n = top \/ Above(top, n)})
    IN {n \in walk : Cardinality({m \in walk : Enters(m, n)}) < Cap}

(* The nodes of a message with children that are not in it: _last_batch. *)
Unfinished(K, nodes) ==
    LET in(t) == Cardinality(Children(K, t.path) \cap nodes)
        open == {t \in nodes : t.type = "TRIE" /\ in(t) < Count(K, t.path)}
        seq == Ordered(open, Leaves)
    IN [i \in DOMAIN seq |-> [path |-> seq[i].path, next |-> in(seq[i])]]

BigLeaves(K, content, nodes) ==
    LET seq == Ordered({n \in nodes : n.type = "LEAF" /\ content[n.path] \in BigValues}, Enters)
    IN [i \in DOMAIN seq |-> [key |-> seq[i].path, value |-> content[seq[i].path],
                              path |-> BranchPath(K, seq[i].path)]]

(* fill_buffer(): the root, or the next child of the last pending node,     *)
(* addressed by the path of its parent.                                     *)
NextTop(x, K) ==
    IF K = {} THEN None
    ELSE IF x.pending = << >> THEN Top(K)
    ELSE Ordered(Children(K, Last(x.pending).path), Enters)[Last(x.pending).next + 1]
StillPending(q, K) ==
    IF q = << >> THEN q
    ELSE IF Last(q).next + 1 >= Count(K, Last(q).path) THEN Front(q)
    ELSE [q EXCEPT ![Len(q)].next = @ + 1]
WithNodes(x, w, top, nodes) ==
    [snd |-> [x EXCEPT !.pending = StillPending(@, DOMAIN w),
                       !.last = @ \o Unfinished(DOMAIN w, nodes),
                       !.lastBigs = @ \o BigLeaves(DOMAIN w, x.txn[x.db], nodes)],
     out |-> << [type |-> "TRIE_DATA", db |-> x.db, top |-> top, nodes |-> nodes,
                 path |-> IF x.pending = << >> THEN << >> ELSE Last(x.pending).path,
                 hashes |-> w, content |-> x.txn[x.db]] >>]
WithTop(x, w, top) ==
    WithNodes(x, w, top, IF top = None THEN {} ELSE WriteSubtree(DOMAIN w, top))
FillBuffer(x, h) == WithTop(x, h.txn[x.db], NextTop(x, DOMAIN h.txn[x.db]))

(* _is_pruned_by_ack() and process_ack() *)
Pruned(prune, path, exact) ==
    \E a \in prune : IF a.leaf THEN exact /\ a.path = path ELSE IsPrefix(a.path, path)
Unpruned(q, prune, exact) ==
    IF q = << >> THEN q ELSE SelectSeq(q, LAMBDA e : ~Pruned(prune, e.path, exact))
ProcessAck(x, prune) ==
    [x EXCEPT !.pending = @ \o Unpruned(x.last, prune, FALSE), !.last = << >>,
              !.bigs = @ \o Unpruned(x.lastBigs, prune, TRUE), !.lastBigs = << >>]

-----------------------------------------------------------------------------
(* ReplicationSenderFSM: what a handler leaves and the messages it sends.   *)

SendNextBuffer(x, h) == [FillBuffer(x, h) EXCEPT !.snd.state = "AWAITING_RESPONSE"]

StartDeletionPhase(x, h) == SendNextBuffer(BeginTrie(x, "del"), h)

SendComplete(x, h) ==
    IF x.db = "main" /\ DOMAIN x.txn.del # {} THEN StartDeletionPhase(x, h)
    ELSE [snd |-> [x EXCEPT !.state = "IDLE", !.txn = None], out |-> <<[type |-> "COMPLETE"]>>]

(* _send_big_value_chunk(): pos is the position in the stream of headers    *)
(* and values (_bv_current_idx, _bv_header_bytes_sent, _bv_current_offset). *)
Stream(x) == 2 * Len(x.bigs)
SendBigValueChunk(x) ==
    LET to == Min({x.pos + ChunkUnits, Stream(x)})
    IN [snd |-> [x EXCEPT !.state = "AWAITING_BIG_VALUE_ACK", !.pos = to],
        out |-> <<[type |-> "BIG_VALUE_DATA", from |-> x.pos, to |-> to, bigs |-> x.bigs]>>]

SendBigValueStart(x) ==
    [snd |-> [x EXCEPT !.state = "AWAITING_BIG_VALUE_START_ACK", !.pos = 0],
     out |-> <<[type |-> "BIG_VALUE_START", count |-> Len(x.bigs)]>>]

Continue(x, h) ==
    IF x.pending # << >> THEN SendNextBuffer(x, h)
    ELSE IF x.bigs # << >> THEN SendBigValueStart(x)
    ELSE SendComplete(x, h)
HandleSubtrieAck(x, prune, h) == Continue(ProcessAck(x, prune), h)

HandleBigValueAck(x, h) ==
    IF x.state = "AWAITING_BIG_VALUE_START_ACK" \/ x.pos < Stream(x)
    THEN SendBigValueChunk(x)
    ELSE SendComplete([x EXCEPT !.bigs = << >>], h)

(* begin(): the receiver is ready (the applications begin it first). *)
SenderBegin ==
    /\ snd = NoSnd /\ rcv.state = "RECEIVING" /\ toR = << >> /\ toS = << >>
    /\ sessions < MaxSessions
    /\ \E h \in {Acquire(hash["S"], db["S"])} :
       \E f \in {SendNextBuffer(BeginTrie([snd EXCEPT !.txn = h.txn], "main"), h)} :
          /\ hash' = [hash EXCEPT !["S"] = h]
          /\ snd' = f.snd
          /\ toR' = f.out /\ toS' = toS
          /\ sent' = h.txn
    /\ sessions' = sessions + 1
    /\ UNCHANGED <<db, other, rcv, slot, loose, ops, faults>>

SenderActive == snd.state \notin {"IDLE", "ERR"}

(* on_message_received() and _handle_response() but for FRACTION_COMPLETE *)
HandleResponse(m) ==
    CASE ~SenderActive -> [snd |-> snd, out |-> << >>]
      [] SenderActive /\ m.type = "ERR" -> [snd |-> [snd EXCEPT !.state = "ERR"], out |-> << >>]
      [] SenderActive /\ m.type = "SUBTRIE_ACK" -> HandleSubtrieAck(snd, m.prune, hash["S"])
      [] SenderActive /\ m.type = "BIG_VALUE_ACK" -> HandleBigValueAck(snd, hash["S"])
SenderReceives ==
    /\ toS # << >> /\ Head(toS).type # "FRACTION_COMPLETE"
    /\ \E f \in {HandleResponse(Head(toS))} :
          /\ snd' = f.snd
          /\ hash' = IF f.snd.txn = snd.txn THEN hash
                     ELSE [hash EXCEPT !["S"] = Release(@, snd.txn)]
          /\ toR' = toR \o f.out
    /\ toS' = Tail(toS)
    /\ UNCHANGED <<db, rcv, slot, loose, sent, ledger>>

(* The receiver has merged a fraction: start again from the root, with a    *)
(* new snapshot.                                                            *)
SenderRestarts ==
    /\ toS # << >> /\ Head(toS).type = "FRACTION_COMPLETE" /\ SenderActive
    /\ \E h \in {Reacquire(hash["S"], snd.txn, db["S"])} :
       \E f \in {SendNextBuffer(BeginTrie([snd EXCEPT !.txn = h.txn], snd.db), h)} :
          /\ hash' = [hash EXCEPT !["S"] = h]
          /\ snd' = f.snd
          /\ toR' = toR \o f.out
          /\ sent' = h.txn
    /\ toS' = Tail(toS)
    /\ UNCHANGED <<db, rcv, slot, loose, ledger>>

-----------------------------------------------------------------------------
(* ReplicationReceiverFSM *)

(* begin() *)
ReceiverBegin ==
    /\ rcv = NoRcv(rcv.budget) /\ snd = NoSnd
    /\ sessions < MaxSessions
    /\ LET h == Acquire(hash["R"], db["R"])
       IN /\ hash' = [hash EXCEPT !["R"] = h]
          /\ rcv' = [rcv EXCEPT !.state = "RECEIVING", !.txn = h.txn]
    /\ slot' = "claimed"
    /\ UNCHANGED <<db, snd, toR, toS, loose, sent, ledger>>

(* _hold_pending_main() *)
HoldPendingMain(x) ==
    IF x.temp = None THEN x
    ELSE IF x.new = 0 THEN [x EXCEPT !.temp = None]
    ELSE [x EXCEPT !.hold = x.temp, !.temp = None, !.new = 0, !.bufs = 1]

(* _transition_db_type() *)
TransitionDbType(x, d) ==
    IF d = x.db THEN x
    ELSE [HoldPendingMain(x) EXCEPT !.pend = 0, !.new = 0, !.prune = {},
                                    !.bigLeaves = 0, !.db = d, !.look = d]

(* _compare_leaf_wire_with_local(): a leaf whose hash matches is dropped;   *)
(* only a big one is acknowledged, so that its value is not sent.  Any      *)
(* other leaf is new.                                                       *)
CompareLeaves(x, m, leaves, matched) ==
    LET big == {n \in leaves : m.content[n.path] \in BigValues}
    IN [x EXCEPT
          !.prune = @ \cup {[path |-> n.path, leaf |-> TRUE] : n \in big \cap matched},
          !.new = @ + Cardinality(leaves \ matched),
          !.bigLeaves = @ + Cardinality(big \ matched)]

(* _compare_trie_wire_with_local(): a match acknowledges the whole subtrie; *)
(* without one all children become pending.                                 *)
CompareTries(x, m, tries, matched) ==
    [x EXCEPT
       !.prune = @ \cup {[path |-> n.path, leaf |-> FALSE] : n \in tries \cap matched},
       !.pend = @ + MapThenSumSet(LAMBDA n : Count(DOMAIN m.hashes, n.path), tries \ matched)]

(* _connect_subtrie_to_parent(): a subtrie with an empty path becomes       *)
(* _temp_root; without a root there is nothing to connect to.               *)
Connect_Replace(temp, m, leaves) == leaves
Connect(temp, m, leaves) ==
    IF m.path = << >> THEN leaves
    ELSE IF temp = None THEN None
    ELSE [k \in DOMAIN temp \cup DOMAIN leaves |->
             IF k \in DOMAIN leaves THEN leaves[k] ELSE temp[k]]

(* _compare_wire_with_local(): nodes below a node whose hash matches are    *)
(* not looked at; a node that is looked at is no longer pending.            *)
CompareVisited(x, m, matched, visited, leaves) ==
    LET fresh == [k \in {n.path : n \in leaves \ matched} |-> m.content[k]]
    IN [CompareLeaves(CompareTries(x, m, visited \ leaves, matched), m, leaves, matched) EXCEPT
          !.pend = @ + (IF m.path = << >> THEN 1 ELSE 0) - Cardinality(visited),
          !.temp = IF m.top \in matched THEN @ ELSE Connect(@, m, fresh)]
CompareMatched(x, m, matched) ==
    LET visited == {n \in m.nodes : \A a \in matched : ~Above(a, n)}
    IN CompareVisited(x, m, matched, visited, {n \in visited : n.type = "LEAF"})
CompareWireWithLocal(x, m, local) ==
    CompareMatched(x, m, {n \in m.nodes : HashMatches(local, m.hashes, n)})

(* _process_received_nodes() up to the answer *)
Settled(x) ==
    IF x.pend # 0 \/ x.bigLeaves # 0 \/ x.temp = None THEN x
    ELSE IF x.db = "main" THEN HoldPendingMain(x)
    ELSE IF x.new = 0 THEN [x EXCEPT !.temp = None] ELSE x
ProcessReceivedNodes(x, m, local) ==
    IF m.nodes = {} THEN x ELSE Settled(CompareWireWithLocal(x, m, local))

FractionDue_NoGain(x, m) == m.nodes # {} /\ x.pend # 0 /\ x.bufs > x.budget
FractionDue(x, m) == m.nodes # {} /\ x.pend # 0 /\ x.bufs > x.budget /\ x.new > 0

(* _merge_phase() for the main trie: a key this side has deleted is not     *)
(* added; a big value whose data did not come leaves an empty value.        *)
MayAddLeaf_Always(k, deleted) == TRUE
MayAddLeaf(k, deleted) == k \notin deleted
MigrateBigValue(k, v, got) ==
    IF v \in BigValues /\ [key |-> k, value |-> v] \notin got THEN Empty ELSE v
MergeMain(main, leaves, deleted, got) ==
    LET kept == {k \in DOMAIN leaves : k \in DOMAIN main \/ MayAddLeaf(k, deleted)}
    IN [k \in DOMAIN main \cup kept |->
           IF k \in kept THEN MigrateBigValue(k, leaves[k], got) ELSE main[k]]

(* _merge_phase() for the deletion trie: a record that is new here removes  *)
(* the key from the main trie.                                              *)
MergeDeletions(d, records) ==
    LET new == DOMAIN records \ DOMAIN d.del
    IN [main |-> [k \in DOMAIN d.main \ new |-> d.main[k]],
        del |-> [k \in DOMAIN d.del \cup DOMAIN records |->
                    IF k \in DOMAIN records THEN records[k] ELSE d.del[k]]]

(* _merge_all_phases(): the deletion trie as it was before, then what was   *)
(* received last, then the main trie held back.                             *)
MergeAllPhases(x, d) ==
    LET deleted == DOMAIN d.del
        one == IF x.temp = None THEN d
               ELSE IF x.db = "del" THEN MergeDeletions(d, x.temp)
               ELSE [d EXCEPT !.main = MergeMain(@, x.temp, deleted, x.big.got)]
    IN IF x.hold = None THEN one
       ELSE [one EXCEPT !.main = MergeMain(@, x.hold, deleted, x.big.got)]

Merging(x) == x.temp # None \/ x.hold # None

(* _BigValueReceiver::link_area() and _ReplicationSlot::release(): an area  *)
(* is handed to the transaction or returned to the pool.                    *)
Links(x) == Merging(x) /\ x.big.area = "multi"
AfterLink(x) == IF Links(x) THEN [slot |-> "claimed", loose |-> loose - 1]
                ELSE [slot |-> slot, loose |-> loose]
ReleaseSlot_Forget(a) == slot' = "free" /\ loose' = a.loose
ReleaseSlot(a) ==
    /\ slot' = "free"
    /\ loose' = IF a.slot = "area" THEN a.loose - 1 ELSE a.loose

(* _clear_merge_state() *)
Cleared(x) == [x EXCEPT !.temp = None, !.hold = None, !.big = NoBig]

ReceiverActive == rcv.state \notin {"IDLE", "ERR"}
Incoming(type) == toR # << >> /\ Head(toR).type = type /\ ReceiverActive
Reply(msg) == toR' = Tail(toR) /\ toS' = Append(toS, msg)
(* _finalize_receive_buffer(): every message processed leaves a buffer. *)
Finalized(x) == [x EXCEPT !.bufs = @ + 1]

(* What TRIE_DATA leaves before it is answered. *)
Looked(x, m) == ProcessReceivedNodes(x, m, hash["R"].txn[x.look])
Received == Looked(TransitionDbType(rcv, Head(toR).db), Head(toR))

(* _handle_trie_data(), answered by _send_prune_ack() *)
HandleTrieData ==
    /\ Incoming("TRIE_DATA")
    /\ \E y \in {Received} :
          /\ ~FractionDue(y, Head(toR))
          /\ rcv' = Finalized([y EXCEPT !.prune = {}])
          /\ Reply([type |-> "SUBTRIE_ACK", prune |-> y.prune])
    /\ UNCHANGED <<db, hash, snd, slot, loose, sent, ledger>>

(* _handle_trie_data(), answered by _send_fraction_complete(): merge, take  *)
(* the hash trie again and ask for a new round.                             *)
HandleTrieDataFraction ==
    /\ Incoming("TRIE_DATA")
    /\ \E y \in {Received} :
          /\ FractionDue(y, Head(toR))
          /\ db' = [db EXCEPT !["R"] = MergeAllPhases(y, @)]
          /\ hash' = [hash EXCEPT !["R"] = Reacquire(@, rcv.txn, db'["R"])]
          /\ rcv' = Finalized([Cleared(y) EXCEPT !.txn = hash'["R"].txn, !.look = "main",
                                  !.bufs = 1, !.pend = 0, !.new = 0, !.prune = {}])
          /\ slot' = AfterLink(y).slot /\ loose' = AfterLink(y).loose
    /\ Reply([type |-> "FRACTION_COMPLETE"])
    /\ UNCHANGED <<snd, sent, ledger>>

(* _transition_to_error(); a is the slot after what was done before it. *)
TransitionToError(x, a) ==
    /\ hash' = [hash EXCEPT !["R"] = Release(@, rcv.txn)]
    /\ rcv' = Finalized([x EXCEPT !.state = "ERR", !.txn = None, !.hold = None, !.bufs = 1])
    /\ ReleaseSlot(a)
    /\ Reply([type |-> "ERR"])
    /\ UNCHANGED <<db, snd, sent>>

(* _BigValueReceiver::handle_start(): few values go to the temporary area,  *)
(* more need an area of the storage.                                        *)
BigValueStart(n) == [expected |-> n, received |-> 0, got |-> {},
                     area |-> IF n > TmpBig THEN "multi" ELSE "tmp"]

(* _handle_big_value_start(), with _ReplicationSlot::track_area() *)
HandleBigValueStart ==
    /\ Incoming("BIG_VALUE_START") /\ Head(toR).count <= MaxBig
    /\ LET big == BigValueStart(Head(toR).count)
           multi == big.area = "multi"
       IN /\ rcv' = Finalized([rcv EXCEPT !.state = "AWAITING_BIG_VALUES", !.big = big])
          /\ slot' = IF multi THEN "area" ELSE slot
          /\ loose' = IF multi THEN loose + 1 ELSE loose
    /\ Reply([type |-> "BIG_VALUE_ACK"])
    /\ UNCHANGED <<db, hash, snd, sent, ledger>>

(* ... over the size limit, or no area can be allocated (a fault). *)
HandleBigValueStartFails ==
    /\ Incoming("BIG_VALUE_START")
    /\ \/ Head(toR).count > MaxBig /\ faults' = faults
       \/ /\ Head(toR).count \in TmpBig + 1 .. MaxBig
          /\ ops + faults < MaxEvents /\ faults' = faults + 1
    /\ TransitionToError(rcv, [slot |-> slot, loose |-> loose])
    /\ UNCHANGED <<other, sessions, ops>>

(* _BigValueReceiver::handle_data(): a value is known when its header is    *)
(* complete and counts when its data is.                                    *)
BigValueData(big, m) ==
    LET known == {i \in DOMAIN m.bigs : 2 * i - 1 \in m.from + 1 .. m.to}
        done == {i \in DOMAIN m.bigs : 2 * i \in m.from + 1 .. m.to}
    IN [big EXCEPT !.got = @ \cup {[key |-> m.bigs[i].key, value |-> m.bigs[i].value] : i \in known},
                   !.received = @ + Cardinality(done)]

HandleBigValueData ==
    /\ Incoming("BIG_VALUE_DATA")
    /\ LET y == [rcv EXCEPT !.big = BigValueData(@, Head(toR))]
           all == y.big.received >= y.big.expected
           z == IF all /\ y.db = "main" THEN HoldPendingMain(y) ELSE y
       IN rcv' = Finalized([z EXCEPT !.state = IF all THEN "RECEIVING" ELSE "RECEIVING_BIG_VALUES"])
    /\ Reply([type |-> "BIG_VALUE_ACK"])
    /\ UNCHANGED <<db, hash, snd, slot, loose, sent, ledger>>

(* COMPLETE: merge everything in one transaction and end the session. *)
HandleComplete ==
    /\ Incoming("COMPLETE")
    /\ db' = [db EXCEPT !["R"] = MergeAllPhases(rcv, @)]
    /\ hash' = [hash EXCEPT !["R"] = Release(@, rcv.txn)]
    /\ rcv' = Finalized([Cleared(rcv) EXCEPT !.state = "IDLE", !.txn = None, !.bufs = 1])
    /\ ReleaseSlot(AfterLink(rcv))
    /\ toR' = Tail(toR) /\ toS' = toS
    /\ UNCHANGED <<snd, sent, ledger>>

(* The merge throws (no storage left): rollback() returns what the          *)
(* transaction had linked, and the session ends with an error.              *)
MergeFails ==
    /\ ops + faults < MaxEvents /\ faults' = faults + 1
    /\ \/ /\ Incoming("COMPLETE") /\ Merging(rcv)
          /\ TransitionToError([rcv EXCEPT !.temp = None, !.big = NoBig], AfterLink(rcv))
       \/ /\ Incoming("TRIE_DATA")
          /\ \E y \in {Received} :
                /\ FractionDue(y, Head(toR))
                /\ TransitionToError([y EXCEPT !.temp = None, !.big = NoBig], AfterLink(y))
    /\ UNCHANGED <<other, sessions, ops>>

-----------------------------------------------------------------------------
(* The connection ends, after a session or in the middle of one: the        *)
(* destructors of both state machines run and the messages are gone.        *)
Disconnect ==
    /\ snd # NoSnd \/ rcv # NoRcv(rcv.budget)
    /\ \/ /\ snd.state \in {"IDLE", "ERR"} /\ ~ReceiverActive
          /\ toR = << >> /\ toS = << >> /\ faults' = faults
       \/ ops + faults < MaxEvents /\ faults' = faults + 1
    /\ hash' = [hash EXCEPT !["S"] = Release(@, snd.txn), !["R"] = Release(@, rcv.txn)]
    /\ snd' = NoSnd /\ rcv' = NoRcv(rcv.budget)
    /\ toR' = << >> /\ toS' = << >>
    /\ ReleaseSlot([slot |-> slot, loose |-> loose])
    /\ UNCHANGED <<db, other, sent, sessions, ops>>

(* Process R dies and its storage is opened again: sanitize() resets the    *)
(* reference count and _sanitize_replication_anchors() the slots.           *)
Crash ==
    /\ ops + faults < MaxEvents /\ faults' = faults + 1
    /\ rcv # NoRcv(rcv.budget)
    /\ hash' = [hash EXCEPT !["S"] = Release(@, snd.txn), !["R"].refs = 0]
    /\ other' = other \ {"R"}
    /\ snd' = NoSnd /\ rcv' = NoRcv(rcv.budget)
    /\ toR' = << >> /\ toS' = << >>
    /\ ReleaseSlot([slot |-> slot, loose |-> loose])
    /\ UNCHANGED <<db, sent, sessions, ops>>

(* Another session of the same database takes or leaves its hash trie. *)
OtherBegins(s) ==
    /\ s \in Overlap \ other /\ (Fractional => s = "S")
    /\ other' = other \cup {s}
    /\ hash' = [hash EXCEPT ![s] = Acquire(@, db[s])]
    /\ UNCHANGED <<db, snd, rcv, toR, toS, slot, loose, sent, sessions, ops, faults>>
OtherEnds(s) ==
    /\ s \in other
    /\ other' = other \ {s}
    /\ hash' = [hash EXCEPT ![s].refs = @ - 1]
    /\ UNCHANGED <<db, snd, rcv, toR, toS, slot, loose, sent, sessions, ops, faults>>

(* The clients of a database: insert or change a value, remove a key        *)
(* (_ReplicationCursor::remove() leaves a record), purge an old record      *)
(* (_do_purge()).                                                           *)
Without(f, k) == [j \in DOMAIN f \ {k} |-> f[j]]
With(f, k, v) == [j \in DOMAIN f \cup {k} |-> IF j = k THEN v ELSE f[j]]

Client(s, content) ==
    /\ ops + faults < MaxEvents /\ ops' = ops + 1
    /\ db' = [db EXCEPT ![s] = content]
    /\ UNCHANGED <<hash, other, snd, rcv, toR, toS, slot, loose, sent, sessions, faults>>

Put(s, k, v) ==
    /\ v \in BigValues => k \in BigKeys
    /\ Fractional => v \in SmallValues /\ k \notin RetiredKeys
    /\ Client(s, [db[s] EXCEPT !.main = With(@, k, v)])
Erase(s, k, t) ==
    /\ k \in DOMAIN db[s].main /\ (Fractional => s = "S")
    /\ Client(s, [main |-> Without(db[s].main, k), del |-> With(db[s].del, k, t)])
Purge(s, k) ==
    /\ k \in DOMAIN db[s].del
    /\ Client(s, [db[s] EXCEPT !.del = Without(@, k)])

Init ==
    /\ db \in [Side -> [main : Mains, del : UNION {[D -> Stamps] : D \in SUBSET RetiredKeys}]]
    /\ hash = [s \in Side |-> [txn |-> db[s], refs |-> 0]]
    /\ other = {} /\ snd = NoSnd /\ rcv \in {NoRcv(b) : b \in Budgets}
    /\ db["R"].del = << >>
    /\ Fractional => /\ DOMAIN db["S"].main \cap DOMAIN db["S"].del = {}
                     /\ \A s \in Side : db[s].main \in Contents(SmallValues)
    /\ toR = << >> /\ toS = << >> /\ slot = "free" /\ loose = 0
    /\ sent = db["S"] /\ sessions = 0 /\ ops = 0 /\ faults = 0

SenderStep == SenderReceives \/ SenderRestarts
ReceiverStep ==
    \/ HandleTrieData \/ HandleTrieDataFraction
    \/ HandleBigValueStart \/ HandleBigValueStartFails \/ HandleBigValueData
    \/ HandleComplete \/ MergeFails

Next ==
    \/ ReceiverBegin \/ SenderBegin \/ SenderStep \/ ReceiverStep
    \/ Disconnect \/ Crash
    \/ \E s \in Side : OtherBegins(s) \/ OtherEnds(s)
    \/ \E s \in Side, k \in Keys :
        \/ \E v \in Values : Put(s, k, v)
        \/ k \in RetiredKeys /\ \E t \in Stamps : Erase(s, k, t)
        \/ Purge(s, k)

(* A message that has been sent is handled: the application's loop feeds    *)
(* every message that arrives to the state machine.                         *)
SenderFed   == toS # << >> /\ toS' = Tail(toS)
ReceiverFed == toR # << >> /\ toR' = Tail(toR)
Fairness    == WF_toS(SenderFed) /\ WF_toR(ReceiverFed)

Spec == Init /\ [][Next]_vars /\ Fairness

-----------------------------------------------------------------------------
(* The snapshot a session has pinned is the one the hash trie stands for,   *)
(* as long as it runs: nobody updates the hash trie in place under it, and  *)
(* ref_count counts exactly the sessions that rely on that.                 *)
HashTrieMatchesSnapshot ==
    /\ snd.txn # None => snd.txn = hash["S"].txn
    /\ rcv.txn # None => rcv.txn = hash["R"].txn
    /\ hash["S"].refs = Cardinality({s \in {"S"} : snd.txn # None}) + Cardinality(other \cap {"S"})
    /\ hash["R"].refs = Cardinality({s \in {"R"} : rcv.txn # None}) + Cardinality(other \cap {"R"})

(* The receiver waits for exactly the subtries the sender will still send:  *)
(* when the sender is about to read an acknowledgement, _pending_children   *)
(* is the number of children its pending nodes have left after pruning.     *)
PendingAgrees ==
    (snd.state = "AWAITING_RESPONSE" /\ toS # << >> /\ Head(toS).type = "SUBTRIE_ACK")
    => LET q == ProcessAck(snd, Head(toS).prune).pending
           K == DOMAIN hash["S"].txn[snd.db]
       IN rcv.pend = MapThenSumSet(LAMBDA i : Count(K, q[i].path) - q[i].next, DOMAIN q)

(* An area allocated for big values is in the slot until the transaction or *)
(* the pool has it: none is lost by errors, disconnects or crashes, and     *)
(* none is handed out twice.                                                *)
AreaTracked == loose = IF slot = "area" THEN 1 ELSE 0

At(f, k) == IF k \in DOMAIN f THEN <<f[k]>> ELSE << >>

(* A session that ends with COMPLETE has delivered the sender's snapshot.   *)
(* For a key whose state the receiver's clients have not changed since the  *)
(* hashes were taken: what the sender has and never deleted is there, with  *)
(* the same value, unless this side had deleted it; what the sender has     *)
(* deleted is gone, unless it was put in again with a value that differs    *)
(* from the receiver's; and a key the sender never had is untouched.        *)
CompleteDelivers ==
    [][Incoming("COMPLETE") /\ rcv'.state = "IDLE" /\ faults' = faults =>
        \A k \in Keys :
            LET before == db["R"]
                after == db'["R"]
                base == rcv.txn
                steady == /\ At(before.main, k) = At(base.main, k)
                          /\ At(before.del, k) = At(base.del, k)
                in == k \in DOMAIN sent.main
                gone == k \in DOMAIN sent.del
            IN steady =>
                /\ in /\ ~gone /\ k \notin DOMAIN before.del
                   => At(after.main, k) = At(sent.main, k)
                /\ gone => At(after.del, k) = At(sent.del, k)
                /\ gone /\ ~in /\ k \notin DOMAIN before.del => k \notin DOMAIN after.main
                /\ gone /\ in /\ k \notin DOMAIN before.del
                   /\ At(sent.main, k) # At(base.main, k)
                   => At(after.main, k) = At(sent.main, k)
                /\ ~in /\ ~gone => At(after.main, k) = At(before.main, k)]_vars

(* No merge, of a whole session or of a fraction, brings back a key that    *)
(* this side has deleted and not inserted again.                            *)
NoResurrection ==
    [][(db'["R"] # db["R"] /\ ops' = ops) =>
        \A k \in DOMAIN db["R"].del \ DOMAIN db["R"].main : k \notin DOMAIN db'["R"].main]_vars

(* A session ends on both sides, with success or with an error, whatever    *)
(* the clients write meanwhile.                                             *)
SessionEnds == SenderActive ~> ~SenderActive /\ ~ReceiverActive
==============================================================================
