------------------------- MODULE ReplicationProofs -------------------------
(***************************************************************************)
(* Proofs about replication (Replication.tla), for any keys, values,       *)
(* message sizes, budgets and numbers of sessions.                         *)
(*                                                                         *)
(* The properties are about slots, snapshots and merges; what makes them   *)
(* inductive is the protocol: the two state machines take turns, so that   *)
(* what a message says about the state of its sender is still so when it   *)
(* arrives.                                                                *)
(***************************************************************************)
EXTENDS Replication, FiniteSetTheorems, TLAPS

(* What a trie of a transaction may contain, and the types of a transaction *)
(* that is not there.                                                       *)
TrieType(d) == IF d = "main" THEN Contents(Values \cup {Empty}) ELSE Contents(Stamps)
Snapshot == Txn \cup {None}

(* The state machines are records; the sender of a deletion trie has no     *)
(* big values, the receiver keeps what it gets of a trie in that trie's     *)
(* type.                                                                    *)
SndFields == {"state", "txn", "db", "pending", "last", "bigs", "lastBigs", "pos"}
RcvFields == {"state", "txn", "db", "look", "prune", "pend", "new", "bufs", "temp",
              "hold", "bigLeaves", "big", "budget"}

SndOK(x) ==
    /\ DOMAIN x = SndFields
    /\ x.txn \in Snapshot /\ x.db \in Tries
    /\ x.db = "del" => x.bigs = << >> /\ x.lastBigs = << >>
RcvOK(x) ==
    /\ DOMAIN x = RcvFields /\ DOMAIN x.big = {"expected", "received", "got", "area"}
    /\ x.txn \in Snapshot /\ x.db \in Tries /\ x.look \in Tries
    /\ x.temp \in TrieType(x.db) \cup {None} /\ x.hold \in TrieType("main") \cup {None}

(* A message of the sender's transfer: its leaves are keys of its content. *)
TrieMsg(m) ==
    /\ m.db \in Tries /\ m.content \in TrieType(m.db)
    /\ \A n \in m.nodes : n.type = "LEAF" => n.path \in DOMAIN m.content

Typed ==
    /\ db \in [Side -> Txn]
    /\ hash \in [Side -> [txn : Txn, refs : Nat]]
    /\ other \subseteq Side
    /\ SndOK(snd) /\ RcvOK(rcv)

(* One message is on its way at most: the two state machines take turns. *)
One(q) == q = << >> \/ q = <<Head(q)>>
Turns == One(toR) /\ One(toS) /\ (toR = << >> \/ toS = << >>)

(* What a message on its way says about the sender: only COMPLETE leaves it *)
(* inactive, a subtrie is of the trie it is at, and BIG_VALUE_START comes   *)
(* with the main trie.  Only an error is answered to a sender that stopped. *)
ToRInv ==
    toR # << >> =>
        /\ Head(toR).type \in {"TRIE_DATA", "BIG_VALUE_START", "BIG_VALUE_DATA", "COMPLETE"}
        /\ Head(toR).type # "COMPLETE" => SenderActive
        /\ Head(toR).type = "TRIE_DATA" => TrieMsg(Head(toR)) /\ Head(toR).db = snd.db
        /\ Head(toR).type = "BIG_VALUE_START" => snd.db = "main"
ToSInv ==
    toS # << >> =>
        /\ Head(toS).type \in {"SUBTRIE_ACK", "BIG_VALUE_ACK", "FRACTION_COMPLETE", "ERR"}
        /\ Head(toS).type # "ERR" => SenderActive

(* An active side has a snapshot, and the receiver is not ahead of the      *)
(* sender.                                                                  *)
SessionInv ==
    /\ SenderActive => snd.txn # None
    /\ ReceiverActive => rcv.txn # None
    /\ rcv.db = "del" => snd.db = "del"

(* The slot is claimed while the receiver is active and has the area it     *)
(* works with.  While it has one, the sender is past BIG_VALUE_START: it    *)
(* sends the data, or the deletion trie.                                    *)
SlotInv ==
    /\ ~ReceiverActive => slot = "free"
    /\ ReceiverActive /\ rcv.big.area = "multi" => slot = "area"
    /\ slot = "area" /\ snd.db = "main" =>
        \/ toR # << >> /\ Head(toR).type \in {"BIG_VALUE_DATA", "COMPLETE"}
        \/ toS # << >> /\ Head(toS).type = "BIG_VALUE_ACK"

-----------------------------------------------------------------------------
(* Facts about short sequences. *)

(* A sequence of one message, and what is left of it. *)
LEMMA Singleton == ASSUME NEW m PROVE
    /\ <<m>> # << >> /\ Head(<<m>>) = m /\ Tail(<<m>>) = << >>
    /\ << >> \o <<m>> = <<m>> /\ Append(<< >>, m) = <<m>> /\ << >> \o << >> = << >>
  OBVIOUS

(* The empty set in any order is the empty sequence. *)
LEMMA NothingOrdered == ASSUME NEW S, S = {} PROVE Ordered(S, Enters) = << >>
  <1>1. Cardinality(S) = 0 BY FS_EmptySet
  <1>2. 1 .. 0 = {} OBVIOUS
  <1> QED BY <1>1, <1>2 DEF Ordered

(* A trie's content is a function of keys of the right type. *)
LEMMA ContentsForm == ASSUME NEW V, NEW f \in Contents(V) PROVE
    DOMAIN f \subseteq Keys /\ f \in [DOMAIN f -> V]
  BY DEF Contents
(* ... and any such function is a content. *)
LEMMA ContentsMember == ASSUME NEW V, NEW D, NEW f, D \subseteq Keys, f \in [D -> V]
    PROVE f \in Contents(V)
  BY DEF Contents
(* A transaction has tries of the right type. *)
LEMMA TrieOf == ASSUME NEW t \in Txn, NEW d \in Tries PROVE t[d] \in TrieType(d)
  BY DEF Txn, Tries, TrieType

(* The leaves of a subtrie are keys of the trie. *)
LEMMA SubtreeLeaves == ASSUME NEW K, NEW top, NEW n \in WriteSubtree(K, top), n.type = "LEAF"
    PROVE n.path \in K
  <1>1. n \in Nodes(K) BY DEF WriteSubtree, Shallow
  <1>2. \A p : TrieNode(p).type # "LEAF" BY DEF TrieNode
  <1>3. \E k \in K : n = LeafNode(k) BY <1>1, <1>2 DEF Nodes
  <1> QED BY <1>3 DEF LeafNode

(* A deletion trie has no big values. *)
LEMMA NoBigStamps == ASSUME NEW c \in TrieType("del"), NEW nodes,
                           \A n \in nodes : n.type = "LEAF" => n.path \in DOMAIN c
    PROVE BigLeaves(DOMAIN c, c, nodes) = << >>
  <1> DEFINE S == {n \in nodes : n.type = "LEAF" /\ c[n.path] \in BigValues}
             q == Ordered(S, Enters)
  <1>1. \A k \in DOMAIN c : c[k] \in Stamps BY ContentsForm DEF TrieType
  <1>2. S = {} BY <1>1, ReplicationAssumption
  <1>3. q = << >> BY <1>2, NothingOrdered
  <1> HIDE DEF q
  <1>4. BigLeaves(DOMAIN c, c, nodes) =
         [i \in DOMAIN q |-> [key |-> q[i].path, value |-> c[q[i].path],
                              path |-> BranchPath(DOMAIN c, q[i].path)]]
    BY DEF BigLeaves, q
  <1> QED BY <1>3, <1>4

-----------------------------------------------------------------------------
(* The sender. *)

(* fill_buffer(): the message is about the trie that is being sent, its     *)
(* leaves are keys of it, and no big value is collected from a deletion     *)
(* trie.                                                                    *)
LEMMA FillBufferLemma ==
    ASSUME NEW x, SndOK(x), NEW h, x.txn \in Txn, h.txn = x.txn
    PROVE LET f == FillBuffer(x, h)
          IN /\ SndOK(f.snd) /\ f.snd.txn = x.txn /\ f.snd.db = x.db /\ f.snd.state = x.state
             /\ DOMAIN f = {"snd", "out"}
             /\ f.out = <<Head(f.out)>> /\ Head(f.out).type = "TRIE_DATA"
             /\ TrieMsg(Head(f.out)) /\ Head(f.out).db = x.db
  <1> DEFINE w == x.txn[x.db]
             top == NextTop(x, DOMAIN w)
             nodes == IF top = None THEN {} ELSE WriteSubtree(DOMAIN w, top)
             f == WithNodes(x, w, top, nodes)
  <1>1. FillBuffer(x, h) = f BY DEF FillBuffer, WithTop
  <1>2. w \in TrieType(x.db) BY TrieOf DEF SndOK
  <1>3. \A n \in nodes : n.type = "LEAF" => n.path \in DOMAIN w BY SubtreeLeaves
  <1> HIDE DEF nodes, top
  <1>4. x.db = "del" => BigLeaves(DOMAIN w, w, nodes) = << >> BY <1>2, <1>3, NoBigStamps
  <1> DEFINE m == [type |-> "TRIE_DATA", db |-> x.db, top |-> top, nodes |-> nodes,
                   path |-> IF x.pending = << >> THEN << >> ELSE Last(x.pending).path,
                   hashes |-> w, content |-> w]
             y == [x EXCEPT !.pending = StillPending(@, DOMAIN w),
                       !.last = @ \o Unfinished(DOMAIN w, nodes),
                       !.lastBigs = @ \o BigLeaves(DOMAIN w, w, nodes)]
  <1>5. f = [snd |-> y, out |-> <<m>>] BY DEF WithNodes
  <1>6. m.type = "TRIE_DATA" /\ m.db = x.db /\ m.content = w /\ m.nodes = nodes OBVIOUS
  <1>7. /\ DOMAIN y = SndFields /\ y.txn = x.txn /\ y.db = x.db /\ y.state = x.state
        /\ y.bigs = x.bigs /\ y.lastBigs = x.lastBigs \o BigLeaves(DOMAIN w, w, nodes)
    BY DEF SndOK, SndFields
  <1> HIDE DEF m, y
  <1>8. SndOK(y) BY <1>4, <1>7, Singleton DEF SndOK
  <1>9. TrieMsg(m) BY <1>2, <1>3, <1>6 DEF TrieMsg, SndOK
  <1>10. f.snd = y /\ f.out = <<m>> /\ DOMAIN f = {"snd", "out"} BY <1>5
  <1> HIDE DEF f, w
  <1> QED BY <1>1, <1>6, <1>7, <1>8, <1>9, <1>10, Singleton
(* BeginTrie, the start of a round, and a handler's continuation. *)
LEMMA BeginTrieLemma ==
    ASSUME NEW x, DOMAIN x = SndFields, x.txn \in Snapshot, NEW d \in Tries
    PROVE LET y == BeginTrie(x, d)
          IN SndOK(y) /\ y.txn = x.txn /\ y.db = d /\ y.state = x.state
  BY DEF BeginTrie, SndOK, SndFields

(* What a handler of the sender leaves: the snapshot is still pinned or the *)
(* session is over; the message it sends, if any.                           *)
Sends(x, f) ==
    /\ SndOK(f.snd)
    /\ f.snd.txn \in {x.txn, None}
    /\ x.db = "del" => f.snd.db = "del"
    /\ f.snd.state \notin {"IDLE", "ERR"} => f.snd.txn # None
    /\ f.out = <<Head(f.out)>>
    /\ Head(f.out).type \in {"TRIE_DATA", "BIG_VALUE_START", "BIG_VALUE_DATA", "COMPLETE"}
    /\ Head(f.out).type # "COMPLETE" => f.snd.state \notin {"IDLE", "ERR"}
    /\ Head(f.out).type = "TRIE_DATA" => TrieMsg(Head(f.out)) /\ Head(f.out).db = f.snd.db
    /\ Head(f.out).type = "BIG_VALUE_START" => f.snd.db = "main"

(* _send_next_buffer(): TRIE_DATA is sent, the snapshot stays pinned. *)
LEMMA SendNextBufferLemma ==
    ASSUME NEW x, SndOK(x), NEW h, x.txn \in Txn, h.txn = x.txn
    PROVE LET f == SendNextBuffer(x, h)
          IN /\ Sends(x, f) /\ f.snd.txn = x.txn /\ f.snd.db = x.db
             /\ Head(f.out).type = "TRIE_DATA" /\ f.snd.state = "AWAITING_RESPONSE"
  <1> DEFINE g == FillBuffer(x, h)
             f == SendNextBuffer(x, h)
             y == [g.snd EXCEPT !.state = "AWAITING_RESPONSE"]
  <1>1. /\ SndOK(g.snd) /\ g.snd.txn = x.txn /\ g.snd.db = x.db
        /\ DOMAIN g = {"snd", "out"}
        /\ g.out = <<Head(g.out)>> /\ Head(g.out).type = "TRIE_DATA"
        /\ TrieMsg(Head(g.out)) /\ Head(g.out).db = x.db
    BY FillBufferLemma
  <1> HIDE DEF g
  <1>2. f = [g EXCEPT !.snd = y] BY DEF SendNextBuffer, g
  <1>3. f.snd = y /\ f.out = g.out BY <1>1, <1>2
  <1>4. /\ SndOK(y) /\ y.txn = x.txn /\ y.db = x.db /\ y.state = "AWAITING_RESPONSE"
    BY <1>1 DEF SndOK, SndFields
  <1>5. x.txn # None BY ReplicationAssumption
  <1> HIDE DEF y
  <1> QED BY <1>1, <1>3, <1>4, <1>5 DEF Sends

(* _send_complete(): the deletion trie is begun, or COMPLETE ends the       *)
(* session and gives the snapshot back.                                     *)
LEMMA SendCompleteLemma ==
    ASSUME NEW x, SndOK(x), NEW h, x.txn \in Txn, h.txn = x.txn
    PROVE LET f == SendComplete(x, h)
          IN /\ Sends(x, f)
             /\ f.snd.db = "main" => Head(f.out).type = "COMPLETE"
             /\ Head(f.out).type \in {"TRIE_DATA", "COMPLETE"}
  <1> DEFINE f == SendComplete(x, h)
  <1>1. CASE x.db = "main" /\ DOMAIN x.txn.del # {}
    <2> DEFINE y == BeginTrie(x, "del")
    <2>1. SndOK(y) /\ y.txn = x.txn /\ y.db = "del"
      BY BeginTrieLemma DEF SndOK, Tries, Snapshot
    <2>2. f = SendNextBuffer(y, h) BY <1>1 DEF SendComplete, StartDeletionPhase
    <2> HIDE DEF y
    <2>3. /\ Sends(y, f) /\ f.snd.db = "del" /\ Head(f.out).type = "TRIE_DATA"
      BY <2>1, <2>2, SendNextBufferLemma
    <2> QED BY <2>1, <2>3 DEF Sends
  <1>2. CASE ~(x.db = "main" /\ DOMAIN x.txn.del # {})
    <2> DEFINE y == [x EXCEPT !.state = "IDLE", !.txn = None]
               m == [type |-> "COMPLETE"]
    <2>1. f.snd = y /\ f.out = <<m>> BY <1>2 DEF SendComplete
    <2>2. SndOK(y) /\ y.txn = None /\ y.db = x.db /\ y.state = "IDLE"
      BY DEF SndOK, SndFields, Snapshot
    <2>3. m.type = "COMPLETE" OBVIOUS
    <2> HIDE DEF y, m
    <2> QED BY <2>1, <2>2, <2>3, Singleton DEF Sends
  <1> QED BY <1>1, <1>2

(* _send_big_value_start() is reached in the main trie only. *)
LEMMA SendBigValueStartLemma ==
    ASSUME NEW x, SndOK(x), x.txn \in Txn, x.db = "main"
    PROVE Sends(x, SendBigValueStart(x))
  <1> DEFINE y == [x EXCEPT !.state = "AWAITING_BIG_VALUE_START_ACK", !.pos = 0]
             m == [type |-> "BIG_VALUE_START", count |-> Len(x.bigs)]
             f == SendBigValueStart(x)
  <1>1. f.snd = y /\ f.out = <<m>> BY DEF SendBigValueStart
  <1>2. SndOK(y) /\ y.txn = x.txn /\ y.db = x.db /\ y.state = "AWAITING_BIG_VALUE_START_ACK"
    BY DEF SndOK, SndFields
  <1>3. m.type = "BIG_VALUE_START" OBVIOUS
  <1>4. x.txn # None BY ReplicationAssumption
  <1> HIDE DEF y, m
  <1> QED BY <1>1, <1>2, <1>3, <1>4, Singleton DEF Sends

(* _send_big_value_chunk() sends BIG_VALUE_DATA. *)
LEMMA SendBigValueChunkLemma ==
    ASSUME NEW x, SndOK(x), x.txn \in Txn
    PROVE Sends(x, SendBigValueChunk(x)) /\ Head(SendBigValueChunk(x).out).type = "BIG_VALUE_DATA"
  <1> DEFINE to == Min({x.pos + ChunkUnits, Stream(x)})
             y == [x EXCEPT !.state = "AWAITING_BIG_VALUE_ACK", !.pos = to]
             m == [type |-> "BIG_VALUE_DATA", from |-> x.pos, to |-> to, bigs |-> x.bigs]
             f == SendBigValueChunk(x)
  <1>1. f.snd = y /\ f.out = <<m>> BY DEF SendBigValueChunk
  <1> HIDE DEF to
  <1>2. SndOK(y) /\ y.txn = x.txn /\ y.db = x.db /\ y.state = "AWAITING_BIG_VALUE_ACK"
    BY DEF SndOK, SndFields
  <1>3. m.type = "BIG_VALUE_DATA" OBVIOUS
  <1>4. x.txn # None BY ReplicationAssumption
  <1> HIDE DEF y, m
  <1> QED BY <1>1, <1>2, <1>3, <1>4, Singleton DEF Sends

(* A SUBTRIE_ACK is answered by one message, and by BIG_VALUE_START only    *)
(* while the main trie is sent.                                             *)
LEMMA HandleSubtrieAckLemma ==
    ASSUME NEW x, SndOK(x), NEW h, x.txn \in Txn, h.txn = x.txn, NEW prune
    PROVE Sends(x, HandleSubtrieAck(x, prune, h))
  <1> DEFINE y == ProcessAck(x, prune)
             f == HandleSubtrieAck(x, prune, h)
  <1>1. x.lastBigs = << >> => Unpruned(x.lastBigs, prune, TRUE) = << >> BY DEF Unpruned
  <1>2. /\ DOMAIN y = SndFields /\ y.txn = x.txn /\ y.db = x.db
        /\ y.bigs = x.bigs \o Unpruned(x.lastBigs, prune, TRUE) /\ y.lastBigs = << >>
    BY DEF ProcessAck, SndOK, SndFields
  <1> HIDE DEF y
  <1>3. SndOK(y) BY <1>1, <1>2, Singleton DEF SndOK
  <1>4. f = Continue(y, h) BY DEF HandleSubtrieAck, y
  <1>5. Sends(y, f)
    <2>1. CASE y.pending # << >> BY <1>2, <1>3, <1>4, <2>1, SendNextBufferLemma DEF Continue
    <2>2. CASE y.pending = << >> /\ y.bigs # << >>
      <3>1. y.db = "main" BY <1>3, <2>2 DEF SndOK, Tries
      <3> QED BY <1>2, <1>3, <1>4, <2>2, <3>1, SendBigValueStartLemma DEF Continue
    <2>3. CASE y.pending = << >> /\ y.bigs = << >>
      BY <1>2, <1>3, <1>4, <2>3, SendCompleteLemma DEF Continue
    <2> QED BY <2>1, <2>2, <2>3
  <1> QED BY <1>2, <1>5 DEF Sends

(* A BIG_VALUE_ACK is answered by data, by the deletion trie or by          *)
(* COMPLETE: never by another BIG_VALUE_START.                              *)
LEMMA HandleBigValueAckLemma ==
    ASSUME NEW x, SndOK(x), NEW h, x.txn \in Txn, h.txn = x.txn
    PROVE LET f == HandleBigValueAck(x, h)
          IN Sends(x, f) /\ (f.snd.db = "main" =>
                Head(f.out).type \in {"BIG_VALUE_DATA", "COMPLETE"})
  <1> DEFINE f == HandleBigValueAck(x, h)
  <1>1. CASE x.state = "AWAITING_BIG_VALUE_START_ACK" \/ x.pos < Stream(x)
    BY <1>1, SendBigValueChunkLemma DEF HandleBigValueAck
  <1>2. CASE ~(x.state = "AWAITING_BIG_VALUE_START_ACK" \/ x.pos < Stream(x))
    <2> DEFINE y == [x EXCEPT !.bigs = << >>]
    <2>1. f = SendComplete(y, h) BY <1>2 DEF HandleBigValueAck
    <2>2. SndOK(y) /\ y.txn = x.txn /\ y.db = x.db BY DEF SndOK, SndFields
    <2> HIDE DEF y
    <2>3. Sends(y, f) /\ (f.snd.db = "main" => Head(f.out).type = "COMPLETE")
      BY <2>1, <2>2, SendCompleteLemma
    <2> QED BY <2>2, <2>3 DEF Sends
  <1> QED BY <1>1, <1>2
-----------------------------------------------------------------------------
(* The receiver: what is done to a message changes neither the session nor  *)
(* its area, and keeps what was received in the type of its trie.           *)
Keeps(x, y) == y.state = x.state /\ y.txn = x.txn /\ y.big = x.big

(* _hold_pending_main() moves what was received of the main trie. *)
LEMMA HoldPendingMainLemma ==
    ASSUME NEW x, RcvOK(x), x.db = "main"
    PROVE LET y == HoldPendingMain(x)
          IN RcvOK(y) /\ Keeps(x, y) /\ y.db = x.db /\ y.look = x.look /\ y.temp = None
  <1> DEFINE y == HoldPendingMain(x)
  <1>1. /\ DOMAIN y = RcvFields /\ Keeps(x, y) /\ y.db = x.db /\ y.look = x.look
        /\ y.temp = None /\ y.hold \in {x.hold, x.temp}
    BY DEF HoldPendingMain, RcvOK, RcvFields, Keeps
  <1> HIDE DEF y
  <1>2. RcvOK(y) BY <1>1 DEF RcvOK, Keeps
  <1> QED BY <1>1, <1>2 DEF y

(* _transition_db_type() goes from the main trie to the deletion trie and   *)
(* leaves nothing of the first in the buffer of the second.                 *)
LEMMA TransitionDbTypeLemma ==
    ASSUME NEW x, RcvOK(x), NEW d \in Tries, x.db = "del" => d = "del"
    PROVE LET y == TransitionDbType(x, d)
          IN RcvOK(y) /\ Keeps(x, y) /\ y.db = d
  <1> DEFINE y == TransitionDbType(x, d)
             z == HoldPendingMain(x)
  <1>1. CASE d = x.db BY <1>1 DEF TransitionDbType, Keeps
  <1>2. CASE d # x.db
    <2>1. x.db = "main" /\ d = "del" BY <1>2 DEF RcvOK, Tries
    <2>2. RcvOK(z) /\ Keeps(x, z) /\ z.temp = None BY <2>1, HoldPendingMainLemma
    <2> HIDE DEF z
    <2>3. y = [z EXCEPT !.pend = 0, !.new = 0, !.prune = {},
                        !.bigLeaves = 0, !.db = d, !.look = d]
      BY <1>2 DEF TransitionDbType, z
    <2>4. /\ DOMAIN y = RcvFields /\ y.txn = z.txn /\ y.state = z.state /\ y.big = z.big
          /\ y.db = d /\ y.look = d /\ y.temp = None /\ y.hold = z.hold
      BY <2>2, <2>3 DEF RcvOK, RcvFields
    <2> HIDE DEF y
    <2>5. RcvOK(y) BY <2>2, <2>4 DEF RcvOK
    <2> QED BY <2>2, <2>4, <2>5 DEF Keeps, y
  <1> QED BY <1>1, <1>2

(* _connect_subtrie_to_parent() joins leaves of one trie. *)
LEMMA ConnectLemma ==
    ASSUME NEW d, NEW temp \in TrieType(d) \cup {None}, NEW leaves \in TrieType(d), NEW m
    PROVE Connect(temp, m, leaves) \in TrieType(d) \cup {None}
  <1> DEFINE g == [k \in DOMAIN temp \cup DOMAIN leaves |->
                      IF k \in DOMAIN leaves THEN leaves[k] ELSE temp[k]]
  <1>1. PICK V : TrieType(d) = Contents(V) BY DEF TrieType
  <1>2. CASE temp \in TrieType(d)
    <2>1. /\ DOMAIN temp \subseteq Keys /\ temp \in [DOMAIN temp -> V]
          /\ DOMAIN leaves \subseteq Keys /\ leaves \in [DOMAIN leaves -> V]
      BY <1>1, <1>2, ContentsForm
    <2>2. g \in [DOMAIN temp \cup DOMAIN leaves -> V] BY <2>1
    <2>3. DOMAIN temp \cup DOMAIN leaves \subseteq Keys BY <2>1
    <2> HIDE DEF g
    <2>4. g \in Contents(V) BY <2>2, <2>3, ContentsMember
    <2> QED BY <1>1, <2>4 DEF Connect, g
  <1>3. CASE temp = None BY <1>3 DEF Connect
  <1> QED BY <1>2, <1>3

(* _compare_wire_with_local() collects leaves of the trie that was sent. *)
LEMMA CompareLemma ==
    ASSUME NEW x, RcvOK(x), NEW m, TrieMsg(m), m.db = x.db, NEW local
    PROVE LET y == CompareWireWithLocal(x, m, local)
          IN RcvOK(y) /\ Keeps(x, y) /\ y.db = x.db
  <1> DEFINE matched == {n \in m.nodes : HashMatches(local, m.hashes, n)}
             visited == {n \in m.nodes : \A a \in matched : ~Above(a, n)}
             leaves == {n \in visited : n.type = "LEAF"}
             fresh == [k \in {n.path : n \in leaves \ matched} |-> m.content[k]]
             t == CompareTries(x, m, visited \ leaves, matched)
             l == CompareLeaves(t, m, leaves, matched)
             y == CompareVisited(x, m, matched, visited, leaves)
  <1>1. CompareWireWithLocal(x, m, local) = y
    BY DEF CompareWireWithLocal, CompareMatched
  <1>2. fresh \in TrieType(x.db)
    <2>1. PICK V : TrieType(x.db) = Contents(V) BY DEF TrieType
    <2>2. DOMAIN m.content \subseteq Keys /\ m.content \in [DOMAIN m.content -> V]
      BY <2>1, ContentsForm DEF TrieMsg
    <2>3. {n.path : n \in leaves \ matched} \subseteq DOMAIN m.content BY DEF TrieMsg
    <2> DEFINE D == {n.path : n \in leaves \ matched}
    <2> HIDE DEF D
    <2>4. [k \in D |-> m.content[k]] \in [D -> V] /\ D \subseteq Keys BY <2>2, <2>3 DEF D
    <2>5. [k \in D |-> m.content[k]] \in Contents(V) BY <2>4, ContentsMember
    <2> QED BY <2>1, <2>5 DEF D
  <1> HIDE DEF matched, visited, leaves, fresh
  <1>3. DOMAIN t = RcvFields /\ Keeps(x, t)
        /\ t.db = x.db /\ t.look = x.look /\ t.temp = x.temp /\ t.hold = x.hold
    BY DEF CompareTries, RcvOK, RcvFields, Keeps
  <1> HIDE DEF t
  <1>4. DOMAIN l = RcvFields /\ Keeps(t, l)
        /\ l.db = t.db /\ l.look = t.look /\ l.temp = t.temp /\ l.hold = t.hold
    BY <1>3 DEF CompareLeaves, RcvFields, Keeps
  <1> HIDE DEF l
  <1>5. y = [l EXCEPT
          !.pend = @ + (IF m.path = << >> THEN 1 ELSE 0) - Cardinality(visited),
          !.temp = IF m.top \in matched THEN @ ELSE Connect(@, m, fresh)]
    BY DEF CompareVisited, l, t, fresh
  <1>6. /\ DOMAIN y = RcvFields /\ Keeps(l, y) /\ y.db = l.db /\ y.look = l.look
        /\ y.temp \in {l.temp, Connect(l.temp, m, fresh)} /\ y.hold = l.hold
    BY <1>4, <1>5 DEF RcvFields, Keeps
  <1> HIDE DEF y
  <1>7. y.temp \in TrieType(x.db) \cup {None}
    BY <1>2, <1>3, <1>4, <1>6, ConnectLemma DEF RcvOK
  <1>8. /\ Keeps(x, y) /\ y.db = x.db /\ y.look = x.look /\ y.hold = x.hold
    BY <1>3, <1>4, <1>6 DEF Keeps
  <1>9. RcvOK(y) BY <1>6, <1>7, <1>8 DEF RcvOK, Keeps
  <1> QED BY <1>1, <1>8, <1>9

(* _process_received_nodes() keeps the types and the session. *)
LEMMA ProcessLemma ==
    ASSUME NEW x, RcvOK(x), NEW m, TrieMsg(m), m.db = x.db, NEW local
    PROVE LET y == ProcessReceivedNodes(x, m, local)
          IN RcvOK(y) /\ Keeps(x, y) /\ y.db = x.db
  <1> DEFINE z == CompareWireWithLocal(x, m, local)
             y == ProcessReceivedNodes(x, m, local)
  <1>1. RcvOK(z) /\ Keeps(x, z) /\ z.db = x.db BY CompareLemma
  <1> HIDE DEF z
  <1>2. CASE m.nodes = {} BY <1>2 DEF ProcessReceivedNodes, Keeps
  <1>3. CASE m.nodes # {}
    <2>1. y = Settled(z) BY <1>3 DEF ProcessReceivedNodes, z
    <2>2. CASE z.pend # 0 \/ z.bigLeaves # 0 \/ z.temp = None
      BY <1>1, <2>1, <2>2 DEF Settled, Keeps
    <2>3. CASE ~(z.pend # 0 \/ z.bigLeaves # 0 \/ z.temp = None) /\ z.db = "main"
      <3>1. y = HoldPendingMain(z) BY <2>1, <2>3 DEF Settled
      <3>2. RcvOK(y) /\ Keeps(z, y) /\ y.db = z.db BY <1>1, <2>3, <3>1, HoldPendingMainLemma
      <3> QED BY <1>1, <3>2 DEF Keeps
    <2>4. CASE ~(z.pend # 0 \/ z.bigLeaves # 0 \/ z.temp = None) /\ z.db # "main"
      <3>1. y \in {z, [z EXCEPT !.temp = None]} BY <2>1, <2>4 DEF Settled
      <3>2. /\ DOMAIN y = RcvFields /\ Keeps(z, y) /\ y.db = z.db /\ y.look = z.look
            /\ y.temp \in {z.temp, None} /\ y.hold = z.hold
        BY <1>1, <3>1 DEF RcvOK, RcvFields, Keeps
      <3> HIDE DEF y
      <3>3. RcvOK(y) BY <1>1, <3>2 DEF RcvOK, Keeps
      <3> QED BY <1>1, <3>2, <3>3 DEF Keeps, y
    <2> QED BY <2>2, <2>3, <2>4
  <1> QED BY <1>2, <1>3
-----------------------------------------------------------------------------
(* The merge: its result is a transaction, and a key that is deleted here   *)
(* and not inserted again is not in it.                                     *)

(* _merge_phase() of the main trie adds no key that is deleted here. *)
LEMMA MergeMainLemma ==
    ASSUME NEW main \in TrieType("main"), NEW leaves \in TrieType("main"), NEW deleted, NEW got
    PROVE LET r == MergeMain(main, leaves, deleted, got)
          IN /\ r \in TrieType("main")
             /\ \A k \in deleted \ DOMAIN main : k \notin DOMAIN r
  <1> DEFINE V == Values \cup {Empty}
             kept == {k \in DOMAIN leaves : k \in DOMAIN main \/ MayAddLeaf(k, deleted)}
             D == DOMAIN main \cup kept
             r == MergeMain(main, leaves, deleted, got)
  <1>1. TrieType("main") = Contents(V) BY DEF TrieType
  <1>2. /\ DOMAIN main \subseteq Keys /\ main \in [DOMAIN main -> V]
        /\ DOMAIN leaves \subseteq Keys /\ leaves \in [DOMAIN leaves -> V]
    BY <1>1, ContentsForm
  <1>3. r = [k \in D |-> IF k \in kept THEN MigrateBigValue(k, leaves[k], got) ELSE main[k]]
    BY DEF MergeMain
  <1>4. ASSUME NEW k \in D
        PROVE (IF k \in kept THEN MigrateBigValue(k, leaves[k], got) ELSE main[k]) \in V
    BY <1>2, <1>4 DEF MigrateBigValue
  <1>5. D \subseteq Keys BY <1>2
  <1>6. \A k \in deleted \ DOMAIN main : k \notin D BY DEF MayAddLeaf
  <1> HIDE DEF D, kept, V
  <1>7. r \in [D -> V] /\ DOMAIN r = D BY <1>3, <1>4
  <1>8. r \in Contents(V) BY <1>5, <1>7, ContentsMember
  <1> QED BY <1>1, <1>6, <1>7, <1>8

(* _merge_phase() of the deletion trie adds no key to the main trie. *)
LEMMA MergeDeletionsLemma ==
    ASSUME NEW d \in Txn, NEW records \in TrieType("del")
    PROVE LET r == MergeDeletions(d, records)
          IN r \in Txn /\ DOMAIN r.main \subseteq DOMAIN d.main
  <1> DEFINE new == DOMAIN records \ DOMAIN d.del
             a == [k \in DOMAIN d.main \ new |-> d.main[k]]
             b == [k \in DOMAIN d.del \cup DOMAIN records |->
                      IF k \in DOMAIN records THEN records[k] ELSE d.del[k]]
  <1>1. d.main \in Contents(Values \cup {Empty}) /\ d.del \in Contents(Stamps) BY DEF Txn
  <1>2. records \in Contents(Stamps) BY DEF TrieType
  <1>3. /\ DOMAIN d.main \subseteq Keys /\ d.main \in [DOMAIN d.main -> Values \cup {Empty}]
        /\ DOMAIN d.del \subseteq Keys /\ d.del \in [DOMAIN d.del -> Stamps]
        /\ DOMAIN records \subseteq Keys /\ records \in [DOMAIN records -> Stamps]
    BY <1>1, <1>2, ContentsForm
  <1>4. a \in Contents(Values \cup {Empty})
    <2>1. a \in [DOMAIN d.main \ new -> Values \cup {Empty}] BY <1>3
    <2>2. DOMAIN d.main \ new \subseteq Keys BY <1>3
    <2> HIDE DEF a, new
    <2> QED BY <2>1, <2>2, ContentsMember
  <1>5. b \in Contents(Stamps)
    <2>1. b \in [DOMAIN d.del \cup DOMAIN records -> Stamps] BY <1>3
    <2>2. DOMAIN d.del \cup DOMAIN records \subseteq Keys BY <1>3
    <2> HIDE DEF b
    <2> QED BY <2>1, <2>2, ContentsMember
  <1>6. DOMAIN a \subseteq DOMAIN d.main OBVIOUS
  <1>7. MergeDeletions(d, records) = [main |-> a, del |-> b] BY DEF MergeDeletions
  <1> HIDE DEF a, b
  <1> QED BY <1>4, <1>5, <1>6, <1>7 DEF Txn

(* A transaction with another main trie. *)
LEMMA WithMain == ASSUME NEW d \in Txn, NEW r \in TrieType("main") PROVE
    [d EXCEPT !.main = r] \in Txn /\ [d EXCEPT !.main = r].main = r
    /\ [d EXCEPT !.main = r].del = d.del
  BY DEF Txn, TrieType

(* _merge_all_phases(): both phases together. *)
LEMMA MergeAllPhasesLemma ==
    ASSUME NEW x, RcvOK(x), NEW d \in Txn
    PROVE LET r == MergeAllPhases(x, d)
          IN /\ r \in Txn
             /\ \A k \in DOMAIN d.del \ DOMAIN d.main : k \notin DOMAIN r.main
  <1> DEFINE deleted == DOMAIN d.del
             a == MergeMain(d.main, x.temp, deleted, x.big.got)
             one == IF x.temp = None THEN d
                    ELSE IF x.db = "del" THEN MergeDeletions(d, x.temp)
                    ELSE [d EXCEPT !.main = a]
             b == MergeMain(one.main, x.hold, deleted, x.big.got)
             r == MergeAllPhases(x, d)
  <1>1. d.main \in TrieType("main") BY DEF Txn, TrieType
  <1>2. one \in Txn /\ \A k \in deleted \ DOMAIN d.main : k \notin DOMAIN one.main
    <2>1. CASE x.temp = None BY <2>1
    <2>2. CASE x.temp # None /\ x.db = "del"
      <3>1. x.temp \in TrieType("del") BY <2>2 DEF RcvOK
      <3> QED BY <2>2, <3>1, MergeDeletionsLemma
    <2>3. CASE x.temp # None /\ x.db # "del"
      <3>1. x.temp \in TrieType("main") BY <2>3 DEF RcvOK, Tries
      <3>2. a \in TrieType("main") /\ \A k \in deleted \ DOMAIN d.main : k \notin DOMAIN a
        BY <1>1, <3>1, MergeMainLemma
      <3> HIDE DEF a
      <3> QED BY <2>3, <3>2, WithMain
    <2> QED BY <2>1, <2>2, <2>3
  <1>3. r = IF x.hold = None THEN one ELSE [one EXCEPT !.main = b] BY DEF MergeAllPhases
  <1> HIDE DEF one, r
  <1>4. CASE x.hold = None BY <1>2, <1>3, <1>4 DEF r
  <1>5. CASE x.hold # None
    <2>1. x.hold \in TrieType("main") BY <1>5 DEF RcvOK
    <2>2. one.main \in TrieType("main") BY <1>2 DEF Txn, TrieType
    <2>3. b \in TrieType("main") /\ \A k \in deleted \ DOMAIN one.main : k \notin DOMAIN b
      BY <2>1, <2>2, MergeMainLemma
    <2> HIDE DEF b
    <2>4. r \in Txn /\ r.main = b BY <1>2, <1>3, <1>5, <2>3, WithMain
    <2> QED BY <1>2, <2>3, <2>4 DEF r
  <1> QED BY <1>4, <1>5
-----------------------------------------------------------------------------
(* The inductive invariant. *)

Held(t) == IF t = None THEN 0 ELSE 1
Among(s, o) == IF s \in o THEN 1 ELSE 0
HashRec == [txn : Txn, refs : Nat]

(* HashTrieMatchesSnapshot without cardinalities. *)
HashInv ==
    /\ snd.txn # None => snd.txn = hash["S"].txn
    /\ rcv.txn # None => rcv.txn = hash["R"].txn
    /\ hash["S"].refs = Held(snd.txn) + Among("S", other)
    /\ hash["R"].refs = Held(rcv.txn) + Among("R", other)

Messages == Turns /\ ToRInv /\ ToSInv
Inv == Typed /\ Messages /\ SessionInv /\ SlotInv /\ HashInv /\ AreaTracked

(* ref_count as the property states it. *)
LEMMA CardOne == ASSUME NEW s, NEW P \in BOOLEAN PROVE
    Cardinality({t \in {s} : P}) = IF P THEN 1 ELSE 0
  <1>1. CASE P
    <2>1. {t \in {s} : P} = {s} BY <1>1
    <2> QED BY <1>1, <2>1, FS_Singleton
  <1>2. CASE ~P
    <2>1. {t \in {s} : P} = {} BY <1>2
    <2> QED BY <1>2, <2>1, FS_EmptySet
  <1> QED BY <1>1, <1>2

(* The other session of a side, counted. *)
LEMMA CardAmong == ASSUME NEW s, NEW o PROVE Cardinality(o \cap {s}) = Among(s, o)
  <1>1. CASE s \in o
    <2>1. o \cap {s} = {s} BY <1>1
    <2> QED BY <1>1, <2>1, FS_Singleton DEF Among
  <1>2. CASE s \notin o
    <2>1. o \cap {s} = {} BY <1>2
    <2> QED BY <1>2, <2>1, FS_EmptySet DEF Among
  <1> QED BY <1>1, <1>2

(* HashInv is the property in a form without cardinalities. *)
LEMMA HashInvMeaning == ASSUME HashInv PROVE HashTrieMatchesSnapshot
  <1>1. Cardinality({s \in {"S"} : snd.txn # None}) = Held(snd.txn) BY CardOne DEF Held
  <1>2. Cardinality({s \in {"R"} : rcv.txn # None}) = Held(rcv.txn) BY CardOne DEF Held
  <1>3. /\ Cardinality(other \cap {"S"}) = Among("S", other)
        /\ Cardinality(other \cap {"R"}) = Among("R", other)
    BY CardAmong
  <1> QED BY <1>1, <1>2, <1>3 DEF HashInv, HashTrieMatchesSnapshot

(* acquire_hash_trie() and release_hash_trie() *)
LEMMA ReleaseLemma ==
    ASSUME NEW h \in HashRec, NEW t, NEW n \in Nat, h.refs = Held(t) + n
    PROVE Release(h, t) \in HashRec /\ Release(h, t).txn = h.txn /\ Release(h, t).refs = n
  <1>1. CASE t = None BY <1>1 DEF Release, Held, HashRec
  <1>2. CASE t # None
    <2>1. h.refs = 1 + n BY <1>2 DEF Held
    <2>2. Release(h, t) = [h EXCEPT !.refs = @ - 1] BY <1>2 DEF Release
    <2> QED BY <2>1, <2>2 DEF HashRec
  <1> QED BY <1>1, <1>2

(* A session that joins others takes the transaction they have. *)
LEMMA AcquireLemma ==
    ASSUME NEW h \in HashRec, NEW c \in Txn
    PROVE /\ Acquire(h, c) \in HashRec /\ Acquire(h, c).refs = h.refs + 1
          /\ h.refs # 0 => Acquire(h, c).txn = h.txn
          /\ Acquire(h, c).txn # None
  <1>1. /\ Acquire(h, c).refs = h.refs + 1
        /\ Acquire(h, c).txn = IF h.refs = 0 THEN c ELSE h.txn
        /\ Acquire(h, c) = [txn |-> Acquire(h, c).txn, refs |-> Acquire(h, c).refs]
    BY DEF Acquire
  <1> QED BY <1>1, ReplicationAssumption DEF HashRec

(* At most one other session, so a natural number. *)
LEMMA AmongNat == ASSUME NEW s, NEW o PROVE Among(s, o) \in Nat
  BY DEF Among

(* The entries of both sides have their types. *)
LEMMA HashEntries == ASSUME Typed PROVE
    /\ hash \in [Side -> HashRec] /\ hash["S"] \in HashRec /\ hash["R"] \in HashRec
    /\ db["S"] \in Txn /\ db["R"] \in Txn
  BY DEF Typed, HashRec, Side

(* A channel with a message has that message only. *)
LEMMA OneMessage == ASSUME NEW q, One(q), q # << >> PROVE
    q = <<Head(q)>> /\ Tail(q) = << >>
  <1>1. q = <<Head(q)>> BY DEF One
  <1> QED BY <1>1, Singleton

-----------------------------------------------------------------------------
(* The steps of the sender. *)

(* A message that a handler of the sender has sent. *)
LEMMA SentLemma ==
    ASSUME Typed, SessionInv, SlotInv, NEW x, NEW f, Sends(x, f),
           snd' = f.snd, toR' = f.out, toS' = << >>, rcv' = rcv, slot' = slot,
           snd.db = "del" => f.snd.db = "del",
           slot = "area" /\ f.snd.db = "main" =>
               Head(f.out).type \in {"BIG_VALUE_DATA", "COMPLETE"}
    PROVE SndOK(snd') /\ Messages' /\ SessionInv' /\ SlotInv'
  <1> DEFINE m == Head(f.out)
  <1>1. toR' = <<m>> /\ Head(toR') = m /\ toR' # << >> BY Singleton DEF Sends
  <1>2. SndOK(snd') BY DEF Sends
  <1>3. Turns' BY <1>1 DEF Turns, One
  <1>4. ToRInv' BY <1>1 DEF ToRInv, Sends, SenderActive
  <1>5. ToSInv' BY DEF ToSInv
  <1>6. SessionInv' BY DEF SessionInv, Sends, SenderActive, ReceiverActive
  <1>7. SlotInv' BY <1>1 DEF SlotInv, ReceiverActive
  <1> QED BY <1>2, <1>3, <1>4, <1>5, <1>6, <1>7 DEF Messages

(* begin() of the sender preserves the invariant. *)
LEMMA SenderBeginStep == ASSUME Inv, SenderBegin PROVE Inv'
  <1> DEFINE h == Acquire(hash["S"], db["S"])
             x == [snd EXCEPT !.txn = h.txn]
             y == BeginTrie(x, "main")
             f == SendNextBuffer(y, h)
  <1>1. /\ snd = NoSnd /\ toR = << >> /\ toS = << >>
        /\ hash' = [hash EXCEPT !["S"] = h] /\ snd' = f.snd /\ toR' = f.out /\ toS' = << >>
        /\ db' = db /\ other' = other /\ rcv' = rcv /\ slot' = slot /\ loose' = loose
    BY DEF SenderBegin
  <1>2. /\ Typed /\ SessionInv /\ SlotInv /\ HashInv /\ AreaTracked /\ Messages BY DEF Inv
  <1>3. h \in HashRec /\ h.refs = hash["S"].refs + 1 /\ h.txn # None /\ h.txn \in Txn
    BY <1>2, HashEntries, AcquireLemma DEF HashRec
  <1> HIDE DEF h
  <1>4. snd.txn = None /\ snd.db = "main" BY <1>1 DEF NoSnd
  <1>5. DOMAIN x = SndFields /\ x.txn = h.txn BY <1>2 DEF Typed, SndOK, SndFields
  <1> HIDE DEF x
  <1>6. SndOK(y) /\ y.txn = h.txn /\ y.db = "main"
    BY <1>3, <1>5, BeginTrieLemma DEF Snapshot, Tries
  <1> HIDE DEF y
  <1>7. /\ Sends(y, f) /\ f.snd.txn = h.txn /\ f.snd.db = "main"
    BY <1>3, <1>6, SendNextBufferLemma
  <1> HIDE DEF f
  <1>8. slot # "area" BY <1>1, <1>2, <1>4 DEF SlotInv
  <1>9. SndOK(snd') /\ Messages' /\ SessionInv' /\ SlotInv'
    BY <1>1, <1>2, <1>4, <1>7, <1>8, SentLemma
  <1>10. hash'["S"] = h /\ hash'["R"] = hash["R"] /\ hash' \in [Side -> HashRec]
    BY <1>1, <1>2, <1>3, HashEntries DEF Side
  <1>11. Typed' BY <1>1, <1>2, <1>9, <1>10 DEF Typed, HashRec
  <1>12. hash["S"].refs = 0 + Among("S", other) BY <1>2, <1>4 DEF HashInv, Held
  <1>13. h.refs = 1 + Among("S", other) BY <1>3, <1>12, AmongNat
  <1>14. snd'.txn = h.txn BY <1>1, <1>7
  <1>15. HashInv' BY <1>1, <1>2, <1>3, <1>10, <1>13, <1>14 DEF HashInv, Held
  <1>16. AreaTracked' BY <1>1, <1>2 DEF AreaTracked
  <1> QED BY <1>9, <1>11, <1>15, <1>16 DEF Inv

(* FRACTION_COMPLETE: the snapshot is exchanged for a new one. *)
LEMMA SenderRestartsStep == ASSUME Inv, SenderRestarts PROVE Inv'
  <1> DEFINE g == Release(hash["S"], snd.txn)
             h == Acquire(g, db["S"])
             x == [snd EXCEPT !.txn = h.txn]
             y == BeginTrie(x, snd.db)
             f == SendNextBuffer(y, h)
  <1>1. /\ toS # << >> /\ Head(toS).type = "FRACTION_COMPLETE" /\ SenderActive
        /\ hash' = [hash EXCEPT !["S"] = h] /\ snd' = f.snd /\ toR' = toR \o f.out
        /\ toS' = Tail(toS)
        /\ db' = db /\ other' = other /\ rcv' = rcv /\ slot' = slot /\ loose' = loose
    BY DEF SenderRestarts, Reacquire, ledger
  <1>2. /\ Typed /\ SessionInv /\ SlotInv /\ HashInv /\ AreaTracked /\ Messages BY DEF Inv
  <1>3. snd.txn # None BY <1>1, <1>2 DEF SessionInv
  <1>4. g \in HashRec /\ g.refs = Among("S", other)
    BY <1>2, HashEntries, AmongNat, ReleaseLemma DEF HashInv
  <1> HIDE DEF g
  <1>5. h \in HashRec /\ h.refs = 1 + Among("S", other) /\ h.txn # None /\ h.txn \in Txn
    <2>1. db["S"] \in Txn BY <1>2, HashEntries
    <2>2. h \in HashRec /\ h.refs = g.refs + 1 /\ h.txn # None BY <1>4, <2>1, AcquireLemma
    <2> QED BY <1>4, <2>2, AmongNat DEF HashRec
  <1> HIDE DEF h
  <1>6. DOMAIN x = SndFields /\ x.txn = h.txn /\ snd.db \in Tries
    BY <1>2 DEF Typed, SndOK, SndFields
  <1> HIDE DEF x
  <1>7. SndOK(y) /\ y.txn = h.txn /\ y.db = snd.db
    BY <1>5, <1>6, BeginTrieLemma DEF Snapshot
  <1> HIDE DEF y
  <1>8. Sends(y, f) /\ f.snd.txn = h.txn /\ f.snd.db = snd.db
    BY <1>5, <1>7, SendNextBufferLemma
  <1> HIDE DEF f
  <1>9. toR = << >> /\ toS' = << >> BY <1>1, <1>2, OneMessage DEF Messages, Turns
  <1>10. toR' = f.out
    <2>1. f.out = <<Head(f.out)>> BY <1>8 DEF Sends
    <2> QED BY <1>1, <1>9, <2>1, Singleton
  <1>11. ~(slot = "area" /\ snd.db = "main") BY <1>1, <1>2, <1>9 DEF SlotInv
  <1>12. SndOK(snd') /\ Messages' /\ SessionInv' /\ SlotInv'
    BY <1>1, <1>2, <1>8, <1>9, <1>10, <1>11, SentLemma
  <1>13. hash'["S"] = h /\ hash'["R"] = hash["R"] /\ hash' \in [Side -> HashRec]
    BY <1>1, <1>2, <1>5, HashEntries DEF Side
  <1>14. Typed' BY <1>1, <1>2, <1>12, <1>13 DEF Typed, HashRec
  <1>15. snd'.txn = h.txn BY <1>1, <1>8
  <1>16. HashInv' BY <1>1, <1>2, <1>5, <1>13, <1>15 DEF HashInv, Held
  <1>17. AreaTracked' BY <1>1, <1>2 DEF AreaTracked
  <1> QED BY <1>12, <1>14, <1>16, <1>17 DEF Inv

(* Every other answer: the sender fails, goes on or ends the session. *)
LEMMA SenderReceivesStep == ASSUME Inv, SenderReceives PROVE Inv'
  <1> DEFINE m == Head(toS)
             f == HandleResponse(m)
  <1>1. /\ toS # << >> /\ m.type # "FRACTION_COMPLETE"
        /\ snd' = f.snd /\ toR' = toR \o f.out /\ toS' = Tail(toS)
        /\ hash' = IF f.snd.txn = snd.txn THEN hash
                   ELSE [hash EXCEPT !["S"] = Release(@, snd.txn)]
        /\ db' = db /\ other' = other /\ rcv' = rcv /\ slot' = slot /\ loose' = loose
    BY DEF SenderReceives, ledger
  <1>2. /\ Typed /\ SessionInv /\ SlotInv /\ HashInv /\ AreaTracked /\ Messages BY DEF Inv
  <1>3. toR = << >> /\ toS' = << >> BY <1>1, <1>2, OneMessage DEF Messages, Turns
  <1>4. AreaTracked' BY <1>1, <1>2 DEF AreaTracked
  <1>5. CASE ~SenderActive \/ m.type = "ERR"
    <2> DEFINE y == IF SenderActive THEN [snd EXCEPT !.state = "ERR"] ELSE snd
    <2>1. m.type = "ERR" BY <1>1, <1>2, <1>5 DEF Messages, ToSInv
    <2>2. f.snd = y /\ f.out = << >> BY <1>5, <2>1 DEF HandleResponse
    <2>3. DOMAIN y = SndFields /\ y.txn = snd.txn /\ y.db = snd.db /\ y.bigs = snd.bigs
          /\ y.lastBigs = snd.lastBigs /\ y.state \in {"IDLE", "ERR"}
      BY <1>2 DEF Typed, SndOK, SndFields, SenderActive
    <2> HIDE DEF y, f
    <2>4. snd' = y /\ hash' = hash /\ toR' = << >>
      BY <1>1, <1>3, <2>2, <2>3, Singleton
    <2>5. SndOK(y) BY <1>2, <2>3 DEF Typed, SndOK
    <2>6. Typed' BY <1>1, <1>2, <2>4, <2>5 DEF Typed
    <2>7. Messages' BY <1>3, <2>4 DEF Messages, Turns, One, ToRInv, ToSInv
    <2>8. SessionInv' BY <1>1, <1>2, <2>3, <2>4 DEF SessionInv, SenderActive, ReceiverActive
    <2>9. ~(slot = "area" /\ snd.db = "main") BY <1>2, <1>3, <2>1 DEF SlotInv
    <2>10. SlotInv' BY <1>1, <1>2, <2>3, <2>4, <2>9 DEF SlotInv, ReceiverActive
    <2>11. HashInv' BY <1>1, <1>2, <2>3, <2>4 DEF HashInv
    <2> QED BY <1>4, <2>6, <2>7, <2>8, <2>10, <2>11 DEF Inv
  <1>6. CASE SenderActive /\ m.type # "ERR"
    <2>1. /\ SndOK(snd) /\ snd.txn # None /\ snd.txn \in Txn /\ hash["S"].txn = snd.txn
      BY <1>2, <1>6 DEF Typed, SndOK, SessionInv, HashInv, Snapshot
    <2>2. /\ Sends(snd, f)
          /\ m.type = "BIG_VALUE_ACK" /\ f.snd.db = "main" =>
                Head(f.out).type \in {"BIG_VALUE_DATA", "COMPLETE"}
      <3>1. CASE m.type = "SUBTRIE_ACK"
        <4>1. f = HandleSubtrieAck(snd, m.prune, hash["S"]) BY <1>6, <3>1 DEF HandleResponse
        <4> QED BY <2>1, <3>1, <4>1, HandleSubtrieAckLemma
      <3>2. CASE m.type = "BIG_VALUE_ACK"
        <4>1. f = HandleBigValueAck(snd, hash["S"]) BY <1>6, <3>2 DEF HandleResponse
        <4> QED BY <2>1, <3>2, <4>1, HandleBigValueAckLemma
      <3> QED BY <1>1, <1>2, <1>6, <3>1, <3>2 DEF Messages, ToSInv
    <2> HIDE DEF f
    <2>3. toR' = f.out
      <3>1. f.out = <<Head(f.out)>> BY <2>2 DEF Sends
      <3> QED BY <1>1, <1>3, <3>1, Singleton
    <2>4. snd.db = "del" => f.snd.db = "del" BY <2>2 DEF Sends
    <2>5. slot = "area" /\ f.snd.db = "main" => m.type = "BIG_VALUE_ACK"
      <3>1. snd.db \in Tries BY <2>1 DEF SndOK
      <3> QED BY <1>2, <1>3, <2>4, <3>1 DEF SlotInv, Tries
    <2>6. SndOK(snd') /\ Messages' /\ SessionInv' /\ SlotInv'
      BY <1>1, <1>2, <1>3, <2>2, <2>3, <2>4, <2>5, SentLemma
    <2>7. CASE f.snd.txn = snd.txn
      <3>1. hash' = hash /\ snd'.txn = snd.txn BY <1>1, <2>7
      <3>2. Typed' BY <1>1, <1>2, <2>6, <3>1 DEF Typed
      <3>3. HashInv' BY <1>1, <1>2, <3>1 DEF HashInv
      <3> QED BY <1>4, <2>6, <3>2, <3>3 DEF Inv
    <2>8. CASE f.snd.txn # snd.txn
      <3> DEFINE g == Release(hash["S"], snd.txn)
      <3>1. snd'.txn = None BY <1>1, <2>2, <2>8 DEF Sends
      <3>2. g \in HashRec /\ g.txn = hash["S"].txn /\ g.refs = Among("S", other)
        BY <1>2, HashEntries, AmongNat, ReleaseLemma DEF HashInv
      <3> HIDE DEF g
      <3>3. hash' = [hash EXCEPT !["S"] = g] BY <1>1, <2>8 DEF g
      <3>4. hash'["S"] = g /\ hash'["R"] = hash["R"] /\ hash' \in [Side -> HashRec]
        BY <1>2, <3>2, <3>3, HashEntries DEF Side
      <3>5. Typed' BY <1>1, <1>2, <2>6, <3>4 DEF Typed, HashRec
      <3>6. hash'["S"].refs = 0 + Among("S", other) BY <3>2, <3>4, AmongNat
      <3>7. HashInv' BY <1>1, <1>2, <3>1, <3>4, <3>6 DEF HashInv, Held
      <3> QED BY <1>4, <2>6, <3>5, <3>7 DEF Inv
    <2> QED BY <2>7, <2>8
  <1> QED BY <1>5, <1>6
-----------------------------------------------------------------------------
(* The steps of the receiver. *)

(* An answer replaces the message on its way. *)
LEMMA ReplyLemma ==
    ASSUME Messages, toR # << >>, NEW a, Reply(a), snd' = snd,
           a.type \in {"SUBTRIE_ACK", "BIG_VALUE_ACK", "FRACTION_COMPLETE", "ERR"},
           a.type # "ERR" => SenderActive
    PROVE Messages' /\ toR' = << >> /\ toS' # << >> /\ Head(toS') = a
  <1>1. toR' = << >> BY OneMessage DEF Reply, Messages, Turns
  <1>2. toS' = <<a>> BY Singleton DEF Reply, Messages, Turns
  <1>3. toS' # << >> /\ Head(toS') = a BY <1>2, Singleton
  <1>4. Turns' BY <1>1, <1>2, <1>3 DEF Turns, One
  <1>5. ToRInv' BY <1>1 DEF ToRInv
  <1>6. ToSInv' BY <1>3 DEF ToSInv, SenderActive
  <1> QED BY <1>1, <1>3, <1>4, <1>5, <1>6 DEF Messages

(* What TRIE_DATA leaves is of the type of the trie that is sent. *)
LEMMA ReceivedLemma == ASSUME Inv, Incoming("TRIE_DATA") PROVE
    /\ RcvOK(Received) /\ Keeps(rcv, Received) /\ Received.db = snd.db
    /\ SenderActive /\ rcv.txn # None /\ ~(slot = "area" /\ snd.db = "main")
  <1> DEFINE m == Head(toR)
             x == TransitionDbType(rcv, m.db)
  <1>1. /\ TrieMsg(m) /\ m.db = snd.db /\ SenderActive /\ toS = << >>
    BY DEF Inv, Messages, Turns, ToRInv, Incoming
  <1>2. RcvOK(rcv) /\ (rcv.db = "del" => m.db = "del") /\ m.db \in Tries
    BY <1>1 DEF Inv, Typed, SessionInv, TrieMsg
  <1>3. RcvOK(x) /\ Keeps(rcv, x) /\ x.db = m.db BY <1>2, TransitionDbTypeLemma
  <1> HIDE DEF x
  <1>4. Received = ProcessReceivedNodes(x, m, hash["R"].txn[x.look])
    BY DEF Received, Looked, x
  <1>5. RcvOK(Received) /\ Keeps(x, Received) /\ Received.db = x.db
    BY <1>1, <1>3, <1>4, ProcessLemma
  <1>6. rcv.txn # None BY DEF Inv, SessionInv, Incoming
  <1>7. ~(slot = "area" /\ snd.db = "main") BY <1>1 DEF Inv, SlotInv, Incoming
  <1> QED BY <1>1, <1>3, <1>5, <1>6, <1>7 DEF Keeps

(* TRIE_DATA answered by SUBTRIE_ACK preserves the invariant. *)
LEMMA HandleTrieDataStep == ASSUME Inv, HandleTrieData PROVE Inv'
  <1> DEFINE y == Received
             a == [type |-> "SUBTRIE_ACK", prune |-> y.prune]
  <1>1. /\ Incoming("TRIE_DATA") /\ rcv' = Finalized([y EXCEPT !.prune = {}]) /\ Reply(a)
        /\ db' = db /\ hash' = hash /\ snd' = snd /\ slot' = slot /\ loose' = loose
        /\ other' = other
    BY DEF HandleTrieData, ledger
  <1>2. /\ RcvOK(y) /\ Keeps(rcv, y) /\ y.db = snd.db
        /\ SenderActive /\ rcv.txn # None /\ ~(slot = "area" /\ snd.db = "main")
    BY <1>1, ReceivedLemma
  <1>3. /\ Typed /\ SessionInv /\ SlotInv /\ HashInv /\ AreaTracked /\ Messages BY DEF Inv
  <1> HIDE DEF y
  <1>4. a.type = "SUBTRIE_ACK" OBVIOUS
  <1> HIDE DEF a
  <1>5. Messages' BY <1>1, <1>2, <1>3, <1>4, ReplyLemma DEF Incoming
  <1>6. /\ DOMAIN rcv' = RcvFields /\ Keeps(y, rcv') /\ rcv'.db = y.db
        /\ rcv'.look = y.look /\ rcv'.temp = y.temp /\ rcv'.hold = y.hold
    BY <1>1, <1>2 DEF RcvOK, RcvFields, Finalized, Keeps
  <1>7. RcvOK(rcv') BY <1>2, <1>6 DEF RcvOK, Keeps
  <1>8. Typed' BY <1>1, <1>3, <1>7 DEF Typed
  <1>9. rcv'.state = rcv.state /\ rcv'.txn = rcv.txn /\ rcv'.big = rcv.big BY <1>2, <1>6 DEF Keeps
  <1>10. SessionInv' BY <1>1, <1>2, <1>3, <1>6, <1>9 DEF SessionInv, SenderActive, ReceiverActive
  <1>11. SlotInv' BY <1>1, <1>2, <1>3, <1>9 DEF SlotInv, ReceiverActive
  <1>12. HashInv' BY <1>1, <1>3, <1>9 DEF HashInv
  <1>13. AreaTracked' BY <1>1, <1>3 DEF AreaTracked
  <1> QED BY <1>5, <1>8, <1>10, <1>11, <1>12, <1>13 DEF Inv

(* TRIE_DATA answered by FRACTION_COMPLETE: the merge links the area, and   *)
(* the hash trie is taken again for what was merged.                        *)
LEMMA HandleTrieDataFractionStep == ASSUME Inv, HandleTrieDataFraction PROVE Inv'
  <1> DEFINE y == Received
             d == MergeAllPhases(y, db["R"])
             g == Release(hash["R"], rcv.txn)
             h == Acquire(g, d)
             a == [type |-> "FRACTION_COMPLETE"]
  <1>1. /\ Incoming("TRIE_DATA") /\ Reply(a) /\ db' = [db EXCEPT !["R"] = d]
        /\ hash' = [hash EXCEPT !["R"] = Acquire(g, db'["R"])]
        /\ rcv' = Finalized([Cleared(y) EXCEPT !.txn = hash'["R"].txn, !.look = "main",
                                  !.bufs = 1, !.pend = 0, !.new = 0, !.prune = {}])
        /\ slot' = AfterLink(y).slot /\ loose' = AfterLink(y).loose
        /\ snd' = snd /\ other' = other
    BY DEF HandleTrieDataFraction, Reacquire, ledger
  <1>2. /\ RcvOK(y) /\ Keeps(rcv, y) /\ y.db = snd.db
        /\ SenderActive /\ rcv.txn # None /\ ~(slot = "area" /\ snd.db = "main")
    BY <1>1, ReceivedLemma
  <1>3. /\ Typed /\ SessionInv /\ SlotInv /\ HashInv /\ AreaTracked /\ Messages BY DEF Inv
  <1> HIDE DEF y
  <1>4. a.type = "FRACTION_COMPLETE" OBVIOUS
  <1> HIDE DEF a
  <1>5. Messages' BY <1>1, <1>2, <1>3, <1>4, ReplyLemma DEF Incoming
  <1>6. d \in Txn BY <1>2, <1>3, HashEntries, MergeAllPhasesLemma
  <1> HIDE DEF d
  <1>7. db' \in [Side -> Txn] /\ db'["R"] = d BY <1>1, <1>3, <1>6 DEF Typed, Side
  <1>8. g \in HashRec /\ g.refs = Among("R", other)
    BY <1>3, HashEntries, AmongNat, ReleaseLemma DEF HashInv
  <1> HIDE DEF g
  <1>9. h \in HashRec /\ h.refs = g.refs + 1 /\ h.txn # None BY <1>6, <1>8, AcquireLemma
  <1>10. hash' = [hash EXCEPT !["R"] = h] BY <1>1, <1>7
  <1> HIDE DEF h
  <1>11. hash'["R"] = h /\ hash'["S"] = hash["S"] /\ hash' \in [Side -> HashRec]
    BY <1>3, <1>9, <1>10, HashEntries DEF Side
  <1> DEFINE z == Cleared(y)
  <1>12. /\ DOMAIN z = RcvFields /\ z.state = y.state /\ z.db = y.db
         /\ z.temp = None /\ z.hold = None /\ z.big = NoBig
    BY <1>2 DEF RcvOK, RcvFields, Cleared
  <1> HIDE DEF z
  <1>13. rcv' = Finalized([z EXCEPT !.txn = h.txn, !.look = "main",
                                  !.bufs = 1, !.pend = 0, !.new = 0, !.prune = {}])
    BY <1>1, <1>11 DEF z
  <1>14. /\ DOMAIN rcv' = RcvFields /\ rcv'.state = y.state /\ rcv'.db = y.db
         /\ rcv'.look = "main" /\ rcv'.temp = None /\ rcv'.hold = None /\ rcv'.big = NoBig
         /\ rcv'.txn = h.txn
    BY <1>12, <1>13 DEF RcvFields, Finalized
  <1>15. h.txn \in Txn BY <1>9 DEF HashRec
  <1>16. RcvOK(rcv') BY <1>2, <1>14, <1>15 DEF RcvOK, NoBig, Tries, Snapshot
  <1>17. Typed' BY <1>1, <1>3, <1>7, <1>11, <1>16 DEF Typed, HashRec
  <1>18. SessionInv'
    BY <1>1, <1>2, <1>3, <1>9, <1>14 DEF SessionInv, SenderActive, ReceiverActive
  <1>19. rcv'.state = rcv.state BY <1>2, <1>14 DEF Keeps
  <1>20. slot' \in {slot, "claimed"} BY <1>1 DEF AfterLink
  <1>21. SlotInv'
    BY <1>1, <1>2, <1>3, <1>14, <1>19, <1>20 DEF SlotInv, ReceiverActive, NoBig, Incoming
  <1>22. h.refs = 1 + Among("R", other) BY <1>8, <1>9, AmongNat
  <1>23. HashInv' BY <1>1, <1>3, <1>9, <1>11, <1>14, <1>22 DEF HashInv, Held
  <1>24. Links(y) => slot = "area" BY <1>1, <1>2, <1>3 DEF Links, SlotInv, Incoming, Keeps
  <1>25. AreaTracked' BY <1>1, <1>3, <1>24 DEF AreaTracked, AfterLink
  <1> QED BY <1>5, <1>17, <1>18, <1>21, <1>23, <1>25 DEF Inv

(* BIG_VALUE_START allocates an area while the slot has none. *)
LEMMA HandleBigValueStartStep == ASSUME Inv, HandleBigValueStart PROVE Inv'
  <1> DEFINE b == BigValueStart(Head(toR).count)
             a == [type |-> "BIG_VALUE_ACK"]
  <1>1. /\ Incoming("BIG_VALUE_START") /\ Reply(a)
        /\ rcv' = Finalized([rcv EXCEPT !.state = "AWAITING_BIG_VALUES", !.big = b])
        /\ slot' = (IF b.area = "multi" THEN "area" ELSE slot)
        /\ loose' = (IF b.area = "multi" THEN loose + 1 ELSE loose)
        /\ db' = db /\ hash' = hash /\ snd' = snd /\ other' = other
    BY DEF HandleBigValueStart, ledger
  <1>2. /\ Typed /\ SessionInv /\ SlotInv /\ HashInv /\ AreaTracked /\ Messages BY DEF Inv
  <1>3. SenderActive /\ snd.db = "main" /\ toS = << >>
    BY <1>1, <1>2 DEF Messages, Turns, ToRInv, Incoming
  <1>4. slot # "area" BY <1>1, <1>2, <1>3 DEF SlotInv, Incoming
  <1>5. a.type = "BIG_VALUE_ACK" OBVIOUS
  <1>6. DOMAIN b = {"expected", "received", "got", "area"} BY DEF BigValueStart
  <1> HIDE DEF a, b
  <1>7. Messages' /\ toS' # << >> /\ Head(toS') = a
    BY <1>1, <1>2, <1>3, <1>5, ReplyLemma DEF Incoming
  <1>8. /\ DOMAIN rcv' = RcvFields /\ rcv'.state = "AWAITING_BIG_VALUES" /\ rcv'.db = rcv.db
        /\ rcv'.look = rcv.look /\ rcv'.temp = rcv.temp /\ rcv'.hold = rcv.hold
        /\ rcv'.txn = rcv.txn /\ rcv'.big = b
    BY <1>1, <1>2 DEF Typed, RcvOK, RcvFields, Finalized
  <1>9. RcvOK(rcv') BY <1>2, <1>6, <1>8 DEF Typed, RcvOK
  <1>10. Typed' BY <1>1, <1>2, <1>9 DEF Typed
  <1>11. SessionInv' BY <1>1, <1>2, <1>8 DEF SessionInv, SenderActive, ReceiverActive, Incoming
  <1>12. SlotInv' BY <1>1, <1>3, <1>5, <1>7, <1>8 DEF SlotInv, ReceiverActive
  <1>13. HashInv' BY <1>1, <1>2, <1>8 DEF HashInv
  <1>14. AreaTracked' BY <1>1, <1>2, <1>4 DEF AreaTracked
  <1> QED BY <1>7, <1>10, <1>11, <1>12, <1>13, <1>14 DEF Inv

(* BIG_VALUE_DATA leaves the area where it is. *)
LEMMA HandleBigValueDataStep == ASSUME Inv, HandleBigValueData PROVE Inv'
  <1> DEFINE y == [rcv EXCEPT !.big = BigValueData(@, Head(toR))]
             all == y.big.received >= y.big.expected
             z == IF all /\ y.db = "main" THEN HoldPendingMain(y) ELSE y
             s == IF all THEN "RECEIVING" ELSE "RECEIVING_BIG_VALUES"
             a == [type |-> "BIG_VALUE_ACK"]
  <1>1. /\ Incoming("BIG_VALUE_DATA") /\ Reply(a) /\ rcv' = Finalized([z EXCEPT !.state = s])
        /\ db' = db /\ hash' = hash /\ snd' = snd /\ slot' = slot /\ loose' = loose
        /\ other' = other
    BY DEF HandleBigValueData, ledger
  <1>2. /\ Typed /\ SessionInv /\ SlotInv /\ HashInv /\ AreaTracked /\ Messages BY DEF Inv
  <1>3. SenderActive BY <1>1, <1>2 DEF Messages, ToRInv, Incoming
  <1>4. a.type = "BIG_VALUE_ACK" OBVIOUS
  <1> DEFINE b == BigValueData(rcv.big, Head(toR))
  <1>5. DOMAIN b = {"expected", "received", "got", "area"} /\ b.area = rcv.big.area
    BY <1>2 DEF Typed, RcvOK, BigValueData
  <1> HIDE DEF a, b
  <1>6. y = [rcv EXCEPT !.big = b] BY DEF b
  <1>7. /\ DOMAIN y = RcvFields /\ y.db = rcv.db /\ y.state = rcv.state
        /\ y.look = rcv.look /\ y.temp = rcv.temp /\ y.hold = rcv.hold
        /\ y.txn = rcv.txn /\ y.big = b
    BY <1>2, <1>6 DEF Typed, RcvOK, RcvFields
  <1>8. s \in {"RECEIVING", "RECEIVING_BIG_VALUES"} OBVIOUS
  <1> HIDE DEF y, all, s
  <1>9. RcvOK(y) BY <1>2, <1>5, <1>7 DEF Typed, RcvOK
  <1>10. RcvOK(z) /\ z.db = rcv.db /\ z.txn = rcv.txn /\ z.big = b
    BY <1>7, <1>9, HoldPendingMainLemma DEF Keeps
  <1> HIDE DEF z
  <1>11. /\ DOMAIN rcv' = RcvFields /\ rcv'.state = s /\ rcv'.db = z.db
         /\ rcv'.look = z.look /\ rcv'.temp = z.temp /\ rcv'.hold = z.hold
         /\ rcv'.txn = z.txn /\ rcv'.big = z.big
    BY <1>1, <1>10 DEF RcvOK, RcvFields, Finalized
  <1>12. RcvOK(rcv') BY <1>10, <1>11 DEF RcvOK
  <1>13. Messages' /\ toS' # << >> /\ Head(toS') = a
    BY <1>1, <1>2, <1>3, <1>4, ReplyLemma DEF Incoming
  <1>14. Typed' BY <1>1, <1>2, <1>12 DEF Typed
  <1>15. SessionInv'
    BY <1>1, <1>2, <1>10, <1>11 DEF SessionInv, SenderActive, ReceiverActive, Incoming
  <1>16. rcv'.big.area = rcv.big.area BY <1>5, <1>10, <1>11
  <1>17. SlotInv'
    BY <1>1, <1>2, <1>4, <1>8, <1>11, <1>13, <1>16 DEF SlotInv, ReceiverActive, Incoming
  <1>18. HashInv' BY <1>1, <1>2, <1>10, <1>11 DEF HashInv
  <1>19. AreaTracked' BY <1>1, <1>2 DEF AreaTracked
  <1> QED BY <1>13, <1>14, <1>15, <1>17, <1>18, <1>19 DEF Inv
(* The slot after a merge, and after it has been given back. *)
Tracked(a) == a.loose = IF a.slot = "area" THEN 1 ELSE 0

(* link_area() takes an area that the slot has. *)
LEMMA AfterLinkLemma == ASSUME AreaTracked, NEW x, Links(x) => slot = "area"
    PROVE Tracked(AfterLink(x))
  <1>1. CASE Links(x)
    <2>1. AfterLink(x).slot = "claimed" /\ AfterLink(x).loose = loose - 1 BY <1>1 DEF AfterLink
    <2>2. loose = 1 BY <1>1 DEF AreaTracked
    <2> QED BY <2>1, <2>2 DEF Tracked
  <1>2. CASE ~Links(x)
    <2>1. AfterLink(x).slot = slot /\ AfterLink(x).loose = loose BY <1>2 DEF AfterLink
    <2> QED BY <2>1 DEF Tracked, AreaTracked
  <1> QED BY <1>1, <1>2

(* release() leaves neither an area in the slot nor a lost one. *)
LEMMA ReleaseSlotLemma == ASSUME NEW a, Tracked(a), ReleaseSlot(a)
    PROVE slot' = "free" /\ AreaTracked'
  BY DEF Tracked, ReleaseSlot, AreaTracked

(* The receiver gives up the session with an error. *)
LEMMA ErrorLemma ==
    ASSUME Inv, toR # << >>, NEW x, RcvOK(x), x.db = "del" => snd.db = "del",
           NEW a, Tracked(a), TransitionToError(x, a), other' = other
    PROVE Inv'
  <1> DEFINE g == Release(hash["R"], rcv.txn)
             e == [type |-> "ERR"]
  <1>1. /\ hash' = [hash EXCEPT !["R"] = g] /\ ReleaseSlot(a) /\ Reply(e)
        /\ rcv' = Finalized([x EXCEPT !.state = "ERR", !.txn = None, !.hold = None, !.bufs = 1])
        /\ db' = db /\ snd' = snd
    BY DEF TransitionToError
  <1>2. /\ Typed /\ SessionInv /\ SlotInv /\ HashInv /\ AreaTracked /\ Messages BY DEF Inv
  <1>3. e.type = "ERR" OBVIOUS
  <1> HIDE DEF e
  <1>4. Messages' BY <1>1, <1>2, <1>3, ReplyLemma
  <1>5. g \in HashRec /\ g.refs = Among("R", other)
    BY <1>2, HashEntries, AmongNat, ReleaseLemma DEF HashInv
  <1> HIDE DEF g
  <1>6. hash'["R"] = g /\ hash'["S"] = hash["S"] /\ hash' \in [Side -> HashRec]
    BY <1>1, <1>2, <1>5, HashEntries DEF Side
  <1>7. /\ DOMAIN rcv' = RcvFields /\ rcv'.state = "ERR" /\ rcv'.db = x.db
        /\ rcv'.look = x.look /\ rcv'.temp = x.temp /\ rcv'.hold = None
        /\ rcv'.txn = None /\ rcv'.big = x.big
    BY <1>1 DEF RcvOK, RcvFields, Finalized
  <1>8. RcvOK(rcv') BY <1>7 DEF RcvOK, Snapshot
  <1>9. Typed' BY <1>1, <1>2, <1>6, <1>8 DEF Typed, HashRec
  <1>10. SessionInv' BY <1>1, <1>2, <1>7 DEF SessionInv, SenderActive, ReceiverActive
  <1>11. slot' = "free" /\ AreaTracked' BY <1>1, ReleaseSlotLemma
  <1>12. SlotInv' BY <1>7, <1>11 DEF SlotInv, ReceiverActive
  <1>13. hash'["R"].refs = 0 + Among("R", other) BY <1>5, <1>6, AmongNat
  <1>14. HashInv' BY <1>1, <1>2, <1>6, <1>7, <1>13 DEF HashInv, Held
  <1> QED BY <1>4, <1>9, <1>10, <1>11, <1>12, <1>14 DEF Inv

(* A BIG_VALUE_START that fails preserves the invariant. *)
LEMMA HandleBigValueStartFailsStep == ASSUME Inv, HandleBigValueStartFails PROVE Inv'
  <1> DEFINE a == [slot |-> slot, loose |-> loose]
  <1>1. /\ toR # << >> /\ TransitionToError(rcv, a) /\ other' = other
    BY DEF HandleBigValueStartFails, Incoming
  <1>2. Tracked(a) BY DEF Inv, AreaTracked, Tracked
  <1>3. RcvOK(rcv) /\ (rcv.db = "del" => snd.db = "del") BY DEF Inv, Typed, SessionInv
  <1> HIDE DEF a
  <1> QED BY <1>1, <1>2, <1>3, ErrorLemma

(* A merge that throws preserves the invariant. *)
LEMMA MergeFailsStep == ASSUME Inv, MergeFails PROVE Inv'
  <1>1. other' = other BY DEF MergeFails
  <1>2. ASSUME NEW y, RcvOK(y), Keeps(rcv, y), y.db = "del" => snd.db = "del",
               toR # << >>, ReceiverActive,
               TransitionToError([y EXCEPT !.temp = None, !.big = NoBig], AfterLink(y))
        PROVE Inv'
    <2> DEFINE x == [y EXCEPT !.temp = None, !.big = NoBig]
    <2>1. /\ DOMAIN x = RcvFields /\ x.db = y.db /\ x.look = y.look /\ x.temp = None
          /\ x.hold = y.hold /\ x.txn = y.txn /\ x.big = NoBig
      BY <1>2 DEF RcvOK, RcvFields
    <2> HIDE DEF x
    <2>2. RcvOK(x) BY <1>2, <2>1 DEF RcvOK, NoBig
    <2>3. Links(y) => slot = "area" BY <1>2 DEF Inv, SlotInv, Keeps, Links
    <2>4. Tracked(AfterLink(y)) BY <2>3, AfterLinkLemma DEF Inv
    <2> QED BY <1>1, <1>2, <2>1, <2>2, <2>4, ErrorLemma DEF x
  <1>3. CASE Incoming("COMPLETE") /\ Merging(rcv)
             /\ TransitionToError([rcv EXCEPT !.temp = None, !.big = NoBig], AfterLink(rcv))
    <2>1. RcvOK(rcv) /\ (rcv.db = "del" => snd.db = "del") BY DEF Inv, Typed, SessionInv
    <2>2. Keeps(rcv, rcv) /\ toR # << >> /\ ReceiverActive BY <1>3 DEF Keeps, Incoming
    <2> QED BY <1>2, <1>3, <2>1, <2>2
  <1>4. CASE Incoming("TRIE_DATA")
             /\ TransitionToError([Received EXCEPT !.temp = None, !.big = NoBig],
                                  AfterLink(Received))
    <2>1. RcvOK(Received) /\ Keeps(rcv, Received) /\ Received.db = snd.db
      BY <1>4, ReceivedLemma
    <2>2. toR # << >> /\ ReceiverActive BY <1>4 DEF Incoming
    <2> QED BY <1>2, <1>4, <2>1, <2>2
  <1> QED BY <1>3, <1>4 DEF MergeFails

(* COMPLETE: merge, link the area, give back slot and hash trie. *)
LEMMA HandleCompleteStep == ASSUME Inv, HandleComplete PROVE Inv'
  <1> DEFINE d == MergeAllPhases(rcv, db["R"])
             g == Release(hash["R"], rcv.txn)
             z == Cleared(rcv)
  <1>1. /\ Incoming("COMPLETE") /\ db' = [db EXCEPT !["R"] = d]
        /\ hash' = [hash EXCEPT !["R"] = g]
        /\ rcv' = Finalized([z EXCEPT !.state = "IDLE", !.txn = None, !.bufs = 1])
        /\ ReleaseSlot(AfterLink(rcv)) /\ toR' = Tail(toR) /\ toS' = toS
        /\ snd' = snd /\ other' = other
    BY DEF HandleComplete, ledger
  <1>2. /\ Typed /\ SessionInv /\ SlotInv /\ HashInv /\ AreaTracked /\ Messages BY DEF Inv
  <1>3. RcvOK(rcv) /\ d \in Txn
    <2>1. RcvOK(rcv) BY <1>2 DEF Typed
    <2> QED BY <1>2, <2>1, HashEntries, MergeAllPhasesLemma
  <1> HIDE DEF d
  <1>4. db' \in [Side -> Txn] BY <1>1, <1>2, <1>3 DEF Typed, Side
  <1>5. g \in HashRec /\ g.refs = Among("R", other)
    BY <1>2, HashEntries, AmongNat, ReleaseLemma DEF HashInv
  <1> HIDE DEF g
  <1>6. hash'["R"] = g /\ hash'["S"] = hash["S"] /\ hash' \in [Side -> HashRec]
    BY <1>1, <1>2, <1>5, HashEntries DEF Side
  <1>7. /\ DOMAIN z = RcvFields /\ z.db = rcv.db /\ z.look = rcv.look
        /\ z.temp = None /\ z.hold = None /\ z.big = NoBig
    BY <1>3 DEF RcvOK, RcvFields, Cleared
  <1> HIDE DEF z
  <1>8. /\ DOMAIN rcv' = RcvFields /\ rcv'.state = "IDLE" /\ rcv'.db = z.db
        /\ rcv'.look = z.look /\ rcv'.temp = None /\ rcv'.hold = None /\ rcv'.big = NoBig
        /\ rcv'.txn = None
    BY <1>1, <1>7 DEF RcvFields, Finalized
  <1>9. RcvOK(rcv') BY <1>3, <1>7, <1>8 DEF RcvOK, NoBig, Snapshot
  <1>10. Typed' BY <1>1, <1>2, <1>4, <1>6, <1>9 DEF Typed, HashRec
  <1>11. toR' = << >> /\ toS' = << >>
    BY <1>1, <1>2, OneMessage DEF Messages, Turns, Incoming
  <1>12. Messages' BY <1>11 DEF Messages, Turns, One, ToRInv, ToSInv
  <1>13. SessionInv' BY <1>1, <1>2, <1>7, <1>8 DEF SessionInv, SenderActive, ReceiverActive
  <1>14. Tracked(AfterLink(rcv))
    <2>1. Links(rcv) => slot = "area" BY <1>1, <1>2 DEF Links, SlotInv, Incoming
    <2> QED BY <1>2, <2>1, AfterLinkLemma
  <1>15. slot' = "free" /\ AreaTracked' BY <1>1, <1>14, ReleaseSlotLemma
  <1>16. SlotInv' BY <1>8, <1>15 DEF SlotInv, ReceiverActive
  <1>17. hash'["R"].refs = 0 + Among("R", other) BY <1>5, <1>6, AmongNat
  <1>18. HashInv' BY <1>1, <1>2, <1>6, <1>8, <1>17 DEF HashInv, Held
  <1> QED BY <1>10, <1>12, <1>13, <1>15, <1>16, <1>18 DEF Inv

-----------------------------------------------------------------------------
(* The beginning and the end of a session. *)

(* A new receiver. *)
LEMMA NoRcvOK == ASSUME NEW b PROVE
    /\ RcvOK(NoRcv(b)) /\ NoRcv(b).db = "main" /\ NoRcv(b).state = "IDLE"
    /\ NoRcv(b).txn = None /\ NoRcv(b).big = NoBig
  <1> DEFINE x == NoRcv(b)
  <1>1. /\ DOMAIN x = RcvFields /\ x.state = "IDLE" /\ x.txn = None /\ x.db = "main"
        /\ x.look = "main" /\ x.temp = None /\ x.hold = None /\ x.big = NoBig
    BY DEF NoRcv, RcvFields
  <1> HIDE DEF x
  <1>2. RcvOK(x) BY <1>1 DEF RcvOK, NoBig, Tries, Snapshot
  <1> QED BY <1>1, <1>2 DEF x

(* A new sender. *)
LEMMA NoSndOK == SndOK(NoSnd) /\ NoSnd.db = "main" /\ NoSnd.state = "IDLE" /\ NoSnd.txn = None
  BY DEF NoSnd, SndOK, SndFields, Tries, Snapshot

(* begin() of the receiver claims a slot without an area. *)
LEMMA ReceiverBeginStep == ASSUME Inv, ReceiverBegin PROVE Inv'
  <1> DEFINE h == Acquire(hash["R"], db["R"])
  <1>1. /\ rcv = NoRcv(rcv.budget) /\ snd = NoSnd
        /\ hash' = [hash EXCEPT !["R"] = h]
        /\ rcv' = [rcv EXCEPT !.state = "RECEIVING", !.txn = h.txn]
        /\ slot' = "claimed" /\ db' = db /\ snd' = snd /\ toR' = toR /\ toS' = toS
        /\ loose' = loose /\ other' = other
    BY DEF ReceiverBegin, ledger
  <1>2. /\ Typed /\ SessionInv /\ SlotInv /\ HashInv /\ AreaTracked /\ Messages BY DEF Inv
  <1>3. rcv.state = "IDLE" /\ rcv.txn = None /\ rcv.db = "main" /\ rcv.big = NoBig
    BY <1>1, NoRcvOK
  <1>4. h \in HashRec /\ h.refs = hash["R"].refs + 1 /\ h.txn # None /\ h.txn \in Txn
    BY <1>2, HashEntries, AcquireLemma DEF HashRec
  <1> HIDE DEF h
  <1>5. /\ DOMAIN rcv' = RcvFields /\ rcv'.state = "RECEIVING" /\ rcv'.db = rcv.db
        /\ rcv'.look = rcv.look /\ rcv'.temp = rcv.temp /\ rcv'.hold = rcv.hold
        /\ rcv'.txn = h.txn /\ rcv'.big = rcv.big
    BY <1>1, <1>2 DEF Typed, RcvOK, RcvFields
  <1>6. RcvOK(rcv') BY <1>2, <1>4, <1>5 DEF Typed, RcvOK, Snapshot
  <1>7. hash'["R"] = h /\ hash'["S"] = hash["S"] /\ hash' \in [Side -> HashRec]
    BY <1>1, <1>2, <1>4, HashEntries DEF Side
  <1>8. Typed' BY <1>1, <1>2, <1>6, <1>7 DEF Typed, HashRec
  <1>9. Messages' BY <1>1, <1>2 DEF Messages, Turns, ToRInv, ToSInv, SenderActive
  <1>10. SessionInv'
    BY <1>1, <1>2, <1>4, <1>5 DEF SessionInv, SenderActive, ReceiverActive
  <1>11. SlotInv' BY <1>1, <1>3, <1>5 DEF SlotInv, ReceiverActive, NoBig
  <1>12. hash["R"].refs = 0 + Among("R", other) BY <1>2, <1>3 DEF HashInv, Held
  <1>13. h.refs = 1 + Among("R", other) BY <1>4, <1>12, AmongNat
  <1>14. HashInv' BY <1>1, <1>2, <1>4, <1>5, <1>7, <1>13 DEF HashInv, Held
  <1>15. slot = "free" BY <1>2, <1>3 DEF SlotInv, ReceiverActive
  <1>16. AreaTracked' BY <1>1, <1>2, <1>15 DEF AreaTracked
  <1> QED BY <1>8, <1>9, <1>10, <1>11, <1>14, <1>16 DEF Inv

(* Both state machines are gone, with their messages. *)
LEMMA GoneLemma ==
    ASSUME AreaTracked, NEW b, snd' = NoSnd, rcv' = NoRcv(b), toR' = << >>, toS' = << >>,
           ReleaseSlot([slot |-> slot, loose |-> loose])
    PROVE SndOK(snd') /\ RcvOK(rcv') /\ Messages' /\ SessionInv' /\ SlotInv' /\ AreaTracked'
  <1> DEFINE a == [slot |-> slot, loose |-> loose]
  <1>1. Tracked(a) BY DEF AreaTracked, Tracked
  <1>2. ReleaseSlot(a) OBVIOUS
  <1> HIDE DEF a
  <1>3. slot' = "free" /\ AreaTracked' BY <1>1, <1>2, ReleaseSlotLemma
  <1>4. /\ SndOK(snd') /\ snd'.state = "IDLE"
        /\ RcvOK(rcv') /\ rcv'.state = "IDLE" /\ rcv'.db = "main"
    BY NoSndOK, NoRcvOK
  <1>5. Messages' BY DEF Messages, Turns, One, ToRInv, ToSInv
  <1>6. SessionInv' BY <1>4 DEF SessionInv, SenderActive, ReceiverActive
  <1>7. SlotInv' BY <1>3, <1>4 DEF SlotInv, ReceiverActive
  <1> QED BY <1>3, <1>4, <1>5, <1>6, <1>7

(* Both destructors give back what the session has. *)
LEMMA DisconnectStep == ASSUME Inv, Disconnect PROVE Inv'
  <1> DEFINE g == Release(hash["S"], snd.txn)
             h == Release(hash["R"], rcv.txn)
  <1>1. /\ hash' = [hash EXCEPT !["S"] = g, !["R"] = h]
        /\ snd' = NoSnd /\ rcv' = NoRcv(rcv.budget) /\ toR' = << >> /\ toS' = << >>
        /\ ReleaseSlot([slot |-> slot, loose |-> loose]) /\ db' = db /\ other' = other
    <2>1. hash' = [hash EXCEPT !["S"] = Release(@, snd.txn), !["R"] = Release(@, rcv.txn)]
      BY DEF Disconnect
    <2>2. [hash EXCEPT !["S"] = Release(@, snd.txn), !["R"] = Release(@, rcv.txn)]
          = [hash EXCEPT !["S"] = g, !["R"] = h]
      OBVIOUS
    <2> QED BY <2>1, <2>2 DEF Disconnect
  <1>2. /\ Typed /\ SessionInv /\ SlotInv /\ HashInv /\ AreaTracked /\ Messages BY DEF Inv
  <1>3. g \in HashRec /\ g.refs = Among("S", other)
    BY <1>2, HashEntries, AmongNat, ReleaseLemma DEF HashInv
  <1>4. h \in HashRec /\ h.refs = Among("R", other)
    BY <1>2, HashEntries, AmongNat, ReleaseLemma DEF HashInv
  <1> HIDE DEF g, h
  <1>5. hash'["S"] = g /\ hash'["R"] = h /\ hash' \in [Side -> HashRec]
    BY <1>1, <1>2, <1>3, <1>4, HashEntries DEF Side
  <1>6. SndOK(snd') /\ RcvOK(rcv') /\ Messages' /\ SessionInv' /\ SlotInv' /\ AreaTracked'
    BY <1>1, <1>2, GoneLemma
  <1>7. Typed' BY <1>1, <1>2, <1>5, <1>6 DEF Typed, HashRec
  <1>8. snd'.txn = None /\ rcv'.txn = None BY <1>1, NoSndOK, NoRcvOK
  <1>9. hash'["S"].refs = 0 + Among("S", other) /\ hash'["R"].refs = 0 + Among("R", other)
    BY <1>3, <1>4, <1>5, AmongNat
  <1>10. HashInv' BY <1>1, <1>8, <1>9 DEF HashInv, Held
  <1> QED BY <1>6, <1>7, <1>10 DEF Inv

(* A crash of the receiver: sanitize() gives back what nobody has. *)
LEMMA CrashStep == ASSUME Inv, Crash PROVE Inv'
  <1> DEFINE g == Release(hash["S"], snd.txn)
             h == [hash["R"] EXCEPT !.refs = 0]
  <1>1. /\ hash' = [hash EXCEPT !["S"] = g, !["R"] = h] /\ other' = other \ {"R"}
        /\ snd' = NoSnd /\ rcv' = NoRcv(rcv.budget) /\ toR' = << >> /\ toS' = << >>
        /\ ReleaseSlot([slot |-> slot, loose |-> loose]) /\ db' = db
    <2>1. hash' = [hash EXCEPT !["S"] = Release(@, snd.txn), !["R"].refs = 0] BY DEF Crash
    <2>2. [hash EXCEPT !["S"] = Release(@, snd.txn), !["R"].refs = 0]
          = [hash EXCEPT !["S"] = g, !["R"] = h]
      OBVIOUS
    <2> QED BY <2>1, <2>2 DEF Crash
  <1>2. /\ Typed /\ SessionInv /\ SlotInv /\ HashInv /\ AreaTracked /\ Messages BY DEF Inv
  <1>3. g \in HashRec /\ g.refs = Among("S", other)
    BY <1>2, HashEntries, AmongNat, ReleaseLemma DEF HashInv
  <1>4. h \in HashRec /\ h.refs = 0 BY <1>2, HashEntries DEF HashRec
  <1> HIDE DEF g, h
  <1>5. hash'["S"] = g /\ hash'["R"] = h /\ hash' \in [Side -> HashRec]
    BY <1>1, <1>2, <1>3, <1>4, HashEntries DEF Side
  <1>6. SndOK(snd') /\ RcvOK(rcv') /\ Messages' /\ SessionInv' /\ SlotInv' /\ AreaTracked'
    BY <1>1, <1>2, GoneLemma
  <1>7. Typed' BY <1>1, <1>2, <1>5, <1>6 DEF Typed, HashRec
  <1>8. snd'.txn = None /\ rcv'.txn = None BY <1>1, NoSndOK, NoRcvOK
  <1>9. Among("S", other') = Among("S", other) /\ Among("R", other') = 0 BY <1>1 DEF Among
  <1>10. hash'["S"].refs = 0 + Among("S", other') /\ hash'["R"].refs = 0 + Among("R", other')
    BY <1>3, <1>4, <1>5, <1>9, AmongNat
  <1>11. HashInv' BY <1>8, <1>10 DEF HashInv, Held
  <1> QED BY <1>6, <1>7, <1>11 DEF Inv
-----------------------------------------------------------------------------
(* Other sessions and the clients. *)

(* Another session pins the transaction this one has. *)
LEMMA OtherBeginsStep == ASSUME Inv, NEW s \in Side, OtherBegins(s) PROVE Inv'
  <1> DEFINE h == Acquire(hash[s], db[s])
  <1>1. /\ s \notin other /\ other' = other \cup {s} /\ hash' = [hash EXCEPT ![s] = h]
        /\ db' = db /\ snd' = snd /\ rcv' = rcv /\ toR' = toR /\ toS' = toS
        /\ slot' = slot /\ loose' = loose
    BY DEF OtherBegins
  <1>2. /\ Typed /\ SessionInv /\ SlotInv /\ HashInv /\ AreaTracked /\ Messages BY DEF Inv
  <1>3. hash[s] \in HashRec /\ db[s] \in Txn /\ hash \in [Side -> HashRec]
    BY <1>2 DEF Typed, HashRec
  <1>4. /\ h \in HashRec /\ h.refs = hash[s].refs + 1
        /\ hash[s].refs # 0 => h.txn = hash[s].txn
    BY <1>3, AcquireLemma
  <1> HIDE DEF h
  <1>5. /\ hash'[s] = h /\ hash' \in [Side -> HashRec]
        /\ \A r \in Side : r # s => hash'[r] = hash[r]
    BY <1>1, <1>3, <1>4
  <1>6. Typed' BY <1>1, <1>2, <1>5 DEF Typed, HashRec
  <1>7. Messages' BY <1>1, <1>2 DEF Messages, Turns, ToRInv, ToSInv, SenderActive
  <1>8. SessionInv' BY <1>1, <1>2 DEF SessionInv, SenderActive, ReceiverActive
  <1>9. SlotInv' BY <1>1, <1>2 DEF SlotInv, ReceiverActive
  <1>10. AreaTracked' BY <1>1, <1>2 DEF AreaTracked
  <1>11. /\ Among(s, other) = 0 /\ Among(s, other') = 1
         /\ \A r \in Side : r # s => Among(r, other') = Among(r, other)
    BY <1>1 DEF Among
  <1>12. \A t : Held(t) \in Nat /\ (t # None => Held(t) # 0) BY DEF Held
  <1>13. HashInv'
    <2>1. CASE s = "S"
      <3>1. h.refs = Held(snd.txn) + 1 /\ (snd.txn # None => h.txn = hash["S"].txn)
        BY <1>2, <1>4, <1>11, <1>12, <2>1 DEF HashInv
      <3> QED BY <1>1, <1>2, <1>5, <1>11, <2>1, <3>1 DEF HashInv, Side
    <2>2. CASE s = "R"
      <3>1. h.refs = Held(rcv.txn) + 1 /\ (rcv.txn # None => h.txn = hash["R"].txn)
        BY <1>2, <1>4, <1>11, <1>12, <2>2 DEF HashInv
      <3> QED BY <1>1, <1>2, <1>5, <1>11, <2>2, <3>1 DEF HashInv, Side
    <2> QED BY <2>1, <2>2 DEF Side
  <1> QED BY <1>6, <1>7, <1>8, <1>9, <1>10, <1>13 DEF Inv

(* Another session gives back its own reference only. *)
LEMMA OtherEndsStep == ASSUME Inv, NEW s \in Side, OtherEnds(s) PROVE Inv'
  <1> DEFINE h == [hash[s] EXCEPT !.refs = @ - 1]
  <1>1. /\ s \in other /\ other' = other \ {s} /\ hash' = [hash EXCEPT ![s] = h]
        /\ db' = db /\ snd' = snd /\ rcv' = rcv /\ toR' = toR /\ toS' = toS
        /\ slot' = slot /\ loose' = loose
    BY DEF OtherEnds
  <1>2. /\ Typed /\ SessionInv /\ SlotInv /\ HashInv /\ AreaTracked /\ Messages BY DEF Inv
  <1>3. hash[s] \in HashRec /\ hash \in [Side -> HashRec] BY <1>2 DEF Typed, HashRec
  <1>4. /\ Among(s, other) = 1 /\ Among(s, other') = 0
        /\ \A r \in Side : r # s => Among(r, other') = Among(r, other)
    BY <1>1 DEF Among
  <1>5. \A t : Held(t) \in Nat BY DEF Held
  <1> DEFINE n == Held(IF s = "S" THEN snd.txn ELSE rcv.txn)
  <1>6. n \in Nat /\ hash[s].refs = n + 1
    <2>1. CASE s = "S" BY <1>2, <1>4, <1>5, <2>1 DEF HashInv
    <2>2. CASE s = "R" BY <1>2, <1>4, <1>5, <2>2 DEF HashInv
    <2> QED BY <2>1, <2>2 DEF Side
  <1>15. (s = "S" => n = Held(snd.txn)) /\ (s = "R" => n = Held(rcv.txn)) OBVIOUS
  <1> HIDE DEF n
  <1>7. h \in HashRec /\ h.refs = n /\ h.txn = hash[s].txn BY <1>3, <1>6 DEF HashRec
  <1> HIDE DEF h
  <1>8. /\ hash'[s] = h /\ hash' \in [Side -> HashRec]
        /\ \A r \in Side : r # s => hash'[r] = hash[r]
    BY <1>1, <1>3, <1>7
  <1>9. Typed' BY <1>1, <1>2, <1>8 DEF Typed, HashRec
  <1>10. Messages' BY <1>1, <1>2 DEF Messages, Turns, ToRInv, ToSInv, SenderActive
  <1>11. SessionInv' BY <1>1, <1>2 DEF SessionInv, SenderActive, ReceiverActive
  <1>12. SlotInv' BY <1>1, <1>2 DEF SlotInv, ReceiverActive
  <1>13. AreaTracked' BY <1>1, <1>2 DEF AreaTracked
  <1>14. HashInv'
    <2>1. CASE s = "S"
      <3>1. h.refs = Held(snd.txn) + 0 /\ h.txn = hash["S"].txn
        BY <1>5, <1>7, <1>15, <2>1
      <3> QED BY <1>1, <1>2, <1>4, <1>8, <2>1, <3>1 DEF HashInv, Side
    <2>2. CASE s = "R"
      <3>1. h.refs = Held(rcv.txn) + 0 /\ h.txn = hash["R"].txn
        BY <1>5, <1>7, <1>15, <2>2
      <3> QED BY <1>1, <1>2, <1>4, <1>8, <2>2, <3>1 DEF HashInv, Side
    <2> QED BY <2>1, <2>2 DEF Side
  <1> QED BY <1>9, <1>10, <1>11, <1>12, <1>13, <1>14 DEF Inv

(* A transaction of a client touches no session. *)
LEMMA ClientLemma == ASSUME Inv, NEW s \in Side, NEW c \in Txn, Client(s, c) PROVE Inv'
  <1>1. /\ db' = [db EXCEPT ![s] = c] /\ hash' = hash /\ other' = other /\ snd' = snd
        /\ rcv' = rcv /\ toR' = toR /\ toS' = toS /\ slot' = slot /\ loose' = loose
    BY DEF Client
  <1>2. /\ Typed /\ SessionInv /\ SlotInv /\ HashInv /\ AreaTracked /\ Messages BY DEF Inv
  <1>3. Typed' BY <1>1, <1>2 DEF Typed
  <1>4. Messages' BY <1>1, <1>2 DEF Messages, Turns, ToRInv, ToSInv, SenderActive
  <1>5. SessionInv' BY <1>1, <1>2 DEF SessionInv, SenderActive, ReceiverActive
  <1>6. SlotInv' BY <1>1, <1>2 DEF SlotInv, ReceiverActive
  <1>7. HashInv' BY <1>1, <1>2 DEF HashInv
  <1>8. AreaTracked' BY <1>1, <1>2 DEF AreaTracked
  <1> QED BY <1>3, <1>4, <1>5, <1>6, <1>7, <1>8 DEF Inv

(* A content with a key more ... *)
LEMMA WithLemma == ASSUME NEW V, NEW f \in Contents(V), NEW k \in Keys, NEW v \in V
    PROVE With(f, k, v) \in Contents(V)
  <1>1. DOMAIN f \subseteq Keys /\ f \in [DOMAIN f -> V] BY ContentsForm
  <1>2. With(f, k, v) \in [DOMAIN f \cup {k} -> V] BY <1>1 DEF With
  <1>3. DOMAIN f \cup {k} \subseteq Keys BY <1>1
  <1> QED BY <1>2, <1>3, ContentsMember

(* ... and with a key less. *)
LEMMA WithoutLemma == ASSUME NEW V, NEW f \in Contents(V), NEW k
    PROVE Without(f, k) \in Contents(V)
  <1>1. DOMAIN f \subseteq Keys /\ f \in [DOMAIN f -> V] BY ContentsForm
  <1>2. Without(f, k) \in [DOMAIN f \ {k} -> V] BY <1>1 DEF Without
  <1>3. DOMAIN f \ {k} \subseteq Keys BY <1>1
  <1> QED BY <1>2, <1>3, ContentsMember

(* Inserting, removing and purging preserve the invariant. *)
LEMMA ClientsStep == ASSUME Inv, NEW s \in Side, NEW k \in Keys PROVE
    /\ \A v \in Values : Put(s, k, v) => Inv'
    /\ \A t \in Stamps : Erase(s, k, t) => Inv'
    /\ Purge(s, k) => Inv'
  <1>1. db[s] \in Txn BY DEF Inv, Typed
  <1>2. db[s].main \in Contents(Values \cup {Empty}) /\ db[s].del \in Contents(Stamps)
        /\ db[s] = [main |-> db[s].main, del |-> db[s].del]
    BY <1>1 DEF Txn
  <1>3. ASSUME NEW v \in Values, Put(s, k, v) PROVE Inv'
    <2> DEFINE g == With(db[s].main, k, v)
    <2>1. g \in Contents(Values \cup {Empty}) BY <1>2, WithLemma
    <2>2. Client(s, [db[s] EXCEPT !.main = g]) BY <1>3 DEF Put
    <2> HIDE DEF g
    <2>3. [db[s] EXCEPT !.main = g] \in Txn BY <1>1, <2>1 DEF Txn
    <2> QED BY <2>2, <2>3, ClientLemma
  <1>4. ASSUME NEW t \in Stamps, Erase(s, k, t) PROVE Inv'
    <2> DEFINE g == Without(db[s].main, k)
               e == With(db[s].del, k, t)
    <2>1. g \in Contents(Values \cup {Empty}) /\ e \in Contents(Stamps)
      BY <1>2, WithLemma, WithoutLemma
    <2>2. Client(s, [main |-> g, del |-> e]) BY <1>4 DEF Erase
    <2> HIDE DEF g, e
    <2>3. [main |-> g, del |-> e] \in Txn BY <2>1 DEF Txn
    <2> QED BY <2>2, <2>3, ClientLemma
  <1>5. ASSUME Purge(s, k) PROVE Inv'
    <2> DEFINE e == Without(db[s].del, k)
    <2>1. e \in Contents(Stamps) BY <1>2, WithoutLemma
    <2>2. Client(s, [db[s] EXCEPT !.del = e]) BY <1>5 DEF Purge
    <2> HIDE DEF e
    <2>3. [db[s] EXCEPT !.del = e] \in Txn BY <1>1, <2>1 DEF Txn
    <2> QED BY <2>2, <2>3, ClientLemma
  <1> QED BY <1>3, <1>4, <1>5

-----------------------------------------------------------------------------
(* The invariant holds initially ... *)
LEMMA InitInv == ASSUME Init PROVE Inv
  <1>1. \A s \in Side : db[s] \in Txn
    <2> SUFFICES ASSUME NEW s \in Side PROVE db[s] \in Txn OBVIOUS
    <2>1. db[s].main \in Mains /\ db[s].del \in UNION {[D -> Stamps] : D \in SUBSET RetiredKeys}
          /\ db[s] = [main |-> db[s].main, del |-> db[s].del]
      BY DEF Init
    <2>2. db[s].main \in Contents(Values) BY <2>1 DEF Mains
    <2>3. DOMAIN db[s].main \subseteq Keys /\ db[s].main \in [DOMAIN db[s].main -> Values]
      BY <2>2, ContentsForm
    <2>4. db[s].main \in [DOMAIN db[s].main -> Values \cup {Empty}] BY <2>3
    <2>5. db[s].main \in Contents(Values \cup {Empty}) BY <2>3, <2>4, ContentsMember
    <2>6. db[s].del \in Contents(Stamps) BY <2>1, ReplicationAssumption DEF Contents
    <2> QED BY <2>1, <2>5, <2>6 DEF Txn
  <1>2. db \in [Side -> Txn]
    <2>1. db = [s \in Side |-> db[s]] BY DEF Init
    <2> QED BY <1>1, <2>1
  <1>3. hash \in [Side -> [txn : Txn, refs : Nat]]
    BY <1>1 DEF Init
  <1>4. PICK b : rcv = NoRcv(b) BY DEF Init
  <1>5. snd = NoSnd /\ other = {} /\ toR = << >> /\ toS = << >> /\ slot = "free" /\ loose = 0
        /\ hash["S"].refs = 0 /\ hash["R"].refs = 0
    BY DEF Init, Side
  <1>6. Typed BY <1>2, <1>3, <1>4, <1>5, NoRcvOK, NoSndOK DEF Typed
  <1>7. Messages BY <1>5 DEF Messages, Turns, One, ToRInv, ToSInv
  <1>8. rcv.state = "IDLE" /\ rcv.db = "main" /\ rcv.txn = None BY <1>4, NoRcvOK
  <1>9. snd.state = "IDLE" /\ snd.txn = None BY <1>5, NoSndOK
  <1>10. SessionInv BY <1>8, <1>9 DEF SessionInv, SenderActive, ReceiverActive
  <1>11. SlotInv BY <1>5, <1>8 DEF SlotInv, ReceiverActive
  <1>12. HashInv BY <1>5, <1>8, <1>9 DEF HashInv, Held, Among
  <1>13. AreaTracked BY <1>5 DEF AreaTracked
  <1> QED BY <1>6, <1>7, <1>10, <1>11, <1>12, <1>13 DEF Inv

(* ... and every step preserves it. *)
LEMMA StepInv == ASSUME Inv, [Next]_vars PROVE Inv'
  <1>1. CASE Next
    <2>1. SenderStep => Inv' BY SenderReceivesStep, SenderRestartsStep DEF SenderStep
    <2>2. ReceiverStep => Inv'
      BY HandleTrieDataStep, HandleTrieDataFractionStep, HandleBigValueStartStep,
         HandleBigValueStartFailsStep, HandleBigValueDataStep, HandleCompleteStep,
         MergeFailsStep DEF ReceiverStep
    <2>3. (ReceiverBegin \/ SenderBegin \/ Disconnect \/ Crash) => Inv'
      BY ReceiverBeginStep, SenderBeginStep, DisconnectStep, CrashStep
    <2>4. (\E s \in Side : OtherBegins(s) \/ OtherEnds(s)) => Inv'
      BY OtherBeginsStep, OtherEndsStep
    <2>5. (\E s \in Side, k \in Keys :
              \/ \E v \in Values : Put(s, k, v)
              \/ k \in RetiredKeys /\ \E t \in Stamps : Erase(s, k, t)
              \/ Purge(s, k)) => Inv'
      BY ClientsStep
    <2> QED BY <1>1, <2>1, <2>2, <2>3, <2>4, <2>5 DEF Next
  <1>2. CASE UNCHANGED vars
    <2>1. /\ db' = db /\ hash' = hash /\ other' = other /\ snd' = snd
          /\ rcv' = rcv /\ toR' = toR /\ toS' = toS /\ slot' = slot /\ loose' = loose
      BY <1>2 DEF vars
    <2>2. /\ Typed /\ SessionInv /\ SlotInv /\ HashInv /\ AreaTracked /\ Messages BY DEF Inv
    <2>3. Typed' BY <2>1, <2>2 DEF Typed
    <2>4. Messages' BY <2>1, <2>2 DEF Messages, Turns, ToRInv, ToSInv, SenderActive
    <2>5. SessionInv' BY <2>1, <2>2 DEF SessionInv, SenderActive, ReceiverActive
    <2>6. SlotInv' BY <2>1, <2>2 DEF SlotInv, ReceiverActive
    <2>7. HashInv' BY <2>1, <2>2 DEF HashInv
    <2>8. AreaTracked' BY <2>1, <2>2 DEF AreaTracked
    <2> QED BY <2>3, <2>4, <2>5, <2>6, <2>7, <2>8 DEF Inv
  <1> QED BY <1>1, <1>2

(* The inductive invariant of a session: the two state machines take turns, *)
(* a message is about the trie its sender is at, and slot, area and         *)
(* snapshots are in step with them.                                         *)
THEOREM InvTheorem == Spec => []Inv
  BY InitInv, StepInv, PTL DEF Spec

(* While a session runs, the snapshot it has pinned is the one the hash     *)
(* trie stands for, on both sides, and ref_count counts exactly the         *)
(* sessions that rely on it (acquire_hash_trie, release_hash_trie,          *)
(* sanitize).                                                               *)
THEOREM HashTrieTheorem == Spec => []HashTrieMatchesSnapshot
  <1>1. Inv => HashTrieMatchesSnapshot BY HashInvMeaning DEF Inv
  <1> QED BY <1>1, InvTheorem, PTL

(* An area allocated for big values is in the slot until a transaction or   *)
(* the pool has it, through errors, disconnects, failed merges and crashes  *)
(* (_ReplicationSlot, _BigValueReceiver).                                   *)
THEOREM AreaTheorem == Spec => []AreaTracked
  <1>1. Inv => AreaTracked BY DEF Inv
  <1> QED BY <1>1, InvTheorem, PTL


(* The database of the receiver changes in a merge or by a client. *)
LEMMA NextCases == ASSUME Next PROVE
    \/ ops' = ops + 1
    \/ ops' = ops /\ (HandleComplete \/ HandleTrieDataFraction \/ db' = db)
  <1>1. SenderStep => ops' = ops /\ db' = db
    BY DEF SenderStep, SenderReceives, SenderRestarts, ledger
  <1>2. (HandleTrieData \/ HandleBigValueStart \/ HandleBigValueData) => ops' = ops /\ db' = db
    BY DEF HandleTrieData, HandleBigValueStart, HandleBigValueData, ledger
  <1>3. (HandleBigValueStartFails \/ MergeFails) => ops' = ops /\ db' = db
    BY DEF HandleBigValueStartFails, MergeFails, TransitionToError
  <1>4. (HandleComplete \/ HandleTrieDataFraction) => ops' = ops
    BY DEF HandleComplete, HandleTrieDataFraction, ledger
  <1>5. (ReceiverBegin \/ SenderBegin \/ Disconnect \/ Crash) => ops' = ops /\ db' = db
    BY DEF ReceiverBegin, SenderBegin, Disconnect, Crash, ledger
  <1>6. (\E s \in Side : OtherBegins(s) \/ OtherEnds(s)) => ops' = ops /\ db' = db
    BY DEF OtherBegins, OtherEnds
  <1>7. \A s, c : Client(s, c) => ops' = ops + 1 BY DEF Client
  <1>8. (\E s \in Side, k \in Keys :
            \/ \E v \in Values : Put(s, k, v)
            \/ k \in RetiredKeys /\ \E t \in Stamps : Erase(s, k, t)
            \/ Purge(s, k)) => ops' = ops + 1
    BY <1>7 DEF Put, Erase, Purge
  <1>9. ReceiverStep => (ops' = ops /\ db' = db) \/ HandleComplete \/ HandleTrieDataFraction
    BY <1>2, <1>3 DEF ReceiverStep
  <1> QED BY <1>1, <1>4, <1>5, <1>6, <1>8, <1>9 DEF Next

(* The clients' operations are counted. *)
OpsInv == ops \in Nat
(* The number of client operations is a number. *)
LEMMA OpsTheorem == Spec => []OpsInv
  <1>1. Init => OpsInv BY DEF Init, OpsInv
  <1>2. ASSUME OpsInv, [Next]_vars PROVE OpsInv'
    <2>1. CASE Next BY <1>2, <2>1, NextCases DEF OpsInv
    <2>2. CASE UNCHANGED vars BY <1>2, <2>2 DEF vars, OpsInv
    <2> QED BY <1>2, <2>1, <2>2
  <1> QED BY <1>1, <1>2, PTL DEF Spec

(* A step NoResurrection excludes. *)
Resurrects ==
    /\ db'["R"] # db["R"] /\ ops' = ops
    /\ \E k \in DOMAIN db["R"].del \ DOMAIN db["R"].main : k \in DOMAIN db'["R"].main

(* No step brings back a deleted key. *)
LEMMA ResurrectionStep == ASSUME Inv, OpsInv, [Next]_vars PROVE ~Resurrects
  <1>1. db["R"] \in Txn /\ db \in [Side -> Txn] /\ RcvOK(rcv)
    BY HashEntries DEF Inv, Typed
  <1>2. CASE ops' = ops + 1 BY <1>2 DEF Resurrects, OpsInv
  <1>3. CASE HandleComplete
    <2>1. db' = [db EXCEPT !["R"] = MergeAllPhases(rcv, @)] BY <1>3 DEF HandleComplete
    <2>2. db'["R"] = MergeAllPhases(rcv, db["R"]) BY <1>1, <2>1 DEF Side
    <2> QED BY <1>1, <2>2, MergeAllPhasesLemma DEF Resurrects
  <1>4. CASE HandleTrieDataFraction
    <2>1. Incoming("TRIE_DATA") /\ db' = [db EXCEPT !["R"] = MergeAllPhases(Received, @)]
      BY <1>4 DEF HandleTrieDataFraction
    <2>2. db'["R"] = MergeAllPhases(Received, db["R"]) BY <1>1, <2>1 DEF Side
    <2>3. RcvOK(Received) BY <2>1, ReceivedLemma
    <2> QED BY <1>1, <2>2, <2>3, MergeAllPhasesLemma DEF Resurrects
  <1>5. CASE db' = db BY <1>5 DEF Resurrects
  <1>6. CASE UNCHANGED vars BY <1>6 DEF vars, Resurrects
  <1> QED BY <1>2, <1>3, <1>4, <1>5, <1>6, NextCases

(* No merge of a whole session or of a fraction brings back a key that this *)
(* side has deleted and not inserted again (_may_add_leaf,                  *)
(* _merge_all_phases).                                                      *)
THEOREM ResurrectionTheorem == Spec => NoResurrection
  <1>1. ASSUME Inv, OpsInv, [Next]_vars
        PROVE [(db'["R"] # db["R"] /\ ops' = ops) =>
                \A k \in DOMAIN db["R"].del \ DOMAIN db["R"].main :
                    k \notin DOMAIN db'["R"].main]_vars
    BY <1>1, ResurrectionStep DEF Resurrects
  <1> QED BY <1>1, InvTheorem, OpsTheorem, PTL DEF Spec, NoResurrection
=============================================================================
