--------------------------- MODULE SnapshotStore ---------------------------
(***************************************************************************)
(* What a leaves DB promises its users, without pages, reference counts or *)
(* recycling: one committed map, one private draft for the only writer,    *)
(* and for every cursor a snapshot that nobody but the cursor itself moves.*)
(* Mvcc.tla is shown to implement this specification.                      *)
(***************************************************************************)
EXTENDS Naturals

CONSTANTS Cursors,   \* the cursors (threads) of the application
          Keys,      \* keys of the map
          Vals,      \* values a key can be bound to
          Missing,   \* the value of a key that is not in the map
          NoMap      \* "no snapshot" / "no draft"

VARIABLES committed, \* the newest committed map
          draft,     \* the map the open write transaction has built, or NoMap
          ready,     \* the draft has been prepared (two-phase commit)
          snapshot   \* the map each cursor reads, or NoMap

vars == <<committed, draft, ready, snapshot>>

Maps == [Keys -> Vals \cup {Missing}]

(* The shape of the abstract state. *)
TypeOK ==
    /\ committed \in Maps
    /\ draft \in Maps \cup {NoMap}
    /\ ready \in BOOLEAN
    /\ snapshot \in [Cursors -> Maps \cup {NoMap}]

Init ==
    /\ committed = [k \in Keys |-> Missing]
    /\ draft = NoMap
    /\ ready = FALSE
    /\ snapshot = [c \in Cursors |-> NoMap]

(* A cursor moves to the newest committed map; nobody else is affected. *)
Refresh(c) ==
    /\ snapshot' = [snapshot EXCEPT ![c] = committed]
    /\ UNCHANGED <<committed, draft, ready>>

Close(c) ==
    /\ snapshot' = [snapshot EXCEPT ![c] = NoMap]
    /\ UNCHANGED <<committed, draft, ready>>

(* A write transaction starts from the committed map. *)
Begin ==
    /\ draft = NoMap
    /\ draft' = committed
    /\ UNCHANGED <<committed, ready, snapshot>>

(* The writer's own cursor reads the draft. *)
Enter(c) ==
    /\ draft # NoMap
    /\ snapshot' = [snapshot EXCEPT ![c] = draft]
    /\ UNCHANGED <<committed, draft, ready>>

Write(c, k, v) ==
    /\ draft # NoMap
    /\ ~ready
    /\ draft' = [draft EXCEPT ![k] = v]
    /\ snapshot' = [snapshot EXCEPT ![c] = draft']
    /\ UNCHANGED <<committed, ready>>

Prepare ==
    /\ draft # NoMap
    /\ ready' = TRUE
    /\ UNCHANGED <<committed, draft, snapshot>>

(* The whole draft becomes visible in one step. *)
Commit ==
    /\ ready
    /\ committed' = draft
    /\ draft' = NoMap
    /\ ready' = FALSE
    /\ UNCHANGED snapshot

Unprepare ==
    /\ draft # NoMap
    /\ ready' = FALSE
    /\ UNCHANGED <<committed, draft, snapshot>>

(* The draft is dropped; c, the writer's cursor, lets go of it. *)
Rollback(c) ==
    /\ draft # NoMap
    /\ ~ready
    /\ draft' = NoMap
    /\ snapshot' = [snapshot EXCEPT ![c] = NoMap]
    /\ UNCHANGED <<committed, ready>>

(* A recovered prepared draft has no cursor any more: it is dropped by the
   application through the database object. *)
Abandon ==
    /\ ready
    /\ draft' = NoMap
    /\ ready' = FALSE
    /\ UNCHANGED <<committed, snapshot>>

(* A process crash loses every cursor and every unprepared draft, keeps the
   committed map and keeps a prepared draft. *)
Crash ==
    /\ snapshot' = [c \in Cursors |-> NoMap]
    /\ draft' = IF ready THEN draft ELSE NoMap
    /\ UNCHANGED <<committed, ready>>

Next ==
    \/ Begin \/ Prepare \/ Commit \/ Unprepare \/ Abandon \/ Crash
    \/ \E c \in Cursors :
          \/ Refresh(c) \/ Close(c) \/ Enter(c) \/ Rollback(c)
          \/ \E k \in Keys, v \in Vals \cup {Missing} : Write(c, k, v)

Spec == Init /\ [][Next]_vars
=============================================================================
