---------------------------- MODULE SerialNumber ----------------------------
(***************************************************************************)
(* core/_serial.hpp: transaction ids are serial numbers that wrap around   *)
(* and skip zero.  The writer gives every transaction the successor of the *)
(* last id (start_transaction() of _DB); readers keep transactions, and    *)
(* may_recycle(), update() and the recovery order their ids with < alone.  *)
(*                                                                         *)
(* The age of a pinned id, the number of transactions started since, is    *)
(* what the order is supposed to mean; the code does not have it.          *)
(***************************************************************************)
EXTENDS Naturals

CONSTANTS Readers,
          Half,      \* HALF_RANGE, 2^31 in the program
          Window     \* bound: how far a reader may lag behind

ASSUME SerialAssumption ==
    /\ Half \in Nat /\ Half >= 2
    /\ Window \in Nat /\ Window < Half

VARIABLES newest,    \* id of the newest transaction
          pin        \* what each reader holds: an id and its age

vars == <<newest, pin>>

MAX_VALUE == 2 * Half - 1
Serial    == 1 .. MAX_VALUE
Unpinned  == [id |-> 0, age |-> 0]

(* operator+= *)
Plus(a, n) == IF a = 0 THEN n ELSE ((a + n - 1) % MAX_VALUE) + 1

(* operator<; zero, "uninitialized", is the minimum *)
Less_Plain(a, b) == a < b
Less(a, b) ==
    IF a = 0 \/ b = 0 THEN a < b
    ELSE \/ a < b /\ b - a < Half
         \/ a > b /\ a - b > Half

(* Ids stay in 1 .. MAX_VALUE: zero, the uninitialized id, is never given   *)
(* to a transaction, also at the wrap of operator+=.                        *)
TypeOK ==
    /\ newest \in Serial
    /\ pin \in [Readers -> [id : Serial \cup {0}, age : 0 .. Window]]

Init ==
    /\ newest = 1
    /\ pin = [r \in Readers |-> Unpinned]

(* start_transaction() and commit; the bound keeps every reader within the *)
(* window.                                                                 *)
StartTransaction ==
    /\ \A r \in Readers : pin[r].age < Window
    /\ newest' = Plus(newest, 1)
    /\ pin' = [r \in Readers |-> IF pin[r].id = 0 THEN pin[r]
                                 ELSE [pin[r] EXCEPT !.age = @ + 1]]

(* A reader takes the newest transaction if its own is older (update()), *)
(* and lets go of it.                                                    *)
Update(r) ==
    /\ Less(pin[r].id, newest)
    /\ pin' = [pin EXCEPT ![r] = [id |-> newest, age |-> 0]]
    /\ UNCHANGED newest

Close(r) ==
    /\ pin[r].id # 0
    /\ pin' = [pin EXCEPT ![r] = Unpinned]
    /\ UNCHANGED newest

Next == StartTransaction \/ \E r \in Readers : Update(r) \/ Close(r)

Spec == Init /\ [][Next]_vars

-----------------------------------------------------------------------------
(* Properties *)

(* The order of two ids in use is the order in which their transactions     *)
(* started, also across the wrap: "numbers can be compared within 2^31 of   *)
(* each other".                                                             *)
OrderIsAge ==
    \A r \in Readers : pin[r].id # 0 =>
        /\ Less(pin[r].id, newest) <=> pin[r].age > 0
        /\ ~Less(newest, pin[r].id)
        /\ \A s \in Readers : pin[s].id # 0 =>
              (Less(pin[r].id, pin[s].id) <=> pin[r].age > pin[s].age)
=============================================================================
