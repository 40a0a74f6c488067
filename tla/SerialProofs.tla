---------------------------- MODULE SerialProofs ----------------------------
(***************************************************************************)
(* The wrap-around order of transaction ids is the order of their creation *)
(* for every width, as long as no reader lags by more than HALF_RANGE - 2. *)
(***************************************************************************)
EXTENDS SerialNumber, TLAPS

(* operator+= with 1 is the successor on the circle 1 .. MAX_VALUE. *)
LEMMA PlusOne ==
  ASSUME NEW a \in Serial
  PROVE  Plus(a, 1) = IF a = MAX_VALUE THEN 1 ELSE a + 1
<1>1. a % MAX_VALUE = IF a = MAX_VALUE THEN 0 ELSE a
  BY SerialAssumption DEF Serial, MAX_VALUE
<1> QED BY <1>1, SerialAssumption DEF Plus, Serial, MAX_VALUE

(* The id d transactions after a. *)
Ahead(a, d) == IF a + d <= MAX_VALUE THEN a + d ELSE a + d - MAX_VALUE

(* The inductive invariant: the newest id is as far ahead of a pinned one   *)
(* as the age says.                                                         *)
IInv ==
    /\ TypeOK
    /\ \A r \in Readers :
          IF pin[r].id = 0 THEN pin[r].age = 0
                           ELSE newest = Ahead(pin[r].id, pin[r].age)

(* One more transaction is one more step ahead. *)
LEMMA AheadStep ==
  ASSUME NEW a \in Serial, NEW d \in 0 .. Window, d < Window
  PROVE  Plus(Ahead(a, d), 1) = Ahead(a, d + 1)
<1>1. Ahead(a, d) \in Serial
  BY SerialAssumption DEF Ahead, Serial, MAX_VALUE
<1> QED BY <1>1, PlusOne, SerialAssumption DEF Ahead, Serial, MAX_VALUE

LEMMA InitInv == Init => IInv
BY SerialAssumption DEF Init, IInv, TypeOK, Unpinned, Serial, MAX_VALUE

LEMMA NextInv == IInv /\ [Next]_vars => IInv'
<1> SUFFICES ASSUME IInv, [Next]_vars PROVE IInv'
  OBVIOUS
<1> USE DEF IInv
<1>1. CASE StartTransaction
  <2>1. newest' \in Serial
    BY <1>1, PlusOne, SerialAssumption DEF StartTransaction, TypeOK, Serial, MAX_VALUE
  <2>2. TypeOK'
    BY <1>1, <2>1, SerialAssumption DEF StartTransaction, TypeOK
  <2>3. ASSUME NEW r \in Readers
        PROVE  (IF pin[r].id = 0 THEN pin[r].age = 0
                ELSE newest = Ahead(pin[r].id, pin[r].age))'
    <3>1. CASE pin[r].id = 0
      BY <1>1, <3>1 DEF StartTransaction, TypeOK
    <3>2. CASE pin[r].id # 0
      <4>1. pin[r].id \in Serial /\ pin[r].age \in 0 .. Window /\ pin[r].age < Window
        BY <1>1, <3>2 DEF StartTransaction, TypeOK
      <4>2. pin'[r].id = pin[r].id /\ pin'[r].age = pin[r].age + 1
        BY <1>1, <3>2 DEF StartTransaction, TypeOK
      <4>3. newest' = Ahead(pin[r].id, pin[r].age + 1)
        BY <1>1, <3>2, <4>1, AheadStep DEF StartTransaction
      <4> QED BY <3>2, <4>2, <4>3 DEF Ahead, MAX_VALUE
    <3> QED BY <3>1, <3>2
  <2> QED BY <2>2, <2>3
<1>2. CASE \E r \in Readers : Update(r) \/ Close(r)
  <2> SUFFICES ASSUME NEW r \in Readers, Update(r) \/ Close(r) PROVE IInv'
    BY <1>2
  <2>1. newest' = newest
    BY DEF Update, Close
  <2>2. TypeOK'
    BY SerialAssumption DEF Update, Close, TypeOK, Unpinned
  <2>3. Ahead(newest, 0) = newest
    BY SerialAssumption DEF TypeOK, Ahead, Serial, MAX_VALUE
  <2>4. ASSUME NEW s \in Readers
        PROVE  (IF pin[s].id = 0 THEN pin[s].age = 0
                ELSE newest = Ahead(pin[s].id, pin[s].age))'
    <3>1. CASE s # r
      BY <3>1, <2>1 DEF Update, Close, TypeOK, Ahead, MAX_VALUE
    <3>2. CASE s = r
      BY <3>2, <2>1, <2>3 DEF Update, Close, TypeOK, Unpinned, Ahead, MAX_VALUE
    <3> QED BY <3>1, <3>2
  <2> QED BY <2>2, <2>4
<1>3. CASE UNCHANGED vars
  BY <1>3 DEF vars, TypeOK, Ahead, MAX_VALUE
<1> QED BY <1>1, <1>2, <1>3 DEF Next

(* operator< on two points of the circle, neither more than HALF_RANGE - 2  *)
(* behind the newest, compares their distances to it.                       *)
LEMMA LessIsAge ==
  ASSUME Window < Half - 1,
         NEW n \in Serial,
         NEW a \in Serial, NEW d \in 0 .. Window, n = Ahead(a, d),
         NEW b \in Serial, NEW e \in 0 .. Window, n = Ahead(b, e)
  PROVE  Less(a, b) <=> d > e
BY SerialAssumption DEF Ahead, Less, Serial, MAX_VALUE

LEMMA InvImpliesOrder ==
  ASSUME Window < Half - 1, IInv
  PROVE  OrderIsAge
<1> SUFFICES ASSUME NEW r \in Readers, pin[r].id # 0
             PROVE  /\ Less(pin[r].id, newest) <=> pin[r].age > 0
                    /\ ~Less(newest, pin[r].id)
                    /\ \A s \in Readers : pin[s].id # 0 =>
                          (Less(pin[r].id, pin[s].id) <=> pin[r].age > pin[s].age)
  BY DEF OrderIsAge
<1>1. newest \in Serial /\ newest = Ahead(newest, 0) /\ 0 \in 0 .. Window
  BY SerialAssumption DEF IInv, TypeOK, Ahead, Serial, MAX_VALUE
<1>2. \A s \in Readers : pin[s].id # 0 =>
         /\ pin[s].id \in Serial /\ pin[s].age \in 0 .. Window
         /\ newest = Ahead(pin[s].id, pin[s].age)
  BY DEF IInv, TypeOK
<1>3. Less(pin[r].id, newest) <=> pin[r].age > 0
  BY <1>1, <1>2, LessIsAge
<1>4. Less(newest, pin[r].id) <=> 0 > pin[r].age
  BY <1>1, <1>2, LessIsAge
<1>5. ASSUME NEW s \in Readers, pin[s].id # 0
      PROVE  Less(pin[r].id, pin[s].id) <=> pin[r].age > pin[s].age
  BY <1>1, <1>2, <1>5, LessIsAge
<1>6. ~(0 > pin[r].age)
  BY <1>2, SerialAssumption
<1> QED BY <1>3, <1>4, <1>5, <1>6

(* For every HALF_RANGE and every number of readers: the order of the ids   *)
(* in use is the order of their transactions, however often the ids wrap.   *)
THEOREM OrderSurvivesWrap ==
  ASSUME Window < Half - 1
  PROVE  Spec => []OrderIsAge
<1>1. IInv => OrderIsAge
  BY InvImpliesOrder
<1> QED BY <1>1, InitInv, NextInv, PTL DEF Spec
=============================================================================
