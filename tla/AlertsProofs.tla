---------------------------- MODULE AlertsProofs ----------------------------
(***************************************************************************)
(* Proofs about Alerts, for any fingerprints, threads, capacity, cooldown  *)
(* and speed of the webhook.                                               *)
(***************************************************************************)
EXTENDS Alerts, FiniteSetTheorems, FunctionTheorems, TLAPS

-----------------------------------------------------------------------------
(* How often a key waits in the queue.                                     *)

\* The places of a key in a queue are finitely many.
LEMMA PlacesFinite ==
  ASSUME NEW q \in Seq(Keys), NEW k
  PROVE  /\ IsFiniteSet(Places(q, k))
         /\ Cardinality(Places(q, k)) \in Nat
<1>1. IsFiniteSet(1..Len(q)) BY FS_Interval
<1>2. Places(q, k) \in SUBSET (1..Len(q)) BY DEF Places
<1>3. IsFiniteSet(Places(q, k)) BY <1>1, <1>2, FS_Subset
<1> QED BY <1>3, FS_CardinalityType

\* put_nowait adds one place for its key and none for the others.
LEMMA PlacesAppend ==
  ASSUME NEW q \in Seq(Keys), NEW e \in Keys, NEW k
  PROVE  Cardinality(Places(Append(q, e), k)) =
           Cardinality(Places(q, k)) + (IF e = k THEN 1 ELSE 0)
<1> DEFINE n == Len(q) + 1
<1>1. n \notin Places(q, k) BY DEF Places
<1>2. CASE e = k
  <2>1. Places(Append(q, e), k) = Places(q, k) \cup {n} BY <1>2 DEF Places
  <2> QED BY <1>1, <1>2, <2>1, PlacesFinite, FS_AddElement
<1>3. CASE e # k
  <2>1. Places(Append(q, e), k) = Places(q, k) BY <1>3 DEF Places
  <2> QED BY <1>3, <2>1, PlacesFinite
<1> QED BY <1>2, <1>3

\* get takes one place from the key at the head.
LEMMA PlacesTail ==
  ASSUME NEW q \in Seq(Keys), q # <<>>, NEW k
  PROVE  Cardinality(Places(q, k)) =
           Cardinality(Places(Tail(q), k)) + (IF Head(q) = k THEN 1 ELSE 0)
<1> DEFINE Rest == Places(q, k) \ {1}
           f == [i \in Places(Tail(q), k) |-> i + 1]
<1>1. Tail(q) \in Seq(Keys) /\ Len(q) \in Nat /\ Len(q) >= 1 /\ Len(Tail(q)) = Len(q) - 1
  OBVIOUS
<1>2. \A i \in 1..Len(Tail(q)) : Tail(q)[i] = q[i + 1] BY <1>1
<1>3. f \in Bijection(Places(Tail(q), k), Rest)
  <2>1. f \in [Places(Tail(q), k) -> Rest]
    <3> SUFFICES ASSUME NEW i \in Places(Tail(q), k) PROVE i + 1 \in Rest
      OBVIOUS
    <3>1. i \in 1..Len(Tail(q)) /\ Tail(q)[i] = k BY DEF Places
    <3>2. i + 1 \in 1..Len(q) /\ i + 1 # 1 BY <1>1, <3>1
    <3> QED BY <1>2, <3>1, <3>2 DEF Places
  <2>2. \A j \in Rest : j - 1 \in Places(Tail(q), k) /\ f[j - 1] = j
    <3> SUFFICES ASSUME NEW j \in Rest PROVE j - 1 \in Places(Tail(q), k) /\ f[j - 1] = j
      OBVIOUS
    <3>1. j \in 2..Len(q) /\ q[j] = k BY <1>1 DEF Places
    <3>2. j - 1 \in 1..Len(Tail(q)) /\ (j - 1) + 1 = j BY <1>1, <3>1
    <3>3. Tail(q)[j - 1] = k BY <1>2, <3>1, <3>2
    <3> QED BY <3>2, <3>3 DEF Places
  <2>3. \A i, j \in Places(Tail(q), k) : f[i] = f[j] => i = j BY DEF Places
  <2>4. \A j \in Rest : \E i \in Places(Tail(q), k) : f[i] = j BY <2>2
  <2> HIDE DEF f, Rest
  <2> QED BY <2>1, <2>3, <2>4, Fun_IsBij
<1>4. Cardinality(Rest) = Cardinality(Places(Tail(q), k))
  <2>1. IsFiniteSet(Places(Tail(q), k)) BY <1>1, PlacesFinite
  <2>2. ExistsBijection(Places(Tail(q), k), Rest) BY <1>3 DEF ExistsBijection
  <2> HIDE DEF f, Rest
  <2> QED BY <2>1, <2>2, FS_Bijection
<1>5. Head(q) = k <=> 1 \in Places(q, k) BY <1>1 DEF Places
<1>6. Cardinality(Rest) = IF Head(q) = k THEN Cardinality(Places(q, k)) - 1
                          ELSE Cardinality(Places(q, k))
  BY <1>5, PlacesFinite, FS_RemoveElement
<1> QED BY <1>1, <1>4, <1>6, PlacesFinite

-----------------------------------------------------------------------------
(* The inductive invariant.                                                *)

\* Between its deliveries the dispatcher has nothing to deliver.
Box == pc \in {"get", "due", "check", "ended"} => \A k \in Keys : outbox[k] = NoAlert

\* A closed incident counts nothing.
Closed == \A k \in Keys : ~incident[k].open => incident[k].repeats = 0

\* The throttle remembers of an open incident what was said of it and when; of a closed
\* one the last report was not "still happening", and is a cooldown ago or was "quiet".
Told ==
  Reading =>
    \A k \in Keys :
      IF incident[k].open
      THEN /\ told[k].kind = IF incident[k].repeated THEN "repeating" ELSE "new"
           /\ told[k].age >= incident[k].age
      ELSE /\ told[k].kind # "repeating"
           /\ told[k].kind # "quiet" => told[k].age >= Cooldown

Inv == TypeOK /\ Accounted /\ Box /\ Closed /\ Told

LEMMA Constants ==
  /\ Capacity \in Nat /\ Capacity > 0
  /\ Cooldown \in Nat /\ Cooldown > 0
  /\ MaxAttempts \in Nat /\ MaxAttempts > 0
  /\ MaxLag \in Nat /\ MaxLogs \in Nat
  /\ Forever \in Nat /\ Forever = Cooldown + MaxLag
BY AlertsAssumption DEF Forever

\* Counting ticks stays within what is counted and never goes back.
LEMMA LaterTicks ==
  ASSUME NEW t \in Ticks
  PROVE  Later(t) \in Ticks /\ Later(t) >= t
BY Constants DEF Later, Ticks

\* The values the actions store have the types of what they are stored in.
LEMMA ValueTypes ==
  /\ NoIncident \in IncidentType /\ NewIncident \in IncidentType
  /\ NoAlert \in AlertType
  /\ \A n \in Nat : AlertOf("new", n) \in AlertType /\ AlertOf("repeating", n) \in AlertType
                    /\ AlertOf("quiet", n) \in AlertType
BY Constants DEF NoIncident, NewIncident, IncidentType, NoAlert, AlertOf, AlertType, Ticks

\* Restarting a window and trying an alert again keep their types.
LEMMA UpdateTypes ==
  ASSUME TypeOK
  PROVE  /\ \A i \in IncidentType : Restarted(i) \in IncidentType
         /\ \A i \in IncidentType : DueAlert(i) \in AlertType
         /\ \A i \in IncidentType : [i EXCEPT !.repeats = @ + 1] \in IncidentType
         /\ \A a \in AlertType : a.tries + 1 < MaxAttempts =>
              [a EXCEPT !.tries = @ + 1] \in AlertType
<1>1. lag \in Ticks BY Constants DEF TypeOK, Ticks
<1>2. ASSUME NEW i \in IncidentType PROVE Restarted(i) \in IncidentType
  BY <1>1 DEF Restarted, IncidentType
<1>3. ASSUME NEW i \in IncidentType PROVE DueAlert(i) \in AlertType
  <2>1. i.repeats \in Nat BY DEF IncidentType
  <2> QED BY <2>1, ValueTypes DEF DueAlert
<1>4. ASSUME NEW a \in AlertType, a.tries + 1 < MaxAttempts
      PROVE  [a EXCEPT !.tries = @ + 1] \in AlertType
  <2>1. [a EXCEPT !.tries = @ + 1] = [kind |-> a.kind, count |-> a.count, tries |-> a.tries + 1]
    BY DEF AlertType
  <2>2. a.tries + 1 \in 0..(MaxAttempts - 1) BY <1>4, Constants DEF AlertType
  <2> QED BY <2>1, <2>2 DEF AlertType
<1>5. ASSUME NEW i \in IncidentType PROVE [i EXCEPT !.repeats = @ + 1] \in IncidentType
  BY DEF IncidentType
<1> QED BY <1>2, <1>3, <1>4, <1>5

\* A key waits a natural number of times.
LEMMA WaitingNat ==
  ASSUME TypeOK, NEW k \in Keys
  PROVE  Waiting(k) \in Nat
BY PlacesFinite DEF Waiting, TypeOK

LEMMA InitInv == Init => Inv
<1> SUFFICES ASSUME Init PROVE Inv OBVIOUS
<1>1. TypeOK
  BY Constants, ValueTypes DEF Init, TypeOK, Ticks
<1>2. \A k \in Keys : Waiting(k) = 0
  <2> SUFFICES ASSUME NEW k \in Keys PROVE Waiting(k) = 0 OBVIOUS
  <2>1. Places(queue, k) = {} BY DEF Init, Places
  <2> QED BY <2>1, FS_EmptySet DEF Waiting
<1>3. Accounted
  BY <1>2 DEF Init, Accounted, NoIncident, NoAlert
<1>4. Box /\ Closed
  BY DEF Init, Box, Closed, NoIncident
<1>5. Told
  BY Constants DEF Init, Told, NoIncident
<1> QED BY <1>1, <1>3, <1>4, <1>5 DEF Inv

\* The types are kept.
LEMMA TypeStep == Inv /\ [Next]_vars => TypeOK'
<1> SUFFICES ASSUME Inv, [Next]_vars PROVE TypeOK' OBVIOUS
<1> USE Constants, ValueTypes DEF Inv, TypeOK
<1>1. ASSUME NEW t \in Threads, Submit(t) PROVE TypeOK'
  <2>1. emitting[t] \in Keys BY <1>1 DEF Submit
  <2>2. CASE HasRoom
    <3>1. queue' = Append(queue, emitting[t]) BY <1>1, <2>2 DEF Submit
    <3>2. queue' \in Seq(Keys) /\ Len(queue') = Len(queue) + 1 BY <2>1, <3>1
    <3>3. owed' = [owed EXCEPT ![emitting[t]] = @ + 1] \/ owed' = owed
      BY <1>1, <2>2 DEF Submit
    <3>4. owed[emitting[t]] + 1 \in Nat BY <2>1
    <3>5. owed' \in [Keys -> Nat] BY <2>1, <3>3, <3>4
    <3>6. Len(queue') <= Capacity BY <2>2, <3>2 DEF HasRoom
    <3> QED BY <1>1, <2>2, <3>2, <3>5, <3>6 DEF Submit, dispatcher
  <2>3. CASE ~HasRoom BY <1>1, <2>3 DEF Submit, dispatcher
  <2> QED BY <2>2, <2>3
<1>2. ASSUME NEW t \in Threads, NEW k \in Keys, Emit(t, k) PROVE TypeOK'
  BY <1>2 DEF Emit, dispatcher
<1>3. CASE Get
  <2> DEFINE h == Head(queue)
  <2>1. h \in Keys /\ Tail(queue) \in Seq(Keys) /\ Len(Tail(queue)) <= Capacity
    BY <1>3 DEF Get
  <2>2. /\ queue' = Tail(queue) /\ lag' = 0 /\ Observe(h)
        /\ UNCHANGED <<main, emitting, logs, owed>>
    BY <1>3 DEF Get
  <2> HIDE DEF h
  <2>3. CASE incident[h].open
    <3>1. incident' = [incident EXCEPT ![h].repeats = @ + 1] /\ pc' = "due"
          /\ UNCHANGED <<outbox, told>>
      BY <2>2, <2>3 DEF Observe
    <3>2. [incident[h] EXCEPT !.repeats = @ + 1] \in IncidentType BY <2>1, UpdateTypes
    <3>3. incident' \in [Keys -> IncidentType] BY <2>1, <3>1, <3>2
    <3> QED BY <2>1, <2>2, <3>1, <3>3
  <2>4. CASE ~incident[h].open
    <3>1. /\ incident' = [incident EXCEPT ![h] = NewIncident] /\ pc' = "sendNew"
          /\ outbox' = [outbox EXCEPT ![h] = AlertOf("new", 1)]
          /\ told' = [told EXCEPT ![h] = [kind |-> "new", age |-> 0]]
      BY <2>2, <2>4 DEF Observe, Tell
    <3>2. incident' \in [Keys -> IncidentType] BY <2>1, <3>1
    <3>3. outbox' \in [Keys -> AlertType] BY <2>1, <3>1
    <3>4. told' \in [Keys -> [kind : {"none", "new", "repeating", "quiet"}, age : Ticks]]
      BY <2>1, <3>1 DEF Ticks
    <3> QED BY <2>1, <2>2, <3>1, <3>2, <3>3, <3>4
  <2> QED BY <2>3, <2>4
<1>4. CASE Poll BY <1>4 DEF Poll
<1>5. CASE Due
  <2>1. \A k \in Keys : DueAlert(incident[k]) \in AlertType BY UpdateTypes
  <2>2. \A k \in Keys : Restarted(incident[k]) \in IncidentType BY UpdateTypes
  <2>3. outbox' \in [Keys -> AlertType] BY <1>5, <2>1 DEF Due
  <2>4. incident' \in [Keys -> IncidentType] BY <1>5, <2>2 DEF Due
  <2>5. told' \in [Keys -> [kind : {"none", "new", "repeating", "quiet"}, age : Ticks]]
    BY <1>5, <2>3 DEF Due, AlertType, Ticks
  <2> QED BY <1>5, <2>3, <2>4, <2>5 DEF Due
<1>6. ASSUME NEW k \in Keys, Post(k) PROVE TypeOK'
  <2>1. outbox[k].tries + 1 < MaxAttempts => [outbox[k] EXCEPT !.tries = @ + 1] \in AlertType
    BY UpdateTypes
  <2>2. outbox' \in [Keys -> AlertType] BY <1>6, <2>1 DEF Post
  <2>3. owed[k] - outbox[k].count \in Nat
    <3>1. owed[k] = Waiting(k) + incident[k].repeats + outbox[k].count
      BY <1>6 DEF Post, Accounted
    <3>2. Waiting(k) \in Nat BY WaitingNat
    <3>3. incident[k].repeats \in Nat /\ outbox[k].count \in Nat
      BY DEF IncidentType, AlertType
    <3> QED BY <3>1, <3>2, <3>3
  <2> QED BY <1>6, <2>2, <2>3 DEF Post
<1>7. CASE Delivered BY <1>7 DEF Delivered
<1>8. CASE Check
  <2>1. outbox' \in [Keys -> AlertType] BY <1>8 DEF Check, IncidentType
  <2> QED BY <1>8, <2>1 DEF Check
<1>9. CASE Close BY <1>9 DEF Close, dispatcher
<1>10. CASE Join BY <1>10 DEF Join, dispatcher
<1>11. CASE JoinTimeout BY <1>11 DEF JoinTimeout
<1>12. CASE Tick
  <2>1. incident' \in [Keys -> IncidentType] BY <1>12, LaterTicks DEF Tick, IncidentType
  <2>2. told' \in [Keys -> [kind : {"none", "new", "repeating", "quiet"}, age : Ticks]]
    BY <1>12, LaterTicks DEF Tick
  <2> QED BY <1>12, <2>1, <2>2 DEF Tick
<1>13. CASE UNCHANGED vars BY <1>13 DEF vars, dispatcher
<1> QED
  BY <1>1, <1>2, <1>3, <1>4, <1>5, <1>6, <1>7, <1>8, <1>9, <1>10, <1>11, <1>12, <1>13
     DEF Next, Dispatch

\* Nothing waits to be delivered between deliveries, and closed incidents count nothing.
LEMMA BoxClosedStep == Inv /\ [Next]_vars => Box' /\ Closed'
<1> SUFFICES ASSUME Inv, [Next]_vars PROVE Box' /\ Closed' OBVIOUS
<1> USE DEF Inv
<1>1. ASSUME NEW t \in Threads, Submit(t) PROVE Box' /\ Closed'
  BY <1>1 DEF Submit, dispatcher, Box, Closed
<1>2. ASSUME NEW t \in Threads, NEW k \in Keys, Emit(t, k) PROVE Box' /\ Closed'
  BY <1>2 DEF Emit, dispatcher, Box, Closed
<1>3. CASE Get
  <2>1. pc = "get" /\ Observe(Head(queue)) BY <1>3 DEF Get
  <2>2. Box' BY <2>1 DEF Observe, Box
  <2>3. ASSUME NEW k \in Keys, ~incident'[k].open PROVE incident'[k].repeats = 0
    <3>1. incident \in [Keys -> IncidentType] BY DEF TypeOK
    <3>2. k = Head(queue) => incident'[k].open
      BY <2>1, <3>1 DEF Observe, NewIncident, IncidentType
    <3>3. incident'[k] = incident[k] BY <2>1, <2>3, <3>1, <3>2 DEF Observe
    <3> QED BY <2>3, <3>3 DEF Closed
  <2> QED BY <2>2, <2>3 DEF Closed
<1>4. CASE Poll BY <1>4 DEF Poll, Box, Closed
<1>5. CASE Due
  <2>1. Box' BY <1>5 DEF Due, Box
  <2>2. ASSUME NEW k \in Keys, ~incident'[k].open PROVE incident'[k].repeats = 0
    <3>1. incident[k] \in IncidentType BY DEF TypeOK
    <3>2. Restarted(incident[k]).open = incident[k].open
      BY <3>1 DEF Restarted, IncidentType
    <3>3. Restarted(incident[k]).repeats = 0 BY <3>1 DEF Restarted, IncidentType
    <3>4. NoIncident.repeats = 0 BY DEF NoIncident
    <3> QED BY <1>5, <2>2, <3>2, <3>3, <3>4 DEF Due, Closed
  <2> QED BY <2>1, <2>2 DEF Closed
<1>6. ASSUME NEW k \in Keys, Post(k) PROVE Box' /\ Closed'
  BY <1>6 DEF Post, Box, Closed
<1>7. CASE Delivered
  <2>1. Box' BY <1>7 DEF Delivered, Box
  <2> QED BY <1>7, <2>1 DEF Delivered, Closed
<1>8. CASE Check BY <1>8 DEF Check, Box, Closed, NoIncident
<1>9. CASE Close BY <1>9 DEF Close, dispatcher, Box, Closed
<1>10. CASE Join BY <1>10 DEF Join, dispatcher, Box, Closed
<1>11. CASE JoinTimeout BY <1>11 DEF JoinTimeout, Box, Closed
<1>12. CASE Tick
  <2>1. ASSUME NEW k \in Keys
        PROVE  incident'[k].open = incident[k].open /\ incident'[k].repeats = incident[k].repeats
    BY <1>12 DEF Tick, TypeOK, IncidentType
  <2> QED BY <1>12, <2>1 DEF Tick, Box, Closed
<1>13. CASE UNCHANGED vars BY <1>13 DEF vars, dispatcher, Box, Closed
<1> QED
  BY <1>1, <1>2, <1>3, <1>4, <1>5, <1>6, <1>7, <1>8, <1>9, <1>10, <1>11, <1>12, <1>13
     DEF Next, Dispatch

\* Steps that neither touch the queue nor end the reading of it leave what waits alone.
LEMMA WaitingSame ==
  ASSUME NEW k \in Keys, queue' = queue, pc' = pc \/ (Reading /\ Reading')
  PROVE  Waiting(k)' = Waiting(k)
BY DEF Waiting, Reading

\* Every occurrence stays in exactly one place.
LEMMA AccountedStep == Inv /\ [Next]_vars => Accounted'
<1> SUFFICES ASSUME Inv, [Next]_vars, pc' # "killed", NEW k \in Keys
             PROVE  (owed[k] = Waiting(k) + incident[k].repeats + outbox[k].count)'
  BY DEF Accounted
<1>0. /\ incident[k] \in IncidentType /\ outbox[k] \in AlertType /\ owed[k] \in Nat
      /\ incident[k].repeats \in Nat /\ outbox[k].count \in Nat /\ Waiting(k) \in Nat
  BY WaitingNat DEF Inv, TypeOK, IncidentType, AlertType
<1>a. pc # "killed" => owed[k] = Waiting(k) + incident[k].repeats + outbox[k].count
  BY DEF Inv, Accounted
<1>b. incident'[k].repeats \in Nat /\ outbox'[k].count \in Nat
  BY TypeStep DEF TypeOK, IncidentType, AlertType
<1> DEFINE Goal == owed'[k] = Waiting(k)' + incident'[k].repeats + outbox'[k].count
<1> SUFFICES Goal OBVIOUS
<1>1. ASSUME NEW t \in Threads, Submit(t) PROVE Goal
  <2>1. emitting[t] \in Keys /\ queue \in Seq(Keys) BY <1>1 DEF Submit, Inv, TypeOK
  <2>2. CASE HasRoom /\ Reading
    <3>1. queue' = Append(queue, emitting[t]) BY <1>1, <2>2 DEF Submit
    <3>2. owed' = [owed EXCEPT ![emitting[t]] = @ + 1] BY <1>1, <2>2 DEF Submit
    <3>3. Waiting(k) = Cardinality(Places(queue, k)) BY <2>2 DEF Waiting
    <3>4. Waiting(k)' = Cardinality(Places(queue', k))
      BY <1>1, <2>2 DEF Submit, dispatcher, Waiting, Reading
    <3>5. Waiting(k)' = Waiting(k) + (IF emitting[t] = k THEN 1 ELSE 0)
      BY <2>1, <3>1, <3>3, <3>4, PlacesAppend
    <3>6. owed'[k] = owed[k] + (IF emitting[t] = k THEN 1 ELSE 0)
      BY <3>2, <1>0 DEF Inv, TypeOK
    <3>7. incident' = incident /\ outbox' = outbox /\ pc # "killed"
      BY <1>1, <2>2 DEF Submit, dispatcher, Reading
    <3> QED BY <1>0, <1>a, <3>5, <3>6, <3>7
  <2>3. CASE ~(HasRoom /\ Reading)
    <3>1. owed' = owed BY <1>1, <2>3 DEF Submit
    <3>2. Waiting(k)' = Waiting(k) BY <1>1, <2>3 DEF Submit, dispatcher, Waiting, Reading
    <3> QED BY <1>0, <1>1, <1>a, <3>1, <3>2 DEF Submit, dispatcher
  <2> QED BY <2>2, <2>3
<1>2. ASSUME NEW t \in Threads, NEW j \in Keys, Emit(t, j) PROVE Goal
  BY <1>2, <1>a, WaitingSame DEF Emit, dispatcher
<1>3. CASE Get
  <2> DEFINE h == Head(queue)
  <2>1. /\ queue \in Seq(Keys) /\ queue # <<>> /\ queue' = Tail(queue)
        /\ h \in Keys /\ Tail(queue) \in Seq(Keys)
    BY <1>3 DEF Get, Inv, TypeOK
  <2>2. pc = "get" /\ Observe(h) /\ owed' = owed BY <1>3 DEF Get
  <2>3. Waiting(k) = Cardinality(Places(queue, k)) BY <2>2 DEF Waiting, Reading
  <2>4. Waiting(k)' = Cardinality(Places(Tail(queue), k))
    BY <2>1, <2>2 DEF Observe, Waiting, Reading
  <2>5. Waiting(k) = Waiting(k)' + (IF h = k THEN 1 ELSE 0)
    BY <2>1, <2>3, <2>4, PlacesTail
  <2>6. Waiting(k)' \in Nat BY <2>1, <2>4, PlacesFinite
  <2> HIDE DEF h
  <2>7. incident'[k].repeats + outbox'[k].count =
          incident[k].repeats + outbox[k].count + (IF h = k THEN 1 ELSE 0)
    <3>1. incident \in [Keys -> IncidentType] /\ outbox \in [Keys -> AlertType]
      BY DEF Inv, TypeOK
    <3>2. CASE incident[h].open
      <4>1. incident' = [incident EXCEPT ![h].repeats = @ + 1] /\ outbox' = outbox
        BY <2>2, <3>2 DEF Observe
      <4>2. incident'[k].repeats = incident[k].repeats + (IF h = k THEN 1 ELSE 0)
        BY <1>0, <3>1, <4>1 DEF IncidentType
      <4> QED BY <1>0, <4>1, <4>2
    <3>3. CASE ~incident[h].open
      <4>1. incident' = [incident EXCEPT ![h] = NewIncident]
            /\ outbox' = [outbox EXCEPT ![h] = AlertOf("new", 1)]
        BY <2>2, <3>3 DEF Observe
      <4>2. incident[h].repeats = 0 BY <2>1, <3>3 DEF Inv, Closed
      <4>3. outbox[k].count = 0 BY <2>2 DEF Inv, Box, NoAlert
      <4>4. incident'[k].repeats = incident[k].repeats
        BY <3>1, <4>1, <4>2 DEF NewIncident
      <4>5. outbox'[k].count = IF h = k THEN 1 ELSE 0
        BY <3>1, <4>1, <4>3 DEF AlertOf
      <4> QED BY <1>0, <4>3, <4>4, <4>5
    <3> QED BY <3>2, <3>3
  <2> QED BY <1>0, <1>a, <1>b, <2>2, <2>5, <2>6, <2>7
<1>4. CASE Poll
  <2>1. pc # "killed" /\ Reading /\ Reading' BY <1>4 DEF Poll, Reading
  <2>2. Waiting(k)' = Waiting(k) BY <1>4, <2>1, WaitingSame DEF Poll
  <2> QED BY <1>4, <1>a, <2>1, <2>2 DEF Poll
<1>5. CASE Due
  <2>1. Waiting(k)' = Waiting(k) /\ owed' = owed /\ pc = "due"
    BY <1>5, WaitingSame DEF Due, Reading
  <2>2. outbox[k].count = 0 BY <2>1 DEF Inv, Box, NoAlert
  <2>3. CASE Expired(k) /\ incident[k].repeats > 0
    <3>1. outbox'[k].count = incident[k].repeats
      BY <1>5, <2>3 DEF Due, DueAlert, AlertOf
    <3>2. incident'[k].repeats = 0
      BY <1>0, <1>5, <2>3 DEF Due, Restarted, IncidentType
    <3> QED BY <1>0, <1>a, <2>1, <2>2, <3>1, <3>2
  <2>4. CASE Expired(k) /\ ~(incident[k].repeats > 0)
    <3>1. outbox'[k].count = 0
      BY <1>5, <2>4 DEF Due, DueAlert, AlertOf, NoAlert
    <3>2. incident'[k].repeats = 0 BY <1>5, <2>4 DEF Due, NoIncident
    <3> QED BY <1>0, <1>a, <2>1, <2>2, <2>4, <3>1, <3>2
  <2>5. CASE ~Expired(k)
    <3>1. outbox'[k].count = 0 /\ incident'[k] = incident[k]
      BY <1>5, <2>5 DEF Due, NoAlert
    <3> QED BY <1>0, <1>a, <2>1, <2>2, <3>1
  <2> QED BY <2>3, <2>4, <2>5
<1>6. ASSUME NEW j \in Keys, Post(j) PROVE Goal
  <2>1. Waiting(k)' = Waiting(k) /\ incident' = incident /\ pc # "killed"
    BY <1>6, WaitingSame DEF Post
  <2>2. owed \in [Keys -> Nat] /\ outbox \in [Keys -> AlertType] BY DEF Inv, TypeOK
  <2>3. CASE outbox' = [outbox EXCEPT ![j] = NoAlert] /\ owed' = [owed EXCEPT ![j] = @ - outbox[j].count]
    <3>1. outbox'[k].count = IF j = k THEN 0 ELSE outbox[k].count
      BY <2>2, <2>3 DEF NoAlert
    <3>2. owed'[k] = IF j = k THEN owed[k] - outbox[k].count ELSE owed[k]
      BY <2>2, <2>3
    <3> QED BY <1>0, <1>a, <2>1, <3>1, <3>2
  <2>4. CASE outbox' = [outbox EXCEPT ![j].tries = @ + 1] /\ owed' = owed
    <3>1. outbox'[k].count = outbox[k].count BY <2>2, <2>4 DEF AlertType
    <3> QED BY <1>a, <2>1, <2>4, <3>1
  <2> QED BY <1>6, <2>3, <2>4 DEF Post
<1>7. CASE Delivered
  <2>1. Waiting(k)' = Waiting(k) BY <1>7 DEF Delivered, Waiting, Reading
  <2> QED BY <1>7, <1>a, <2>1 DEF Delivered
<1>8. CASE Check
  <2>1. owed' = owed /\ queue' = queue /\ pc = "check" BY <1>8 DEF Check
  <2>2. outbox[k].count = 0 BY <2>1 DEF Inv, Box, NoAlert
  <2>3. CASE Finished
    <3>1. Waiting(k) = 0
      <4>1. Places(queue, k) = {} BY <2>3 DEF Finished, Places
      <4> QED BY <4>1, FS_EmptySet DEF Waiting
    <3>2. Waiting(k)' = 0 BY <1>8, <2>3 DEF Check, Waiting, Reading
    <3>3. incident'[k].repeats = 0 BY <1>8, <2>3 DEF Check, NoIncident
    <3>4. outbox'[k].count = incident[k].repeats
      BY <1>0, <1>8, <2>3 DEF Check, AlertOf, NoAlert
    <3> QED BY <1>0, <1>a, <2>1, <2>2, <3>1, <3>2, <3>3, <3>4
  <2>4. CASE ~Finished
    BY <1>8, <1>a, <2>1, <2>4, WaitingSame DEF Check, Reading
  <2> QED BY <2>3, <2>4
<1>9. CASE Close BY <1>9, <1>a, WaitingSame DEF Close, dispatcher
<1>10. CASE Join BY <1>10, <1>a, WaitingSame DEF Join, dispatcher
<1>11. CASE JoinTimeout BY <1>11 DEF JoinTimeout
<1>12. CASE Tick
  <2>1. incident'[k].repeats = incident[k].repeats
    BY <1>0, <1>12 DEF Tick, IncidentType
  <2> QED BY <1>12, <1>a, <2>1, WaitingSame DEF Tick
<1>13. CASE UNCHANGED vars BY <1>13, <1>a, WaitingSame DEF vars, dispatcher
<1> QED
  BY <1>1, <1>2, <1>3, <1>4, <1>5, <1>6, <1>7, <1>8, <1>9, <1>10, <1>11, <1>12, <1>13
     DEF Next, Dispatch

-----------------------------------------------------------------------------
(* What the throttle remembers.                                            *)

\* Steps that touch neither the throttle nor the history, and do not start reading.
LEMMA ToldSame ==
  ASSUME Told, incident' = incident, told' = told, Reading' => Reading
  PROVE  Told'
BY DEF Told

\* The throttle's memory stays true.
LEMMA ToldStep == Inv /\ [Next]_vars => Told'
<1> SUFFICES ASSUME Inv, [Next]_vars PROVE Told' OBVIOUS
<1>0. /\ Told /\ incident \in [Keys -> IncidentType] /\ lag \in Nat
      /\ told \in [Keys -> [kind : {"none", "new", "repeating", "quiet"}, age : Ticks]]
  BY Constants DEF Inv, TypeOK
<1>1. ASSUME NEW t \in Threads, Submit(t) PROVE Told'
  BY <1>0, <1>1, ToldSame DEF Submit, dispatcher, Reading
<1>2. ASSUME NEW t \in Threads, NEW k \in Keys, Emit(t, k) PROVE Told'
  BY <1>0, <1>2, ToldSame DEF Emit, dispatcher, Reading
<1>3. CASE Get
  <2> DEFINE h == Head(queue)
  <2>1. h \in Keys /\ Reading /\ Observe(h) BY <1>3 DEF Get, Inv, TypeOK, Reading
  <2> HIDE DEF h
  <2>2. CASE incident[h].open
    <3>1. incident' = [incident EXCEPT ![h].repeats = @ + 1] /\ told' = told
      BY <2>1, <2>2 DEF Observe
    <3>2. ASSUME NEW k \in Keys
          PROVE  /\ incident'[k].open = incident[k].open /\ incident'[k].age = incident[k].age
                 /\ incident'[k].repeated = incident[k].repeated
      BY <1>0, <3>1 DEF IncidentType
    <3> QED BY <1>0, <2>1, <3>1, <3>2 DEF Told
  <2>3. CASE ~incident[h].open
    <3>1. incident' = [incident EXCEPT ![h] = NewIncident]
          /\ told' = [told EXCEPT ![h] = [kind |-> "new", age |-> 0]]
      BY <2>1, <2>3 DEF Observe, Tell
    <3> QED BY <1>0, <2>1, <3>1 DEF Told, NewIncident
  <2> QED BY <2>2, <2>3
<1>4. CASE Poll BY <1>0, <1>4, ToldSame DEF Poll, Reading
<1>5. CASE Due
  <2> SUFFICES ASSUME NEW k \in Keys
               PROVE  IF incident'[k].open
                      THEN /\ told'[k].kind = IF incident'[k].repeated THEN "repeating" ELSE "new"
                           /\ told'[k].age >= incident'[k].age
                      ELSE /\ told'[k].kind # "repeating"
                           /\ told'[k].kind # "quiet" => told'[k].age >= Cooldown
    BY DEF Told
  <2>1. Reading BY <1>5 DEF Due, Reading
  <2>2. incident[k] \in IncidentType /\ incident[k].age \in Ticks /\ told[k].age \in Ticks
        /\ incident[k].repeats \in Nat
    BY <1>0 DEF IncidentType
  <2>3. CASE Expired(k) /\ incident[k].repeats > 0
    <3>1. outbox'[k] # NoAlert /\ outbox'[k].kind = "repeating"
      BY <1>5, <2>3 DEF Due, DueAlert, AlertOf, NoAlert
    <3>2. told'[k] = [kind |-> "repeating", age |-> lag] BY <1>5, <3>1 DEF Due
    <3>3. incident'[k] = Restarted(incident[k]) BY <1>5, <2>3 DEF Due
    <3>4. incident'[k].open /\ incident'[k].repeated /\ incident'[k].age = lag
      BY <2>2, <2>3, <3>3 DEF Restarted, IncidentType, Expired
    <3> QED BY <1>0, <3>2, <3>4
  <2>4. CASE Expired(k) /\ ~(incident[k].repeats > 0)
    <3>1. ~incident'[k].open BY <1>5, <2>4 DEF Due, NoIncident
    <3>2. CASE incident[k].repeated
      <4>1. outbox'[k] # NoAlert /\ outbox'[k].kind = "quiet"
        BY <1>5, <2>4, <3>2 DEF Due, DueAlert, AlertOf, NoAlert
      <4>2. told'[k] = [kind |-> "quiet", age |-> lag] BY <1>5, <4>1 DEF Due
      <4> QED BY <3>1, <4>2
    <3>3. CASE ~incident[k].repeated
      <4>1. outbox'[k] = NoAlert BY <1>5, <2>4, <3>3 DEF Due, DueAlert
      <4>2. told'[k] = told[k] BY <1>5, <4>1 DEF Due
      <4>3. told[k].kind = "new" /\ told[k].age >= incident[k].age
        BY <1>0, <2>1, <2>4, <3>3 DEF Told, Expired
      <4>4. incident[k].age - lag >= Cooldown BY <2>4 DEF Expired
      <4>5. told[k].age >= Cooldown BY <1>0, <2>2, <4>3, <4>4, Constants DEF Ticks
      <4> QED BY <3>1, <4>2, <4>3, <4>5
    <3> QED BY <3>2, <3>3
  <2>5. CASE ~Expired(k)
    <3>1. outbox'[k] = NoAlert /\ incident'[k] = incident[k] BY <1>5, <2>5 DEF Due
    <3>2. told'[k] = told[k] BY <1>5, <3>1 DEF Due
    <3> QED BY <1>0, <2>1, <3>1, <3>2 DEF Told
  <2> QED BY <2>3, <2>4, <2>5
<1>6. ASSUME NEW k \in Keys, Post(k) PROVE Told'
  BY <1>0, <1>6, ToldSame DEF Post, Reading
<1>7. CASE Delivered BY <1>0, <1>7, ToldSame DEF Delivered, Reading
<1>8. CASE Check
  <2>1. CASE Finished BY <1>8, <2>1 DEF Check, Told, Reading
  <2>2. CASE ~Finished BY <1>0, <1>8, <2>2, ToldSame DEF Check, Reading
  <2> QED BY <2>1, <2>2
<1>9. CASE Close BY <1>0, <1>9, ToldSame DEF Close, dispatcher, Reading
<1>10. CASE Join BY <1>0, <1>10, ToldSame DEF Join, dispatcher, Reading
<1>11. CASE JoinTimeout BY <1>0, <1>11, ToldSame DEF JoinTimeout, Reading
<1>12. CASE Tick
  <2> SUFFICES ASSUME Reading', NEW k \in Keys
               PROVE  IF incident'[k].open
                      THEN /\ told'[k].kind = IF incident'[k].repeated THEN "repeating" ELSE "new"
                           /\ told'[k].age >= incident'[k].age
                      ELSE /\ told'[k].kind # "repeating"
                           /\ told'[k].kind # "quiet" => told'[k].age >= Cooldown
    BY DEF Told
  <2>1. Reading BY <1>12 DEF Tick, Reading
  <2>2. incident[k] \in IncidentType /\ incident[k].age \in Ticks /\ told[k].age \in Ticks
    BY <1>0 DEF IncidentType
  <2>3. told'[k].kind = told[k].kind /\ told'[k].age = Later(told[k].age)
    BY <1>0, <1>12 DEF Tick
  <2>4. incident'[k].open = incident[k].open /\ incident'[k].repeated = incident[k].repeated
    BY <1>12, <2>2 DEF Tick, IncidentType
  <2>5. CASE incident[k].open
    <3>1. incident'[k].age = Later(incident[k].age) BY <1>12, <2>2, <2>5 DEF Tick, IncidentType
    <3>2. told[k].age >= incident[k].age BY <1>0, <2>1, <2>5 DEF Told
    <3>3. Later(told[k].age) >= Later(incident[k].age)
      BY <2>2, <3>2, Constants DEF Later, Ticks
    <3> QED BY <1>0, <2>1, <2>3, <2>4, <2>5, <3>1, <3>3 DEF Told
  <2>6. CASE ~incident[k].open
    <3>1. Later(told[k].age) >= told[k].age /\ Later(told[k].age) \in Ticks BY <2>2, LaterTicks
    <3>2. told[k].age >= Cooldown => Later(told[k].age) >= Cooldown
      BY <2>2, <3>1, Constants DEF Ticks
    <3> QED BY <1>0, <2>1, <2>3, <2>4, <2>6, <3>2 DEF Told
  <2> QED BY <2>5, <2>6
<1>13. CASE UNCHANGED vars BY <1>0, <1>13, ToldSame DEF vars, dispatcher, Reading
<1> QED
  BY <1>1, <1>2, <1>3, <1>4, <1>5, <1>6, <1>7, <1>8, <1>9, <1>10, <1>11, <1>12, <1>13
     DEF Next, Dispatch

LEMMA Invariance == Spec => []Inv
<1>1. Inv /\ [Next]_vars => Inv'
  BY TypeStep, BoxClosedStep, AccountedStep, ToldStep DEF Inv
<1> QED BY InitInv, <1>1, PTL DEF Spec

\* The types of the state, and the queue within its capacity, at any size.
THEOREM TypeCorrect == Spec => []TypeOK
BY Invariance, PTL DEF Inv

\* An accepted occurrence is never lost between the queue, the throttle and the deliveries,
\* and never reported twice: submit, observe, due, drain and send, with any queue.
THEOREM OccurrencesAccounted == Spec => []Accounted
BY Invariance, PTL DEF Inv

-----------------------------------------------------------------------------
(* The steps that issue alerts.                                            *)

\* An alert is issued for the first occurrence of a problem, for an incident whose window
\* has passed, or at the end for the occurrences counted since.
LEMMA Issuing ==
  ASSUME Inv, [Next]_vars, NEW k \in Keys, NEW kind \in {"new", "repeating", "quiet"},
         Issued(k, kind)
  PROVE  \/ Get /\ kind = "new" /\ ~incident[k].open /\ lag' = 0
         \/ Due /\ Expired(k) /\ kind = DueAlert(incident[k]).kind /\ lag' = lag
         \/ Check /\ pc' = "drain" /\ kind = "repeating" /\ incident[k].repeats > 0
<1> DEFINE Goal == \/ Get /\ kind = "new" /\ ~incident[k].open /\ lag' = 0
                   \/ Due /\ Expired(k) /\ kind = DueAlert(incident[k]).kind /\ lag' = lag
                   \/ Check /\ pc' = "drain" /\ kind = "repeating" /\ incident[k].repeats > 0
<1> SUFFICES Goal OBVIOUS
<1>0. outbox \in [Keys -> AlertType] /\ outbox'[k] # outbox[k] /\ outbox'[k].kind = kind
      /\ outbox[k].kind # kind /\ incident[k].repeats \in Nat /\ NoAlert.kind # kind
  BY DEF Issued, Inv, TypeOK, IncidentType, NoAlert
<1>1. ASSUME NEW t \in Threads, Submit(t) PROVE FALSE BY <1>0, <1>1 DEF Submit, dispatcher
<1>2. ASSUME NEW t \in Threads, NEW j \in Keys, Emit(t, j) PROVE FALSE
  BY <1>0, <1>2 DEF Emit, dispatcher
<1>3. CASE Get
  <2>1. Observe(Head(queue)) /\ lag' = 0 BY <1>3 DEF Get
  <2>2. ~incident[Head(queue)].open /\ outbox' = [outbox EXCEPT ![Head(queue)] = AlertOf("new", 1)]
    BY <1>0, <2>1 DEF Observe
  <2>3. k = Head(queue) /\ kind = "new" BY <1>0, <2>2 DEF AlertOf
  <2> QED BY <1>3, <2>1, <2>2, <2>3
<1>4. CASE Poll BY <1>0, <1>4 DEF Poll
<1>5. CASE Due
  <2>1. outbox'[k] = IF Expired(k) THEN DueAlert(incident[k]) ELSE NoAlert BY <1>5 DEF Due
  <2>2. Expired(k) BY <1>0, <2>1
  <2> QED BY <1>0, <1>5, <2>1, <2>2 DEF Due
<1>6. ASSUME NEW j \in Keys, Post(j) PROVE FALSE
  <2>1. \/ outbox' = [outbox EXCEPT ![j] = NoAlert]
        \/ outbox' = [outbox EXCEPT ![j].tries = @ + 1]
    BY <1>6 DEF Post
  <2>2. outbox'[k].kind \in {outbox[k].kind, NoAlert.kind} BY <1>0, <2>1 DEF AlertType
  <2> QED BY <1>0, <2>2
<1>7. CASE Delivered BY <1>0, <1>7 DEF Delivered
<1>8. CASE Check
  <2>1. Finished BY <1>0, <1>8 DEF Check
  <2>2. outbox'[k] = IF incident[k].repeats > 0
                     THEN AlertOf("repeating", incident[k].repeats) ELSE NoAlert
    BY <1>8, <2>1 DEF Check
  <2>3. incident[k].repeats > 0 /\ kind = "repeating" BY <1>0, <2>2 DEF AlertOf
  <2> QED BY <1>8, <2>1, <2>3 DEF Check
<1>9. CASE Close BY <1>0, <1>9 DEF Close, dispatcher
<1>10. CASE Join BY <1>0, <1>10 DEF Join, dispatcher
<1>11. CASE JoinTimeout BY <1>0, <1>11 DEF JoinTimeout
<1>12. CASE Tick BY <1>0, <1>12 DEF Tick
<1>13. CASE UNCHANGED vars BY <1>0, <1>13 DEF vars, dispatcher
<1> QED
  BY <1>1, <1>2, <1>3, <1>4, <1>5, <1>6, <1>7, <1>8, <1>9, <1>10, <1>11, <1>12, <1>13
     DEF Next, Dispatch

\* What Told says of a key, at the steps that issue alerts.
LEMMA Remembered ==
  ASSUME Inv, NEW k \in Keys, pc \in {"get", "due", "check"}
  PROVE  /\ incident[k].open => /\ told[k].kind = IF incident[k].repeated THEN "repeating" ELSE "new"
                                /\ told[k].age >= incident[k].age
         /\ ~incident[k].open => /\ told[k].kind # "repeating"
                                 /\ told[k].kind # "quiet" => told[k].age >= Cooldown
         /\ incident[k].repeats > 0 => incident[k].open
         /\ told[k].age \in Nat /\ incident[k].age \in Nat /\ lag \in Nat
<1>1. Reading BY DEF Reading
<1>2. told[k].age \in Nat /\ incident[k].age \in Nat /\ lag \in Nat
  BY Constants DEF Inv, TypeOK, IncidentType, Ticks
<1> QED BY <1>1, <1>2 DEF Inv, Told, Closed

\* The history of a problem's alerts reads as one story, whatever the throttle met.
THEOREM AlertsTellOneStory == Spec => Story
<1> DEFINE Step == \A k \in Keys :
       /\ Issued(k, "quiet") => told[k].kind = "repeating"
       /\ Issued(k, "repeating") => told[k].kind \in {"new", "repeating"}
       /\ Issued(k, "new") => told[k].kind # "repeating"
<1>1. Inv /\ [Next]_vars => Step
  <2> SUFFICES ASSUME Inv, [Next]_vars, NEW k \in Keys
               PROVE  /\ Issued(k, "quiet") => told[k].kind = "repeating"
                      /\ Issued(k, "repeating") => told[k].kind \in {"new", "repeating"}
                      /\ Issued(k, "new") => told[k].kind # "repeating"
    OBVIOUS
  <2>1. ASSUME Issued(k, "quiet") PROVE told[k].kind = "repeating"
    <3>1. pc = "due" /\ Expired(k) /\ DueAlert(incident[k]).kind = "quiet"
      BY <2>1, Issuing DEF Due
    <3>2. incident[k].open /\ incident[k].repeated
      BY <3>1 DEF Expired, DueAlert, AlertOf, NoAlert
    <3> QED BY <3>1, <3>2, Remembered
  <2>2. ASSUME Issued(k, "repeating") PROVE told[k].kind \in {"new", "repeating"}
    <3>1. pc \in {"due", "check"} /\ (Expired(k) \/ incident[k].repeats > 0)
      BY <2>2, Issuing DEF Due, Check
    <3> QED BY <3>1, Remembered DEF Expired
  <2>3. ASSUME Issued(k, "new") PROVE told[k].kind # "repeating"
    <3>1. \/ pc = "get" /\ ~incident[k].open
          \/ DueAlert(incident[k]).kind = "new"
      BY <2>3, Issuing DEF Get
    <3>2. DueAlert(incident[k]).kind # "new" BY DEF DueAlert, AlertOf, NoAlert
    <3> QED BY <3>1, <3>2, Remembered
  <2> QED BY <2>1, <2>2, <2>3
<1> QED BY Invariance, <1>1, PTL DEF Spec, Story

\* The webhook is not flooded, however slow it is and however many threads log.
THEOREM AlertsThrottled == Spec => Throttled
<1> DEFINE Step == \A k \in Keys :
       Issued(k, "new") \/ (Issued(k, "repeating") /\ pc' # "drain")
         => told[k].kind = "quiet" \/ told[k].age - lag' >= Cooldown
<1>1. Inv /\ [Next]_vars => Step
  <2> SUFFICES ASSUME Inv, [Next]_vars, NEW k \in Keys,
                      Issued(k, "new") \/ (Issued(k, "repeating") /\ pc' # "drain")
               PROVE  told[k].kind = "quiet" \/ told[k].age - lag' >= Cooldown
    OBVIOUS
  <2>1. CASE Issued(k, "new")
    <3>1. DueAlert(incident[k]).kind # "new" BY DEF DueAlert, AlertOf, NoAlert
    <3>2. pc = "get" /\ ~incident[k].open /\ lag' = 0 BY <2>1, <3>1, Issuing DEF Get
    <3> QED BY <3>2, Remembered
  <2>2. CASE Issued(k, "repeating") /\ pc' # "drain"
    <3>1. pc = "due" /\ Expired(k) /\ lag' = lag BY <2>2, Issuing DEF Due
    <3>2. incident[k].open /\ incident[k].age - lag >= Cooldown BY <3>1 DEF Expired
    <3>3. told[k].age >= incident[k].age BY <3>1, <3>2, Remembered
    <3>4. told[k].age \in Nat /\ incident[k].age \in Nat /\ lag \in Nat BY <3>1, Remembered
    <3> QED BY <3>1, <3>2, <3>3, <3>4, Constants
  <2> QED BY <2>1, <2>2
<1> QED BY Invariance, <1>1, PTL DEF Spec, Throttled
=============================================================================
