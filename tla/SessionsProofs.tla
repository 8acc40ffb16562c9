--------------------------- MODULE SessionsProofs ---------------------------
(***************************************************************************)
(* Proofs about Sessions, for every pool, number of requests and calendar: *)
(* the daily job is due again strictly later, within a day; no task is     *)
(* handed a connection that the server has dropped, or holds one while it  *)
(* waits; admin routes run for accounts that were admins; and nothing      *)
(* outlives the engine that a stop disposes of.                            *)
(***************************************************************************)
EXTENDS Sessions, FiniteSetTheorems, WellFoundedInduction, TLAPS

(* Times are natural numbers. *)
ClockInv == now \in Nat /\ due \in Nat

LEMMA LaterType == ASSUME NEW a \in Int, NEW b \in Int
                   PROVE  Later(a, b) \in {a, b} /\ Later(a, b) >= a /\ Later(a, b) >= b
BY DEF Later

(* The next run after a time is later than it, by a day at most. *)
LEMMA NextDailyRunBounds ==
    ASSUME NEW after \in Nat
    PROVE  /\ NextDailyRun(At, after) \in Nat
           /\ NextDailyRun(At, after) > after
           /\ NextDailyRun(At, after) <= after + Day
<1>1. Day \in Nat \ {0} /\ At \in 0..(Day - 1)
  BY SchedulerAssumption
<1>2. after % Day \in 0..(Day - 1) /\ after % Day <= after
  <2>1. after = (Day * (after \div Day)) + (after % Day) /\ after % Day \in 0..(Day - 1)
    BY <1>1, Z3
  <2>2. after \div Day \in Nat
    BY <1>1, Z3
  <2> QED
    BY <1>1, <2>1, <2>2, Z3
<1> DEFINE r == after % Day
<1>3. r \in Nat /\ r < Day /\ r <= after
  BY <1>1, <1>2
<1>4. NextDailyRun(At, after) = IF after - r + At > after THEN after - r + At
                                                          ELSE after - r + At + Day
  BY DEF NextDailyRun
<1> HIDE DEF r
<1> QED
  BY <1>1, <1>3, <1>4

-----------------------------------------------------------------------------
(* What a step does to the times. *)
LEMMA SleepKeeps == ASSUME ClockInv, NEW d \in Nat, SleepUntil(d), UNCHANGED now
                    PROVE  ClockInv'
BY DEF ClockInv, SleepUntil

LEMMA JobEndsLater == ASSUME ClockInv, JobEnds
                      PROVE  ClockInv' /\ RunsLater
<1> DEFINE n == Later(due, now)
<1>1. n \in Nat /\ n >= due
  BY LaterType DEF ClockInv
<1>2. /\ NextDailyRun(At, n) \in Nat
      /\ NextDailyRun(At, n) > n
      /\ NextDailyRun(At, n) <= n + Day
  <2> HIDE DEF n
  <2> QED
    BY <1>1, NextDailyRunBounds
<1>3. due' = NextDailyRun(At, n) /\ now' = now
  BY DEF JobEnds, SleepUntil, NextRun
<1>4. Day \in Nat
  BY SchedulerAssumption
<1>5. due \in Nat /\ now \in Nat
  BY DEF ClockInv
<1>6. ClockInv'
  BY <1>2, <1>3, <1>5 DEF ClockInv
<1>7. due' > due /\ due' <= n + Day
  <2> HIDE DEF n
  <2> QED
    BY <1>1, <1>2, <1>3, <1>4, <1>5
<1> QED
  BY <1>6, <1>7 DEF RunsLater

LEMMA StartKeeps == ASSUME ClockInv, StartJob PROVE ClockInv'
<1>1. NextDailyRun(At, now) \in Nat
  BY NextDailyRunBounds DEF ClockInv
<1> QED
  BY <1>1, SleepKeeps DEF StartJob

LEMMA TimesKept == ASSUME ClockInv, UNCHANGED <<now, due>> PROVE ClockInv'
BY DEF ClockInv

(* A step of a task, of requests, of connections or of the lifespan leaves  *)
(* the times alone, except that the service starts its job.                 *)
LEMMA ClockStep == ASSUME ClockInv, [Next]_vars PROVE ClockInv'
<1>1. CASE \E t \in Tasks : Works(t)
  BY <1>1, TimesKept DEF Works, Open, Take, Run, Close, Answered, Choose, Fail, Alone
<1>2. CASE \E r \in Requests : Arrive(r)
  BY <1>2, TimesKept DEF Arrive, Alone
<1>3. CASE ChangeRole \/ Age \/ Drop
  BY <1>3, TimesKept DEF ChangeRole, Age, Drop, Alone
<1>4. CASE Clock
  BY <1>4 DEF Clock, Tick, SetBack, ClockInv
<1>5. CASE Wakes
  BY <1>5, TimesKept DEF Wakes, WakeJob, Unscheduled
<1>6. CASE Rounds
  BY <1>6, TimesKept, JobEndsLater DEF Rounds, Unscheduled
<1>7. CASE Serve
  BY <1>7, TimesKept, StartKeeps DEF Serve, Unscheduled, schedule
<1>8. CASE JobDone \/ Refuse \/ Verified \/ Signal
  BY <1>8, TimesKept DEF JobDone, Refuse, Verified, Signal, Alone, schedule
<1>9. CASE Stops1
  BY <1>9, TimesKept DEF Stops1, Drained, Leaves, Cancel, Joined, Dispose, Flush, Exit,
        Alone, Unscheduled, StopJob, schedule
<1>10. CASE UNCHANGED vars
  BY <1>10, TimesKept DEF vars
<1> QED
  BY <1>1, <1>2, <1>3, <1>4, <1>5, <1>6, <1>7, <1>8, <1>9, <1>10 DEF Next

LEMMA ClockInit == Init => ClockInv
BY SchedulerAssumption DEF Init, ScheduleInit, ClockInv

(* In every process and with every calendar, a daily run that ended is due  *)
(* again strictly later, and within a day, although the wall clock is set   *)
(* back under the loop's monotonic sleep (core/scheduler.py, _run).         *)
THEOREM RunsOncePerDay == Spec => OncePerDay
<1>1. ClockInv /\ [Next]_vars => ClockInv'
  BY ClockStep
<1>2. ClockInv /\ [Next]_vars => [RunsLater]_schedule
  BY JobEndsLater DEF RunsLater
<1> QED
  BY <1>1, <1>2, ClockInit, PTL DEF Spec, OncePerDay

-----------------------------------------------------------------------------
(* The pool.  What a task holds is no dead connection, and one in the pool  *)
(* is dead only when it has been idle for long enough to be pinged.         *)
Held == held \in [Tasks -> Seq({"none", "good"})]
Kept == {c \in [age : Nat, conn : Conns] : c.age < DropAfter => c.conn = "good"}
Pool == idle \in Seq(Kept)
PoolInv == Held /\ Pool

LEMMA ConnectionKept == ASSUME NEW a \in Nat, NEW c \in Conns, a < DropAfter => c = "good"
                        PROVE  Connection(a, c) \in Kept
BY DEF Connection, Kept

LEMMA MinOfTwo == ASSUME NEW a \in Nat, NEW b \in Nat
                  PROVE  Min({a, b}) \in Nat /\ Min({a, b}) <= a
<1>1. \E x \in {a, b} : \A y \in {a, b} : x <= y
  BY DEF Min
<1> QED
  BY <1>1 DEF Min

(* Connections given back are new to being idle. *)
LEMMA ReturnedKept ==
    ASSUME NEW pool \in Seq(Kept), NEW conns, IsFiniteSet(DOMAIN conns)
    PROVE  Returned(pool, conns) \in Seq(Kept)
<1> DEFINE good == Cardinality({k \in DOMAIN conns : conns[k] = "good"})
           back == pool \o [k \in 1..good |-> Connection(0, "good")]
<1>1. good \in Nat
  <2>1. IsFiniteSet({k \in DOMAIN conns : conns[k] = "good"})
    BY FS_Subset
  <2> QED
    BY <2>1, FS_CardinalityType
<1>2. Connection(0, "good") \in Kept
  BY ConnectionKept DEF Conns
<1>3. [k \in 1..good |-> Connection(0, "good")] \in Seq(Kept)
  <2> HIDE DEF good
  <2> QED
    BY <1>1, <1>2
<1>4. back \in Seq(Kept)
  <2> HIDE DEF good
  <2> QED
    BY <1>3
<1>5. Min({Len(back), PoolSize}) \in Nat /\ Min({Len(back), PoolSize}) <= Len(back)
  <2> HIDE DEF back
  <2>1. Len(back) \in Nat /\ PoolSize \in Nat
    BY <1>4, SessionsAssumption
  <2> QED
    BY <2>1, MinOfTwo
<1>6. SubSeq(back, 1, Min({Len(back), PoolSize})) \in Seq(Kept)
  <2> DEFINE m == Min({Len(back), PoolSize})
  <2> HIDE DEF back, m
  <2>1. m \in Nat /\ m <= Len(back)
    BY <1>5 DEF m
  <2>2. SubSeq(back, 1, m) \in Seq(Kept)
    BY <1>4, <2>1
  <2> QED
    BY <2>2 DEF m
<1> QED
  BY <1>6 DEF Returned

LEMMA PoolUnchanged == ASSUME PoolInv, UNCHANGED <<held, idle>> PROVE PoolInv'
BY DEF PoolInv, Held, Pool

LEMMA FrontType == ASSUME NEW S, NEW s \in Seq(S) PROVE Front(s) \in Seq(S)
<1>1. CASE s = <<>>
  BY <1>1 DEF Front
<1>2. CASE s # <<>>
  <2>1. Len(s) \in Nat \ {0}
    BY <1>2
  <2> QED
    BY <2>1 DEF Front
<1> QED
  BY <1>1, <1>2

(* The task's scopes become s. *)
LEMMA HeldBecomes == ASSUME Held, NEW t \in Tasks, NEW s \in Seq({"none", "good"}),
                            held' = [held EXCEPT ![t] = s]
                     PROVE  Held'
BY DEF Held

LEMMA OpenKeeps == ASSUME PoolInv, NEW t \in Tasks, Open(t) PROVE PoolInv'
<1>1. Append(held[t], "none") \in Seq({"none", "good"})
  BY DEF PoolInv, Held
<1> QED
  BY <1>1, HeldBecomes DEF Open, PoolInv, Pool

(* What is handed out is alive: what has not been idle for long is not dead. *)
LEMMA HandedOutAlive == ASSUME NEW c \in Kept PROVE HandedOut(c) = "good"
<1>1. c.age \in Nat /\ (c.age < DropAfter => c.conn = "good")
  BY DEF Kept
<1> QED
  BY <1>1, SessionsAssumption DEF HandedOut, NeedsPing

LEMMA TakeKeeps == ASSUME PoolInv, NEW t \in Tasks, Take(t) PROVE PoolInv'
<1>1. held[t] \in Seq({"none", "good"})
  BY DEF PoolInv, Held
<1>2. Front(held[t]) \in Seq({"none", "good"})
  BY <1>1, FrontType
<1>3. Front(held[t]) \o <<"good">> \in Seq({"none", "good"})
  BY <1>2
<1>4. CASE idle # <<>> /\ held' = [held EXCEPT ![t] = Front(@) \o <<HandedOut(Head(idle))>>]
           /\ idle' = Tail(idle)
  <2>1. Head(idle) \in Kept /\ Tail(idle) \in Seq(Kept)
    BY <1>4 DEF PoolInv, Pool
  <2>2. HandedOut(Head(idle)) = "good"
    BY <2>1, HandedOutAlive
  <2>3. Held'
    BY <1>3, <1>4, <2>2, HeldBecomes DEF PoolInv
  <2> QED
    BY <1>4, <2>1, <2>3 DEF PoolInv, Pool
<1>5. CASE held' = [held EXCEPT ![t] = Front(@) \o <<"good">>] /\ UNCHANGED idle
  BY <1>3, <1>5, HeldBecomes DEF PoolInv, Pool
<1> QED
  BY <1>4, <1>5 DEF Take

LEMMA CloseKeeps == ASSUME PoolInv, NEW t \in Tasks, Close(t) PROVE PoolInv'
<1>1. held[t] \in Seq({"none", "good"}) /\ idle \in Seq(Kept)
  BY DEF PoolInv, Held, Pool
<1>2. Front(held[t]) \in Seq({"none", "good"})
  BY <1>1, FrontType
<1>3. IsFiniteSet(DOMAIN <<Last(held[t])>>)
  <2> DEFINE one == DOMAIN <<Last(held[t])>>
  <2>1. one = {1}
    OBVIOUS
  <2>2. IsFiniteSet({1})
    BY FS_Singleton
  <2> HIDE DEF one
  <2>3. IsFiniteSet(one)
    BY <2>1, <2>2, Zenon
  <2> QED
    BY <2>3, Zenon DEF one
<1>4. Pool'
  BY <1>1, <1>3, ReturnedKept DEF Close, Pool
<1>5. Held'
  BY <1>2, HeldBecomes DEF Close, PoolInv
<1> QED
  BY <1>4, <1>5 DEF PoolInv

(* A task that leaves all its scopes gives back what they hold. *)
LEMMA EndsKeeps == ASSUME PoolInv, NEW t \in Tasks, NEW flow, Ends(t, flow) PROVE PoolInv'
<1>1. held[t] \in Seq({"none", "good"}) /\ idle \in Seq(Kept)
  BY DEF PoolInv, Held, Pool
<1>2. IsFiniteSet(DOMAIN held[t])
  <2>1. DOMAIN held[t] = 1..Len(held[t]) /\ Len(held[t]) \in Nat
    BY <1>1
  <2> QED
    BY <2>1, FS_Interval
<1>3. Pool'
  BY <1>1, <1>2, ReturnedKept DEF Ends, Pool
<1>4. <<>> \in Seq({"none", "good"})
  OBVIOUS
<1>5. Held'
  BY <1>4, HeldBecomes DEF Ends, PoolInv
<1> QED
  BY <1>3, <1>5 DEF PoolInv

LEMMA AgeKeeps == ASSUME PoolInv, Age PROVE PoolInv'
<1> DEFINE older == [k \in DOMAIN idle |->
                        IF idle[k].age < DropAfter THEN Connection(idle[k].age + 1, idle[k].conn)
                        ELSE idle[k]]
<1>1. idle \in Seq(Kept) /\ DOMAIN idle = 1..Len(idle) /\ Len(idle) \in Nat
  BY DEF PoolInv, Pool
<1>2. ASSUME NEW k \in DOMAIN idle PROVE older[k] \in Kept
  <2>1. idle[k] \in Kept
    BY <1>1
  <2>2. /\ idle[k].age \in Nat /\ idle[k].conn \in Conns
        /\ idle[k].age < DropAfter => idle[k].conn = "good"
    BY <2>1 DEF Kept
  <2>3. CASE idle[k].age < DropAfter
    <3>1. idle[k].age + 1 \in Nat /\ idle[k].conn = "good" /\ "good" \in Conns
      BY <2>2, <2>3 DEF Conns
    <3>2. Connection(idle[k].age + 1, "good") \in Kept
      BY <3>1, ConnectionKept
    <3>3. Connection(idle[k].age + 1, idle[k].conn) \in Kept
      BY <3>1, <3>2
    <3> QED
      BY <2>3, <3>3
  <2> QED
    BY <2>1, <2>3
<1>3. older \in Seq(Kept)
  <2> HIDE DEF older
  <2>1. DOMAIN older = 1..Len(idle)
    BY <1>1 DEF older
  <2>2. older = [k \in 1..Len(idle) |-> older[k]]
    BY <2>1 DEF older
  <2> QED
    BY <1>1, <1>2, <2>1, <2>2
<1>4. idle' = older /\ UNCHANGED held
  BY DEF Age
<1> QED
  BY <1>3, <1>4 DEF PoolInv, Held, Pool

LEMMA DropKeeps == ASSUME PoolInv, Drop PROVE PoolInv'
<1>1. idle \in Seq(Kept)
  BY DEF PoolInv, Pool
<1>2. PICK k \in DOMAIN idle :
          idle[k].age >= DropAfter /\ idle' = [idle EXCEPT ![k] = Connection(idle[k].age, "broken")]
  BY DEF Drop
<1>3. idle[k] \in Kept
  BY <1>1
<1>4. idle[k].age \in Nat
  BY <1>3 DEF Kept
<1>5. Connection(idle[k].age, "broken") \in Kept
  BY <1>2, <1>4, SessionsAssumption, ConnectionKept DEF Conns
<1>6. idle' \in Seq(Kept)
  BY <1>1, <1>2, <1>5
<1> QED
  BY <1>6 DEF Drop, PoolInv, Held, Pool

LEMMA WorksKeeps == ASSUME PoolInv, NEW t \in Tasks, Works(t) PROVE PoolInv'
<1>1. CASE Run(t) \/ Answered(t) \/ Choose(t)
  BY <1>1, PoolUnchanged DEF Run, Answered, Choose
<1>2. CASE Fail(t)
  BY <1>2, EndsKeeps DEF Fail
<1> QED
  BY <1>1, <1>2, OpenKeeps, TakeKeeps, CloseKeeps DEF Works

LEMMA PoolStep == ASSUME PoolInv, [Next]_vars PROVE PoolInv'
<1>1. CASE \E t \in Tasks : Works(t)
  BY <1>1, WorksKeeps
<1>2. CASE (\E r \in Requests : Arrive(r)) \/ ChangeRole \/ Clock
  BY <1>2, PoolUnchanged DEF Arrive, ChangeRole, Clock, svars
<1>3. CASE Age \/ Drop
  BY <1>3, AgeKeeps, DropKeeps
<1>4. CASE Wakes \/ Rounds \/ JobDone \/ Serve \/ Verified \/ Signal
  BY <1>4, PoolUnchanged DEF Wakes, Rounds, JobDone, Serve, Verified, Signal, svars
<1>5. CASE Refuse \/ Cancel
  <2>1. "lifespan" \in Tasks /\ "background" \in Tasks
    BY DEF Tasks
  <2> QED
    BY <1>5, <2>1, EndsKeeps DEF Refuse, Cancel
<1>6. CASE Drained \/ Leaves \/ Joined \/ Flush \/ Exit
  BY <1>6, PoolUnchanged DEF Drained, Leaves, Joined, Flush, Exit, svars
<1>7. CASE Dispose
  BY <1>7 DEF Dispose, PoolInv, Held, Pool
<1>8. CASE UNCHANGED vars
  BY <1>8, PoolUnchanged DEF vars
<1> QED
  BY <1>1, <1>2, <1>3, <1>4, <1>5, <1>6, <1>7, <1>8 DEF Next, Stops1

LEMMA PoolInit == Init => PoolInv
BY DEF Init, PoolInv, Held, Pool

(* Whatever requests, background loops and stops do, and whenever the       *)
(* server drops idle connections, no task is handed a dead one              *)
(* (ping_after_idle in infrastructure/database/session.py).                 *)
THEOREM NoneDeadHandedOut == Spec => []IdleChecked
<1>1. PoolInv => IdleChecked
  <2> SUFFICES ASSUME PoolInv, NEW t \in Tasks, NEW k \in DOMAIN held[t]
               PROVE  held[t][k] # "broken"
    BY DEF IdleChecked
  <2>1. held[t] \in Seq({"none", "good"})
    BY DEF PoolInv, Held
  <2> QED
    BY <2>1
<1> QED
  BY <1>1, PoolInit, PoolStep, PTL DEF Spec

-----------------------------------------------------------------------------
(* Flows.  A scope is opened by a task that has none, and its statements    *)
(* and its end come next: what follows a step of Enters is one of Inside,   *)
(* and nothing else is.  The statement of an admin follows a permission.    *)
Enters == Statements \cup {"open"}
Inside == Statements \cup {"close"}
Outside == {"ask", "model", "try", "caught", "verify", "join", "aclose", "dispose", "flush",
            "embedding", "models", "scopes", "tool", "turn", "round", "sweep", "batch",
            "queue", "drain"}
Steps == Enters \cup Inside \cup Outside
Bracketed(s) ==
    /\ \A i \in 1..Len(s) : s[i] \in Enters => i < Len(s)
    /\ \A i \in 1..Len(s) : i > 1 => (s[i - 1] \in Enters <=> s[i] \in Inside)
Guarded(s) == \A i \in 1..Len(s) : i > 1 /\ s[i] = "act" => s[i - 1] \in Permissions
Flow(s) == s \in Seq(Steps) /\ Bracketed(s) /\ Guarded(s)

(* A flow from outside every scope, and one that has no admin's statement.  *)
Whole(s) == Flow(s) /\ (s # <<>> => s[1] \notin Inside)
Plain(s) == Whole(s) /\ ~Contains(s, "act")

Rest(s, m) == SubSeq(s, m, Len(s))

LEMMA RestIs ==
    ASSUME NEW s \in Seq(Steps), NEW m \in 1..(Len(s) + 1)
    PROVE  /\ Rest(s, m) \in Seq(Steps)
           /\ Len(Rest(s, m)) = Len(s) - m + 1
           /\ \A i \in 1..(Len(s) - m + 1) : Rest(s, m)[i] = s[i + m - 1]
BY DEF Rest

LEMMA RestHead ==
    ASSUME NEW s \in Seq(Steps), NEW m \in 1..(Len(s) + 1)
    PROVE  /\ Rest(s, m) # <<>> <=> m <= Len(s)
           /\ m <= Len(s) => Rest(s, m)[1] = s[m]
<1> DEFINE z == Rest(s, m)
<1>1. Len(s) \in Nat
  OBVIOUS
<1>2. z \in Seq(Steps) /\ Len(z) = Len(s) - m + 1
  BY RestIs
<1>3. m <= Len(s) => z[1] = s[1 + m - 1]
  BY <1>1, RestIs
<1> HIDE DEF z
<1>4. z # <<>> <=> Len(z) # 0
  BY <1>2
<1>5. 1 + m - 1 = m
  OBVIOUS
<1> QED
  BY <1>1, <1>2, <1>3, <1>4, <1>5 DEF z

(* What a task has yet to do of a flow is a flow. *)
LEMMA RestFlow ==
    ASSUME NEW s, Flow(s), NEW m \in 1..(Len(s) + 1)
    PROVE  Flow(Rest(s, m)) /\ (Contains(Rest(s, m), "act") => Contains(s, "act"))
<1> DEFINE n == Len(s) - m + 1
           z == Rest(s, m)
<1>1. s \in Seq(Steps) /\ Len(s) \in Nat
  BY DEF Flow
<1>2. /\ z \in Seq(Steps) /\ Len(z) = n /\ n \in Nat
      /\ \A i \in 1..n : z[i] = s[i + m - 1] /\ i + m - 1 \in 1..Len(s)
  <2>1. /\ z \in Seq(Steps) /\ Len(z) = n
        /\ \A i \in 1..n : z[i] = s[i + m - 1]
    BY <1>1, RestIs
  <2> HIDE DEF z
  <2>2. n \in Nat /\ \A i \in 1..n : i + m - 1 \in 1..Len(s)
    BY <1>1
  <2> QED
    BY <2>1, <2>2
<1> HIDE DEF z
<1>3. ASSUME NEW i \in 1..Len(z), z[i] \in Enters PROVE i < Len(z)
  BY <1>1, <1>2, <1>3 DEF Flow, Bracketed
<1>4. ASSUME NEW i \in 1..Len(z), i > 1
      PROVE  /\ z[i - 1] \in Enters <=> z[i] \in Inside
             /\ z[i] = "act" => z[i - 1] \in Permissions
  <2> DEFINE j == i + m - 1
  <2>1. i \in 1..n /\ m \in Int
    BY <1>1, <1>2
  <2>2. j \in 1..Len(s) /\ z[i] = s[j]
    BY <1>2, <2>1
  <2>3. j > 1 /\ i - 1 \in 1..n /\ (i - 1) + m - 1 = j - 1
    BY <1>1, <1>4, <2>1
  <2>4. z[i - 1] = s[j - 1]
    BY <1>2, <2>3
  <2> HIDE DEF j
  <2> QED
    BY <2>2, <2>3, <2>4 DEF Flow, Bracketed, Guarded
<1>5. Contains(z, "act") => Contains(s, "act")
  BY <1>2 DEF Contains
<1>6. Bracketed(z) /\ Guarded(z)
  BY <1>3, <1>4 DEF Bracketed, Guarded
<1> QED
  BY <1>2, <1>5, <1>6 DEF Flow, z

(* A set of natural numbers has a least element. *)
NatLess == {p \in Nat \X Nat : p[1] < p[2]}
LEMMA LeastIs ==
    ASSUME NEW S, S \subseteq Nat, S # {}
    PROVE  Min(S) \in S /\ \A x \in S : Min(S) <= x
<1>1. IsWellFoundedOn(OpToRel(<, Nat), Nat)
  BY NatLessThanWellFounded
<1>2. NatLess = OpToRel(<, Nat)
  BY DEF NatLess, OpToRel
<1>3. IsWellFoundedOn(NatLess, Nat)
  BY <1>1, <1>2, Zenon
<1>4. PICK m \in S : \A x \in S : ~(<<x, m>> \in NatLess)
  BY <1>3, WFMin
<1>5. \A x \in S : ~(x < m)
  BY <1>4 DEF NatLess
<1>6. \A x \in S : m <= x
  BY <1>5
<1> QED
  BY <1>6 DEF Min

(* The marks are passed over. *)
LEMMA FromIs ==
    ASSUME NEW s \in Seq(Steps), NEW k \in 1..(Len(s) + 1)
    PROVE  \E m \in k..(Len(s) + 1) :
               /\ From(s, k) = Rest(s, m)
               /\ \A j \in k..(m - 1) : s[j] \in Marks
               /\ m <= Len(s) => s[m] \notin Marks
<1> DEFINE real == {i \in k..Len(s) : s[i] \notin Marks}
<1>1. Len(s) \in Nat
  OBVIOUS
<1>2. CASE real = {}
  <2>1. From(s, k) = <<>>
    BY <1>2 DEF From
  <2>2. Rest(s, Len(s) + 1) = <<>>
    BY <1>1 DEF Rest
  <2>3. \A j \in k..Len(s) : s[j] \in Marks
    BY <1>2
  <2>4. Len(s) + 1 \in k..(Len(s) + 1) /\ ~(Len(s) + 1 <= Len(s)) /\ Len(s) + 1 - 1 = Len(s)
    BY <1>1
  <2> QED
    BY <2>1, <2>2, <2>3, <2>4
<1>3. CASE real # {}
  <2> DEFINE m == Min(real)
  <2>1. real \subseteq Nat
    BY <1>1
  <2>2. m \in real /\ \A x \in real : m <= x
    BY <1>3, <2>1, LeastIs
  <2>3. From(s, k) = Rest(s, m)
    BY <1>3 DEF From, Rest
  <2> HIDE DEF m
  <2>4. m \in k..Len(s) /\ s[m] \notin Marks
    BY <2>2
  <2>5. ASSUME NEW j \in k..(m - 1) PROVE s[j] \in Marks
    <3>1. j \in k..Len(s) /\ ~(m <= j)
      BY <1>1, <2>4
    <3> QED
      BY <2>2, <3>1
  <2> QED
    BY <1>1, <2>3, <2>4, <2>5
<1> QED
  BY <1>2, <1>3

(* After a failure a task goes on behind a mark, or nowhere. *)
LEMMA CaughtIs ==
    ASSUME NEW s \in Seq(Steps)
    PROVE  \E m \in 1..(Len(s) + 1) :
               /\ Caught(s) = Rest(s, m)
               /\ m <= Len(s) => m > 1 /\ s[m - 1] \in Marks
<1> DEFINE count(mark, k) == Cardinality({i \in 1..(k - 1) : s[i] = mark})
           marks == {k \in DOMAIN s : s[k] = "caught" /\ count("try", k) = count("caught", k)}
<1>1. Len(s) \in Nat /\ DOMAIN s = 1..Len(s)
  OBVIOUS
<1>2. CASE marks = {}
  <2>1. Caught(s) = <<>>
    BY <1>2 DEF Caught
  <2>2. Rest(s, Len(s) + 1) = <<>>
    BY <1>1 DEF Rest
  <2> QED
    BY <1>1, <2>1, <2>2
<1>3. CASE marks # {}
  <2> DEFINE c == Min(marks)
  <2>0. marks \subseteq Nat
    BY <1>1
  <2>1. c \in marks
    <3> HIDE DEF marks
    <3> QED
      BY <1>3, <2>0, LeastIs
  <2>2. Caught(s) = From(s, c + 1)
    BY <1>3 DEF Caught
  <2>3. c \in 1..Len(s) /\ s[c] = "caught"
    BY <1>1, <2>1
  <2> HIDE DEF c, marks
  <2>4. PICK m \in (c + 1)..(Len(s) + 1) :
            /\ From(s, c + 1) = Rest(s, m)
            /\ \A j \in (c + 1)..(m - 1) : s[j] \in Marks
    BY <1>1, <2>3, FromIs
  <2>5. m \in 1..(Len(s) + 1) /\ m > 1
    BY <1>1, <2>3
  <2>6. s[m - 1] \in Marks
    <3>1. CASE m - 1 = c
      BY <2>3, <3>1 DEF Marks
    <3>2. CASE m - 1 # c
      <4>1. m - 1 \in (c + 1)..(m - 1)
        BY <1>1, <2>3, <3>2
      <4> QED
        BY <2>4, <4>1
    <3> QED
      BY <3>1, <3>2
  <2> QED
    BY <2>2, <2>4, <2>5, <2>6
<1> QED
  BY <1>2, <1>3

-----------------------------------------------------------------------------
(* Flows are put together of whole ones, and of single steps outside a scope. *)
LEMMA NothingPlain == Plain(<<>>)
BY DEF Plain, Whole, Flow, Bracketed, Guarded, Contains

LEMMA ScopePlain == Plain(Scope)
<1>1. /\ Scope \in Seq(Steps) /\ Len(Scope) = 3
      /\ Scope[1] = "open" /\ Scope[2] = "query" /\ Scope[3] = "close"
  <2>1. {"open", "query", "close"} \subseteq Steps
    BY DEF Steps, Enters, Inside, Statements
  <2> QED
    BY <2>1 DEF Scope
<1>2. \A i \in 1..3 : i = 1 \/ i = 2 \/ i = 3
  OBVIOUS
<1> QED
  BY <1>1, <1>2 DEF Plain, Whole, Flow, Bracketed, Guarded, Contains, Enters, Inside, Statements,
                    Permissions

LEMMA OutsidePlain ==
    ASSUME NEW s \in Seq(Outside)
    PROVE  Plain(s)
<1>1. ASSUME NEW x \in Outside PROVE x # "act" /\ x \notin Enters /\ x \notin Inside /\ x \in Steps
  BY DEF Outside, Enters, Inside, Statements, Permissions, Steps
<1>2. s \in Seq(Steps) /\ \A i \in 1..Len(s) : s[i] \in Outside
  BY <1>1
<1>3. Bracketed(s) /\ Guarded(s) /\ ~Contains(s, "act")
  BY <1>1, <1>2 DEF Bracketed, Guarded, Contains
<1>4. s # <<>> => s[1] \in Outside
  BY <1>2
<1> QED
  BY <1>1, <1>2, <1>3, <1>4 DEF Plain, Whole, Flow

LEMMA OnWhole ==
    ASSUME NEW a, NEW b, Whole(a), Flow(b), b # <<>> => b[1] \notin Inside /\ b[1] # "act"
    PROVE  Whole(a \o b)
<1> DEFINE c == a \o b
<1>1. a \in Seq(Steps) /\ b \in Seq(Steps) /\ Len(a) \in Nat /\ Len(b) \in Nat
  BY DEF Whole, Flow
<1>2. /\ c \in Seq(Steps) /\ Len(c) = Len(a) + Len(b)
      /\ \A i \in 1..Len(c) : c[i] = IF i <= Len(a) THEN a[i] ELSE b[i - Len(a)]
  BY <1>1
<1> HIDE DEF c
<1>3. ASSUME NEW i \in 1..Len(c), c[i] \in Enters PROVE i < Len(c)
  <2>1. CASE i <= Len(a)
    <3>1. i \in 1..Len(a) /\ a[i] \in Enters
      BY <1>1, <1>2, <1>3, <2>1
    <3>2. i < Len(a)
      BY <3>1 DEF Whole, Flow, Bracketed
    <3> QED
      BY <1>1, <1>2, <3>2
  <2>2. CASE i > Len(a)
    <3>1. i - Len(a) \in 1..Len(b) /\ b[i - Len(a)] \in Enters
      BY <1>1, <1>2, <1>3, <2>2
    <3>2. i - Len(a) < Len(b)
      BY <3>1 DEF Flow, Bracketed
    <3> QED
      BY <1>1, <1>2, <3>2
  <2> QED
    BY <1>1, <2>1, <2>2
<1>4. ASSUME NEW i \in 1..Len(c), i > 1
      PROVE  /\ c[i - 1] \in Enters <=> c[i] \in Inside
             /\ c[i] = "act" => c[i - 1] \in Permissions
  <2>0. i - 1 \in 1..Len(c)
    BY <1>1, <1>2, <1>4
  <2>1. CASE i <= Len(a)
    <3>1. i \in 1..Len(a) /\ c[i] = a[i] /\ c[i - 1] = a[i - 1]
      BY <1>1, <1>2, <1>4, <2>0, <2>1
    <3> QED
      BY <1>4, <3>1 DEF Whole, Flow, Bracketed, Guarded
  <2>2. CASE i = Len(a) + 1
    <3>1. /\ Len(a) \in 1..Len(a) /\ c[i - 1] = a[Len(a)] /\ i - 1 = Len(a)
      BY <1>1, <1>2, <1>4, <2>0, <2>2
    <3>2. 1 \in 1..Len(b) /\ c[i] = b[1]
      BY <1>1, <1>2, <2>2
    <3>3. c[i - 1] \notin Enters
      BY <1>1, <3>1 DEF Whole, Flow, Bracketed
    <3>4. c[i] \notin Inside /\ c[i] # "act"
      BY <3>2
    <3> QED
      BY <3>3, <3>4
  <2>3. CASE i > Len(a) + 1
    <3> DEFINE j == i - Len(a)
    <3>1. j \in 1..Len(b) /\ j > 1 /\ c[i] = b[j]
      BY <1>1, <1>2, <2>3
    <3>2. (i - 1) - Len(a) = j - 1 /\ ~(i - 1 <= Len(a))
      BY <1>1, <2>3
    <3>3. c[i - 1] = b[j - 1]
      BY <1>2, <2>0, <3>2
    <3> HIDE DEF j
    <3> QED
      BY <3>1, <3>3 DEF Flow, Bracketed, Guarded
  <2> QED
    BY <1>1, <2>1, <2>2, <2>3
<1>5. c # <<>> => c[1] \notin Inside
  <2>1. CASE a = <<>>
    <3>1. c = b
      BY <1>1, <2>1 DEF c
    <3> QED
      BY <3>1
  <2>2. CASE a # <<>>
    <3>1. c[1] = a[1]
      BY <1>1, <1>2, <2>2
    <3> QED
      BY <2>2, <3>1 DEF Whole
  <2> QED
    BY <2>1, <2>2
<1> QED
  BY <1>2, <1>3, <1>4, <1>5 DEF Whole, Flow, Bracketed, Guarded, c

LEMMA HasAct ==
    ASSUME NEW a \in Seq(Steps), NEW b \in Seq(Steps), Contains(a \o b, "act")
    PROVE  Contains(a, "act") \/ Contains(b, "act")
<1>1. PICK i \in 1..Len(a \o b) : (a \o b)[i] = "act"
  BY DEF Contains
<1>2. CASE i <= Len(a)
  <2>1. i \in 1..Len(a) /\ a[i] = "act"
    BY <1>1, <1>2
  <2> QED
    BY <2>1 DEF Contains
<1>3. CASE i > Len(a)
  <2>1. i - Len(a) \in 1..Len(b) /\ b[i - Len(a)] = "act"
    BY <1>1, <1>3
  <2> QED
    BY <2>1 DEF Contains
<1> QED
  BY <1>2, <1>3

LEMMA JoinPlain == ASSUME NEW a, NEW b, Plain(a), Plain(b) PROVE Plain(a \o b)
<1>1. b # <<>> => b[1] # "act"
  BY DEF Plain, Whole, Flow, Contains
<1>2. Whole(a \o b)
  BY <1>1, OnWhole DEF Plain, Whole
<1>3. ~Contains(a \o b, "act")
  BY HasAct DEF Plain, Whole, Flow
<1> QED
  BY <1>2, <1>3 DEF Plain

LEMMA AdminWhole == ASSUME NEW p \in Permissions PROVE Whole(<<"open", p, "act", "close">>)
<1> DEFINE s == <<"open", p, "act", "close">>
<1>1. /\ {"open", "act", "close"} \subseteq Steps /\ p \in Steps
      /\ p \in Enters /\ p \in Inside /\ p # "act"
  BY DEF Steps, Enters, Inside, Statements, Permissions
<1>2. /\ s \in Seq(Steps) /\ Len(s) = 4
      /\ s[1] = "open" /\ s[2] = p /\ s[3] = "act" /\ s[4] = "close"
  BY <1>1
<1>3. /\ "open" \in Enters \ Inside /\ "act" \in Enters \cap Inside /\ "close" \in Inside \ Enters
      /\ "open" # "act" /\ "close" # "act"
  BY DEF Enters, Inside, Statements, Permissions
<1>4. \A i \in 1..4 : i = 1 \/ i = 2 \/ i = 3 \/ i = 4
  OBVIOUS
<1> HIDE DEF s
<1>5. Bracketed(s)
  BY <1>1, <1>2, <1>3, <1>4 DEF Bracketed
<1>6. Guarded(s)
  BY <1>1, <1>2, <1>3, <1>4 DEF Guarded
<1> QED
  BY <1>2, <1>3, <1>5, <1>6 DEF Whole, Flow, s

(* The flows that others are put together of. *)
LEMMA PartsPlain ==
    /\ Plain(<<>>) /\ Plain(Scope) /\ Plain(Scope \o Scope) /\ Plain(Scope \o Scope \o Scope)
    /\ Plain(Scope \o Scope \o Scope \o Scope)
    /\ Plain(Search) /\ Plain(Claimed) /\ Plain(Iteration) /\ Plain(Probe) /\ Plain(Check)
<1>1. Plain(<<>>) /\ Plain(Scope) /\ Plain(Scope \o Scope) /\ Plain(Scope \o Scope \o Scope)
      /\ Plain(Scope \o Scope \o Scope \o Scope)
  BY NothingPlain, ScopePlain, JoinPlain
<1>2. Plain(Search)
  <2>1. <<"embedding">> \in Seq(Outside) /\ <<"models">> \in Seq(Outside)
    BY DEF Outside
  <2> QED
    BY <2>1, OutsidePlain, ScopePlain, JoinPlain DEF Search
<1>3. Plain(Claimed)
  <2>1. /\ <<"try">> \in Seq(Outside) /\ <<"models">> \in Seq(Outside)
        /\ <<"caught", "scopes">> \in Seq(Outside)
    BY DEF Outside
  <2> QED
    BY <2>1, OutsidePlain, ScopePlain, JoinPlain DEF Claimed
<1>4. Plain(Iteration)
  <2>1. <<"sweep">> \in Seq(Outside) /\ <<"batch", "scopes">> \in Seq(Outside)
    BY DEF Outside
  <2> QED
    BY <2>1, OutsidePlain, ScopePlain, JoinPlain DEF Iteration
<1>5. Plain(Probe) /\ Plain(Check)
  <2>1. /\ <<"try">> \in Seq(Outside) /\ <<"caught">> \in Seq(Outside)
        /\ <<"verify", "caught">> \in Seq(Outside)
    BY DEF Outside
  <2> QED
    BY <2>1, OutsidePlain, ScopePlain, JoinPlain DEF Probe, Check
<1> QED
  BY <1>1, <1>2, <1>3, <1>4, <1>5

(* The tools of the assistant and of the MCP server. *)
LEMMA ToolsPlain ==
    ASSUME NEW e \in McpServer \cup Offered, NEW f \in e.flows
    PROVE  Plain(f)
<1>1. /\ Plain(Scope) /\ Plain(Search \o Scope)
      /\ Plain(<<"open", "close">>)
  <2>1. {"open", "close"} \subseteq Steps
    BY DEF Steps, Enters, Inside
  <2>2. /\ "open" \in Enters \ Inside /\ "close" \in Inside \ Enters /\ "open" # "act" /\ "close" # "act"
    BY DEF Enters, Inside, Statements, Permissions
  <2>3. Plain(<<"open", "close">>)
    <3> DEFINE s == <<"open", "close">>
    <3>1. s \in Seq(Steps) /\ Len(s) = 2 /\ s[1] = "open" /\ s[2] = "close"
      BY <2>1
    <3> HIDE DEF s
    <3>2. \A i \in 1..2 : i = 1 \/ i = 2
      OBVIOUS
    <3> QED
      BY <2>2, <3>1, <3>2 DEF Plain, Whole, Flow, Bracketed, Guarded, Contains, s
  <2> QED
    BY <2>3, PartsPlain, JoinPlain
<1>2. \A op \in DOMAIN CatalogTools : CatalogTools[op].flows \subseteq {Scope, Search \o Scope}
  BY DEF CatalogTools, Unscoped, Injected, SearchTool
<1>3. \A op \in DOMAIN OrderTools : OrderTools[op].flows \subseteq {Scope, <<"open", "close">>}
  BY DEF OrderTools
<1>4. \A op \in DOMAIN AnalyticsTools : AnalyticsTools[op].flows = {Scope}
  BY DEF AnalyticsTools, Injected
<1>5. StoreOverview.flows = {Scope}
  BY DEF StoreOverview, Injected
<1>6. e.flows \subseteq {Scope, Search \o Scope, <<"open", "close">>}
  <2>1. CASE e \in Offered
    BY <1>2, <1>3, <1>4, <2>1 DEF Offered, EndpointsOf
  <2>2. CASE e \in McpServer
    BY <1>2, <1>3, <1>4, <1>5, <2>2
       DEF McpServer, McpCatalog, McpOrders, McpAnalytics, EndpointsOf
  <2> QED
    BY <2>1, <2>2
<1> QED
  BY <1>1, <1>6

LEMMA WaysPlain ==
    ASSUME NEW w \in DOMAIN Ways, NEW f \in Ways[w]
    PROVE  Plain(f)
<1> USE PartsPlain
<1>1. /\ <<"model">> \in Seq(Outside) /\ <<"model", "round">> \in Seq(Outside)
      /\ <<"try", "tool", "caught", "model">> \in Seq(Outside)
  BY DEF Outside
<1>2. /\ Plain(<<"model">>) /\ Plain(<<"model", "round">>)
      /\ Plain(<<"try", "tool", "caught", "model">>)
  BY <1>1, OutsidePlain
<1>3. \A x \in Embedding : Plain(x)
  BY <1>2, JoinPlain DEF Embedding
<1>4. \A x \in {<<>>, <<"model">>} : Plain(x)
  BY <1>2
<1>5. \A x \in {<<>>, Scope} : Plain(x)
  OBVIOUS
<1>6. \A x \in ToolCall : Plain(x)
  BY ToolsPlain DEF ToolCall, FlowsOf
<1>7. \A x \in Turn : Plain(x)
  BY <1>2, JoinPlain DEF Turn
<1>8. \A x \in Round : Plain(x)
  BY <1>2, JoinPlain DEF Round
<1>9. \A x \in Sweep : Plain(x)
  BY DEF Sweep
<1>10. \A x \in Batch : Plain(x)
  BY DEF Batch
<1>11. \A x \in Queue : Plain(x)
  BY DEF Queue
<1>12. \A x \in Drain : Plain(x)
  BY JoinPlain DEF Drain
<1>13. Ways[w] \in {Embedding, {<<>>, <<"model">>}, {<<>>, Scope}, ToolCall, Turn, Round,
                    Sweep, Batch, Queue, Drain}
  BY DEF Ways
<1> QED
  BY <1>3, <1>4, <1>5, <1>6, <1>7, <1>8, <1>9, <1>10, <1>11, <1>12, <1>13

LEMMA AiFlows ==
    ASSUME NEW f \in FlowsOf(AiEndpoints)
    PROVE  Whole(f)
<1>1. PICK e \in AiEndpoints : f \in e.flows
  BY DEF FlowsOf
<1>2. CASE e \in McpServer
  BY <1>1, <1>2, ToolsPlain DEF Plain
<1>3. CASE e = Healthz \/ e = SearchEndpoint
  BY <1>1, <1>3, PartsPlain DEF Healthz, SearchEndpoint, Unscoped, Plain
<1>4. CASE e = ChatEndpoint
  <2>1. <<"turn">> \in Seq(Outside)
    BY DEF Outside
  <2>2. Plain(Scope \o <<"turn">>)
    BY <2>1, OutsidePlain, ScopePlain, JoinPlain
  <2> QED
    BY <1>1, <1>4, <2>2 DEF ChatEndpoint, Unscoped, Plain
<1> QED
  BY <1>1, <1>2, <1>3, <1>4 DEF AiEndpoints

LEMMA WebFlows ==
    ASSUME NEW f \in FlowsOf(WebEndpoints)
    PROVE  Whole(f)
<1>1. PICK e \in WebEndpoints : f \in e.flows
  BY DEF FlowsOf
<1>2. Plain(Scope) /\ Plain(<<"ask">>) /\ Plain(<<"ask">> \o Scope)
  <2>1. <<"ask">> \in Seq(Outside)
    BY DEF Outside
  <2> QED
    BY <2>1, OutsidePlain, ScopePlain, JoinPlain
<1>3. CASE e \in EndpointsOf(AdminEndpoints)
  <2>1. PICK op \in DOMAIN AdminEndpoints : e = AdminEndpoints[op]
    BY <1>3 DEF EndpointsOf
  <2>2. \E p \in Permissions : \E i : AdminEndpoints[op] = Admin(p, i)
    BY DEF AdminEndpoints, Permissions
  <2>3. PICK p \in Permissions : e.flows = {<<"open", p, "act", "close">>}
    BY <2>1, <2>2 DEF Admin
  <2> QED
    BY <1>1, <2>3, AdminWhole
<1>4. CASE e \in EndpointsOf(CartEndpoints) \cup EndpointsOf(OrderEndpoints)
                 \cup EndpointsOf(ReviewEndpoints) \cup EndpointsOf(AuthEndpoints)
  <2>1. \E i : e = Injected(i)
    BY <1>4 DEF EndpointsOf, CartEndpoints, OrderEndpoints, ReviewEndpoints, AuthEndpoints
  <2> QED
    BY <1>1, <1>2, <2>1 DEF Injected, Plain
<1>5. CASE e \in EndpointsOf(ProductEndpoints)
  <2>1. PICK op \in DOMAIN ProductEndpoints : e = ProductEndpoints[op]
    BY <1>5 DEF EndpointsOf
  <2>2. ProductEndpoints[op].flows \subseteq {Scope, <<"ask">> \o Scope}
    BY DEF ProductEndpoints, Unscoped, Injected
  <2> QED
    BY <1>1, <1>2, <2>1, <2>2 DEF Plain
<1>6. CASE e \in EndpointsOf(AssistantEndpoints)
  <2>1. e.flows = {<<"ask">>}
    BY <1>6 DEF EndpointsOf, AssistantEndpoints, Unscoped
  <2> QED
    BY <1>1, <1>2, <2>1 DEF Plain
<1>7. CASE e = Healthz
  BY <1>1, <1>2, <1>7 DEF Healthz, Unscoped, Plain
<1> QED
  BY <1>1, <1>3, <1>4, <1>5, <1>6, <1>7 DEF WebEndpoints

(* What a process does besides its requests. *)
LEMMA BackgroundPlain ==
    /\ \A work \in Jobs : Plain(work)
    /\ Plain(Keepalive) /\ Plain(Iteration)
    /\ \A svc : \A start \in Starts(svc) : Plain(start)
    /\ \A svc, running : Plain(Stop(svc, running))
<1> USE PartsPlain
<1>1. Plain(Keepalive) /\ Plain(Iteration)
  BY DEF Keepalive
<1>2. \A work \in Jobs : Plain(work)
  <2>1. <<"queue">> \in Seq(Outside) /\ <<"drain">> \in Seq(Outside)
    BY DEF Outside
  <2>2. Plain(<<"queue">> \o Scope \o <<"drain">> \o Scope \o Scope \o Scope)
    BY <2>1, OutsidePlain, JoinPlain
  <2> QED
    BY <1>1, <2>2 DEF Jobs
<1>3. ASSUME NEW svc, NEW start \in Starts(svc) PROVE Plain(start)
  BY JoinPlain DEF Starts
<1>4. ASSUME NEW svc, NEW running PROVE Plain(Stop(svc, running))
  <2>1. /\ <<"join">> \in Seq(Outside) /\ <<"dispose", "flush">> \in Seq(Outside)
        /\ <<"join", "aclose", "dispose", "flush">> \in Seq(Outside)
        /\ <<"dispose">> \in Seq(Outside)
    BY DEF Outside
  <2>2. Plain(<<"join">> \o Probe \o <<"dispose", "flush">>)
    BY <2>1, OutsidePlain, JoinPlain
  <2>3. /\ Plain(<<"dispose", "flush">>) /\ Plain(<<"join", "aclose", "dispose", "flush">>)
        /\ Plain(<<"dispose">>)
    BY <2>1, OutsidePlain
  <2> QED
    BY <2>2, <2>3 DEF Stop
<1> QED
  BY <1>1, <1>2, <1>3, <1>4

-----------------------------------------------------------------------------
(* What a step leaves a task to do. *)
LEMMA ProceedsFlow ==
    ASSUME NEW s, Flow(s), s # <<>>
    PROVE  \E m \in 2..(Len(s) + 1) :
               /\ From(s, 2) = Rest(s, m)
               /\ \A j \in 2..(m - 1) : s[j] \in Marks
               /\ s[1] \in Enters <=> m <= Len(s) /\ s[m] \in Inside
               /\ m <= Len(s) /\ s[m] = "act" => s[1] \in Permissions
<1>1. s \in Seq(Steps) /\ Len(s) \in Nat /\ Len(s) >= 1
  BY DEF Flow
<1>2. PICK m \in 2..(Len(s) + 1) :
          /\ From(s, 2) = Rest(s, m)
          /\ \A j \in 2..(m - 1) : s[j] \in Marks
  BY <1>1, FromIs
<1>3. ASSUME NEW x \in Marks PROVE x \notin Enters /\ x \notin Inside /\ x \notin Permissions
  BY <1>3 DEF Marks, Enters, Inside, Statements, Permissions
<1>4. CASE m = 2
  BY <1>1, <1>2, <1>4 DEF Flow, Bracketed, Guarded
<1>5. CASE m > 2
  <2>1. s[2] \in Marks /\ s[m - 1] \in Marks /\ 2 \in 1..Len(s)
    BY <1>1, <1>2, <1>5
  <2>2. s[1] \notin Enters
    <3>1. s[2] \notin Inside
      BY <1>3, <2>1
    <3> QED
      BY <2>1, <3>1 DEF Flow, Bracketed
  <2>3. m <= Len(s) => s[m] \notin Inside /\ s[m] # "act"
    <3>1. s[m - 1] \notin Enters /\ s[m - 1] \notin Permissions
      BY <1>3, <2>1
    <3> QED
      BY <1>1, <1>5, <3>1 DEF Flow, Bracketed, Guarded
  <2> QED
    BY <1>2, <2>2, <2>3
<1> QED
  BY <1>1, <1>4, <1>5

(* A way that is chosen begins outside every scope, as what fails goes on. *)
Begins(s) == s # <<>> => s[1] \notin Inside /\ s[1] # "act"

LEMMA FirstFlow ==
    ASSUME NEW c, Whole(c)
    PROVE  LET z == From(c, 1)
           IN  Flow(z) /\ Begins(z) /\ (Contains(z, "act") => Contains(c, "act"))
<1> DEFINE z == From(c, 1)
<1>1. c \in Seq(Steps) /\ Len(c) \in Nat
  BY DEF Whole, Flow
<1>2. PICK m \in 1..(Len(c) + 1) : z = Rest(c, m) /\ \A j \in 1..(m - 1) : c[j] \in Marks
  BY <1>1, FromIs
<1> HIDE DEF z
<1>3. Flow(z) /\ (Contains(z, "act") => Contains(c, "act"))
  BY <1>2, RestFlow DEF Whole
<1>4. z # <<>> => z[1] = c[m] /\ m \in 1..Len(c)
  BY <1>1, <1>2, RestHead
<1>5. m \in 1..Len(c) => c[m] \notin Inside
  <2>1. CASE m = 1
    BY <1>1, <2>1 DEF Whole
  <2>2. CASE m > 1
    <3>1. c[m - 1] \in Marks
      BY <1>2, <2>2
    <3>2. c[m - 1] \notin Enters
      BY <3>1 DEF Marks, Enters, Statements, Permissions
    <3> QED
      BY <1>1, <2>2, <3>2 DEF Whole, Flow, Bracketed
  <2> QED
    BY <1>1, <2>1, <2>2
<1>6. "act" \in Inside
  BY DEF Inside, Statements
<1> QED
  BY <1>3, <1>4, <1>5, <1>6 DEF Begins, z

LEMMA ChooseFlow ==
    ASSUME NEW s, Flow(s), s # <<>>, s[1] \in DOMAIN Ways, NEW f, Plain(f)
    PROVE  LET z == From(f \o Tail(s), 1)
           IN  Flow(z) /\ Begins(z) /\ (Contains(z, "act") => Contains(s, "act"))
<1> DEFINE b == Tail(s)
           c == f \o b
           z == From(c, 1)
<1>1. s \in Seq(Steps) /\ Len(s) \in Nat /\ Len(s) >= 1 /\ f \in Seq(Steps)
  BY DEF Flow, Plain, Whole
<1>2. b = Rest(s, 2)
  BY <1>1 DEF Rest
<1>3. Flow(b) /\ (Contains(b, "act") => Contains(s, "act")) /\ b \in Seq(Steps)
  <2>1. 2 \in 1..(Len(s) + 1)
    BY <1>1
  <2>2. Flow(Rest(s, 2)) /\ (Contains(Rest(s, 2), "act") => Contains(s, "act"))
    BY <2>1, RestFlow
  <2> QED
    BY <1>2, <2>2 DEF Flow
<1>4. s[1] \notin Enters
  BY DEF Ways, Enters, Statements, Permissions
<1>5. b # <<>> => b[1] \notin Inside
  <2>1. b # <<>> => b[1] = s[2] /\ 2 \in 1..Len(s)
    BY <1>1
  <2> QED
    BY <1>4, <2>1 DEF Flow, Bracketed
<1>6. "act" \in Inside
  BY DEF Inside, Statements
<1>7. Whole(c)
  BY <1>3, <1>5, <1>6, OnWhole DEF Plain
<1>8. Contains(c, "act") => Contains(s, "act")
  BY <1>1, <1>3, HasAct DEF Plain
<1> HIDE DEF b, c
<1>9. Flow(z) /\ Begins(z) /\ (Contains(z, "act") => Contains(c, "act"))
  BY <1>7, FirstFlow
<1> QED
  BY <1>8, <1>9 DEF b, c

LEMMA CaughtFlow ==
    ASSUME NEW s, Flow(s)
    PROVE  LET z == Caught(s)
           IN  Flow(z) /\ Begins(z) /\ (Contains(z, "act") => Contains(s, "act"))
<1> DEFINE z == Caught(s)
<1>1. s \in Seq(Steps) /\ Len(s) \in Nat
  BY DEF Flow
<1>2. PICK m \in 1..(Len(s) + 1) : z = Rest(s, m) /\ (m <= Len(s) => m > 1 /\ s[m - 1] \in Marks)
  BY <1>1, CaughtIs
<1> HIDE DEF z
<1>3. Flow(z) /\ (Contains(z, "act") => Contains(s, "act"))
  BY <1>2, RestFlow
<1>4. z # <<>> => z[1] = s[m] /\ m \in 1..Len(s)
  BY <1>1, <1>2, RestHead
<1>5. m \in 1..Len(s) => s[m] \notin Inside /\ s[m] # "act"
  <2> HAVE m \in 1..Len(s)
  <2>1. m > 1 /\ s[m - 1] \in Marks
    BY <1>2
  <2>2. s[m - 1] \notin Enters
    BY <2>1 DEF Marks, Enters, Statements, Permissions
  <2>3. s[m] \notin Inside
    BY <2>1, <2>2 DEF Flow, Bracketed
  <2> QED
    BY <2>3 DEF Inside, Statements
<1> QED
  BY <1>3, <1>4, <1>5 DEF Begins, z

-----------------------------------------------------------------------------
(* Who is busy when.  The loop of a service is busy only while its job      *)
(* runs; the lifespan only at the start and in the stop; the requests are   *)
(* gone before the stop, as is the work of a job run by hand.               *)
Stopping == phase \in {"stopping", "exited"}
ControlInv ==
    /\ rest = [t \in Tasks |-> rest[t]]
    /\ phase = "starting" => job = "off" /\ process # "job"
    /\ phase \in {"serving", "draining"} => ~Busy("lifespan")
    /\ process # "job" /\ job # "running" => ~Busy("background")
    /\ phase = "draining" => process # "job"
    /\ process = "job" => \A r \in Requests : ~Busy(r)
    /\ Stopping => /\ \A r \in Requests : ~Busy(r)
                   /\ process = "job" => ~Busy("background")

(* A task has a scope while it stands inside one of its flow. *)
Scopes(t) == IF rest[t] # <<>> /\ rest[t][1] \in Inside THEN 1 ELSE 0
FlowInv == \A t \in Tasks : Flow(rest[t]) /\ Len(held[t]) = Scopes(t)

(* The account of a request that may yet run an admin's statement has been  *)
(* an admin in it if it is one now, or if the guard is behind the request.  *)
RoleInv ==
    /\ since \in [Requests -> BOOLEAN]
    /\ RoleHeld
    /\ role = "admin" => \A r \in Requests : Contains(rest[r], "act") => since[r]

(* What is left of a stop, before the engine is disposed of and after. *)
BeforeDisposal ==
    {<<"join", "try", "open", "query", "close", "caught", "dispose", "flush">>,
     <<"open", "query", "close", "caught", "dispose", "flush">>,
     <<"query", "close", "caught", "dispose", "flush">>,
     <<"close", "caught", "dispose", "flush">>,
     <<"join", "aclose", "dispose", "flush">>,
     <<"aclose", "dispose", "flush">>,
     <<"dispose", "flush">>,
     <<"dispose">>}
AfterDisposal == {<<>>, <<"flush">>}
StopInv ==
    Stopping => /\ rest["lifespan"] \in BeforeDisposal \cup AfterDisposal
                /\ process # "job" /\ ~Joining => job = "off"
                /\ rest["lifespan"] \in AfterDisposal => idle = <<>>

LEMMA TasksAre ==
    /\ "lifespan" \in Tasks /\ "background" \in Tasks /\ "lifespan" # "background"
    /\ \A r \in Requests : r \in Tasks /\ r # "lifespan" /\ r # "background"
BY SessionsAssumption DEF Tasks

LEMMA RestSet ==
    ASSUME NEW t \in Tasks, NEW flow, rest = [u \in Tasks |-> rest[u]],
           rest' = [rest EXCEPT ![t] = flow]
    PROVE  /\ rest' = [u \in Tasks |-> rest'[u]]
           /\ rest'[t] = flow /\ \A u \in Tasks : u # t => rest'[u] = rest[u]
OBVIOUS

(* A step in which no task becomes busy. *)
LEMMA ControlCalm ==
    ASSUME ControlInv, rest' = [t \in Tasks |-> rest'[t]],
           \A t \in Tasks : Busy(t)' => Busy(t), UNCHANGED <<process, phase, job>>
    PROVE  ControlInv'
BY TasksAre DEF ControlInv, Stopping, Busy

LEMMA ControlKept == ASSUME ControlInv, UNCHANGED <<rest, process, phase, job>> PROVE ControlInv'
BY DEF ControlInv, Stopping, Busy

(* A task that is busy goes on, or leaves its scopes. *)
LEMMA GoesOn ==
    ASSUME ControlInv, NEW t \in Tasks, Busy(t), NEW flow, rest' = [rest EXCEPT ![t] = flow],
           UNCHANGED <<process, phase, job>>
    PROVE  ControlInv'
<1>1. rest' = [u \in Tasks |-> rest'[u]] /\ \A u \in Tasks : u # t => rest'[u] = rest[u]
  BY RestSet DEF ControlInv
<1> QED
  BY <1>1, ControlCalm DEF Busy

LEMMA ControlWorks == ASSUME ControlInv, NEW t \in Tasks, Works(t) PROVE ControlInv'
<1>1. CASE Open(t) \/ Run(t) \/ Close(t) \/ Answered(t)
  BY <1>1, GoesOn DEF Open, Run, Close, Answered, Proceeds, Alone, Next1
<1>2. CASE Take(t)
  BY <1>2, ControlKept DEF Take, Alone
<1>3. CASE Choose(t)
  BY <1>3, GoesOn DEF Choose, Alone, Next1
<1>4. CASE Fail(t)
  BY <1>4, GoesOn DEF Fail, Ends, Alone, Next1
<1> QED
  BY <1>1, <1>2, <1>3, <1>4 DEF Works

LEMMA ControlStep == ASSUME ControlInv, [Next]_vars PROVE ControlInv'
<1> USE TasksAre
<1>1. CASE \E t \in Tasks : Works(t)
  BY <1>1, ControlWorks
<1>2. ASSUME NEW r \in Requests, Arrive(r) PROVE ControlInv'
  <2>1. PICK flow : rest' = [rest EXCEPT ![r] = flow]
    BY <1>2 DEF Arrive
  <2>2. rest' = [u \in Tasks |-> rest'[u]] /\ \A u \in Tasks : u # r => rest'[u] = rest[u]
    BY <2>1, RestSet DEF ControlInv
  <2> QED
    BY <1>2, <2>2 DEF Arrive, Alone, ControlInv, Stopping, Busy
<1>3. CASE ChangeRole \/ Age \/ Drop
  BY <1>3, ControlKept DEF ChangeRole, Age, Drop, Alone
<1>4. CASE Clock
  BY <1>4, ControlKept DEF Clock, Tick, SetBack, svars
<1>5. CASE Wakes
  <2>1. PICK flow : rest' = [rest EXCEPT !["background"] = flow]
    BY <1>5 DEF Wakes
  <2>2. /\ rest' = [u \in Tasks |-> rest'[u]]
        /\ \A u \in Tasks : u # "background" => rest'[u] = rest[u]
    BY <2>1, RestSet DEF ControlInv
  <2>3. job = "asleep" /\ job' = "running" /\ process # "job" /\ UNCHANGED <<process, phase>>
    BY <1>5 DEF Wakes, WakeJob, Unscheduled
  <2> QED
    BY <2>2, <2>3 DEF ControlInv, Stopping, Busy
<1>6. CASE Rounds
  <2>1. UNCHANGED <<rest, process, phase>> /\ ~Busy("background") /\ job = "running"
    BY <1>6 DEF Rounds, svars
  <2> QED
    BY <2>1 DEF ControlInv, Stopping, Busy
<1>7. CASE JobDone
  <2>1. PICK flow : rest' = [rest EXCEPT !["lifespan"] = flow]
    BY <1>7 DEF JobDone
  <2>2. /\ rest' = [u \in Tasks |-> rest'[u]]
        /\ \A u \in Tasks : u # "lifespan" => rest'[u] = rest[u]
    BY <2>1, RestSet DEF ControlInv
  <2> QED
    BY <1>7, <2>2 DEF JobDone, ControlInv, Stopping, Busy, schedule
<1>8. CASE Serve
  <2>1. /\ UNCHANGED <<rest, process>> /\ ~Busy("lifespan") /\ phase = "starting"
        /\ phase' = "serving"
    BY <1>8 DEF Serve
  <2> QED
    BY <2>1 DEF ControlInv, Stopping, Busy
<1>9. CASE Refuse
  <2>1. /\ rest' = [rest EXCEPT !["lifespan"] = <<>>] /\ phase = "starting" /\ phase' = "refused"
        /\ UNCHANGED <<process, job>>
    BY <1>9 DEF Refuse, Ends, schedule
  <2>2. /\ rest' = [u \in Tasks |-> rest'[u]]
        /\ \A u \in Tasks : u # "lifespan" => rest'[u] = rest[u]
    BY <2>1, RestSet DEF ControlInv
  <2> QED
    BY <2>1, <2>2 DEF ControlInv, Stopping, Busy
<1>10. CASE Verified \/ Joined \/ Dispose \/ Flush
  BY <1>10, GoesOn DEF Verified, Joined, Joining, Dispose, Flush, Proceeds, Alone, Next1
<1>11. CASE Signal
  BY <1>11 DEF Signal, ControlInv, Stopping, Busy, schedule
<1>12. CASE Drained
  <2>1. PICK flow : rest' = [rest EXCEPT !["lifespan"] = flow]
    BY <1>12 DEF Drained
  <2>2. /\ rest' = [u \in Tasks |-> rest'[u]]
        /\ \A u \in Tasks : u # "lifespan" => rest'[u] = rest[u]
    BY <2>1, RestSet DEF ControlInv
  <2> QED
    BY <1>12, <2>2 DEF Drained, ControlInv, Stopping, Busy, schedule
<1>13. CASE Leaves
  BY <1>13 DEF Leaves, Unscheduled, ControlInv, Stopping, Busy, svars
<1>14. CASE Cancel
  <2>1. /\ rest' = [rest EXCEPT !["background"] = <<>>] /\ job' = "off"
        /\ UNCHANGED <<process, phase>>
    BY <1>14 DEF Cancel, Ends, StopJob
  <2>2. /\ rest' = [u \in Tasks |-> rest'[u]] /\ rest'["background"] = <<>>
        /\ \A u \in Tasks : u # "background" => rest'[u] = rest[u]
    BY <2>1, RestSet DEF ControlInv
  <2> QED
    BY <2>1, <2>2 DEF ControlInv, Stopping, Busy
<1>15. CASE Exit
  BY <1>15 DEF Exit, ControlInv, Stopping, Busy, schedule
<1>16. CASE UNCHANGED vars
  BY <1>16, ControlKept DEF vars
<1> QED
  BY <1>1, <1>2, <1>3, <1>4, <1>5, <1>6, <1>7, <1>8, <1>9, <1>10, <1>11, <1>12, <1>13, <1>14,
     <1>15, <1>16 DEF Next, Stops1

LEMMA ControlInit == Init => ControlInv
<1> SUFFICES ASSUME Init PROVE ControlInv
  OBVIOUS
<1> USE TasksAre
<1>1. PICK start \in Starts(process), work \in Jobs :
          rest = [t \in Tasks |-> CASE t = "lifespan" -> From(start, 1)
                                    [] t = "background" /\ process = "job" -> From(work, 1)
                                    [] OTHER -> <<>>]
  BY DEF Init
<1>2. process = "job" => rest["lifespan"] = <<>>
  <2> HAVE process = "job"
  <2>1. start = <<>>
    BY DEF Starts
  <2>2. From(<<>>, 1) = <<>>
    BY DEF From
  <2> QED
    BY <1>1, <2>1, <2>2
<1>3. /\ \A r \in Requests : rest[r] = <<>>
      /\ process # "job" => rest["background"] = <<>>
      /\ rest = [t \in Tasks |-> rest[t]]
  BY <1>1
<1>4. process \in {"web", "ai", "job"} /\ job = "off"
      /\ phase = IF process = "job" THEN "serving" ELSE "starting"
  BY SessionsAssumption DEF Init, ScheduleInit
<1> QED
  BY <1>2, <1>3, <1>4 DEF ControlInv, Stopping, Busy

-----------------------------------------------------------------------------
(* The scopes of a task, one step after another. *)
FlowOf(t) == Flow(rest[t]) /\ Len(held[t]) = Scopes(t)

LEMMA FlowFits ==
    ASSUME Held, NEW t \in Tasks, FlowOf(t)
    PROVE  /\ rest[t] \in Seq(Steps) /\ held[t] \in Seq({"none", "good"})
           /\ rest[t] # <<>> => Head(rest[t]) = rest[t][1]
           /\ rest[t] = <<>> \/ rest[t][1] \notin Inside => held[t] = <<>>
           /\ rest[t] # <<>> /\ rest[t][1] \in Inside =>
                  Len(held[t]) = 1 /\ held[t] = <<held[t][1]>> /\ Front(held[t]) = <<>>
<1>1. rest[t] \in Seq(Steps) /\ held[t] \in Seq({"none", "good"})
  BY DEF Held, FlowOf, Flow
<1>2. rest[t] = <<>> \/ rest[t][1] \notin Inside => Len(held[t]) = 0
  BY DEF FlowOf, Scopes
<1>3. rest[t] # <<>> /\ rest[t][1] \in Inside => Len(held[t]) = 1
  BY DEF FlowOf, Scopes
<1>4. Len(held[t]) = 1 => held[t] = <<held[t][1]>> /\ Front(held[t]) = <<>>
  BY <1>1 DEF Front
<1>5. Len(held[t]) = 0 => held[t] = <<>>
  BY <1>1
<1> QED
  BY <1>1, <1>2, <1>3, <1>4, <1>5

LEMMA NothingFits == ASSUME NEW t, rest[t] = <<>>, held[t] = <<>> PROVE FlowOf(t)
BY NothingPlain DEF FlowOf, Scopes, Plain, Whole

(* A task goes on in its flow: its scopes are those that the next step      *)
(* stands in.                                                               *)
LEMMA ProceedsFits ==
    ASSUME NEW t \in Tasks, FlowOf(t), rest[t] # <<>>, rest'[t] = From(rest[t], 2),
           Len(held'[t]) = IF rest[t][1] \in Enters THEN 1 ELSE 0
    PROVE  FlowOf(t)'
<1> DEFINE s == rest[t]
<1>1. Flow(s) /\ s # <<>> /\ s \in Seq(Steps) /\ Len(s) \in Nat /\ Len(s) >= 1
  BY DEF FlowOf, Flow
<1>2. PICK m \in 2..(Len(s) + 1) :
          /\ From(s, 2) = Rest(s, m)
          /\ s[1] \in Enters <=> m <= Len(s) /\ s[m] \in Inside
  BY <1>1, ProceedsFlow
<1>3. m \in 1..(Len(s) + 1)
  BY <1>1
<1>4. Flow(Rest(s, m))
  BY <1>1, <1>3, RestFlow
<1>5. /\ Rest(s, m) # <<>> <=> m <= Len(s)
      /\ m <= Len(s) => Rest(s, m)[1] = s[m]
  BY <1>1, <1>3, RestHead
<1>6. rest'[t] = Rest(s, m)
  BY <1>2
<1> HIDE DEF s
<1>7. rest'[t] # <<>> /\ rest'[t][1] \in Inside <=> s[1] \in Enters
  BY <1>2, <1>5, <1>6
<1> QED
  BY <1>4, <1>6, <1>7 DEF FlowOf, Scopes, s

(* What a task begins has no scope open. *)
LEMMA BeginsFits ==
    ASSUME NEW t \in Tasks, Flow(rest'[t]), rest'[t] # <<>> => rest'[t][1] \notin Inside,
           held'[t] = <<>>
    PROVE  FlowOf(t)'
BY DEF FlowOf, Scopes

(* Other tasks are where they were. *)
LEMMA OthersFit ==
    ASSUME FlowInv, Held, ControlInv, NEW t \in Tasks, FlowOf(t)',
           NEW flow, rest' = [rest EXCEPT ![t] = flow],
           \/ UNCHANGED held
           \/ \E s : held' = [held EXCEPT ![t] = s]
    PROVE  FlowInv'
<1> SUFFICES ASSUME NEW u \in Tasks, u # t PROVE FlowOf(u)'
  BY DEF FlowInv, FlowOf
<1>1. rest'[u] = rest[u]
  BY RestSet DEF ControlInv
<1>2. held'[u] = held[u]
  BY DEF Held
<1> QED
  BY <1>1, <1>2 DEF FlowInv, FlowOf, Scopes

(* A step outside every scope. *)
LEMMA PassesFits ==
    ASSUME FlowInv, Held, ControlInv, NEW t \in Tasks, Next1(t, Outside),
           rest' = [rest EXCEPT ![t] = From(@, 2)], UNCHANGED held
    PROVE  FlowInv'
<1>1. FlowOf(t) /\ rest[t] # <<>>
  BY DEF FlowInv, FlowOf, Next1, Busy
<1>2. rest[t][1] \in Outside
  BY <1>1, FlowFits DEF Next1
<1>3. rest[t][1] \notin Inside /\ rest[t][1] \notin Enters
  BY <1>2 DEF Outside, Inside, Enters, Statements, Permissions
<1>4. held[t] = <<>>
  BY <1>1, <1>3, FlowFits
<1>5. rest'[t] = From(rest[t], 2)
  BY RestSet DEF ControlInv
<1>6. Len(held'[t]) = 0
  BY <1>4
<1>7. FlowOf(t)'
  BY <1>1, <1>3, <1>5, <1>6, ProceedsFits
<1> QED
  BY <1>7, OthersFit

LEMMA OpenFits ==
    ASSUME FlowInv, Held, ControlInv, NEW t \in Tasks, Open(t) PROVE FlowInv'
<1>1. FlowOf(t) /\ rest[t] # <<>>
  BY DEF FlowInv, FlowOf, Open, Next1, Busy
<1>2. rest[t][1] = "open"
  BY <1>1, FlowFits DEF Open, Next1
<1>3. rest[t][1] \notin Inside /\ rest[t][1] \in Enters
  BY <1>2 DEF Inside, Enters, Statements, Permissions
<1>4. held[t] = <<>> /\ held' = [held EXCEPT ![t] = Append(held[t], "none")]
  BY <1>1, <1>3, FlowFits DEF Open
<1>5. held'[t] = <<"none">>
  BY <1>4 DEF Held
<1>6. rest' = [rest EXCEPT ![t] = From(rest[t], 2)] /\ rest'[t] = From(rest[t], 2)
  BY RestSet DEF ControlInv, Open, Proceeds
<1>7. FlowOf(t)'
  BY <1>1, <1>3, <1>5, <1>6, ProceedsFits
<1> QED
  BY <1>4, <1>6, <1>7, OthersFit

LEMMA TakeFits ==
    ASSUME FlowInv, Held, ControlInv, NEW t \in Tasks, Take(t) PROVE FlowInv'
<1>1. FlowOf(t) /\ rest[t] # <<>>
  BY DEF FlowInv, FlowOf, Take, Wants, Next1, Busy
<1>2. rest[t][1] \in Inside
  BY <1>1, FlowFits DEF Take, Wants, Next1, Inside
<1>3. Front(held[t]) = <<>> /\ Len(held[t]) = 1
  BY <1>1, <1>2, FlowFits
<1>4. UNCHANGED rest
  BY DEF Take
<1>5. PICK c : held' = [held EXCEPT ![t] = Front(@) \o <<c>>]
  BY DEF Take
<1>6. held' = [held EXCEPT ![t] = <<c>>]
  BY <1>3, <1>5
<1>7. Len(held'[t]) = 1 /\ \A u \in Tasks : u # t => held'[u] = held[u]
  BY <1>6 DEF Held
<1> QED
  BY <1>3, <1>4, <1>7 DEF FlowInv, FlowOf, Scopes

LEMMA RunFits ==
    ASSUME FlowInv, Held, ControlInv, NEW t \in Tasks, Run(t) PROVE FlowInv'
<1>1. FlowOf(t) /\ rest[t] # <<>>
  BY DEF FlowInv, FlowOf, Run, Next1, Busy
<1>2. rest[t][1] \in Inside /\ rest[t][1] \in Enters
  BY <1>1, FlowFits DEF Run, Next1, Inside, Enters
<1>3. Len(held[t]) = 1 /\ UNCHANGED held
  BY <1>1, <1>2, FlowFits DEF Run
<1>4. rest' = [rest EXCEPT ![t] = From(rest[t], 2)] /\ rest'[t] = From(rest[t], 2)
  BY RestSet DEF ControlInv, Run, Proceeds
<1>5. FlowOf(t)'
  BY <1>1, <1>2, <1>3, <1>4, ProceedsFits
<1> QED
  BY <1>3, <1>4, <1>5, OthersFit

LEMMA CloseFits ==
    ASSUME FlowInv, Held, ControlInv, NEW t \in Tasks, Close(t) PROVE FlowInv'
<1>1. FlowOf(t) /\ rest[t] # <<>>
  BY DEF FlowInv, FlowOf, Close, Next1, Busy
<1>2. rest[t][1] = "close"
  BY <1>1, FlowFits DEF Close, Next1
<1>3. rest[t][1] \in Inside /\ rest[t][1] \notin Enters
  BY <1>2 DEF Inside, Enters, Statements, Permissions
<1>4. held' = [held EXCEPT ![t] = <<>>]
  BY <1>1, <1>3, FlowFits DEF Close
<1>5. Len(held'[t]) = 0
  BY <1>4 DEF Held
<1>6. rest' = [rest EXCEPT ![t] = From(rest[t], 2)] /\ rest'[t] = From(rest[t], 2)
  BY RestSet DEF ControlInv, Close, Proceeds
<1>7. FlowOf(t)'
  BY <1>1, <1>3, <1>5, <1>6, ProceedsFits
<1> QED
  BY <1>4, <1>6, <1>7, OthersFit

LEMMA ChooseFits ==
    ASSUME FlowInv, Held, ControlInv, NEW t \in Tasks, Choose(t) PROVE FlowInv'
<1>1. FlowOf(t) /\ rest[t] # <<>> /\ rest[t][1] \in DOMAIN Ways
  BY FlowFits DEF FlowInv, FlowOf, Choose, Next1, Busy
<1>2. rest[t][1] \notin Inside
  BY <1>1 DEF Ways, Inside, Statements, Permissions
<1>3. held[t] = <<>> /\ Head(rest[t]) = rest[t][1] /\ UNCHANGED held
  BY <1>1, <1>2, FlowFits DEF Choose
<1>4. PICK f \in Ways[rest[t][1]] : rest' = [rest EXCEPT ![t] = From(f \o Tail(rest[t]), 1)]
  BY <1>3 DEF Choose
<1>5. rest'[t] = From(f \o Tail(rest[t]), 1)
  BY <1>4, RestSet DEF ControlInv
<1>6. Plain(f)
  BY <1>1, WaysPlain
<1>7. Flow(rest'[t]) /\ Begins(rest'[t])
  BY <1>1, <1>5, <1>6, ChooseFlow DEF FlowOf
<1>8. FlowOf(t)'
  BY <1>3, <1>7, BeginsFits DEF Begins
<1> QED
  BY <1>3, <1>4, <1>8, OthersFit

(* A task leaves its scopes and goes on outside of them. *)
LEMMA EndsFits ==
    ASSUME FlowInv, Held, ControlInv, NEW t \in Tasks, NEW flow, Ends(t, flow),
           Flow(flow), Begins(flow)
    PROVE  FlowInv'
<1>1. rest' = [rest EXCEPT ![t] = flow] /\ rest'[t] = flow
  BY RestSet DEF ControlInv, Ends
<1>2. held' = [held EXCEPT ![t] = <<>>] /\ held'[t] = <<>>
  BY DEF Ends, Held
<1>3. FlowOf(t)'
  BY <1>1, <1>2, BeginsFits DEF Begins
<1> QED
  BY <1>1, <1>2, <1>3, OthersFit

LEMMA FailFits ==
    ASSUME FlowInv, Held, ControlInv, NEW t \in Tasks, Fail(t) PROVE FlowInv'
<1>1. Flow(rest[t])
  BY DEF FlowInv
<1>2. Flow(Caught(rest[t])) /\ Begins(Caught(rest[t]))
  BY <1>1, CaughtFlow
<1>3. Flow(<<>>) /\ Begins(<<>>)
  BY NothingPlain DEF Plain, Whole, Begins
<1> QED
  BY <1>2, <1>3, EndsFits DEF Fail

(* A task that was not busy begins a flow. *)
LEMMA StartsFits ==
    ASSUME FlowInv, Held, ControlInv, NEW t \in Tasks, ~Busy(t), NEW flow, Whole(flow),
           rest' = [rest EXCEPT ![t] = flow], UNCHANGED held
    PROVE  FlowInv'
<1>1. held[t] = <<>>
  BY FlowFits DEF FlowInv, FlowOf, Busy
<1>2. rest'[t] = flow
  BY RestSet DEF ControlInv
<1>3. FlowOf(t)'
  BY <1>1, <1>2, BeginsFits DEF Whole
<1> QED
  BY <1>3, OthersFit

LEMMA FlowKept == ASSUME FlowInv, UNCHANGED <<rest, held>> PROVE FlowInv'
BY DEF FlowInv, Scopes

LEMMA FlowWorks ==
    ASSUME FlowInv, Held, ControlInv, NEW t \in Tasks, Works(t) PROVE FlowInv'
<1>1. CASE Answered(t)
  <2>1. Next1(t, Outside)
    BY <1>1 DEF Answered, Next1, Calls, Outside
  <2> QED
    BY <1>1, <2>1, PassesFits DEF Answered, Proceeds
<1> QED
  BY <1>1, OpenFits, TakeFits, RunFits, CloseFits, ChooseFits, FailFits DEF Works

LEMMA FlowStep == ASSUME FlowInv, Held, ControlInv, [Next]_vars PROVE FlowInv'
<1> USE TasksAre
<1>1. CASE \E t \in Tasks : Works(t)
  BY <1>1, FlowWorks
<1>2. ASSUME NEW r \in Requests, Arrive(r) PROVE FlowInv'
  <2>1. PICK flow \in FlowsOf(IF process = "web" THEN WebEndpoints ELSE AiEndpoints) :
            rest' = [rest EXCEPT ![r] = flow]
    BY <1>2 DEF Arrive
  <2>2. Whole(flow)
    BY <2>1, AiFlows, WebFlows
  <2> QED
    BY <1>2, <2>1, <2>2, StartsFits DEF Arrive
<1>3. CASE ChangeRole \/ Age \/ Drop
  BY <1>3, FlowKept DEF ChangeRole, Age, Drop
<1>4. CASE Clock \/ Rounds \/ Leaves
  BY <1>4, FlowKept DEF Clock, Rounds, Leaves, svars
<1>5. CASE Wakes
  <2>1. PICK flow \in {Keepalive, Iteration} : rest' = [rest EXCEPT !["background"] = flow]
    BY <1>5 DEF Wakes
  <2>2. job = "asleep" /\ process # "job" /\ UNCHANGED held
    BY <1>5 DEF Wakes, WakeJob, Unscheduled
  <2>3. ~Busy("background") /\ Whole(flow)
    BY <2>2, BackgroundPlain DEF ControlInv, Plain
  <2> QED
    BY <2>1, <2>2, <2>3, StartsFits
<1>6. CASE JobDone \/ Drained
  <2>1. PICK running \in BOOLEAN : rest' = [rest EXCEPT !["lifespan"] = Stop(process, running)]
    BY <1>6 DEF JobDone, Drained
  <2>2. ~Busy("lifespan") /\ UNCHANGED held
    BY <1>6 DEF JobDone, Drained, ControlInv
  <2>3. Whole(Stop(process, running))
    BY BackgroundPlain DEF Plain
  <2> QED
    BY <2>1, <2>2, <2>3, StartsFits
<1>7. CASE Serve \/ Signal \/ Exit
  BY <1>7, FlowKept DEF Serve, Signal, Exit
<1>8. CASE Refuse \/ Cancel
  <2>1. Flow(<<>>) /\ Begins(<<>>)
    BY NothingPlain DEF Plain, Whole, Begins
  <2> QED
    BY <1>8, <2>1, EndsFits DEF Refuse, Cancel
<1>9. CASE Verified \/ Joined \/ Dispose \/ Flush
  <2>1. Next1("lifespan", Outside)
    BY <1>9 DEF Verified, Joined, Joining, Dispose, Flush, Next1, Outside
  <2> QED
    BY <1>9, <2>1, PassesFits DEF Verified, Joined, Dispose, Flush, Proceeds
<1>10. CASE UNCHANGED vars
  BY <1>10, FlowKept DEF vars
<1> QED
  BY <1>1, <1>2, <1>3, <1>4, <1>5, <1>6, <1>7, <1>8, <1>9, <1>10 DEF Next, Stops1

LEMMA FlowInit == Init => FlowInv
<1> SUFFICES ASSUME Init, NEW t \in Tasks PROVE FlowOf(t)
  BY DEF FlowInv, FlowOf
<1>1. PICK start \in Starts(process), work \in Jobs :
          rest = [u \in Tasks |-> CASE u = "lifespan" -> From(start, 1)
                                    [] u = "background" /\ process = "job" -> From(work, 1)
                                    [] OTHER -> <<>>]
  BY DEF Init
<1>2. Flow(From(start, 1)) /\ Begins(From(start, 1)) /\ Flow(From(work, 1)) /\ Begins(From(work, 1))
  BY BackgroundPlain, FirstFlow DEF Plain
<1>3. Flow(<<>>) /\ Begins(<<>>)
  BY NothingPlain DEF Plain, Whole, Begins
<1>4. Flow(rest[t]) /\ Begins(rest[t])
  <2>1. CASE t = "lifespan"
    BY <1>1, <1>2, <2>1
  <2>2. CASE t = "background" /\ process = "job"
    BY <1>1, <1>2, <2>2
  <2>3. CASE t # "lifespan" /\ ~(t = "background" /\ process = "job")
    <3>1. rest[t] = <<>>
      BY <1>1, <2>3
    <3> QED
      BY <1>3, <3>1
  <2> QED
    BY <2>1, <2>2, <2>3
<1>5. held[t] = <<>>
  BY DEF Init
<1> QED
  BY <1>4, <1>5 DEF FlowOf, Scopes, Begins

(* No task waits for a provider, for the other service or for a connection  *)
(* while it holds one, whatever requests, background loops and failures     *)
(* there are (open_scope in core/container.py).                             *)
THEOREM WaitersHoldNothing == Spec => []NoneHeldWhileWaiting
<1>1. FlowInv /\ Held => NoneHeldWhileWaiting
  <2> SUFFICES ASSUME FlowInv, Held, NEW t \in Tasks, Waits(t)
               PROVE  \A k \in DOMAIN held[t] : held[t][k] = "none"
    BY DEF NoneHeldWhileWaiting
  <2>1. FlowOf(t) /\ rest[t] # <<>>
    BY DEF FlowInv, FlowOf, Waits, Wants, Next1, Busy
  <2>2. CASE Next1(t, Calls \cup {"join"})
    <3>1. rest[t][1] \in {"ask", "model", "join"}
      BY <2>1, <2>2, FlowFits DEF Next1, Calls
    <3>2. rest[t][1] \notin Inside
      BY <3>1 DEF Inside, Statements, Permissions
    <3>3. held[t] = <<>>
      BY <2>1, <3>2, FlowFits
    <3> QED
      BY <3>3
  <2>3. CASE Wants(t)
    <3>1. rest[t][1] \in Inside
      BY <2>1, <2>3, FlowFits DEF Wants, Next1, Inside
    <3>2. Len(held[t]) = 1 /\ held[t] = <<held[t][1]>>
      BY <2>1, <3>1, FlowFits
    <3>3. Last(held[t]) = "none"
      BY <2>3 DEF Wants
    <3>4. held[t][1] = "none"
      BY <3>2, <3>3 DEF Last
    <3> QED
      BY <3>2, <3>4
  <2> QED
    BY <2>2, <2>3 DEF Waits
<1>2. PoolInv => Held
  BY DEF PoolInv
<1> QED
  BY <1>1, <1>2, PoolInit, PoolStep, ControlInit, ControlStep, FlowInit, FlowStep, PTL DEF Spec

-----------------------------------------------------------------------------
(* The account of an admin's request. *)
RoleOf(r) == /\ Next1(r, {"act"}) => since[r]
             /\ role = "admin" /\ Contains(rest[r], "act") => since[r]
Act(r) == rest[r] # <<>> /\ rest[r][1] = "act"

LEMMA ActIs == ASSUME NEW r, rest[r] \in Seq(Steps)
               PROVE  /\ Next1(r, {"act"}) <=> Act(r)
                      /\ Act(r) => Contains(rest[r], "act")
BY DEF Next1, Busy, Act, Contains

LEMMA RoleParts ==
    /\ RoleInv <=> since \in [Requests -> BOOLEAN] /\ \A r \in Requests : RoleOf(r)
    /\ RoleInv' <=> since' \in [Requests -> BOOLEAN] /\ \A r \in Requests : RoleOf(r)'
BY DEF RoleInv, RoleHeld, RoleOf

(* Only requests are told of an admin: other tasks may go on. *)
LEMMA RoleKept ==
    ASSUME RoleInv, \A r \in Requests : rest'[r] = rest[r], UNCHANGED <<role, since>>
    PROVE  RoleInv'
BY DEF RoleInv, RoleHeld, Next1, Busy

(* A request goes on: what it has yet to do it had to do before, and an     *)
(* admin's statement comes next only when the guard let it by.              *)
LEMMA RoleGoesOn ==
    ASSUME RoleInv, ControlInv, FlowInv, NEW t \in Tasks, NEW flow,
           rest' = [rest EXCEPT ![t] = flow], Forgets(t), UNCHANGED role, Flow(flow),
           Contains(flow, "act") => Contains(rest[t], "act"),
           flow # <<>> /\ flow[1] = "act" => role = "admin"
    PROVE  RoleInv'
<1>1. rest'[t] = flow /\ \A u \in Tasks : u # t => rest'[u] = rest[u]
  BY RestSet DEF ControlInv
<1>2. since \in [Requests -> BOOLEAN] /\ \A r \in Requests : RoleOf(r)
  BY RoleParts
<1>3. /\ since' \in [Requests -> BOOLEAN]
      /\ \A r \in Requests : r # t \/ flow # <<>> => since'[r] = since[r]
  BY <1>1, <1>2 DEF Forgets
<1>4. ASSUME NEW r \in Requests, r # t PROVE RoleOf(r)'
  <2>1. rest'[r] = rest[r] /\ since'[r] = since[r]
    BY <1>1, <1>3, <1>4, TasksAre
  <2> QED
    BY <1>2, <2>1 DEF RoleOf, Next1, Busy
<1>5. ASSUME t \in Requests PROVE RoleOf(t)'
  <2>1. CASE flow = <<>>
    BY <1>1, <2>1 DEF RoleOf, Next1, Busy, Contains
  <2>2. CASE flow # <<>>
    <3>1. since'[t] = since[t] /\ RoleOf(t)
      BY <1>2, <1>3, <1>5, <2>2
    <3>2. role = "admin" /\ Contains(flow, "act") => since[t]
      BY <3>1 DEF RoleOf
    <3>3. Next1(t, {"act"})' => flow # <<>> /\ flow[1] = "act" /\ Contains(flow, "act")
      BY <1>1 DEF Next1, Busy, Flow, Contains
    <3> QED
      BY <1>1, <3>1, <3>2, <3>3 DEF RoleOf
  <2> QED
    BY <2>1, <2>2
<1> QED
  BY <1>2, <1>3, <1>4, <1>5, RoleParts

LEMMA RoleProceeds ==
    ASSUME RoleInv, ControlInv, FlowInv, NEW t \in Tasks, Busy(t), Proceeds(t), UNCHANGED role,
           rest[t][1] \in Permissions => role = "admin"
    PROVE  RoleInv'
<1> DEFINE s == rest[t]
<1>1. Flow(s) /\ s # <<>> /\ Len(s) \in Nat /\ Len(s) >= 1
  BY DEF FlowInv, Flow, Busy
<1>2. PICK m \in 2..(Len(s) + 1) :
          /\ From(s, 2) = Rest(s, m)
          /\ m <= Len(s) /\ s[m] = "act" => s[1] \in Permissions
  BY <1>1, ProceedsFlow
<1>3. m \in 1..(Len(s) + 1) /\ s \in Seq(Steps)
  BY <1>1 DEF Flow
<1>4. Flow(Rest(s, m)) /\ (Contains(Rest(s, m), "act") => Contains(s, "act"))
  BY <1>1, <1>3, RestFlow
<1>5. Rest(s, m) # <<>> => m <= Len(s) /\ Rest(s, m)[1] = s[m]
  BY <1>3, RestHead
<1>6. rest' = [rest EXCEPT ![t] = Rest(s, m)] /\ Forgets(t)
  BY <1>2 DEF Proceeds
<1>7. Rest(s, m) # <<>> /\ Rest(s, m)[1] = "act" => role = "admin"
  BY <1>2, <1>5
<1> HIDE DEF s
<1> QED
  BY <1>4, <1>6, <1>7, RoleGoesOn DEF s

(* Only an admin's account is granted what a permission guards. *)
LEMMA RoleRun ==
    ASSUME RoleInv, ControlInv, FlowInv, Held, NEW t \in Tasks, Run(t), role \in Roles
    PROVE  RoleInv'
<1>1. Busy(t) /\ Head(rest[t]) = rest[t][1]
  BY FlowFits DEF FlowInv, FlowOf, Run, Next1, Busy
<1>2. role \in {"customer", "admin"}
  BY DEF Roles, RolePermissions
<1>3. rest[t][1] \in Permissions => role = "admin"
  BY <1>1, <1>2 DEF Run, Grants, RolePermissions
<1> QED
  BY <1>1, <1>3, RoleProceeds DEF Run, Alone

LEMMA RolePasses ==
    ASSUME RoleInv, ControlInv, FlowInv, Held, NEW t \in Tasks,
           Next1(t, Calls \cup {"open", "close", "verify", "join", "dispose", "aclose", "flush"}),
           Proceeds(t), UNCHANGED role
    PROVE  RoleInv'
<1>1. Busy(t) /\ Head(rest[t]) = rest[t][1]
  BY FlowFits DEF FlowInv, FlowOf, Next1, Busy
<1>2. rest[t][1] \notin Permissions
  BY <1>1 DEF Next1, Calls, Permissions
<1> QED
  BY <1>1, <1>2, RoleProceeds

LEMMA RoleEnds ==
    ASSUME RoleInv, ControlInv, FlowInv, NEW t \in Tasks, Fail(t)
    PROVE  RoleInv'
<1>1. Flow(rest[t])
  BY DEF FlowInv
<1>2. /\ Flow(Caught(rest[t])) /\ Begins(Caught(rest[t]))
      /\ Contains(Caught(rest[t]), "act") => Contains(rest[t], "act")
  BY <1>1, CaughtFlow
<1>3. Flow(<<>>) /\ ~Contains(<<>>, "act")
  BY NothingPlain DEF Plain, Whole
<1>4. PICK flow \in {Caught(rest[t]), <<>>} : rest' = [rest EXCEPT ![t] = flow]
  BY DEF Fail, Ends
<1>5. Forgets(t) /\ UNCHANGED role
  BY DEF Fail, Alone
<1> QED
  BY <1>2, <1>3, <1>4, <1>5, RoleGoesOn DEF Begins

LEMMA RoleChoose ==
    ASSUME RoleInv, ControlInv, FlowInv, Held, NEW t \in Tasks, Choose(t)
    PROVE  RoleInv'
<1>1. Flow(rest[t]) /\ rest[t] # <<>> /\ rest[t][1] \in DOMAIN Ways /\ Head(rest[t]) = rest[t][1]
  BY FlowFits DEF FlowInv, FlowOf, Choose, Next1, Busy
<1>2. PICK f \in Ways[rest[t][1]] : rest' = [rest EXCEPT ![t] = From(f \o Tail(rest[t]), 1)]
  BY <1>1 DEF Choose
<1>3. Plain(f)
  BY <1>1, WaysPlain
<1> DEFINE z == From(f \o Tail(rest[t]), 1)
<1>4. Flow(z) /\ Begins(z) /\ (Contains(z, "act") => Contains(rest[t], "act"))
  BY <1>1, <1>3, ChooseFlow
<1>5. Forgets(t) /\ UNCHANGED role
  BY DEF Choose, Alone
<1> HIDE DEF z
<1>6. rest' = [rest EXCEPT ![t] = z]
  BY <1>2 DEF z
<1> QED
  BY <1>4, <1>5, <1>6, RoleGoesOn DEF Begins

RoleType == role \in Roles

LEMMA RoleWorks ==
    ASSUME RoleInv, ControlInv, FlowInv, Held, RoleType, NEW t \in Tasks, Works(t)
    PROVE  RoleInv' /\ RoleType'
<1>1. CASE Open(t) \/ Close(t) \/ Answered(t)
  BY <1>1, RolePasses DEF Open, Close, Answered, Alone, RoleType, Next1
<1>2. CASE Take(t)
  BY <1>2, RoleKept DEF Take, Alone, RoleType
<1>3. CASE Run(t)
  BY <1>3, RoleRun DEF Run, Alone, RoleType
<1>4. CASE Choose(t)
  BY <1>4, RoleChoose DEF Choose, Alone, RoleType
<1>5. CASE Fail(t)
  BY <1>5, RoleEnds DEF Fail, Alone, RoleType
<1> QED
  BY <1>1, <1>2, <1>3, <1>4, <1>5 DEF Works

(* A request begins outside of what its guard lets by. *)
LEMMA RoleArrives ==
    ASSUME RoleInv, ControlInv, NEW r \in Requests, Arrive(r)
    PROVE  RoleInv'
<1>1. PICK flow \in FlowsOf(IF process = "web" THEN WebEndpoints ELSE AiEndpoints) :
          /\ rest' = [rest EXCEPT ![r] = flow]
          /\ since' = [since EXCEPT ![r] = role = "admin" /\ Contains(flow, "act")]
  BY DEF Arrive
<1>2. Whole(flow)
  BY AiFlows, WebFlows
<1>3. rest'[r] = flow /\ \A u \in Tasks : u # r => rest'[u] = rest[u]
  BY <1>1, RestSet, TasksAre DEF ControlInv
<1>4. since \in [Requests -> BOOLEAN] /\ \A q \in Requests : RoleOf(q)
  BY RoleParts
<1>5. /\ since' \in [Requests -> BOOLEAN]
      /\ since'[r] = (role = "admin" /\ Contains(flow, "act"))
      /\ \A q \in Requests : q # r => since'[q] = since[q]
  BY <1>1, <1>4
<1>6. UNCHANGED role
  BY DEF Arrive, Alone
<1>7. ASSUME NEW q \in Requests, q # r PROVE RoleOf(q)'
  <2>1. rest'[q] = rest[q] /\ since'[q] = since[q]
    BY <1>3, <1>5, <1>7, TasksAre
  <2> QED
    BY <1>4, <1>6, <2>1 DEF RoleOf, Next1, Busy
<1>8. RoleOf(r)'
  <2>1. flow # <<>> => Head(flow) = flow[1] /\ flow[1] # "act"
    BY <1>2 DEF Whole, Flow, Inside, Statements
  <2> QED
    BY <1>3, <1>5, <1>6, <2>1 DEF RoleOf, Next1, Busy
<1> QED
  BY <1>5, <1>7, <1>8, RoleParts

LEMMA RoleChanges ==
    ASSUME RoleInv, ChangeRole
    PROVE  RoleInv' /\ RoleType'
<1>1. PICK new \in Roles \ {role} :
          /\ role' = new
          /\ since' = [r \in Requests |-> since[r] \/ (new = "admin" /\ Contains(rest[r], "act"))]
  BY DEF ChangeRole
<1>2. since \in [Requests -> BOOLEAN] /\ \A r \in Requests : RoleOf(r)
  BY RoleParts
<1>3. UNCHANGED rest
  BY DEF ChangeRole
<1>4. since' \in [Requests -> BOOLEAN]
  BY <1>1, <1>2
<1>5. ASSUME NEW r \in Requests PROVE RoleOf(r)'
  <2>1. since'[r] = (since[r] \/ (new = "admin" /\ Contains(rest[r], "act")))
    BY <1>1
  <2> QED
    BY <1>1, <1>2, <1>3, <2>1 DEF RoleOf, Next1, Busy
<1> QED
  BY <1>1, <1>4, <1>5, RoleParts DEF RoleType

LEMMA RoleStep ==
    ASSUME RoleInv, ControlInv, FlowInv, Held, RoleType, [Next]_vars
    PROVE  RoleInv' /\ RoleType'
<1> USE TasksAre
<1>1. CASE \E t \in Tasks : Works(t)
  BY <1>1, RoleWorks
<1>2. CASE \E r \in Requests : Arrive(r)
  BY <1>2, RoleArrives DEF Arrive, Alone, RoleType
<1>3. CASE ChangeRole
  BY <1>3, RoleChanges
<1>4. CASE Age \/ Drop
  BY <1>4, RoleKept DEF Age, Drop, Alone, RoleType
<1>5. CASE Clock \/ Rounds \/ Leaves
  BY <1>5, RoleKept DEF Clock, Rounds, Leaves, svars, RoleType
<1>6. CASE Wakes \/ JobDone \/ Drained
  <2>1. PICK t \in {"background", "lifespan"} : \E flow : rest' = [rest EXCEPT ![t] = flow]
    BY <1>6 DEF Wakes, JobDone, Drained
  <2>2. \A r \in Requests : rest'[r] = rest[r]
    BY <2>1, RestSet DEF ControlInv
  <2>3. UNCHANGED <<role, since>>
    BY <1>6 DEF Wakes, JobDone, Drained
  <2> QED
    BY <2>2, <2>3, RoleKept DEF RoleType
<1>7. CASE Serve \/ Signal \/ Exit
  BY <1>7, RoleKept DEF Serve, Signal, Exit, RoleType
<1>8. CASE Refuse \/ Cancel
  <2>1. PICK t \in {"background", "lifespan"} : rest' = [rest EXCEPT ![t] = <<>>]
    BY <1>8 DEF Refuse, Cancel, Ends
  <2>2. \A r \in Requests : rest'[r] = rest[r]
    BY <2>1, RestSet DEF ControlInv
  <2>3. UNCHANGED <<role, since>>
    BY <1>8 DEF Refuse, Cancel
  <2> QED
    BY <2>2, <2>3, RoleKept DEF RoleType
<1>9. CASE Verified \/ Joined \/ Dispose \/ Flush
  BY <1>9, RolePasses DEF Verified, Joined, Joining, Dispose, Flush, Alone, RoleType, Next1
<1>10. CASE UNCHANGED vars
  BY <1>10, RoleKept DEF vars, RoleType
<1> QED
  BY <1>1, <1>2, <1>3, <1>4, <1>5, <1>6, <1>7, <1>8, <1>9, <1>10 DEF Next, Stops1

LEMMA RoleInit == Init => RoleInv /\ RoleType
<1> SUFFICES ASSUME Init PROVE RoleInv /\ RoleType
  OBVIOUS
<1>1. \A r \in Requests : rest[r] = <<>>
  BY TasksAre DEF Init
<1>2. since \in [Requests -> BOOLEAN] /\ RoleType
  BY DEF Init, RoleType
<1> QED
  BY <1>1, <1>2 DEF RoleInv, RoleHeld, Next1, Busy, Contains

(* The body of an admin route runs only for an account that was an admin at *)
(* some time of the request, for every number of requests and however roles *)
(* change meanwhile: it is the role in the database that the guard reads,   *)
(* not the one that the token says (presentation/guards).                   *)
THEOREM AdminsWereAdmins == Spec => []RoleHeld
<1>1. RoleInv => RoleHeld
  BY DEF RoleInv
<1>2. PoolInv => Held
  BY DEF PoolInv
<1> QED
  BY <1>1, <1>2, PoolInit, PoolStep, ControlInit, ControlStep, FlowInit, FlowStep,
     RoleInit, RoleStep, PTL DEF Spec

-----------------------------------------------------------------------------
(* The steps of a stop, one after another. *)
LEMMA RestEqual ==
    ASSUME NEW s \in Seq(Steps), NEW m \in 1..(Len(s) + 1), NEW x \in Seq(Steps),
           Len(x) = Len(s) - m + 1, \A i \in 1..Len(x) : x[i] = s[i + m - 1]
    PROVE  Rest(s, m) = x
<1> DEFINE z == Rest(s, m)
<1>1. z \in Seq(Steps) /\ Len(z) = Len(x) /\ \A i \in 1..Len(x) : z[i] = x[i]
  BY RestIs
<1> HIDE DEF z
<1>2. z = x
  BY <1>1
<1> QED
  BY <1>2 DEF z

(* The flow s goes on from its step k with x, past the marks before m. *)
LEMMA GoesOnWith ==
    ASSUME NEW s \in Seq(Steps), NEW k \in 1..(Len(s) + 1), NEW m \in k..(Len(s) + 1),
           NEW x \in Seq(Steps), Len(x) = Len(s) - m + 1,
           \A i \in 1..Len(x) : x[i] = s[i + m - 1],
           \A j \in k..(m - 1) : s[j] \in Marks, m <= Len(s) => s[m] \notin Marks
    PROVE  From(s, k) = x
<1>1. Len(s) \in Nat /\ m \in 1..(Len(s) + 1)
  OBVIOUS
<1>2. PICK n \in k..(Len(s) + 1) :
          /\ From(s, k) = Rest(s, n)
          /\ \A j \in k..(n - 1) : s[j] \in Marks
          /\ n <= Len(s) => s[n] \notin Marks
  BY FromIs
<1>3. ~(n < m)
  <2>1. n < m => n \in k..(m - 1) /\ n <= Len(s)
    BY <1>1
  <2> QED
    BY <1>2, <2>1
<1>4. ~(m < n)
  <2>1. m < n => m \in k..(n - 1) /\ m <= Len(s)
    BY <1>1
  <2> QED
    BY <1>2, <2>1
<1>5. n = m
  BY <1>1, <1>3, <1>4
<1> QED
  BY <1>1, <1>2, <1>5, RestEqual

LEMMA StopSteps ==
    /\ {"join", "try", "open", "query", "close", "caught", "dispose", "flush", "aclose"} \subseteq Steps
    /\ \A x \in {"join", "open", "query", "close", "dispose", "flush", "aclose"} : x \notin Marks
    /\ "try" \in Marks /\ "caught" \in Marks
BY DEF Steps, Enters, Inside, Outside, Statements, Marks

LEMMA StopFlows == BeforeDisposal \cup AfterDisposal \subseteq Seq(Steps)
BY StopSteps DEF BeforeDisposal, AfterDisposal

LEMMA NextOfStop ==
    /\ From(<<"join", "try", "open", "query", "close", "caught", "dispose", "flush">>, 2)
         = <<"open", "query", "close", "caught", "dispose", "flush">>
    /\ From(<<"open", "query", "close", "caught", "dispose", "flush">>, 2)
         = <<"query", "close", "caught", "dispose", "flush">>
    /\ From(<<"query", "close", "caught", "dispose", "flush">>, 2)
         = <<"close", "caught", "dispose", "flush">>
    /\ From(<<"close", "caught", "dispose", "flush">>, 2) = <<"dispose", "flush">>
    /\ From(<<"join", "aclose", "dispose", "flush">>, 2) = <<"aclose", "dispose", "flush">>
    /\ From(<<"aclose", "dispose", "flush">>, 2) = <<"dispose", "flush">>
    /\ From(<<"dispose", "flush">>, 2) = <<"flush">>
    /\ From(<<"dispose">>, 2) = <<>>
    /\ From(<<"flush">>, 2) = <<>>
<1> USE StopSteps
<1>1. From(<<"join", "try", "open", "query", "close", "caught", "dispose", "flush">>, 2)
         = <<"open", "query", "close", "caught", "dispose", "flush">>
  <2> DEFINE s == <<"join", "try", "open", "query", "close", "caught", "dispose", "flush">>
             x == <<"open", "query", "close", "caught", "dispose", "flush">>
  <2>1. /\ s \in Seq(Steps) /\ Len(s) = 8 /\ x \in Seq(Steps) /\ Len(x) = 6
        /\ s[2] = "try" /\ s[3] = "open" /\ s[4] = "query" /\ s[5] = "close" /\ s[6] = "caught"
        /\ s[7] = "dispose" /\ s[8] = "flush" /\ x[1] = "open" /\ x[2] = "query" /\ x[3] = "close"
        /\ x[4] = "caught" /\ x[5] = "dispose" /\ x[6] = "flush"
    OBVIOUS
  <2> HIDE DEF s, x
  <2>2. \A i \in 1..6 : i = 1 \/ i = 2 \/ i = 3 \/ i = 4 \/ i = 5 \/ i = 6
    OBVIOUS
  <2>3. Len(x) = Len(s) - 3 + 1 /\ \A i \in 1..Len(x) : x[i] = s[i + 3 - 1]
    BY <2>1, <2>2
  <2>4. /\ 2 \in 1..(Len(s) + 1) /\ 3 \in 2..(Len(s) + 1)
        /\ \A j \in 2..(3 - 1) : s[j] \in Marks
        /\ 3 <= Len(s) => s[3] \notin Marks
    BY <2>1
  <2> QED
    BY <2>1, <2>3, <2>4, GoesOnWith DEF s, x
<1>2. From(<<"open", "query", "close", "caught", "dispose", "flush">>, 2)
         = <<"query", "close", "caught", "dispose", "flush">>
  <2> DEFINE s == <<"open", "query", "close", "caught", "dispose", "flush">>
             x == <<"query", "close", "caught", "dispose", "flush">>
  <2>1. /\ s \in Seq(Steps) /\ Len(s) = 6 /\ x \in Seq(Steps) /\ Len(x) = 5
        /\ s[2] = "query" /\ s[3] = "close" /\ s[4] = "caught" /\ s[5] = "dispose" /\ s[6] = "flush"
        /\ x[1] = "query" /\ x[2] = "close" /\ x[3] = "caught" /\ x[4] = "dispose" /\ x[5] = "flush"
    OBVIOUS
  <2> HIDE DEF s, x
  <2>2. \A i \in 1..5 : i = 1 \/ i = 2 \/ i = 3 \/ i = 4 \/ i = 5
    OBVIOUS
  <2>3. Len(x) = Len(s) - 2 + 1 /\ \A i \in 1..Len(x) : x[i] = s[i + 2 - 1]
    BY <2>1, <2>2
  <2>4. /\ 2 \in 1..(Len(s) + 1) /\ 2 \in 2..(Len(s) + 1)
        /\ \A j \in 2..(2 - 1) : s[j] \in Marks
        /\ 2 <= Len(s) => s[2] \notin Marks
    BY <2>1
  <2> QED
    BY <2>1, <2>3, <2>4, GoesOnWith DEF s, x
<1>3. From(<<"query", "close", "caught", "dispose", "flush">>, 2)
         = <<"close", "caught", "dispose", "flush">>
  <2> DEFINE s == <<"query", "close", "caught", "dispose", "flush">>
             x == <<"close", "caught", "dispose", "flush">>
  <2>1. /\ s \in Seq(Steps) /\ Len(s) = 5 /\ x \in Seq(Steps) /\ Len(x) = 4
        /\ s[2] = "close" /\ s[3] = "caught" /\ s[4] = "dispose" /\ s[5] = "flush" /\ x[1] = "close"
        /\ x[2] = "caught" /\ x[3] = "dispose" /\ x[4] = "flush"
    OBVIOUS
  <2> HIDE DEF s, x
  <2>2. \A i \in 1..4 : i = 1 \/ i = 2 \/ i = 3 \/ i = 4
    OBVIOUS
  <2>3. Len(x) = Len(s) - 2 + 1 /\ \A i \in 1..Len(x) : x[i] = s[i + 2 - 1]
    BY <2>1, <2>2
  <2>4. /\ 2 \in 1..(Len(s) + 1) /\ 2 \in 2..(Len(s) + 1)
        /\ \A j \in 2..(2 - 1) : s[j] \in Marks
        /\ 2 <= Len(s) => s[2] \notin Marks
    BY <2>1
  <2> QED
    BY <2>1, <2>3, <2>4, GoesOnWith DEF s, x
<1>4. From(<<"close", "caught", "dispose", "flush">>, 2) = <<"dispose", "flush">>
  <2> DEFINE s == <<"close", "caught", "dispose", "flush">>
             x == <<"dispose", "flush">>
  <2>1. /\ s \in Seq(Steps) /\ Len(s) = 4 /\ x \in Seq(Steps) /\ Len(x) = 2
        /\ s[2] = "caught" /\ s[3] = "dispose" /\ s[4] = "flush" /\ x[1] = "dispose" /\ x[2] = "flush"
    OBVIOUS
  <2> HIDE DEF s, x
  <2>2. \A i \in 1..2 : i = 1 \/ i = 2
    OBVIOUS
  <2>3. Len(x) = Len(s) - 3 + 1 /\ \A i \in 1..Len(x) : x[i] = s[i + 3 - 1]
    BY <2>1, <2>2
  <2>4. /\ 2 \in 1..(Len(s) + 1) /\ 3 \in 2..(Len(s) + 1)
        /\ \A j \in 2..(3 - 1) : s[j] \in Marks
        /\ 3 <= Len(s) => s[3] \notin Marks
    BY <2>1
  <2> QED
    BY <2>1, <2>3, <2>4, GoesOnWith DEF s, x
<1>5. From(<<"join", "aclose", "dispose", "flush">>, 2) = <<"aclose", "dispose", "flush">>
  <2> DEFINE s == <<"join", "aclose", "dispose", "flush">>
             x == <<"aclose", "dispose", "flush">>
  <2>1. /\ s \in Seq(Steps) /\ Len(s) = 4 /\ x \in Seq(Steps) /\ Len(x) = 3
        /\ s[2] = "aclose" /\ s[3] = "dispose" /\ s[4] = "flush" /\ x[1] = "aclose" /\ x[2] = "dispose"
        /\ x[3] = "flush"
    OBVIOUS
  <2> HIDE DEF s, x
  <2>2. \A i \in 1..3 : i = 1 \/ i = 2 \/ i = 3
    OBVIOUS
  <2>3. Len(x) = Len(s) - 2 + 1 /\ \A i \in 1..Len(x) : x[i] = s[i + 2 - 1]
    BY <2>1, <2>2
  <2>4. /\ 2 \in 1..(Len(s) + 1) /\ 2 \in 2..(Len(s) + 1)
        /\ \A j \in 2..(2 - 1) : s[j] \in Marks
        /\ 2 <= Len(s) => s[2] \notin Marks
    BY <2>1
  <2> QED
    BY <2>1, <2>3, <2>4, GoesOnWith DEF s, x
<1>6. From(<<"aclose", "dispose", "flush">>, 2) = <<"dispose", "flush">>
  <2> DEFINE s == <<"aclose", "dispose", "flush">>
             x == <<"dispose", "flush">>
  <2>1. /\ s \in Seq(Steps) /\ Len(s) = 3 /\ x \in Seq(Steps) /\ Len(x) = 2
        /\ s[2] = "dispose" /\ s[3] = "flush" /\ x[1] = "dispose" /\ x[2] = "flush"
    OBVIOUS
  <2> HIDE DEF s, x
  <2>2. \A i \in 1..2 : i = 1 \/ i = 2
    OBVIOUS
  <2>3. Len(x) = Len(s) - 2 + 1 /\ \A i \in 1..Len(x) : x[i] = s[i + 2 - 1]
    BY <2>1, <2>2
  <2>4. /\ 2 \in 1..(Len(s) + 1) /\ 2 \in 2..(Len(s) + 1)
        /\ \A j \in 2..(2 - 1) : s[j] \in Marks
        /\ 2 <= Len(s) => s[2] \notin Marks
    BY <2>1
  <2> QED
    BY <2>1, <2>3, <2>4, GoesOnWith DEF s, x
<1>7. From(<<"dispose", "flush">>, 2) = <<"flush">>
  <2> DEFINE s == <<"dispose", "flush">>
             x == <<"flush">>
  <2>1. /\ s \in Seq(Steps) /\ Len(s) = 2 /\ x \in Seq(Steps) /\ Len(x) = 1
        /\ s[2] = "flush" /\ x[1] = "flush"
    OBVIOUS
  <2> HIDE DEF s, x
  <2>3. Len(x) = Len(s) - 2 + 1 /\ \A i \in 1..Len(x) : x[i] = s[i + 2 - 1]
    BY <2>1
  <2>4. /\ 2 \in 1..(Len(s) + 1) /\ 2 \in 2..(Len(s) + 1)
        /\ \A j \in 2..(2 - 1) : s[j] \in Marks
        /\ 2 <= Len(s) => s[2] \notin Marks
    BY <2>1
  <2> QED
    BY <2>1, <2>3, <2>4, GoesOnWith DEF s, x
<1>8. From(<<"dispose">>, 2) = <<>>
  <2> DEFINE s == <<"dispose">>
             x == <<>>
  <2>1. /\ s \in Seq(Steps) /\ Len(s) = 1 /\ x \in Seq(Steps) /\ Len(x) = 0
    OBVIOUS
  <2> HIDE DEF s, x
  <2>3. Len(x) = Len(s) - 2 + 1 /\ \A i \in 1..Len(x) : x[i] = s[i + 2 - 1]
    BY <2>1
  <2>4. /\ 2 \in 1..(Len(s) + 1) /\ 2 \in 2..(Len(s) + 1)
        /\ \A j \in 2..(2 - 1) : s[j] \in Marks
        /\ 2 <= Len(s) => s[2] \notin Marks
    BY <2>1
  <2> QED
    BY <2>1, <2>3, <2>4, GoesOnWith DEF s, x
<1>9. From(<<"flush">>, 2) = <<>>
  <2> DEFINE s == <<"flush">>
             x == <<>>
  <2>1. /\ s \in Seq(Steps) /\ Len(s) = 1 /\ x \in Seq(Steps) /\ Len(x) = 0
    OBVIOUS
  <2> HIDE DEF s, x
  <2>3. Len(x) = Len(s) - 2 + 1 /\ \A i \in 1..Len(x) : x[i] = s[i + 2 - 1]
    BY <2>1
  <2>4. /\ 2 \in 1..(Len(s) + 1) /\ 2 \in 2..(Len(s) + 1)
        /\ \A j \in 2..(2 - 1) : s[j] \in Marks
        /\ 2 <= Len(s) => s[2] \notin Marks
    BY <2>1
  <2> QED
    BY <2>1, <2>3, <2>4, GoesOnWith DEF s, x
<1> QED
  BY <1>1, <1>2, <1>3, <1>4, <1>5, <1>6, <1>7, <1>8, <1>9

(* The probe of a stop that fails is caught behind it. *)
LEMMA CaughtInStop ==
    ASSUME NEW s \in {<<"query", "close", "caught", "dispose", "flush">>,
                      <<"close", "caught", "dispose", "flush">>}
    PROVE  Caught(s) = <<"dispose", "flush">>
<1> DEFINE x == <<"dispose", "flush">>
           c == Len(s) - 2
           count(mark, k) == Cardinality({i \in 1..(k - 1) : s[i] = mark})
           marks == {k \in DOMAIN s : s[k] = "caught" /\ count("try", k) = count("caught", k)}
<1> USE StopSteps
<1>1. /\ s \in Seq(Steps) /\ Len(s) \in {4, 5} /\ c \in 2..3
      /\ s[c] = "caught" /\ s[c + 1] = "dispose" /\ s[c + 2] = "flush" /\ c + 2 = Len(s)
      /\ \A i \in 1..Len(s) : s[i] # "try" /\ (s[i] = "caught" => i = c)
  <2>1. CASE s = <<"query", "close", "caught", "dispose", "flush">>
    <3>1. /\ s \in Seq(Steps) /\ Len(s) = 5 /\ s[1] = "query" /\ s[2] = "close"
          /\ s[3] = "caught" /\ s[4] = "dispose" /\ s[5] = "flush"
      BY <2>1
    <3>2. \A i \in 1..5 : i = 1 \/ i = 2 \/ i = 3 \/ i = 4 \/ i = 5
      OBVIOUS
    <3> QED
      BY <3>1, <3>2
  <2>2. CASE s = <<"close", "caught", "dispose", "flush">>
    <3>1. /\ s \in Seq(Steps) /\ Len(s) = 4 /\ s[1] = "close"
          /\ s[2] = "caught" /\ s[3] = "dispose" /\ s[4] = "flush"
      BY <2>2
    <3>2. \A i \in 1..4 : i = 1 \/ i = 2 \/ i = 3 \/ i = 4
      OBVIOUS
    <3> QED
      BY <3>1, <3>2
  <2> QED
    BY <2>1, <2>2
<1>3. x \in Seq(Steps) /\ Len(x) = 2 /\ x[1] = "dispose" /\ x[2] = "flush"
  OBVIOUS
<1> HIDE DEF c, x
<1>4. {i \in 1..(c - 1) : s[i] = "try"} = {} /\ {i \in 1..(c - 1) : s[i] = "caught"} = {}
  BY <1>1
<1>5. count("try", c) = count("caught", c)
  BY <1>4
<1>6. c \in DOMAIN s /\ \A k \in DOMAIN s : s[k] = "caught" => k = c
  BY <1>1
<1> HIDE DEF count
<1>7. marks = {c}
  BY <1>1, <1>5, <1>6
<1>8. Min(marks) = c
  <2>1. {c} \subseteq Nat /\ {c} # {}
    BY <1>1
  <2>2. Min({c}) \in {c}
    BY <2>1, LeastIs
  <2> QED
    BY <1>7, <2>2
<1>9. Caught(s) = From(s, c + 1)
  BY <1>7, <1>8 DEF Caught, count
<1>10. From(s, c + 1) = x
  <2>1. /\ c + 1 \in 1..(Len(s) + 1) /\ c + 1 \in (c + 1)..(Len(s) + 1)
        /\ Len(x) = Len(s) - (c + 1) + 1
        /\ c + 1 <= Len(s) => s[c + 1] \notin Marks
    BY <1>1, <1>3
  <2>2. \A i \in 1..Len(x) : x[i] = s[i + (c + 1) - 1]
    BY <1>1, <1>3
  <2>3. \A j \in (c + 1)..((c + 1) - 1) : s[j] \in Marks
    BY <1>1
  <2> QED
    BY <1>1, <1>3, <2>1, <2>2, <2>3, GoesOnWith
<1> QED
  BY <1>9, <1>10 DEF x

LEMMA BeforeIs ==
    ASSUME NEW s \in BeforeDisposal
    PROVE  /\ s \in Seq(Steps) /\ s # <<>> /\ Head(s) = s[1]
           /\ s[1] \in {"join", "open", "query", "close", "aclose", "dispose"}
           /\ Contains(s, "dispose")
           /\ s[1] # "dispose" => From(s, 2) \in BeforeDisposal /\ Head(From(s, 2)) # "join"
           /\ s[1] = "dispose" => From(s, 2) \in AfterDisposal
           /\ s[1] \in {"query", "close"} => Caught(s) = <<"dispose", "flush">>
<1>1. CASE s = <<"join", "try", "open", "query", "close", "caught", "dispose", "flush">>
  <2>1. /\ s \in Seq(Steps) /\ Len(s) = 8 /\ s # <<>> /\ Head(s) = "join" /\ s[1] = "join"
        /\ 7 \in 1..Len(s) /\ s[7] = "dispose"
    BY <1>1, StopSteps
  <2>2. /\ <<"open", "query", "close", "caught", "dispose", "flush">> \in BeforeDisposal
        /\ Head(<<"open", "query", "close", "caught", "dispose", "flush">>) = "open"
    BY DEF BeforeDisposal, AfterDisposal
  <2>3. From(s, 2) = <<"open", "query", "close", "caught", "dispose", "flush">>
    BY <1>1, NextOfStop
  <2> QED
    BY <2>1, <2>2, <2>3 DEF Contains
<1>2. CASE s = <<"open", "query", "close", "caught", "dispose", "flush">>
  <2>1. /\ s \in Seq(Steps) /\ Len(s) = 6 /\ s # <<>> /\ Head(s) = "open" /\ s[1] = "open"
        /\ 5 \in 1..Len(s) /\ s[5] = "dispose"
    BY <1>2, StopSteps
  <2>2. /\ <<"query", "close", "caught", "dispose", "flush">> \in BeforeDisposal
        /\ Head(<<"query", "close", "caught", "dispose", "flush">>) = "query"
    BY DEF BeforeDisposal, AfterDisposal
  <2>3. From(s, 2) = <<"query", "close", "caught", "dispose", "flush">>
    BY <1>2, NextOfStop
  <2> QED
    BY <2>1, <2>2, <2>3 DEF Contains
<1>3. CASE s = <<"query", "close", "caught", "dispose", "flush">>
  <2>1. /\ s \in Seq(Steps) /\ Len(s) = 5 /\ s # <<>> /\ Head(s) = "query" /\ s[1] = "query"
        /\ 4 \in 1..Len(s) /\ s[4] = "dispose"
    BY <1>3, StopSteps
  <2>2. /\ <<"close", "caught", "dispose", "flush">> \in BeforeDisposal
        /\ Head(<<"close", "caught", "dispose", "flush">>) = "close"
    BY DEF BeforeDisposal, AfterDisposal
  <2>3. From(s, 2) = <<"close", "caught", "dispose", "flush">>
    BY <1>3, NextOfStop
  <2>4. Caught(s) = <<"dispose", "flush">>
    BY <1>3, CaughtInStop
  <2> QED
    BY <2>1, <2>2, <2>3, <2>4 DEF Contains
<1>4. CASE s = <<"close", "caught", "dispose", "flush">>
  <2>1. /\ s \in Seq(Steps) /\ Len(s) = 4 /\ s # <<>> /\ Head(s) = "close" /\ s[1] = "close"
        /\ 3 \in 1..Len(s) /\ s[3] = "dispose"
    BY <1>4, StopSteps
  <2>2. /\ <<"dispose", "flush">> \in BeforeDisposal
        /\ Head(<<"dispose", "flush">>) = "dispose"
    BY DEF BeforeDisposal, AfterDisposal
  <2>3. From(s, 2) = <<"dispose", "flush">>
    BY <1>4, NextOfStop
  <2>4. Caught(s) = <<"dispose", "flush">>
    BY <1>4, CaughtInStop
  <2> QED
    BY <2>1, <2>2, <2>3, <2>4 DEF Contains
<1>5. CASE s = <<"join", "aclose", "dispose", "flush">>
  <2>1. /\ s \in Seq(Steps) /\ Len(s) = 4 /\ s # <<>> /\ Head(s) = "join" /\ s[1] = "join"
        /\ 3 \in 1..Len(s) /\ s[3] = "dispose"
    BY <1>5, StopSteps
  <2>2. /\ <<"aclose", "dispose", "flush">> \in BeforeDisposal
        /\ Head(<<"aclose", "dispose", "flush">>) = "aclose"
    BY DEF BeforeDisposal, AfterDisposal
  <2>3. From(s, 2) = <<"aclose", "dispose", "flush">>
    BY <1>5, NextOfStop
  <2> QED
    BY <2>1, <2>2, <2>3 DEF Contains
<1>6. CASE s = <<"aclose", "dispose", "flush">>
  <2>1. /\ s \in Seq(Steps) /\ Len(s) = 3 /\ s # <<>> /\ Head(s) = "aclose" /\ s[1] = "aclose"
        /\ 2 \in 1..Len(s) /\ s[2] = "dispose"
    BY <1>6, StopSteps
  <2>2. /\ <<"dispose", "flush">> \in BeforeDisposal
        /\ Head(<<"dispose", "flush">>) = "dispose"
    BY DEF BeforeDisposal, AfterDisposal
  <2>3. From(s, 2) = <<"dispose", "flush">>
    BY <1>6, NextOfStop
  <2> QED
    BY <2>1, <2>2, <2>3 DEF Contains
<1>7. CASE s = <<"dispose", "flush">>
  <2>1. /\ s \in Seq(Steps) /\ Len(s) = 2 /\ s # <<>> /\ Head(s) = "dispose" /\ s[1] = "dispose"
        /\ 1 \in 1..Len(s) /\ s[1] = "dispose"
    BY <1>7, StopSteps
  <2>2. /\ <<"flush">> \in AfterDisposal
    BY DEF BeforeDisposal, AfterDisposal
  <2>3. From(s, 2) = <<"flush">>
    BY <1>7, NextOfStop
  <2> QED
    BY <2>1, <2>2, <2>3 DEF Contains
<1>8. CASE s = <<"dispose">>
  <2>1. /\ s \in Seq(Steps) /\ Len(s) = 1 /\ s # <<>> /\ Head(s) = "dispose" /\ s[1] = "dispose"
        /\ 1 \in 1..Len(s) /\ s[1] = "dispose"
    BY <1>8, StopSteps
  <2>2. /\ <<>> \in AfterDisposal
    BY DEF BeforeDisposal, AfterDisposal
  <2>3. From(s, 2) = <<>>
    BY <1>8, NextOfStop
  <2> QED
    BY <2>1, <2>2, <2>3 DEF Contains
<1> QED
  BY <1>1, <1>2, <1>3, <1>4, <1>5, <1>6, <1>7, <1>8 DEF BeforeDisposal

LEMMA AfterIs ==
    ASSUME NEW s \in AfterDisposal
    PROVE  /\ s \in Seq(Steps) /\ (s # <<>> => Head(s) = "flush" /\ From(s, 2) = <<>>)
           /\ s = <<>> \/ s[1] \notin Inside
           /\ ~Contains(s, "dispose") /\ ~Contains(s, "join") /\ s \notin BeforeDisposal
<1>1. s \in Seq(Steps) /\ (s # <<>> => Head(s) = "flush" /\ From(s, 2) = <<>>)
  BY StopFlows, NextOfStop DEF AfterDisposal
<1>2. s = <<>> \/ s[1] \notin Inside
  BY DEF AfterDisposal, Inside, Statements, Permissions
<1>3. ~Contains(s, "dispose") /\ ~Contains(s, "join")
  BY DEF AfterDisposal, Contains
<1> QED
  BY <1>1, <1>2, <1>3, BeforeIs

(* What is left of the stop does not change, and once the engine is         *)
(* disposed of nothing is given back to its pool.                           *)
LEMMA StopKept ==
    ASSUME StopInv, UNCHANGED <<process, phase>>, rest'["lifespan"] = rest["lifespan"],
           Stopping /\ process # "job" /\ ~Joining => job' = "off",
           Stopping /\ rest["lifespan"] \in AfterDisposal => idle' = <<>>
    PROVE  StopInv'
BY DEF StopInv, Stopping, Joining, Next1, Busy

(* In a stop only the background loop of a service that was not joined and  *)
(* the lifespan have anything to do.                                        *)
LEMMA OthersAtRest ==
    ASSUME StopInv, ControlInv, Stopping, NEW t \in Tasks, t # "lifespan", Busy(t)
    PROVE  t = "background" /\ Joining /\ rest["lifespan"] \notin AfterDisposal
<1>1. t = "background"
  BY DEF ControlInv, Tasks
<1>2. process # "job" /\ job = "running"
  BY <1>1 DEF ControlInv
<1>3. Joining
  BY <1>2 DEF StopInv
<1>4. Head(rest["lifespan"]) = "join" /\ rest["lifespan"] # <<>>
  BY <1>3 DEF Joining, Next1, Busy
<1> QED
  BY <1>1, <1>3, <1>4, AfterIs

(* The stop goes on, still before its disposal of the engine or after it. *)
LEMMA StopGoesOn ==
    ASSUME StopInv, UNCHANGED <<process, phase, job>>,
           Stopping => /\ process # "job" => job = "off"
                       /\ \/ rest'["lifespan"] \in BeforeDisposal /\ Head(rest'["lifespan"]) # "join"
                          \/ rest'["lifespan"] \in AfterDisposal /\ idle' = <<>>
    PROVE  StopInv'
<1>1. Stopping' <=> Stopping
  BY DEF Stopping
<1>2. rest'["lifespan"] \in BeforeDisposal => rest'["lifespan"] \notin AfterDisposal
  BY AfterIs
<1> QED
  BY <1>1, <1>2 DEF StopInv

(* The lifespan takes a step of a stop. *)
LEMMA LifespanSteps ==
    ASSUME StopInv, ControlInv, UNCHANGED <<process, phase, job>>, Busy("lifespan"),
           rest' = [rest EXCEPT !["lifespan"] = From(@, 2)],
           Head(rest["lifespan"]) = "join" => job = "off",
           Stopping /\ Head(rest["lifespan"]) = "dispose" => idle' = <<>>,
           Stopping /\ Head(rest["lifespan"]) = "flush" => UNCHANGED idle
    PROVE  StopInv'
<1> DEFINE s == rest["lifespan"]
<1>1. rest'["lifespan"] = From(s, 2) /\ s # <<>>
  BY RestSet, TasksAre DEF ControlInv, Busy
<1>2. ASSUME Stopping PROVE /\ s \in BeforeDisposal \cup AfterDisposal
                            /\ process # "job" => job = "off"
                            /\ s \in AfterDisposal => idle = <<>>
  BY <1>2 DEF StopInv, Joining, Next1, Busy
<1> HIDE DEF s
<1>3. ASSUME Stopping, s \in BeforeDisposal, Head(s) # "dispose"
      PROVE  From(s, 2) \in BeforeDisposal /\ Head(From(s, 2)) # "join"
  BY <1>3, BeforeIs
<1>4. ASSUME Stopping, s \in BeforeDisposal, Head(s) = "dispose"
      PROVE  From(s, 2) \in AfterDisposal /\ idle' = <<>>
  BY <1>4, BeforeIs DEF s
<1>5. ASSUME Stopping, s \in AfterDisposal
      PROVE  From(s, 2) \in AfterDisposal /\ idle' = <<>>
  <2>1. Head(s) = "flush" /\ From(s, 2) = <<>>
    BY <1>1, <1>5, AfterIs
  <2>2. <<>> \in AfterDisposal
    BY DEF AfterDisposal
  <2>3. UNCHANGED idle /\ idle = <<>>
    BY <1>2, <1>5, <2>1 DEF s
  <2> QED
    BY <2>1, <2>2, <2>3
<1> QED
  BY <1>1, <1>2, <1>3, <1>4, <1>5, StopGoesOn

LEMMA StopWorks ==
    ASSUME StopInv, ControlInv, NEW t \in Tasks, Works(t)
    PROVE  StopInv'
<1> USE TasksAre
<1>1. UNCHANGED <<process, phase, job>> /\ Busy(t)
  BY DEF Works, Open, Take, Run, Close, Answered, Choose, Fail, Alone, Wants, Next1
<1>2. CASE t # "lifespan"
  <2>1. \/ UNCHANGED rest
        \/ \E flow : rest' = [rest EXCEPT ![t] = flow]
    BY DEF Works, Open, Take, Run, Close, Answered, Choose, Fail, Proceeds, Ends
  <2>2. rest'["lifespan"] = rest["lifespan"]
    BY <1>2, <2>1, RestSet DEF ControlInv
  <2>3. Stopping => Joining /\ rest["lifespan"] \notin AfterDisposal
    BY <1>1, <1>2, OthersAtRest
  <2> QED
    BY <1>1, <2>2, <2>3, StopKept
<1>3. CASE t = "lifespan" /\ ~Stopping
  BY <1>1, <1>3 DEF StopInv, Stopping
<1>4. CASE t = "lifespan" /\ Stopping
  <2> DEFINE s == rest["lifespan"]
  <2>1. s # <<>> /\ s \in BeforeDisposal \cup AfterDisposal
    BY <1>1, <1>4 DEF StopInv, Busy
  <2>2. Head(s) \in {"join", "open", "query", "close", "aclose", "dispose", "flush"}
    BY <2>1, BeforeIs, AfterIs
  <2>3. CASE Open(t) \/ Run(t) \/ Close(t) \/ Answered(t)
    <3>1. Head(s) \in Statements \cup Calls \cup {"open", "close"}
      BY <1>4, <2>3 DEF Open, Run, Close, Answered, Next1
    <3>2. Head(s) # "join" /\ Head(s) # "dispose" /\ Head(s) # "flush"
      BY <3>1 DEF Statements, Permissions, Calls
    <3>3. rest' = [rest EXCEPT !["lifespan"] = From(@, 2)]
      BY <1>4, <2>3 DEF Open, Run, Close, Answered, Proceeds
    <3> QED
      BY <1>1, <1>4, <3>2, <3>3, LifespanSteps
  <2>4. CASE Take(t)
    <3>1. Head(s) \in Statements
      BY <1>4, <2>4 DEF Take, Wants, Next1
    <3>2. Head(s) # "join" /\ Head(s) # "flush"
      BY <3>1 DEF Statements, Permissions
    <3>3. s \notin AfterDisposal
      BY <2>1, <3>2, AfterIs
    <3>4. UNCHANGED rest /\ ~Joining
      BY <2>4, <3>2 DEF Take, Joining, Next1
    <3>5. process # "job" => job' = "off"
      BY <1>1, <1>4, <3>4 DEF StopInv
    <3> QED
      BY <1>1, <3>3, <3>4, <3>5, StopKept
  <2>5. CASE Choose(t)
    <3>1. Head(s) \in DOMAIN Ways
      BY <1>4, <2>5 DEF Choose, Next1
    <3> QED
      BY <2>2, <3>1 DEF Ways
  <2>6. CASE Fail(t)
    <3>1. Head(s) \in Statements \cup Calls \cup {"close"}
      BY <1>4, <2>6 DEF Fail, Next1
    <3>2. Head(s) \in {"query", "close"}
      BY <2>2, <3>1 DEF Statements, Permissions, Calls
    <3>3. s \in BeforeDisposal /\ Caught(s) = <<"dispose", "flush">>
      BY <2>1, <3>2, BeforeIs, AfterIs
    <3>4. rest' = [rest EXCEPT !["lifespan"] = Caught(s)]
      BY <1>4, <2>6 DEF Fail, Ends
    <3>5. rest'["lifespan"] = <<"dispose", "flush">>
      BY <3>3, <3>4, RestSet DEF ControlInv
    <3>6. ~Joining
      BY <3>2 DEF Joining, Next1
    <3>7. process # "job" => job = "off"
      BY <1>4, <3>6 DEF StopInv
    <3>8. <<"dispose", "flush">> \in BeforeDisposal /\ Head(<<"dispose", "flush">>) # "join"
      BY DEF BeforeDisposal
    <3> QED
      BY <1>1, <3>5, <3>7, <3>8, StopGoesOn
  <2> QED
    BY <1>4, <2>3, <2>4, <2>5, <2>6 DEF Works
<1> QED
  BY <1>2, <1>3, <1>4

LEMMA SameSteps ==
    ASSUME NEW s \in Seq(Steps), NEW x \in Seq(Steps), Len(s) = Len(x),
           \A i \in 1..Len(x) : s[i] = x[i]
    PROVE  s = x
OBVIOUS

LEMMA OntoIs ==
    ASSUME NEW a \in Seq(Steps), NEW b \in Seq(Steps), NEW s, s = a \o b
    PROVE  /\ s \in Seq(Steps) /\ Len(s) = Len(a) + Len(b)
           /\ \A i \in 1..(Len(a) + Len(b)) : s[i] = IF i <= Len(a) THEN a[i] ELSE b[i - Len(a)]
OBVIOUS

(* The stop of a service whose worker runs, with its probe written out. *)
LEMMA StopOfWorker ==
    <<"join">> \o Probe \o <<"dispose", "flush">>
        = <<"join", "try", "open", "query", "close", "caught", "dispose", "flush">>
<1> DEFINE x == <<"join", "try", "open", "query", "close", "caught", "dispose", "flush">>
           j == <<"join">>
           k == <<"caught">>
           e == <<"dispose", "flush">>
           a == <<"try">> \o Scope
           b == a \o k
           c == j \o b
           d == c \o e
<1> USE StopSteps
<1>0. /\ j \in Seq(Steps) /\ Len(j) = 1 /\ j[1] = "join"
      /\ k \in Seq(Steps) /\ Len(k) = 1 /\ k[1] = "caught"
      /\ e \in Seq(Steps) /\ Len(e) = 2 /\ e[1] = "dispose" /\ e[2] = "flush"
  OBVIOUS
<1>1. /\ a \in Seq(Steps) /\ Len(a) = 4
      /\ a[1] = "try" /\ a[2] = "open" /\ a[3] = "query" /\ a[4] = "close"
  BY DEF Scope
<1> HIDE DEF a, j, k, e
<1>2. /\ b \in Seq(Steps) /\ Len(b) = 5
      /\ b[1] = "try" /\ b[2] = "open" /\ b[3] = "query" /\ b[4] = "close" /\ b[5] = "caught"
  <2>1. b = a \o k
    OBVIOUS
  <2> HIDE DEF b
  <2>2. /\ b \in Seq(Steps) /\ Len(b) = Len(a) + Len(k)
        /\ \A i \in 1..(Len(a) + Len(k)) :
               b[i] = IF i <= Len(a) THEN a[i] ELSE k[i - Len(a)]
    BY <1>0, <1>1, <2>1, OntoIs, Zenon
  <2>3. /\ Len(b) = 5
        /\ \A i \in 1..5 : b[i] = IF i <= 4 THEN a[i] ELSE k[i - 4]
    BY <1>0, <1>1, <2>2
  <2> QED
    BY <1>0, <1>1, <2>2, <2>3
<1> HIDE DEF b
<1>3. /\ c \in Seq(Steps) /\ Len(c) = 6
      /\ c[1] = "join" /\ c[2] = "try" /\ c[3] = "open" /\ c[4] = "query" /\ c[5] = "close"
      /\ c[6] = "caught"
  <2>1. c = j \o b
    OBVIOUS
  <2> HIDE DEF c
  <2>2. /\ c \in Seq(Steps) /\ Len(c) = Len(j) + Len(b)
        /\ \A i \in 1..(Len(j) + Len(b)) :
               c[i] = IF i <= Len(j) THEN j[i] ELSE b[i - Len(j)]
    BY <1>0, <1>2, <2>1, OntoIs, Zenon
  <2>3. /\ Len(c) = 6
        /\ \A i \in 1..6 : c[i] = IF i <= 1 THEN j[i] ELSE b[i - 1]
    BY <1>0, <1>2, <2>2
  <2> QED
    BY <1>0, <1>2, <2>2, <2>3
<1> HIDE DEF c
<1>4. /\ d \in Seq(Steps) /\ Len(d) = 8
      /\ d[1] = "join" /\ d[2] = "try" /\ d[3] = "open" /\ d[4] = "query" /\ d[5] = "close"
      /\ d[6] = "caught" /\ d[7] = "dispose" /\ d[8] = "flush"
  <2>1. d = c \o e
    OBVIOUS
  <2> HIDE DEF d
  <2>2. /\ d \in Seq(Steps) /\ Len(d) = Len(c) + Len(e)
        /\ \A i \in 1..(Len(c) + Len(e)) :
               d[i] = IF i <= Len(c) THEN c[i] ELSE e[i - Len(c)]
    BY <1>0, <1>3, <2>1, OntoIs, Zenon
  <2>3. /\ Len(d) = 8
        /\ \A i \in 1..8 : d[i] = IF i <= 6 THEN c[i] ELSE e[i - 6]
    BY <1>0, <1>3, <2>2
  <2> QED
    BY <1>0, <1>3, <2>2, <2>3
<1>5. /\ x \in Seq(Steps) /\ Len(x) = 8
      /\ x[1] = "join" /\ x[2] = "try" /\ x[3] = "open" /\ x[4] = "query" /\ x[5] = "close"
      /\ x[6] = "caught" /\ x[7] = "dispose" /\ x[8] = "flush"
  OBVIOUS
<1>6. \A i \in 1..8 : i = 1 \/ i = 2 \/ i = 3 \/ i = 4 \/ i = 5 \/ i = 6 \/ i = 7 \/ i = 8
  OBVIOUS
<1> HIDE DEF d, x
<1>7. d = x
  BY <1>4, <1>5, <1>6, SameSteps
<1> QED
  BY <1>7 DEF d, x, c, b, a, j, k, e, Probe

(* A stop begins. *)
LEMMA StopBegins ==
    ASSUME ControlInv, JobDone \/ Drained, process \in {"web", "ai", "job"}
    PROVE  StopInv'
<1>1. rest' = [rest EXCEPT !["lifespan"] = Stop(process, IF process = "job" THEN FALSE ELSE job # "off")]
  BY DEF JobDone, Drained, ControlInv
<1> DEFINE x == Stop(process, IF process = "job" THEN FALSE ELSE job # "off")
<1>2. rest'["lifespan"] = x /\ UNCHANGED <<process, job>>
  BY <1>1, RestSet, TasksAre DEF ControlInv, JobDone, Drained, schedule
<1>3. /\ x \in BeforeDisposal
      /\ process # "job" => job = "off" \/ (x # <<>> /\ Head(x) = "join")
  <2>1. CASE process = "ai" /\ job # "off"
    <3>1. x = <<"join">> \o Probe \o <<"dispose", "flush">>
      BY <2>1 DEF Stop
    <3> HIDE DEF x
    <3>2. x = <<"join", "try", "open", "query", "close", "caught", "dispose", "flush">>
      BY <3>1, StopOfWorker
    <3> QED
      BY <3>2 DEF BeforeDisposal
  <2>2. CASE process = "ai" /\ job = "off"
    <3>1. x = <<"dispose", "flush">>
      BY <2>2 DEF Stop
    <3> QED
      BY <2>2, <3>1 DEF BeforeDisposal
  <2>3. CASE process = "web"
    <3>1. x = <<"join", "aclose", "dispose", "flush">>
      BY <2>3 DEF Stop
    <3> QED
      BY <2>3, <3>1 DEF BeforeDisposal
  <2>4. CASE process = "job"
    <3>1. x = <<"dispose">>
      BY <2>4 DEF Stop
    <3> QED
      BY <2>4, <3>1 DEF BeforeDisposal
  <2> QED
    BY <2>1, <2>2, <2>3, <2>4
<1> HIDE DEF x
<1>4. x \notin AfterDisposal
  BY <1>3, AfterIs
<1> QED
  BY <1>2, <1>3, <1>4 DEF StopInv, Joining, Next1, Busy

ProcessType == process \in {"web", "ai", "job"}

LEMMA StopStep ==
    ASSUME StopInv, ControlInv, ProcessType, [Next]_vars
    PROVE  StopInv'
<1> USE TasksAre
<1>1. CASE \E t \in Tasks : Works(t)
  BY <1>1, StopWorks
<1>2. CASE (\E r \in Requests : Arrive(r)) \/ Serve \/ Refuse \/ Signal
  BY <1>2 DEF Arrive, Serve, Refuse, Signal, Alone, StopInv, Stopping
<1>3. CASE ChangeRole
  BY <1>3, StopKept DEF ChangeRole, StopInv
<1>4. CASE Age
  <2>1. idle = <<>> => idle' = <<>>
    BY <1>4 DEF Age
  <2> QED
    BY <1>4, <2>1, StopKept DEF Age, Alone, StopInv
<1>5. CASE Drop
  <2>1. idle # <<>>
    BY <1>5 DEF Drop
  <2> QED
    BY <1>5, <2>1, StopKept DEF Drop, Alone, StopInv
<1>6. CASE Clock
  BY <1>6 DEF Clock, StopInv, Stopping, svars
<1>7. CASE Wakes
  <2>1. PICK flow : rest' = [rest EXCEPT !["background"] = flow]
    BY <1>7 DEF Wakes
  <2>2. rest'["lifespan"] = rest["lifespan"]
    BY <2>1, RestSet DEF ControlInv
  <2>3. job = "asleep" /\ process # "job" /\ UNCHANGED <<process, phase, idle>>
    BY <1>7 DEF Wakes, WakeJob, Unscheduled
  <2> QED
    BY <2>2, <2>3, StopKept DEF StopInv
<1>8. CASE Rounds
  <2>1. job = "running" /\ process # "job" /\ UNCHANGED <<process, phase, idle, rest>>
    BY <1>8 DEF Rounds, svars
  <2> QED
    BY <2>1, StopKept DEF StopInv
<1>9. CASE JobDone \/ Drained
  BY <1>9, StopBegins DEF ProcessType
<1>10. CASE Verified
  <2>1. Busy("lifespan") /\ Head(rest["lifespan"]) = "verify"
    BY <1>10 DEF Verified, Next1
  <2>2. ~Stopping
    BY <2>1, BeforeIs, AfterIs DEF StopInv, Busy
  <2> QED
    BY <1>10, <2>2 DEF Verified, Alone, StopInv, Stopping
<1>11. CASE Joined \/ Dispose \/ Flush
  BY <1>11, LifespanSteps
     DEF Joined, Joining, Dispose, Flush, Proceeds, Alone, Next1
<1>12. CASE Leaves
  BY <1>12, StopKept DEF Leaves, Unscheduled, StopInv, svars
<1>13. CASE Cancel
  <2>1. rest' = [rest EXCEPT !["background"] = <<>>] /\ job' = "off" /\ Joining
        /\ UNCHANGED <<process, phase>>
    BY <1>13 DEF Cancel, Ends, StopJob
  <2>2. rest'["lifespan"] = rest["lifespan"]
    BY <2>1, RestSet DEF ControlInv
  <2>3. rest["lifespan"] \notin AfterDisposal
    BY <2>1, AfterIs DEF Joining, Next1, Busy
  <2> QED
    BY <2>1, <2>2, <2>3, StopKept
<1>14. CASE Exit
  BY <1>14 DEF Exit, StopInv, Stopping, Joining, Next1, Busy, schedule
<1>15. CASE UNCHANGED vars
  BY <1>15 DEF vars, StopInv, Stopping, Joining, Next1, Busy
<1> QED
  BY <1>1, <1>2, <1>3, <1>4, <1>5, <1>6, <1>7, <1>8, <1>9, <1>10, <1>11, <1>12, <1>13,
     <1>14, <1>15 DEF Next, Stops1

LEMMA ProcessStep == ASSUME ProcessType, [Next]_vars PROVE ProcessType'
BY DEF ProcessType, Next, Stops1, Works, Open, Take, Run, Close, Answered, Choose, Fail, Alone,
       Arrive, ChangeRole, Age, Drop, Clock, Wakes, Rounds, JobDone, Serve, Refuse, Verified, Signal,
       Drained, Leaves, Cancel, Joined, Dispose, Flush, Exit, vars, svars

LEMMA StopInit == Init => StopInv /\ ProcessType
BY SessionsAssumption DEF Init, StopInv, Stopping, ProcessType

(* Once the engine of a process is disposed of, no connection is idle in    *)
(* its pool and no scope is open, nor is one opened later: requests have    *)
(* ended and the background loop is joined or cancelled before, and what    *)
(* fails in a stop does not skip the disposal (the lifespans of both main   *)
(* modules).                                                                *)
THEOREM NothingOutlivesTheEngine == Spec => []DisposedLast
<1>1. StopInv /\ ControlInv /\ FlowInv /\ Held => DisposedLast
  <2> SUFFICES ASSUME StopInv, ControlInv, FlowInv, Held, Disposed
               PROVE  idle = <<>> /\ \A t \in Tasks : held[t] = <<>>
    BY DEF DisposedLast
  <2>1. Stopping /\ rest["lifespan"] \in AfterDisposal
    BY BeforeIs DEF Disposed, Stopping, StopInv
  <2>2. idle = <<>>
    BY <2>1 DEF StopInv
  <2>3. ASSUME NEW t \in Tasks PROVE held[t] = <<>>
    <3>1. FlowOf(t)
      BY DEF FlowInv, FlowOf
    <3>2. CASE t = "lifespan"
      <4>1. rest[t] = <<>> \/ rest[t][1] \notin Inside
        BY <2>1, <3>2, AfterIs
      <4> QED
        BY <3>1, <4>1, FlowFits
    <3>3. CASE t # "lifespan"
      <4>1. ~Busy(t)
        BY <2>1, <3>3, OthersAtRest
      <4> QED
        BY <3>1, <4>1, FlowFits DEF Busy
    <3> QED
      BY <3>2, <3>3
  <2> QED
    BY <2>2, <2>3
<1>2. PoolInv => Held
  BY DEF PoolInv
<1> QED
  BY <1>1, <1>2, PoolInit, PoolStep, ControlInit, ControlStep, FlowInit, FlowStep,
     StopInit, StopStep, ProcessStep, PTL DEF Spec
=============================================================================
