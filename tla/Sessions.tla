------------------------------ MODULE Sessions ------------------------------
(***************************************************************************)
(* A process of the system: the web service, the AI service, or a job run  *)
(* by hand.  Its tasks (requests, the background loop, the lifespan) walk  *)
(* the flows of Services and share the engine's pool: a session takes a    *)
(* connection at its first statement and gives it back when its scope      *)
(* ends.  The process starts, serves, is told to stop, and disposes of its *)
(* engine.  The other service, the providers and the database answer or    *)
(* fail at any time.                                                       *)
(***************************************************************************)
EXTENDS Services, Scheduler, SequencesExt

CONSTANTS Processes,              \* the kinds of process: "web", "ai", "job"
          Requests,               \* the requests under way at a time
          Serves,                 \* those of them that a process serves
          PoolSize, MaxOverflow,  \* of the engine
          PingAfter,              \* how long idle a connection is pinged before use
          DropAfter               \* how long idle the server may drop it

ASSUME SessionsAssumption ==
    /\ Processes \subseteq {"web", "ai", "job"}
    /\ PoolSize \in Nat \ {0} /\ MaxOverflow \in Nat
    /\ PingAfter \in Nat \ {0} /\ DropAfter \in Nat /\ PingAfter <= DropAfter
    /\ Requests \cap {"background", "lifespan"} = {}
    /\ \A p \in Processes : Serves[p] \subseteq Requests

VARIABLES process,  \* which process this is
          phase,    \* of its life
          rest,     \* the steps a task has yet to take
          held,     \* its open scopes: "none", or the connection it holds
          idle,     \* the connections in the pool, the next to be handed out first
          role,     \* the role of the account that calls the admin routes
          since     \* whether that account was an admin at some time of the request

svars == <<process, phase, rest, held, idle, role, since>>
vars == <<process, phase, rest, held, idle, role, since, now, due, left, job, setBacks>>

Tasks == Requests \cup {"background", "lifespan"}
Roles == DOMAIN RolePermissions
Conns == {"good", "broken"}
Connection(a, c) == [age |-> a, conn |-> c]

Busy(t) == rest[t] # <<>>
Next1(t, steps) == Busy(t) /\ Head(rest[t]) \in steps
Joining == Next1("lifespan", {"join"})

(* The steps from the k-th on, past the marks that the flow stands at. *)
Marks == {"try", "caught"}
From(flow, k) ==
    LET real == {i \in k..Len(flow) : flow[i] \notin Marks}
    IN  IF real = {} THEN <<>> ELSE SubSeq(flow, Min(real), Len(flow))

(* Where a flow goes on after a failure: past the "caught" of the "try" it  *)
(* is in, or nowhere.                                                       *)
Caught(flow) ==
    LET count(mark, k) == Cardinality({i \in 1..(k - 1) : flow[i] = mark})
        marks == {k \in DOMAIN flow : flow[k] = "caught" /\ count("try", k) = count("caught", k)}
    IN  IF marks = {} THEN <<>> ELSE From(flow, Min(marks) + 1)

-----------------------------------------------------------------------------
(* The pool.  Connections out of it count, those of open scopes.            *)
Out == {h \in Tasks \X (1..3) : h[2] \in DOMAIN held[h[1]] /\ held[h[1]][h[2]] # "none"}
CanConnect == Cardinality(Out) + Len(idle) < PoolSize + MaxOverflow

NeedsPingLater(c) == c.age > PingAfter    \* mutant

(* A connection that has been idle for long is pinged when it is handed     *)
(* out; one that is dead then is replaced.                                  *)
NeedsPing(c) == c.age >= PingAfter
HandedOut(c) == IF NeedsPing(c) THEN "good" ELSE c.conn

(* Connections given back: a broken one is thrown away, one too many closed. *)
Returned(pool, conns) ==
    LET good == Cardinality({k \in DOMAIN conns : conns[k] = "good"})
        back == pool \o [k \in 1..good |-> Connection(0, "good")]
    IN  SubSeq(back, 1, Min({Len(back), PoolSize}))

Ends(t, flow) ==   \* the task leaves all its scopes and goes on with this flow
    /\ rest' = [rest EXCEPT ![t] = flow]
    /\ held' = [held EXCEPT ![t] = <<>>]
    /\ idle' = Returned(idle, held[t])

Forgets(t) ==      \* a request that ended leaves nothing behind
    IF t \in Requests /\ rest'[t] = <<>>
    THEN since' = [since EXCEPT ![t] = FALSE]
    ELSE UNCHANGED since

Proceeds(t) == rest' = [rest EXCEPT ![t] = From(@, 2)] /\ Forgets(t)
Alone == UNCHANGED <<process, phase, role, now, due, left, job, setBacks>>

Init ==
    /\ ScheduleInit
    /\ process \in Processes
    /\ phase = IF process = "job" THEN "serving" ELSE "starting"
    /\ \E start \in Starts(process), work \in Jobs :
           rest = [t \in Tasks |-> CASE t = "lifespan" -> From(start, 1)
                                     [] t = "background" /\ process = "job" -> From(work, 1)
                                     [] OTHER -> <<>>]
    /\ held = [t \in Tasks |-> <<>>]
    /\ idle = <<>>
    /\ role \in Roles
    /\ since = [r \in Requests |-> FALSE]

-----------------------------------------------------------------------------
(* The steps of a task. *)
Open(t) ==
    /\ Next1(t, {"open"})
    /\ held' = [held EXCEPT ![t] = Append(@, "none")]
    /\ Proceeds(t) /\ UNCHANGED idle /\ Alone

(* The first statement of a scope waits for a connection. *)
Wants(t) == Next1(t, Statements) /\ Last(held[t]) = "none"
Take(t) ==
    /\ Wants(t)
    /\ \/ /\ idle # <<>>
          /\ held' = [held EXCEPT ![t] = Front(@) \o <<HandedOut(Head(idle))>>]
          /\ idle' = Tail(idle)
       \/ /\ idle = <<>> /\ CanConnect
          /\ held' = [held EXCEPT ![t] = Front(@) \o <<"good">>]
          /\ UNCHANGED idle
    /\ UNCHANGED <<rest, since>> /\ Alone

\* mutant: any role that a token may say
GrantsByToken(t) == \E said \in Roles : Head(rest[t]) \in RolePermissions[said]
Grants(t) == Head(rest[t]) \in RolePermissions[role]

Run(t) ==
    /\ Next1(t, Statements) /\ Last(held[t]) = "good"
    /\ Head(rest[t]) \in Permissions => Grants(t)
    /\ Proceeds(t) /\ UNCHANGED <<held, idle>> /\ Alone

Close(t) ==
    /\ Next1(t, {"close"})
    /\ idle' = Returned(idle, <<Last(held[t])>>)
    /\ held' = [held EXCEPT ![t] = Front(@)]
    /\ Proceeds(t) /\ Alone

(* Calls are answered, or what follows makes do without an answer. *)
Answered(t) == Next1(t, Calls) /\ Proceeds(t) /\ UNCHANGED <<held, idle>> /\ Alone

Choose(t) ==
    /\ Next1(t, DOMAIN Ways)
    /\ \E flow \in Ways[Head(rest[t])] :
           rest' = [rest EXCEPT ![t] = From(flow \o Tail(@), 1)]
    /\ Forgets(t) /\ UNCHANGED <<held, idle>> /\ Alone

(* A statement, a commit or a call fails, the wait for a connection times   *)
(* out, the guard refuses, or the caller of a request has gone.  What fails *)
(* in the start other than in a probe's handler ends it (see Refuse).       *)
Fail(t) ==
    /\ Next1(t, Statements \cup Calls \cup {"close"})
    /\ \/ Ends(t, Caught(rest[t]))
       \/ t \in Requests /\ Ends(t, <<>>)
    /\ Forgets(t) /\ Alone

Arrive(r) ==
    /\ phase = "serving" /\ process # "job" /\ r \in Serves[process] /\ ~Busy(r)
    /\ \E flow \in FlowsOf(IF process = "web" THEN WebEndpoints ELSE AiEndpoints) :
           /\ rest' = [rest EXCEPT ![r] = flow]
           /\ since' = [since EXCEPT ![r] = role = "admin" /\ Contains(flow, "act")]
    /\ UNCHANGED <<held, idle>> /\ Alone

(* Outside the process: roles are changed, idle connections age and die.    *)
ChangeRole ==
    /\ process = "web"
    /\ \E new \in Roles \ {role} :
           /\ role' = new
           /\ since' = [r \in Requests |->
                  since[r] \/ (new = "admin" /\ Contains(rest[r], "act"))]
    /\ UNCHANGED <<process, phase, rest, held, idle, now, due, left, job, setBacks>>

Age ==
    /\ \E k \in DOMAIN idle : idle[k].age < DropAfter
    /\ idle' = [k \in DOMAIN idle |->
           IF idle[k].age < DropAfter THEN Connection(idle[k].age + 1, idle[k].conn) ELSE idle[k]]
    /\ UNCHANGED <<rest, held, since>> /\ Alone

Drop ==
    /\ \E k \in DOMAIN idle : /\ idle[k].age >= DropAfter /\ idle[k].conn = "good"
                              /\ idle' = [idle EXCEPT ![k] = Connection(idle[k].age, "broken")]
    /\ UNCHANGED <<rest, held, since>> /\ Alone

-----------------------------------------------------------------------------
(* The background loop: the keepalive job when it is due, or an iteration   *)
(* of the index worker, which does not begin another once it is to stop.    *)
Unscheduled(j) == job' = j /\ UNCHANGED <<now, due, left, setBacks>>
Wakes ==
    /\ \/ process = "web" /\ WakeJob /\ rest' = [rest EXCEPT !["background"] = Keepalive]
       \/ /\ process = "ai" /\ job = "asleep" /\ ~Joining /\ Unscheduled("running")
          /\ rest' = [rest EXCEPT !["background"] = Iteration]
    /\ UNCHANGED <<process, phase, held, idle, role, since>>

Rounds ==
    /\ ~Busy("background") /\ job = "running"
    /\ IF process = "web" THEN JobEnds ELSE process = "ai" /\ Unscheduled("asleep")
    /\ UNCHANGED svars

(* A job run by hand ends when its work is done or has failed. *)
JobDone ==
    /\ process = "job" /\ phase = "serving" /\ ~Busy("background")
    /\ phase' = "stopping" /\ rest' = [rest EXCEPT !["lifespan"] = Stop(process, FALSE)]
    /\ UNCHANGED <<process, held, idle, role, since>> /\ UNCHANGED schedule

Clock ==
    /\ process = "web" /\ phase = "serving" /\ (Tick \/ SetBack)
    /\ UNCHANGED svars

-----------------------------------------------------------------------------
(* The lifespan.  The scheduler and the worker may be disabled. *)
Serve ==
    /\ phase = "starting" /\ ~Busy("lifespan")
    /\ phase' = "serving"
    /\ \/ UNCHANGED schedule
       \/ process = "web" /\ StartJob
       \/ process = "ai" /\ Unscheduled("asleep")
    /\ UNCHANGED <<process, rest, held, idle, role, since>>

(* A check fails, or a probe in a way it does not handle: the process ends  *)
(* as it is, without the steps of a stop.                                   *)
Refuse ==
    /\ phase = "starting" /\ Next1("lifespan", {"verify"} \cup Statements)
    /\ phase' = "refused" /\ Ends("lifespan", <<>>)
    /\ UNCHANGED <<process, role, since>> /\ UNCHANGED schedule

Verified == Next1("lifespan", {"verify"}) /\ Proceeds("lifespan") /\ UNCHANGED <<held, idle>> /\ Alone

(* The server no longer accepts requests and waits for those it has. *)
Signal ==
    /\ phase = "serving" /\ process # "job" /\ phase' = "draining"
    /\ UNCHANGED <<process, rest, held, idle, role, since>> /\ UNCHANGED schedule

Drained ==
    /\ phase = "draining" /\ \A r \in Requests : ~Busy(r)
    /\ phase' = "stopping"
    /\ rest' = [rest EXCEPT !["lifespan"] = Stop(process, job # "off")]
    /\ UNCHANGED <<process, held, idle, role, since>> /\ UNCHANGED schedule

(* The worker ends between two iterations; the scheduler's tasks, and a     *)
(* worker that outlasts the grace it is given, are cancelled.               *)
Leaves == Joining /\ process = "ai" /\ job = "asleep" /\ Unscheduled("off") /\ UNCHANGED svars
CancelsWorkerOnly == {"ai"}    \* mutant
CancelsAtStop == {"web", "ai"}
Cancel ==
    /\ Joining /\ process \in CancelsAtStop /\ StopJob
    /\ Ends("background", <<>>)
    /\ UNCHANGED <<process, phase, role, since>>

Joined == Joining /\ job = "off" /\ Proceeds("lifespan") /\ UNCHANGED <<held, idle>> /\ Alone

(* The engine's pool is replaced: connections that are out do not come back. *)
Dispose == Next1("lifespan", {"dispose"}) /\ idle' = <<>> /\ Proceeds("lifespan") /\ UNCHANGED held /\ Alone
Flush == Next1("lifespan", {"aclose", "flush"}) /\ Proceeds("lifespan") /\ UNCHANGED <<held, idle>> /\ Alone

Exit ==
    /\ phase = "stopping" /\ ~Busy("lifespan") /\ phase' = "exited"
    /\ UNCHANGED <<process, rest, held, idle, role, since>> /\ UNCHANGED schedule

-----------------------------------------------------------------------------
Works(t) == Open(t) \/ Take(t) \/ Run(t) \/ Close(t) \/ Answered(t) \/ Choose(t) \/ Fail(t)
Stops1 == Drained \/ Leaves \/ Cancel \/ Joined \/ Dispose \/ Flush \/ Exit
Next ==
    \/ \E t \in Tasks : Works(t)
    \/ \E r \in Requests : Arrive(r)
    \/ ChangeRole \/ Age \/ Drop \/ Clock
    \/ Wakes \/ Rounds \/ JobDone
    \/ Serve \/ Refuse \/ Verified \/ Signal
    \/ Stops1

Spec == Init /\ [][Next]_vars

(* Statements, calls and waits for a connection end: every one of them has  *)
(* a timeout.  The steps of a stop follow each other.                       *)
FairSpec == Spec /\ (\A t \in Tasks : WF_vars(Works(t))) /\ WF_vars(Rounds) /\ WF_vars(Stops1)

-----------------------------------------------------------------------------
TypeOK ==
    /\ SchedulerTypeOK
    /\ process \in Processes
    /\ phase \in {"starting", "serving", "draining", "stopping", "exited", "refused"}
    /\ \A t \in Tasks : held[t] \in Seq(Conns \cup {"none"}) /\ Len(held[t]) <= 1
    /\ idle \in Seq([age : 0..DropAfter, conn : Conns]) /\ Len(idle) <= PoolSize
    /\ Cardinality(Out) + Len(idle) <= PoolSize + MaxOverflow
    /\ role \in Roles /\ since \in [Requests -> BOOLEAN]

(* A task that waits for a provider, for the other service or for a free    *)
(* connection holds no connection: a slow provider pins none, and tasks do  *)
(* not wait for connections in a circle (open_scope in core/container.py,   *)
(* list_products in product_controller.py).                                 *)
Waits(t) == Next1(t, Calls \cup {"join"}) \/ Wants(t)
NoneHeldWhileWaiting ==
    \A t \in Tasks : Waits(t) => \A k \in DOMAIN held[t] : held[t][k] = "none"

(* No task is handed a connection that the server dropped while it was idle *)
(* (ping_after_idle in infrastructure/database/session.py).                 *)
IdleChecked == \A t \in Tasks : \A k \in DOMAIN held[t] : held[t][k] # "broken"

(* The body of an admin route runs only for an account that was an admin at *)
(* some time of the request, whatever its token says (presentation/guards). *)
RoleHeld == \A r \in Requests : Next1(r, {"act"}) => since[r]

(* Once the engine is disposed of no scope is open and none is opened: no   *)
(* connection outlives the stop (the lifespans of both main modules).       *)
Disposed == phase \in {"stopping", "exited"} /\ ~Contains(rest["lifespan"], "dispose")
DisposedLast == Disposed => idle = <<>> /\ \A t \in Tasks : held[t] = <<>>

(* A process that is told to stop ends, whatever its requests and its       *)
(* background loop are doing (Scheduler.stop, IndexWorker.stop).            *)
Stops == phase = "draining" ~> phase = "exited"
=============================================================================
