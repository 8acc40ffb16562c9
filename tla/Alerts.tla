------------------------------- MODULE Alerts -------------------------------
(***************************************************************************)
(* Error alerts of both services (core/alerts.py, the same file in web and *)
(* ai). Application threads log; the handler puts each occurrence into a   *)
(* bounded queue; one dispatcher thread takes them, groups them by their   *)
(* fingerprint, and posts to a webhook that may be slow or rate limited.   *)
(* At shutdown the process waits for the dispatcher, but not for ever.     *)
(*                                                                         *)
(* Time is measured in ticks since an event, counted no further than any   *)
(* comparison looks. One round of the dispatcher reads the clock once;     *)
(* lag is the time since then.                                             *)
(***************************************************************************)
EXTENDS Integers, Sequences, FiniteSets

CONSTANTS Keys,        \* fingerprints
          Threads,     \* application threads that log
          None,
          Capacity,    \* of the dispatcher's queue
          Cooldown,    \* ALERTS_COOLDOWN_SECONDS, in ticks
          MaxAttempts, \* _MAX_ATTEMPTS: posts of one alert
          MaxLag,      \* bound: ticks that the deliveries of one round take
          MaxLogs      \* bound: occurrences logged

ASSUME AlertsAssumption ==
  /\ None \notin Keys
  /\ Capacity \in Nat \ {0} /\ Cooldown \in Nat \ {0} /\ MaxAttempts \in Nat \ {0}
  /\ MaxLag \in Nat /\ MaxLogs \in Nat

VARIABLES main,     \* the process: running, joining the dispatcher, exited
          emitting, \* the occurrence each thread is about to submit
          queue,    \* submitted occurrences
          pc, lag,  \* the dispatcher's round
          incident, \* the throttle
          outbox,   \* the alert of each key that is being delivered
          logs,     \* occurrences logged so far
          told,     \* history: the last alert issued for each key, and when
          owed      \* history: accepted occurrences no delivery has settled

dispatcher == <<pc, lag, incident, outbox, told>>
vars == <<main, emitting, queue, dispatcher, logs, owed>>

Forever == Cooldown + MaxLag    \* ticks are not counted beyond this
Later(t) == IF t < Forever THEN t + 1 ELSE t

NoIncident == [open |-> FALSE, age |-> 0, repeats |-> 0, repeated |-> FALSE]
NewIncident == [open |-> TRUE, age |-> 0, repeats |-> 0, repeated |-> FALSE]
NoAlert == [kind |-> "none", count |-> 0, tries |-> 0]
AlertOf(kind, count) == [kind |-> kind, count |-> count, tries |-> 0]

Init ==
  /\ main = "running"
  /\ emitting = [t \in Threads |-> None]
  /\ queue = <<>>
  /\ pc = "get" /\ lag = 0
  /\ incident = [k \in Keys |-> NoIncident]
  /\ outbox = [k \in Keys |-> NoAlert]
  /\ logs = 0
  /\ told = [k \in Keys |-> [kind |-> "none", age |-> Forever]]
  /\ owed = [k \in Keys |-> 0]

-----------------------------------------------------------------------------
(* Logging.                                                                *)

\* A record of the watched loggers reaches the handler while it is attached. The
\* dispatcher's own records are ignored.
Emit(t, k) ==
  /\ main = "running" /\ emitting[t] = None /\ logs < MaxLogs
  /\ emitting' = [emitting EXCEPT ![t] = k]
  /\ logs' = logs + 1
  /\ UNCHANGED <<main, queue, dispatcher, owed>>

\* The dispatcher still reads the queue: it has not decided to end.
Reading == pc \notin {"drain", "ended", "killed"}

HasRoom == Len(queue) < Capacity

\* put_nowait: a full queue drops the occurrence.
Submit(t) ==
  /\ emitting[t] # None
  /\ emitting' = [emitting EXCEPT ![t] = None]
  /\ IF HasRoom
     THEN /\ queue' = Append(queue, emitting[t])
          /\ owed' = IF Reading THEN [owed EXCEPT ![emitting[t]] = @ + 1] ELSE owed
     ELSE UNCHANGED <<queue, owed>>
  /\ UNCHANGED <<main, dispatcher, logs>>

-----------------------------------------------------------------------------
(* The dispatcher.                                                         *)

Tell(k, kind) == told' = [told EXCEPT ![k] = [kind |-> kind, age |-> 0]]

\* AlertThrottle.observe: the first of its kind is news, the others are counted.
Observe(k) ==
  IF incident[k].open
  THEN /\ incident' = [incident EXCEPT ![k].repeats = @ + 1]
       /\ pc' = "due"
       /\ UNCHANGED <<outbox, told>>
  ELSE /\ incident' = [incident EXCEPT ![k] = NewIncident]
       /\ outbox' = [outbox EXCEPT ![k] = AlertOf("new", 1)]
       /\ Tell(k, "new")
       /\ pc' = "sendNew"

Get ==
  /\ pc = "get" /\ queue # <<>>
  /\ queue' = Tail(queue)
  /\ lag' = 0
  /\ Observe(Head(queue))
  /\ UNCHANGED <<main, emitting, logs, owed>>

\* queue.get timed out.
Poll ==
  /\ pc = "get" /\ queue = <<>>
  /\ lag' = 0
  /\ pc' = "due"
  /\ UNCHANGED <<main, emitting, queue, incident, outbox, logs, told, owed>>

\* The window of k had passed when this round read the clock.
Expired(k) == incident[k].open /\ incident[k].age - lag >= Cooldown

RestartedCounting(i) == [i EXCEPT !.age = lag, !.repeated = TRUE]    \* mutant: repeats not reset
RestartedNever(i) == [i EXCEPT !.repeats = 0, !.repeated = TRUE]    \* mutant: the window goes on
Restarted(i) == [i EXCEPT !.age = lag, !.repeats = 0, !.repeated = TRUE]

DueAlways(i) == IF i.repeats > 0 THEN AlertOf("repeating", i.repeats) ELSE AlertOf("quiet", 0)    \* mutant
\* What the throttle says of an incident whose window has passed.
DueAlert(i) == IF i.repeats > 0 THEN AlertOf("repeating", i.repeats)
               ELSE IF i.repeated THEN AlertOf("quiet", 0) ELSE NoAlert

\* AlertThrottle.due, with the time read at the start of the round.
Due ==
  /\ pc = "due"
  /\ outbox' = [k \in Keys |-> IF Expired(k) THEN DueAlert(incident[k]) ELSE NoAlert]
  /\ incident' = [k \in Keys |->
       IF ~Expired(k) THEN incident[k]
       ELSE IF incident[k].repeats > 0 THEN Restarted(incident[k]) ELSE NoIncident]
  /\ told' = [k \in Keys |-> IF outbox'[k] = NoAlert THEN told[k]
                             ELSE [kind |-> outbox'[k].kind, age |-> lag]]
  /\ pc' = "sendDue"
  /\ UNCHANGED <<main, emitting, queue, lag, logs, owed>>

\* One POST: it delivers the alert, or fails for good, or is rate limited and tried
\* again up to the limit. An alert that was begun is finished first.
Post(k) ==
  /\ pc \in {"sendNew", "sendDue", "drain"}
  /\ outbox[k] # NoAlert
  /\ \A j \in Keys : outbox[j].tries > 0 => j = k
  /\ \/ /\ outbox' = [outbox EXCEPT ![k] = NoAlert]
        /\ owed' = [owed EXCEPT ![k] = @ - outbox[k].count]
     \/ /\ outbox[k].tries + 1 < MaxAttempts
        /\ outbox' = [outbox EXCEPT ![k].tries = @ + 1]
        /\ UNCHANGED owed
  /\ UNCHANGED <<main, emitting, queue, pc, lag, incident, logs, told>>

Delivered ==
  /\ pc \in {"sendNew", "sendDue", "drain"}
  /\ \A k \in Keys : outbox[k] = NoAlert
  /\ pc' = CASE pc = "sendNew" -> "due" [] pc = "sendDue" -> "check" [] pc = "drain" -> "ended"
  /\ UNCHANGED <<main, emitting, queue, lag, incident, outbox, logs, told, owed>>

FinishedAtOnce == main # "running"    \* mutant: the queue is left unread
Finished == main # "running" /\ queue = <<>>

\* The end of a round: the next one, or AlertThrottle.drain and the end.
Check ==
  /\ pc = "check"
  /\ IF Finished
     THEN /\ outbox' = [k \in Keys |-> IF incident[k].repeats > 0
                          THEN AlertOf("repeating", incident[k].repeats) ELSE NoAlert]
          /\ incident' = [k \in Keys |-> NoIncident]
          /\ pc' = "drain"
     ELSE pc' = "get" /\ UNCHANGED <<outbox, incident>>
  /\ UNCHANGED <<main, emitting, queue, lag, logs, told, owed>>

-----------------------------------------------------------------------------
(* Shutdown and time.                                                      *)

\* AlertHandler.close: the handler is detached and the dispatcher told to stop.
Close ==
  /\ main = "running"
  /\ main' = "joining"
  /\ UNCHANGED <<emitting, queue, dispatcher, logs, owed>>

Join ==
  /\ main = "joining" /\ pc = "ended"
  /\ main' = "exited"
  /\ UNCHANGED <<emitting, queue, dispatcher, logs, owed>>

\* join(5.0) returns while the daemon thread still works; it dies with the process.
JoinTimeout ==
  /\ main = "joining" /\ pc # "ended"
  /\ main' = "exited"
  /\ pc' = "killed"
  /\ UNCHANGED <<emitting, queue, lag, incident, outbox, logs, told, owed>>

Tick ==
  /\ pc \notin {"get", "ended", "killed"} => lag < MaxLag
  /\ lag' = IF pc \in {"get", "ended", "killed"} THEN lag ELSE lag + 1
  /\ incident' = [k \in Keys |-> IF incident[k].open
                    THEN [incident[k] EXCEPT !.age = Later(@)] ELSE incident[k]]
  /\ told' = [k \in Keys |-> [told[k] EXCEPT !.age = Later(@)]]
  /\ UNCHANGED <<main, emitting, queue, pc, outbox, logs, owed>>

Dispatch == Get \/ Poll \/ Due \/ Delivered \/ Check \/ \E k \in Keys : Post(k)

Next ==
  \/ \E t \in Threads : Submit(t) \/ \E k \in Keys : Emit(t, k)
  \/ Dispatch
  \/ Close \/ Join \/ JoinTimeout \/ Tick

\* The dispatcher thread runs, time passes, and a thread that is about to submit does.
Spec ==
  /\ Init /\ [][Next]_vars
  /\ WF_vars(Dispatch) /\ WF_vars(Tick) /\ WF_vars(Join)
  /\ \A t \in Threads : WF_vars(Submit(t))

-----------------------------------------------------------------------------
(* Properties.                                                             *)

Ticks == 0..Forever
IncidentType == [open : BOOLEAN, age : Ticks, repeats : Nat, repeated : BOOLEAN]
AlertType == [kind : {"none", "new", "repeating", "quiet"}, count : Nat, tries : 0..(MaxAttempts - 1)]

\* The types of the state; the queue never outgrows its capacity.
TypeOK ==
  /\ main \in {"running", "joining", "exited"}
  /\ emitting \in [Threads -> Keys \cup {None}]
  /\ queue \in Seq(Keys) /\ Len(queue) <= Capacity
  /\ pc \in {"get", "sendNew", "due", "sendDue", "check", "drain", "ended", "killed"}
  /\ lag \in 0..MaxLag
  /\ incident \in [Keys -> IncidentType]
  /\ outbox \in [Keys -> AlertType]
  /\ logs \in 0..MaxLogs
  /\ told \in [Keys -> [kind : {"none", "new", "repeating", "quiet"}, age : Ticks]]
  /\ owed \in [Keys -> Nat]

Places(q, k) == {i \in 1..Len(q) : q[i] = k}
Waiting(k) == IF Reading THEN Cardinality(Places(queue, k)) ELSE 0

\* Every occurrence the queue accepted is at any time in exactly one place, and so told
\* exactly once: it waits in the queue, it is counted in an incident, or it is part of
\* the alert being delivered (test_repeats_inside_the_window_are_counted_not_sent).
Accounted ==
  pc # "killed" =>
    \A k \in Keys : owed[k] = Waiting(k) + incident[k].repeats + outbox[k].count

Issued(k, kind) == outbox[k].kind # kind /\ outbox'[k].kind = kind

\* The webhook is not flooded: by the dispatcher's clock at least a cooldown passes
\* between two reports of one problem, except for the flush at shutdown and a problem
\* that comes back after it was reported quiet.
Throttled ==
  [][\A k \in Keys :
       Issued(k, "new") \/ (Issued(k, "repeating") /\ pc' # "drain")
         => told[k].kind = "quiet" \/ told[k].age - lag' >= Cooldown]_vars

\* The alerts of a problem tell one story: "still happening" only after its first report,
\* "quiet" only after "still happening", and a problem reported as still happening is
\* not news again before it was reported quiet.
Story ==
  [][\A k \in Keys :
       /\ Issued(k, "quiet") => told[k].kind = "repeating"
       /\ Issued(k, "repeating") => told[k].kind \in {"new", "repeating"}
       /\ Issued(k, "new") => told[k].kind # "repeating"]_vars

\* Every accepted occurrence is in the end reported, or its delivery given up, also when
\* the service shuts down first, unless the process exits under the dispatcher
\* (test_logged_errors_reach_the_webhook_grouped).
Settled == \A k \in Keys : <>[](owed[k] = 0 \/ pc = "killed")
=============================================================================
