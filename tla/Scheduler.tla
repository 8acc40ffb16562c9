----------------------------- MODULE Scheduler -----------------------------
(***************************************************************************)
(* The daily job of the web service (core/scheduler.py).  The loop sleeps  *)
(* on a monotonic timer until the wall clock should show the due time; the *)
(* wall clock may be set back meanwhile, so that it wakes early.           *)
(***************************************************************************)
EXTENDS Integers

CONSTANTS Day, At,              \* the length of a day, the time of the job in it
          MaxNow, MaxSetBacks   \* bounds

ASSUME SchedulerAssumption ==
    /\ Day \in Nat \ {0} /\ At \in 0..(Day - 1)
    /\ MaxNow \in Nat /\ MaxSetBacks \in Nat

VARIABLES now,        \* the wall clock
          due,        \* when the job should run next
          left,       \* what remains of the loop's sleep
          job,        \* "off", "asleep" or "running"
          setBacks

schedule == <<now, due, left, job, setBacks>>

SchedulerTypeOK ==
    /\ now \in 0..MaxNow /\ due \in Nat /\ left \in Nat
    /\ job \in {"off", "asleep", "running"} /\ setBacks \in 0..MaxSetBacks

Later(a, b) == IF a > b THEN a ELSE b

NextDailyRun(at, after) ==
    LET candidate == (after - (after % Day)) + at
    IN  IF candidate > after THEN candidate ELSE candidate + Day

NextRunByClock(d) == NextDailyRun(At, now)    \* mutant

(* The run after one that was due at d. *)
NextRun(d) == NextDailyRun(At, Later(d, now))

ScheduleInit == now \in 0..(Day - 1) /\ due = 0 /\ left = 0 /\ job = "off" /\ setBacks = 0

SleepUntil(d) == due' = d /\ left' = Later(0, d - now) /\ job' = "asleep"
StartJob == job = "off" /\ SleepUntil(NextDailyRun(At, now)) /\ UNCHANGED <<now, setBacks>>
WakeJob == job = "asleep" /\ left = 0 /\ job' = "running" /\ UNCHANGED <<now, due, left, setBacks>>
JobEnds == job = "running" /\ SleepUntil(NextRun(due)) /\ UNCHANGED <<now, setBacks>>
StopJob == job # "off" /\ job' = "off" /\ UNCHANGED <<now, due, left, setBacks>>

Tick == now < MaxNow /\ now' = now + 1 /\ left' = Later(0, left - 1) /\ UNCHANGED <<due, job, setBacks>>
SetBack ==
    /\ now > 0 /\ setBacks < MaxSetBacks
    /\ now' = now - 1 /\ setBacks' = setBacks + 1 /\ UNCHANGED <<due, left, job>>

(* A job that ended is due again strictly later, however the clock was set, *)
(* so no day's run happens twice; and within a day, so no day still to come *)
(* is left out (core/scheduler.py, _run).                                   *)
RunsLater == JobEnds => due' > due /\ due' <= Later(due, now) + Day
OncePerDay == [][RunsLater]_schedule
=============================================================================
