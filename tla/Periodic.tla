------------------------------ MODULE Periodic ------------------------------
(***************************************************************************)
(* The two periodic Runnables: worker.Loop, fixed or paced by its ticks,   *)
(* and cron.Scheduler, whose firings run each in a goroutine of its own.   *)
(* One context stops both.                                                 *)
(*                                                                         *)
(* Durations are counted in ticks of the clock.  A tick of the loop, and a *)
(* job, may return, fail, panic, or hang until its context ends.           *)
(***************************************************************************)
EXTENDS Naturals, FiniteSets

CONSTANTS Interval, BusyInterval, MaxIdleInterval, TickTimeout,   \* LoopConfig
          Firing        \* the firings of the jobs of the scheduler

VARIABLES prPaced,     \* NewPacedLoop, or NewLoop
          prLoop,      \* Loop.Start: "wait", "tick", "hung" or "returned"
          prTimer,     \* ticks until the timer, or the ticker, fires
          prDue,       \* its channel holds a value
          prDeadline,  \* ticks left of the context of the tick
          prIdle,      \* idleDelay of startAdaptive
          prStreak,    \* idle ticks in a row, up to the one that reaches the cap
          prDelay,     \* the delay that followed the last paced tick
          prCron,      \* Scheduler.Start: "run", "stop" or "returned"
          prJobs,      \* each firing
          prCounts,    \* skit_cron_runs_total, by result
          prDone       \* the context is canceled

prLoopVars == <<prPaced, prLoop, prTimer, prDue, prDeadline, prIdle, prStreak, prDelay>>
prCronVars == <<prCron, prJobs, prCounts>>
prVars == <<prLoopVars, prCronVars, prDone>>

Result == {"ok", "error", "panic"}
Max(a, b) == IF a > b THEN a ELSE b
Min(a, b) == IF a < b THEN a ELSE b

TypeOK ==
  /\ prPaced \in BOOLEAN /\ prDue \in BOOLEAN /\ prDone \in BOOLEAN
  /\ prLoop \in {"wait", "tick", "hung", "returned"}
  /\ prTimer \in 0 .. Max(Interval, MaxIdleInterval)
  /\ prDeadline \in 0 .. TickTimeout
  /\ prIdle \in 1 .. Max(Interval, MaxIdleInterval)
  /\ prStreak \in 0 .. MaxIdleInterval
  /\ prDelay \in 0 .. Max(Interval, MaxIdleInterval)
  /\ prCron \in {"run", "stop", "returned"}
  /\ prJobs \in [Firing -> {"none", "fired", "running", "skipped"} \cup Result]
  /\ prCounts \in [Result -> 0 .. Cardinality(Firing)]

\* ImmediateFirstTick: a paced loop starts with a timer of 0, a fixed one calls
\* the tick before its loop.
Init ==
  /\ prPaced \in BOOLEAN
  /\ \E immediate \in BOOLEAN :
       /\ prLoop = IF immediate /\ ~prPaced THEN "tick" ELSE "wait"
       /\ prDeadline = IF immediate /\ ~prPaced THEN TickTimeout ELSE 0
       /\ prTimer = IF immediate /\ prPaced THEN 0 ELSE Interval
       /\ prDue = (immediate /\ prPaced)
  /\ prIdle = Interval /\ prStreak = 0 /\ prDelay = Interval
  /\ prCron = "run"
  /\ prJobs = [f \in Firing |-> "none"]
  /\ prCounts = [r \in Result |-> 0]
  /\ prDone = FALSE

-----------------------------------------------------------------------------
(* worker.Loop *)

GrowIdle(cur) == IF MaxIdleInterval <= Interval THEN Interval ELSE Min(cur * 2, MaxIdleInterval)

\* nextDelay: the delay before the next tick, and the idle delay to carry on.
NextDelay(pace, idle) ==
  IF pace = "busy" THEN [next |-> BusyInterval, carry |-> Interval]
  ELSE [next |-> idle, carry |-> GrowIdle(idle)]

\* select takes the value of the channel, also when the context is canceled.
TickStarts ==
  /\ prLoop = "wait" /\ prDue
  /\ prDue' = FALSE
  /\ prLoop' = "tick"
  /\ prDeadline' = TickTimeout
  /\ UNCHANGED <<prPaced, prTimer, prIdle, prStreak, prDelay, prCronVars, prDone>>

\* The delay of a paced loop starts when its tick ended; a ticker never stops.
Paces(pace) ==
  IF ~prPaced THEN UNCHANGED <<prTimer, prDue, prIdle, prStreak, prDelay>>
  ELSE LET d == NextDelay(pace, prIdle) IN
       /\ prTimer' = d.next /\ prDelay' = d.next /\ prIdle' = d.carry
       /\ prDue' = (d.next = 0)
       /\ prStreak' = IF pace = "busy" THEN 0 ELSE Min(prStreak + 1, MaxIdleInterval)

\* run: an error is logged, a panic recovered, and a paced tick that panicked is
\* Idle.  A hung tick ends with its context.
TickEnds ==
  /\ prLoop = "tick" \/ (prLoop = "hung" /\ (prDone \/ (TickTimeout > 0 /\ prDeadline = 0)))
  /\ \E pace \in {"idle", "busy"}, result \in Result :
       /\ result = "panic" => pace = "idle"
       /\ Paces(pace)
       /\ prLoop' = "wait"
  /\ UNCHANGED <<prPaced, prDeadline, prCronVars, prDone>>

TickHangs ==
  /\ prLoop = "tick"
  /\ prLoop' = "hung"
  /\ UNCHANGED <<prPaced, prTimer, prDue, prDeadline, prIdle, prStreak, prDelay, prCronVars, prDone>>

\* select takes ctx.Done.
LoopReturns ==
  /\ prLoop = "wait" /\ prDone
  /\ prLoop' = "returned"
  /\ UNCHANGED <<prPaced, prTimer, prDue, prDeadline, prIdle, prStreak, prDelay, prCronVars, prDone>>

\* The clock: the channel of a ticker holds one value, what it cannot hold is lost.
Clock ==
  /\ prLoop # "returned" /\ (prTimer > 0 \/ prDeadline > 0)
  /\ prDeadline' = IF prDeadline > 0 THEN prDeadline - 1 ELSE 0
  /\ CASE prTimer > 1 -> prTimer' = prTimer - 1 /\ UNCHANGED prDue
       [] prTimer = 1 -> prTimer' = (IF prPaced THEN 0 ELSE Interval) /\ prDue' = TRUE
       [] OTHER -> UNCHANGED <<prTimer, prDue>>
  /\ UNCHANGED <<prPaced, prLoop, prIdle, prStreak, prDelay, prCronVars, prDone>>

-----------------------------------------------------------------------------
(* cron.Scheduler *)

\* The scheduler fires a job in a goroutine of its own, runs may overlap.
Fire(f) ==
  /\ prCron = "run" /\ prJobs[f] = "none"
  /\ prJobs' = [prJobs EXCEPT ![f] = "fired"]
  /\ UNCHANGED <<prLoopVars, prCron, prCounts, prDone>>

\* run: a firing the cancellation overtook is skipped.
RunStarts(f) ==
  /\ prJobs[f] = "fired"
  /\ prJobs' = [prJobs EXCEPT ![f] = IF prDone THEN "skipped" ELSE "running"]
  /\ UNCHANGED <<prLoopVars, prCron, prCounts, prDone>>

\* Runs.Record of a run that did not finish when it panicked.
Record(finished, err) == IF ~finished THEN "panic" ELSE IF err THEN "error" ELSE "ok"

\* The job ends and the run is recorded.
RunEnds(f) ==
  /\ prJobs[f] = "running"
  /\ \E result \in Result :
       /\ prJobs' = [prJobs EXCEPT ![f] = result]
       /\ prCounts' = [prCounts EXCEPT ![Record(result # "panic", result = "error")] = @ + 1]
  /\ UNCHANGED <<prLoopVars, prCron, prDone>>

\* Start: the context is done, the scheduler stops firing ...
CronStops ==
  /\ prCron = "run" /\ prDone
  /\ prCron' = "stop"
  /\ UNCHANGED <<prLoopVars, prJobs, prCounts, prDone>>

CronReturnsAtOnce ==
  /\ prCron = "stop"
  /\ prCron' = "returned"
  /\ UNCHANGED <<prLoopVars, prJobs, prCounts, prDone>>
\* ... and waits for the jobs in flight.
CronReturns ==
  /\ prCron = "stop"
  /\ \A f \in Firing : prJobs[f] \notin {"fired", "running"}
  /\ prCron' = "returned"
  /\ UNCHANGED <<prLoopVars, prJobs, prCounts, prDone>>

\* The group cancels the context of both.
Cancel ==
  /\ ~prDone
  /\ prDone' = TRUE
  /\ UNCHANGED <<prLoopVars, prCronVars>>

Loop == TickStarts \/ TickEnds \/ LoopReturns \/ Clock
Cron == (\E f \in Firing : RunStarts(f) \/ RunEnds(f)) \/ CronStops \/ CronReturns

Next == Loop \/ TickHangs \/ Cron \/ Cancel \/ \E f \in Firing : Fire(f)

Spec == Init /\ [][Next]_prVars
\* The scheduler of the runtime runs every goroutine, a tick or job that does not
\* hang ends, and a select that keeps finding the context canceled takes it.
Fairness ==
  /\ WF_prVars(TickStarts) /\ WF_prVars(TickEnds) /\ WF_prVars(Clock)
  /\ SF_prVars(LoopReturns) /\ WF_prVars(Cron)
FairSpec == Spec /\ Fairness

-----------------------------------------------------------------------------
\* The delays of a paced loop follow its doc however busy and idle ticks, errors
\* and panics alternate: BusyInterval after a busy tick, and after the n-th idle
\* tick in a row Interval doubled n - 1 times, at most MaxIdleInterval
\* (NewPacedLoop, nextDelay, growIdle).
PaceFollows ==
  prPaced /\ prStreak > 0 =>
    prDelay = IF MaxIdleInterval <= Interval THEN Interval
              ELSE Min(Interval * 2 ^ (prStreak - 1), MaxIdleInterval)

\* Every run is counted once, under what happened to it: a run that panicked is
\* never counted as a success, and a skipped one not at all (Runs.Record under the
\* deferred calls of Scheduler.run).
RunsAreCounted ==
  \A r \in Result : prCounts[r] = Cardinality({f \in Firing : prJobs[f] = r})

\* When the scheduler's Start returns no job of it runs, nor will one start: what
\* the closer tears down next is not in use by a job (Scheduler.Start).
DrainedOnReturn ==
  prCron = "returned" => \A f \in Firing : prJobs[f] \notin {"fired", "running"}

\* Until it is canceled a loop with a TickTimeout ticks on, whatever its ticks do:
\* fail, panic, hang or outlast the interval (Loop.run).
TicksOn == []<>(prLoop = "tick") \/ <>prDone

\* A canceled loop and a canceled scheduler return, though a timer that is due
\* competes with the context (the selects of Loop.Start, Scheduler.Start).
PeriodicEnds == prDone ~> (prLoop = "returned" /\ prCron = "returned")

\* What the loop and the scheduler keep to, panics and timeouts included: the pace,
\* the counts, and no job left when they have returned.
PeriodicSafety == TypeOK /\ PaceFollows /\ RunsAreCounted /\ DrainedOnReturn
=============================================================================
