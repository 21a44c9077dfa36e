----------------------------- MODULE MCProcess ------------------------------
(* The life of a process: its queue workers, its servers and their          *)
(* shutdown, its periodic jobs and its closer.  A behaviour runs one part   *)
(* on its own instance; the others rest in one of their initial states.     *)
EXTENDS Servers, Closer, TLC

CONSTANTS Parts,   \* the parts to check
          t1, t2, t3, w1, w2, Task, NoTask, Worker, Firing

\* Three tasks.  One claim loop with batches of two and a budget, two poisoned
\* tasks and two faults; two loops without a budget, where one task halts its
\* batch every time, and one fault.
LiveSetup ==
  {[workers |-> {w1}, batch |-> 2, maxAttempts |-> 2, maxFaults |-> 2,
    poison |-> t1 :> "halt" @@ t2 :> "none" @@ t3 :> "retry"],
   [workers |-> {w1, w2}, batch |-> 1, maxAttempts |-> 0, maxFaults |-> 1,
    poison |-> t1 :> "halt" @@ t2 :> "none" @@ t3 :> "none"]}

VARIABLES part,
          setup, state, line, lease, attempts, pc, items, cur, err,   \* QueueLive
          begun, faults,
          prPaced, prLoop, prTimer, prDue, prDeadline, prIdle, prStreak,   \* Periodic
          prDelay, prCron, prJobs, prCounts, prDone

L == INSTANCE QueueLive WITH
       Setup <- LiveSetup
P == INSTANCE Periodic WITH
       Interval <- 1, BusyInterval <- 0, MaxIdleInterval <- 5,
       TickTimeout <- 2

liveVars ==
  <<setup, state, line, lease, attempts, pc, items, cur, err, begun,
    faults>>
periodicVars ==
  <<prPaced, prLoop, prTimer, prDue, prDeadline, prIdle, prStreak,
    prDelay, prCron, prJobs, prCounts, prDone>>

mcVars == <<part, liveVars, svVars, periodicVars, closerVars>>

AnyOf(set) == CHOOSE x \in set : TRUE

MCInit ==
  /\ part \in Parts
  /\ L!Init
  /\ (part # "live") => setup = AnyOf(LiveSetup)
  /\ Init
  /\ (part # "servers") => \A r \in Req : svReq[r].server = "http"
  /\ P!Init
  /\ (part # "periodic") => prPaced /\ prDue
  /\ CloserInit

\* Only part p moves.
Turn(p) ==
  /\ part = p /\ UNCHANGED part
  /\ IF p = "live" THEN TRUE ELSE UNCHANGED liveVars
  /\ IF p = "servers" THEN TRUE ELSE UNCHANGED svVars
  /\ IF p = "periodic" THEN TRUE ELSE UNCHANGED periodicVars
  /\ IF p = "closer" THEN TRUE ELSE UNCHANGED closerVars

MCNext ==
  \/ Turn("live") /\ L!Next
  \/ Turn("servers") /\ Next
  \/ Turn("periodic") /\ P!Next
  \/ Turn("closer") /\ CloserNext

\* The fairness of every part, as its own specification states it.
MCSpec ==
  /\ MCInit /\ [][MCNext]_mcVars
  /\ \A w \in Worker : WF_liveVars(part = "live" /\ L!Work(w))
  /\ \A t \in Task : WF_liveVars(part = "live" /\ L!FallsDue(t))
  /\ \A t \in Task : WF_liveVars(part = "live" /\ L!LeaseRunsOut(t))
  /\ WF_svVars(part = "servers" /\ InitDeps)
  /\ WF_svVars(part = "servers" /\ HttpStart)
  /\ WF_svVars(part = "servers" /\ GrpcStart)
  /\ WF_svVars(part = "servers" /\ StartReturns)
  /\ WF_svVars(part = "servers" /\ GrpcStop)
  /\ WF_svVars(part = "servers" /\ GrpcStopped)
  /\ WF_svVars(part = "servers" /\ HttpStop)
  /\ WF_svVars(part = "servers" /\ HttpStopped)
  /\ WF_svVars(part = "servers" /\ Tick)
  /\ WF_svVars(part = "servers" /\ Wait)
  /\ WF_svVars(part = "servers" /\ CloseSync)
  /\ WF_periodicVars(part = "periodic" /\ P!TickStarts)
  /\ WF_periodicVars(part = "periodic" /\ P!TickEnds)
  /\ WF_periodicVars(part = "periodic" /\ P!Clock)
  /\ WF_periodicVars(part = "periodic" /\ P!Cron)
  /\ SF_periodicVars(part = "periodic" /\ P!LoopReturns)
  /\ WF_closerVars(part = "closer" /\ Handlers)
  /\ \A g \in Closing : WF_closerVars(part = "closer" /\ CloseCall(g))

-----------------------------------------------------------------------------
\* Periodic: the pace follows the load between its bounds, every finished job is
\* counted once under its outcome, and none runs when the scheduler has returned.
PeriodicSafety == (part = "periodic") => P!PeriodicSafety

\* QueueLive: with an attempt budget every scheduled task ends, done or dead, and a
\* task that halts its batch forever starves no healthy task.
TasksEnd == (part = "live") => L!EveryTaskEnds /\ L!HealthyGetDone

\* The process goes down.  Servers: a stop that began ends with the process.
\* Periodic: the loop ticks for ever, panics and timeouts included, until its
\* context is done; then it and the scheduler return.  Closer: every Close call
\* returns.
ProcessEnds ==
  /\ (part = "servers") => ServiceEnds
  /\ (part = "periodic") => P!TicksOn /\ P!PeriodicEnds
  /\ (part = "closer") => EveryCloseReturns
=============================================================================
