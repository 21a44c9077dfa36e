-------------------------------- MODULE Pool --------------------------------
(***************************************************************************)
(* worker.Pool: Submit calls that race each other and the Shutdown calls.  *)
(*                                                                         *)
(* Each job is submitted once, by a goroutine of its own.  The semaphore   *)
(* and the wait group are the sets of the jobs that hold a slot and that   *)
(* were added: their counters are the cardinalities.  What runs under the  *)
(* mutex is one step.                                                      *)
(***************************************************************************)
EXTENDS Integers, FiniteSets

CONSTANTS Job,             \* jobs, one Submit call each
          Stopper,         \* goroutines that call Shutdown
          MaxConcurrent    \* as configured

ASSUME PoolAssumption == MaxConcurrent \in Int /\ IsFiniteSet(Job)


Slots == IF MaxConcurrent > 1 THEN MaxConcurrent ELSE 1

VARIABLES poolPc,      \* Submit and then the goroutine of each job
          sem,         \* jobs that hold a slot
          running,     \* keys of p.running
          wg,          \* jobs added to the wait group and not done
          jobCtx,      \* job contexts that are done
          callerCtx,   \* contexts of Submit callers that are done
          isShutdown,
          stop         \* each Shutdown call

poolVars == <<poolPc, sem, running, wg, jobCtx, callerCtx, isShutdown, stop>>

PoolInit ==
  /\ poolPc = [j \in Job |-> "new"]
  /\ sem = {} /\ running = {} /\ wg = {} /\ jobCtx = {} /\ callerCtx = {}
  /\ isShutdown = FALSE
  /\ stop = [s \in Stopper |-> "new"]

JobGoto(j, p) == poolPc' = [poolPc EXCEPT ![j] = p]

-----------------------------------------------------------------------------
(* Submit and the goroutine it starts.                                      *)

\* The first select prefers the shutdown signal.
Check(j) ==
  /\ poolPc[j] = "new"
  /\ JobGoto(j, IF isShutdown THEN "rejected" ELSE "wait")
  /\ UNCHANGED <<sem, running, wg, jobCtx, callerCtx, isShutdown, stop>>

\* The second select takes any case that is ready.
GiveUp(j) ==
  /\ poolPc[j] = "wait" /\ (isShutdown \/ j \in callerCtx)
  /\ JobGoto(j, "rejected")
  /\ UNCHANGED <<sem, running, wg, jobCtx, callerCtx, isShutdown, stop>>

Acquire(j) ==
  /\ poolPc[j] = "wait" /\ Cardinality(sem) < Slots
  /\ sem' = sem \cup {j}
  /\ JobGoto(j, "acquired")
  /\ UNCHANGED <<running, wg, jobCtx, callerCtx, isShutdown, stop>>

RegisterUnchecked(j) ==
  /\ poolPc[j] = "acquired"
  /\ JobGoto(j, "running")
  /\ running' = running \cup {j}
  /\ wg' = wg \cup {j}
  /\ UNCHANGED <<sem, jobCtx, callerCtx, isShutdown, stop>>

\* Under the mutex: back out, or register the job and start its goroutine.
Register(j) ==
  /\ poolPc[j] = "acquired"
  /\ IF isShutdown
     THEN JobGoto(j, "backout") /\ UNCHANGED <<running, wg>>
     ELSE /\ JobGoto(j, "running")
          /\ running' = running \cup {j}
          /\ wg' = wg \cup {j}
  /\ UNCHANGED <<sem, jobCtx, callerCtx, isShutdown, stop>>

BackOut(j) ==
  /\ poolPc[j] = "backout"
  /\ jobCtx' = jobCtx \cup {j}
  /\ sem' = sem \ {j}
  /\ JobGoto(j, "rejected")
  /\ UNCHANGED <<running, wg, callerCtx, isShutdown, stop>>

\* The job function returns, because it is done or because its context is.
JobReturns(j) ==
  /\ poolPc[j] = "running"
  /\ JobGoto(j, "cleanup")
  /\ UNCHANGED <<sem, running, wg, jobCtx, callerCtx, isShutdown, stop>>

\* The deferred cleanup: cancel, untrack, then wg.Done ...
Untrack(j) ==
  /\ poolPc[j] = "cleanup"
  /\ jobCtx' = jobCtx \cup {j}
  /\ running' = running \ {j}
  /\ JobGoto(j, "untracked")
  /\ UNCHANGED <<sem, wg, callerCtx, isShutdown, stop>>

JobDone(j) ==
  /\ poolPc[j] = "untracked"
  /\ wg' = wg \ {j}
  /\ JobGoto(j, "releasing")
  /\ UNCHANGED <<sem, running, jobCtx, callerCtx, isShutdown, stop>>

\* ... and the deferred release of the slot, which runs last.
Release(j) ==
  /\ poolPc[j] = "releasing"
  /\ sem' = sem \ {j}
  /\ JobGoto(j, "done")
  /\ UNCHANGED <<running, wg, jobCtx, callerCtx, isShutdown, stop>>

-----------------------------------------------------------------------------
(* The other calls, and the contexts.                                       *)

\* Cancel with the key of the job, or the deadline that detach keeps.
Cancel(j) ==
  /\ j \in running
  /\ jobCtx' = jobCtx \cup {j}
  /\ UNCHANGED <<poolPc, sem, running, wg, callerCtx, isShutdown, stop>>

\* The context of the Submit caller is canceled: the job does not notice.
CallerCanceled(j) ==
  /\ poolPc[j] \in {"new", "wait", "acquired", "running"}
  /\ callerCtx' = callerCtx \cup {j}
  /\ UNCHANGED <<poolPc, sem, running, wg, jobCtx, isShutdown, stop>>

\* Under the mutex: close isShutdown and cancel every job in p.running.
Shutdown(s) ==
  /\ stop[s] = "new"
  /\ isShutdown' = TRUE
  /\ jobCtx' = jobCtx \cup running
  /\ stop' = [stop EXCEPT ![s] = "waiting"]
  /\ UNCHANGED <<poolPc, sem, running, wg, callerCtx>>

ShutdownDone(s) ==
  /\ stop[s] = "waiting" /\ wg = {}
  /\ stop' = [stop EXCEPT ![s] = "drained"]
  /\ UNCHANGED <<poolPc, sem, running, wg, jobCtx, callerCtx, isShutdown>>

\* The context of the Shutdown call ends first.
ShutdownGivesUp(s) ==
  /\ stop[s] = "waiting"
  /\ stop' = [stop EXCEPT ![s] = "gaveup"]
  /\ UNCHANGED <<poolPc, sem, running, wg, jobCtx, callerCtx, isShutdown>>

SubmitStep(j) ==
  \/ Check(j) \/ GiveUp(j) \/ Acquire(j) \/ Register(j) \/ BackOut(j)

CleanupStep(j) == Untrack(j) \/ JobDone(j) \/ Release(j)

PoolNext ==
  \/ \E j \in Job : SubmitStep(j) \/ JobReturns(j) \/ CleanupStep(j)
                      \/ Cancel(j) \/ CallerCanceled(j)
  \/ \E s \in Stopper : Shutdown(s) \/ ShutdownDone(s) \/ ShutdownGivesUp(s)

PoolSpec == PoolInit /\ [][PoolNext]_poolVars

\* Goroutines are scheduled, and a job whose context is done returns; a job
\* that is not canceled may run on, and nothing forces a call of Shutdown.
PoolFairSpec ==
  /\ PoolSpec
  /\ \A j \in Job : /\ WF_poolVars(SubmitStep(j)) /\ WF_poolVars(CleanupStep(j))
                    /\ WF_poolVars(j \in jobCtx /\ JobReturns(j))
  /\ \A s \in Stopper : WF_poolVars(ShutdownDone(s))

-----------------------------------------------------------------------------
PoolTypeOK ==
  /\ poolPc \in [Job -> {"new", "wait", "acquired", "backout", "rejected", "running",
                     "cleanup", "untracked", "releasing", "done"}]
  /\ sem \in SUBSET Job /\ running \in SUBSET Job /\ wg \in SUBSET Job
  /\ jobCtx \in SUBSET Job /\ callerCtx \in SUBSET Job
  /\ isShutdown \in BOOLEAN
  /\ stop \in [Stopper -> {"new", "waiting", "drained", "gaveup"}]

Executing == {j \in Job : poolPc[j] = "running"}

\* No more than MaxConcurrent jobs run at once, also while Submit calls back
\* out of a pool that is shutting down.
Concurrency == Cardinality(Executing) <= Slots

\* When a Shutdown has returned nil no job runs, and none starts later: a Submit
\* that already held a slot has backed out.
DrainedStaysDrained ==
  (\E s \in Stopper : stop[s] = "drained") => Executing = {} /\ wg = {}

\* After the shutdown signal every running job has been told to stop: none
\* slips in between the sweep over p.running and its registration.
ShutdownCancelsAll == isShutdown => Executing \subseteq jobCtx

\* A Shutdown call returns once the jobs obey their contexts.
ShutdownReturns == \A s \in Stopper : stop[s] = "waiting" ~> stop[s] # "waiting"

\* After a shutdown no Submit call stays blocked and no slot stays taken.
NothingStuck ==
  isShutdown ~> sem = {} /\ \A j \in Job : poolPc[j] \in {"rejected", "done"}

\* What Submit and Shutdown promise, whoever races whom: the limit holds, no job
\* of a stopped pool runs on with a live context, and none runs at all once it is
\* drained.
PoolSafety == Concurrency /\ ShutdownCancelsAll /\ DrainedStaysDrained
=============================================================================
