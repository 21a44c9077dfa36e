------------------------------- MODULE MCCore -------------------------------
(* Worker groups and pools, transactions and the backoff schedule.  A       *)
(* behaviour runs one part on its own instance; the others rest in one of   *)
(* their initial states.                                                    *)
EXTENDS Group, Pool, Tran, TLC

CONSTANTS Parts,   \* the parts to check
          c1, c2, r1, r2

\* Groups of every mix of runnables.  Without a shutdown timeout every Start
\* obeys its context or its Stop.
MCSetup ==
  {s \in [start : [Runnable -> {"ctx", "server", "deaf"}],
          stop : [Runnable -> {"prompt", "drains"}],
          bounded : BOOLEAN] :
     s.bounded \/ \A r \in Runnable : s.start[r] # "deaf"}

\* Two transactions that lock two rows in opposite orders.
MCOrder == c1 :> <<r1, r2>> @@ c2 :> <<r2, r1>>

VARIABLES part,
          b, retryAttempt, rand, delay, center   \* BackoffLoop

B == INSTANCE BackoffLoop WITH
       One <- 4, MaxDuration <- 500, Base <- {0, 1, 3}, Max <- {0, 5, 20},
       Factors <- {0, 2, 3}, Jitter <- {0, 1, 4}, MaxAttempt <- 6,
       attempt <- retryAttempt

backoffVars ==
  <<b, retryAttempt, rand, delay, center>>

mcVars == <<part, groupVars, poolVars, tranVars, backoffVars>>

AnyOf(set) == CHOOSE x \in set : TRUE

MCInit ==
  /\ part \in Parts
  /\ GroupInit
  /\ (part # "group") => setup = AnyOf(Setup)
  /\ PoolInit
  /\ TranInit
  /\ B!Init
  /\ (part # "backoff") => b = AnyOf(B!Policy) /\ rand = 0

\* Only part p moves.
Turn(p) ==
  /\ part = p /\ UNCHANGED part
  /\ IF p = "group" THEN TRUE ELSE UNCHANGED groupVars
  /\ IF p = "pool" THEN TRUE ELSE UNCHANGED poolVars
  /\ IF p = "tran" THEN TRUE ELSE UNCHANGED tranVars
  /\ IF p = "backoff" THEN TRUE ELSE UNCHANGED backoffVars

MCNext ==
  \/ Turn("group") /\ GroupNext
  \/ Turn("pool") /\ PoolNext
  \/ Turn("tran") /\ TranNext
  \/ Turn("backoff") /\ B!Retry

\* The steps of job j: its phases exclude each other, so one condition is enough.
JobStep(j) ==
  SubmitStep(j) \/ CleanupStep(j) \/ (j \in jobCtx /\ JobReturns(j))

\* The fairness of every part, as its own specification states it.
MCSpec ==
  /\ MCInit /\ [][MCNext]_mcVars
  /\ WF_groupVars(part = "group" /\ MainStep)
  /\ WF_groupVars(part = "group" /\ Timeout)
  /\ \A r \in Runnable : WF_groupVars(part = "group" /\ RunnableStep(r))
  /\ \A j \in Job : WF_poolVars(part = "pool" /\ JobStep(j))
  /\ \A s \in Stopper : WF_poolVars(part = "pool" /\ ShutdownDone(s))
  /\ \A c \in Call : WF_tranVars(part = "tran" /\ Step(c))

-----------------------------------------------------------------------------
\* Backoff: a delay lies within Jitter of Base * Factor^(attempt-1), between 0 and
\* Max, and fits a time.Duration, after the jitter too.
BackoffSafety == (part = "backoff") => B!BackoffSafety

\* Nothing waits for ever.  Group: a signal or a failure ends in app.Run returning.
\* Pool: every Shutdown returns, and no Submit call and no slot is held once its
\* context is done.  Tran: every WithinTran call returns, deadlocks included.
CoreEnds ==
  /\ (part = "group") => ShutdownEnds
  /\ (part = "pool") => ShutdownReturns /\ NothingStuck
  /\ (part = "tran") => EveryCallReturns
=============================================================================
