------------------------------- MODULE Group -------------------------------
(***************************************************************************)
(* worker.Group.Run under app.Run: the runnables are started together, a   *)
(* signal or the first failure tears the group down, every runnable is     *)
(* asked to Stop in reverse order of registration, the Start goroutines    *)
(* are awaited, and the resources of the closer are released last.         *)
(*                                                                         *)
(* A Start returns when its context is canceled ("ctx"), when its Stop is  *)
(* called, as a server does ("server"), or never by itself ("deaf").       *)
(* A Stop returns at once ("prompt") or when its Start is back or the      *)
(* context of the stop phase has expired ("drains").                       *)
(***************************************************************************)
EXTENDS Naturals, Sequences

CONSTANTS N,          \* runnables 1..N in order of registration
          Setup       \* the groups: the kind of every runnable, and whether
                      \* ShutdownTimeout > 0

Runnable == 1..N

ASSUME GroupAssumption ==
  /\ N \in Nat
  /\ Setup \subseteq [start : [Runnable -> {"ctx", "server", "deaf"}],
                      stop : [Runnable -> {"prompt", "drains"}],
                      bounded : BOOLEAN]


NoErr == 0

VARIABLES setup,     \* the group that runs
          sig,       \* the signal context is done
          canceled,  \* the context of the group is done
          start,     \* the goroutine of each runnable
          errCh,     \* failures sent and not received
          pc,        \* the goroutine of app.Run
          trigger,   \* the error Group.Run returns
          stops,     \* stop calls made, in order
          inStop,    \* the last one has not returned
          expired,   \* the context of stopAll has timed out
          timedOut,  \* waitForStop gave up
          result,    \* the error app.Run returns
          unsignaled \* trigger was received before any signal

groupVars == <<setup, sig, canceled, start, errCh, pc, trigger, stops, inStop,
          expired, timedOut, result, unsignaled>>

\* A goroutine runs Start, then sends its failure, then cancels the group.
StartState == {"created", "running", "returned", "failed", "sent", "down"}

\* wg.Done: the goroutine is over, without or after a failure.
Returned(r) == start[r] \in {"returned", "down"}

Stopped(r) == \E i \in 1..Len(stops) : stops[i] = r

GroupInit ==
  /\ setup \in Setup
  /\ sig = FALSE
  /\ canceled = FALSE
  /\ start = [r \in Runnable |-> "created"]
  /\ errCh = <<>>
  /\ pc = "select"
  /\ trigger = NoErr
  /\ stops = <<>>
  /\ inStop = FALSE
  /\ expired = FALSE
  /\ timedOut = FALSE
  /\ result = NoErr
  /\ unsignaled = FALSE

main == <<pc, trigger, stops, inStop, expired, timedOut, result, unsignaled>>

-----------------------------------------------------------------------------
(* The goroutine of a runnable.                                             *)

Begin(r) ==
  /\ start[r] = "created"
  /\ start' = [start EXCEPT ![r] = "running"]
  /\ UNCHANGED <<setup, sig, canceled, errCh, main>>

\* Start returns nil, or the cancellation of its context.
Return(r) ==
  /\ start[r] = "running"
  /\ \/ setup.start[r] = "ctx" /\ canceled
     \/ setup.start[r] = "server" /\ Stopped(r)
  /\ start' = [start EXCEPT ![r] = "returned"]
  /\ UNCHANGED <<setup, sig, canceled, errCh, main>>

\* Start returns early and without an error: the group goes on.
Finish(r) ==
  /\ start[r] = "running"
  /\ start' = [start EXCEPT ![r] = "returned"]
  /\ UNCHANGED <<setup, sig, canceled, errCh, main>>

\* Start returns any other error, before or after the shutdown has begun.
Fail(r) ==
  /\ start[r] = "running"
  /\ start' = [start EXCEPT ![r] = "failed"]
  /\ UNCHANGED <<setup, sig, canceled, errCh, main>>

SendUnbuffered(r) ==
  /\ start[r] = "failed" /\ pc = "select" /\ errCh = <<>>
  /\ errCh' = Append(errCh, r)
  /\ start' = [start EXCEPT ![r] = "sent"]
  /\ UNCHANGED <<setup, sig, canceled, main>>

\* errCh has room for every runnable, so the send does not block.
Send(r) ==
  /\ start[r] = "failed"
  /\ errCh' = Append(errCh, r)
  /\ start' = [start EXCEPT ![r] = "sent"]
  /\ UNCHANGED <<setup, sig, canceled, main>>

CancelGroup(r) ==
  /\ start[r] = "sent"
  /\ canceled' = TRUE
  /\ start' = [start EXCEPT ![r] = "down"]
  /\ UNCHANGED <<setup, sig, errCh, main>>

-----------------------------------------------------------------------------
(* The goroutine of app.Run.                                                *)

\* A signal cancels the context of the group through its parent.
Signal ==
  /\ ~sig /\ pc # "closed"
  /\ sig' = TRUE
  /\ canceled' = TRUE
  /\ UNCHANGED <<setup, start, errCh, main>>

\* The select of Group.Run; with both ready either case is taken.
SelectDone ==
  /\ pc = "select" /\ sig
  /\ pc' = "stop"
  /\ canceled' = TRUE
  /\ UNCHANGED <<setup, sig, start, errCh, trigger, stops, inStop, expired,
                 timedOut, result, unsignaled>>

SelectErr ==
  /\ pc = "select" /\ errCh # <<>>
  /\ trigger' = Head(errCh)
  /\ errCh' = Tail(errCh)
  /\ unsignaled' = ~sig
  /\ pc' = "stop"
  /\ canceled' = TRUE
  /\ UNCHANGED <<setup, sig, start, stops, inStop, expired, timedOut, result>>

\* stopAll calls the next Stop in reverse order of registration.
CallStop ==
  /\ pc = "stop" /\ ~inStop /\ Len(stops) < N
  /\ stops' = Append(stops, N - Len(stops))
  /\ inStop' = TRUE
  /\ UNCHANGED <<setup, sig, canceled, start, errCh, pc, trigger, expired,
                 timedOut, result, unsignaled>>

\* The Stop in progress returns; its error is only logged.
StopReturns ==
  /\ inStop
  /\ LET r == stops[Len(stops)]
     IN  setup.stop[r] = "prompt" \/ Returned(r) \/ expired
  /\ inStop' = FALSE
  /\ UNCHANGED <<setup, sig, canceled, start, errCh, pc, trigger, stops,
                 expired, timedOut, result, unsignaled>>

\* One timeout covers all Stop calls together.
StopExpires ==
  /\ pc = "stop" /\ setup.bounded /\ ~expired
  /\ expired' = TRUE
  /\ UNCHANGED <<setup, sig, canceled, start, errCh, pc, trigger, stops,
                 inStop, timedOut, result, unsignaled>>

StopsDone ==
  /\ pc = "stop" /\ ~inStop /\ Len(stops) = N
  /\ pc' = "wait"
  /\ UNCHANGED <<setup, sig, canceled, start, errCh, trigger, stops, inStop,
                 expired, timedOut, result, unsignaled>>

StartedReturned == \A r \in Runnable : Returned(r) \/ start[r] = "created"

\* waitForStop, on a timer of its own; Group.Run returns trigger, and app.Run
\* keeps it unless a signal has arrived by now.
AllReturned == \A r \in Runnable : Returned(r)

Outcome == IF sig THEN NoErr ELSE trigger

WaitDone ==
  /\ pc = "wait" /\ AllReturned
  /\ result' = Outcome
  /\ pc' = "close"
  /\ UNCHANGED <<setup, sig, canceled, start, errCh, trigger, stops, inStop,
                 expired, timedOut, unsignaled>>

WaitTimesOut ==
  /\ pc = "wait" /\ setup.bounded
  /\ timedOut' = TRUE
  /\ result' = Outcome
  /\ pc' = "close"
  /\ UNCHANGED <<setup, sig, canceled, start, errCh, trigger, stops, inStop,
                 expired, unsignaled>>

\* The deferred closer.CloseSync releases the resources of the runnables.
Close ==
  /\ pc = "close"
  /\ pc' = "closed"
  /\ UNCHANGED <<setup, sig, canceled, start, errCh, trigger, stops, inStop,
                 expired, timedOut, result, unsignaled>>

RunnableStep(r) == Begin(r) \/ Return(r) \/ Send(r) \/ CancelGroup(r)

MainStep ==
  \/ SelectDone \/ SelectErr
  \/ CallStop \/ StopReturns \/ StopsDone
  \/ WaitDone \/ Close

Timeout == StopExpires \/ WaitTimesOut

GroupNext ==
  \/ \E r \in Runnable : RunnableStep(r) \/ Finish(r) \/ Fail(r)
  \/ Signal \/ MainStep \/ Timeout

GroupSpec == GroupInit /\ [][GroupNext]_groupVars

\* Goroutines and timers are scheduled; nothing makes a runnable fail, return
\* early or makes a signal arrive.
GroupFairSpec ==
  /\ GroupSpec
  /\ WF_groupVars(MainStep)
  /\ WF_groupVars(Timeout)
  /\ \A r \in Runnable : WF_groupVars(RunnableStep(r))

-----------------------------------------------------------------------------
GroupTypeOK ==
  /\ setup \in Setup
  /\ sig \in BOOLEAN /\ canceled \in BOOLEAN /\ inStop \in BOOLEAN
  /\ expired \in BOOLEAN /\ timedOut \in BOOLEAN /\ unsignaled \in BOOLEAN
  /\ start \in [Runnable -> StartState]
  /\ errCh \in Seq(Runnable) /\ stops \in Seq(Runnable)
  /\ pc \in {"select", "stop", "wait", "close", "closed"}
  /\ trigger \in Runnable \cup {NoErr} /\ result \in Runnable \cup {NoErr}

\* The resources are released after the runnables that use them: when the
\* closer runs, every Stop has returned and every Start is back, unless the
\* wait for the Start goroutines timed out.
ClosedLast ==
  pc = "closed" =>
    /\ \A r \in Runnable : Stopped(r)
    /\ ~inStop
    /\ timedOut \/ \A r \in Runnable : Returned(r)

\* app.Run returns nil only after a signal, and an error only if that runnable
\* has failed: a failure is not lost while no signal arrives, and a clean
\* shutdown invents none.
ResultHasCause ==
  /\ pc = "closed" /\ result = NoErr => sig
  /\ result # NoErr => start[result] \in {"sent", "down"}

\* What the doc comment of app.Run says: "the triggering error when a runnable
\* fails on its own".
OwnFailureReturned ==
  pc = "closed" /\ unsignaled => result = trigger

\* A signal or a failure ends the process: whatever the Start functions do when
\* the shutdown is bounded, and without a bound as long as every Start obeys
\* its context or its Stop.
ShutdownEnds == (sig \/ errCh # <<>>) ~> pc = "closed"

\* What app.Run promises of a shutdown: the resources go last, and the error it
\* returns has its cause.
GroupSafety == ClosedLast /\ ResultHasCause
=============================================================================
