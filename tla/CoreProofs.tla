----------------------------- MODULE CoreProofs -----------------------------
(* The core: the shutdown of a worker group, the slots of a pool and the      *)
(* calls of WithinTran, for any number of runnables, jobs, calls and rows.    *)
EXTENDS Group, Pool, Tran, FiniteSetTheorems, TLAPS

\* Most leaves are first-order; the ones with arithmetic cite SMT.
USE Zenon

-----------------------------------------------------------------------------
(* Pool                                                                    *)

Tracked == {"running", "cleanup"}
Counted == {"running", "cleanup", "untracked"}
Holding == {"acquired", "backout", "running", "cleanup", "untracked", "releasing"}

\* The semaphore, the map and the wait group agree with the program counters.
Bookkeeping ==
  /\ Cardinality(sem) <= Slots
  /\ \A j \in Job : /\ poolPc[j] \in Holding => j \in sem
                    /\ j \in running <=> poolPc[j] \in Tracked
                    /\ j \in wg <=> poolPc[j] \in Counted

\* What a Shutdown call has established by the time it waits and returns.
AfterStop ==
  /\ \A s \in Stopper : stop[s] # "new" => isShutdown
  /\ \A s \in Stopper : stop[s] = "drained" => wg = {}

PoolInv == PoolTypeOK /\ Bookkeeping /\ ShutdownCancelsAll /\ AfterStop

\* The number of slots is a positive integer whatever MaxConcurrent is.
LEMMA SlotsType == Slots \in Nat \ {0}
BY PoolAssumption, SMT DEF Slots

\* Taking a free slot keeps the semaphore within its capacity; giving one back
\* does too.
LEMMA SemBound ==
  ASSUME NEW S \in SUBSET Job, Cardinality(S) <= Slots, NEW j \in Job
  PROVE  /\ Cardinality(S) < Slots => Cardinality(S \cup {j}) <= Slots
         /\ Cardinality(S \ {j}) <= Slots
<1>1. IsFiniteSet(S)
  BY PoolAssumption, FS_Subset
<1>2. Cardinality(S) \in Nat
  BY <1>1, FS_CardinalityType
<1>3. Cardinality(S \cup {j}) = IF j \in S THEN Cardinality(S) ELSE Cardinality(S) + 1
  BY <1>1, FS_AddElement
<1>4. Cardinality(S \ {j}) = IF j \in S THEN Cardinality(S) - 1 ELSE Cardinality(S)
  BY <1>1, FS_RemoveElement
<1> QED
  BY <1>2, <1>3, <1>4, SlotsType, SMT

\* The pool starts in the invariant.
LEMMA PoolInitially == PoolInit => PoolInv
<1> SUFFICES ASSUME PoolInit PROVE PoolInv
  OBVIOUS
<1>1. PoolTypeOK
  BY DEF PoolInit, PoolTypeOK
<1>2. Cardinality(sem) <= Slots
  BY FS_EmptySet, SlotsType, SMT DEF PoolInit
<1>3. \A j \in Job : /\ poolPc[j] \in Holding => j \in sem
                     /\ j \in running <=> poolPc[j] \in Tracked
                     /\ j \in wg <=> poolPc[j] \in Counted
  BY DEF PoolInit, Holding, Tracked, Counted
<1>4. ShutdownCancelsAll /\ AfterStop
  BY DEF PoolInit, ShutdownCancelsAll, AfterStop
<1> QED
  BY <1>1, <1>2, <1>3, <1>4 DEF PoolInv, Bookkeeping

\* Every step of the pool keeps the invariant.
LEMMA PoolStep == PoolInv /\ [PoolNext]_poolVars => PoolInv'
<1> SUFFICES ASSUME PoolInv, [PoolNext]_poolVars PROVE PoolInv'
  OBVIOUS
<1> USE DEF PoolInv
<1>1. PoolTypeOK'
  BY DEF PoolTypeOK, PoolNext, poolVars, SubmitStep, CleanupStep, JobGoto, Check, GiveUp, Acquire,
         Register, BackOut, JobReturns, Untrack, JobDone, Release, Cancel,
         CallerCanceled, Shutdown, ShutdownDone, ShutdownGivesUp
<1>2. (Cardinality(sem) <= Slots)'
  <2>1. sem' = sem \/ (\E j \in Job : sem' = sem \ {j})
          \/ (\E j \in Job : Cardinality(sem) < Slots /\ sem' = sem \cup {j})
    BY DEF PoolNext, poolVars, SubmitStep, CleanupStep, Check, GiveUp, Acquire, Register,
           BackOut, JobReturns, Untrack, JobDone, Release, Cancel, CallerCanceled,
           Shutdown, ShutdownDone, ShutdownGivesUp
  <2>2. sem \in SUBSET Job /\ Cardinality(sem) <= Slots
    BY DEF PoolTypeOK, Bookkeeping
  <2> QED
    BY <2>1, <2>2, SemBound DEF Slots
<1>3. (\A j \in Job : /\ poolPc[j] \in Holding => j \in sem
                      /\ j \in running <=> poolPc[j] \in Tracked
                      /\ j \in wg <=> poolPc[j] \in Counted)'
  BY SMT DEF PoolTypeOK, Bookkeeping, Holding, Tracked, Counted, PoolNext, poolVars, SubmitStep,
         CleanupStep, JobGoto, Check, GiveUp, Acquire, Register, BackOut, JobReturns,
         Untrack, JobDone, Release, Cancel, CallerCanceled, Shutdown, ShutdownDone,
         ShutdownGivesUp
<1>4. ShutdownCancelsAll'
  <2> SUFFICES ASSUME isShutdown', NEW j \in Job, poolPc'[j] = "running"
               PROVE  j \in jobCtx'
    BY <1>1 DEF PoolTypeOK, ShutdownCancelsAll, Executing
  <2>1. jobCtx \subseteq jobCtx'
    BY DEF PoolNext, poolVars, SubmitStep, CleanupStep, Check, GiveUp, Acquire, Register,
           BackOut, JobReturns, Untrack, JobDone, Release, Cancel, CallerCanceled,
           Shutdown, ShutdownDone, ShutdownGivesUp
  <2>2. CASE isShutdown
    <3>1. poolPc[j] = "running"
      BY <2>2 DEF PoolTypeOK, PoolNext, poolVars, SubmitStep, CleanupStep, JobGoto, Check,
                  GiveUp, Acquire, Register, BackOut, JobReturns, Untrack, JobDone, Release,
                  Cancel, CallerCanceled, Shutdown, ShutdownDone, ShutdownGivesUp
    <3> QED
      BY <2>1, <2>2, <3>1 DEF ShutdownCancelsAll, Executing
  <2>3. CASE ~isShutdown
    <3>1. jobCtx' = jobCtx \cup running /\ poolPc' = poolPc
      BY <2>3 DEF PoolTypeOK, PoolNext, poolVars, SubmitStep, CleanupStep, Check, GiveUp,
                  Acquire, Register, BackOut, JobReturns, Untrack, JobDone, Release, Cancel,
                  CallerCanceled, Shutdown, ShutdownDone, ShutdownGivesUp
    <3>2. j \in running
      BY <3>1 DEF Bookkeeping, Tracked
    <3> QED
      BY <3>1, <3>2
  <2> QED
    BY <2>2, <2>3
<1>5. AfterStop'
  BY DEF PoolTypeOK, AfterStop, PoolNext, poolVars, SubmitStep, CleanupStep, Check, GiveUp,
         Acquire, Register, BackOut, JobReturns, Untrack, JobDone, Release, Cancel,
         CallerCanceled, Shutdown, ShutdownDone, ShutdownGivesUp
<1> QED
  BY <1>1, <1>2, <1>3, <1>4, <1>5 DEF Bookkeeping

\* The jobs that run hold a slot each, so there are no more than slots.
LEMMA RunningBound == PoolInv => Concurrency
<1> SUFFICES ASSUME PoolInv PROVE Cardinality(Executing) <= Slots
  BY DEF Concurrency
<1>1. Executing \subseteq sem /\ sem \in SUBSET Job /\ Cardinality(sem) <= Slots
  BY DEF PoolInv, PoolTypeOK, Bookkeeping, Executing, Holding
<1>2. IsFiniteSet(sem)
  BY <1>1, PoolAssumption, FS_Subset
<1>3. IsFiniteSet(Executing) /\ Cardinality(Executing) <= Cardinality(sem)
  BY <1>1, <1>2, FS_Subset
<1>4. Cardinality(sem) \in Nat /\ Cardinality(Executing) \in Nat
  BY <1>2, <1>3, FS_CardinalityType
<1> QED
  BY <1>1, <1>3, <1>4, SlotsType, SMT

\* Pool.Submit and Pool.Shutdown keep the bookkeeping of slots, map and wait
\* group together, for every interleaving.
THEOREM PoolInvariant == PoolSpec => []PoolInv
BY PoolInitially, PoolStep, PTL DEF PoolSpec

\* No more than MaxConcurrent jobs run at once.
THEOREM PoolBounded == PoolSpec => []Concurrency
BY PoolInvariant, RunningBound, PTL

\* After a Shutdown that returned nil no job runs, now or later.
THEOREM PoolDrained == PoolSpec => []DrainedStaysDrained
<1>1. PoolInv => DrainedStaysDrained
  BY DEF PoolInv, PoolTypeOK, Bookkeeping, AfterStop, DrainedStaysDrained, Executing, Counted
<1> QED
  BY PoolInvariant, <1>1, PTL

\* Every job that runs after the shutdown signal has been canceled.
THEOREM PoolCancels == PoolSpec => []ShutdownCancelsAll
<1>1. PoolInv => ShutdownCancelsAll
  BY DEF PoolInv
<1> QED
  BY PoolInvariant, <1>1, PTL

\* All three together: what callers of Submit and Shutdown rely on.
THEOREM PoolSafe == PoolSpec => []PoolSafety
BY PoolBounded, PoolDrained, PoolCancels, PTL DEF PoolSafety

-----------------------------------------------------------------------------
(* Group                                                                   *)

\* Stop has been called on the last Len(stops) runnables, the latest first.
StopOrder ==
  /\ Len(stops) <= N
  /\ \A i \in 1..Len(stops) : stops[i] = N + 1 - i
  /\ inStop => pc = "stop"

\* Past the stop phase every Stop was called, and past the wait every Start is
\* back unless the timer fired.
Phases ==
  /\ pc = "select" => stops = <<>>
  /\ pc \in {"wait", "close", "closed"} => Len(stops) = N
  /\ pc \in {"close", "closed"} => timedOut \/ \A r \in Runnable : Returned(r)

\* A failure in the channel or in trigger is one that was sent, and without it
\* only a signal takes Run out of its select.
Causes ==
  /\ \A i \in 1..Len(errCh) : start[errCh[i]] \in {"sent", "down"}
  /\ trigger # NoErr => start[trigger] \in {"sent", "down"}
  /\ pc = "select" => trigger = NoErr
  /\ pc # "select" /\ trigger = NoErr => sig
  /\ result # NoErr => result = trigger
  /\ pc \in {"close", "closed"} /\ result = NoErr => sig

GroupInv == GroupTypeOK /\ StopOrder /\ Phases /\ Causes

\* No runnable has the number that stands for no error.
LEMMA RunnableType == Runnable \subseteq Nat \ {0} /\ NoErr \notin Runnable
BY GroupAssumption, SMT DEF Runnable, NoErr

\* The group starts in the invariant.
LEMMA GroupInitially == GroupInit => GroupInv
<1> SUFFICES ASSUME GroupInit PROVE GroupInv
  OBVIOUS
<1>1. stops = <<>> /\ errCh = <<>> /\ Len(stops) = 0 /\ Len(errCh) = 0
  BY DEF GroupInit
<1>2. GroupTypeOK
  <2>1. stops \in Seq(Runnable) /\ errCh \in Seq(Runnable)
    BY <1>1, SMT
  <2>2. start \in [Runnable -> StartState]
    BY DEF GroupInit, StartState
  <2> QED
    BY <2>1, <2>2 DEF GroupInit, GroupTypeOK
<1>3. StopOrder /\ Phases /\ Causes
  BY <1>1, GroupAssumption, SMT DEF GroupInit, StopOrder, Phases, Causes
<1> QED
  BY <1>2, <1>3 DEF GroupInv

\* The steps of a runnable: it moves on in its own goroutine, and may send its
\* failure or cancel the group.
LEMMA RunnableKeeps ==
  ASSUME GroupInv, NEW r \in Runnable, RunnableStep(r) \/ Finish(r) \/ Fail(r)
  PROVE  GroupInv'
<1> USE RunnableType DEF GroupInv
<1>1. UNCHANGED main /\ sig' = sig /\ setup' = setup
  BY DEF RunnableStep, Begin, Return, Send, CancelGroup, Finish, Fail
<1>2. GroupTypeOK'
  <2>1. errCh' = errCh \/ errCh' = Append(errCh, r)
    BY DEF RunnableStep, Begin, Return, Send, CancelGroup, Finish, Fail
  <2>2. errCh' \in Seq(Runnable)
    BY <2>1, SMT DEF GroupTypeOK
  <2>3. start' \in [Runnable -> StartState] /\ canceled' \in BOOLEAN
    BY DEF GroupTypeOK, StartState, RunnableStep, Begin, Return, Send, CancelGroup,
       Finish, Fail
  <2> QED
    BY <1>1, <2>2, <2>3 DEF GroupTypeOK, main
<1>3. StopOrder'
  BY <1>1 DEF StopOrder, main
<1>4. start[r] \in {"created", "running", "failed", "sent"}
      /\ \E v \in StartState : start' = [start EXCEPT ![r] = v]
                               /\ (start[r] \in {"failed", "sent"} => v \in {"sent", "down"})
  BY DEF RunnableStep, Begin, Return, Send, CancelGroup, Finish, Fail, StartState
<1>5. \A q \in Runnable : Returned(q) => Returned(q)'
  BY <1>4 DEF Returned, GroupTypeOK
<1>6. Phases'
  BY <1>1, <1>5 DEF Phases, main
<1>7. \A q \in Runnable : start[q] \in {"sent", "down"} => start'[q] \in {"sent", "down"}
  BY <1>4 DEF GroupTypeOK
<1>8. (\A i \in 1..Len(errCh) : start[errCh[i]] \in {"sent", "down"})'
  <2>1. CASE Send(r)
    BY <2>1, <1>7, SMT DEF Send, GroupTypeOK, Causes
  <2>2. CASE ~Send(r)
    <3>1. errCh' = errCh
      BY <2>2 DEF RunnableStep, Begin, Return, Send, CancelGroup, Finish, Fail
    <3>2. \A i \in 1..Len(errCh) : errCh[i] \in Runnable /\ start[errCh[i]] \in {"sent", "down"}
      BY SMT DEF GroupTypeOK, Causes
    <3> QED
      BY <3>1, <3>2, <1>7
  <2> QED
    BY <2>1, <2>2
<1>9. Causes'
  BY <1>1, <1>7, <1>8 DEF Causes, main, GroupTypeOK
<1> QED
  BY <1>2, <1>3, <1>6, <1>9

\* The steps of app.Run and Group.Run, of the timers and of the signal.
LEMMA MainKeeps ==
  ASSUME GroupInv, Signal \/ MainStep \/ Timeout
  PROVE  GroupInv'
<1> USE RunnableType, GroupAssumption DEF GroupInv
<1>0. start' = start /\ (sig => sig') /\ setup' = setup
  BY DEF Signal, MainStep, Timeout, SelectDone, SelectErr, CallStop, StopReturns,
     StopsDone, WaitDone, Close, StopExpires, WaitTimesOut, GroupTypeOK
<1>1. GroupTypeOK'
  <2>1. stops' \in Seq(Runnable)
    <3>1. CASE CallStop
      <4>1. N - Len(stops) \in Runnable
        BY <3>1, SMT DEF CallStop, GroupTypeOK, Runnable, StopOrder
      <4> QED
        BY <3>1, <4>1, SMT DEF CallStop, GroupTypeOK
    <3>2. CASE ~CallStop
      BY <3>2 DEF GroupTypeOK, Signal, MainStep, Timeout, SelectDone, SelectErr, StopReturns,
         StopsDone, WaitDone, Close, StopExpires, WaitTimesOut, main
    <3> QED
      BY <3>1, <3>2
  <2>2. errCh' \in Seq(Runnable) /\ trigger' \in Runnable \cup {NoErr}
    <3>1. CASE SelectErr
      <4>1. Head(errCh) \in Runnable /\ Tail(errCh) \in Seq(Runnable)
        BY <3>1, SMT DEF SelectErr, GroupTypeOK
      <4> QED
        BY <3>1, <4>1 DEF SelectErr
    <3>2. CASE ~SelectErr
      BY <3>2 DEF GroupTypeOK, Signal, MainStep, Timeout, SelectDone, CallStop, StopReturns,
         StopsDone, WaitDone, Close, StopExpires, WaitTimesOut, main
    <3> QED
      BY <3>1, <3>2
  <2>3. result' \in Runnable \cup {NoErr}
    BY DEF GroupTypeOK, Signal, MainStep, Timeout, SelectDone, SelectErr, CallStop, StopReturns,
       StopsDone, WaitDone, Close, StopExpires, WaitTimesOut, main, Outcome
  <2>4. pc' \in {"select", "stop", "wait", "close", "closed"}
    BY DEF GroupTypeOK, Signal, MainStep, Timeout, SelectDone, SelectErr, CallStop, StopReturns,
       StopsDone, WaitDone, Close, StopExpires, WaitTimesOut, main
  <2>5. /\ sig' \in BOOLEAN /\ canceled' \in BOOLEAN /\ inStop' \in BOOLEAN
        /\ expired' \in BOOLEAN /\ timedOut' \in BOOLEAN /\ unsignaled' \in BOOLEAN
    BY DEF GroupTypeOK, Signal, MainStep, Timeout, SelectDone, SelectErr, CallStop, StopReturns,
       StopsDone, WaitDone, Close, StopExpires, WaitTimesOut, main
  <2> QED
    BY <1>0, <2>1, <2>2, <2>3, <2>4, <2>5 DEF GroupTypeOK
<1>2. StopOrder'
  <2>1. CASE CallStop
    <3>1. stops' = Append(stops, N - Len(stops)) /\ Len(stops) < N /\ pc' = "stop"
      BY <2>1 DEF CallStop
    <3>2. Len(stops') = Len(stops) + 1 /\ Len(stops) \in Nat
      BY <3>1, SMT DEF GroupTypeOK
    <3>3. \A i \in 1..Len(stops') :
            stops'[i] = IF i <= Len(stops) THEN stops[i] ELSE N - Len(stops)
      BY <3>1, SMT DEF GroupTypeOK
    <3> QED
      BY <3>1, <3>2, <3>3, SMT DEF StopOrder
  <2>2. CASE ~CallStop
    <3>1. stops' = stops /\ (inStop' => inStop) /\ (inStop => pc' = pc)
      BY <2>2, SMT DEF GroupTypeOK, StopOrder, Signal, MainStep, Timeout, SelectDone, SelectErr, StopReturns,
         StopsDone, WaitDone, Close, StopExpires, WaitTimesOut, main
    <3> QED
      BY <3>1 DEF StopOrder
  <2> QED
    BY <2>1, <2>2
<1>3. Phases'
  <2>1. \A r \in Runnable : Returned(r)' <=> Returned(r)
    BY <1>0 DEF Returned
  <2> QED
    BY <2>1 DEF GroupTypeOK, Phases, Signal, MainStep, Timeout, SelectDone, SelectErr, CallStop,
       StopReturns, StopsDone, WaitDone, Close, StopExpires, WaitTimesOut, main, AllReturned
<1>4. Causes'
  <2>1. CASE SelectErr
    <3>0. /\ trigger' = Head(errCh) /\ errCh' = Tail(errCh) /\ errCh # <<>>
          /\ result' = result /\ pc' = "stop" /\ pc = "select"
      BY <2>1 DEF SelectErr
    <3>1. Head(errCh) = errCh[1] /\ Head(errCh) \in Runnable
      BY <3>0, SMT DEF GroupTypeOK
    <3>2. \A i \in 1..Len(errCh') : errCh'[i] = errCh[i + 1] /\ i + 1 \in 1..Len(errCh)
      BY <3>0, SMT DEF GroupTypeOK
    <3>3. 1 \in 1..Len(errCh)
      BY <3>0, SMT DEF GroupTypeOK
    <3>4. result = NoErr
      BY <2>1 DEF Causes, SelectErr
    <3> QED
      BY <1>0, <3>0, <3>1, <3>2, <3>3, <3>4 DEF Causes, GroupTypeOK
  <2>2. CASE ~SelectErr
    BY <1>0, <2>2 DEF GroupTypeOK, Causes, Signal, MainStep, Timeout, SelectDone, CallStop,
       StopReturns, StopsDone, WaitDone, Close, StopExpires, WaitTimesOut, main, Outcome
  <2> QED
    BY <2>1, <2>2
<1> QED
  BY <1>1, <1>2, <1>3, <1>4

\* Every step keeps the invariant.
LEMMA GroupStep == GroupInv /\ [GroupNext]_groupVars => GroupInv'
<1> SUFFICES ASSUME GroupInv, [GroupNext]_groupVars PROVE GroupInv'
  OBVIOUS
<1>1. CASE UNCHANGED groupVars
  BY <1>1, SMT DEF GroupInv, GroupTypeOK, StopOrder, Phases, Causes, Returned, groupVars
<1>2. CASE \E r \in Runnable : RunnableStep(r) \/ Finish(r) \/ Fail(r)
  BY <1>2, RunnableKeeps
<1>3. CASE Signal \/ MainStep \/ Timeout
  BY <1>3, MainKeeps
<1> QED
  BY <1>1, <1>2, <1>3 DEF GroupNext

\* Group.Run and app.Run keep their invariant under every interleaving of the
\* runnables, the signal and the timers.
THEOREM GroupInvariant == GroupSpec => []GroupInv
BY GroupInitially, GroupStep, PTL DEF GroupSpec

\* The resources are released after every Stop, and after every Start unless
\* the wait timed out.
THEOREM GroupClosedLast == GroupSpec => []ClosedLast
<1>1. GroupInv => ClosedLast
  <2> SUFFICES ASSUME GroupInv, pc = "closed"
               PROVE  /\ \A r \in Runnable : Stopped(r)
                      /\ ~inStop
                      /\ timedOut \/ \A r \in Runnable : Returned(r)
    BY DEF ClosedLast
  <2>1. ASSUME NEW r \in Runnable PROVE Stopped(r)
    <3>1. Len(stops) = N /\ N + 1 - r \in 1..N
      BY GroupAssumption, SMT DEF GroupInv, Phases, Runnable
    <3>2. stops[N + 1 - r] = r
      BY <3>1, GroupAssumption, SMT DEF GroupInv, StopOrder, Runnable
    <3> QED
      BY <3>1, <3>2 DEF Stopped
  <2> QED
    BY <2>1 DEF GroupInv, StopOrder, Phases
<1> QED
  BY GroupInvariant, <1>1, PTL

\* app.Run returns nil only after a signal, and an error only if its runnable
\* has failed.
THEOREM GroupResult == GroupSpec => []ResultHasCause
<1>1. GroupInv => ResultHasCause
  BY DEF GroupInv, Causes, ResultHasCause
<1> QED
  BY GroupInvariant, <1>1, PTL

\* Both together: what a caller of app.Run relies on.
THEOREM GroupSafe == GroupSpec => []GroupSafety
BY GroupClosedLast, GroupResult, PTL DEF GroupSafety

-----------------------------------------------------------------------------
(* WithinTran                                                              *)

\* The committed updates of call c: all of its rows n times.
Kept(c, n) == \A r \in Rows(c) : db[r][c] = n

\* The transaction of c against its place in the code.
TxInv(c) ==
  /\ wrote[c] \subseteq Rows(c)
  /\ tx[c] # "open" => wrote[c] = {}
  /\ tx[c] \in {"open", "aborted"} => tranPc[c] \in {"fn", "commit", "rollback"}
  /\ tranPc[c] = "commit" => err[c] = "none" /\ (tx[c] = "open" => wrote[c] = Rows(c))
  /\ tranPc[c] = "rollback" => err[c] # "none"
  /\ tranPc[c] = "sleep" => err[c] = "retryable" /\ attempt[c] # Budget

\* What is in the database against what Do knows: nothing until an attempt has
\* committed, and no further attempt once one has or may have.
DbInv(c) ==
  /\ tranPc[c] \notin {"decide", "returned"} => Kept(c, 0) /\ ~unsure[c]
  /\ tranPc[c] \in {"decide", "returned"} =>
       \/ err[c] = "none" /\ ~unsure[c] /\ Kept(c, 1)
       \/ err[c] # "none" /\ ~unsure[c] /\ Kept(c, 0)
       \/ err[c] = "terminal" /\ unsure[c] /\ (Kept(c, 0) \/ Kept(c, 1))

TranInv == TranTypeOK /\ \A c \in Call : TxInv(c) /\ DbInv(c)

\* A call updates only rows of the table.
LEMMA RowsType == \A c \in Call : Rows(c) \subseteq Row
BY TranAssumption, SMT DEF Rows

\* The budget of Do is at least one attempt.
LEMMA BudgetType == Budget \in Nat \ {0}
BY TranAssumption, SMT DEF Budget

\* Before the first attempt the database is empty.
LEMMA TranInitially == TranInit => TranInv
BY RowsType, BudgetType, SMT DEF TranInit, TranInv, TranTypeOK, TxInv, DbInv, Kept, PC, Err

\* The types are kept by every step.
LEMMA NextType == TranInv /\ [TranNext]_tranVars => TranTypeOK'
<1> SUFFICES ASSUME TranInv, [TranNext]_tranVars PROVE TranTypeOK'
  OBVIOUS
<1> USE RowsType, BudgetType DEF TranInv
<1>1. CASE UNCHANGED tranVars
  BY <1>1 DEF TranTypeOK, tranVars
<1>2. ASSUME NEW c \in Call, Start(c) \/ CancelCall(c) \/ Step(c) PROVE TranTypeOK'
  <2>1. db' \in [Row -> [Call -> Nat]]
    <3>1. db' = db \/ db' = [r \in Row |-> IF r \in wrote[c] THEN [db[r] EXCEPT ![c] = @ + 1]
                                                             ELSE db[r]]
      BY <1>2 DEF Start, CancelCall, Step, BeginTx, BeginFails, Update, Deadlock, FnReturns,
         Commit, CommitFails, CommitLost, Rollback, DoReturns, DoSleeps, Again,
         SleepCanceled, CtxRollback, End
    <3> QED
      BY <3>1, SMT DEF TranTypeOK
  <2>2. attempt' \in [Call -> 0..Budget]
    <3>1. CASE Again(c)
      <4>1. tranPc[c] = "sleep" /\ attempt' = [attempt EXCEPT ![c] = @ + 1]
        BY <3>1 DEF Again
      <4>2. attempt[c] \in 0..Budget /\ attempt[c] # Budget
        BY <4>1 DEF TranTypeOK, TxInv
      <4>3. attempt[c] + 1 \in 0..Budget
        BY <4>2, SMT
      <4> QED
        BY <4>1, <4>3 DEF TranTypeOK
    <3>2. CASE Start(c)
      BY <3>2, SMT DEF Start, TranTypeOK
    <3>3. CASE ~Again(c) /\ ~Start(c)
      BY <1>2, <3>3 DEF CancelCall, Step, BeginTx, BeginFails, Update, Deadlock, FnReturns,
         Commit, CommitFails, CommitLost, Rollback, DoReturns, DoSleeps,
         SleepCanceled, CtxRollback, End, TranTypeOK
    <3> QED
      BY <3>1, <3>2, <3>3
  <2>3. tranPc' \in [Call -> PC]
    BY <1>2 DEF TranTypeOK, PC, Start, CancelCall, Step, BeginTx, BeginFails, Update,
         Deadlock, FnReturns, Commit, CommitFails, CommitLost, Rollback, DoReturns,
         DoSleeps, Again, SleepCanceled, CtxRollback, End, CallGoto
  <2>4. tx' \in [Call -> {"none", "open", "aborted", "done"}]
    BY <1>2 DEF TranTypeOK, Start, CancelCall, Step, BeginTx, BeginFails, Update,
         Deadlock, FnReturns, Commit, CommitFails, CommitLost, Rollback, DoReturns,
         DoSleeps, Again, SleepCanceled, CtxRollback, End, CallGoto
  <2>5. wrote' \in [Call -> SUBSET Row]
    BY <1>2, SMT DEF TranTypeOK, Start, CancelCall, Step, BeginTx, BeginFails, Update,
         Deadlock, FnReturns, Commit, CommitFails, CommitLost, Rollback, DoReturns,
         DoSleeps, Again, SleepCanceled, CtxRollback, End, CallGoto
  <2>6. err' \in [Call -> Err]
    BY <1>2 DEF TranTypeOK, Err, Start, CancelCall, Step, BeginTx, BeginFails, Update,
         Deadlock, FnReturns, Commit, CommitFails, CommitLost, Rollback, DoReturns,
         DoSleeps, Again, SleepCanceled, CtxRollback, End, CallGoto
  <2>7. tranCanceled' \in [Call -> BOOLEAN] /\ unsure' \in [Call -> BOOLEAN]
    BY <1>2 DEF TranTypeOK, Start, CancelCall, Step, BeginTx, BeginFails, Update,
         Deadlock, FnReturns, Commit, CommitFails, CommitLost, Rollback, DoReturns,
         DoSleeps, Again, SleepCanceled, CtxRollback, End, CallGoto
  <2> QED
    BY <2>1, <2>2, <2>3, <2>4, <2>5, <2>6, <2>7 DEF TranTypeOK
<1> QED
  BY <1>1, <1>2 DEF TranNext

\* A step of one call leaves the state of the other calls alone, its rows in
\* the database included.
LEMMA OthersKept ==
  ASSUME TranInv, NEW c \in Call, Start(c) \/ CancelCall(c) \/ Step(c),
         NEW d \in Call, d # c
  PROVE  /\ tx'[d] = tx[d] /\ wrote'[d] = wrote[d] /\ tranPc'[d] = tranPc[d]
         /\ attempt'[d] = attempt[d] /\ err'[d] = err[d] /\ unsure'[d] = unsure[d]
         /\ \A r \in Row : db'[r][d] = db[r][d]
<1>1. /\ tx'[d] = tx[d] /\ wrote'[d] = wrote[d] /\ tranPc'[d] = tranPc[d]
      /\ attempt'[d] = attempt[d] /\ err'[d] = err[d] /\ unsure'[d] = unsure[d]
  BY DEF TranInv, TranTypeOK, Start, CancelCall, Step, BeginTx, BeginFails, Update,
         Deadlock, FnReturns, Commit, CommitFails, CommitLost, Rollback, DoReturns,
         DoSleeps, Again, SleepCanceled, CtxRollback, End, CallGoto
<1>2. \A r \in Row : db'[r][d] = db[r][d]
  <2>1. db' = db \/ db' = [r \in Row |-> IF r \in wrote[c] THEN [db[r] EXCEPT ![c] = @ + 1]
                                                           ELSE db[r]]
    BY DEF Start, CancelCall, Step, BeginTx, BeginFails, Update,
         Deadlock, FnReturns, Commit, CommitFails, CommitLost, Rollback, DoReturns,
         DoSleeps, Again, SleepCanceled, CtxRollback, End, CallGoto
  <2> QED
    BY <2>1, SMT DEF TranInv, TranTypeOK
<1> QED
  BY <1>1, <1>2

\* A committed transaction adds one update of each of its rows.
LEMMA EndKeeps ==
  ASSUME TranInv, NEW c \in Call, End(c, TRUE), wrote[c] = Rows(c), Kept(c, 0)
  PROVE  Kept(c, 1)'
<1> SUFFICES ASSUME NEW r \in Rows(c) PROVE db'[r][c] = 1
  BY DEF Kept, Rows
<1>1. r \in Row /\ db[r][c] = 0 /\ r \in wrote[c]
  BY RowsType DEF Kept
<1>2. db' = [s \in Row |-> IF s \in wrote[c] THEN [db[s] EXCEPT ![c] = @ + 1] ELSE db[s]]
  BY DEF End
<1>3. db'[r][c] = db[r][c] + 1
  BY <1>1, <1>2, SMT DEF TranInv, TranTypeOK
<1> QED
  BY <1>1, <1>3, SMT

\* The invariant of the call that takes the step.
LEMMA OwnStep ==
  ASSUME TranInv, NEW c \in Call, Start(c) \/ CancelCall(c) \/ Step(c)
  PROVE  (TxInv(c) /\ DbInv(c))'
<1> USE RowsType, BudgetType DEF TranInv, TranTypeOK, TxInv, DbInv, CallGoto
<1>0. Rows(c)' = Rows(c)
  BY DEF Rows
<1>1. CASE Start(c)
  BY <1>0, <1>1 DEF Start, Kept
<1>2. CASE CancelCall(c)
  BY <1>0, <1>2 DEF CancelCall, Kept
<1>3. CASE BeginTx(c) \/ BeginFails(c)
  BY <1>0, <1>3, SMT DEF BeginTx, BeginFails, Kept
<1>4. CASE Update(c) \/ Deadlock(c)
  <2>1. tranPc[c] = "fn" /\ tx[c] = "open"
    BY <1>4 DEF Update, Deadlock, Deadlocked, Waits, Wants
  <2> QED
    BY <1>0, <1>4, <2>1, SMT DEF Update, Deadlock, Kept
<1>5. ASSUME NEW e \in Err, FnReturns(c, e) PROVE (TxInv(c) /\ DbInv(c))'
  BY <1>0, <1>5 DEF FnReturns, Kept, Err
<1>6. CASE Commit(c)
  <2>1. Kept(c, 1)'
    BY <1>6, EndKeeps DEF Commit
  <2> QED
    BY <1>0, <1>6, <2>1 DEF Commit, End
<1>7. ASSUME NEW e \in {"retryable", "terminal"}, CommitFails(c, e)
      PROVE (TxInv(c) /\ DbInv(c))'
  BY <1>0, <1>7 DEF CommitFails, End, Kept
<1>8. ASSUME NEW keep \in BOOLEAN, CommitLost(c, keep) PROVE (TxInv(c) /\ DbInv(c))'
  <2>1. keep => Kept(c, 1)'
    BY <1>8, EndKeeps DEF CommitLost
  <2>2. ~keep => Kept(c, 0)'
    BY <1>0, <1>8 DEF CommitLost, End, Kept
  <2> QED
    BY <1>0, <1>8, <2>1, <2>2 DEF CommitLost, End
<1>9. CASE Rollback(c)
  BY <1>0, <1>9 DEF Rollback, End, Kept
<1>10. CASE DoReturns(c) \/ DoSleeps(c)
  BY <1>0, <1>10, SMT DEF DoReturns, DoSleeps, Terminal, LastAttempt, Kept
<1>11. CASE Again(c) \/ SleepCanceled(c)
  BY <1>0, <1>11, SMT DEF Again, SleepCanceled, Kept
<1>12. CASE CtxRollback(c)
  BY <1>0, <1>12 DEF CtxRollback, End, Kept
<1> QED
  BY <1>1, <1>2, <1>3, <1>4, <1>5, <1>6, <1>7, <1>8, <1>9, <1>10, <1>11, <1>12 DEF Step

\* Every step keeps the invariant.
LEMMA TranStep == TranInv /\ [TranNext]_tranVars => TranInv'
<1> SUFFICES ASSUME TranInv, [TranNext]_tranVars PROVE TranInv'
  OBVIOUS
<1>1. TranTypeOK'
  BY NextType
<1>2. ASSUME NEW d \in Call PROVE (TxInv(d) /\ DbInv(d))'
  <2>1. CASE UNCHANGED tranVars
    BY <2>1 DEF TranInv, TxInv, DbInv, Kept, Rows, Budget, tranVars
  <2>2. ASSUME NEW c \in Call, Start(c) \/ CancelCall(c) \/ Step(c)
        PROVE (TxInv(d) /\ DbInv(d))'
    <3>1. CASE c = d
      BY <2>2, <3>1, OwnStep
    <3>2. CASE c # d
      <4>1. /\ tx'[d] = tx[d] /\ wrote'[d] = wrote[d] /\ tranPc'[d] = tranPc[d]
            /\ attempt'[d] = attempt[d] /\ err'[d] = err[d] /\ unsure'[d] = unsure[d]
            /\ \A r \in Row : db'[r][d] = db[r][d]
        BY <2>2, <3>2, OthersKept
      <4> QED
        BY <4>1, RowsType DEF TranInv, TxInv, DbInv, Kept, Rows, Budget
    <3> QED
      BY <3>1, <3>2
  <2> QED
    BY <2>1, <2>2 DEF TranNext
<1> QED
  BY <1>1, <1>2 DEF TranInv

\* WithinTran keeps its invariant under every interleaving of calls, deadlocks,
\* cancellations and lost answers.
THEOREM TranInvariant == TranSpec => []TranInv
BY TranInitially, TranStep, PTL DEF TranSpec

\* The updates of a call are committed all or not at all, and at most once,
\* however often its function runs.
THEOREM TranOnce == TranSpec => []AllOnceOrNone
<1>1. TranInv => AllOnceOrNone
  BY DEF TranInv, DbInv, Kept, AllOnceOrNone
<1> QED
  BY TranInvariant, <1>1, PTL

\* The result of a call tells whether its updates are there, unless the answer
\* to its COMMIT was lost.
THEOREM TranResult == TranSpec => []ResultIsTrue
<1>1. TranInv => ResultIsTrue
  BY DEF TranInv, DbInv, Kept, ResultIsTrue
<1> QED
  BY TranInvariant, <1>1, PTL

\* No path out of an attempt, an error, a panic or a tranCanceled context, leaves a
\* transaction open or a row locked.
THEOREM TranReleases == TranSpec => []NothingHeld
<1>1. TranInv => NothingHeld
  BY DEF TranInv, TranTypeOK, TxInv, NothingHeld
<1> QED
  BY TranInvariant, <1>1, PTL

\* All three together: what a caller of WithinTran relies on.
THEOREM TranSafe == TranSpec => []TranSafety
BY TranOnce, TranResult, TranReleases, PTL DEF TranSafety
=============================================================================
