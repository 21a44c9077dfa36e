----------------------------- MODULE QueueLive -----------------------------
(***************************************************************************)
(* Progress of the task queue.  The same code as Queue, without clocks: a  *)
(* timestamp is reduced to what a claim asks of it.                        *)
(*                                                                         *)
(*   run_at     a task waits, or it is due and stands in line; a claim     *)
(*              takes tasks in run_at order, the order they fell due in    *)
(*   leased_at  a lease is live or has run out.  It runs out only when no  *)
(*              worker holds the task any more: for workers that obey      *)
(*              their deadlines that is MarksUnderLease of Queue           *)
(*                                                                         *)
(* Crashes, lost answers and failures of a healthy task happen a bounded   *)
(* number of times; a poisoned task fails every time.                      *)
(***************************************************************************)
EXTENDS Naturals, Sequences, SequencesExt

CONSTANTS Task, NoTask, Worker,
          Setup   \* the queues: their Config, how a task fails every time,
                  \* and how many faults happen; maxAttempts 0 is no limit

VARIABLES setup,      \* the queue that runs
          state,      \* "new", "live", "dead" or "gone"
          line,       \* the live tasks that are due, in run_at order
          lease,      \* "none", "live" or "expired"
          attempts,   \* counted only when there is a budget
          pc, items, cur, err,
          begun,      \* an item of the batch has been handled
          faults

table == <<state, line, lease, attempts>>
loop == <<pc, items, cur, err, begun>>
vars == <<setup, table, loop, faults>>

Init ==
  /\ setup \in Setup
  /\ state = [t \in Task |-> "new"]
  /\ line = <<>>
  /\ lease = [t \in Task |-> "none"]
  /\ attempts = [t \in Task |-> 0]
  /\ pc = [w \in Worker |-> IF w \in setup.workers THEN "idle" ELSE "off"]
  /\ items = [w \in Worker |-> <<>>]
  /\ cur = [w \in Worker |-> NoTask]
  /\ err = [w \in Worker |-> "ok"]
  /\ begun = [w \in Worker |-> FALSE]
  /\ faults = 0

Fault == faults < setup.maxFaults /\ faults' = faults + 1

-----------------------------------------------------------------------------
\* A producer schedules t, due now or after a delay.
Schedule(t) ==
  /\ state[t] = "new"
  /\ state' = [state EXCEPT ![t] = "live"]
  /\ line' \in {line, Append(line, t)}
  /\ UNCHANGED <<setup, lease, attempts, loop, faults>>

\* The run_at of a waiting task passes.
FallsDue(t) ==
  /\ state[t] = "live" /\ ~Contains(line, t)
  /\ line' = Append(line, t)
  /\ UNCHANGED <<setup, state, lease, attempts, loop, faults>>

Held(t) == \E w \in Worker : t = cur[w] \/ Contains(items[w], t)

LeaseRunsOut(t) ==
  /\ lease[t] = "live" /\ ~Held(t)
  /\ lease' = [lease EXCEPT ![t] = "expired"]
  /\ UNCHANGED <<setup, state, line, attempts, loop, faults>>

-----------------------------------------------------------------------------
\* What a claim finds, in its order.
Claimable == SelectSeq(line, LAMBDA t : lease[t] # "live")

Leases(ts, l) ==
  lease' = [t \in Task |-> IF Contains(ts, t) THEN l ELSE lease[t]]

\* The claim leases the first Batch tasks; its answer may be lost.
Claim(w, answered) ==
  /\ pc[w] = "idle" /\ Claimable # <<>>
  /\ LET n == IF Len(Claimable) > setup.batch THEN setup.batch
                                              ELSE Len(Claimable)
         batch == SubSeq(Claimable, 1, n)
     IN  /\ Leases(batch, "live")
         /\ IF answered
            THEN /\ items' = [items EXCEPT ![w] = batch]
                 /\ pc' = [pc EXCEPT ![w] = "batch"]
                 /\ UNCHANGED faults
            ELSE Fault /\ UNCHANGED <<items, pc>>
  /\ begun' = [begun EXCEPT ![w] = FALSE]
  /\ UNCHANGED <<setup, state, line, attempts, cur, err>>

StartItem(w) ==
  /\ pc[w] = "batch" /\ items[w] # <<>>
  /\ cur' = [cur EXCEPT ![w] = Head(items[w])]
  /\ items' = [items EXCEPT ![w] = Tail(@)]
  /\ pc' = [pc EXCEPT ![w] = "handling"]
  /\ UNCHANGED <<setup, table, err, begun, faults>>

\* A poisoned task fails in its way; a healthy one succeeds, but for faults.
HandleReturns(w, o) ==
  /\ pc[w] = "handling"
  /\ IF setup.poison[cur[w]] # "none"
     THEN o = setup.poison[cur[w]] /\ UNCHANGED faults
     ELSE IF o = "ok" THEN UNCHANGED faults ELSE Fault
  /\ err' = [err EXCEPT ![w] = o]
  /\ begun' = [begun EXCEPT ![w] = TRUE]
  /\ pc' = [pc EXCEPT ![w] = "marking"]
  /\ UNCHANGED <<setup, table, items, cur>>

\* The batch goes on after a mark, unless the error halts it.
AfterMark(w) ==
  /\ cur' = [cur EXCEPT ![w] = NoTask]
  /\ err' = [err EXCEPT ![w] = "ok"]
  /\ pc' = [pc EXCEPT ![w] = IF err[w] = "halt" THEN "releasing" ELSE "batch"]
  /\ UNCHANGED <<items, begun>>

\* markDone deletes the row.
MarkDone(w) ==
  /\ pc[w] = "marking" /\ err[w] = "ok"
  /\ state' = [state EXCEPT ![cur[w]] = "gone"]
  /\ line' = SelectSeq(line, LAMBDA t : t # cur[w])
  /\ lease' = [lease EXCEPT ![cur[w]] = "none"]
  /\ AfterMark(w)
  /\ UNCHANGED <<setup, attempts, faults>>

Exhausted(n) == setup.maxAttempts > 0 /\ n >= setup.maxAttempts

\* Mutant: a failed task keeps its run_at.
MarkFailedInPlace(w) ==
  /\ pc[w] = "marking" /\ err[w] # "ok"
  /\ lease' = [lease EXCEPT ![cur[w]] = "none"]
  /\ AfterMark(w)
  /\ UNCHANGED <<setup, state, line, attempts, faults>>

\* markFailed: dead when the budget is spent, else due again after the backoff.
MarkFailed(w) ==
  /\ pc[w] = "marking" /\ err[w] # "ok"
  /\ LET t == cur[w]
         n == IF setup.maxAttempts > 0 THEN attempts[t] + 1 ELSE 0
     IN  /\ attempts' = [attempts EXCEPT ![t] = n]
         /\ state' = [state EXCEPT ![t] = IF Exhausted(n) THEN "dead" ELSE @]
         /\ line' = SelectSeq(line, LAMBDA u : u # t)
         /\ lease' = [lease EXCEPT ![t] = "none"]
  /\ AfterMark(w)
  /\ UNCHANGED <<setup, faults>>

\* The mark is lost: the row stays leased.
MarkError(w) ==
  /\ pc[w] = "marking"
  /\ Fault
  /\ AfterMark(w)
  /\ UNCHANGED <<setup, table>>

\* The batch is over; or it has run BatchTimeout, or the loop is canceled, and
\* its rest is released.  A claim is answered well within BatchTimeout, so the
\* first item is handled.
StopBatch(w) ==
  /\ pc[w] = "batch" /\ (items[w] = <<>> \/ begun[w])
  /\ pc' = [pc EXCEPT ![w] = "releasing"]
  /\ UNCHANGED <<setup, table, items, cur, err, begun, faults>>

\* release hands the rest back as it was; when it fails the rest stays leased.
Release(w, ok) ==
  /\ pc[w] = "releasing"
  /\ IF ok
     THEN /\ Leases(items[w], "none")
          /\ UNCHANGED faults
     ELSE Fault /\ UNCHANGED lease
  /\ items' = [items EXCEPT ![w] = <<>>]
  /\ pc' = [pc EXCEPT ![w] = "idle"]
  /\ UNCHANGED <<setup, state, line, attempts, cur, err, begun>>

Crash(w) ==
  /\ pc[w] \notin {"down", "off"}
  /\ Fault
  /\ pc' = [pc EXCEPT ![w] = "down"]
  /\ items' = [items EXCEPT ![w] = <<>>]
  /\ cur' = [cur EXCEPT ![w] = NoTask]
  /\ err' = [err EXCEPT ![w] = "ok"]
  /\ UNCHANGED <<setup, table, begun>>

Restart(w) ==
  /\ pc[w] = "down"
  /\ pc' = [pc EXCEPT ![w] = "idle"]
  /\ UNCHANGED <<setup, table, items, cur, err, begun, faults>>

Work(w) ==
  \/ Claim(w, TRUE) \/ StartItem(w)
  \/ \E o \in {"ok", "retry", "halt"} : HandleReturns(w, o)
  \/ MarkDone(w) \/ MarkFailed(w)
  \/ StopBatch(w) \/ Release(w, TRUE) \/ Restart(w)

Next ==
  \/ \E t \in Task : Schedule(t) \/ FallsDue(t) \/ LeaseRunsOut(t)
  \/ \E w \in Worker :
       \/ Work(w) \/ Claim(w, FALSE) \/ MarkError(w) \/ Release(w, FALSE)
       \/ Crash(w)

\* The loops tick, handlers return within their timeout, the database answers
\* again, a process that died is started again, and time passes.
Spec ==
  /\ Init /\ [][Next]_vars
  /\ \A w \in Worker : WF_vars(Work(w))
  /\ \A t \in Task : WF_vars(FallsDue(t)) /\ WF_vars(LeaseRunsOut(t))

-----------------------------------------------------------------------------
\* Every scheduled task ends: it is handled with success or, with a budget, dead
\* after its last attempt.  No crash, lost claim, lost mark or failed release
\* leaves it leased forever, and no other task starves it.
EveryTaskEnds ==
  \A t \in Task :
    (state[t] = "live" /\ (setup.poison[t] = "none" \/ setup.maxAttempts > 0))
      ~> state[t] \in {"gone", "dead"}

\* A task that fails forever, halting its batch each time, never ends when there
\* is no budget, and still holds up no other: the healthy ones get done.
HealthyGetDone ==
  \A t \in Task :
    (state[t] = "live" /\ setup.poison[t] = "none" /\ setup.maxAttempts = 0)
      ~> state[t] = "gone"
=============================================================================
