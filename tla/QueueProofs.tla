---------------------------- MODULE QueueProofs ----------------------------
(***************************************************************************)
(* Proofs about Queue, for any number of tasks, workers and lease ids, any *)
(* timeouts and any clocks within LeaseMargin.                             *)
(***************************************************************************)
EXTENDS Queue, TLAPS

\* Most leaves are first-order; the ones with arithmetic cite SMT.
USE Zenon

Active(w) == pc[w] \in {"batch", "handling", "marking", "releasing"}

\* The items the loop of w still answers for.
Claimed(w) ==
  {i \in Item : Active(w) /\ (i \in items[w] \/ (Busy(w) /\ i = cur[w]))}

\* The age of a batch up to which a worker that keeps its deadlines needs it.
Limit == 2 * Timeout + 2 * Slack + MarkTimeout

HeldInv ==
  /\ \A w \in Worker : Active(w) => held[w] \in LeaseId
  /\ \A v, w \in Worker : v # w /\ held[v] = held[w] => held[v] = NoLease

RowInv ==
  \A t \in TaskId :
    /\ state[t] # "none" => t < nextId
    /\ state[t] = "none" => attempts[t] = 0
    /\ lease[t] # NoLease => state[t] = "live"

ItemInv ==
  \A w \in Worker :
    /\ \A i \in Claimed(w) :
         /\ i.id < nextId
         /\ lease[i.id] = held[w] => attempts[i.id] = i.attempts
    /\ \A i, j \in Claimed(w) : i.id = j.id => i = j
    /\ Busy(w) => cur[w] \notin items[w]

MarkInv ==
  \A w \in Worker : pc[w] = "marking" =>
    /\ err[w] = "ok" => cur[w].id \in succeeded
    /\ IsTerminal(err[w]) => cur[w].id \in refused
    /\ (err[w] # "ok" /\ lease[cur[w].id] = held[w]) =>
         attempts[cur[w].id] < failures[cur[w].id]

TimeInv ==
  \A w \in Worker :
    /\ (pc[w] = "claiming" \/ Active(w)) => start[w] <= Clock(w)
    /\ (w \notin Overrun /\ pc[w] = "handling") =>
         now <= due[w] /\ due[w] + Skew[w] <= start[w] + 2 * Timeout + Slack
    /\ (w \notin Overrun /\ pc[w] = "marking") =>
         now <= due[w] /\ due[w] + Skew[w] <= start[w] + Limit

OwnInv ==
  \A w \in Worker \ Overrun : Clock(w) - start[w] <= Limit =>
    \A i \in Claimed(w) : lease[i.id] = held[w] /\ leasedAt[i.id] = start[w]

-----------------------------------------------------------------------------
(* Types.                                                                  *)

\* The zero item, the delays of Backoff and what drain leaves behind when it
\* returns have the types of TypeOK.
LEMMA Typed ==
  /\ NoItem \in Item
  /\ TaskId \subseteq Nat
  /\ Lease \in Nat
  /\ \A n \in Nat \ {0} : NextDelay(n) \in Nat
<1> USE QueueAssumption
<1>1. NoItem \in Item
  BY SMT DEF NoItem, Item, TaskId
<1>2. TaskId \subseteq Nat /\ Lease \in Nat
  BY SMT DEF TaskId, Lease
<1>3. \A n \in Nat \ {0} : NextDelay(n) \in Nat
  BY SMT DEF NextDelay
<1> QED
  BY <1>1, <1>2, <1>3

\* drain returning to pc "to" keeps the types of the local variables.
LEMMA ReturnType ==
  ASSUME TypeOK, NEW w \in Worker, NEW to \in PC, Return(w, to)
  PROVE  /\ pc' \in [Worker -> PC]
         /\ start' \in [Worker -> Int]
         /\ items' \in [Worker -> SUBSET Item]
         /\ held' \in [Worker -> LeaseId \union {NoLease}]
         /\ cur' \in [Worker -> Item]
         /\ at' \in [Worker -> Int]
         /\ err' \in [Worker -> OutcomeKind]
         /\ due' \in [Worker -> Int]
  BY SMT, Typed DEF TypeOK, Return, OutcomeKind

\* Deleting rows keeps the types of the columns.
LEMMA RemoveType ==
  ASSUME TypeOK, NEW T, Remove(T)
  PROVE  /\ state' \in [TaskId -> {"none", "live", "dead"}]
         /\ key' \in [TaskId -> Key \union {NoKey}]
         /\ runAt' \in [TaskId -> Int]
         /\ attempts' \in [TaskId -> Nat]
         /\ lease' \in [TaskId -> LeaseId \union {NoLease}]
         /\ leasedAt' \in [TaskId -> Int]
         /\ doneAt' \in [TaskId -> Int]
         /\ nextId' \in Nat
  BY SMT DEF TypeOK, Remove

\* What follows a mark keeps the types of the local variables.
LEMMA AfterMarkType ==
  ASSUME TypeOK, NEW w \in Worker, AfterMark(w)
  PROVE  /\ pc' \in [Worker -> PC]
         /\ start' \in [Worker -> Int]
         /\ items' \in [Worker -> SUBSET Item]
         /\ held' \in [Worker -> LeaseId \union {NoLease}]
         /\ cur' \in [Worker -> Item]
         /\ at' \in [Worker -> Int]
         /\ err' \in [Worker -> OutcomeKind]
         /\ due' \in [Worker -> Int]
<1>1. CASE IsHalt(err[w]) /\ items[w] = {}
  BY <1>1, ReturnType DEF AfterMark, PC
<1>2. CASE ~IsHalt(err[w])
  BY SMT, <1>2, Typed DEF AfterMark, TypeOK, PC, OutcomeKind
<1>3. CASE IsHalt(err[w]) /\ items[w] # {}
  <2>1. now + MarkTimeout + Slack \in Int
    BY SMT, QueueAssumption DEF TypeOK
  <2> QED
    BY SMT, <1>3, <2>1, Typed DEF AfterMark, TypeOK, PC, OutcomeKind
<1> QED
  BY <1>1, <1>2, <1>3

\* A failed mark keeps the types of the columns.
LEMMA UpdateFailedType ==
  ASSUME TypeOK, NEW i \in Item, NEW l, NEW dead \in BOOLEAN, NEW n \in Int,
         UpdateFailed(i, l, dead, n)
  PROVE  /\ state' \in [TaskId -> {"none", "live", "dead"}]
         /\ key' \in [TaskId -> Key \union {NoKey}]
         /\ runAt' \in [TaskId -> Int]
         /\ attempts' \in [TaskId -> Nat]
         /\ lease' \in [TaskId -> LeaseId \union {NoLease}]
         /\ leasedAt' \in [TaskId -> Int]
         /\ doneAt' \in [TaskId -> Int]
         /\ nextId' \in Nat
<1>1. i.id \in TaskId /\ i.attempts \in Nat
  BY DEF Item
<1>2. NextDelay(i.attempts + 1) \in Nat
  BY SMT, <1>1, Typed
<1>3. CASE lease[i.id] = l
  BY SMT, <1>1, <1>2, <1>3 DEF UpdateFailed, UpdateRow, TypeOK
<1>4. CASE lease[i.id] # l
  BY <1>4 DEF UpdateFailed, TypeOK, table
<1> QED
  BY <1>3, <1>4

\* The initial state has the types of TypeOK.
LEMMA InitType == Init => TypeOK
  BY SMT, Typed, QueueAssumption DEF Init, TypeOK, PC, OutcomeKind

\* Every step of a loop keeps TypeOK.
LEMMA WorkerType ==
  ASSUME TypeOK, NEW w \in Worker, WorkerStep(w)
  PROVE  TypeOK'
<1> USE QueueAssumption
<1>0. Clock(w) \in Int
  BY SMT DEF Clock, TypeOK
<1>1. CASE BeginTick(w)
  BY <1>0, <1>1 DEF BeginTick, TypeOK, table, history, PC
<1>2. CASE ClaimError(w)
  BY <1>2, ReturnType DEF ClaimError, TypeOK, table, history, PC
<1>3. ASSUME NEW B \in SUBSET TaskId, NEW l \in LeaseId, NEW answered \in BOOLEAN,
             Claim(w, B, l, answered)
      PROVE  TypeOK'
  <2>1. \A t \in TaskId : RowItem(t) \in Item
    BY DEF RowItem, Item, TypeOK
  <2>2. /\ lease' \in [TaskId -> LeaseId \union {NoLease}]
        /\ leasedAt' \in [TaskId -> Int]
    BY <1>3 DEF Claim, TypeOK
  <2>3. CASE answered /\ B # {}
    <3>1. {RowItem(t) : t \in B} \subseteq Item
      BY <2>1
    <3>2. /\ pc' = [pc EXCEPT ![w] = "batch"]
          /\ items' = [items EXCEPT ![w] = {RowItem(t) : t \in B}]
          /\ held' = [held EXCEPT ![w] = l]
          /\ UNCHANGED <<start, cur, at, err, due>>
      BY <1>3, <2>3 DEF Claim
    <3>3. /\ pc' \in [Worker -> PC]
          /\ held' \in [Worker -> LeaseId \union {NoLease}]
      BY <3>2 DEF TypeOK, PC
    <3>4. items' \in [Worker -> SUBSET Item]
      BY <3>1, <3>2 DEF TypeOK
    <3> QED
      BY <1>3, <2>2, <3>2, <3>3, <3>4 DEF Claim, TypeOK, history
  <2>4. CASE ~(answered /\ B # {})
    BY <1>3, <2>2, <2>4, ReturnType DEF Claim, TypeOK, history, PC
  <2> QED
    BY <2>3, <2>4
<1>4. CASE EndBatch(w)
  BY <1>4, ReturnType DEF EndBatch, TypeOK, table, history, PC
<1>5. CASE StopBatch(w)
  BY SMT, <1>5 DEF StopBatch, TypeOK, table, history, PC
<1>6. CASE StartItem(w)
  BY SMT, <1>0, <1>6 DEF StartItem, TypeOK, table, history, PC
<1>7. ASSUME NEW o \in Outcome, HandleReturns(w, o)
      PROVE  TypeOK'
  <2>1. cur[w].id \in TaskId
    BY DEF TypeOK, Item
  <2>2. succeeded' \in SUBSET TaskId /\ refused' \in SUBSET TaskId
    BY <1>7, <2>1 DEF HandleReturns, TypeOK
  <2>5. failures' \in [TaskId -> Nat]
    <3>1. failures \in [TaskId -> Nat]
      BY DEF TypeOK
    <3>2. \/ failures' = failures
          \/ failures' = [failures EXCEPT ![cur[w].id] = failures[cur[w].id] + 1]
      BY <1>7 DEF HandleReturns
    <3> QED
      BY SMT, <2>1, <3>1, <3>2
  <2>3. pc' \in [Worker -> PC] /\ due' \in [Worker -> Int]
    BY SMT, <1>7 DEF HandleReturns, TypeOK, PC
  <2>4. err' \in [Worker -> OutcomeKind]
    BY <1>7 DEF HandleReturns, TypeOK
  <2> QED
    BY <1>7, <2>2, <2>3, <2>4, <2>5 DEF HandleReturns, TypeOK, table
<1>8. CASE TickPanics(w)
  BY <1>8, ReturnType DEF TickPanics, TypeOK, table, history, PC
<1>9. CASE MarkDone(w)
  BY <1>9, AfterMarkType, RemoveType DEF MarkDone, DeleteDone, TypeOK, history
<1>10. CASE MarkFailed(w)
  <2>1. cur[w] \in Item /\ at[w] \in Int
    BY DEF TypeOK
  <2>2. (IsTerminal(err[w]) \/ Exhausted(cur[w].attempts + 1)) \in BOOLEAN
    BY DEF IsTerminal, Exhausted
  <2> QED
    BY <1>10, <2>1, <2>2, AfterMarkType, UpdateFailedType
       DEF MarkFailed, TypeOK, history
<1>11. CASE MarkError(w)
  BY <1>11, AfterMarkType DEF MarkError, TypeOK, table, history
<1>12. CASE Release(w)
  <2>1. /\ lease' \in [TaskId -> LeaseId \union {NoLease}]
        /\ leasedAt' \in [TaskId -> Int]
        /\ UNCHANGED <<state, key, runAt, attempts, doneAt, nextId>>
    BY SMT, <1>12 DEF Release, ClearLeases, TypeOK
  <2> QED
    BY <1>12, <2>1, ReturnType DEF Release, TypeOK, history, PC
<1>13. CASE ReleaseError(w)
  BY <1>13, ReturnType DEF ReleaseError, TypeOK, table, history, PC
<1>14. CASE Cancel(w)
  BY <1>14 DEF Cancel, TypeOK, table, history
<1>15. CASE Exit(w)
  BY <1>15 DEF Exit, TypeOK, table, history, PC
<1>16. CASE Crash(w)
  BY <1>16, ReturnType DEF Crash, TypeOK, table, history, PC
<1>17. CASE Restart(w)
  BY <1>17 DEF Restart, TypeOK, table, history, PC
<1>18. CASE Cleanup(w)
  BY <1>18, RemoveType DEF Cleanup, TypeOK, loop, history
<1> QED
  BY <1>1, <1>2, <1>3, <1>4, <1>5, <1>6, <1>7, <1>8, <1>9, <1>10, <1>11, <1>12,
     <1>13, <1>14, <1>15, <1>16, <1>17, <1>18 DEF WorkerStep

\* Every step keeps TypeOK.
LEMMA NextType == TypeOK /\ [Next]_vars => TypeOK'
<1> SUFFICES ASSUME TypeOK, [Next]_vars
             PROVE  TypeOK'
  OBVIOUS
<1> USE QueueAssumption
<1>1. ASSUME NEW k \in Key \union {NoKey}, NEW d \in Delay, Schedule(k, d)
      PROVE  TypeOK'
  <2>1. /\ state' \in [TaskId -> {"none", "live", "dead"}]
        /\ key' \in [TaskId -> Key \union {NoKey}]
        /\ nextId' \in Nat
    BY SMT, <1>1 DEF Schedule, TypeOK
  <2>2. runAt' \in [TaskId -> Int]
    BY SMT, <1>1 DEF Schedule, TypeOK
  <2> QED
    BY <1>1, <2>1, <2>2 DEF Schedule, TypeOK, loop, history
<1>2. ASSUME NEW w \in Worker, WorkerStep(w)
      PROVE  TypeOK'
  BY <1>2, WorkerType
<1>3. CASE Tick
  BY SMT, <1>3 DEF Tick, TypeOK, table, loop, history
<1>4. CASE UNCHANGED vars
  BY <1>4 DEF TypeOK, vars, table, loop, history
<1> QED
  BY <1>1, <1>2, <1>3, <1>4 DEF Next

\* Type correctness of the queue: every reachable state has well-typed rows and
\* well-typed local variables of the claim loops.
THEOREM TypeCorrect == Spec => []TypeOK
  BY InitType, NextType, PTL DEF Spec

-----------------------------------------------------------------------------
(* Leases.                                                                 *)

\* A loop that drops its batch drops its lease id; the others keep theirs.
LEMMA ReturnHeld ==
  ASSUME TypeOK, HeldInv, NEW w \in Worker, NEW to \in PC,
         to \notin {"batch", "handling", "marking", "releasing"}, Return(w, to)
  PROVE  HeldInv'
  BY ZenonT(60) DEF HeldInv, Active, Return, TypeOK

\* What follows a mark keeps the lease id or drops it with the batch.
LEMMA AfterMarkHeld ==
  ASSUME TypeOK, HeldInv, NEW w \in Worker, pc[w] = "marking", AfterMark(w)
  PROVE  HeldInv'
<1>1. CASE IsHalt(err[w]) /\ items[w] = {}
  BY <1>1, ReturnHeld DEF AfterMark, PC
<1>2. CASE ~(IsHalt(err[w]) /\ items[w] = {})
  BY <1>2 DEF AfterMark, HeldInv, Active, TypeOK
<1> QED
  BY <1>1, <1>2

\* A loop in a batch holds a lease id, and no other loop holds the same one:
\* kept by every step of a loop, since a claim takes a fresh id.
LEMMA WorkerHeld ==
  ASSUME TypeOK, HeldInv, NEW w \in Worker, WorkerStep(w)
  PROVE  HeldInv'
<1> USE DEF PC
<1>1. CASE BeginTick(w)
  BY <1>1 DEF BeginTick, HeldInv, Active, TypeOK
<1>2. CASE ClaimError(w)
  BY <1>2, ReturnHeld DEF ClaimError
<1>3. ASSUME NEW B \in SUBSET TaskId, NEW l \in LeaseId, NEW answered \in BOOLEAN,
             Claim(w, B, l, answered)
      PROVE  HeldInv'
  <2>1. CASE answered /\ B # {}
    BY SMTT(30), <1>3, <2>1 DEF Claim, HeldInv, Active, TypeOK, UsedLeases
  <2>2. CASE ~(answered /\ B # {})
    BY <1>3, <2>2, ReturnHeld DEF Claim
  <2> QED
    BY <2>1, <2>2
<1>4. CASE EndBatch(w)
  BY <1>4, ReturnHeld DEF EndBatch
<1>5. CASE StopBatch(w)
  BY <1>5 DEF StopBatch, HeldInv, Active, TypeOK
<1>6. CASE StartItem(w)
  BY <1>6 DEF StartItem, HeldInv, Active, TypeOK
<1>7. ASSUME NEW o \in Outcome, HandleReturns(w, o)
      PROVE  HeldInv'
  BY <1>7 DEF HandleReturns, HeldInv, Active, TypeOK
<1>8. CASE TickPanics(w)
  BY <1>8, ReturnHeld DEF TickPanics
<1>9. CASE MarkDone(w)
  BY <1>9, AfterMarkHeld DEF MarkDone
<1>10. CASE MarkFailed(w)
  BY <1>10, AfterMarkHeld DEF MarkFailed
<1>11. CASE MarkError(w)
  BY <1>11, AfterMarkHeld DEF MarkError
<1>12. CASE Release(w)
  BY <1>12, ReturnHeld DEF Release
<1>13. CASE ReleaseError(w)
  BY <1>13, ReturnHeld DEF ReleaseError
<1>14. CASE Cancel(w)
  BY <1>14 DEF Cancel, HeldInv, Active
<1>15. CASE Exit(w)
  BY <1>15 DEF Exit, HeldInv, Active, TypeOK
<1>16. CASE Crash(w)
  BY <1>16, ReturnHeld DEF Crash
<1>17. CASE Restart(w)
  BY <1>17 DEF Restart, HeldInv, Active, TypeOK
<1>18. CASE Cleanup(w)
  BY <1>18 DEF Cleanup, HeldInv, Active, loop
<1> QED
  BY <1>1, <1>2, <1>3, <1>4, <1>5, <1>6, <1>7, <1>8, <1>9, <1>10, <1>11, <1>12,
     <1>13, <1>14, <1>15, <1>16, <1>17, <1>18 DEF WorkerStep

-----------------------------------------------------------------------------
(* The shape of a step.  Only a claim leases rows; every other step of a   *)
(* loop keeps or drops its batch, and clears no lease but its own.          *)

\* The step touches no loop but that of w.
Others(w) ==
  \A v \in Worker \ {w} :
    /\ pc'[v] = pc[v] /\ start'[v] = start[v] /\ items'[v] = items[v]
    /\ held'[v] = held[v] /\ cur'[v] = cur[v] /\ err'[v] = err[v]
    /\ due'[v] = due[v]

\* The loop of w goes on with what is left of its batch, or drops it.
Goes(w) ==
  \/ ~Active(w)'
  \/ /\ Active(w)
     /\ held'[w] = held[w] /\ start'[w] = start[w]
     /\ Claimed(w)' \subseteq Claimed(w)
     /\ Busy(w)' => cur'[w] \notin items'[w]

\* A row that changes ends without a lease; if it had one, it was that of w and
\* the row is not in the batch of w any more.  No row appears.
Frees(w) ==
  /\ nextId' = nextId
  /\ \A t \in TaskId :
       \/ /\ state'[t] = state[t] /\ attempts'[t] = attempts[t]
          /\ lease'[t] = lease[t] /\ leasedAt'[t] = leasedAt[t]
          /\ key'[t] = key[t]
       \/ /\ lease'[t] = NoLease
          /\ state'[t] # "none" => state[t] # "none" /\ key'[t] = key[t]
          /\ state'[t] = "none" => attempts'[t] = 0
          /\ \/ lease[t] = NoLease
             \/ /\ Active(w) /\ lease[t] = held[w]
                /\ \A i \in Claimed(w)' : i.id # t

Shape(w) == Others(w) /\ Goes(w) /\ Frees(w)

\* drain returns: the batch is dropped.
LEMMA ReturnShape ==
  ASSUME TypeOK, NEW w \in Worker, NEW to \in PC,
         to \notin {"batch", "handling", "marking", "releasing"}, Return(w, to)
  PROVE  Others(w) /\ ~Active(w)'
  BY DEF Others, Active, Return, TypeOK

\* After a mark the batch goes on without the marked item, or is dropped.
LEMMA AfterMarkShape ==
  ASSUME TypeOK, ItemInv, NEW w \in Worker, pc[w] = "marking", AfterMark(w)
  PROVE  /\ Others(w) /\ Goes(w)
         /\ \A i \in Claimed(w)' : i.id # cur[w].id
<1>1. CASE IsHalt(err[w]) /\ items[w] = {}
  BY <1>1, ReturnShape DEF AfterMark, PC, Goes, Claimed
<1>2. CASE ~(IsHalt(err[w]) /\ items[w] = {})
  <2>1. Others(w)
    BY SMT, <1>2 DEF AfterMark, Others, TypeOK
  <2>2. /\ pc'[w] \in {"batch", "releasing"}
        /\ items'[w] = items[w] /\ held'[w] = held[w] /\ start'[w] = start[w]
    BY ZenonT(60), <1>2 DEF AfterMark, TypeOK
  <2>3. /\ ~Busy(w)'
        /\ \A i \in Claimed(w)' : i \in items[w] /\ i \in Claimed(w)
    BY <2>2 DEF Claimed, Active, Busy
  <2>4. cur[w] \in Claimed(w) /\ cur[w] \notin items[w]
    BY DEF Claimed, Active, Busy, ItemInv, TypeOK
  <2>5. \A i \in Claimed(w)' : i.id # cur[w].id
    BY <2>3, <2>4 DEF ItemInv
  <2> QED
    BY <2>1, <2>2, <2>3, <2>5 DEF Goes, Active
<1> QED
  BY <1>1, <1>2

\* A step that leaves the columns of the leases alone frees nothing.
LEMMA KeepsRows ==
  ASSUME NEW w \in Worker, UNCHANGED table
  PROVE  Frees(w)
  BY DEF Frees, table

\* Every step of a loop but a claim has the shape above.
LEMMA StepShape ==
  ASSUME TypeOK, HeldInv, RowInv, ItemInv, NEW w \in Worker, WorkerStep(w),
         ~\E B \in SUBSET TaskId, l \in LeaseId, answered \in BOOLEAN :
            Claim(w, B, l, answered)
  PROVE  Shape(w)
<1> USE DEF PC
<1>1. CASE BeginTick(w)
  BY <1>1, KeepsRows DEF BeginTick, Shape, Others, Goes, Active, TypeOK
<1>2. CASE ClaimError(w)
  BY <1>2, KeepsRows, ReturnShape DEF ClaimError, Shape, Goes
<1>4. CASE EndBatch(w)
  BY <1>4, KeepsRows, ReturnShape DEF EndBatch, Shape, Goes
<1>5. CASE StopBatch(w)
  <2>1. /\ Others(w) /\ pc'[w] = "releasing" /\ pc[w] = "batch"
        /\ held'[w] = held[w] /\ start'[w] = start[w] /\ items'[w] = items[w]
    BY <1>5 DEF StopBatch, Others, TypeOK
  <2> QED
    BY <1>5, <2>1, KeepsRows DEF StopBatch, Shape, Goes, Active, Busy, Claimed
<1>6. CASE StartItem(w)
  <2>1. /\ Others(w) /\ pc'[w] = "handling" /\ pc[w] = "batch"
        /\ held'[w] = held[w] /\ start'[w] = start[w]
    BY <1>6 DEF StartItem, Others, TypeOK
  <2>2. cur'[w] \in items[w] /\ items'[w] = items[w] \ {cur'[w]}
    BY SMT, <1>6 DEF StartItem, TypeOK
  <2> QED
    BY <1>6, <2>1, <2>2, KeepsRows DEF StartItem, Shape, Goes, Active, Busy, Claimed
<1>7. ASSUME NEW o \in Outcome, HandleReturns(w, o)
      PROVE  Shape(w)
  <2>1. /\ Others(w) /\ pc'[w] = "marking" /\ pc[w] = "handling"
        /\ held'[w] = held[w] /\ start'[w] = start[w] /\ items'[w] = items[w]
        /\ cur'[w] = cur[w]
    BY <1>7 DEF HandleReturns, Others, TypeOK
  <2> QED
    BY <1>7, <2>1, KeepsRows
       DEF HandleReturns, Shape, Goes, Active, Busy, Claimed, ItemInv
<1>8. CASE TickPanics(w)
  BY <1>8, KeepsRows, ReturnShape DEF TickPanics, Shape, Goes
<1>9. CASE MarkDone(w)
  <2>1. pc[w] = "marking" /\ AfterMark(w) /\ DeleteDone(cur[w].id, held[w])
    BY <1>9 DEF MarkDone
  <2>2. Others(w) /\ Goes(w) /\ \A i \in Claimed(w)' : i.id # cur[w].id
    BY <2>1, AfterMarkShape
  <2>3. Frees(w)
    BY <2>1, <2>2 DEF DeleteDone, Remove, Frees, Active, TypeOK
  <2> QED
    BY <2>2, <2>3 DEF Shape
<1>10. CASE MarkFailed(w)
  <2>1. pc[w] = "marking" /\ AfterMark(w)
    BY <1>10 DEF MarkFailed
  <2>2. Others(w) /\ Goes(w) /\ \A i \in Claimed(w)' : i.id # cur[w].id
    BY <2>1, AfterMarkShape
  <2>3. CASE lease[cur[w].id] = held[w]
    <3>1. /\ nextId' = nextId /\ key' = key
          /\ lease' = [lease EXCEPT ![cur[w].id] = NoLease]
          /\ \A t \in TaskId \ {cur[w].id} :
               /\ state'[t] = state[t] /\ attempts'[t] = attempts[t]
               /\ leasedAt'[t] = leasedAt[t]
      BY <1>10, <2>3 DEF MarkFailed, UpdateFailed, UpdateRow, TypeOK
    <3>2. cur[w].id \in TaskId /\ held[w] # NoLease
      BY <2>1, QueueAssumption DEF TypeOK, Item, HeldInv, Active
    <3>3. state[cur[w].id] = "live" /\ state'[cur[w].id] # "none"
      BY SMT, <1>10, <2>3, <3>2 DEF MarkFailed, UpdateFailed, UpdateRow, RowInv, TypeOK
    <3> QED
      BY ZenonT(60), <2>1, <2>2, <2>3, <3>1, <3>2, <3>3 DEF Shape, Frees, Active, TypeOK
  <2>4. CASE lease[cur[w].id] # held[w]
    BY <1>10, <2>2, <2>4, KeepsRows DEF MarkFailed, UpdateFailed, Shape
  <2> QED
    BY <2>3, <2>4
<1>11. CASE MarkError(w)
  BY <1>11, AfterMarkShape, KeepsRows DEF MarkError, Shape
<1>12. CASE Release(w)
  <2>1. Others(w) /\ ~Active(w)'
    BY <1>12, ReturnShape DEF Release
  <2>2. Frees(w)
    BY <1>12, <2>1 DEF Release, ClearLeases, Frees, Active, Claimed, TypeOK, RowInv
  <2> QED
    BY <2>1, <2>2 DEF Shape, Goes
<1>13. CASE ReleaseError(w)
  BY <1>13, KeepsRows, ReturnShape DEF ReleaseError, Shape, Goes
<1>14. CASE Cancel(w)
  BY <1>14, KeepsRows DEF Cancel, Shape, Others, Goes, Active, Busy, Claimed, ItemInv
<1>15. CASE Exit(w)
  BY <1>15, KeepsRows DEF Exit, Shape, Others, Goes, Active, TypeOK
<1>16. CASE Crash(w)
  BY <1>16, KeepsRows, ReturnShape DEF Crash, Shape, Goes
<1>17. CASE Restart(w)
  BY <1>17, KeepsRows DEF Restart, Shape, Others, Goes, Active, TypeOK
<1>18. CASE Cleanup(w)
  <2>1. Others(w) /\ Goes(w)
    BY <1>18 DEF Cleanup, loop, Others, Goes, Active, Busy, Claimed, ItemInv
  <2>2. Frees(w)
    BY <1>18 DEF Cleanup, OldDead, Remove, Frees, RowInv, TypeOK
  <2> QED
    BY <2>1, <2>2 DEF Shape
<1> QED
  BY <1>1, <1>2, <1>4, <1>5, <1>6, <1>7, <1>8, <1>9, <1>10, <1>11, <1>12,
     <1>13, <1>14, <1>15, <1>16, <1>17, <1>18 DEF WorkerStep

\* What a claim does: it leases ready rows under an id nobody has, and its loop
\* starts a batch of them, unless the answer is empty or lost.
Claims(w, B, l) ==
  /\ Others(w)
  /\ pc[w] = "claiming" /\ l \in LeaseId
  /\ \A t \in TaskId : lease[t] # l
  /\ \A v \in Worker : held[v] # l
  /\ \A t \in B : /\ t \in TaskId /\ state[t] = "live"
                  /\ lease[t] = NoLease \/ leasedAt[t] < start[w] - Lease
  /\ UNCHANGED <<now, state, key, attempts, nextId>>
  /\ \A t \in TaskId : lease'[t] = IF t \in B THEN l ELSE lease[t]
  /\ \A t \in TaskId : leasedAt'[t] = IF t \in B THEN start[w] ELSE leasedAt[t]
  /\ \/ ~Active(w)' /\ pc'[w] = "idle"
     \/ /\ pc'[w] = "batch" /\ held'[w] = l /\ start'[w] = start[w]
        /\ items'[w] = {RowItem(t) : t \in B}

\* Claim does what Claims says.
LEMMA ClaimShape ==
  ASSUME TypeOK, NEW w \in Worker, NEW B \in SUBSET TaskId, NEW l \in LeaseId,
         NEW answered \in BOOLEAN, Claim(w, B, l, answered)
  PROVE  Claims(w, B, l)
<1>1. /\ pc[w] = "claiming"
      /\ \A t \in TaskId : lease[t] # l
      /\ \A v \in Worker : held[v] # l
      /\ UNCHANGED <<now, state, key, attempts, nextId>>
  BY DEF Claim, UsedLeases
<1>2. \A t \in B : /\ t \in TaskId /\ state[t] = "live"
                   /\ lease[t] = NoLease \/ leasedAt[t] < start[w] - Lease
  BY DEF Claim, Claimable, Ready
<1>3. /\ \A t \in TaskId : lease'[t] = IF t \in B THEN l ELSE lease[t]
      /\ \A t \in TaskId : leasedAt'[t] = IF t \in B THEN start[w] ELSE leasedAt[t]
  BY DEF Claim
<1>4. CASE answered /\ B # {}
  BY ZenonT(60), <1>1, <1>2, <1>3, <1>4 DEF Claim, Claims, Others, TypeOK
<1>5. CASE ~(answered /\ B # {})
  <2>1. Return(w, "idle")
    BY <1>5 DEF Claim
  <2>2. Others(w) /\ ~Active(w)' /\ pc'[w] = "idle"
    BY <2>1, ReturnShape DEF PC, Return, TypeOK
  <2> QED
    BY <1>1, <1>2, <1>3, <2>2 DEF Claims
<1> QED
  BY <1>4, <1>5

\* The batch a claim starts.
LEMMA ClaimedBatch ==
  ASSUME TypeOK, TypeOK', NEW w \in Worker, NEW B, NEW l, Claims(w, B, l)
  PROVE  /\ \A i \in Claimed(w)' : i.id \in B /\ i = RowItem(i.id)
         /\ ~Busy(w)'
         /\ \A v \in Worker \ {w} : Claimed(v)' = Claimed(v) /\ Busy(v)' = Busy(v)
<1>1. \A v \in Worker \ {w} : Claimed(v)' = Claimed(v) /\ Busy(v)' = Busy(v)
  BY SMT DEF Claims, Others, Claimed, Active, Busy
<1>2. ~Busy(w)'
  BY DEF Claims, Busy
<1>3. \A i \in Claimed(w)' : i.id \in B /\ i = RowItem(i.id)
  BY SMT, <1>2 DEF Claims, Claimed, RowItem
<1> QED
  BY <1>1, <1>2, <1>3

\* A loop remembers the attempts of the rows it has leased: a claim by another
\* loop comes with another lease id.
LEMMA ClaimItem ==
  ASSUME TypeOK, TypeOK', HeldInv, RowInv, ItemInv,
         NEW w \in Worker, NEW B, NEW l, Claims(w, B, l)
  PROVE  ItemInv'
<1>0. /\ \A i \in Claimed(w)' : i.id \in B /\ i = RowItem(i.id)
      /\ ~Busy(w)'
      /\ \A v \in Worker \ {w} : Claimed(v)' = Claimed(v) /\ Busy(v)' = Busy(v)
  BY ClaimedBatch
<1>1. \A i \in Item : i.id \in TaskId
  BY DEF Item
<1>2. \A v \in Worker : \A i \in Claimed(v)' :
        /\ i.id < nextId'
        /\ (lease[i.id] = held[v])' => attempts'[i.id] = i.attempts
  <2> SUFFICES ASSUME NEW v \in Worker, NEW i \in Claimed(v)'
               PROVE  /\ i.id < nextId'
                      /\ lease'[i.id] = held'[v] => attempts'[i.id] = i.attempts
    OBVIOUS
  <2>0. i.id \in TaskId
    BY <1>1 DEF Claimed
  <2>1. CASE v = w
    <3>1. i.id \in B /\ i = RowItem(i.id)
      BY <1>0, <2>1
    <3>2. state[i.id] = "live" /\ nextId' = nextId /\ attempts' = attempts
      BY <3>1 DEF Claims
    <3> QED
      BY SMT, <2>0, <3>1, <3>2 DEF RowInv, RowItem
  <2>2. CASE v # w
    <3>1. i \in Claimed(v) /\ held'[v] = held[v]
      BY ZenonT(60), <1>0, <2>2 DEF Claims, Others
    <3>2. /\ nextId' = nextId /\ attempts' = attempts /\ held[v] # l
          /\ lease'[i.id] = l \/ lease'[i.id] = lease[i.id]
      BY <2>0 DEF Claims
    <3> QED
      BY <2>0, <3>1, <3>2 DEF ItemInv
  <2> QED
    BY <2>1, <2>2
<1>3. \A v \in Worker : \A i, j \in Claimed(v)' : i.id = j.id => i = j
  BY SMT, <1>0 DEF ItemInv
<1>4. \A v \in Worker : Busy(v)' => cur'[v] \notin items'[v]
  BY <1>0 DEF ItemInv, Claims, Others
<1> QED
  BY <1>2, <1>3, <1>4 DEF ItemInv

\* The other steps of a loop keep ItemInv as well.
LEMMA ShapeItem ==
  ASSUME TypeOK, TypeOK', HeldInv, ItemInv, NEW w \in Worker, Shape(w)
  PROVE  ItemInv'
<1>1. \A i \in Item : i.id \in TaskId
  BY DEF Item
<1>2. \A v \in Worker \ {w} :
        Claimed(v)' = Claimed(v) /\ Busy(v)' = Busy(v) /\ Active(v)' = Active(v)
  BY DEF Shape, Others, Claimed, Active, Busy
<1>3. \A i : i \in Claimed(w)' =>
        i \in Claimed(w) /\ held'[w] = held[w] /\ Active(w)
  BY DEF Shape, Goes, Claimed
<1>4. ASSUME NEW v \in Worker, NEW i \in Claimed(v)'
      PROVE  /\ i.id < nextId'
             /\ (lease[i.id] = held[v])' => attempts'[i.id] = i.attempts
  <2>0. i.id \in TaskId
    BY <1>1, <1>4 DEF Claimed
  <2>1. i \in Claimed(v) /\ held'[v] = held[v] /\ Active(v)
    BY <1>2, <1>3, <1>4 DEF Shape, Others, Claimed
  <2>2. held[v] \in LeaseId /\ held[v] # NoLease
    BY <2>1, QueueAssumption DEF HeldInv
  <2> QED
    BY SMT, <2>0, <2>1, <2>2 DEF Shape, Frees, ItemInv
<1>5. \A v \in Worker : \A i, j \in Claimed(v)' : i.id = j.id => i = j
  BY SMT, <1>2, <1>3 DEF ItemInv
<1>6. \A v \in Worker : Busy(v)' => cur'[v] \notin items'[v]
  BY <1>2 DEF Shape, Goes, Others, Active, Busy, ItemInv
<1> QED
  BY <1>4, <1>5, <1>6 DEF ItemInv

-----------------------------------------------------------------------------
(* Rows and counts.                                                        *)

\* No step of a loop leases a row that is not waiting.
LEMMA WorkerRow ==
  ASSUME TypeOK, RowInv, NEW w \in Worker,
         Shape(w) \/ \E B, l : Claims(w, B, l)
  PROVE  RowInv'
  BY DEF RowInv, Shape, Frees, Claims

CountInv == AttemptsAreFailures /\ NoTaskLost /\ DeadForAReason /\ MarkInv

\* A step that changes leases at most keeps CountInv, as long as it gives no
\* row to a loop that is marking.
LEMMA QuietCount ==
  ASSUME TypeOK, CountInv, UNCHANGED <<state, attempts, nextId, history>>,
         \A v \in Worker : pc'[v] = "marking" =>
           /\ pc[v] = "marking" /\ err'[v] = err[v] /\ cur'[v] = cur[v]
           /\ \A t \in TaskId : lease'[t] = held'[v] => lease[t] = held[v]
  PROVE  CountInv'
<1>1. UNCHANGED <<state, attempts, nextId, succeeded, refused, failures>>
  BY DEF history
<1>2. AttemptsAreFailures' /\ NoTaskLost' /\ DeadForAReason'
  BY <1>1 DEF CountInv, AttemptsAreFailures, NoTaskLost, DeadForAReason, Spent, Exhausted
<1>3. \A v \in Worker : cur[v].id \in TaskId
  BY DEF TypeOK, Item
<1>4. MarkInv'
  BY SMT, <1>1, <1>3 DEF CountInv, MarkInv, IsTerminal
<1> QED
  BY <1>2, <1>4 DEF CountInv

\* drain returning is such a step for the loop that returns.
LEMMA QuietReturn ==
  ASSUME TypeOK, CountInv, NEW w \in Worker, NEW to \in PC \ {"marking"},
         Return(w, to), UNCHANGED <<table, history>>
  PROVE  CountInv'
<1>1. \A v \in Worker : pc'[v] = "marking" =>
        /\ pc[v] = "marking" /\ err'[v] = err[v] /\ cur'[v] = cur[v]
        /\ \A t \in TaskId : lease'[t] = held'[v] => lease[t] = held[v]
  BY DEF Return, TypeOK, table
<1> QED
  BY <1>1, QuietCount DEF table

\* After a mark the loop is not marking, and the other loops are as before.
LEMMA AfterMarkQuiet ==
  ASSUME TypeOK, NEW w \in Worker, pc[w] = "marking", AfterMark(w)
  PROVE  \A v \in Worker : pc'[v] = "marking" =>
           /\ v # w /\ pc[v] = "marking" /\ err'[v] = err[v] /\ cur'[v] = cur[v]
           /\ held'[v] = held[v]
<1>1. CASE IsHalt(err[w]) /\ items[w] = {}
  BY SMT, <1>1 DEF AfterMark, Return, TypeOK
<1>2. CASE ~(IsHalt(err[w]) /\ items[w] = {})
  BY SMT, <1>2 DEF AfterMark, TypeOK
<1> QED
  BY <1>1, <1>2

\* markDone keeps CountInv: what it deletes has succeeded.
LEMMA MarkDoneCount ==
  ASSUME TypeOK, HeldInv, RowInv, CountInv, NEW w \in Worker, MarkDone(w)
  PROVE  CountInv'
<1> DEFINE c == cur[w].id
           T == IF lease[c] = held[w] THEN {c} ELSE {}
<1>1. /\ pc[w] = "marking" /\ err[w] = "ok" /\ AfterMark(w) /\ Remove(T)
      /\ c \in succeeded /\ c \in TaskId
      /\ UNCHANGED <<succeeded, refused, failures>>
  BY DEF MarkDone, DeleteDone, CountInv, MarkInv, history, TypeOK, Item
<1>2. \A v \in Worker : pc'[v] = "marking" =>
        /\ pc[v] = "marking" /\ err'[v] = err[v] /\ cur'[v] = cur[v]
        /\ held'[v] = held[v] /\ held[v] \in LeaseId /\ held[v] # NoLease
  BY <1>1, AfterMarkQuiet, QueueAssumption DEF HeldInv, Active
<1>3. /\ nextId' = nextId
      /\ \A t \in TaskId :
           IF t \in T
           THEN state'[t] = "none" /\ attempts'[t] = 0 /\ lease'[t] = NoLease
           ELSE state'[t] = state[t] /\ attempts'[t] = attempts[t] /\ lease'[t] = lease[t]
  BY <1>1 DEF Remove
<1> HIDE DEF T
<1>4. \A t \in T : t = c
  BY DEF T
<1>5. AttemptsAreFailures'
  BY SMT, <1>1, <1>3 DEF CountInv, AttemptsAreFailures, TypeOK, Exhausted
<1>6. NoTaskLost' /\ DeadForAReason'
  BY <1>1, <1>3, <1>4 DEF CountInv, NoTaskLost, DeadForAReason, Spent
<1>7. MarkInv'
  <2>1. \A v \in Worker : cur[v].id \in TaskId
    BY DEF TypeOK, Item
  <2> QED
    BY SMT, <1>1, <1>2, <1>3, <2>1 DEF CountInv, MarkInv, IsTerminal
<1> QED
  BY <1>5, <1>6, <1>7 DEF CountInv

\* markFailed keeps CountInv: under its lease it counts one failure that was
\* not counted yet, and buries the task only when it was refused or is spent.
LEMMA MarkFailedCount ==
  ASSUME TypeOK, HeldInv, RowInv, ItemInv, CountInv, NEW w \in Worker, MarkFailed(w)
  PROVE  CountInv'
<1> DEFINE c == cur[w].id
           dead == IsTerminal(err[w]) \/ Exhausted(cur[w].attempts + 1)
<1>1. /\ pc[w] = "marking" /\ err[w] # "ok" /\ AfterMark(w)
      /\ UpdateFailed(cur[w], held[w], dead, at[w])
      /\ cur[w] \in Item /\ c \in TaskId /\ cur[w].attempts \in Nat
      /\ UNCHANGED <<succeeded, refused, failures>>
  BY DEF MarkFailed, history, TypeOK, Item
<1>2. \A v \in Worker : pc'[v] = "marking" =>
        /\ v # w /\ pc[v] = "marking" /\ err'[v] = err[v] /\ cur'[v] = cur[v]
        /\ held'[v] = held[v] /\ held[v] \in LeaseId /\ held[v] # NoLease
  BY <1>1, AfterMarkQuiet, QueueAssumption DEF HeldInv, Active
<1>3. CASE lease[c] # held[w]
  <2>1. UNCHANGED table
    BY <1>1, <1>3 DEF UpdateFailed
  <2> QED
    BY <1>1, <1>2, <2>1, QuietCount DEF table, history
<1>4. CASE lease[c] = held[w]
  <2>0. /\ cur[w] \in Claimed(w)
        /\ held[w] # NoLease
    BY <1>1, QueueAssumption DEF Claimed, Active, Busy, HeldInv
  <2>1. /\ attempts[c] = cur[w].attempts
        /\ state[c] = "live"
        /\ attempts[c] < failures[c]
        /\ IsTerminal(err[w]) => c \in refused
    BY <1>1, <1>4, <2>0 DEF ItemInv, RowInv, CountInv, MarkInv
  <2> HIDE DEF dead
  <2>2. /\ nextId' = nextId
        /\ \A t \in TaskId \ {c} :
             state'[t] = state[t] /\ attempts'[t] = attempts[t] /\ lease'[t] = lease[t]
        /\ lease'[c] = NoLease /\ attempts'[c] = attempts[c] + 1
        /\ state'[c] = IF dead THEN "dead" ELSE "live"
    BY SMT, <1>1, <1>4, <2>1 DEF UpdateFailed, UpdateRow, TypeOK
  <2>3. dead => c \in refused \/ Spent(c)
    BY SMTT(30), <1>1, <2>1, QueueAssumption DEF dead, Spent, Exhausted, TypeOK
  <2>4. ~dead => ~Exhausted(attempts[c] + 1)
    BY <2>1 DEF dead
  <2>5. AttemptsAreFailures'
    BY SMT, <1>1, <2>1, <2>2, <2>4 DEF CountInv, AttemptsAreFailures, Exhausted, TypeOK
  <2>6. NoTaskLost' /\ DeadForAReason'
    BY <1>1, <2>2, <2>3 DEF CountInv, NoTaskLost, DeadForAReason, Spent
  <2>7. MarkInv'
    <3>1. \A v \in Worker : cur[v].id \in TaskId
      BY DEF TypeOK, Item
    <3> QED
      BY SMT, <1>1, <1>2, <2>2, <3>1 DEF CountInv, MarkInv, IsTerminal
  <2> QED
    BY <2>5, <2>6, <2>7 DEF CountInv
<1> QED
  BY <1>3, <1>4

\* The handler returning adds to the history first and marks later, so counts
\* stay behind failures.
LEMMA HandleCount ==
  ASSUME TypeOK, CountInv, NEW w \in Worker, NEW o \in Outcome, HandleReturns(w, o)
  PROVE  CountInv'
<1> DEFINE c == cur[w].id
<1>1. /\ UNCHANGED <<state, attempts, lease, nextId, held, cur>>
      /\ c \in TaskId
      /\ pc' = [pc EXCEPT ![w] = "marking"] /\ err' = [err EXCEPT ![w] = o]
      /\ succeeded' = IF o = "ok" THEN succeeded \union {c} ELSE succeeded
      /\ refused' = IF IsTerminal(o) THEN refused \union {c} ELSE refused
  BY DEF HandleReturns, table, TypeOK, Item
<1>2. /\ \A t \in TaskId : failures'[t] \in Nat /\ failures[t] \in Nat
                          /\ failures[t] <= failures'[t]
      /\ o # "ok" => failures'[c] = failures[c] + 1
  <2>1. failures' = IF o = "ok" THEN failures
                    ELSE [failures EXCEPT ![c] = failures[c] + 1]
    BY DEF HandleReturns
  <2>2. failures \in [TaskId -> Nat]
    BY DEF TypeOK
  <2> QED
    BY SMT, <1>1, <2>1, <2>2
<1> HIDE DEF c
<1>3. AttemptsAreFailures'
  BY SMT, <1>1, <1>2 DEF CountInv, AttemptsAreFailures, Exhausted, TypeOK
<1>4. NoTaskLost' /\ DeadForAReason'
  <2>1. \A t \in TaskId : Spent(t) => Spent(t)'
    BY SMT, <1>2, QueueAssumption DEF Spent
  <2> QED
    BY <1>1, <2>1 DEF CountInv, NoTaskLost, DeadForAReason
<1>5. MarkInv'
  <2> SUFFICES ASSUME NEW v \in Worker, pc'[v] = "marking"
               PROVE  /\ err'[v] = "ok" => cur[v].id \in succeeded'
                      /\ IsTerminal(err'[v]) => cur[v].id \in refused'
                      /\ (err'[v] # "ok" /\ lease[cur[v].id] = held[v]) =>
                           attempts[cur[v].id] < failures'[cur[v].id]
    BY <1>1 DEF MarkInv, IsTerminal
  <2>1. cur[v].id \in TaskId /\ attempts[cur[v].id] \in Nat
    BY DEF TypeOK, Item
  <2>2. CASE v = w
    <3>1. err'[v] = o /\ cur[v].id = c
      BY <1>1, <2>2 DEF TypeOK, c
    <3>2. o # "ok" => attempts[c] < failures'[c]
      BY SMTT(30), <1>1, <1>2 DEF CountInv, AttemptsAreFailures, TypeOK
    <3> QED
      BY <1>1, <3>1, <3>2
  <2>3. CASE v # w
    <3>1. pc[v] = "marking" /\ err'[v] = err[v]
      BY <1>1, <2>3 DEF TypeOK
    <3> QED
      BY SMT, <1>1, <1>2, <2>1, <3>1 DEF CountInv, MarkInv
  <2> QED
    BY <2>2, <2>3
<1> QED
  BY <1>3, <1>4, <1>5 DEF CountInv

\* The cleaner removes dead letters only, and those had their reason.
LEMMA CleanupCount ==
  ASSUME TypeOK, HeldInv, RowInv, CountInv, NEW w \in Worker, Cleanup(w)
  PROVE  CountInv'
<1>1. /\ UNCHANGED <<pc, held, cur, err, succeeded, refused, failures, nextId>>
      /\ \A t \in TaskId :
           \/ state'[t] = state[t] /\ attempts'[t] = attempts[t] /\ lease'[t] = lease[t]
           \/ /\ state[t] = "dead"
              /\ state'[t] = "none" /\ attempts'[t] = 0 /\ lease'[t] = NoLease
  BY DEF Cleanup, OldDead, Remove, loop, history
<1>2. AttemptsAreFailures'
  BY SMT, <1>1 DEF CountInv, AttemptsAreFailures, TypeOK, Exhausted
<1>3. NoTaskLost' /\ DeadForAReason'
  BY <1>1 DEF CountInv, NoTaskLost, DeadForAReason, Spent
<1>4. \A v \in Worker : cur[v].id \in TaskId
  BY DEF TypeOK, Item
<1>5. \A v \in Worker : pc[v] = "marking" => held[v] # NoLease
  BY QueueAssumption DEF HeldInv, Active
<1>6. MarkInv'
  BY <1>1, <1>4, <1>5 DEF CountInv, MarkInv, IsTerminal
<1> QED
  BY <1>2, <1>3, <1>6 DEF CountInv

\* A new row starts with its whole budget.
LEMMA ScheduleCount ==
  ASSUME TypeOK, RowInv, CountInv, NEW k, NEW d, Schedule(k, d)
  PROVE  CountInv'
<1>1. /\ UNCHANGED <<attempts, lease, pc, held, cur, err, succeeded, refused, failures>>
      /\ nextId \in TaskId /\ nextId' = nextId + 1
      /\ state' = [state EXCEPT ![nextId] = "live"]
  BY DEF Schedule, loop, history
<1>2. state[nextId] = "none" /\ attempts[nextId] = 0
  BY SMT, <1>1 DEF RowInv, TypeOK
<1>3. AttemptsAreFailures'
  BY SMT, <1>1, <1>2, QueueAssumption DEF CountInv, AttemptsAreFailures, TypeOK, Exhausted
<1>4. NoTaskLost' /\ DeadForAReason'
  BY SMT, <1>1, Typed DEF CountInv, NoTaskLost, DeadForAReason, Spent, TypeOK
<1>5. MarkInv'
  BY <1>1 DEF CountInv, MarkInv, IsTerminal
<1> QED
  BY <1>3, <1>4, <1>5 DEF CountInv

\* Every step of a loop keeps CountInv.
LEMMA WorkerCount ==
  ASSUME TypeOK, HeldInv, RowInv, ItemInv, CountInv, NEW w \in Worker, WorkerStep(w)
  PROVE  CountInv'
<1> USE DEF PC
<1>1. CASE BeginTick(w)
  BY <1>1, QuietCount DEF BeginTick, table, history, TypeOK
<1>2. CASE ClaimError(w)
  BY <1>2, QuietReturn DEF ClaimError
<1>3. ASSUME NEW B \in SUBSET TaskId, NEW l \in LeaseId, NEW answered \in BOOLEAN,
             Claim(w, B, l, answered)
      PROVE  CountInv'
  <2>1. Claims(w, B, l) /\ UNCHANGED history
    BY <1>3, ClaimShape DEF Claim
  <2>2. \A v \in Worker : pc'[v] = "marking" =>
          /\ pc[v] = "marking" /\ err'[v] = err[v] /\ cur'[v] = cur[v]
          /\ \A t \in TaskId : lease'[t] = held'[v] => lease[t] = held[v]
    BY ZenonT(60), <2>1 DEF Claims, Others
  <2> QED
    BY <2>1, <2>2, QuietCount DEF Claims
<1>4. CASE EndBatch(w)
  BY <1>4, QuietReturn DEF EndBatch
<1>5. CASE StopBatch(w)
  BY <1>5, QuietCount DEF StopBatch, table, history, TypeOK
<1>6. CASE StartItem(w)
  <2>1. \A v \in Worker : pc'[v] = "marking" =>
          pc[v] = "marking" /\ err'[v] = err[v] /\ cur'[v] = cur[v] /\ held'[v] = held[v]
    BY <1>6 DEF StartItem, TypeOK
  <2> QED
    BY <1>6, <2>1, QuietCount DEF StartItem, table
<1>7. ASSUME NEW o \in Outcome, HandleReturns(w, o)
      PROVE  CountInv'
  BY <1>7, HandleCount
<1>8. CASE TickPanics(w)
  BY <1>8, QuietReturn DEF TickPanics
<1>9. CASE MarkDone(w)
  BY <1>9, MarkDoneCount
<1>10. CASE MarkFailed(w)
  BY <1>10, MarkFailedCount
<1>11. CASE MarkError(w)
  <2>1. pc[w] = "marking" /\ AfterMark(w) /\ UNCHANGED <<table, history>>
    BY <1>11 DEF MarkError
  <2> QED
    BY <2>1, AfterMarkQuiet, QuietCount DEF table
<1>12. CASE Release(w)
  <2>1. \A v \in Worker : pc'[v] = "marking" =>
          /\ pc[v] = "marking" /\ err'[v] = err[v] /\ cur'[v] = cur[v]
          /\ held'[v] = held[v] /\ held[v] # NoLease
    BY <1>12, QueueAssumption DEF Release, Return, TypeOK, HeldInv, Active
  <2>2. \A t \in TaskId : lease'[t] = lease[t] \/ lease'[t] = NoLease
    BY <1>12 DEF Release, ClearLeases
  <2>3. UNCHANGED <<state, attempts, nextId, history>>
    BY <1>12 DEF Release, ClearLeases
  <2> QED
    BY <2>1, <2>2, <2>3, QuietCount
<1>13. CASE ReleaseError(w)
  BY <1>13, QuietReturn DEF ReleaseError
<1>14. CASE Cancel(w)
  BY <1>14, QuietCount DEF Cancel, table
<1>15. CASE Exit(w)
  BY <1>15, QuietCount DEF Exit, table, TypeOK
<1>16. CASE Crash(w)
  BY <1>16, QuietReturn DEF Crash
<1>17. CASE Restart(w)
  BY <1>17, QuietCount DEF Restart, table, TypeOK
<1>18. CASE Cleanup(w)
  BY <1>18, CleanupCount
<1> QED
  BY <1>1, <1>2, <1>3, <1>4, <1>5, <1>6, <1>7, <1>8, <1>9, <1>10, <1>11, <1>12,
     <1>13, <1>14, <1>15, <1>16, <1>17, <1>18 DEF WorkerStep

-----------------------------------------------------------------------------
(* The invariant that needs no time.                                       *)

SafeInv == TypeOK /\ HeldInv /\ RowInv /\ ItemInv /\ CountInv

\* The initial state satisfies it.
LEMMA InitSafe == Init => SafeInv
<1> SUFFICES ASSUME Init
             PROVE  SafeInv
  OBVIOUS
<1>1. TypeOK
  BY InitType
<1>2. HeldInv /\ RowInv
  BY DEF Init, HeldInv, RowInv, Active
<1>3. ItemInv
  BY DEF Init, ItemInv, Claimed, Active, Busy
<1>4. CountInv
  BY SMT, Typed, QueueAssumption
     DEF Init, CountInv, AttemptsAreFailures, NoTaskLost, DeadForAReason, MarkInv,
         Exhausted, TaskId
<1> QED
  BY <1>1, <1>2, <1>3, <1>4 DEF SafeInv

\* Every step keeps it.
LEMMA NextSafe == SafeInv /\ [Next]_vars => SafeInv'
<1> SUFFICES ASSUME SafeInv, [Next]_vars
             PROVE  SafeInv'
  OBVIOUS
<1> USE DEF SafeInv
<1>0. TypeOK'
  BY NextType
<1>1. ASSUME NEW k \in Key \union {NoKey}, NEW d \in Delay, Schedule(k, d)
      PROVE  SafeInv'
  <2>1. /\ UNCHANGED <<attempts, lease, pc, held, cur, items>>
        /\ nextId \in TaskId /\ nextId' = nextId + 1
        /\ state' = [state EXCEPT ![nextId] = "live"]
    BY <1>1 DEF Schedule, loop
  <2>2. HeldInv'
    BY <2>1 DEF HeldInv, Active
  <2>3. RowInv'
    BY SMT, <2>1, Typed DEF RowInv, TypeOK
  <2>4. \A v \in Worker : Claimed(v)' = Claimed(v) /\ Busy(v)' = Busy(v)
    BY <2>1 DEF Claimed, Active, Busy
  <2>5. \A i \in Item : i.id \in Nat
    BY Typed DEF Item
  <2>6. ItemInv'
    <3>1. \A v \in Worker : \A i \in Claimed(v)' : i.id < nextId'
      BY SMT, <2>1, <2>4, <2>5, Typed DEF ItemInv, Claimed
    <3> QED
      BY <2>1, <2>4, <3>1 DEF ItemInv
  <2>7. CountInv'
    BY <1>1, ScheduleCount
  <2> QED
    BY <1>0, <2>2, <2>3, <2>6, <2>7
<1>2. ASSUME NEW w \in Worker, WorkerStep(w)
      PROVE  SafeInv'
  <2>1. HeldInv' /\ CountInv'
    BY <1>2, WorkerHeld, WorkerCount
  <2>2. ASSUME NEW B \in SUBSET TaskId, NEW l \in LeaseId,
               NEW answered \in BOOLEAN, Claim(w, B, l, answered)
        PROVE  RowInv' /\ ItemInv'
    <3>1. Claims(w, B, l)
      BY <2>2, ClaimShape
    <3> QED
      BY <1>0, <3>1, WorkerRow, ClaimItem
  <2>3. ASSUME ~\E B \in SUBSET TaskId, l \in LeaseId, answered \in BOOLEAN :
                  Claim(w, B, l, answered)
        PROVE  RowInv' /\ ItemInv'
    <3>1. Shape(w)
      BY <1>2, <2>3, StepShape
    <3> QED
      BY <1>0, <3>1, WorkerRow, ShapeItem
  <2> QED
    BY <1>0, <2>1, <2>2, <2>3
<1>3. CASE Tick \/ UNCHANGED vars
  <2>1. UNCHANGED <<table, loop, history>>
    BY <1>3 DEF Tick, vars
  <2>2. HeldInv' /\ RowInv'
    BY <2>1 DEF HeldInv, RowInv, Active, table, loop
  <2>3. ItemInv'
    BY <2>1 DEF ItemInv, Claimed, Active, Busy, table, loop
  <2>4. CountInv'
    BY <2>1 DEF CountInv, AttemptsAreFailures, NoTaskLost, DeadForAReason, MarkInv,
                Exhausted, Spent, IsTerminal, table, loop, history
  <2> QED
    BY <1>0, <2>2, <2>3, <2>4
<1> QED
  BY <1>1, <1>2, <1>3 DEF Next

\* Every reachable state satisfies it.
THEOREM Safe == Spec => []SafeInv
  BY InitSafe, NextSafe, PTL DEF Spec

\* No task is lost, dead letters have a reason and attempts count failures, for
\* every number of workers and whatever they overrun: the lease guard of
\* markDone, markFailed and release is enough.
THEOREM NothingLost == Spec => []TasksAreKept
<1>1. SafeInv => TasksAreKept
  BY DEF SafeInv, CountInv, TasksAreKept
<1> QED
  BY <1>1, Safe, PTL

-----------------------------------------------------------------------------
(* The invariant about time.                                               *)

\* The clauses of TimeInv for one worker.
Timed(w) ==
  /\ (pc[w] = "claiming" \/ Active(w)) => start[w] <= Clock(w)
  /\ (w \notin Overrun /\ pc[w] = "handling") =>
       now <= due[w] /\ due[w] + Skew[w] <= start[w] + 2 * Timeout + Slack
  /\ (w \notin Overrun /\ pc[w] = "marking") =>
       now <= due[w] /\ due[w] + Skew[w] <= start[w] + Limit

\* TimeInv is Timed of every worker.
LEMMA TimeInvIsTimed == TimeInv <=> \A w \in Worker : Timed(w)
  BY DEF TimeInv, Timed

\* A step keeps Timed of a loop that it does not touch, at the same instant.
LEMMA TimedOther ==
  ASSUME NEW v \in Worker, Timed(v), now' = now,
         pc'[v] = pc[v], start'[v] = start[v], due'[v] = due[v]
  PROVE  Timed(v)'
  BY DEF Timed, Active, Clock

\* A step of a loop keeps Timed of that loop.
LEMMA WorkerTimed ==
  ASSUME TypeOK, NEW w \in Worker, Timed(w), WorkerStep(w)
  PROVE  Timed(w)' /\ now' = now
<1> USE QueueAssumption DEF PC
<1>0. /\ now \in Nat /\ start[w] \in Int /\ due[w] \in Int /\ Skew[w] \in Int
      /\ Clock(w) = now + Skew[w]
  BY DEF TypeOK, Clock
<1>r. ASSUME NEW to \in {"idle", "down"}, Return(w, to)
      PROVE  pc'[w] = to
  BY <1>r DEF Return, TypeOK
<1>d. ASSUME pc'[w] \in {"idle", "down"}, now' = now
      PROVE  Timed(w)'
  BY <1>d DEF Timed, Active
<1>1. CASE BeginTick(w)
  BY SMT, <1>0, <1>1 DEF BeginTick, Timed, Active, Clock, TypeOK
<1>2. CASE ClaimError(w)
  BY <1>2, <1>r, <1>d DEF ClaimError
<1>3. ASSUME NEW B \in SUBSET TaskId, NEW l \in LeaseId, NEW answered \in BOOLEAN,
             Claim(w, B, l, answered)
      PROVE  Timed(w)' /\ now' = now
  <2>1. Claims(w, B, l)
    BY <1>3, ClaimShape
  <2> QED
    BY <1>0, <1>d, <2>1 DEF Claims, Timed, Active, Clock
<1>4. CASE EndBatch(w)
  BY <1>4, <1>r, <1>d DEF EndBatch
<1>5. CASE StopBatch(w)
  BY <1>0, <1>5 DEF StopBatch, Timed, Active, Clock, TypeOK
<1>6. CASE StartItem(w)
  <2>1. /\ pc[w] = "batch" /\ pc'[w] = "handling" /\ now' = now /\ start'[w] = start[w]
        /\ due'[w] = now + Timeout + Slack /\ ~Expired(w)
    BY <1>6 DEF StartItem, TypeOK
  <2>2. Clock(w) - start[w] < Timeout
    BY SMT, <1>0, <2>1 DEF Expired
  <2> QED
    BY SMTT(30), <1>0, <2>1, <2>2 DEF Timed, Active, Clock
<1>7. ASSUME NEW o \in Outcome, HandleReturns(w, o)
      PROVE  Timed(w)' /\ now' = now
  <2>1. /\ pc[w] = "handling" /\ pc'[w] = "marking" /\ now' = now
        /\ start'[w] = start[w] /\ due'[w] = now + MarkTimeout + Slack
    BY <1>7 DEF HandleReturns, TypeOK
  <2>2. w \notin Overrun =>
          now + MarkTimeout + Slack + Skew[w] <= start[w] + Limit
    <3>1. w \notin Overrun =>
            now <= due[w] /\ due[w] + Skew[w] <= start[w] + 2 * Timeout + Slack
      BY <2>1 DEF Timed
    <3>2. Timeout \in Nat /\ MarkTimeout \in Nat /\ Slack \in Nat
      OBVIOUS
    <3> HIDE QueueAssumption
    <3> QED
      BY SMT, <1>0, <3>1, <3>2 DEF Limit
  <2>3. now <= now + MarkTimeout + Slack
    BY SMT, <1>0
  <2> QED
    BY <1>0, <2>1, <2>2, <2>3 DEF Timed, Active, Clock
<1>8. CASE TickPanics(w)
  BY <1>8, <1>r, <1>d DEF TickPanics
<1>9. ASSUME AfterMark(w), pc[w] = "marking", now' = now
      PROVE  Timed(w)'
  <2>1. CASE IsHalt(err[w]) /\ items[w] = {}
    BY <1>9, <2>1, <1>r, <1>d DEF AfterMark
  <2>2. CASE ~(IsHalt(err[w]) /\ items[w] = {})
    <3>1. pc'[w] \in {"batch", "releasing"} /\ start'[w] = start[w]
      BY ZenonT(60), <1>9, <2>2 DEF AfterMark, TypeOK
    <3> QED
      BY <1>9, <3>1 DEF Timed, Active, Clock
  <2> QED
    BY <2>1, <2>2
<1>10. CASE MarkDone(w) \/ MarkFailed(w) \/ MarkError(w)
  BY <1>9, <1>10 DEF MarkDone, MarkFailed, MarkError
<1>12. CASE Release(w)
  BY <1>12, <1>r, <1>d DEF Release
<1>13. CASE ReleaseError(w)
  BY <1>13, <1>r, <1>d DEF ReleaseError
<1>14. CASE Cancel(w)
  BY <1>14 DEF Cancel, Timed, Active, Clock
<1>15. CASE Exit(w)
  BY <1>15, <1>d DEF Exit, TypeOK
<1>16. CASE Crash(w)
  BY <1>16, <1>r, <1>d DEF Crash
<1>17. CASE Restart(w)
  BY <1>17, <1>d DEF Restart, TypeOK
<1>18. CASE Cleanup(w)
  BY <1>18 DEF Cleanup, loop, Timed, Active, Clock
<1> QED
  BY <1>1, <1>2, <1>3, <1>4, <1>5, <1>6, <1>7, <1>8, <1>10, <1>12,
     <1>13, <1>14, <1>15, <1>16, <1>17, <1>18 DEF WorkerStep

\* A loop only touches its own local variables.
LEMMA WorkerOthers ==
  ASSUME SafeInv, NEW w \in Worker, WorkerStep(w)
  PROVE  Others(w)
<1>1. CASE \E B \in SUBSET TaskId, l \in LeaseId, answered \in BOOLEAN :
             Claim(w, B, l, answered)
  <2>1. PICK B \in SUBSET TaskId, l \in LeaseId, answered \in BOOLEAN :
          Claim(w, B, l, answered)
    BY <1>1
  <2>2. Claims(w, B, l)
    BY <2>1, ClaimShape DEF SafeInv
  <2> QED
    BY <2>2 DEF Claims
<1>2. CASE ~\E B \in SUBSET TaskId, l \in LeaseId, answered \in BOOLEAN :
             Claim(w, B, l, answered)
  BY <1>2, StepShape DEF Shape, SafeInv
<1> QED
  BY <1>1, <1>2

\* Every step keeps TimeInv.
LEMMA NextTime == SafeInv /\ TimeInv /\ [Next]_vars => TimeInv'
<1> SUFFICES ASSUME SafeInv, TimeInv, [Next]_vars
             PROVE  \A v \in Worker : Timed(v)'
  BY DEF TimeInv, Timed
<1>0. TypeOK /\ \A v \in Worker : Timed(v)
  BY TimeInvIsTimed DEF SafeInv
<1>1. ASSUME NEW k \in Key \union {NoKey}, NEW d \in Delay, Schedule(k, d)
      PROVE  \A v \in Worker : Timed(v)'
  BY <1>0, <1>1, TimedOther DEF Schedule, loop
<1>2. ASSUME NEW w \in Worker, WorkerStep(w)
      PROVE  \A v \in Worker : Timed(v)'
  <2>1. Timed(w)' /\ now' = now
    BY <1>0, <1>2, WorkerTimed
  <2>2. Others(w)
    BY <1>2, WorkerOthers
  <2> QED
    BY <1>0, <2>1, <2>2, TimedOther DEF Others
<1>3. CASE Tick
  <2> SUFFICES ASSUME NEW v \in Worker
               PROVE  Timed(v)'
    OBVIOUS
  <2>1. /\ now' = now + 1 /\ UNCHANGED <<pc, start, due>>
        /\ (v \notin Overrun /\ pc[v] \in {"handling", "marking"}) => now < due[v]
    BY <1>3 DEF Tick, loop
  <2>2. now \in Nat /\ start[v] \in Int /\ due[v] \in Int /\ Skew[v] \in Int
    BY <1>0, QueueAssumption DEF TypeOK
  <2> QED
    BY SMT, <1>0, <2>1, <2>2 DEF Timed, Active, Clock
<1>4. CASE UNCHANGED vars
  BY <1>0, <1>4, TimedOther DEF vars, loop
<1> QED
  BY <1>1, <1>2, <1>3, <1>4 DEF Next

\* A claim takes no row from a loop that keeps its deadlines while the batch of
\* that loop is young enough: this is where LeaseMargin is needed.
LEMMA ClaimOwn ==
  ASSUME SafeInv, SafeInv', TimeInv, OwnInv,
         NEW w \in Worker, NEW B, NEW l, Claims(w, B, l)
  PROVE  OwnInv'
<1> SUFFICES ASSUME NEW v \in Worker \ Overrun, Clock(v)' - start'[v] <= Limit,
                    NEW i \in Claimed(v)'
             PROVE  lease'[i.id] = held'[v] /\ leasedAt'[i.id] = start'[v]
  BY DEF OwnInv
<1>0. i \in Item /\ i.id \in TaskId
  BY DEF Claimed, Item
<1>1. CASE v = w
  <2>1. i.id \in B
    BY <1>1, ClaimedBatch DEF SafeInv
  <2>2. pc'[w] = "batch"
    BY <1>1 DEF Claims, Claimed
  <2> QED
    BY <1>0, <1>1, <2>1, <2>2 DEF Claims
<1>2. CASE v # w
  <2>1. i \in Claimed(v)
    BY ZenonT(60), <1>2, ClaimedBatch DEF SafeInv
  <2>2. held'[v] = held[v] /\ start'[v] = start[v] /\ now' = now
    BY <1>2 DEF Claims, Others
  <2>3. Clock(v) - start[v] <= Limit
    BY <2>2 DEF Clock
  <2>4. lease[i.id] = held[v] /\ leasedAt[i.id] = start[v]
    BY <2>1, <2>3 DEF OwnInv
  <2>5. held[v] # NoLease
    BY <2>1, QueueAssumption DEF Claimed, SafeInv, HeldInv
  <2>6. i.id \notin B
    <3> SUFFICES ASSUME i.id \in B
                 PROVE  FALSE
      OBVIOUS
    <3>1. start[v] < start[w] - Lease
      BY <2>4, <2>5 DEF Claims
    <3>2. start[w] <= Clock(w)
      BY DEF TimeInv, Claims
    <3>3. Skew[w] - Skew[v] + 2 * Slack + MarkTimeout <= Timeout + Margin
      BY LeaseMargin
    <3>4. /\ now \in Int /\ start[v] \in Int /\ start[w] \in Int
          /\ Skew[v] \in Int /\ Skew[w] \in Int
          /\ Timeout \in Int /\ Margin \in Int /\ Slack \in Int /\ MarkTimeout \in Int
      BY SMT, QueueAssumption DEF SafeInv, TypeOK
    <3> QED
      BY SMT, <2>3, <3>1, <3>2, <3>3, <3>4 DEF Clock, Lease, Limit
  <2> QED
    BY <1>0, <2>2, <2>4, <2>6 DEF Claims
<1> QED
  BY <1>1, <1>2

\* The other steps of a loop clear no lease that another batch needs.
LEMMA ShapeOwn ==
  ASSUME SafeInv, OwnInv, NEW w \in Worker, Shape(w), now' = now
  PROVE  OwnInv'
<1> SUFFICES ASSUME NEW v \in Worker \ Overrun, Clock(v)' - start'[v] <= Limit,
                    NEW i \in Claimed(v)'
             PROVE  lease'[i.id] = held'[v] /\ leasedAt'[i.id] = start'[v]
  BY DEF OwnInv
<1>0. i \in Item /\ i.id \in TaskId
  BY DEF Claimed, Item
<1>1. i \in Claimed(v) /\ held'[v] = held[v] /\ start'[v] = start[v]
  <2>1. CASE v = w
    BY <2>1 DEF Shape, Goes, Claimed
  <2>2. CASE v # w
    BY <2>2 DEF Shape, Others, Claimed, Active, Busy
  <2> QED
    BY <2>1, <2>2
<1>2. Clock(v) - start[v] <= Limit
  BY <1>1 DEF Clock
<1>3. lease[i.id] = held[v] /\ leasedAt[i.id] = start[v]
  BY <1>1, <1>2 DEF OwnInv
<1>4. held[v] # NoLease
  BY <1>1, QueueAssumption DEF Claimed, SafeInv, HeldInv
<1>5. lease[i.id] = held[w] => v = w
  BY <1>3, <1>4 DEF SafeInv, HeldInv
<1> QED
  BY <1>0, <1>1, <1>3, <1>4, <1>5 DEF Shape, Frees

\* Every step keeps OwnInv.
LEMMA NextOwn ==
  SafeInv /\ SafeInv' /\ TimeInv /\ OwnInv /\ [Next]_vars => OwnInv'
<1> SUFFICES ASSUME SafeInv, SafeInv', TimeInv, OwnInv, [Next]_vars
             PROVE  OwnInv'
  OBVIOUS
<1>1. ASSUME NEW k \in Key \union {NoKey}, NEW d \in Delay, Schedule(k, d)
      PROVE  OwnInv'
  BY <1>1 DEF Schedule, loop, OwnInv, Claimed, Active, Busy, Clock
<1>2. ASSUME NEW w \in Worker, WorkerStep(w)
      PROVE  OwnInv'
  <2>1. ASSUME NEW B \in SUBSET TaskId, NEW l \in LeaseId,
               NEW answered \in BOOLEAN, Claim(w, B, l, answered)
        PROVE  OwnInv'
    <3>1. Claims(w, B, l)
      BY <2>1, ClaimShape DEF SafeInv
    <3> QED
      BY <3>1, ClaimOwn
  <2>2. ASSUME ~\E B \in SUBSET TaskId, l \in LeaseId, answered \in BOOLEAN :
                  Claim(w, B, l, answered)
        PROVE  OwnInv'
    <3>1. Shape(w)
      BY <1>2, <2>2, StepShape DEF SafeInv
    <3>2. now' = now
      BY <1>2, TimeInvIsTimed, WorkerTimed DEF SafeInv
    <3> QED
      BY <3>1, <3>2, ShapeOwn
  <2> QED
    BY <2>1, <2>2
<1>3. CASE Tick
  <2>1. /\ UNCHANGED <<lease, leasedAt, pc, start, items, held, cur>>
        /\ now' = now + 1
    BY <1>3 DEF Tick, table, loop
  <2>2. \A w \in Worker : Claimed(w)' = Claimed(w)
    BY <2>1 DEF Claimed, Active, Busy
  <2>3. \A w \in Worker : Clock(w)' - start'[w] <= Limit => Clock(w) - start[w] <= Limit
    BY SMTT(30), <2>1, QueueAssumption DEF Clock, Limit, SafeInv, TypeOK
  <2> QED
    BY <2>1, <2>2, <2>3 DEF OwnInv
<1>4. CASE UNCHANGED vars
  BY <1>4 DEF vars, table, loop, OwnInv, Claimed, Active, Busy, Clock
<1> QED
  BY <1>1, <1>2, <1>3, <1>4 DEF Next

LeaseInv == SafeInv /\ TimeInv /\ OwnInv

\* While a worker that keeps its deadlines handles or marks a task, its batch is
\* young enough, so the row is still leased by it.
LEMMA LeaseInvImplies == LeaseInv => MarksUnderLease /\ NoOverlap
<1> SUFFICES ASSUME LeaseInv
             PROVE  MarksUnderLease /\ NoOverlap
  OBVIOUS
<1> USE DEF LeaseInv
<1>1. ASSUME NEW w \in Worker \ Overrun, Busy(w)
      PROVE  /\ state[cur[w].id] = "live" /\ lease[cur[w].id] = held[w]
             /\ attempts[cur[w].id] = cur[w].attempts
             /\ held[w] # NoLease
  <2>1. cur[w] \in Claimed(w) /\ cur[w].id \in TaskId /\ Active(w)
    BY <1>1 DEF Claimed, Active, Busy, SafeInv, TypeOK, Item
  <2>2. held[w] # NoLease
    BY <2>1, QueueAssumption DEF SafeInv, HeldInv
  <2>3. now <= due[w] /\ due[w] + Skew[w] <= start[w] + Limit
    <3>1. now \in Int /\ start[w] \in Int /\ due[w] \in Int /\ Skew[w] \in Int
          /\ Timeout \in Nat /\ Slack \in Nat /\ MarkTimeout \in Nat
      BY SMT, QueueAssumption DEF SafeInv, TypeOK
    <3>2. CASE pc[w] = "handling"
      BY SMT, <3>1, <3>2 DEF TimeInv, Limit
    <3>3. CASE pc[w] = "marking"
      BY <3>3 DEF TimeInv
    <3> QED
      BY <1>1, <3>2, <3>3 DEF Busy
  <2>4. Clock(w) - start[w] <= Limit
    <3>1. now \in Int /\ start[w] \in Int /\ due[w] \in Int /\ Skew[w] \in Int
          /\ Limit \in Int
      BY SMT, QueueAssumption DEF SafeInv, TypeOK, Limit
    <3> QED
      BY SMT, <2>3, <3>1 DEF Clock
  <2>5. lease[cur[w].id] = held[w]
    BY <2>1, <2>4 DEF OwnInv
  <2> QED
    BY <2>1, <2>2, <2>5 DEF SafeInv, RowInv, ItemInv
<1>2. MarksUnderLease
  BY <1>1 DEF MarksUnderLease
<1>3. NoOverlap
  BY SMT, <1>1 DEF NoOverlap, Busy, SafeInv, HeldInv
<1> QED
  BY <1>2, <1>3

\* Every reachable state satisfies the whole invariant.
LEMMA LeaseInvariant == Spec => []LeaseInv
<1>1. Init => LeaseInv
  <2> SUFFICES ASSUME Init
               PROVE  LeaseInv
    OBVIOUS
  <2>1. TimeInv /\ OwnInv
    BY DEF Init, TimeInv, OwnInv, Claimed, Active
  <2> QED
    BY <2>1, InitSafe DEF LeaseInv
<1>2. LeaseInv /\ [Next]_vars => LeaseInv'
  BY NextSafe, NextTime, NextOwn DEF LeaseInv
<1> QED
  BY <1>1, <1>2, PTL DEF Spec

\* A worker that keeps its deadlines never loses a lease it still needs: it
\* marks every task under its own lease, however the claims of the others
\* interleave and as long as the clocks are within LeaseMargin.
THEOREM LeaseKept == Spec => []MarksUnderLease
  BY LeaseInvariant, LeaseInvImplies, PTL

\* No two workers that keep their deadlines handle the same task at once.
THEOREM Exclusive == Spec => []NoOverlap
  BY LeaseInvariant, LeaseInvImplies, PTL

-----------------------------------------------------------------------------
(* Dedup keys.                                                             *)

\* The unique index: one row per key, whatever the loops do to the rows.
THEOREM OneRowPerKey == Spec => []KeyUnique
<1>1. Init => KeyUnique
  BY DEF Init, KeyUnique
<1>2. SafeInv /\ KeyUnique /\ [Next]_vars => KeyUnique'
  <2> SUFFICES ASSUME SafeInv, KeyUnique, [Next]_vars
               PROVE  KeyUnique'
    OBVIOUS
  <2>1. ASSUME NEW k \in Key \union {NoKey}, NEW d \in Delay, Schedule(k, d)
        PROVE  KeyUnique'
    <3>1. /\ nextId \in TaskId
          /\ k # NoKey => \A t \in TaskId : state[t] # "none" => key[t] # k
          /\ state' = [state EXCEPT ![nextId] = "live"]
          /\ key' = [key EXCEPT ![nextId] = k]
      BY <2>1 DEF Schedule, Conflict
    <3> QED
      BY <3>1 DEF KeyUnique, SafeInv, TypeOK
  <2>2. ASSUME NEW w \in Worker, WorkerStep(w)
        PROVE  KeyUnique'
    <3>1. \A t \in TaskId : state'[t] # "none" => state[t] # "none" /\ key'[t] = key[t]
      <4>1. ASSUME NEW B \in SUBSET TaskId, NEW l \in LeaseId,
                   NEW answered \in BOOLEAN, Claim(w, B, l, answered)
            PROVE  UNCHANGED <<state, key>>
        BY <4>1 DEF Claim
      <4>2. ASSUME ~\E B \in SUBSET TaskId, l \in LeaseId, answered \in BOOLEAN :
                      Claim(w, B, l, answered)
            PROVE  Shape(w)
        BY <2>2, <4>2, StepShape DEF SafeInv
      <4> QED
        BY <4>1, <4>2 DEF Shape, Frees
    <3> QED
      BY <3>1 DEF KeyUnique
  <2>3. CASE Tick \/ UNCHANGED vars
    BY <2>3 DEF Tick, vars, table, KeyUnique
  <2> QED
    BY <2>1, <2>2, <2>3 DEF Next
<1> QED
  BY <1>1, <1>2, Safe, PTL DEF Spec

-----------------------------------------------------------------------------
(* The life of a task.                                                     *)

\* A step that changes neither the state nor the counts of a row is a stutter.
LEMMA LifeStutter ==
  ASSUME UNCHANGED <<state, attempts, nextId, history>>
  PROVE  UNCHANGED Life!vars
  BY DEF history, Life!vars, Phase

\* The steps of a loop are steps in the life of the tasks.
LEMMA LifeWorker ==
  ASSUME SafeInv, SafeInv', NEW w \in Worker, WorkerStep(w)
  PROVE  [Life!Next]_(Life!vars)
<1> USE DEF SafeInv
<1>0. /\ cur[w] \in Item /\ cur[w].id \in TaskId /\ cur[w].attempts \in Nat
      /\ \A t \in TaskId : t < nextId => Phase[t] # "new"
  BY Typed DEF TypeOK, Item, Phase
<1>1. CASE BeginTick(w) \/ ClaimError(w) \/ EndBatch(w) \/ StopBatch(w)
           \/ StartItem(w) \/ TickPanics(w) \/ MarkError(w) \/ ReleaseError(w)
           \/ Cancel(w) \/ Exit(w) \/ Crash(w) \/ Restart(w)
  BY <1>1, LifeStutter
     DEF BeginTick, ClaimError, EndBatch, StopBatch, StartItem, TickPanics, MarkError,
         ReleaseError, Cancel, Exit, Crash, Restart, table
<1>2. ASSUME NEW B \in SUBSET TaskId, NEW l \in LeaseId, NEW answered \in BOOLEAN,
             Claim(w, B, l, answered)
      PROVE  [Life!Next]_(Life!vars)
  BY <1>2, LifeStutter DEF Claim
<1>3. CASE Release(w)
  BY <1>3, LifeStutter DEF Release, ClearLeases
<1>4. ASSUME NEW o \in Outcome, HandleReturns(w, o)
      PROVE  [Life!Next]_(Life!vars)
  <2>1. Phase[cur[w].id] # "new"
    <3>1. cur[w] \in Claimed(w)
      BY <1>0, <1>4 DEF HandleReturns, Claimed, Active, Busy
    <3> QED
      BY <1>0, <3>1 DEF ItemInv
  <2>2. Phase' = Phase /\ attempts' = attempts
    BY <1>4 DEF HandleReturns, table, Phase
  <2>3. CASE o = "ok"
    <3>1. Life!Succeed(cur[w].id)
      BY <1>4, <2>1, <2>2, <2>3 DEF HandleReturns, Life!Succeed, IsTerminal
    <3> QED
      BY <1>0, <3>1 DEF Life!Next
  <2>4. CASE o # "ok"
    <3>1. failures' = [failures EXCEPT ![cur[w].id] = @ + 1] /\ succeeded' = succeeded
      BY <1>4, <2>4 DEF HandleReturns
    <3>2. CASE IsTerminal(o)
      <4>1. Life!Fail(cur[w].id, TRUE)
        BY <1>4, <2>1, <2>2, <3>1, <3>2 DEF HandleReturns, Life!Fail
      <4> QED
        BY <1>0, <4>1 DEF Life!Next
    <3>3. CASE ~IsTerminal(o)
      <4>1. Life!Fail(cur[w].id, FALSE)
        BY <1>4, <2>1, <2>2, <3>1, <3>3 DEF HandleReturns, Life!Fail
      <4> QED
        BY <1>0, <4>1 DEF Life!Next
    <3> QED
      BY <3>2, <3>3
  <2> QED
    BY <2>3, <2>4
<1>5. CASE MarkDone(w)
  <2> DEFINE c == cur[w].id
  <2>1. pc[w] = "marking" /\ c \in succeeded /\ held[w] # NoLease
    BY <1>5, QueueAssumption DEF MarkDone, CountInv, MarkInv, HeldInv, Active
  <2>2. CASE lease[c] # held[w]
    <3>1. UNCHANGED <<state, attempts, nextId, history>>
      BY <1>5, <2>2 DEF MarkDone, DeleteDone, Remove, TypeOK
    <3> QED
      BY <3>1, LifeStutter
  <2>3. CASE lease[c] = held[w]
    <3>1. state[c] = "live" /\ c < nextId
      BY <1>0, <2>1, <2>3 DEF RowInv
    <3>2. /\ state' = [state EXCEPT ![c] = "none"]
          /\ attempts' = [attempts EXCEPT ![c] = 0]
          /\ nextId' = nextId /\ UNCHANGED <<succeeded, refused, failures>>
      BY ZenonT(60), <1>0, <1>5, <2>3 DEF MarkDone, DeleteDone, Remove, history, TypeOK
    <3>3. Phase[c] = "waiting" /\ Phase' = [Phase EXCEPT ![c] = "gone"]
      BY SMTT(30), <1>0, <3>1, <3>2 DEF Phase, TypeOK
    <3>4. Life!Finish(c)
      BY <2>1, <3>2, <3>3 DEF Life!Finish
    <3> QED
      BY <1>0, <3>4 DEF Life!Next
  <2> QED
    BY <2>2, <2>3
<1>6. CASE MarkFailed(w)
  <2> DEFINE c == cur[w].id
             dead == IsTerminal(err[w]) \/ Exhausted(cur[w].attempts + 1)
  <2>1. /\ pc[w] = "marking" /\ err[w] # "ok" /\ held[w] # NoLease
        /\ UpdateFailed(cur[w], held[w], dead, at[w])
        /\ UNCHANGED <<succeeded, refused, failures>>
    BY <1>6, QueueAssumption DEF MarkFailed, HeldInv, Active, history
  <2>2. CASE lease[c] # held[w]
    BY <1>6, <2>1, <2>2, LifeStutter DEF UpdateFailed, table, history
  <2>3. CASE lease[c] = held[w]
    <3>0. cur[w] \in Claimed(w)
      BY <1>0, <2>1 DEF Claimed, Active, Busy
    <3>1. /\ state[c] = "live" /\ attempts[c] = cur[w].attempts
          /\ attempts[c] < failures[c] /\ (IsTerminal(err[w]) => c \in refused)
      BY <1>0, <2>1, <2>3, <3>0 DEF RowInv, ItemInv, CountInv, MarkInv
    <3>2. dead => c \in refused \/ Life!Exhausted(attempts[c] + 1)
      BY <3>1 DEF Exhausted, Life!Exhausted
    <3>3. ~dead => ~Life!Exhausted(attempts[c] + 1)
      BY <3>1 DEF Exhausted, Life!Exhausted
    <3> HIDE DEF dead
    <3>4. /\ state' = [state EXCEPT ![c] = IF dead THEN "dead" ELSE "live"]
          /\ attempts' = [attempts EXCEPT ![c] = attempts[c] + 1]
          /\ nextId' = nextId
      BY <1>0, <2>1, <2>3, <3>1 DEF UpdateFailed, UpdateRow, TypeOK
    <3>5. Phase[c] = "waiting"
          /\ Phase' = [Phase EXCEPT ![c] = IF dead THEN "dead" ELSE "waiting"]
      BY <1>0, <3>1, <3>4 DEF Phase, TypeOK
    <3>6. CASE dead
      <4>1. Life!Bury(c)
        BY <2>1, <3>1, <3>2, <3>4, <3>5, <3>6 DEF Life!Bury
      <4> QED
        BY <1>0, <4>1 DEF Life!Next
    <3>7. CASE ~dead
      <4>1. Phase' = Phase
        BY <1>0, <3>5, <3>7 DEF Phase
      <4>2. Life!Count(c)
        BY <2>1, <3>1, <3>3, <3>4, <3>5, <3>7, <4>1 DEF Life!Count
      <4> QED
        BY <1>0, <4>2 DEF Life!Next
    <3> QED
      BY <3>6, <3>7
  <2> QED
    BY <2>2, <2>3
<1>7. CASE Cleanup(w)
  <2> DEFINE old == OldDead(w)
  <2>1. Remove(old) /\ UNCHANGED <<succeeded, refused, failures>>
    BY <1>7 DEF Cleanup, history
  <2>2. \A t \in old : state[t] = "dead" /\ t < nextId
    BY DEF RowInv, OldDead
  <2> HIDE DEF old
  <2>3. /\ \A t \in old : t \in TaskId => Phase[t] = "dead"
        /\ Phase' = [t \in TaskId |-> IF t \in old THEN "gone" ELSE Phase[t]]
    BY <2>1, <2>2 DEF Remove, Phase
  <2>4. old \in SUBSET TaskId
    BY DEF old, OldDead
  <2>5. Life!Drop(old)
    BY <2>1, <2>3, <2>4 DEF Life!Drop, Remove
  <2> QED
    BY <2>4, <2>5 DEF Life!Next
<1> QED
  BY <1>1, <1>2, <1>3, <1>4, <1>5, <1>6, <1>7 DEF WorkerStep

\* Every step of the queue is a step in the life of the tasks, or none.
LEMMA LifeNext ==
  SafeInv /\ SafeInv' /\ [Next]_vars => [Life!Next]_(Life!vars)
<1> SUFFICES ASSUME SafeInv, SafeInv', [Next]_vars
             PROVE  [Life!Next]_(Life!vars)
  OBVIOUS
<1>1. ASSUME NEW k \in Key \union {NoKey}, NEW d \in Delay, Schedule(k, d)
      PROVE  [Life!Next]_(Life!vars)
  <2>1. /\ nextId \in TaskId /\ nextId' = nextId + 1
        /\ state' = [state EXCEPT ![nextId] = "live"]
        /\ UNCHANGED <<attempts, succeeded, refused, failures>>
    BY <1>1 DEF Schedule, history
  <2>2. state[nextId] = "none"
    BY SMT, <2>1 DEF SafeInv, RowInv, TypeOK
  <2>3. Phase[nextId] = "new" /\ Phase' = [Phase EXCEPT ![nextId] = "waiting"]
    <3>1. TaskId \subseteq Nat /\ nextId \in Nat /\ state \in [TaskId -> {"none", "live", "dead"}]
      BY Typed DEF SafeInv, TypeOK
    <3>2. \A t \in TaskId \ {nextId} : t < nextId <=> t < nextId + 1
      BY SMT, <3>1
    <3>3. Phase[nextId] = "new"
      BY SMT, <2>1, <2>2, <3>1 DEF Phase
    <3>4. Phase'[nextId] = "waiting"
      BY <2>1, <3>1 DEF Phase
    <3>5. \A t \in TaskId \ {nextId} : Phase'[t] = Phase[t]
      BY <2>1, <3>1, <3>2 DEF Phase
    <3>6. Phase' = [t \in TaskId |-> Phase'[t]] /\ Phase = [t \in TaskId |-> Phase[t]]
      BY DEF Phase
    <3> HIDE DEF Phase
    <3> QED
      BY <2>1, <3>3, <3>4, <3>5, <3>6
  <2>4. Life!Add(nextId)
    BY <2>1, <2>3 DEF Life!Add
  <2> QED
    BY <2>1, <2>4 DEF Life!Next
<1>2. ASSUME NEW w \in Worker, WorkerStep(w)
      PROVE  [Life!Next]_(Life!vars)
  BY <1>2, LifeWorker
<1>3. CASE Tick \/ UNCHANGED vars
  BY <1>3, LifeStutter DEF Tick, vars, table
<1> QED
  BY <1>1, <1>2, <1>3 DEF Next

\* The queue implements QueueLife: leases, batches, clocks, crashes and workers
\* that overrun add nothing to the life of a task.
THEOREM Implements == Spec => LifeSpec
<1>1. Init => Life!Init
  BY SMT, Typed DEF Init, Life!Init, Phase, TaskId
<1>2. SafeInv /\ SafeInv' /\ [Next]_vars => [Life!Next]_(Life!vars)
  BY LifeNext
<1> QED
  BY <1>1, <1>2, Safe, PTL DEF Spec, LifeSpec, Life!Spec
=============================================================================
