------------------------------- MODULE Queue -------------------------------
(***************************************************************************)
(* The task queue: the table queue_tasks of one queue (queue/pgqueue.go)   *)
(* and the claim loops that work it off (queue/workers.go over             *)
(* worker/processor.go).  A row is split into one function per column, a   *)
(* claim loop into one function per local variable.                        *)
(*                                                                         *)
(* Time is an integer.  A worker reads it through its own clock, Skew[w]   *)
(* away from the real one, because the code computes every timestamp in    *)
(* Go.  A statement takes effect at one instant; what may happen before    *)
(* and after it (a slow round trip, a lost answer, a crash) is a step of   *)
(* its own.                                                                *)
(***************************************************************************)
EXTENDS Integers, Sequences, FiniteSets

CONSTANTS
  MaxTasks,     \* how many rows may be inserted, for model checking
  Worker,       \* claim loops of every replica
  Key, NoKey,   \* dedup keys; NoKey is the empty one
  LeaseId, NoLease,
  Batch,        \* Config.Batch
  Timeout,      \* Config.Timeout
  MarkTimeout,  \* markTimeout: bound of a mark or a release
  Margin,       \* the 10s of lease()
  Slack,        \* how late a step bounded by a context may end
  RetryDelay,   \* RetryDelay[n]: backoff after n failures; the last one stays
  MaxAttempts,  \* Backoff.MaxAttempts; 0 retries without limit
  Retention,    \* deadRetention
  Delay,        \* Params.Delay, plus what the clock of the producer is off
  Outcome,      \* what a handler may return
  Skew,         \* Skew[w]: clock of w minus real time
  Overrun,      \* workers that may run past their deadlines
  MaxTime       \* bound on the clock, for model checking

TaskId == 1..MaxTasks

\* A handler error may be marked by Permanent, by Halt, by both or by none; a
\* panic ends as whatever OnPanic makes of it, so it adds no outcome.
OutcomeKind == {"ok", "retry", "permanent", "halt", "permanentHalt"}

ASSUME QueueAssumption ==
  /\ MaxTasks \in Nat \ {0}
  /\ NoKey \notin Key
  /\ NoLease \notin LeaseId
  /\ Batch \in Nat \ {0}
  /\ Timeout \in Nat \ {0}
  /\ MarkTimeout \in Nat
  /\ Margin \in Nat
  /\ Slack \in Nat
  /\ RetryDelay \in Seq(Nat) /\ RetryDelay # << >>
  /\ MaxAttempts \in Nat
  /\ Retention \in Nat
  /\ Delay \subseteq Int
  /\ Outcome \subseteq OutcomeKind
  /\ Skew \in [Worker -> Int]
  /\ Overrun \subseteq Worker
  /\ MaxTime \in Nat

\* How far the clocks of two workers may be apart, and how late a bounded step
\* may end, for the lease to cover a task whose handler obeys its context.
ASSUME LeaseMargin ==
  \A v \in Worker, w \in Worker \ Overrun :
    Skew[v] - Skew[w] + 2 * Slack + MarkTimeout <= Timeout + Margin

VARIABLES
  now,
  \* the table, one function per column; state is "none" when there is no row,
  \* "dead" when done_at is set
  state, key, runAt, attempts, lease, leasedAt, doneAt,
  nextId,
  \* the claim loops: where they are in drain and its local variables
  pc,           \* idle, claiming, batch, handling, marking, releasing, down
  stopping,     \* the context of the loop is canceled
  start,        \* start of drain
  items,        \* the rest of the batch
  held,         \* the lease id of the batch
  cur,          \* the item being handled or marked
  at,           \* now of handleOne
  err,          \* handleErr
  due,          \* when the context of the current step ends
  \* history
  succeeded,    \* tasks whose handler has returned nil
  refused,      \* tasks whose handler has returned a permanent error
  failures      \* failures[t]: how often the handler has returned an error for t

table == <<state, key, runAt, attempts, lease, leasedAt, doneAt, nextId>>
loop == <<pc, stopping, start, items, held, cur, at, err, due>>
history == <<succeeded, refused, failures>>
vars == <<now, table, loop, history>>

-----------------------------------------------------------------------------
\* Mutant: the lease covers one handler only.
ShortLease == Timeout

Lease == 3 * Timeout + Margin

Clock(w) == now + Skew[w]

\* A claimed task as the loop remembers it (leased): its attempts and place
\* are those of the claim.
Item == [id: TaskId, attempts: Nat, runAt: Int]

NoItem == [id |-> 1, attempts |-> 0, runAt |-> 0]

Before(i, j) == i.runAt < j.runAt \/ (i.runAt = j.runAt /\ i.id < j.id)

RowItem(t) == [id |-> t, attempts |-> attempts[t], runAt |-> runAt[t]]

IsTerminal(o) == o \in {"permanent", "permanentHalt"}
IsHalt(o) == o \in {"halt", "permanentHalt"}

Exhausted(n) == MaxAttempts > 0 /\ n >= MaxAttempts

\* Backoff.Next: capped by Max, so it stops growing.
NextDelay(n) == RetryDelay[IF n > Len(RetryDelay) THEN Len(RetryDelay) ELSE n]

UsedLeases == {lease[t] : t \in TaskId} \union {held[w] : w \in Worker}

-----------------------------------------------------------------------------
Init ==
  /\ now = 0
  /\ state = [t \in TaskId |-> "none"]
  /\ key = [t \in TaskId |-> NoKey]
  /\ runAt = [t \in TaskId |-> 0]
  /\ attempts = [t \in TaskId |-> 0]
  /\ lease = [t \in TaskId |-> NoLease]
  /\ leasedAt = [t \in TaskId |-> 0]
  /\ doneAt = [t \in TaskId |-> 0]
  /\ nextId = 1
  /\ pc = [w \in Worker |-> "idle"]
  /\ stopping = [w \in Worker |-> FALSE]
  /\ start = [w \in Worker |-> 0]
  /\ items = [w \in Worker |-> {}]
  /\ held = [w \in Worker |-> NoLease]
  /\ cur = [w \in Worker |-> NoItem]
  /\ at = [w \in Worker |-> 0]
  /\ err = [w \in Worker |-> "ok"]
  /\ due = [w \in Worker |-> 0]
  /\ succeeded = {}
  /\ refused = {}
  /\ failures = [t \in TaskId |-> 0]

-----------------------------------------------------------------------------
(* The producers. *)

\* Mutant: dead rows do not count.
ConflictLive(k) == k # NoKey /\ \E t \in TaskId : state[t] = "live" /\ key[t] = k

\* ON CONFLICT (queue, key): the key is in the table, in whatever state its row.
Conflict(k) == k # NoKey /\ \E t \in TaskId : state[t] # "none" /\ key[t] = k

\* PG.Schedule; a conflict does nothing.
Schedule(k, d) ==
  /\ nextId \in TaskId
  /\ ~Conflict(k)
  /\ state' = [state EXCEPT ![nextId] = "live"]
  /\ key' = [key EXCEPT ![nextId] = k]
  /\ runAt' = [runAt EXCEPT ![nextId] = now + d]
  /\ nextId' = nextId + 1
  /\ UNCHANGED <<now, attempts, lease, leasedAt, doneAt, loop, history>>

-----------------------------------------------------------------------------
(* The statements of the table that the claim loops and the cleaner run.   *)

\* What a claim at time n finds: due, not dead, and not leased or under a
\* lease that has run out.
Ready(n) ==
  {t \in TaskId : /\ state[t] = "live"
                  /\ runAt[t] <= n
                  /\ lease[t] = NoLease \/ leasedAt[t] < n - Lease}

\* Rows that a statement of another worker may hold locked: FOR UPDATE SKIP
\* LOCKED passes over them.
LockedByOthers(w) ==
  {t \in TaskId : \E v \in Worker \ {w} :
      \/ pc[v] = "claiming" /\ t \in Ready(start[v])
      \/ pc[v] = "marking" /\ t = cur[v].id
      \/ pc[v] = "releasing" /\ t \in {i.id : i \in items[v]}}

\* The batches a claim of w may take: the first Batch ready rows in run_at, id
\* order, less those that are locked.
Claimable(w) ==
  LET ready == Ready(start[w])
      passed(B) == {t \in ready \ B : t \notin LockedByOthers(w)}
  IN  {B \in SUBSET ready :
         /\ Cardinality(B) <= Batch
         /\ passed(B) # {} =>
              /\ Cardinality(B) = Batch
              /\ \A b \in B, t \in passed(B) : Before(RowItem(b), RowItem(t))}

\* A row is deleted: every column goes back to its value before the insert.
Remove(T) ==
  /\ state' = [t \in TaskId |-> IF t \in T THEN "none" ELSE state[t]]
  /\ key' = [t \in TaskId |-> IF t \in T THEN NoKey ELSE key[t]]
  /\ runAt' = [t \in TaskId |-> IF t \in T THEN 0 ELSE runAt[t]]
  /\ attempts' = [t \in TaskId |-> IF t \in T THEN 0 ELSE attempts[t]]
  /\ lease' = [t \in TaskId |-> IF t \in T THEN NoLease ELSE lease[t]]
  /\ leasedAt' = [t \in TaskId |-> IF t \in T THEN 0 ELSE leasedAt[t]]
  /\ doneAt' = [t \in TaskId |-> IF t \in T THEN 0 ELSE doneAt[t]]
  /\ UNCHANGED nextId

\* markDone, a DELETE guarded by the lease; no row matches a lost lease.
DeleteDone(t, l) == Remove(IF lease[t] = l THEN {t} ELSE {})

\* markFailed: the attempts are those of the claim plus one.
UpdateRow(i, dead, n) ==
  /\ lease' = [lease EXCEPT ![i.id] = NoLease]
  /\ leasedAt' = [leasedAt EXCEPT ![i.id] = 0]
  /\ attempts' = [attempts EXCEPT ![i.id] = i.attempts + 1]
  /\ state' = [state EXCEPT ![i.id] = IF dead THEN "dead" ELSE @]
  /\ doneAt' = [doneAt EXCEPT ![i.id] = IF dead THEN n ELSE @]
  /\ runAt' = [runAt EXCEPT ![i.id] = IF dead THEN @ ELSE n + NextDelay(i.attempts + 1)]
  /\ UNCHANGED <<key, nextId>>

UpdateFailed(i, l, dead, n) ==
  IF lease[i.id] = l THEN UpdateRow(i, dead, n) ELSE UNCHANGED table

\* Mutant: a release counts as an attempt.
ClearLeasesCounting(T, l) ==
  LET mine == {t \in T : lease[t] = l}
  IN  /\ lease' = [t \in TaskId |-> IF t \in mine THEN NoLease ELSE lease[t]]
      /\ leasedAt' = [t \in TaskId |-> IF t \in mine THEN 0 ELSE leasedAt[t]]
      /\ attempts' = [t \in TaskId |-> attempts[t] + IF t \in mine THEN 1 ELSE 0]
      /\ UNCHANGED <<state, key, runAt, doneAt, nextId>>

\* release: only the rows still under the lease of the batch.
ClearLeases(T, l) ==
  LET mine == {t \in T : lease[t] = l}
  IN  /\ lease' = [t \in TaskId |-> IF t \in mine THEN NoLease ELSE lease[t]]
      /\ leasedAt' = [t \in TaskId |-> IF t \in mine THEN 0 ELSE leasedAt[t]]
      /\ UNCHANGED <<state, key, runAt, attempts, doneAt, nextId>>

-----------------------------------------------------------------------------
(* The claim loops: one tick is drain of the processor.                    *)

\* drain returns: its local variables go out of scope.
Return(w, to) ==
  /\ pc' = [pc EXCEPT ![w] = to]
  /\ start' = [start EXCEPT ![w] = 0]
  /\ items' = [items EXCEPT ![w] = {}]
  /\ held' = [held EXCEPT ![w] = NoLease]
  /\ cur' = [cur EXCEPT ![w] = NoItem]
  /\ at' = [at EXCEPT ![w] = 0]
  /\ err' = [err EXCEPT ![w] = "ok"]
  /\ due' = [due EXCEPT ![w] = 0]

\* The timer of the loop fires and drain sends its claim.  A canceled loop may
\* still tick once (select takes either ready case); that claim fails at once.
BeginTick(w) ==
  /\ pc[w] = "idle" /\ ~stopping[w]
  /\ pc' = [pc EXCEPT ![w] = "claiming"]
  /\ start' = [start EXCEPT ![w] = Clock(w)]
  /\ UNCHANGED <<now, table, stopping, items, held, cur, at, err, due, history>>

\* The claim fails before it takes effect.
ClaimError(w) ==
  /\ pc[w] = "claiming"
  /\ Return(w, "idle")
  /\ UNCHANGED <<now, table, stopping, history>>

\* The claim takes effect, with the time drain read before it was sent: the
\* batch B is leased under the fresh id l.  When its answer is lost, the rows
\* stay leased and drain returns.
Claim(w, B, l, answered) ==
  /\ pc[w] = "claiming"
  /\ B \in Claimable(w)
  /\ l \notin UsedLeases
  /\ lease' = [t \in TaskId |-> IF t \in B THEN l ELSE lease[t]]
  /\ leasedAt' = [t \in TaskId |-> IF t \in B THEN start[w] ELSE leasedAt[t]]
  /\ IF answered /\ B # {}
     THEN /\ pc' = [pc EXCEPT ![w] = "batch"]
          /\ items' = [items EXCEPT ![w] = {RowItem(t) : t \in B}]
          /\ held' = [held EXCEPT ![w] = l]
          /\ UNCHANGED <<start, cur, at, err, due>>
     ELSE Return(w, "idle")
  /\ UNCHANGED <<now, state, key, runAt, attempts, doneAt, nextId, stopping,
                 history>>

\* Mutant: the batch has no deadline.
ExpiredOnCancel(w) == stopping[w]

\* expired: the tick is canceled or the batch has run BatchTimeout.
Expired(w) == stopping[w] \/ Clock(w) - start[w] >= Timeout

\* The range over the batch ends.
EndBatch(w) ==
  /\ pc[w] = "batch" /\ items[w] = {}
  /\ Return(w, "idle")
  /\ UNCHANGED <<now, table, stopping, history>>

\* The batch stops before its next item; the rest is released.
StopBatch(w) ==
  /\ pc[w] = "batch" /\ items[w] # {} /\ Expired(w)
  /\ pc' = [pc EXCEPT ![w] = "releasing"]
  /\ due' = [due EXCEPT ![w] = now + MarkTimeout + Slack]
  /\ UNCHANGED <<now, table, stopping, start, items, held, cur, at, err, history>>

\* handleOne starts the next item under HandleTimeout.
StartItem(w) ==
  /\ pc[w] = "batch" /\ items[w] # {} /\ ~Expired(w)
  /\ \E i \in items[w] :
       /\ \A j \in items[w] \ {i} : Before(i, j)
       /\ cur' = [cur EXCEPT ![w] = i]
       /\ items' = [items EXCEPT ![w] = @ \ {i}]
  /\ at' = [at EXCEPT ![w] = Clock(w)]
  /\ pc' = [pc EXCEPT ![w] = "handling"]
  /\ due' = [due EXCEPT ![w] = now + Timeout + Slack]
  /\ UNCHANGED <<now, table, stopping, start, held, err, history>>

\* Handle returns o, and settle starts the mark.
HandleReturns(w, o) ==
  /\ pc[w] = "handling"
  /\ pc' = [pc EXCEPT ![w] = "marking"]
  /\ err' = [err EXCEPT ![w] = o]
  /\ due' = [due EXCEPT ![w] = now + MarkTimeout + Slack]
  /\ succeeded' = IF o = "ok" THEN succeeded \union {cur[w].id} ELSE succeeded
  /\ refused' = IF IsTerminal(o) THEN refused \union {cur[w].id} ELSE refused
  /\ failures' = IF o = "ok" THEN failures
                 ELSE [failures EXCEPT ![cur[w].id] = @ + 1]
  /\ UNCHANGED <<now, table, stopping, start, items, held, cur, at>>

\* OnPanic panics itself: the loop recovers the tick, the batch stays leased.
TickPanics(w) ==
  /\ pc[w] = "handling"
  /\ Return(w, "idle")
  /\ UNCHANGED <<now, table, stopping, history>>

\* After the mark, whatever became of it: a halting error stops the batch, and
\* what is left of it is released.
AfterMark(w) ==
  IF ~IsHalt(err[w])
  THEN /\ pc' = [pc EXCEPT ![w] = "batch"]
       /\ cur' = [cur EXCEPT ![w] = NoItem]
       /\ at' = [at EXCEPT ![w] = 0]
       /\ err' = [err EXCEPT ![w] = "ok"]
       /\ due' = [due EXCEPT ![w] = 0]
       /\ UNCHANGED <<start, items, held>>
  ELSE IF items[w] # {}
  THEN /\ pc' = [pc EXCEPT ![w] = "releasing"]
       /\ due' = [due EXCEPT ![w] = now + MarkTimeout + Slack]
       /\ cur' = [cur EXCEPT ![w] = NoItem]
       /\ at' = [at EXCEPT ![w] = 0]
       /\ err' = [err EXCEPT ![w] = "ok"]
       /\ UNCHANGED <<start, items, held>>
  ELSE Return(w, "idle")

MarkDone(w) ==
  /\ pc[w] = "marking" /\ err[w] = "ok"
  /\ DeleteDone(cur[w].id, held[w])
  /\ AfterMark(w)
  /\ UNCHANGED <<now, stopping, history>>

MarkFailed(w) ==
  /\ pc[w] = "marking" /\ err[w] # "ok"
  /\ UpdateFailed(cur[w], held[w],
                  IsTerminal(err[w]) \/ Exhausted(cur[w].attempts + 1), at[w])
  /\ AfterMark(w)
  /\ UNCHANGED <<now, stopping, history>>

\* The mark fails without effect: it is logged and the batch goes on.
MarkError(w) ==
  /\ pc[w] = "marking"
  /\ AfterMark(w)
  /\ UNCHANGED <<now, table, stopping, history>>

Release(w) ==
  /\ pc[w] = "releasing"
  /\ ClearLeases({i.id : i \in items[w]}, held[w])
  /\ Return(w, "idle")
  /\ UNCHANGED <<now, stopping, history>>

ReleaseError(w) ==
  /\ pc[w] = "releasing"
  /\ Return(w, "idle")
  /\ UNCHANGED <<now, table, stopping, history>>

-----------------------------------------------------------------------------
(* Shutdown, crashes, the cleaner and the clock.                           *)

\* The context of the loop is canceled: the group shuts down.
Cancel(w) ==
  /\ pc[w] # "down" /\ ~stopping[w]
  /\ stopping' = [stopping EXCEPT ![w] = TRUE]
  /\ UNCHANGED <<now, table, pc, start, items, held, cur, at, err, due, history>>

\* The loop sees ctx.Done between two ticks and returns.
Exit(w) ==
  /\ pc[w] = "idle" /\ stopping[w]
  /\ pc' = [pc EXCEPT ![w] = "down"]
  /\ stopping' = [stopping EXCEPT ![w] = FALSE]
  /\ UNCHANGED <<now, table, start, items, held, cur, at, err, due, history>>

\* The process dies: what the loop knew is gone, its leases stay.
Crash(w) ==
  /\ pc[w] # "down"
  /\ Return(w, "down")
  /\ stopping' = [stopping EXCEPT ![w] = FALSE]
  /\ UNCHANGED <<now, table, history>>

Restart(w) ==
  /\ pc[w] = "down"
  /\ pc' = [pc EXCEPT ![w] = "idle"]
  /\ UNCHANGED <<now, table, stopping, start, items, held, cur, at, err, due,
                 history>>

\* Mutant: every old row, dead or not.
OldRow(w) == {t \in TaskId : state[t] # "none" /\ doneAt[t] < Clock(w) - Retention}

\* Dead rows past the retention, by the clock of the replica of w.
OldDead(w) == {t \in TaskId : state[t] = "dead" /\ doneAt[t] < Clock(w) - Retention}

\* The cleaner that runs beside the loop of w.
Cleanup(w) ==
  /\ pc[w] # "down" /\ OldDead(w) # {}
  /\ Remove(OldDead(w))
  /\ UNCHANGED <<now, loop, history>>

\* Time passes.  A worker that obeys its contexts ends a bounded step in time.
Tick ==
  /\ now < MaxTime
  /\ \A w \in Worker \ Overrun :
        pc[w] \in {"handling", "marking", "releasing"} => now < due[w]
  /\ now' = now + 1
  /\ UNCHANGED <<table, loop, history>>

WorkerStep(w) ==
  \/ BeginTick(w)
  \/ ClaimError(w)
  \/ \E B \in SUBSET TaskId, l \in LeaseId, answered \in BOOLEAN :
        Claim(w, B, l, answered)
  \/ EndBatch(w)
  \/ StopBatch(w)
  \/ StartItem(w)
  \/ \E o \in Outcome : HandleReturns(w, o)
  \/ TickPanics(w)
  \/ MarkDone(w)
  \/ MarkFailed(w)
  \/ MarkError(w)
  \/ Release(w)
  \/ ReleaseError(w)
  \/ Cancel(w)
  \/ Exit(w)
  \/ Crash(w)
  \/ Restart(w)
  \/ Cleanup(w)

Next ==
  \/ \E k \in Key \union {NoKey}, d \in Delay : Schedule(k, d)
  \/ \E w \in Worker : WorkerStep(w)
  \/ Tick

Spec == Init /\ [][Next]_vars

-----------------------------------------------------------------------------
(* Properties.                                                             *)

PC == {"idle", "claiming", "batch", "handling", "marking", "releasing", "down"}

\* Every variable has its type: the columns of queue_tasks and the local
\* variables of drain and handleOne.
TypeOK ==
  /\ now \in Nat
  /\ state \in [TaskId -> {"none", "live", "dead"}]
  /\ key \in [TaskId -> Key \union {NoKey}]
  /\ runAt \in [TaskId -> Int]
  /\ attempts \in [TaskId -> Nat]
  /\ lease \in [TaskId -> LeaseId \union {NoLease}]
  /\ leasedAt \in [TaskId -> Int]
  /\ doneAt \in [TaskId -> Int]
  /\ nextId \in Nat
  /\ pc \in [Worker -> PC]
  /\ stopping \in [Worker -> BOOLEAN]
  /\ start \in [Worker -> Int]
  /\ items \in [Worker -> SUBSET Item]
  /\ held \in [Worker -> LeaseId \union {NoLease}]
  /\ cur \in [Worker -> Item]
  /\ at \in [Worker -> Int]
  /\ err \in [Worker -> OutcomeKind]
  /\ due \in [Worker -> Int]
  /\ succeeded \in SUBSET TaskId
  /\ refused \in SUBSET TaskId
  /\ failures \in [TaskId -> Nat]

Busy(w) == pc[w] \in {"handling", "marking"}

\* No task is handled twice at the same time: while a worker that obeys its
\* deadlines runs the handler of a task, no other such worker does, although
\* claims are slow, batches are long and the clocks of the replicas differ.
\* This is what the lease of 3 * Timeout + 10s is for.
NoOverlap ==
  \A v, w \in Worker \ Overrun :
    (v # w /\ pc[v] = "handling" /\ pc[w] = "handling") =>
      cur[v].id # cur[w].id

\* A worker that obeys its deadlines marks a task under its own lease: the row
\* is there, alive, leased by this batch and with the attempts the worker
\* claimed, so errLeaseLost never meets it.
MarksUnderLease ==
  \A w \in Worker \ Overrun : Busy(w) =>
    LET t == cur[w].id
    IN  /\ state[t] = "live"
        /\ lease[t] = held[w]
        /\ attempts[t] = cur[w].attempts

\* The budget of t is spent by as many returned errors.
Spent(t) == MaxAttempts > 0 /\ failures[t] >= MaxAttempts

\* No scheduled task is lost: one that is not waiting in the table any more was
\* handled with success, refused for good, or failed as often as Backoff allows.
\* A worker that overruns its lease, a crash or a lost answer changes nothing.
NoTaskLost ==
  \A t \in TaskId : (t < nextId /\ state[t] # "live") =>
    t \in succeeded \/ t \in refused \/ Spent(t)

\* A dead letter has a reason: its handler refused it or its budget is spent.
DeadForAReason ==
  \A t \in TaskId : state[t] = "dead" => t \in refused \/ Spent(t)

\* Attempts count failures only (doc of Workers): releases, reclaims after a
\* crash and late marks add none, and a task that waits has some of its budget
\* left.
AttemptsAreFailures ==
  \A t \in TaskId :
    /\ attempts[t] <= failures[t]
    /\ state[t] = "live" => ~Exhausted(attempts[t])

\* At most one row per dedup key, waiting, leased or dead.
KeyUnique ==
  \A t, u \in TaskId :
    (state[t] # "none" /\ state[u] # "none" /\ key[t] = key[u] /\ key[t] # NoKey)
      => t = u

-----------------------------------------------------------------------------
(* What the queue promises, as a specification of its own.                 *)

Phase ==
  [t \in TaskId |-> IF state[t] = "live" THEN "waiting"
                    ELSE IF state[t] = "dead" THEN "dead"
                    ELSE IF t < nextId THEN "gone" ELSE "new"]

Life == INSTANCE QueueLife WITH Task <- TaskId, phase <- Phase

\* The queue implements QueueLife: every statement of every worker, on time or
\* late, is one step in the life of the tasks or leaves it alone.
LifeSpec == Life!Spec

\* What becomes of a scheduled task, through crashes, lost leases and late workers:
\* its row stays until it is handled, it is dead only for a reason, and it has
\* failed as often as its row says.
TasksAreKept == NoTaskLost /\ DeadForAReason /\ AttemptsAreFailures
=============================================================================
