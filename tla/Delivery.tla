------------------------------ MODULE Delivery ------------------------------
(***************************************************************************)
(* An event from its transaction to a handler: the task of the outbox      *)
(* (outbox/handler.go on a queue), the Kafka publisher, one partition, and *)
(* the Kafka consumer of one group (broker/kafka/consumer.go), started and *)
(* stopped by the group of its process.                                    *)
(*                                                                         *)
(* Of the queue only its promise is used (QueueLife): a task that waits is *)
(* handled again until a handler succeeds or refuses it.  The partition is *)
(* a sequence of records; a reader of the group is given the partition at  *)
(* the committed offset.  A record is Bad when the envelope rejects it.    *)
(***************************************************************************)
EXTENDS Naturals, Sequences, FiniteSets

CONSTANTS Event,
          Refused,       \* events over the size limit of the broker
          Bad,           \* a record of another producer that does not decode
          Concurrency,   \* ConsumerConfig.Concurrency
          MaxRetries,
          MaxFaults      \* bound on the faults, for model checking

Reader == 1..Concurrency
NoReader == 0

ASSUME DeliveryAssumption ==
  /\ Refused \subseteq Event /\ Bad \notin Event
  /\ Concurrency \in Nat \ {0} /\ MaxRetries \in Nat
  /\ MaxFaults \in Nat

VARIABLES
  phase,      \* the task of each event: waiting, gone, dead
  log,        \* the records of the partition
  committed,  \* the offset the group has committed: records 1..committed
  owner,      \* the reader the partition is assigned to
  pos,        \* the last record handed to it
  \* the process of the consumer
  main,       \* Start: down, starting, waiting, draining, returned
  canceled,   \* the context of Start
  closed,     \* Consumer.closed
  rd,         \* each kafka reader: none, made, open, closed
  go,         \* the goroutine of each reader
  at,         \* the record it handles
  attempt,
  \* history
  settled,    \* records with a terminal verdict
  abandoned,  \* records given up in the backoff of a shutdown
  faults

queue == <<phase, log>>
group == <<committed, owner, pos>>
run == <<main, canceled, closed>>
history == <<settled, abandoned>>
readers == <<rd, go, at, attempt>>
vars == <<queue, group, run, readers, history, faults>>

Fault == faults < MaxFaults /\ faults' = faults + 1

None == [r \in Reader |-> "none"]
Zero == [r \in Reader |-> 0]

Init ==
  /\ phase = [e \in Event |-> "waiting"] /\ log = <<>>
  /\ committed = 0 /\ owner = NoReader /\ pos = 0
  /\ main = "down" /\ canceled = FALSE /\ closed = FALSE
  /\ rd = None /\ go = None /\ at = Zero /\ attempt = Zero
  /\ settled = {} /\ abandoned = {} /\ faults = 0

-----------------------------------------------------------------------------
(* The producer: a task of the outbox and outbox.Handler.                   *)

process == <<run, readers>>

PublishAsync(e) ==
  /\ phase[e] = "waiting" /\ e \notin Refused
  /\ log' \in {log, Append(log, e)}
  /\ phase' = [phase EXCEPT ![e] = "gone"]
  /\ UNCHANGED <<group, process, history, faults>>

\* Publish is acknowledged and the task is marked done.
Publish(e) ==
  /\ phase[e] = "waiting" /\ e \notin Refused
  /\ log' = Append(log, e)
  /\ phase' = [phase EXCEPT ![e] = "gone"]
  /\ UNCHANGED <<group, process, history, faults>>

\* The record is written, but the answer of the broker or the mark is lost:
\* Halt, or a lease that runs out, and the task is handled again.
PublishUnsure(e) ==
  /\ phase[e] = "waiting" /\ e \notin Refused
  /\ Fault
  /\ log' = Append(log, e)
  /\ UNCHANGED <<phase, group, process, history>>

\* tooLarge: the error is permanent, and the task is dead.
PublishRefused(e) ==
  /\ phase[e] = "waiting" /\ e \in Refused
  /\ phase' = [phase EXCEPT ![e] = "dead"]
  /\ UNCHANGED <<log, group, process, history, faults>>

\* Another producer writes a record that is not an event.
PublishBad ==
  /\ Fault
  /\ log' = Append(log, Bad)
  /\ UNCHANGED <<phase, group, process, history>>

-----------------------------------------------------------------------------
(* Start and Stop of the consumer.                                          *)

Launch ==
  /\ main = "down"
  /\ main' = "starting"
  /\ UNCHANGED <<queue, group, canceled, closed, readers, history, faults>>

\* NewReader for the next r.
Make(r) ==
  /\ main = "starting" /\ rd[r] = "none"
  /\ \A s \in Reader : s < r => rd[s] \in {"open", "closed"}
  /\ rd' = [rd EXCEPT ![r] = "made"]
  /\ UNCHANGED <<queue, group, run, go, at, attempt, history, faults>>

\* Under the mutex: a closed consumer closes the new reader, an open one keeps it
\* and starts its goroutine.
Register(r) ==
  /\ main = "starting" /\ rd[r] = "made"
  /\ rd' = [rd EXCEPT ![r] = IF closed THEN "closed" ELSE "open"]
  /\ go' = [go EXCEPT ![r] = IF closed THEN @ ELSE "fetch"]
  /\ UNCHANGED <<queue, group, run, at, attempt, history, faults>>

Started ==
  /\ main = "starting" /\ \A r \in Reader : rd[r] \in {"open", "closed"}
  /\ main' = "waiting"
  /\ UNCHANGED <<queue, group, canceled, closed, readers, history, faults>>

\* close: every registered reader, under the mutex.
Close ==
  /\ closed' = TRUE
  /\ rd' = [r \in Reader |-> IF rd[r] = "open" THEN "closed" ELSE rd[r]]
  /\ UNCHANGED <<go, at, attempt>>

SeeDone ==
  /\ main = "waiting" /\ canceled
  /\ main' = "draining"
  /\ Close
  /\ UNCHANGED <<queue, group, canceled, history, faults>>

Drained ==
  /\ main = "draining" /\ \A r \in Reader : go[r] \in {"none", "over"}
  /\ main' = "returned"
  /\ UNCHANGED <<queue, group, canceled, closed, readers, history, faults>>

\* The group cancels the context of Start, then calls Stop.
Cancel ==
  /\ main \in {"starting", "waiting"} /\ ~canceled
  /\ Fault
  /\ canceled' = TRUE
  /\ UNCHANGED <<queue, group, main, closed, readers, history>>

Stop ==
  /\ main # "down" /\ canceled /\ ~closed
  /\ Close
  /\ UNCHANGED <<queue, group, main, canceled, history, faults>>

\* The process ends, after Start has returned or by a crash; Launch starts it
\* again.
ProcessEnds ==
  /\ main' = "down" /\ canceled' = FALSE /\ closed' = FALSE
  /\ rd' = None /\ go' = None /\ at' = Zero /\ attempt' = Zero
  /\ owner' = NoReader /\ pos' = 0
  /\ UNCHANGED <<queue, committed, history>>

Exit == main = "returned" /\ ProcessEnds /\ UNCHANGED faults

Crash == main # "down" /\ Fault /\ ProcessEnds

-----------------------------------------------------------------------------
(* The goroutine of a reader: consume and handle.                           *)

\* The group coordinator gives the partition to r, from the committed offset.
\* While the owner is alive that is a rebalance nobody asked for.
Assign(r) ==
  /\ rd[r] = "open" /\ owner # r
  /\ IF owner # NoReader /\ rd[owner] = "open" THEN Fault ELSE UNCHANGED faults
  /\ owner' = r
  /\ pos' = committed
  /\ UNCHANGED <<queue, committed, process, history>>

\* FetchMessage returns the next record, also when its context is already done
\* or its reader closed, as long as one is buffered: the cases of its select are
\* ready together.  A record that Decode rejects is committed without a handler.
Fetch(r) ==
  /\ go[r] = "fetch" /\ owner = r /\ pos < Len(log)
  /\ pos' = pos + 1
  /\ at' = [at EXCEPT ![r] = pos + 1]
  /\ LET bad == log[pos + 1] = Bad
     IN  /\ go' = [go EXCEPT ![r] = IF bad THEN "commit" ELSE "dispatch"]
         /\ settled' = IF bad THEN settled \cup {pos + 1} ELSE settled
  /\ UNCHANGED <<queue, committed, owner, run, rd, attempt, abandoned, faults>>

\* FetchMessage fails because the context or the reader is done.
FetchEnds(r) ==
  /\ go[r] = "fetch" /\ (canceled \/ rd[r] = "closed")
  /\ go' = [go EXCEPT ![r] = "over"]
  /\ UNCHANGED <<queue, group, run, rd, at, attempt, history, faults>>

DispatchCommits(r, v) ==
  /\ go[r] = "dispatch"
  /\ go' = [go EXCEPT ![r] = "commit"]
  /\ settled' = IF v # "requeue" THEN settled \cup {at[r]} ELSE settled
  /\ UNCHANGED <<queue, group, run, rd, at, attempt, abandoned, faults>>

\* The handler returns v, requeue when it panics.  A requeue is retried in place
\* until the retries are exhausted; every other verdict is terminal.
Dispatch(r, v) ==
  /\ go[r] = "dispatch"
  /\ LET again == v = "requeue" /\ attempt[r] < MaxRetries
     IN  /\ go' = [go EXCEPT ![r] = IF again THEN "wait" ELSE "commit"]
         /\ settled' = IF again THEN settled ELSE settled \cup {at[r]}
  /\ UNCHANGED <<queue, group, run, rd, at, attempt, abandoned, faults>>

\* retryBackoff passes.
Retry(r) ==
  /\ go[r] = "wait"
  /\ attempt' = [attempt EXCEPT ![r] = @ + 1]
  /\ go' = [go EXCEPT ![r] = "dispatch"]
  /\ UNCHANGED <<queue, group, run, rd, at, history, faults>>

\* handle returns: its locals are gone, and consume fetches again.
Handled(r) ==
  /\ go' = [go EXCEPT ![r] = "fetch"]
  /\ at' = [at EXCEPT ![r] = 0]
  /\ attempt' = [attempt EXCEPT ![r] = 0]

\* The context ends during the backoff: handle returns without a commit.
Abandon(r) ==
  /\ go[r] = "wait" /\ canceled
  /\ abandoned' = abandoned \cup {at[r]}
  /\ Handled(r)
  /\ UNCHANGED <<queue, group, run, rd, settled, faults>>

\* CommitMessages takes effect; a reader that lost the partition may still
\* commit, and take the offset back.
Commit(r) ==
  /\ go[r] = "commit" /\ rd[r] = "open"
  /\ committed' = at[r]
  /\ Handled(r)
  /\ UNCHANGED <<queue, owner, pos, run, rd, history, faults>>

\* CommitMessages fails, is given up with the context, or meets a closed reader.
CommitFails(r) ==
  /\ go[r] = "commit"
  /\ IF canceled \/ rd[r] = "closed" THEN UNCHANGED faults ELSE Fault
  /\ Handled(r)
  /\ UNCHANGED <<queue, group, run, rd, history>>

Verdict == {"ack", "discard", "requeue"}

ReaderStep(r) ==
  \/ Fetch(r) \/ FetchEnds(r)
  \/ \E v \in Verdict : Dispatch(r, v)
  \/ Retry(r) \/ Abandon(r) \/ Commit(r)
  \/ go[r] = "commit" /\ rd[r] = "closed" /\ CommitFails(r)

MainStep ==
  \/ Launch \/ Started \/ SeeDone \/ Drained \/ Exit
  \/ \E r \in Reader : Make(r) \/ Register(r)

Assigned(r) == owner \notin {s \in Reader : rd[s] = "open"} /\ Assign(r)

Next ==
  \/ \E e \in Event :
       Publish(e) \/ PublishUnsure(e) \/ PublishRefused(e)
  \/ PublishBad
  \/ MainStep \/ Cancel \/ Stop \/ Crash
  \/ \E r \in Reader : Assign(r) \/ ReaderStep(r) \/ CommitFails(r)

Spec == Init /\ [][Next]_vars

\* The queue handles a task that waits, the process is kept running, the
\* coordinator assigns a partition nobody reads, and goroutines are scheduled.
FairSpec ==
  /\ Spec
  /\ \A e \in Event : WF_vars(Publish(e) \/ PublishRefused(e))
  /\ WF_vars(MainStep)
  /\ \A r \in Reader : WF_vars(Assigned(r)) /\ WF_vars(ReaderStep(r))

-----------------------------------------------------------------------------
\* The types of the state.
TypeOK ==
  /\ phase \in [Event -> {"waiting", "gone", "dead"}]
  /\ log \in Seq(Event \cup {Bad})
  /\ committed \in 0..Len(log) /\ pos \in 0..Len(log)
  /\ owner \in Reader \cup {NoReader}
  /\ main \in {"down", "starting", "waiting", "draining", "returned"}
  /\ canceled \in BOOLEAN /\ closed \in BOOLEAN
  /\ rd \in [Reader -> {"none", "made", "open", "closed"}]
  /\ go \in [Reader -> {"none", "fetch", "dispatch", "wait", "commit", "over"}]
  /\ at \in [Reader -> 0..Len(log)]
  /\ attempt \in [Reader -> 0..MaxRetries]
  /\ settled \subseteq 1..Len(log) /\ abandoned \subseteq 1..Len(log)
  /\ faults \in 0..MaxFaults

\* consume commits an offset only on a terminal verdict, "the at-least-once
\* loop": across rebalances, failed commits and crashes, a record below the
\* committed offset had one, or was given up in the backoff of a shutdown (a
\* reader that still fetches and commits the next record then passes over it).
SkippedOnlyAtShutdown == 1..committed \subseteq settled \cup abandoned

\* close and the check of closed in Start "guarantee no reader is leaked when
\* Stop races reader startup": after close no registered reader is open, and when
\* Start has returned every reader is closed and no goroutine is left.
NoReaderLeaks ==
  /\ closed => \A r \in Reader : rd[r] # "open"
  /\ main = "returned" =>
       \A r \in Reader : rd[r] = "closed" /\ go[r] \in {"none", "over"}

\* An event of a committed transaction is settled by the consumer, however often
\* its task, its record or its consumer starts again, unless a shutdown gave its
\* record up; one the broker refuses ends in the dead letters instead.
EveryEventSettles ==
  \A e \in Event :
    phase[e] = "waiting" ~>
      IF e \in Refused
      THEN phase[e] = "dead"
      ELSE \E n \in settled \cup abandoned : log[n] = e

\* Start returns after its context is canceled, wherever its readers are.
StartReturns == canceled ~> main \in {"returned", "down"}

\* What a consumer promises at any moment: an offset passes over an unhandled event
\* only at a shutdown, and every reader it opened is closed when it is over.
DeliverySafety == SkippedOnlyAtShutdown /\ NoReaderLeaks

\* What it promises in the end: every event is handled, set aside or left for the
\* next run, and Start returns once its context is done.
DeliveryEnds == EveryEventSettles /\ StartReturns
=============================================================================
