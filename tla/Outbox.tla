------------------------------- MODULE Outbox -------------------------------
(***************************************************************************)
(* An event from the transaction that schedules it to the consumer that    *)
(* handles it: queue.Scheduler over a Registry, the workers of the queue   *)
(* with a Mux of outbox.Handlers, rabbitmq.Publisher with confirms, the    *)
(* exchange and queue of RabbitMQ, and rabbitmq.Consumer.                  *)
(*                                                                         *)
(* The queue is taken at the level of its life cycle (QueueLife).  An      *)
(* event type stands for how it was registered and what becomes of it:     *)
(*   routed       registered, with a handler in the Mux                    *)
(*   dropped      registered with Drop                                     *)
(*   unknown      never registered                                         *)
(*   orphan       registered, no handler in the Mux                        *)
(*   unpackable   the envelope of the publisher rejects it for good        *)
(*   foreign      the envelope of the consumer rejects it                  *)
(***************************************************************************)
EXTENDS Naturals, FiniteSets

CONSTANTS Event,
          Concurrency,   \* ConsumerConfig.Concurrency
          MaxFaults      \* faults of the network, the broker and the processes

Types == {"routed", "dropped", "unknown", "orphan", "unpackable", "foreign"}

VARIABLES typ,        \* the type of each event
          tx,         \* the transaction of each event
          task,       \* its task in the queue
          pub,        \* the attempt that publishes it: "idle", or what the broker answers
          topology,   \* what of the exchange and its queue is declared
          ready,      \* copies of each event in the queue of RabbitMQ
          unacked,    \* copies a handler of the consumer works on
          sent,       \* copies that reached the exchange
          settled,    \* copies by end: acked, discarded, dropped as unroutable
          failed,     \* publishes of each event that failed or were cut off
          consumer,   \* Consumer.Start: "new", "running", "closed" or "returned"
          watcher,    \* its goroutine that waits for the context
          ctx,        \* the context of Start is canceled
          faults

eventVars == <<typ, tx, task, pub, sent, failed>>
consumerVars == <<consumer, watcher, ctx>>
outboxVars == <<eventVars, topology, ready, unacked, settled, consumerVars, faults>>

Zero == [e \in Event |-> 0]
Ends == {"acked", "discarded", "unroutable"}

TypeOK ==
  /\ typ \in [Event -> Types]
  /\ tx \in [Event -> {"new", "open", "committed", "aborted"}]
  /\ task \in [Event -> {"none", "inserted", "queued", "leased", "done", "dead"}]
  /\ pub \in [Event -> {"idle", "ack", "nack"}]
  /\ topology \in {"none", "exchange", "bound"}
  /\ ready \in [Event -> Nat] /\ unacked \in [Event -> Nat]
  /\ sent \in [Event -> Nat] /\ failed \in [Event -> Nat]
  /\ settled \in [Event -> [Ends -> Nat]]
  /\ consumer \in {"new", "running", "closed", "returned"}
  /\ watcher \in {"none", "waiting", "gone"}
  /\ ctx \in BOOLEAN /\ faults \in Nat

Init ==
  /\ typ \in [Event -> Types]
  /\ tx = [e \in Event |-> "new"]
  /\ task = [e \in Event |-> "none"]
  /\ pub = [e \in Event |-> "idle"]
  /\ topology = "none"
  /\ ready = Zero /\ unacked = Zero /\ sent = Zero /\ failed = Zero
  /\ settled = [e \in Event |-> [x \in Ends |-> 0]]
  /\ consumer = "new" /\ watcher = "none" /\ ctx = FALSE
  /\ faults = 0

Fault == faults < MaxFaults /\ faults' = faults + 1
Settle(e, x) == settled' = [settled EXCEPT ![e][x] = @ + 1]
Inc(f, e) == [f EXCEPT ![e] = @ + 1]
Dec(f, e) == [f EXCEPT ![e] = @ - 1]

-----------------------------------------------------------------------------
(* Producing: Scheduler.Schedule inside the transaction of the domain.       *)

\* Registry.lookup fails for a type nobody registered, and the transaction
\* with it; Drop writes no task.
Schedule(e) ==
  /\ tx[e] = "new"
  /\ tx' = [tx EXCEPT ![e] = IF typ[e] = "unknown" THEN "aborted" ELSE "open"]
  /\ task' = [task EXCEPT ![e] = IF typ[e] \in {"unknown", "dropped"} THEN "none" ELSE "inserted"]
  /\ UNCHANGED <<typ, pub, sent, failed, topology, ready, unacked, settled, consumerVars, faults>>

\* The transaction ends, and the task with it.
TxEnds(e) ==
  /\ tx[e] = "open"
  /\ \/ /\ tx' = [tx EXCEPT ![e] = "committed"]
        /\ task' = [task EXCEPT ![e] = IF @ = "inserted" THEN "queued" ELSE @]
     \/ /\ tx' = [tx EXCEPT ![e] = "aborted"]
        /\ task' = [task EXCEPT ![e] = "none"]
  /\ UNCHANGED <<typ, pub, sent, failed, topology, ready, unacked, settled, consumerVars, faults>>

-----------------------------------------------------------------------------
(* Publishing: a worker claims the task, the Mux finds outbox.Handler, and   *)
(* the error of Publish decides what becomes of the task.                    *)

\* queue.Permanent ends a task among the dead letters, queue.Halt retries it.
Dead(e) == task' = [task EXCEPT ![e] = "dead"]
Halt(e) == task' = [task EXCEPT ![e] = "queued"]

\* unknownKind of the Mux; Envelope.Marshal refuses: both are permanent.
HandlePermanent(e) ==
  /\ task[e] = "queued" /\ typ[e] \in {"orphan", "unpackable"}
  /\ Dead(e)
  /\ UNCHANGED <<typ, tx, pub, sent, failed, topology, ready, unacked, settled, consumerVars, faults>>

\* What the exchange does with a message: without an exchange it is nacked,
\* without a queue bound to it it is confirmed and dropped.
Accept(e) ==
  CASE topology = "none" ->
         pub' = [pub EXCEPT ![e] = "nack"] /\ UNCHANGED <<sent, ready, settled>>
    [] topology = "exchange" ->
         /\ pub' = [pub EXCEPT ![e] = "ack"] /\ sent' = Inc(sent, e)
         /\ Settle(e, "unroutable") /\ UNCHANGED ready
    [] OTHER ->
         /\ pub' = [pub EXCEPT ![e] = "ack"] /\ sent' = Inc(sent, e)
         /\ ready' = Inc(ready, e) /\ UNCHANGED settled

\* Publisher.send: the message goes out and the confirmation is awaited.
Send(e) ==
  /\ task[e] = "queued" /\ typ[e] \in {"routed", "foreign"}
  /\ Accept(e)
  /\ task' = [task EXCEPT ![e] = "leased"]
  /\ UNCHANGED <<typ, tx, failed, topology, unacked, consumerVars, faults>>

\* The broker hangs: the message may have reached it, the confirmation does not.
SendHangs(e) ==
  /\ task[e] = "queued" /\ typ[e] \in {"routed", "foreign"} /\ Fault
  /\ \/ UNCHANGED <<sent, ready, settled>>
     \/ /\ topology = "bound" /\ sent' = Inc(sent, e) /\ ready' = Inc(ready, e)
        /\ UNCHANGED settled
  /\ failed' = Inc(failed, e)
  /\ Halt(e)
  /\ UNCHANGED <<typ, tx, pub, topology, unacked, consumerVars>>

\* A missing confirmation taken for a success.
ConfirmIgnored(e) ==
  /\ pub[e] \in {"ack", "nack"}
  /\ pub' = [pub EXCEPT ![e] = "idle"]
  /\ task' = [task EXCEPT ![e] = "done"]
  /\ UNCHANGED <<typ, tx, sent, failed, topology, ready, unacked, settled, consumerVars, faults>>

\* The confirmation arrives: an ack removes the task, a nack is an error.
Confirm(e) ==
  /\ pub[e] \in {"ack", "nack"}
  /\ pub' = [pub EXCEPT ![e] = "idle"]
  /\ IF pub[e] = "ack" THEN task' = [task EXCEPT ![e] = "done"] ELSE Halt(e)
  /\ UNCHANGED <<typ, tx, sent, failed, topology, ready, unacked, settled, consumerVars, faults>>

\* The wait for the confirmation times out, or the worker dies before it marks
\* the task done: the lease ends and the task is published again.
Cut(e) ==
  /\ pub[e] \in {"ack", "nack"} /\ Fault
  /\ pub' = [pub EXCEPT ![e] = "idle"]
  /\ failed' = Inc(failed, e)
  /\ Halt(e)
  /\ UNCHANGED <<typ, tx, sent, topology, ready, unacked, settled, consumerVars>>

-----------------------------------------------------------------------------
(* RabbitMQ and rabbitmq.Consumer *)

\* Another service declares the exchange and binds nothing to it.
DeclareExchange ==
  /\ topology = "none" /\ topology' = "exchange"
  /\ UNCHANGED <<eventVars, ready, unacked, settled, consumerVars, faults>>

\* Start: the watcher goroutine, then Run, which declares the topology.
Start ==
  /\ consumer = "new"
  /\ consumer' = "running" /\ watcher' = "waiting" /\ topology' = "bound"
  /\ UNCHANGED <<eventVars, ready, unacked, settled, ctx, faults>>

Working == {e \in Event : unacked[e] > 0}

Deliver(e) ==
  /\ consumer = "running" /\ ready[e] > 0
  /\ e \notin Working /\ Cardinality(Working) < Concurrency
  /\ ready' = Dec(ready, e) /\ unacked' = Inc(unacked, e)
  /\ UNCHANGED <<eventVars, topology, settled, consumerVars, faults>>

\* A delivery the envelope rejects never reaches the handler; a panic requeues.
Outcomes(e) == IF typ[e] = "foreign" THEN {"malformed"} ELSE {"ack", "requeue", "discard", "panic"}
Process(o) ==
  CASE o \in {"panic", "requeue"} -> "requeue" [] o \in {"malformed", "discard"} -> "discard" [] OTHER -> "ack"

\* A handler that always answers the same would requeue forever: requeues count
\* as faults.
Requeues(e, o) == IF Process(o) = "requeue" THEN Fault ELSE UNCHANGED faults

\* dispatch, Process and toAction: NackRequeue, NackDiscard or Ack.
Dispatch(e, o) ==
  /\ unacked[e] > 0
  /\ unacked' = Dec(unacked, e)
  /\ CASE Process(o) = "requeue" -> ready' = Inc(ready, e) /\ UNCHANGED settled
       [] Process(o) = "discard" -> Settle(e, "discarded") /\ UNCHANGED ready
       [] OTHER -> Settle(e, "acked") /\ UNCHANGED ready
  /\ Requeues(e, o)
  /\ UNCHANGED <<eventVars, topology, consumerVars>>

RedeliverLoses == UNCHANGED ready /\ unacked' = Zero

\* The channel closes with the connection or the consumer: what it held is
\* delivered again, and the answers of its handlers are ignored.
Redeliver ==
  /\ ready' = [e \in Event |-> ready[e] + unacked[e]] /\ unacked' = Zero

ConnectionLost ==
  /\ consumer = "running" /\ Working # {} /\ Fault
  /\ Redeliver
  /\ UNCHANGED <<eventVars, topology, settled, consumerVars>>

\* The group cancels the context of Start.
Cancel ==
  /\ consumer = "running" /\ ~ctx /\ Fault
  /\ ctx' = TRUE
  /\ UNCHANGED <<eventVars, topology, ready, unacked, settled, consumer, watcher>>

\* The watcher sees the context first and closes the consumer, once.
WatcherCloses ==
  /\ watcher = "waiting" /\ ctx
  /\ watcher' = "gone" /\ consumer' = IF consumer = "running" THEN "closed" ELSE consumer
  /\ UNCHANGED <<eventVars, topology, ready, unacked, settled, ctx, faults>>

\* Stop, or a Run that gives up its reconnects.
StopOrFail ==
  /\ consumer = "running" /\ Fault
  /\ consumer' = "closed"
  /\ UNCHANGED <<eventVars, topology, ready, unacked, settled, watcher, ctx>>

\* Run returns, and Start with it, which closes done.
StartReturns ==
  /\ consumer = "closed"
  /\ consumer' = "returned"
  /\ Redeliver
  /\ UNCHANGED <<eventVars, topology, settled, watcher, ctx, faults>>

\* The watcher leaves on done.
WatcherLeaves ==
  /\ watcher = "waiting" /\ consumer = "returned"
  /\ watcher' = "gone"
  /\ UNCHANGED <<eventVars, topology, ready, unacked, settled, consumer, ctx, faults>>

\* The process starts again.
Restart ==
  /\ consumer = "returned" /\ watcher = "gone"
  /\ consumer' = "new" /\ watcher' = "none" /\ ctx' = FALSE
  /\ UNCHANGED <<eventVars, topology, ready, unacked, settled, faults>>

-----------------------------------------------------------------------------
Produce(e) == Schedule(e) \/ TxEnds(e)
Work(e) == HandlePermanent(e) \/ Send(e) \/ Confirm(e)
Consume(e) == Deliver(e) \/ \E o \in Outcomes(e) : Dispatch(e, o)
Run == Start \/ WatcherCloses \/ StartReturns \/ WatcherLeaves \/ Restart

Next ==
  \/ \E e \in Event : Produce(e) \/ Work(e) \/ Consume(e) \/ SendHangs(e) \/ Cut(e)
  \/ Run \/ DeclareExchange \/ ConnectionLost \/ Cancel \/ StopOrFail

Spec == Init /\ [][Next]_outboxVars

\* Workers and the consumer keep running, a handler returns, the supervisor
\* starts a consumer that ended.
FairSpec ==
  /\ Spec /\ WF_outboxVars(Run)
  /\ \A e \in Event : WF_outboxVars(Work(e)) /\ WF_outboxVars(Consume(e))

-----------------------------------------------------------------------------
Total(e) == settled[e]["acked"] + settled[e]["discarded"] + settled[e]["unroutable"]

\* An event is on the wire only when its domain write committed (outbox doc.go).
OnlyCommitted == \A e \in Event : sent[e] > 0 => tx[e] = "committed"

\* Every copy the broker took is in its queue, with a handler, or settled: no
\* crash, lost connection, panic or shutdown loses one (rabbitmq.Consumer).
NoCopyLost == \A e \in Event : sent[e] = ready[e] + unacked[e] + Total(e)

\* "An event arrives twice only after a publish that timed out yet reached the
\* broker": the copies never exceed one more than the publishes that failed
\* (TestBrokerDown).
CopiesBounded == \A e \in Event : sent[e] <= failed[e] + 1

\* "A broker that hangs dead-letters nothing": only a task no handler or no
\* envelope takes dies (outbox.Config, TestBrokerDown).
DeadForGood == \A e \in Event : task[e] = "dead" => typ[e] \in {"orphan", "unpackable"}

\* A committed event is handled, refused by the consumer's envelope, or went to
\* an exchange nothing was bound to; whatever failed on the way.
EventArrives ==
  \A e \in Event : (tx[e] = "committed" /\ typ[e] \in {"routed", "foreign"}) ~> (Total(e) > 0)

\* The goroutine that watches the context never outlives Start.
WatcherEnds == (consumer = "returned") ~> (watcher # "waiting")

\* An event on its way: only committed ones are sent, no copy is lost or sent
\* without need, and a task dies only when nothing would help it.
OutboxSafety == OnlyCommitted /\ NoCopyLost /\ CopiesBounded /\ DeadForGood
=============================================================================
