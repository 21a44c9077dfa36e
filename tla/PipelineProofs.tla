--------------------------- MODULE PipelineProofs ---------------------------
(* What the pipelines out of the service promise, for any number of events,   *)
(* entries and calls: an outbox event, an audit entry and an HTTP call that   *)
(* is retried.                                                                *)
EXTENDS Outbox, AuditRecorder, HttpClient, TLAPS

\* Most leaves are first-order; the ones with arithmetic cite SMT.
USE Zenon

-----------------------------------------------------------------------------
(* The outbox                                                              *)

\* A task outside its transaction, and a message on the wire, belong to a
\* transaction that committed.
TxInv ==
  \A e \in Event :
    /\ task[e] \in {"queued", "leased", "done", "dead"} => tx[e] = "committed"
    /\ sent[e] > 0 => tx[e] = "committed"

\* A task that waits, or whose publish was refused, has sent no more copies than
\* publishes of it failed; one that is being published may be one ahead.
CopyInv ==
  \A e \in Event :
    /\ pub[e] = "idle" <=> task[e] # "leased"
    /\ task[e] = "queued" \/ pub[e] = "nack" => sent[e] <= failed[e]
    /\ sent[e] <= failed[e] + 1

OutboxInv == TypeOK /\ TxInv /\ CopyInv /\ NoCopyLost /\ DeadForGood

\* Nothing was sent in the beginning.
LEMMA OutboxInit == Init => OutboxInv
<1> SUFFICES ASSUME Init PROVE OutboxInv
  OBVIOUS
<1>1. TypeOK
  <2>1. ready \in [Event -> Nat] /\ unacked \in [Event -> Nat] /\ sent \in [Event -> Nat]
        /\ failed \in [Event -> Nat] /\ settled \in [Event -> [Ends -> Nat]] /\ faults \in Nat
    BY SMT DEF Init, Zero
  <2> QED
    BY <2>1 DEF Init, TypeOK
<1>2. TxInv
  BY SMT DEF Init, TxInv, Zero
<1>3. CopyInv
  BY SMT DEF Init, CopyInv, Zero
<1>4. NoCopyLost
  BY SMT DEF Init, NoCopyLost, Total, Zero, Ends
<1>5. DeadForGood
  BY DEF Init, DeadForGood
<1> QED
  BY <1>1, <1>2, <1>3, <1>4, <1>5 DEF OutboxInv

\* The transaction of an event, from Schedule to its end.
LEMMA ProduceInv ==
  ASSUME OutboxInv, NEW e \in Event, Produce(e)
  PROVE  OutboxInv'
<1> USE DEF OutboxInv
<1>1. CASE Schedule(e)
  <2>1. TypeOK'
    BY <1>1, SMT DEF Schedule, TypeOK, consumerVars
  <2>2. TxInv'
    BY <1>1, SMT DEF Schedule, TypeOK, TxInv
  <2>3. CopyInv'
    BY <1>1, SMT DEF Schedule, TypeOK, TxInv, CopyInv
  <2>4. NoCopyLost' /\ DeadForGood'
    BY <1>1 DEF Schedule, TypeOK, NoCopyLost, Total, DeadForGood
  <2> QED
    BY <2>1, <2>2, <2>3, <2>4
<1>2. CASE TxEnds(e)
  <2>1. TypeOK'
    <3>1. tx' \in [Event -> {"new", "open", "committed", "aborted"}]
      BY <1>2 DEF TxEnds, TypeOK
    <3>2. task' \in [Event -> {"none", "inserted", "queued", "leased", "done", "dead"}]
      BY <1>2 DEF TxEnds, TypeOK
    <3> QED
      BY <1>2, <3>1, <3>2 DEF TxEnds, TypeOK, consumerVars
  <2>2. TxInv'
    BY <1>2, SMT DEF TxEnds, TypeOK, TxInv
  <2>3. CopyInv'
    BY <1>2, SMT DEF TxEnds, TypeOK, TxInv, CopyInv
  <2>4. NoCopyLost' /\ DeadForGood'
    BY <1>2, SMT DEF TxEnds, TypeOK, NoCopyLost, Total, DeadForGood
  <2> QED
    BY <2>1, <2>2, <2>3, <2>4
<1> QED
  BY <1>1, <1>2 DEF Produce

\* The number of settled copies is a natural number.
LEMMA TotalType == TypeOK => \A e \in Event : Total(e) \in Nat
<1> SUFFICES ASSUME TypeOK, NEW e \in Event PROVE Total(e) \in Nat
  OBVIOUS
<1>1. settled[e] \in [Ends -> Nat]
  BY DEF TypeOK
<1>2. settled[e]["acked"] \in Nat /\ settled[e]["discarded"] \in Nat /\ settled[e]["unroutable"] \in Nat
  BY <1>1 DEF Ends
<1> QED
  BY <1>2, SMT DEF Total

\* Settling a copy makes one more settled copy of its event.
LEMMA SettleCounts ==
  ASSUME TypeOK, NEW e \in Event, NEW x \in Ends, Settle(e, x)
  PROVE  /\ settled' \in [Event -> [Ends -> Nat]]
         /\ \A d \in Event : Total(d)' = IF d = e THEN Total(d) + 1 ELSE Total(d)
<1>1. settled \in [Event -> [Ends -> Nat]]
  BY DEF TypeOK
<1>2. settled' = [settled EXCEPT ![e] = [settled[e] EXCEPT ![x] = settled[e][x] + 1]]
  BY DEF Settle
<1>3. \A d \in Event : settled[d] \in [Ends -> Nat]
  BY <1>1
<1>4. settled[e][x] + 1 \in Nat
  BY <1>3, SMT
<1>5. [settled[e] EXCEPT ![x] = settled[e][x] + 1] \in [Ends -> Nat]
  BY <1>3, <1>4
<1>6. settled' \in [Event -> [Ends -> Nat]]
  BY <1>1, <1>2, <1>5
<1>7. \A d \in Event \ {e} : Total(d)' = Total(d)
  BY <1>1, <1>2 DEF Total
<1>8. settled'[e] = [settled[e] EXCEPT ![x] = settled[e][x] + 1]
  BY <1>1, <1>2
<1>9. \A y \in Ends : settled[e][y] \in Nat /\ settled'[e][y] = IF y = x THEN settled[e][y] + 1 ELSE settled[e][y]
  BY <1>3, <1>8
<1>10. Total(e)' = Total(e) + 1
  BY <1>9, SMT DEF Total, Ends
<1> QED
  BY <1>6, <1>7, <1>10

\* What the exchange does with a message: it sends a copy to the queue or drops
\* it as unroutable, and refuses it without counting it.
LEMMA AcceptCounts ==
  ASSUME OutboxInv, NEW e \in Event, Accept(e)
  PROVE  /\ pub' \in [Event -> {"idle", "ack", "nack"}] /\ pub'[e] # "idle"
         /\ \A d \in Event \ {e} : pub'[d] = pub[d] /\ sent'[d] = sent[d]
         /\ ready' \in [Event -> Nat] /\ sent' \in [Event -> Nat]
         /\ settled' \in [Event -> [Ends -> Nat]]
         /\ sent'[e] <= sent[e] + 1 /\ (pub'[e] = "nack" => sent'[e] = sent[e])
         /\ \A d \in Event : /\ Total(d)' \in Nat
                              /\ sent'[d] = sent[d] + (ready'[d] - ready[d]) + (Total(d)' - Total(d))
<1> USE DEF OutboxInv, TypeOK
<1>1. CASE topology = "none"
  <2>1. pub' = [pub EXCEPT ![e] = "nack"] /\ sent' = sent /\ ready' = ready /\ settled' = settled
    BY <1>1 DEF Accept
  <2>2. \A d \in Event : Total(d)' = Total(d) /\ Total(d) \in Nat
    BY <2>1, TotalType DEF Total
  <2>3. ASSUME NEW d \in Event
        PROVE  Total(d)' \in Nat /\ sent'[d] = sent[d] + (ready'[d] - ready[d]) + (Total(d)' - Total(d))
    <3>1. Total(d)' = Total(d) /\ Total(d) \in Nat /\ sent[d] \in Nat /\ ready[d] \in Nat
      BY <2>2
    <3> QED
      BY <2>1, <3>1, SMT
  <2> QED
    BY <2>1, <2>3, SMT
<1>2. CASE topology = "exchange"
  <2>1. /\ pub' = [pub EXCEPT ![e] = "ack"] /\ sent' = [sent EXCEPT ![e] = @ + 1]
        /\ settled' = [settled EXCEPT ![e]["unroutable"] = @ + 1] /\ ready' = ready
    BY <1>2 DEF Accept, Settle, Inc
  <2>2. settled' \in [Event -> [Ends -> Nat]]
        /\ \A d \in Event : Total(d)' = IF d = e THEN Total(d) + 1 ELSE Total(d)
    BY <1>2, SettleCounts DEF Accept, Ends
  <2>3. ASSUME NEW d \in Event
        PROVE  Total(d)' \in Nat /\ sent'[d] = sent[d] + (ready'[d] - ready[d]) + (Total(d)' - Total(d))
    <3>1. Total(d) \in Nat /\ sent[d] \in Nat /\ ready[d] \in Nat
      BY TotalType
    <3>2. Total(d)' = IF d = e THEN Total(d) + 1 ELSE Total(d)
      BY <2>2
    <3>3. sent'[d] = IF d = e THEN sent[d] + 1 ELSE sent[d]
      BY <2>1
    <3> QED
      BY <2>1, <3>1, <3>2, <3>3, SMT
  <2> QED
    BY <2>1, <2>2, <2>3, SMT
<1>3. CASE topology = "bound"
  <2>1. /\ pub' = [pub EXCEPT ![e] = "ack"] /\ sent' = [sent EXCEPT ![e] = @ + 1]
        /\ ready' = [ready EXCEPT ![e] = @ + 1] /\ settled' = settled
    BY <1>3 DEF Accept, Inc
  <2>2. \A d \in Event : Total(d)' = Total(d) /\ Total(d) \in Nat
    BY <2>1, TotalType DEF Total
  <2>3. ASSUME NEW d \in Event
        PROVE  Total(d)' \in Nat /\ sent'[d] = sent[d] + (ready'[d] - ready[d]) + (Total(d)' - Total(d))
    <3>1. Total(d)' = Total(d) /\ Total(d) \in Nat /\ sent[d] \in Nat /\ ready[d] \in Nat
      BY <2>2
    <3> QED
      BY <2>1, <3>1, SMT
  <2> QED
    BY <2>1, <2>3, SMT
<1> QED
  BY <1>1, <1>2, <1>3

\* A worker handles the task of an event: refuses it, sends it, or learns the
\* answer of the broker.
LEMMA WorkInv ==
  ASSUME OutboxInv, NEW e \in Event, Work(e)
  PROVE  OutboxInv'
<1> USE DEF OutboxInv
<1>1. CASE HandlePermanent(e)
  <2>1. TypeOK'
    BY <1>1 DEF HandlePermanent, Dead, TypeOK, consumerVars
  <2>2. TxInv' /\ DeadForGood'
    BY <1>1 DEF HandlePermanent, Dead, TypeOK, TxInv, DeadForGood
  <2>3. CopyInv'
    BY <1>1, SMT DEF HandlePermanent, Dead, TypeOK, CopyInv
  <2>4. NoCopyLost'
    BY <1>1 DEF HandlePermanent, NoCopyLost, Total
  <2> QED
    BY <2>1, <2>2, <2>3, <2>4
<1>2. CASE Send(e)
  <2>1. TypeOK'
    BY <1>2, AcceptCounts DEF Send, TypeOK, consumerVars
  <2>2. TxInv'
    <3>1. tx[e] = "committed"
      BY <1>2 DEF Send, TxInv
    <3> QED
      BY <1>2, <3>1, AcceptCounts, SMT DEF Send, TypeOK, TxInv
  <2>3. CopyInv'
    BY <1>2, AcceptCounts, SMT DEF Send, TypeOK, CopyInv
  <2>4. NoCopyLost'
    <3> SUFFICES ASSUME NEW d \in Event
                 PROVE  sent'[d] = ready'[d] + unacked'[d] + Total(d)'
      BY DEF NoCopyLost
    <3>1. /\ Total(d)' \in Nat
          /\ sent'[d] = sent[d] + (ready'[d] - ready[d]) + (Total(d)' - Total(d))
      BY <1>2, AcceptCounts DEF Send
    <3>2. /\ Total(d) \in Nat /\ sent[d] \in Nat /\ ready[d] \in Nat /\ unacked[d] \in Nat
          /\ ready'[d] \in Nat /\ unacked' = unacked
      BY <1>2, <2>1, TotalType DEF Send, TypeOK
    <3>3. sent[d] = ready[d] + unacked[d] + Total(d)
      BY DEF NoCopyLost
    <3> QED
      BY <3>1, <3>2, <3>3, SMT
  <2>5. DeadForGood'
    BY <1>2 DEF Send, TypeOK, DeadForGood
  <2> QED
    BY <2>1, <2>2, <2>3, <2>4, <2>5
<1>3. CASE Confirm(e)
  <2>1. TypeOK'
    BY <1>3 DEF Confirm, Halt, TypeOK, consumerVars
  <2>2. task[e] = "leased"
    BY <1>3 DEF Confirm, CopyInv
  <2>3. TxInv' /\ DeadForGood'
    BY <1>3, <2>2 DEF Confirm, Halt, TypeOK, TxInv, DeadForGood
  <2>4. CopyInv'
    BY <1>3, SMT DEF Confirm, Halt, TypeOK, CopyInv
  <2>5. NoCopyLost'
    BY <1>3 DEF Confirm, NoCopyLost, Total
  <2> QED
    BY <2>1, <2>3, <2>4, <2>5
<1> QED
  BY <1>1, <1>2, <1>3 DEF Work

\* A publish whose answer is lost: the task waits again, and one more publish
\* has failed for the copy that may have gone out.
LEMMA CutInv ==
  ASSUME OutboxInv, NEW e \in Event, SendHangs(e) \/ Cut(e)
  PROVE  OutboxInv'
<1> USE DEF OutboxInv
<1>0. faults' \in Nat
  BY SMT DEF SendHangs, Cut, Fault, TypeOK
<1>1. CASE SendHangs(e)
  <2>1. TypeOK'
    <3>1. failed' \in [Event -> Nat] /\ sent' \in [Event -> Nat] /\ ready' \in [Event -> Nat]
      BY <1>1, SMT DEF SendHangs, Inc, TypeOK
    <3> QED
      BY <1>0, <1>1, <3>1 DEF SendHangs, Halt, TypeOK, consumerVars
  <2>2. TxInv'
    BY <1>1, SMT DEF SendHangs, Halt, Inc, TypeOK, TxInv
  <2>3. CopyInv'
    BY <1>1, SMT DEF SendHangs, Halt, Inc, TypeOK, CopyInv
  <2>4. NoCopyLost'
    <3> SUFFICES ASSUME NEW d \in Event
                 PROVE  sent'[d] = ready'[d] + unacked'[d] + Total(d)'
      BY DEF NoCopyLost
    <3>1. Total(d)' = Total(d) /\ unacked' = unacked
      BY <1>1 DEF SendHangs, Total
    <3>2. Total(d) \in Nat /\ sent[d] \in Nat /\ ready[d] \in Nat /\ unacked[d] \in Nat
      BY TotalType DEF TypeOK
    <3>3. sent[d] = ready[d] + unacked[d] + Total(d)
      BY DEF NoCopyLost
    <3>4. \/ sent'[d] = sent[d] /\ ready'[d] = ready[d]
          \/ sent'[d] = sent[d] + 1 /\ ready'[d] = ready[d] + 1
      BY <1>1, SMT DEF SendHangs, Inc, TypeOK
    <3> QED
      BY <3>1, <3>2, <3>3, <3>4, SMT
  <2>5. DeadForGood'
    BY <1>1 DEF SendHangs, Halt, TypeOK, DeadForGood
  <2> QED
    BY <2>1, <2>2, <2>3, <2>4, <2>5
<1>2. CASE Cut(e)
  <2>1. TypeOK'
    <3>1. failed' \in [Event -> Nat]
      BY <1>2, SMT DEF Cut, Inc, TypeOK
    <3> QED
      BY <1>0, <1>2, <3>1 DEF Cut, Halt, TypeOK, consumerVars
  <2>2. task[e] = "leased"
    BY <1>2 DEF Cut, CopyInv
  <2>3. TxInv' /\ DeadForGood'
    BY <1>2, <2>2 DEF Cut, Halt, TypeOK, TxInv, DeadForGood
  <2>4. CopyInv'
    BY <1>2, SMT DEF Cut, Halt, Inc, TypeOK, CopyInv
  <2>5. NoCopyLost'
    BY <1>2 DEF Cut, NoCopyLost, Total
  <2> QED
    BY <2>1, <2>3, <2>4, <2>5
<1> QED
  BY <1>1, <1>2

\* The consumer moves copies between the queue, its handlers and their ends; the
\* producing side does not notice.
LEMMA Elsewhere ==
  ASSUME OutboxInv, UNCHANGED eventVars
  PROVE  /\ TxInv' /\ CopyInv' /\ DeadForGood'
         /\ typ' \in [Event -> Types] /\ tx' \in [Event -> {"new", "open", "committed", "aborted"}]
         /\ task' \in [Event -> {"none", "inserted", "queued", "leased", "done", "dead"}]
         /\ pub' \in [Event -> {"idle", "ack", "nack"}]
         /\ sent' \in [Event -> Nat] /\ failed' \in [Event -> Nat]
BY DEF OutboxInv, eventVars, TypeOK, TxInv, CopyInv, DeadForGood

\* A delivery, and the verdict of its handler.
LEMMA ConsumeInv ==
  ASSUME OutboxInv, NEW e \in Event, Consume(e)
  PROVE  OutboxInv'
<1> USE DEF OutboxInv
<1>a. /\ ready \in [Event -> Nat] /\ unacked \in [Event -> Nat] /\ sent \in [Event -> Nat]
      /\ \A d \in Event : Total(d) \in Nat /\ sent[d] = ready[d] + unacked[d] + Total(d)
  BY TotalType DEF TypeOK, NoCopyLost
<1>1. CASE Deliver(e)
  <2>1. ready' = [ready EXCEPT ![e] = @ - 1] /\ unacked' = [unacked EXCEPT ![e] = @ + 1] /\ ready[e] > 0
    BY <1>1 DEF Deliver, Inc, Dec
  <2>2. ready' \in [Event -> Nat] /\ unacked' \in [Event -> Nat]
    BY <1>a, <2>1, SMT
  <2>3. UNCHANGED eventVars /\ sent' = sent /\ settled' = settled
    BY <1>1 DEF Deliver, eventVars
  <2>4. TypeOK'
    BY <1>1, <2>2, <2>3, Elsewhere DEF Deliver, TypeOK, consumerVars
  <2>5. ASSUME NEW d \in Event PROVE sent'[d] = ready'[d] + unacked'[d] + Total(d)'
    <3>1. Total(d)' = Total(d)
      BY <2>3 DEF Total
    <3> QED
      BY <1>a, <2>1, <2>3, <3>1, SMT
  <2> QED
    BY <2>3, <2>4, <2>5, Elsewhere DEF NoCopyLost
<1>2. ASSUME NEW o \in Outcomes(e), Dispatch(e, o) PROVE OutboxInv'
  <2>1. unacked' = [unacked EXCEPT ![e] = @ - 1] /\ unacked[e] > 0
    BY <1>2 DEF Dispatch, Dec
  <2>2. unacked' \in [Event -> Nat]
    BY <1>a, <2>1, SMT
  <2>3. UNCHANGED eventVars /\ sent' = sent
    BY <1>2 DEF Dispatch, eventVars
  <2>4. \/ ready' = [ready EXCEPT ![e] = @ + 1] /\ settled' = settled
        \/ ready' = ready /\ \E x \in Ends : Settle(e, x)
    BY <1>2 DEF Dispatch, Inc, Ends
  <2>5. ready' \in [Event -> Nat] /\ settled' \in [Event -> [Ends -> Nat]]
    <3>1. CASE ready' = [ready EXCEPT ![e] = @ + 1] /\ settled' = settled
      BY <1>a, <3>1, SMT DEF TypeOK
    <3>2. CASE ready' = ready /\ \E x \in Ends : Settle(e, x)
      BY <1>a, <3>2, SettleCounts
    <3> QED
      BY <2>4, <3>1, <3>2
  <2>6. faults' \in Nat
    BY <1>2, SMT DEF Dispatch, Requeues, Fault, TypeOK
  <2>7. TypeOK'
    BY <1>2, <2>2, <2>3, <2>5, <2>6, Elsewhere DEF Dispatch, TypeOK, consumerVars
  <2>8. ASSUME NEW d \in Event PROVE sent'[d] = ready'[d] + unacked'[d] + Total(d)'
    <3>1. \/ ready' = [ready EXCEPT ![e] = @ + 1] /\ Total(d)' = Total(d)
          \/ ready' = ready /\ Total(d)' = IF d = e THEN Total(d) + 1 ELSE Total(d)
      BY <2>4, SettleCounts DEF Total
    <3> QED
      BY <1>a, <2>1, <2>3, <3>1, SMT
  <2> QED
    BY <2>3, <2>7, <2>8, Elsewhere DEF NoCopyLost
<1> QED
  BY <1>1, <1>2 DEF Consume

\* A channel that closes gives back what its handlers held.
LEMMA RedeliverInv ==
  ASSUME OutboxInv, ConnectionLost \/ StartReturns
  PROVE  OutboxInv'
<1> USE DEF OutboxInv
<1>a. /\ ready \in [Event -> Nat] /\ unacked \in [Event -> Nat] /\ sent \in [Event -> Nat]
      /\ \A d \in Event : Total(d) \in Nat /\ sent[d] = ready[d] + unacked[d] + Total(d)
  BY TotalType DEF TypeOK, NoCopyLost
<1>1. ready' = [e \in Event |-> ready[e] + unacked[e]] /\ unacked' = [e \in Event |-> 0]
  BY DEF ConnectionLost, StartReturns, Redeliver, Zero
<1>2. ready' \in [Event -> Nat] /\ unacked' \in [Event -> Nat]
  BY <1>a, <1>1, SMT
<1>3. UNCHANGED eventVars /\ sent' = sent /\ settled' = settled
  BY DEF ConnectionLost, StartReturns, eventVars
<1>4. faults' \in Nat
  BY SMT DEF ConnectionLost, StartReturns, Fault, TypeOK
<1>5. TypeOK'
  BY <1>2, <1>3, <1>4, Elsewhere DEF ConnectionLost, StartReturns, TypeOK, consumerVars
<1>6. ASSUME NEW d \in Event PROVE sent'[d] = ready'[d] + unacked'[d] + Total(d)'
  <2>1. Total(d)' = Total(d)
    BY <1>3 DEF Total
  <2> QED
    BY <1>a, <1>1, <1>3, <2>1, SMT
<1> QED
  BY <1>3, <1>5, <1>6, Elsewhere DEF NoCopyLost

\* The steps that move neither tasks nor copies.
LEMMA ConsumerInv ==
  ASSUME OutboxInv,
         \/ DeclareExchange \/ Start \/ WatcherCloses \/ WatcherLeaves \/ Restart
         \/ Cancel \/ StopOrFail
  PROVE  OutboxInv'
<1> USE DEF OutboxInv, DeclareExchange, Start, WatcherCloses, WatcherLeaves, Restart, Cancel, StopOrFail
<1>1. UNCHANGED <<eventVars, ready, unacked, settled>>
  OBVIOUS
<1>2. faults' \in Nat
  BY SMT DEF Fault, TypeOK
<1>3. TypeOK'
  BY <1>1, <1>2, Elsewhere DEF TypeOK, consumerVars
<1>4. NoCopyLost'
  BY <1>1 DEF NoCopyLost, Total, eventVars
<1> QED
  BY <1>1, <1>3, <1>4, Elsewhere

\* Every step keeps the invariant.
LEMMA OutboxStep == OutboxInv /\ [Next]_outboxVars => OutboxInv'
<1> SUFFICES ASSUME OutboxInv, [Next]_outboxVars PROVE OutboxInv'
  OBVIOUS
<1>1. CASE UNCHANGED outboxVars
  BY <1>1 DEF outboxVars, eventVars, consumerVars, OutboxInv, TypeOK, TxInv, CopyInv, NoCopyLost,
              DeadForGood, Total
<1>2. CASE Next
  BY <1>2, ProduceInv, WorkInv, CutInv, ConsumeInv, RedeliverInv, ConsumerInv DEF Next, Run
<1> QED
  BY <1>1, <1>2

\* The invariant holds from the start.
LEMMA OutboxAlways == Spec => []OutboxInv
BY OutboxInit, OutboxStep, PTL DEF Spec

\* Only the events of committed transactions are published
\* (Scheduler.Schedule inside the transaction of the domain).
THEOREM OutboxCommitted == Spec => []OnlyCommitted
<1>1. OutboxInv => OnlyCommitted
  BY DEF OutboxInv, TxInv, OnlyCommitted
<1> QED
  BY <1>1, OutboxAlways, PTL

\* The broker and the consumer lose no copy the broker took, and there are at
\* most as many extra copies as publishes that failed (Publisher.send,
\* Consumer.dispatch).
THEOREM OutboxCopies == Spec => [](NoCopyLost /\ CopiesBounded)
<1>1. OutboxInv => NoCopyLost /\ CopiesBounded
  BY DEF OutboxInv, CopyInv, CopiesBounded
<1> QED
  BY <1>1, OutboxAlways, PTL

\* No failure of the broker makes a dead letter (queue.Halt in outbox.Handler).
THEOREM OutboxDeadLetters == Spec => []DeadForGood
<1>1. OutboxInv => DeadForGood
  BY DEF OutboxInv
<1> QED
  BY <1>1, OutboxAlways, PTL

\* All of it: what becomes of an event on its way.
THEOREM OutboxSafe == Spec => []OutboxSafety
BY OutboxCommitted, OutboxCopies, OutboxDeadLetters, PTL DEF OutboxSafety

-----------------------------------------------------------------------------
(* The audit recorders                                                     *)

Coords == {"wait", "locking", "locked", "ready"}
Workers == {"select", "wait", "exited"}
Starts == {"new", "running", "returned"}

RecTypes ==
  /\ recShardOf \in [Subject -> Shard]
  /\ recProd \in [Producer -> SUBSET Entry]
  /\ recCount \in [Producer -> 0 .. MaxEntries]
  /\ recShards \in [Shard -> Seq(Entry)]
  /\ \A s \in Shard : Len(recShards[s]) <= Buffer
  /\ recTasks \subseteq Entry
  /\ recWritten \in [Subject -> Seq(Entry)]
  /\ recGone \subseteq Entry
  /\ recStart \in Starts
  /\ recCoord \in Coords
  /\ recWorker \in [Shard -> Workers]

\* A producer is in Record with the newest of its entries, and the task queue is
\* used by the queued recorder alone.
ProdInv ==
  /\ \A p \in Producer : \A e \in recProd[p] :
       recProd[p] = {e} /\ e.by = p /\ e.n = recCount[p]
  /\ recTasks # {} => recMode = "queue"

\* The entries of one producer are in the order it recorded them.
Ordered(q) == \A i, j \in 1 .. Len(q) : i < j /\ q[i].by = q[j].by => q[i].n < q[j].n

\* An entry of q is one its producer recorded, before the one it is recording.
Known(q, count, prod) ==
  \A i \in 1 .. Len(q) : /\ q[i].n <= count[q[i].by]
                         /\ prod[q[i].by] # {} => q[i].n < count[q[i].by]

\* The entries of model m in r come after those of q.
Precedes(q, r, m) ==
  \A i \in 1 .. Len(q), j \in 1 .. Len(r) :
    r[j].subject = m /\ q[i].by = r[j].by => q[i].n < r[j].n

OfShard(q, s) == \A i \in 1 .. Len(q) : recShardOf[q[i].subject] = s

\* A shard buffers entries of its own models, in order.
LaneInv ==
  \A s \in Shard : /\ Ordered(recShards[s])
                   /\ Known(recShards[s], recCount, recProd)
                   /\ OfShard(recShards[s], s)

\* What is written of a model is in order, and before what is buffered of it.
WrittenInv ==
  Async => \A m \in Subject : /\ Ordered(recWritten[m])
                              /\ Known(recWritten[m], recCount, recProd)
                              /\ \A s \in Shard : Precedes(recWritten[m], recShards[s], m)

\* Where a recorded entry can be.
Somewhere(e) ==
  \/ e \in recProd[e.by] \/ e \in recTasks \/ e \in recGone
  \/ e \in Range(recWritten[e.subject])
  \/ \E s \in Shard : e \in Range(recShards[s])

Accounted ==
  \A p \in Producer : \A n \in 1 .. recCount[p] :
    \E e \in Entry : e.by = p /\ e.n = n /\ Somewhere(e)

\* A worker leaves an empty shard that no producer can send to any more.
EndInv ==
  /\ \A s \in Shard : recWorker[s] = "exited" => recCoord = "ready" /\ recShards[s] = <<>>
  /\ recStart = "returned" => \A s \in Shard : recWorker[s] = "exited"

RecorderInv == RecTypes /\ ProdInv /\ LaneInv /\ WrittenInv /\ Accounted /\ EndInv

\* The fields of an entry.
LEMMA EntryFields ==
  ASSUME NEW e \in Entry
  PROVE  e.by \in Producer /\ e.n \in 1 .. MaxEntries /\ e.n \in Nat /\ e.subject \in Subject
<1>1. e.by \in Producer /\ e.n \in 1 .. MaxEntries /\ e.subject \in Subject
  BY DEF Entry
<1>2. e.n \in Nat
  BY <1>1, RecorderAssumption, SMT
<1> QED
  BY <1>1, <1>2

\* Where the elements of an appended sequence come from.
LEMMA AppendAt ==
  ASSUME NEW q \in Seq(Entry), NEW e \in Entry
  PROVE  /\ Append(q, e) \in Seq(Entry)
         /\ Len(Append(q, e)) = Len(q) + 1
         /\ \A i \in 1 .. Len(q) : Append(q, e)[i] = q[i] /\ i <= Len(q) /\ q[i] \in Entry
         /\ Append(q, e)[Len(q) + 1] = e
         /\ \A i \in 1 .. Len(Append(q, e)) : i \in 1 .. Len(q) \/ i = Len(q) + 1
         /\ Len(q) \in Nat
         /\ Range(q) \subseteq Range(Append(q, e)) /\ e \in Range(Append(q, e))
<1>1. /\ Append(q, e) \in Seq(Entry)
      /\ Len(Append(q, e)) = Len(q) + 1
      /\ \A i \in 1 .. Len(q) : Append(q, e)[i] = q[i] /\ i <= Len(q) /\ q[i] \in Entry
      /\ Append(q, e)[Len(q) + 1] = e
      /\ Len(q) \in Nat
      /\ DOMAIN q = 1 .. Len(q) /\ DOMAIN Append(q, e) = 1 .. Len(q) + 1
  BY SMT
<1>2. 1 .. Len(q) \subseteq 1 .. Len(q) + 1 /\ Len(q) + 1 \in 1 .. Len(q) + 1
  BY <1>1, SMT
<1>3. \A i \in 1 .. Len(q) + 1 : i \in 1 .. Len(q) \/ i = Len(q) + 1
  BY <1>1, SMT
<1>4. Range(q) \subseteq Range(Append(q, e)) /\ e \in Range(Append(q, e))
  BY <1>1, <1>2 DEF Range
<1> QED
  BY <1>1, <1>3, <1>4

\* Where the elements of a tail come from.
LEMMA TailAt ==
  ASSUME NEW q \in Seq(Entry), q # <<>>
  PROVE  /\ Tail(q) \in Seq(Entry) /\ Len(q) \in Nat
         /\ Len(Tail(q)) = Len(q) - 1
         /\ \A i \in 1 .. Len(Tail(q)) : i + 1 \in 1 .. Len(q) /\ Tail(q)[i] = q[i + 1] /\ 1 < i + 1
                                         /\ i \in Nat
         /\ Head(q) = q[1] /\ 1 \in 1 .. Len(q) /\ Head(q) \in Entry
         /\ Range(q) \subseteq {Head(q)} \cup Range(Tail(q))
<1>1. /\ Tail(q) \in Seq(Entry) /\ Len(q) \in Nat
      /\ Len(Tail(q)) = Len(q) - 1
      /\ Head(q) = q[1] /\ 1 \in 1 .. Len(q) /\ Head(q) \in Entry
      /\ DOMAIN q = 1 .. Len(q) /\ DOMAIN Tail(q) = 1 .. Len(Tail(q))
  BY SMT
<1>2. \A i \in 1 .. Len(Tail(q)) : i + 1 \in 1 .. Len(q) /\ Tail(q)[i] = q[i + 1] /\ 1 < i + 1
                                   /\ i \in Nat
  BY <1>1, SMT
<1>3. \A i \in 1 .. Len(q) : i = 1 \/ (i - 1 \in 1 .. Len(Tail(q)) /\ (i - 1) + 1 = i)
  BY <1>1, SMT
<1>4. Range(q) \subseteq {Head(q)} \cup Range(Tail(q))
  <2> SUFFICES ASSUME NEW i \in 1 .. Len(q), q[i] # Head(q) PROVE q[i] \in Range(Tail(q))
    BY <1>1 DEF Range
  <2>1. i - 1 \in 1 .. Len(Tail(q)) /\ (i - 1) + 1 = i
    BY <1>1, <1>3
  <2>2. Tail(q)[i - 1] = q[i]
    BY <1>2, <2>1
  <2> QED
    BY <1>1, <2>1, <2>2 DEF Range
<1> QED
  BY <1>1, <1>2, <1>4

\* An entry newer than the producer's others goes last.
LEMMA AppendOrdered ==
  ASSUME NEW q \in Seq(Entry), NEW e \in Entry, Ordered(q),
         \A i \in 1 .. Len(q) : q[i].by = e.by => q[i].n < e.n
  PROVE  Ordered(Append(q, e))
<1> DEFINE a == Append(q, e)
<1>1. /\ \A i \in 1 .. Len(q) : a[i] = q[i]
      /\ a[Len(q) + 1] = e
      /\ Len(a) = Len(q) + 1 /\ Len(q) \in Nat
  BY AppendAt
<1> HIDE DEF a
<1>2. ASSUME NEW i \in 1 .. Len(a), NEW j \in 1 .. Len(a), i < j, a[i].by = a[j].by
      PROVE  a[i].n < a[j].n
  <2>1. i \in 1 .. Len(q) /\ (j \in 1 .. Len(q) \/ j = Len(q) + 1)
    BY <1>1, <1>2, SMT
  <2>2. a[i] = q[i]
    BY <1>1, <2>1
  <2>3. CASE j \in 1 .. Len(q)
    <3>1. a[j] = q[j]
      BY <1>1, <2>3
    <3> QED
      BY <1>2, <2>1, <2>2, <2>3, <3>1 DEF Ordered
  <2>4. CASE j = Len(q) + 1
    <3>1. a[j] = e
      BY <1>1, <2>4
    <3> QED
      BY <1>2, <2>1, <2>2, <3>1
  <2> QED
    BY <2>1, <2>3, <2>4
<1>3. Ordered(a)
  BY <1>2 DEF Ordered
<1> QED
  BY <1>3 DEF a

\* The rest of an ordered sequence is ordered, and comes after its head.
LEMMA TailOrdered ==
  ASSUME NEW q \in Seq(Entry), q # <<>>, Ordered(q)
  PROVE  /\ Ordered(Tail(q))
         /\ \A j \in 1 .. Len(Tail(q)) : Head(q).by = Tail(q)[j].by => Head(q).n < Tail(q)[j].n
<1>1. ASSUME NEW j \in 1 .. Len(Tail(q)), Head(q).by = Tail(q)[j].by PROVE Head(q).n < Tail(q)[j].n
  <2>1. j + 1 \in 1 .. Len(q) /\ Tail(q)[j] = q[j + 1] /\ 1 < j + 1
    BY TailAt
  <2>2. Head(q) = q[1] /\ 1 \in 1 .. Len(q)
    BY TailAt
  <2> QED
    BY <1>1, <2>1, <2>2 DEF Ordered
<1>2. ASSUME NEW i \in 1 .. Len(Tail(q)), NEW j \in 1 .. Len(Tail(q)), i < j,
             Tail(q)[i].by = Tail(q)[j].by
      PROVE  Tail(q)[i].n < Tail(q)[j].n
  <2>1. i + 1 < j + 1
    BY <1>2, SMT
  <2>2. /\ i + 1 \in 1 .. Len(q) /\ Tail(q)[i] = q[i + 1]
        /\ j + 1 \in 1 .. Len(q) /\ Tail(q)[j] = q[j + 1]
    BY TailAt
  <2> QED
    BY <1>2, <2>1, <2>2 DEF Ordered
<1> QED
  BY <1>1, <1>2 DEF Ordered

\* Nothing was recorded in the beginning.
LEMMA RecorderInitially == RecorderInit => RecorderInv
<1> SUFFICES ASSUME RecorderInit PROVE RecorderInv
  OBVIOUS
<1>1. <<>> \in Seq(Entry) /\ Len(<<>>) = 0 /\ 1 .. 0 = {} /\ 0 \in 0 .. MaxEntries /\ 0 <= Buffer
  BY RecorderAssumption, SMT
<1>2. RecTypes
  <2>1. \A s \in Shard : recShards[s] = <<>>
    BY DEF RecorderInit
  <2>2. \A s \in Shard : Len(recShards[s]) <= Buffer
    BY <1>1, <2>1
  <2> QED
    BY <1>1, <2>2 DEF RecorderInit, RecTypes, Starts, Coords, Workers
<1>3. ProdInv
  BY DEF RecorderInit, ProdInv
<1>4. /\ \A s \in Shard : recShards[s] = <<>> /\ 1 .. Len(recShards[s]) = {}
      /\ \A m \in Subject : 1 .. Len(recWritten[m]) = {}
      /\ \A p \in Producer : 1 .. recCount[p] = {}
  BY <1>1 DEF RecorderInit
<1>5. LaneInv
  BY <1>4 DEF LaneInv, Ordered, Known, OfShard
<1>6. WrittenInv
  BY <1>4 DEF WrittenInv, Ordered, Known, Precedes
<1>7. Accounted
  BY <1>4 DEF Accounted
<1>8. EndInv
  BY DEF RecorderInit, EndInv
<1> QED
  BY <1>2, <1>3, <1>5, <1>6, <1>7, <1>8 DEF RecorderInv

\* What becomes of an entry that was recorded stays known while no step loses it.
LEMMA StillAccounted ==
  ASSUME Accounted, UNCHANGED recCount,
         \A e \in Entry : Somewhere(e) => Somewhere(e)'
  PROVE  Accounted'
BY DEF Accounted

\* The steps of Start and its coordinator leave the entries alone.
LEMMA EntriesKept ==
  ASSUME RecorderInv,
         UNCHANGED <<recMode, recShardOf, recProd, recCount, recShards, recTasks, recWritten, recGone>>,
         recStart' \in Starts, recCoord' \in Coords, recWorker' \in [Shard -> Workers], EndInv'
  PROVE  RecorderInv'
<1>1. RecTypes' /\ ProdInv'
  BY DEF RecorderInv, RecTypes, ProdInv, Entry
<1>2. LaneInv'
  BY DEF RecorderInv, LaneInv, Ordered, Known, OfShard
<1>3. WrittenInv'
  BY DEF RecorderInv, WrittenInv, Async, Ordered, Known, Precedes
<1>4. Accounted'
  BY StillAccounted DEF RecorderInv, Somewhere
<1> QED
  BY <1>1, <1>2, <1>3, <1>4 DEF RecorderInv

\* Start, its cancellation, the coordinator, and the end of a worker.
LEMMA StartKeeps ==
  ASSUME RecorderInv,
         RecorderStart \/ RecorderCancel \/ Coordinate \/ RecorderReturns
           \/ \E s \in Shard : WorkerEnds(s)
  PROVE  RecorderInv'
<1>1. RecTypes /\ EndInv
  BY DEF RecorderInv
<1>2. UNCHANGED <<recMode, recShardOf, recProd, recCount, recShards, recTasks, recWritten, recGone>>
  BY DEF RecorderStart, RecorderCancel, Coordinate, RecorderReturns, WorkerEnds
<1>3. recStart' \in Starts /\ recCoord' \in Coords
  BY <1>1 DEF RecTypes, Starts, Coords, RecorderStart, RecorderCancel, Coordinate, RecorderReturns, WorkerEnds
<1>4. recWorker' \in [Shard -> Workers] /\ EndInv'
  <2>1. CASE RecorderStart
    BY <1>1, <2>1 DEF RecorderStart, RecTypes, EndInv
  <2>2. CASE RecorderCancel
    BY <1>1, <2>2 DEF RecorderCancel, RecTypes, EndInv
  <2>3. CASE Coordinate
    <3>1. \A s \in Shard : recWorker[s] # "exited" \/ recCoord = "ready"
      BY <1>1 DEF EndInv
    <3> QED
      BY <1>1, <2>3, <3>1 DEF Coordinate, RecTypes, EndInv
  <2>4. CASE RecorderReturns
    BY <1>1, <2>4 DEF RecorderReturns, RecTypes, EndInv
  <2>5. ASSUME NEW s \in Shard, WorkerEnds(s) PROVE recWorker' \in [Shard -> Workers] /\ EndInv'
    <3>1. PICK w \in {"wait", "exited"} :
            /\ recWorker' = [recWorker EXCEPT ![s] = w]
            /\ w = "exited" => recCoord = "ready" /\ recShards[s] = <<>>
      BY <2>5 DEF WorkerEnds, drainReady
    <3>2. recWorker' \in [Shard -> Workers] /\ recWorker'[s] = w
          /\ \A t \in Shard \ {s} : recWorker'[t] = recWorker[t]
      BY <1>1, <3>1 DEF RecTypes, Workers
    <3>3. recStart' = "running" /\ UNCHANGED <<recCoord, recShards>>
      BY <2>5 DEF WorkerEnds
    <3> QED
      BY <1>1, <3>1, <3>2, <3>3 DEF EndInv
  <2> QED
    BY <2>1, <2>2, <2>3, <2>4, <2>5
<1> QED
  BY <1>2, <1>3, <1>4, EntriesKept

\* A written entry goes last in the log of its model.
LEMMA WriteAppends ==
  ASSUME RecTypes, NEW e \in Entry, Write(e)
  PROVE  /\ recWritten' \in [Subject -> Seq(Entry)]
         /\ recWritten'[e.subject] = Append(recWritten[e.subject], e)
         /\ \A m \in Subject : m # e.subject => recWritten'[m] = recWritten[m]
         /\ e \in Range(recWritten'[e.subject])
         /\ \A m \in Subject : Range(recWritten[m]) \subseteq Range(recWritten'[m])
<1>1. e.subject \in Subject /\ recWritten \in [Subject -> Seq(Entry)]
  BY EntryFields DEF RecTypes
<1>2. recWritten[e.subject] \in Seq(Entry)
  BY <1>1
<1> DEFINE a == Append(recWritten[e.subject], e)
<1>3. a \in Seq(Entry) /\ e \in Range(a) /\ Range(recWritten[e.subject]) \subseteq Range(a)
  BY <1>2, AppendAt
<1>4. recWritten' = [recWritten EXCEPT ![e.subject] = a]
  BY DEF Write
<1> HIDE DEF a
<1>5. /\ recWritten' \in [Subject -> Seq(Entry)] /\ recWritten'[e.subject] = a
      /\ \A m \in Subject : m # e.subject => recWritten'[m] = recWritten[m]
  BY <1>1, <1>3, <1>4
<1>6. ASSUME NEW m \in Subject PROVE Range(recWritten[m]) \subseteq Range(recWritten'[m])
  BY <1>3, <1>5
<1>7. e \in Range(recWritten'[e.subject])
  BY <1>3, <1>5
<1> QED
  BY <1>5, <1>6, <1>7 DEF a

\* A producer that returns, or one that records a newer entry, leaves the
\* entries of a sequence older ones.
LEMMA KnownKept ==
  ASSUME RecTypes, NEW q \in Seq(Entry), Known(q, recCount, recProd), NEW p \in Producer,
         \A r \in Producer : r # p => recCount'[r] = recCount[r] /\ recProd'[r] = recProd[r],
         \/ recCount'[p] = recCount[p] /\ recProd'[p] = {}
         \/ recCount'[p] = recCount[p] + 1
  PROVE  Known(q, recCount', recProd')
<1>1. ASSUME NEW i \in 1 .. Len(q)
      PROVE  /\ q[i].n <= recCount'[q[i].by]
             /\ recProd'[q[i].by] # {} => q[i].n < recCount'[q[i].by]
  <2>1. q[i] \in Entry
    BY SMT
  <2>2. q[i].by \in Producer /\ q[i].n \in Nat
    BY <2>1, EntryFields
  <2>3. q[i].n <= recCount[q[i].by] /\ (recProd[q[i].by] # {} => q[i].n < recCount[q[i].by])
    BY DEF Known
  <2>4. CASE q[i].by # p
    BY <2>2, <2>3, <2>4
  <2>5. CASE q[i].by = p
    <3>1. recCount[p] \in Nat
      BY RecorderAssumption, SMT DEF RecTypes
    <3>2. CASE recCount'[p] = recCount[p] /\ recProd'[p] = {}
      BY <2>3, <2>5, <3>2
    <3>3. CASE recCount'[p] = recCount[p] + 1
      <4>1. q[i].n <= recCount[p]
        BY <2>3, <2>5
      <4>2. q[i].n < recCount'[p] /\ q[i].n <= recCount'[p]
        BY <2>2, <3>1, <3>3, <4>1, SMT
      <4> QED
        BY <2>5, <4>2
    <3> QED
      BY <3>2, <3>3
  <2> QED
    BY <2>4, <2>5
<1> QED
  BY <1>1 DEF Known

\* A new entry is taken by its Record, written, queued or reported.
LEMMA PublishKeeps ==
  ASSUME RecorderInv, NEW p \in Producer, NEW m \in Subject, Publish(p, m)
  PROVE  RecorderInv'
<1>1. RecTypes /\ ProdInv /\ LaneInv /\ WrittenInv /\ Accounted /\ EndInv
  BY DEF RecorderInv
<1>2. recCount[p] \in 0 .. MaxEntries /\ recCount[p] < MaxEntries /\ recProd[p] = {}
  BY <1>1 DEF RecTypes, Publish
<1>3. recCount[p] + 1 \in 1 .. MaxEntries /\ recCount[p] + 1 \in 0 .. MaxEntries /\ recCount[p] \in Nat
  BY <1>2, RecorderAssumption, SMT
<1>4. PICK e \in Entry :
        /\ e.by = p /\ e.n = recCount[p] + 1 /\ e.subject = m
        /\ \/ /\ Async /\ recProd' = [recProd EXCEPT ![p] = {e}]
              /\ UNCHANGED <<recTasks, recWritten, recGone>>
           \/ recMode = "sync" /\ CoreRecord(e) /\ UNCHANGED <<recProd, recTasks>>
           \/ /\ recMode = "queue"
              /\ \/ recTasks' = recTasks \cup {e} /\ UNCHANGED recGone
                 \/ Drop(e) /\ UNCHANGED recTasks
              /\ UNCHANGED <<recProd, recWritten>>
  <2> DEFINE e == [by |-> p, n |-> recCount[p] + 1, subject |-> m]
  <2>1. e \in Entry /\ e.by = p /\ e.n = recCount[p] + 1 /\ e.subject = m
    BY <1>3 DEF Entry
  <2>2. \/ /\ Async /\ recProd' = [recProd EXCEPT ![p] = {e}]
           /\ UNCHANGED <<recTasks, recWritten, recGone>>
        \/ recMode = "sync" /\ CoreRecord(e) /\ UNCHANGED <<recProd, recTasks>>
        \/ /\ recMode = "queue"
           /\ \/ recTasks' = recTasks \cup {e} /\ UNCHANGED recGone
              \/ Drop(e) /\ UNCHANGED recTasks
           /\ UNCHANGED <<recProd, recWritten>>
    BY DEF Publish
  <2> HIDE DEF e
  <2> QED
    BY <2>1, <2>2
<1>5. /\ recCount' \in [Producer -> 0 .. MaxEntries] /\ recCount'[p] = recCount[p] + 1
      /\ \A r \in Producer : r # p => recCount'[r] = recCount[r]
  BY <1>1, <1>3 DEF Publish, RecTypes
<1>6. UNCHANGED <<recMode, recShardOf, recShards, recCtx, recStart, recCoord, recWorker>>
  BY DEF Publish
<1>8. /\ recProd' \in [Producer -> SUBSET Entry]
      /\ recProd'[p] \in {{}, {e}}
      /\ \A r \in Producer : r # p => recProd'[r] = recProd[r]
  <2>1. recProd \in [Producer -> SUBSET Entry] /\ {e} \in SUBSET Entry
    BY <1>1 DEF RecTypes
  <2>2. CASE recProd' = [recProd EXCEPT ![p] = {e}]
    BY <2>1, <2>2
  <2>3. CASE recProd' = recProd
    BY <1>2, <2>1, <2>3
  <2> QED
    BY <1>4, <2>2, <2>3
<1>9. /\ recTasks \subseteq recTasks' /\ recTasks' \subseteq Entry /\ (recTasks' # {} => recMode = "queue")
      /\ recGone \subseteq recGone' /\ recGone' \subseteq Entry
      /\ recWritten' \in [Subject -> Seq(Entry)]
      /\ Async => recWritten' = recWritten
      /\ \A x \in Subject : Range(recWritten[x]) \subseteq Range(recWritten'[x])
      /\ e \in recProd'[p] \/ e \in recTasks' \/ e \in recGone' \/ e \in Range(recWritten'[m])
  <2>1. recTasks \subseteq Entry /\ recGone \subseteq Entry /\ recWritten \in [Subject -> Seq(Entry)]
        /\ (recTasks # {} => recMode = "queue") /\ (recMode \in {"sync", "queue"} => ~Async)
    BY <1>1 DEF RecTypes, ProdInv, Async
  <2>2. CASE Async /\ recProd' = [recProd EXCEPT ![p] = {e}] /\ UNCHANGED <<recTasks, recWritten, recGone>>
    <3>1. e \in recProd'[p]
      BY <1>1, <2>2 DEF RecTypes
    <3> QED
      BY <2>1, <2>2, <3>1
  <2>3. CASE recMode = "sync" /\ CoreRecord(e) /\ UNCHANGED <<recProd, recTasks>>
    <3>1. CASE Write(e) /\ UNCHANGED recGone
      BY <1>1, <1>4, <2>1, <2>3, <3>1, WriteAppends
    <3>2. CASE Drop(e) /\ UNCHANGED recWritten
      BY <1>4, <2>1, <2>3, <3>2 DEF Drop
    <3> QED
      BY <2>3, <3>1, <3>2 DEF CoreRecord
  <2>4. CASE /\ recMode = "queue"
             /\ \/ recTasks' = recTasks \cup {e} /\ UNCHANGED recGone
                \/ Drop(e) /\ UNCHANGED recTasks
             /\ UNCHANGED <<recProd, recWritten>>
    BY <1>4, <2>1, <2>4 DEF Drop
  <2> QED
    BY <1>4, <2>2, <2>3, <2>4
<1>10. RecTypes'
  BY <1>1, <1>5, <1>6, <1>8, <1>9 DEF RecTypes, Entry
<1>11. ProdInv'
  <2>1. ASSUME NEW r \in Producer, NEW x \in recProd'[r]
        PROVE  recProd'[r] = {x} /\ x.by = r /\ x.n = recCount'[r]
    <3>1. CASE r = p
      BY <1>4, <1>5, <1>8, <2>1, <3>1
    <3>2. CASE r # p
      BY <1>1, <1>5, <1>8, <2>1, <3>2 DEF ProdInv
    <3> QED
      BY <3>1, <3>2
  <2> QED
    BY <1>6, <1>9, <2>1 DEF ProdInv
<1>12. ASSUME NEW q \in Seq(Entry), Known(q, recCount, recProd) PROVE Known(q, recCount', recProd')
  BY <1>1, <1>5, <1>8, <1>12, KnownKept
<1>13. LaneInv'
  <2>1. ASSUME NEW s \in Shard PROVE Known(recShards[s], recCount', recProd')
    <3>1. recShards[s] \in Seq(Entry) /\ Known(recShards[s], recCount, recProd)
      BY <1>1 DEF RecTypes, LaneInv
    <3> QED
      BY <1>12, <3>1
  <2> QED
    BY <1>1, <1>6, <2>1 DEF LaneInv, Ordered, Known, OfShard
<1>14. WrittenInv'
  <2> SUFFICES ASSUME Async PROVE WrittenInv'
    BY <1>6 DEF WrittenInv, Async
  <2>1. ASSUME NEW x \in Subject PROVE Known(recWritten[x], recCount', recProd')
    <3>1. recWritten[x] \in Seq(Entry) /\ Known(recWritten[x], recCount, recProd)
      BY <1>1 DEF RecTypes, WrittenInv
    <3> QED
      BY <1>12, <3>1
  <2>2. UNCHANGED <<recWritten, recShards>>
    BY <1>6, <1>9
  <2>3. \A x \in Subject : Ordered(recWritten'[x]) /\ Known(recWritten'[x], recCount', recProd')
    BY <1>1, <2>1, <2>2 DEF WrittenInv
  <2>4. \A x \in Subject, s \in Shard : Precedes(recWritten'[x], recShards'[s], x)
    BY <1>1, <2>2 DEF WrittenInv
  <2> QED
    BY <2>3, <2>4 DEF WrittenInv, Ordered, Known, Precedes
<1>15. Accounted'
  <2>1. ASSUME NEW x \in Entry, Somewhere(x) PROVE Somewhere(x)'
    <3>1. x.by \in Producer /\ x.subject \in Subject
      BY EntryFields
    <3>2. x \in recProd[x.by] => x \in recProd'[x.by]
      BY <1>2, <1>8, <3>1
    <3> QED
      BY <1>6, <1>9, <2>1, <3>1, <3>2 DEF Somewhere
  <2>2. Somewhere(e)'
    BY <1>4, <1>9 DEF Somewhere
  <2>3. ASSUME NEW r \in Producer, NEW n \in 1 .. recCount'[r]
        PROVE  \E x \in Entry : x.by = r /\ x.n = n /\ Somewhere(x)'
    <3>1. CASE n \in 1 .. recCount[r]
      BY <1>1, <2>1, <3>1 DEF Accounted
    <3>2. CASE n \notin 1 .. recCount[r]
      <4>1. r = p
        BY <1>5, <2>3, <3>2
      <4>2. n \in 1 .. recCount[p] + 1 /\ n \notin 1 .. recCount[p]
        BY <1>5, <2>3, <3>2, <4>1
      <4>3. n = recCount[p] + 1
        BY <1>3, <4>2, SMT
      <4> QED
        BY <1>4, <2>2, <4>1, <4>3
    <3> QED
      BY <3>1, <3>2
  <2> QED
    BY <2>3 DEF Accounted, Entry
<1>16. EndInv'
  BY <1>1, <1>6 DEF EndInv
<1> QED
  BY <1>10, <1>11, <1>13, <1>14, <1>15, <1>16 DEF RecorderInv

\* What a producer's return from Record leaves as it was.
LEMMA ReturnKeeps ==
  ASSUME RecTypes, ProdInv, NEW p \in Producer, Returns(p), UNCHANGED <<recCount, recTasks, recMode>>
  PROVE  /\ recProd' \in [Producer -> SUBSET Entry]
         /\ recProd'[p] = {} /\ \A r \in Producer : r # p => recProd'[r] = recProd[r]
         /\ ProdInv'
         /\ \A q \in Seq(Entry) : Known(q, recCount, recProd) => Known(q, recCount', recProd')
<1>1. /\ recProd' \in [Producer -> SUBSET Entry]
      /\ recProd'[p] = {} /\ \A r \in Producer : r # p => recProd'[r] = recProd[r]
  BY DEF Returns, RecTypes
<1>2. ProdInv'
  BY <1>1 DEF ProdInv
<1>3. ASSUME NEW q \in Seq(Entry), Known(q, recCount, recProd) PROVE Known(q, recCount', recProd')
  BY <1>1, <1>3, KnownKept
<1> QED
  BY <1>1, <1>2, <1>3

\* A dropped entry is reported.
LEMMA RecordDropKeeps ==
  ASSUME RecorderInv, NEW p \in Producer, RecordDrop(p)
  PROVE  RecorderInv'
<1>1. RecTypes /\ ProdInv /\ LaneInv /\ WrittenInv /\ Accounted /\ EndInv
  BY DEF RecorderInv
<1>2. PICK e \in recProd[p] : Drop(e) /\ Returns(p)
  BY DEF RecordDrop
<1>3. UNCHANGED <<recMode, recShardOf, recCount, recShards, recTasks, recWritten, recCtx, recStart,
                  recCoord, recWorker>>
  BY DEF RecordDrop
<1>4. e \in Entry /\ recProd[p] = {e} /\ e.by = p
  BY <1>1 DEF RecTypes, ProdInv
<1>5. /\ recProd' \in [Producer -> SUBSET Entry]
      /\ recProd'[p] = {} /\ \A r \in Producer : r # p => recProd'[r] = recProd[r]
      /\ ProdInv'
      /\ \A q \in Seq(Entry) : Known(q, recCount, recProd) => Known(q, recCount', recProd')
  BY <1>1, <1>2, <1>3, ReturnKeeps
<1>6. recGone' = recGone \cup {e}
  BY <1>2 DEF Drop
<1>7. RecTypes'
  BY <1>1, <1>3, <1>4, <1>5, <1>6 DEF RecTypes, Entry
<1>8. LaneInv'
  <2>1. ASSUME NEW s \in Shard
        PROVE  Ordered(recShards[s]) /\ Known(recShards[s], recCount', recProd') /\ OfShard(recShards[s], s)
    BY <1>1, <1>5 DEF RecTypes, LaneInv
  <2> QED
    BY <1>3, <2>1 DEF LaneInv, Ordered, Known, OfShard
<1>9. WrittenInv'
  <2> SUFFICES ASSUME Async PROVE WrittenInv'
    BY <1>3 DEF WrittenInv, Async
  <2>1. ASSUME NEW x \in Subject
        PROVE  Ordered(recWritten'[x]) /\ Known(recWritten'[x], recCount', recProd')
    BY <1>1, <1>3, <1>5 DEF RecTypes, WrittenInv
  <2>2. \A x \in Subject, s \in Shard : Precedes(recWritten'[x], recShards'[s], x)
    BY <1>1, <1>3 DEF WrittenInv
  <2> QED
    BY <2>1, <2>2 DEF WrittenInv, Ordered, Known, Precedes
<1>10. Accounted'
  <2>1. ASSUME NEW x \in Entry, Somewhere(x) PROVE Somewhere(x)'
    <3>1. x.by \in Producer
      BY EntryFields
    <3>2. x \in recProd[x.by] => x \in recProd'[x.by] \/ x = e
      BY <1>4, <1>5, <3>1
    <3> QED
      BY <1>3, <1>6, <2>1, <3>2 DEF Somewhere
  <2> QED
    BY <1>1, <1>3, <2>1, StillAccounted
<1>11. EndInv'
  BY <1>1, <1>3 DEF EndInv
<1> QED
  BY <1>5, <1>7, <1>8, <1>9, <1>10, <1>11 DEF RecorderInv

\* A sent entry goes last in the shard of its model.
LEMMA RecordSendKeeps ==
  ASSUME RecorderInv, NEW p \in Producer, RecordSend(p)
  PROVE  RecorderInv'
<1>1. RecTypes /\ ProdInv /\ LaneInv /\ WrittenInv /\ Accounted /\ EndInv
  BY DEF RecorderInv
<1>2. PICK e \in Entry :
        /\ e \in recProd[p] /\ ~closing /\ Len(recShards[ShardFor(e)]) < Buffer
        /\ recShards' = [recShards EXCEPT ![ShardFor(e)] = Append(recShards[ShardFor(e)], e)]
        /\ Returns(p)
  <2>1. \A e \in recProd[p] : e \in Entry
    BY <1>1 DEF RecTypes
  <2> QED
    BY <2>1 DEF RecordSend
<1>3. UNCHANGED <<recMode, recShardOf, recCount, recTasks, recWritten, recGone, recCtx, recStart,
                  recCoord, recWorker>>
  BY DEF RecordSend
<1>4. recProd[p] = {e} /\ e.by = p /\ e.n = recCount[p]
  BY <1>1, <1>2 DEF ProdInv
<1>5. /\ recProd' \in [Producer -> SUBSET Entry]
      /\ recProd'[p] = {} /\ \A r \in Producer : r # p => recProd'[r] = recProd[r]
      /\ ProdInv'
      /\ \A q \in Seq(Entry) : Known(q, recCount, recProd) => Known(q, recCount', recProd')
  BY <1>1, <1>2, <1>3, ReturnKeeps
<1>6. PICK t \in Shard : t = ShardFor(e) /\ t = recShardOf[e.subject]
  BY <1>1, <1>4, EntryFields DEF RecTypes, ShardFor
<1>7. PICK q \in Seq(Entry) : q = recShards[t]
  BY <1>1 DEF RecTypes
<1>8. /\ Append(q, e) \in Seq(Entry)
      /\ \A i \in 1 .. Len(q) : Append(q, e)[i] = q[i]
      /\ Append(q, e)[Len(q) + 1] = e
      /\ Len(Append(q, e)) = Len(q) + 1 /\ Len(q) \in Nat
      /\ Range(q) \subseteq Range(Append(q, e)) /\ e \in Range(Append(q, e))
      /\ \A i \in 1 .. Len(Append(q, e)) : i \in 1 .. Len(q) \/ i = Len(q) + 1
  BY AppendAt
<1>9. PICK a \in Seq(Entry) : a = Append(q, e)
  BY <1>8
<1>10. /\ \A i \in 1 .. Len(q) : a[i] = q[i]
      /\ a[Len(q) + 1] = e
      /\ Len(a) = Len(q) + 1 /\ Len(q) \in Nat
      /\ Range(q) \subseteq Range(a) /\ e \in Range(a)
      /\ \A i \in 1 .. Len(a) : i \in 1 .. Len(q) \/ i = Len(q) + 1
  BY <1>8, <1>9
<1>11. recShards' = [recShards EXCEPT ![t] = a] /\ Len(q) < Buffer
  BY <1>2, <1>6, <1>7, <1>9
<1>12. /\ recShards' \in [Shard -> Seq(Entry)] /\ recShards'[t] = a
       /\ \A s \in Shard : s # t => recShards'[s] = recShards[s]
  BY <1>1, <1>11 DEF RecTypes
<1>13. RecTypes'
  <2>1. Len(a) <= Buffer
    BY <1>10, <1>11, RecorderAssumption, SMT
  <2>2. \A s \in Shard : Len(recShards'[s]) <= Buffer
    BY <1>1, <1>12, <2>1 DEF RecTypes
  <2> QED
    BY <1>1, <1>3, <1>5, <1>12, <2>2 DEF RecTypes, Entry
<1>14. ASSUME NEW w \in Seq(Entry), Known(w, recCount, recProd), NEW i \in 1 .. Len(w), w[i].by = e.by
       PROVE  w[i].n < e.n
  BY <1>4, <1>14 DEF Known
<1>15. Ordered(q) /\ Known(q, recCount, recProd) /\ OfShard(q, t)
  BY <1>1, <1>7 DEF LaneInv
<1>16. Ordered(a)
  BY <1>4, <1>9, <1>14, <1>15, AppendOrdered
<1>17. Known(a, recCount', recProd')
  <2>1. Known(q, recCount', recProd')
    BY <1>5, <1>15
  <2>2. e.n <= recCount'[e.by] /\ recProd'[e.by] = {}
    <3>1. e.n \in Nat
      BY <1>4, EntryFields
    <3>2. e.n <= e.n
      BY <3>1, SMT
    <3> QED
      BY <1>3, <1>4, <1>5, <3>2
  <2>3. ASSUME NEW i \in 1 .. Len(a)
        PROVE  /\ a[i].n <= recCount'[a[i].by]
               /\ recProd'[a[i].by] # {} => a[i].n < recCount'[a[i].by]
    <3>1. CASE i \in 1 .. Len(q)
      BY <1>10, <2>1, <3>1 DEF Known
    <3>2. CASE i = Len(q) + 1
      BY <1>10, <2>2, <3>2
    <3> QED
      BY <1>10, <3>1, <3>2
  <2> QED
    BY <2>3 DEF Known
<1>18. OfShard(a, t)
  BY <1>6, <1>10, <1>15 DEF OfShard
<1>19. LaneInv'
  <2>1. ASSUME NEW s \in Shard
        PROVE  Ordered(recShards'[s]) /\ Known(recShards'[s], recCount', recProd') /\ OfShard(recShards'[s], s)
    <3>1. CASE s = t
      BY <1>12, <1>16, <1>17, <1>18, <3>1
    <3>2. CASE s # t
      <4>1. recShards'[s] = recShards[s] /\ recShards[s] \in Seq(Entry)
        BY <1>1, <1>12, <3>2 DEF RecTypes
      <4> QED
        BY <1>1, <1>5, <4>1 DEF LaneInv
    <3> QED
      BY <3>1, <3>2
  <2> QED
    BY <1>3, <2>1 DEF LaneInv, Ordered, Known, OfShard
<1>20. WrittenInv'
  <2> SUFFICES ASSUME Async PROVE WrittenInv'
    BY <1>3 DEF WrittenInv, Async
  <2>1. ASSUME NEW x \in Subject
        PROVE  Ordered(recWritten'[x]) /\ Known(recWritten'[x], recCount', recProd')
    BY <1>1, <1>3, <1>5 DEF RecTypes, WrittenInv
  <2>2. ASSUME NEW x \in Subject, NEW s \in Shard PROVE Precedes(recWritten'[x], recShards'[s], x)
    <3>1. /\ recWritten'[x] = recWritten[x] /\ recWritten[x] \in Seq(Entry)
          /\ Precedes(recWritten[x], recShards[s], x) /\ Known(recWritten[x], recCount, recProd)
      BY <1>1, <1>3 DEF RecTypes, WrittenInv
    <3>2. CASE s # t
      BY <1>12, <3>1, <3>2
    <3>3. CASE s = t
      <4>1. ASSUME NEW i \in 1 .. Len(recWritten[x]), NEW j \in 1 .. Len(a),
                   a[j].subject = x, recWritten[x][i].by = a[j].by
            PROVE  recWritten[x][i].n < a[j].n
        <5>1. CASE j \in 1 .. Len(q)
          <6>1. a[j] = q[j] /\ Precedes(recWritten[x], q, x)
            BY <1>7, <1>10, <3>1, <3>3, <5>1
          <6> QED
            BY <4>1, <5>1, <6>1 DEF Precedes
        <5>2. CASE j = Len(q) + 1
          BY <1>10, <1>14, <3>1, <4>1, <5>2
        <5> QED
          BY <1>10, <5>1, <5>2
      <4>2. Precedes(recWritten[x], a, x)
        BY <4>1 DEF Precedes
      <4> QED
        BY <1>12, <3>1, <3>3, <4>2
    <3> QED
      BY <3>2, <3>3
  <2> QED
    BY <2>1, <2>2 DEF WrittenInv, Ordered, Known, Precedes
<1>21. Accounted'
  <2>1. ASSUME NEW x \in Entry, Somewhere(x) PROVE Somewhere(x)'
    <3>1. x.by \in Producer
      BY EntryFields
    <3>2. x \in recProd[x.by] => x \in recProd'[x.by] \/ x = e
      BY <1>4, <1>5, <3>1
    <3>3. \A s \in Shard : Range(recShards[s]) \subseteq Range(recShards'[s])
      BY <1>7, <1>10, <1>12
    <3>4. e \in Range(recShards'[t])
      BY <1>10, <1>12
    <3> QED
      BY <1>3, <2>1, <3>2, <3>3, <3>4 DEF Somewhere
  <2> QED
    BY <1>1, <1>3, <2>1, StillAccounted
<1>22. EndInv'
  <2>1. recCoord # "ready"
    BY <1>2 DEF closing
  <2>2. \A s \in Shard : recWorker'[s] # "exited"
    BY <1>1, <1>3, <2>1 DEF EndInv
  <2>3. recStart # "returned"
    BY <1>1, <1>3, <1>6, <2>2 DEF EndInv
  <2> QED
    BY <1>3, <2>2, <2>3 DEF EndInv
<1> QED
  BY <1>5, <1>13, <1>19, <1>20, <1>21, <1>22 DEF RecorderInv

\* A worker takes the oldest entry of its shard to the log of its model.
LEMMA WorkerWritesKeeps ==
  ASSUME RecorderInv, NEW t \in Shard, WorkerWrites(t)
  PROVE  RecorderInv'
<1>1. RecTypes /\ ProdInv /\ LaneInv /\ WrittenInv /\ Accounted /\ EndInv
  BY DEF RecorderInv
<1>2. UNCHANGED <<recMode, recShardOf, recProd, recCount, recTasks, recCtx, recStart, recCoord, recWorker>>
      /\ recStart = "running" /\ recWorker[t] # "exited"
  BY DEF WorkerWrites
<1>3. PICK q \in Seq(Entry) : q = recShards[t] /\ q # <<>>
  BY <1>1 DEF RecTypes, WorkerWrites
<1>4. /\ Tail(q) \in Seq(Entry) /\ Len(q) \in Nat
      /\ Len(Tail(q)) = Len(q) - 1
      /\ \A i \in 1 .. Len(Tail(q)) : i + 1 \in 1 .. Len(q) /\ Tail(q)[i] = q[i + 1]
      /\ Head(q) = q[1] /\ 1 \in 1 .. Len(q) /\ Head(q) \in Entry
      /\ Range(q) \subseteq {Head(q)} \cup Range(Tail(q))
  BY <1>3, TailAt
<1>5. Ordered(q) /\ Known(q, recCount, recProd) /\ OfShard(q, t)
  BY <1>1, <1>3 DEF LaneInv
<1>6. /\ Ordered(Tail(q))
      /\ \A j \in 1 .. Len(Tail(q)) : Head(q).by = Tail(q)[j].by => Head(q).n < Tail(q)[j].n
  BY <1>3, <1>5, TailOrdered
<1>7. PICK r \in Seq(Entry) : r = Tail(q)
  BY <1>4
<1>8. PICK h \in Entry : h = Head(q) /\ h = q[1]
  BY <1>4
<1>9. /\ \A i \in 1 .. Len(r) : i + 1 \in 1 .. Len(q) /\ r[i] = q[i + 1]
      /\ Len(r) = Len(q) - 1 /\ Len(q) \in Nat /\ 1 \in 1 .. Len(q)
      /\ Range(q) \subseteq {h} \cup Range(r)
      /\ Ordered(r)
      /\ \A j \in 1 .. Len(r) : h.by = r[j].by => h.n < r[j].n
  BY <1>4, <1>6, <1>7, <1>8
<1>10. recShards' = [recShards EXCEPT ![t] = r] /\ CoreRecord(h)
  BY <1>3, <1>7, <1>8 DEF WorkerWrites
<1>11. /\ recShards' \in [Shard -> Seq(Entry)] /\ recShards'[t] = r
       /\ \A s \in Shard : s # t => recShards'[s] = recShards[s]
  BY <1>1, <1>10 DEF RecTypes
<1>12. Known(r, recCount, recProd) /\ OfShard(r, t)
  BY <1>5, <1>9 DEF Known, OfShard
<1>13. LaneInv'
  <2>1. ASSUME NEW s \in Shard
        PROVE  Ordered(recShards'[s]) /\ Known(recShards'[s], recCount', recProd') /\ OfShard(recShards'[s], s)
    <3>1. CASE s = t
      BY <1>2, <1>9, <1>11, <1>12, <3>1
    <3>2. CASE s # t
      BY <1>1, <1>2, <1>11, <3>2 DEF LaneInv
    <3> QED
      BY <3>1, <3>2
  <2> QED
    BY <1>2, <2>1 DEF LaneInv, Ordered, Known, OfShard
<1>14. h.subject \in Subject /\ recShardOf[h.subject] = t
  BY <1>5, <1>8, <1>9, EntryFields DEF OfShard
<1>15. /\ h.n <= recCount[h.by] /\ (recProd[h.by] # {} => h.n < recCount[h.by])
  BY <1>5, <1>8, <1>9 DEF Known
<1>16. \A x \in Subject : x # h.subject => recWritten'[x] = recWritten[x]
  BY <1>1, <1>10, WriteAppends DEF CoreRecord
<1>17. /\ recWritten' \in [Subject -> Seq(Entry)] /\ recGone' \subseteq Entry /\ recGone \subseteq recGone'
       /\ \A x \in Subject : Range(recWritten[x]) \subseteq Range(recWritten'[x])
       /\ h \in recGone' \/ h \in Range(recWritten'[h.subject])
       /\ \/ recWritten'[h.subject] = recWritten[h.subject]
          \/ recWritten'[h.subject] = Append(recWritten[h.subject], h)
  <2>1. recWritten \in [Subject -> Seq(Entry)] /\ recGone \subseteq Entry
    BY <1>1 DEF RecTypes
  <2>2. CASE Write(h) /\ UNCHANGED recGone
    BY <1>1, <2>1, <2>2, WriteAppends
  <2>3. CASE Drop(h) /\ UNCHANGED recWritten
    BY <2>1, <2>3 DEF Drop
  <2> QED
    BY <1>10, <2>2, <2>3 DEF CoreRecord
<1>18. RecTypes'
  <2>1. Len(r) <= Buffer
    <3>1. Len(q) <= Buffer
      BY <1>1, <1>3 DEF RecTypes
    <3> QED
      BY <1>9, <3>1, RecorderAssumption, SMT
  <2>2. \A s \in Shard : Len(recShards'[s]) <= Buffer
    BY <1>1, <1>11, <2>1 DEF RecTypes
  <2> QED
    BY <1>1, <1>2, <1>11, <1>17, <2>2 DEF RecTypes, Entry
<1>19. ProdInv'
  BY <1>1, <1>2 DEF ProdInv
<1>20. WrittenInv'
  <2> SUFFICES ASSUME Async PROVE WrittenInv'
    BY <1>2 DEF WrittenInv, Async
  <2>1. ASSUME NEW x \in Subject
        PROVE  /\ recWritten[x] \in Seq(Entry) /\ Ordered(recWritten[x])
               /\ Known(recWritten[x], recCount, recProd)
               /\ \A s \in Shard : Precedes(recWritten[x], recShards[s], x)
    BY <1>1 DEF RecTypes, WrittenInv
  <2>2. ASSUME NEW x \in Subject, NEW s \in Shard PROVE Precedes(recWritten[x], recShards'[s], x)
    <3>1. CASE s # t
      BY <1>11, <2>1, <3>1
    <3>2. CASE s = t
      <4>1. Precedes(recWritten[x], q, x)
        BY <1>3, <2>1, <3>2
      <4>2. Precedes(recWritten[x], r, x)
        BY <1>9, <4>1 DEF Precedes
      <4> QED
        BY <1>11, <3>2, <4>2
    <3> QED
      BY <3>1, <3>2
  <2>3. ASSUME NEW x \in Subject, recWritten'[x] = recWritten[x]
        PROVE  /\ Ordered(recWritten'[x]) /\ Known(recWritten'[x], recCount', recProd')
               /\ \A s \in Shard : Precedes(recWritten'[x], recShards'[s], x)
    BY <1>2, <2>1, <2>2, <2>3
  <2>4. ASSUME recWritten'[h.subject] = Append(recWritten[h.subject], h)
        PROVE  /\ Ordered(recWritten'[h.subject]) /\ Known(recWritten'[h.subject], recCount', recProd')
               /\ \A s \in Shard : Precedes(recWritten'[h.subject], recShards'[s], h.subject)
    <3>1. PICK w \in Seq(Entry) : w = recWritten[h.subject]
      BY <1>14, <2>1
    <3>2. /\ Append(w, h) \in Seq(Entry)
          /\ \A i \in 1 .. Len(w) : Append(w, h)[i] = w[i]
          /\ Append(w, h)[Len(w) + 1] = h
          /\ \A i \in 1 .. Len(Append(w, h)) : i \in 1 .. Len(w) \/ i = Len(w) + 1
      BY AppendAt
    <3>3. PICK a \in Seq(Entry) : a = Append(w, h)
      BY <3>2
    <3>4. /\ \A i \in 1 .. Len(w) : a[i] = w[i]
          /\ a[Len(w) + 1] = h
          /\ \A i \in 1 .. Len(a) : i \in 1 .. Len(w) \/ i = Len(w) + 1
      BY <3>2, <3>3
    <3>5. /\ Ordered(w) /\ Known(w, recCount, recProd) /\ Precedes(w, q, h.subject)
          /\ \A s \in Shard : Precedes(w, recShards'[s], h.subject)
      BY <1>3, <1>14, <2>1, <2>2, <3>1
    <3>6. \A i \in 1 .. Len(w) : w[i].by = h.by => w[i].n < h.n
      BY <1>8, <1>9, <3>5 DEF Precedes
    <3>7. Ordered(a)
      BY <3>3, <3>5, <3>6, AppendOrdered
    <3>8. Known(a, recCount, recProd)
      <4>1. ASSUME NEW i \in 1 .. Len(a)
            PROVE  /\ a[i].n <= recCount[a[i].by]
                   /\ recProd[a[i].by] # {} => a[i].n < recCount[a[i].by]
        <5>1. CASE i \in 1 .. Len(w)
          BY <3>4, <3>5, <5>1 DEF Known
        <5>2. CASE i = Len(w) + 1
          BY <1>15, <3>4, <5>2
        <5> QED
          BY <3>4, <5>1, <5>2
      <4> QED
        BY <4>1 DEF Known
    <3>9. ASSUME NEW s \in Shard PROVE Precedes(a, recShards'[s], h.subject)
      <4> DEFINE z == recShards'[s]
      <4>1. Precedes(w, z, h.subject)
        BY <3>5
      <4>2. \A j \in 1 .. Len(z) : z[j].subject = h.subject /\ h.by = z[j].by => h.n < z[j].n
        <5>1. CASE s = t
          BY <1>9, <1>11, <5>1
        <5>2. CASE s # t
          <6>1. OfShard(z, s)
            BY <1>1, <1>11, <5>2 DEF LaneInv
          <6> QED
            BY <1>14, <5>2, <6>1 DEF OfShard
        <5> QED
          BY <5>1, <5>2
      <4> HIDE DEF z
      <4>3. ASSUME NEW i \in 1 .. Len(a), NEW j \in 1 .. Len(z), z[j].subject = h.subject, a[i].by = z[j].by
            PROVE  a[i].n < z[j].n
        <5>1. CASE i \in 1 .. Len(w)
          <6>1. a[i] = w[i]
            BY <3>4, <5>1
          <6> QED
            BY <4>1, <4>3, <5>1, <6>1 DEF Precedes
        <5>2. CASE i = Len(w) + 1
          BY <3>4, <4>2, <4>3, <5>2
        <5> QED
          BY <3>4, <5>1, <5>2
      <4>4. Precedes(a, z, h.subject)
        BY <4>3 DEF Precedes
      <4> QED
        BY <4>4 DEF z
    <3> QED
      BY <1>2, <2>4, <3>1, <3>3, <3>7, <3>8, <3>9
  <2>5. \A x \in Subject : /\ Ordered(recWritten'[x]) /\ Known(recWritten'[x], recCount', recProd')
                           /\ \A s \in Shard : Precedes(recWritten'[x], recShards'[s], x)
    BY <1>14, <1>16, <1>17, <2>3, <2>4
  <2> QED
    BY <2>5 DEF WrittenInv, Ordered, Known, Precedes
<1>21. Accounted'
  <2>1. ASSUME NEW x \in Entry, Somewhere(x) PROVE Somewhere(x)'
    <3>1. x.subject \in Subject
      BY EntryFields
    <3>2. h \in recGone' \/ h \in Range(recWritten'[h.subject])
      BY <1>17
    <3>3. ASSUME NEW s \in Shard, x \in Range(recShards[s]) PROVE x = h \/ x \in Range(recShards'[s])
      BY <1>3, <1>9, <1>11, <3>3
    <3> QED
      BY <1>2, <1>17, <2>1, <3>1, <3>2, <3>3 DEF Somewhere
  <2> QED
    BY <1>1, <1>2, <2>1, StillAccounted
<1>22. EndInv'
  BY <1>1, <1>2, <1>11 DEF EndInv
<1> QED
  BY <1>13, <1>18, <1>19, <1>20, <1>21, <1>22 DEF RecorderInv

\* A task of the audit queue is written, or reported when it ends as dead.
LEMMA QueueRecordKeeps ==
  ASSUME RecorderInv, NEW e \in Entry, QueueRecord(e)
  PROVE  RecorderInv'
<1>1. RecTypes /\ ProdInv /\ LaneInv /\ WrittenInv /\ Accounted /\ EndInv
  BY DEF RecorderInv
<1>2. UNCHANGED <<recMode, recShardOf, recProd, recCount, recShards, recCtx, recStart, recCoord, recWorker>>
      /\ e \in recTasks
  BY DEF QueueRecord
<1>3. recMode = "queue" /\ ~Async
  BY <1>1, <1>2 DEF ProdInv, Async
<1>4. /\ recWritten' \in [Subject -> Seq(Entry)]
      /\ \A x \in Subject : Range(recWritten[x]) \subseteq Range(recWritten'[x])
      /\ recGone \subseteq recGone' /\ recGone' \subseteq Entry
      /\ recTasks' \subseteq recTasks /\ recTasks \ {e} \subseteq recTasks'
      /\ e \in recTasks' \/ e \in recGone' \/ e \in Range(recWritten'[e.subject])
  <2>1. recWritten \in [Subject -> Seq(Entry)] /\ recGone \subseteq Entry
    BY <1>1 DEF RecTypes
  <2>2. CASE Write(e) /\ UNCHANGED recGone /\ recTasks' \in {recTasks, recTasks \ {e}}
    BY <1>1, <2>1, <2>2, WriteAppends
  <2>3. CASE Drop(e) /\ UNCHANGED recWritten /\ recTasks' = recTasks \ {e}
    BY <2>1, <2>3 DEF Drop
  <2> QED
    BY <2>2, <2>3 DEF QueueRecord
<1>5. RecTypes'
  BY <1>1, <1>2, <1>4 DEF RecTypes, Entry
<1>6. ProdInv'
  BY <1>1, <1>2, <1>3, <1>4 DEF ProdInv
<1>7. LaneInv'
  BY <1>1, <1>2 DEF LaneInv, Ordered, Known, OfShard
<1>8. WrittenInv'
  BY <1>2, <1>3 DEF WrittenInv, Async
<1>9. Accounted'
  <2>1. ASSUME NEW x \in Entry, Somewhere(x) PROVE Somewhere(x)'
    <3>1. x.subject \in Subject
      BY EntryFields
    <3> QED
      BY <1>2, <1>4, <2>1, <3>1 DEF Somewhere
  <2> QED
    BY <1>1, <1>2, <2>1, StillAccounted
<1>10. EndInv'
  BY <1>1, <1>2 DEF EndInv
<1> QED
  BY <1>5, <1>6, <1>7, <1>8, <1>9, <1>10 DEF RecorderInv

\* Every step keeps what is known of the entries.
LEMMA RecorderStep == RecorderInv /\ [RecorderNext]_recVars => RecorderInv'
<1> SUFFICES ASSUME RecorderInv, [RecorderNext]_recVars PROVE RecorderInv'
  OBVIOUS
<1>1. CASE UNCHANGED recVars
  <2>1. UNCHANGED <<recMode, recShardOf, recProd, recCount, recShards, recTasks, recWritten, recGone,
                    recStart, recCoord, recWorker>>
    BY <1>1 DEF recVars
  <2>2. recStart' \in Starts /\ recCoord' \in Coords /\ recWorker' \in [Shard -> Workers] /\ EndInv'
    BY <2>1 DEF RecorderInv, RecTypes, EndInv
  <2> QED
    BY <2>1, <2>2, EntriesKept
<1> QED
  BY <1>1, PublishKeeps, RecordSendKeeps, RecordDropKeeps, StartKeeps, WorkerWritesKeeps, QueueRecordKeeps
     DEF RecorderNext

\* For any producers, models, shards and buffer: no recorded audit entry is lost
\* silently, none is left in a buffer once Start has returned, and the
\* asynchronous recorder writes the entries of a model in the order each
\* producer recorded them.
THEOREM RecorderSafe == RecorderSpec => []RecorderSafety
<1>1. RecorderInv => RecorderSafety
  <2> SUFFICES ASSUME RecorderInv PROVE RecorderSafety
    OBVIOUS
  <2>1. RecorderTypeOK
    BY DEF RecorderInv, RecTypes, RecorderTypeOK, Coords, Workers
  <2>2. ASSUME NEW p \in Producer, NEW n \in 1 .. recCount[p]
        PROVE  \E e \in Entry :
                 /\ e.by = p /\ e.n = n
                 /\ \/ e \in recProd[p] \/ e \in recTasks \/ e \in recGone
                    \/ e \in Range(recWritten[e.subject])
                    \/ e \in UNION {Range(recShards[s]) : s \in Shard}
    <3>1. PICK e \in Entry : e.by = p /\ e.n = n /\ Somewhere(e)
      BY DEF RecorderInv, Accounted
    <3> QED
      BY <3>1 DEF Somewhere
  <2>3. recStart = "returned" => \A s \in Shard : recShards[s] = <<>>
    BY DEF RecorderInv, EndInv
  <2>4. NoneLost
    BY <2>2, <2>3 DEF NoneLost
  <2>5. ModelOrder
    BY DEF RecorderInv, WrittenInv, Ordered, ModelOrder
  <2> QED
    BY <2>1, <2>4, <2>5 DEF RecorderSafety
<1> QED
  BY <1>1, RecorderInitially, RecorderStep, PTL DEF RecorderSpec

-----------------------------------------------------------------------------
(* The HTTP client                                                         *)

CallAts == {"idle", "send", "wire", "answer", "wait", "done"}
CallResults == {"none", "ok", "status", "error", "timeout"}
Answers == [status : Statuses \cup {0}, after : RetryAfters]
AttemptRange == 0 .. MaxAttempts
LeftRange == 0 .. Timeout
WaitRange == 0 .. MaxDelay
CallRecords ==
  [at : CallAts, body : Bodies, attempt : AttemptRange, left : LeftRange,
   wait : WaitRange, since : Nat, resp : Answers, result : CallResults]
Attempts == [key : Call \X {1}, body : {"none", "whole"}, resend : Int, waited : Nat]
CountResults == {"_OTHER", "status", "timeout"}

ClientTypes ==
  /\ hcCall \in [Call -> CallRecords]
  /\ hcSent \in [Call -> Seq(Attempts)]
  /\ hcApplied \in Seq(Call \X {1})
  /\ hcToken \in 0 .. TokenLife
  /\ hcCounted \in [Call -> Seq(CountResults)]

\* The attempts sent and counted at each place of a call.
AtPlace(c) ==
  LET nsent == Len(hcSent[c])
      counted == Len(hcCounted[c])
      n == hcCall[c].attempt
  IN /\ hcCall[c].at = "idle" => n = 0 /\ nsent = 0 /\ counted = 0
     /\ hcCall[c].at = "send" => n >= 1 /\ nsent = n - 1 /\ counted = n - 1
     /\ hcCall[c].at \in {"wire", "answer"} => n >= 1 /\ nsent = n /\ counted = n - 1
     /\ hcCall[c].at = "wait" => n >= 1 /\ n < MaxAttempts /\ nsent = n /\ counted = n
     /\ hcCall[c].at = "done" => nsent <= MaxAttempts /\ (counted = n \/ n = 0)

\* What was sent is the whole request under the key of the call.
SentWhole(c) ==
  \A i \in DOMAIN hcSent[c] :
    /\ hcSent[c][i].key = <<c, 1>>
    /\ hcSent[c][i].body = BodyOf(hcCall[c].body, i)
    /\ hcSent[c][i].resend = i - 1

\* A success, answered or returned, was applied.
SuccessApplied(c) ==
  (hcCall[c].at = "answer" /\ hcCall[c].resp.status = 200) \/ hcCall[c].result = "ok"
    => IsApplied(<<c, 1>>)

\* What was waited and what is left of the wait are the wait asked for.
WaitInv(c) ==
  /\ hcCall[c].at = "wait" =>
       \A d \in retryAfter(hcCall[c].resp.after) : hcCall[c].since + hcCall[c].wait >= ClampedTo(d)
  /\ hcCall[c].at = "send" /\ Len(hcSent[c]) > 0 =>
       \A d \in retryAfter(hcCall[c].resp.after) : hcCall[c].since >= ClampedTo(d)

CallInv(c) == AtPlace(c) /\ SentWhole(c) /\ SuccessApplied(c) /\ WaitInv(c)

\* No key is applied twice.
AppliedDistinct == \A i, j \in DOMAIN hcApplied : hcApplied[i] = hcApplied[j] => i = j

ClientInv == ClientTypes /\ AppliedDistinct /\ \A c \in Call : CallInv(c)

\* Nothing was sent in the beginning.
LEMMA ClientInitially == ClientInit => ClientInv
<1> SUFFICES ASSUME ClientInit PROVE ClientInv
  OBVIOUS
<1>1. PICK body \in [Call -> Bodies] :
        hcCall = [c \in Call |-> [at |-> "idle", body |-> body[c], attempt |-> 0,
                                 left |-> Timeout, wait |-> 0, since |-> 0,
                                 resp |-> NoAnswer, result |-> "none"]]
  BY DEF ClientInit
<1>2. /\ hcSent = [c \in Call |-> <<>>] /\ hcApplied = <<>> /\ hcToken = 0
      /\ hcCounted = [c \in Call |-> <<>>]
  BY DEF ClientInit
<1>3. 0 \in AttemptRange /\ Timeout \in LeftRange /\ 0 \in WaitRange /\ 0 \in 0 .. TokenLife
  BY ClientAssumption, SMT DEF AttemptRange, LeftRange, WaitRange
<1>4. NoAnswer \in Answers
  BY DEF NoAnswer, Answers, RetryAfters
<1>5. hcCall \in [Call -> CallRecords]
  <2>1. ASSUME NEW c \in Call
        PROVE  [at |-> "idle", body |-> body[c], attempt |-> 0, left |-> Timeout, wait |-> 0,
                since |-> 0, resp |-> NoAnswer, result |-> "none"] \in CallRecords
    BY <1>3, <1>4, SMT DEF CallRecords, CallAts, CallResults
  <2> QED
    BY <1>1, <2>1
<1>6. /\ hcSent \in [Call -> Seq(Attempts)] /\ hcApplied \in Seq(Call \X {1})
      /\ hcCounted \in [Call -> Seq(CountResults)]
  BY <1>2, SMT
<1>7. \A c \in Call : hcCall[c].at = "idle" /\ hcCall[c].attempt = 0 /\ hcCall[c].result = "none"
  BY <1>1
<1>8. \A c \in Call : Len(hcSent[c]) = 0 /\ Len(hcCounted[c]) = 0 /\ DOMAIN hcSent[c] = {}
  BY <1>2, SMT
<1>9. \A c \in Call : CallInv(c)
  BY <1>7, <1>8 DEF CallInv, AtPlace, SentWhole, SuccessApplied, WaitInv
<1>10. AppliedDistinct
  BY <1>2, SMT DEF AppliedDistinct
<1> QED
  BY <1>2, <1>3, <1>5, <1>6, <1>9, <1>10 DEF ClientInv, ClientTypes

\* A step of one call keeps the invariant when it keeps the types and what is
\* known of that call, and takes no effect of the service back.
LEMMA OneCallMoves ==
  ASSUME ClientInv, NEW c \in Call, ClientTypes', AppliedDistinct', CallInv(c)',
         \A k : IsApplied(k) => IsApplied(k)',
         \A d \in Call \ {c} : /\ hcCall'[d] = hcCall[d] /\ hcSent'[d] = hcSent[d]
                               /\ hcCounted'[d] = hcCounted[d]
  PROVE  ClientInv'
<1>1. ASSUME NEW d \in Call PROVE CallInv(d)'
  <2>1. CASE d = c
    BY <2>1
  <2>2. CASE d # c
    <3>1. /\ hcCall'[d] = hcCall[d] /\ hcSent'[d] = hcSent[d] /\ hcCounted'[d] = hcCounted[d]
          /\ CallInv(d)
      BY <2>2 DEF ClientInv
    <3>2. AtPlace(d)'
      BY <3>1 DEF CallInv, AtPlace
    <3>3. SentWhole(d)'
      BY <3>1 DEF CallInv, SentWhole, BodyOf
    <3>4. SuccessApplied(d)'
      BY <3>1 DEF CallInv, SuccessApplied
    <3>5. WaitInv(d)'
      BY <3>1 DEF CallInv, WaitInv, retryAfter, ClampedTo
    <3> QED
      BY <3>2, <3>3, <3>4, <3>5 DEF CallInv
  <2> QED
    BY <2>1, <2>2
<1> QED
  BY <1>1 DEF ClientInv

\* What Append does.
LEMMA Appended ==
  ASSUME NEW S, NEW s \in Seq(S), NEW e \in S
  PROVE  /\ Append(s, e) \in Seq(S) /\ Len(Append(s, e)) = Len(s) + 1 /\ Len(s) \in Nat
         /\ DOMAIN Append(s, e) = (DOMAIN s) \cup {Len(s) + 1} /\ DOMAIN s = 1..Len(s)
         /\ Append(s, e)[Len(s) + 1] = e
         /\ \A i \in DOMAIN s : Append(s, e)[i] = s[i]
  BY SMT

\* The service applies a key it has not seen, once.
LEMMA AppliesOnce ==
  ASSUME ClientInv, NEW key \in Call \X {1}, NEW applies \in BOOLEAN,
         hcApplied' = IF applies /\ ~IsApplied(key) THEN Append(hcApplied, key) ELSE hcApplied
  PROVE  /\ hcApplied' \in Seq(Call \X {1}) /\ AppliedDistinct'
         /\ \A k : IsApplied(k) => IsApplied(k)'
         /\ applies => IsApplied(key)'
<1>0. hcApplied \in Seq(Call \X {1}) /\ AppliedDistinct
  BY DEF ClientInv, ClientTypes
<1>1. CASE applies /\ ~IsApplied(key)
  <2>1. hcApplied' = Append(hcApplied, key)
    BY <1>1
  <2>2. /\ hcApplied' \in Seq(Call \X {1}) /\ Len(hcApplied) \in Nat
        /\ DOMAIN hcApplied' = (DOMAIN hcApplied) \cup {Len(hcApplied) + 1}
        /\ hcApplied'[Len(hcApplied) + 1] = key
        /\ \A i \in DOMAIN hcApplied : hcApplied'[i] = hcApplied[i]
    BY <1>0, <2>1, SMT
  <2>3. AppliedDistinct'
    <3>1. ASSUME NEW i \in DOMAIN hcApplied', NEW j \in DOMAIN hcApplied', hcApplied'[i] = hcApplied'[j]
          PROVE  i = j
      <4>1. CASE i \in DOMAIN hcApplied /\ j \in DOMAIN hcApplied
        BY <1>0, <2>2, <3>1, <4>1 DEF AppliedDistinct
      <4>2. ASSUME NEW k \in DOMAIN hcApplied PROVE hcApplied'[k] # key
        BY <1>1, <2>2, <4>2 DEF IsApplied
      <4>3. CASE i = Len(hcApplied) + 1
        BY <2>2, <3>1, <4>2, <4>3
      <4>4. CASE j = Len(hcApplied) + 1
        BY <2>2, <3>1, <4>2, <4>4
      <4> QED
        BY <2>2, <4>1, <4>3, <4>4
    <3> QED
      BY <3>1 DEF AppliedDistinct
  <2>4. \A k : IsApplied(k) => IsApplied(k)'
    BY <2>2 DEF IsApplied
  <2>5. IsApplied(key)'
    BY <2>2 DEF IsApplied
  <2> QED
    BY <2>2, <2>3, <2>4, <2>5
<1>2. CASE ~(applies /\ ~IsApplied(key))
  <2>1. hcApplied' = hcApplied
    BY <1>2
  <2> QED
    BY <1>0, <1>2, <2>1 DEF AppliedDistinct, IsApplied
<1> QED
  BY <1>1, <1>2

\* The service keeps its effects while nothing reaches it.
LEMMA AppliedKept ==
  ASSUME ClientInv, UNCHANGED hcApplied
  PROVE  /\ hcApplied' \in Seq(Call \X {1}) /\ AppliedDistinct'
         /\ \A k : IsApplied(k) => IsApplied(k)'
  BY DEF ClientInv, ClientTypes, AppliedDistinct, IsApplied

\* A call returns once its last attempt is counted, and as a success once it is
\* applied.
LEMMA CallReturns ==
  ASSUME ClientInv, NEW c \in Call, NEW result \in CallResults, EndCall(c, result),
         UNCHANGED hcSent, hcToken' \in 0 .. TokenLife,
         hcApplied' \in Seq(Call \X {1}), AppliedDistinct', \A k : IsApplied(k) => IsApplied(k)',
         result = "ok" => IsApplied(<<c, 1>>)', hcCall[c].at # "done",
         hcCounted' \in [Call -> Seq(CountResults)],
         Len(hcCounted'[c]) = hcCall[c].attempt,
         \A d \in Call \ {c} : hcCounted'[d] = hcCounted[d]
  PROVE  ClientInv'
<1>1. hcCall \in [Call -> CallRecords] /\ hcSent \in [Call -> Seq(Attempts)] /\ CallInv(c)
  BY DEF ClientInv, ClientTypes
<1>2. /\ hcCall' \in [Call -> CallRecords]
      /\ hcCall'[c].at = "done" /\ hcCall'[c].result = result
      /\ hcCall'[c].attempt = hcCall[c].attempt /\ hcCall'[c].body = hcCall[c].body
      /\ \A d \in Call \ {c} : hcCall'[d] = hcCall[d]
  <2>1. "done" \in CallAts
    BY DEF CallAts
  <2>2. hcCall' = [hcCall EXCEPT ![c].at = "done", ![c].result = result]
    BY DEF EndCall
  <2> QED
    <3>1. hcCall'[c] = [hcCall[c] EXCEPT !.at = "done", !.result = result]
      BY <1>1, <2>2
    <3>2. \A d \in Call \ {c} : hcCall'[d] = hcCall[d]
      BY <1>1, <2>2
    <3>3. hcCall[c] \in CallRecords
      BY <1>1
    <3>4. /\ hcCall'[c] \in CallRecords /\ hcCall'[c].at = "done" /\ hcCall'[c].result = result
          /\ hcCall'[c].attempt = hcCall[c].attempt /\ hcCall'[c].body = hcCall[c].body
      BY <2>1, <3>1, <3>3 DEF CallRecords
    <3>5. hcCall' \in [Call -> CallRecords]
      BY <1>1, <2>2, <3>2, <3>4
    <3> QED
      BY <3>2, <3>4, <3>5
<1>3. ClientTypes'
  BY <1>1, <1>2 DEF ClientTypes
<1>4. Len(hcSent[c]) <= MaxAttempts
  <2>1. hcCall[c].attempt \in 0 .. MaxAttempts /\ hcCall[c].at \in CallAts
    BY <1>1 DEF CallRecords, AttemptRange
  <2> QED
    BY <1>1, <2>1, ClientAssumption, SMT DEF CallInv, AtPlace, CallAts
<1>5. AtPlace(c)'
  BY <1>2, <1>4 DEF AtPlace
<1>6. SentWhole(c)'
  BY <1>1, <1>2 DEF CallInv, SentWhole, BodyOf
<1>7. SuccessApplied(c)' /\ WaitInv(c)'
  BY <1>2 DEF SuccessApplied, WaitInv
<1> QED
  BY <1>2, <1>3, <1>5, <1>6, <1>7, OneCallMoves DEF CallInv

\* A new record for one call.
LEMMA CallUpdated ==
  ASSUME ClientTypes, NEW c \in Call, NEW x \in CallRecords, hcCall' = [hcCall EXCEPT ![c] = x]
  PROVE  /\ hcCall' \in [Call -> CallRecords] /\ hcCall'[c] = x
         /\ \A d \in Call \ {c} : hcCall'[d] = hcCall[d]
  BY DEF ClientTypes

\* One more count for one call.
LEMMA CountUpdated ==
  ASSUME ClientTypes, NEW c \in Call, NEW r \in CountResults,
         hcCounted' = [hcCounted EXCEPT ![c] = Append(@, r)]
  PROVE  /\ hcCounted' \in [Call -> Seq(CountResults)] /\ Len(hcCounted'[c]) = Len(hcCounted[c]) + 1
         /\ \A d \in Call \ {c} : hcCounted'[d] = hcCounted[d]
<1>1. hcCounted \in [Call -> Seq(CountResults)]
  BY DEF ClientTypes
<1>2. hcCounted'[c] = Append(hcCounted[c], r) /\ \A d \in Call \ {c} : hcCounted'[d] = hcCounted[d]
  BY <1>1
<1>3. hcCounted[c] \in Seq(CountResults)
  BY <1>1
<1>4. Append(hcCounted[c], r) \in Seq(CountResults) /\ Len(Append(hcCounted[c], r)) = Len(hcCounted[c]) + 1
  BY <1>3, SMT
<1> QED
  BY <1>1, <1>2, <1>4

\* The call enters the transport or fails before it.
LEMMA BeginKeeps ==
  ASSUME ClientInv, NEW c \in Call, Begin(c)
  PROVE  ClientInv'
<1>1. ClientTypes /\ CallInv(c) /\ hcCall[c] \in CallRecords
  BY DEF ClientInv, ClientTypes
<1>2. hcCall[c].at = "idle" /\ UNCHANGED <<hcSent, hcApplied, hcToken, hcCounted>>
  BY DEF Begin
<1>3. hcCall[c].attempt = 0 /\ Len(hcSent[c]) = 0 /\ Len(hcCounted[c]) = 0
  BY <1>1, <1>2 DEF CallInv, AtPlace
<1>4. CASE EndCall(c, "error")
  <2>1. "error" \in CallResults /\ hcToken' \in 0 .. TokenLife /\ hcCounted' \in [Call -> Seq(CountResults)]
    BY <1>1, <1>2 DEF CallResults, ClientTypes
  <2> QED
    BY <1>2, <1>3, <1>4, <2>1, AppliedKept, CallReturns
<1>5. CASE hcCall' = [hcCall EXCEPT ![c].at = "send", ![c].attempt = 1]
  <2> DEFINE x == [hcCall[c] EXCEPT !.at = "send", !.attempt = 1]
  <2>1. hcCall' = [hcCall EXCEPT ![c] = x]
    BY <1>1, <1>5 DEF ClientTypes
  <2>2. "send" \in CallAts /\ 1 \in AttemptRange
    BY ClientAssumption, SMT DEF CallAts, AttemptRange
  <2>3. x \in CallRecords /\ x.at = "send" /\ x.attempt = 1 /\ x.body = hcCall[c].body /\ x.result = hcCall[c].result
    BY <1>1, <2>2 DEF CallRecords
  <2> HIDE DEF x
  <2>4. /\ hcCall' \in [Call -> CallRecords] /\ hcCall'[c] = x
        /\ \A d \in Call \ {c} : hcCall'[d] = hcCall[d]
    BY <1>1, <2>1, <2>3, CallUpdated
  <2>5. ClientTypes'
    BY <1>1, <1>2, <2>4 DEF ClientTypes
  <2>6. AtPlace(c)'
    BY <1>2, <1>3, <2>3, <2>4, SMT DEF AtPlace
  <2>7. SentWhole(c)' /\ SuccessApplied(c)'
    BY <1>1, <1>2, <2>3, <2>4 DEF CallInv, SentWhole, SuccessApplied, BodyOf, IsApplied
  <2>8. WaitInv(c)'
    BY <1>2, <1>3, <2>3, <2>4, SMT DEF WaitInv
  <2> QED
    BY <1>2, <2>4, <2>5, <2>6, <2>7, <2>8, AppliedKept, OneCallMoves DEF CallInv
<1> QED
  BY <1>4, <1>5 DEF Begin

\* A token is fetched, or the attempt fails without one.
LEMMA FetchTokenKeeps ==
  ASSUME ClientInv, NEW c \in Call, FetchToken(c)
  PROVE  ClientInv'
<1>1. ClientTypes /\ CallInv(c) /\ hcCall[c] \in CallRecords
  BY DEF ClientInv, ClientTypes
<1>2. hcCall[c].at = "send" /\ hcToken = 0 /\ UNCHANGED <<hcSent, hcApplied>>
  BY DEF FetchToken
<1>3. CASE hcToken' = TokenLife /\ UNCHANGED <<hcCall, hcCounted>>
  <2>1. TokenLife \in 0 .. TokenLife
    BY ClientAssumption, SMT
  <2>2. ClientTypes'
    BY <1>1, <1>2, <1>3, <2>1 DEF ClientTypes
  <2>3. CallInv(c)'
    BY <1>1, <1>2, <1>3 DEF CallInv, AtPlace, SentWhole, SuccessApplied, WaitInv, BodyOf, IsApplied,
                            retryAfter, ClampedTo
  <2> QED
    BY <1>2, <1>3, <2>2, <2>3, AppliedKept, OneCallMoves
<1>4. CASE EndCall(c, "error") /\ hcCounted' = [hcCounted EXCEPT ![c] = Append(@, "_OTHER")] /\ UNCHANGED hcToken
  <2>1. "error" \in CallResults /\ "_OTHER" \in CountResults /\ hcToken' \in 0 .. TokenLife
    BY <1>1, <1>4 DEF CallResults, CountResults, ClientTypes
  <2>2. /\ hcCounted' \in [Call -> Seq(CountResults)] /\ Len(hcCounted'[c]) = Len(hcCounted[c]) + 1
        /\ \A d \in Call \ {c} : hcCounted'[d] = hcCounted[d]
    BY <1>1, <1>4, <2>1, CountUpdated
  <2>3. hcCall[c].attempt \in Nat /\ Len(hcCounted[c]) = hcCall[c].attempt - 1
    <3>1. hcCall[c].attempt \in 0 .. MaxAttempts
      BY <1>1 DEF CallRecords, AttemptRange
    <3> QED
      BY <1>1, <1>2, <3>1, SMT DEF CallInv, AtPlace
  <2>4. Len(hcCounted'[c]) = hcCall[c].attempt
    BY <2>2, <2>3, SMT
  <2> QED
    BY <1>2, <1>4, <2>1, <2>2, <2>4, AppliedKept, CallReturns
<1> QED
  BY <1>3, <1>4 DEF FetchToken

\* An attempt carries the key, the body and the count of its call.
LEMMA SendKeeps ==
  ASSUME ClientInv, NEW c \in Call, SendAttempt(c)
  PROVE  ClientInv'
<1> DEFINE n == hcCall[c].attempt
           a == [key |-> KeyOf(c, n), body |-> BodyOf(hcCall[c].body, n),
                 resend |-> ResendCount(n), waited |-> hcCall[c].since]
           x == [hcCall[c] EXCEPT !.at = "wire"]
<1>1. ClientTypes /\ CallInv(c) /\ hcCall[c] \in CallRecords
  BY DEF ClientInv, ClientTypes
<1>2. /\ hcCall[c].at = "send" /\ hcCall' = [hcCall EXCEPT ![c].at = "wire"]
      /\ hcSent' = [hcSent EXCEPT ![c] = Append(@, a)]
      /\ UNCHANGED <<hcApplied, hcToken, hcCounted>>
  BY DEF SendAttempt
<1>3. /\ n \in Nat /\ n >= 1 /\ Len(hcSent[c]) = n - 1 /\ Len(hcCounted[c]) = n - 1
      /\ hcCall[c].since \in Nat
  <2>1. n \in 0 .. MaxAttempts /\ hcCall[c].since \in Nat
    BY <1>1 DEF CallRecords, AttemptRange
  <2> QED
    BY <1>1, <1>2, <2>1, SMT DEF CallInv, AtPlace
<1>4. a \in Attempts /\ a.key = <<c, 1>> /\ a.body = BodyOf(hcCall[c].body, n) /\ a.resend = n - 1
  <2>1. n - 1 \in Int /\ <<c, 1>> \in Call \X {1}
    BY <1>3, SMT
  <2> QED
    BY <1>3, <2>1 DEF Attempts, KeyOf, BodyOf, ResendCount
<1>5. hcCall' = [hcCall EXCEPT ![c] = x]
  BY <1>1, <1>2 DEF ClientTypes
<1>6. /\ x \in CallRecords /\ x.at = "wire" /\ x.attempt = n /\ x.body = hcCall[c].body
      /\ x.result = hcCall[c].result
  <2>1. "wire" \in CallAts
    BY DEF CallAts
  <2> QED
    BY <1>1, <2>1 DEF CallRecords
<1> HIDE DEF x, a
<1>7. /\ hcCall' \in [Call -> CallRecords] /\ hcCall'[c] = x
      /\ \A d \in Call \ {c} : hcCall'[d] = hcCall[d]
  BY <1>1, <1>5, <1>6, CallUpdated
<1>8. hcSent[c] \in Seq(Attempts)
  BY <1>1 DEF ClientTypes
<1>9. /\ hcSent' \in [Call -> Seq(Attempts)] /\ hcSent'[c] = Append(hcSent[c], a)
      /\ \A d \in Call \ {c} : hcSent'[d] = hcSent[d]
  <2>1. Append(hcSent[c], a) \in Seq(Attempts)
    BY <1>4, <1>8, SMT
  <2> QED
    BY <1>1, <1>2, <2>1 DEF ClientTypes
<1>10. /\ Len(hcSent'[c]) = n /\ DOMAIN hcSent'[c] = (DOMAIN hcSent[c]) \cup {n}
       /\ hcSent'[c][n] = a /\ \A i \in DOMAIN hcSent[c] : hcSent'[c][i] = hcSent[c][i]
  BY <1>3, <1>4, <1>8, <1>9, SMT
<1>11. ClientTypes'
  BY <1>1, <1>2, <1>7, <1>9 DEF ClientTypes
<1>12. AtPlace(c)'
  BY <1>2, <1>3, <1>6, <1>7, <1>10 DEF AtPlace
<1>13. SentWhole(c)'
  BY <1>1, <1>4, <1>6, <1>7, <1>10 DEF CallInv, SentWhole, BodyOf
<1>14. SuccessApplied(c)' /\ WaitInv(c)'
  BY <1>1, <1>2, <1>6, <1>7 DEF CallInv, SuccessApplied, WaitInv, IsApplied
<1> QED
  BY <1>2, <1>7, <1>9, <1>11, <1>12, <1>13, <1>14, AppliedKept, OneCallMoves DEF CallInv

\* At the service the last attempt has the key of its call.
LEMMA LastKey ==
  ASSUME ClientInv, NEW c \in Call, hcCall[c].at = "wire"
  PROVE  LastSent(c).key = <<c, 1>> /\ <<c, 1>> \in Call \X {1}
<1>1. /\ CallInv(c) /\ hcSent[c] \in Seq(Attempts) /\ hcCall[c].attempt \in 0 .. MaxAttempts
  BY DEF ClientInv, ClientTypes, CallRecords, AttemptRange
<1>2. Len(hcSent[c]) = hcCall[c].attempt /\ hcCall[c].attempt >= 1
  BY <1>1 DEF CallInv, AtPlace
<1>3. Len(hcSent[c]) \in DOMAIN hcSent[c]
  BY <1>1, <1>2, SMT
<1> QED
  BY <1>1, <1>3 DEF CallInv, SentWhole, LastSent

\* The service answers; a success is applied.
LEMMA ServeKeeps ==
  ASSUME ClientInv, NEW c \in Call, Serve(c)
  PROVE  ClientInv'
<1>1. ClientTypes /\ CallInv(c) /\ hcCall[c] \in CallRecords
  BY DEF ClientInv, ClientTypes
<1>2. PICK status \in Statuses, after \in RetryAfters, applies \in BOOLEAN :
        /\ status = 200 => applies
        /\ hcApplied' = IF applies /\ ~IsApplied(LastSent(c).key)
                        THEN Append(hcApplied, LastSent(c).key) ELSE hcApplied
        /\ hcCall' = [hcCall EXCEPT ![c].at = "answer",
                                    ![c].resp = [status |-> status, after |-> after]]
  BY DEF Serve
<1>3. hcCall[c].at = "wire" /\ UNCHANGED <<hcSent, hcToken, hcCounted>>
  BY DEF Serve
<1>4. LastSent(c).key = <<c, 1>> /\ <<c, 1>> \in Call \X {1}
  BY <1>3, LastKey
<1>5. /\ hcApplied' \in Seq(Call \X {1}) /\ AppliedDistinct'
      /\ \A k : IsApplied(k) => IsApplied(k)'
      /\ applies => IsApplied(<<c, 1>>)'
  BY <1>2, <1>4, AppliesOnce
<1> DEFINE resp == [status |-> status, after |-> after]
           x == [hcCall[c] EXCEPT !.at = "answer", !.resp = resp]
<1>6. hcCall' = [hcCall EXCEPT ![c] = x]
  BY <1>1, <1>2 DEF ClientTypes
<1>7. resp \in Answers /\ "answer" \in CallAts
  BY DEF Answers, CallAts
<1>8. /\ x \in CallRecords /\ x.at = "answer" /\ x.attempt = hcCall[c].attempt
      /\ x.body = hcCall[c].body /\ x.result = hcCall[c].result /\ x.resp.status = status
  BY <1>1, <1>7 DEF CallRecords
<1> HIDE DEF x
<1>9. /\ hcCall' \in [Call -> CallRecords] /\ hcCall'[c] = x
      /\ \A d \in Call \ {c} : hcCall'[d] = hcCall[d]
  BY <1>1, <1>6, <1>8, CallUpdated
<1>10. ClientTypes'
  BY <1>1, <1>3, <1>5, <1>9 DEF ClientTypes
<1>11. AtPlace(c)' /\ SentWhole(c)' /\ WaitInv(c)'
  BY <1>1, <1>3, <1>8, <1>9 DEF CallInv, AtPlace, SentWhole, WaitInv, BodyOf
<1>12. SuccessApplied(c)'
  BY <1>1, <1>2, <1>5, <1>8, <1>9 DEF CallInv, SuccessApplied
<1> QED
  BY <1>3, <1>5, <1>9, <1>10, <1>11, <1>12, OneCallMoves DEF CallInv

\* The attempt that ends a call is counted.
LEMMA LastCount ==
  ASSUME ClientInv, NEW c \in Call, hcCall[c].at \in {"send", "wire", "answer"}, NEW r \in CountResults,
         hcCounted' = [hcCounted EXCEPT ![c] = Append(@, r)]
  PROVE  /\ hcCounted' \in [Call -> Seq(CountResults)] /\ Len(hcCounted'[c]) = hcCall[c].attempt
         /\ \A d \in Call \ {c} : hcCounted'[d] = hcCounted[d]
<1>1. ClientTypes /\ CallInv(c) /\ hcCall[c].attempt \in 0 .. MaxAttempts
  BY DEF ClientInv, ClientTypes, CallRecords, AttemptRange
<1>2. /\ hcCounted' \in [Call -> Seq(CountResults)] /\ Len(hcCounted'[c]) = Len(hcCounted[c]) + 1
      /\ \A d \in Call \ {c} : hcCounted'[d] = hcCounted[d]
  BY <1>1, CountUpdated
<1>3. Len(hcCounted[c]) = hcCall[c].attempt - 1
  BY <1>1 DEF CallInv, AtPlace
<1>4. Len(hcCounted'[c]) = hcCall[c].attempt
  BY <1>1, <1>2, <1>3, SMT
<1> QED
  BY <1>2, <1>4

\* A broken connection ends the call, applied or not.
LEMMA BreaksKeeps ==
  ASSUME ClientInv, NEW c \in Call, Breaks(c)
  PROVE  ClientInv'
<1>1. PICK applies \in BOOLEAN :
        hcApplied' = IF applies /\ ~IsApplied(LastSent(c).key)
                     THEN Append(hcApplied, LastSent(c).key) ELSE hcApplied
  BY DEF Breaks
<1>2. /\ hcCall[c].at = "wire" /\ EndCall(c, "error") /\ UNCHANGED <<hcSent, hcToken>>
      /\ hcCounted' = [hcCounted EXCEPT ![c] = Append(@, "_OTHER")]
  BY DEF Breaks
<1>3. LastSent(c).key = <<c, 1>> /\ <<c, 1>> \in Call \X {1}
  BY <1>2, LastKey
<1>4. /\ hcApplied' \in Seq(Call \X {1}) /\ AppliedDistinct'
      /\ \A k : IsApplied(k) => IsApplied(k)'
  BY <1>1, <1>3, AppliesOnce
<1>5. "error" \in CallResults /\ "_OTHER" \in CountResults /\ hcToken' \in 0 .. TokenLife
  BY <1>2 DEF CallResults, CountResults, ClientInv, ClientTypes
<1>6. /\ hcCounted' \in [Call -> Seq(CountResults)] /\ Len(hcCounted'[c]) = hcCall[c].attempt
      /\ \A d \in Call \ {c} : hcCounted'[d] = hcCounted[d]
  BY <1>2, <1>5, LastCount
<1> QED
  BY <1>2, <1>4, <1>5, <1>6, CallReturns

\* The Timeout ends the call; only an attempt is counted.
LEMMA TimeOutKeeps ==
  ASSUME ClientInv, NEW c \in Call, TimeOut(c)
  PROVE  ClientInv'
<1>1. /\ hcCall[c].at \in {"send", "wire", "wait"} /\ EndCall(c, "timeout")
      /\ hcCounted' = IF hcCall[c].at = "wait" THEN hcCounted
                      ELSE [hcCounted EXCEPT ![c] = Append(@, "timeout")]
      /\ UNCHANGED <<hcSent, hcApplied, hcToken>>
  BY DEF TimeOut
<1>2. "timeout" \in CallResults /\ "timeout" \in CountResults /\ hcToken' \in 0 .. TokenLife
  BY <1>1 DEF CallResults, CountResults, ClientInv, ClientTypes
<1>3. /\ hcCounted' \in [Call -> Seq(CountResults)] /\ Len(hcCounted'[c]) = hcCall[c].attempt
      /\ \A d \in Call \ {c} : hcCounted'[d] = hcCounted[d]
  <2>1. CASE hcCall[c].at = "wait"
    BY <1>1, <2>1 DEF ClientInv, ClientTypes, CallInv, AtPlace
  <2>2. CASE hcCall[c].at # "wait"
    BY <1>1, <1>2, <2>2, LastCount
  <2> QED
    BY <2>1, <2>2
<1> QED
  BY <1>1, <1>2, <1>3, AppliedKept, CallReturns

\* A Retry-After asks for one wait or for none.
LEMMA OneRetryAfter ==
  ASSUME NEW v \in RetryAfters
  PROVE  retryAfter(v) = {} \/ \E d \in Nat : retryAfter(v) = {d}
  BY SMT DEF RetryAfters, retryAfter

\* The wait before the next attempt: what was asked for, under the ceiling.
LEMMA DelayHolds ==
  ASSUME NEW attempt \in Nat, NEW resp \in Answers
  PROVE  /\ delay(attempt, resp) \in WaitRange
         /\ \A d \in retryAfter(resp.after) : d \in Nat /\ delay(attempt, resp) = ClampedTo(d)
<1>1. resp.after \in RetryAfters
  BY DEF Answers
<1>2. CASE retryAfter(resp.after) = {}
  <2>1. delay(attempt, resp) = Backoff(attempt)
    BY <1>2 DEF delay
  <2>2. Backoff(attempt) \in WaitRange
    BY ClientAssumption, SMT DEF Backoff, WaitRange
  <2> QED
    BY <1>2, <2>1, <2>2
<1>3. CASE \E d \in Nat : retryAfter(resp.after) = {d}
  <2>1. PICK d \in Nat : retryAfter(resp.after) = {d}
    BY <1>3
  <2>2. delay(attempt, resp) = ClampedTo(d)
    <3>1. (CHOOSE e \in retryAfter(resp.after) : TRUE) = d
      BY <2>1
    <3> QED
      BY <2>1, <3>1 DEF delay
  <2>3. ClampedTo(d) \in WaitRange
    BY ClientAssumption, SMT DEF ClampedTo, WaitRange
  <2> QED
    BY <2>1, <2>2, <2>3
<1> QED
  BY <1>1, <1>2, <1>3, OneRetryAfter

\* The answer is retried after a wait or is the answer of the call.
LEMMA ReceiveKeeps ==
  ASSUME ClientInv, NEW c \in Call, Receive(c)
  PROVE  ClientInv'
<1> DEFINE resp == hcCall[c].resp
           n == hcCall[c].attempt
<1>1. ClientTypes /\ CallInv(c) /\ hcCall[c] \in CallRecords
  BY DEF ClientInv, ClientTypes
<1>2. /\ hcCall[c].at = "answer" /\ hcCounted' = [hcCounted EXCEPT ![c] = Append(@, "status")]
      /\ UNCHANGED <<hcSent, hcApplied, hcToken>>
  BY DEF Receive
<1>3. resp \in Answers /\ n \in 0 .. MaxAttempts /\ resp.status \in Statuses \cup {0}
  BY <1>1 DEF CallRecords, AttemptRange, Answers
<1>4. "status" \in CountResults /\ hcToken' \in 0 .. TokenLife
  BY <1>1, <1>2 DEF CountResults, ClientTypes
<1>5. /\ hcCounted' \in [Call -> Seq(CountResults)] /\ Len(hcCounted'[c]) = n
      /\ \A d \in Call \ {c} : hcCounted'[d] = hcCounted[d]
  BY <1>2, <1>4, LastCount
<1>6. CASE ~Retries(c)
  <2>1. EndCall(c, DoJSON(resp.status))
    BY <1>6 DEF Receive
  <2>2. DoJSON(resp.status) \in CallResults /\ (DoJSON(resp.status) = "ok" => resp.status = 200)
    BY <1>3, SMT DEF DoJSON, CallResults, Statuses
  <2>3. DoJSON(resp.status) = "ok" => IsApplied(<<c, 1>>)'
    BY <1>1, <1>2, <2>2 DEF CallInv, SuccessApplied, IsApplied
  <2> HIDE DEF resp
  <2> QED
    BY <1>2, <1>4, <1>5, <2>1, <2>2, <2>3, AppliedKept, CallReturns DEF n
<1>7. CASE Retries(c)
  <2> DEFINE x == [hcCall[c] EXCEPT !.at = "wait", !.since = 0, !.wait = delay(n, resp)]
  <2>1. hcCall' = [hcCall EXCEPT ![c].at = "wait", ![c].since = 0, ![c].wait = delay(n, resp)]
    BY <1>7 DEF Receive
  <2>2. hcCall' = [hcCall EXCEPT ![c] = x]
    BY <1>1, <2>1 DEF ClientTypes
  <2>3. /\ n \in Nat /\ n < MaxAttempts /\ n >= 1 /\ Len(hcSent[c]) = n
    <3>1. n >= 1 /\ Len(hcSent[c]) = n /\ n < MaxAttempts
      BY <1>1, <1>2, <1>7 DEF CallInv, AtPlace, Retries
    <3> QED
      BY <1>3, <3>1, SMT
  <2>4. /\ delay(n, resp) \in WaitRange
        /\ \A d \in retryAfter(resp.after) : d \in Nat /\ delay(n, resp) = ClampedTo(d)
    BY <1>3, <2>3, DelayHolds
  <2>5. "wait" \in CallAts /\ 0 \in Nat
    BY SMT DEF CallAts
  <2>6. /\ x \in CallRecords /\ x.at = "wait" /\ x.attempt = n /\ x.body = hcCall[c].body
        /\ x.result = hcCall[c].result /\ x.resp = resp /\ x.since = 0 /\ x.wait = delay(n, resp)
    BY <1>1, <2>4, <2>5 DEF CallRecords
  <2> HIDE DEF x
  <2>7. /\ hcCall' \in [Call -> CallRecords] /\ hcCall'[c] = x
        /\ \A d \in Call \ {c} : hcCall'[d] = hcCall[d]
    BY <1>1, <2>2, <2>6, CallUpdated
  <2>8. ClientTypes'
    BY <1>1, <1>2, <1>5, <2>7 DEF ClientTypes
  <2>9. AtPlace(c)'
    BY <1>2, <1>5, <2>3, <2>6, <2>7 DEF AtPlace
  <2>10. SentWhole(c)' /\ SuccessApplied(c)'
    BY <1>1, <1>2, <2>6, <2>7 DEF CallInv, SentWhole, SuccessApplied, BodyOf, IsApplied
  <2>11. WaitInv(c)'
    <3>1. ASSUME NEW d \in retryAfter(resp.after) PROVE 0 + delay(n, resp) >= ClampedTo(d)
      <4>1. delay(n, resp) = ClampedTo(d) /\ ClampedTo(d) \in 0 .. MaxDelay
        BY <2>4 DEF WaitRange
      <4> QED
        BY <4>1, ClientAssumption, SMT
    <3>2. hcCall'[c].at = "wait" /\ hcCall'[c].since = 0 /\ hcCall'[c].wait = delay(n, resp) /\ hcCall'[c].resp = resp
      BY <2>6, <2>7
    <3> QED
      BY <3>1, <3>2 DEF WaitInv, ClampedTo, retryAfter
  <2> QED
    BY <1>2, <1>5, <2>7, <2>8, <2>9, <2>10, <2>11, AppliedKept, OneCallMoves DEF CallInv
<1> QED
  BY <1>6, <1>7

\* The next attempt starts when the wait is over.
LEMMA WakeKeeps ==
  ASSUME ClientInv, NEW c \in Call, Wake(c)
  PROVE  ClientInv'
<1> DEFINE n == hcCall[c].attempt
           x == [hcCall[c] EXCEPT !.at = "send", !.attempt = n + 1]
<1>1. ClientTypes /\ CallInv(c) /\ hcCall[c] \in CallRecords
  BY DEF ClientInv, ClientTypes
<1>2. /\ hcCall[c].at = "wait" /\ hcCall[c].wait = 0
      /\ hcCall' = [hcCall EXCEPT ![c].at = "send", ![c].attempt = @ + 1]
      /\ UNCHANGED <<hcSent, hcApplied, hcToken, hcCounted>>
  BY DEF Wake
<1>3. /\ n \in 0 .. MaxAttempts /\ hcCall[c].since \in Nat /\ n >= 1 /\ n < MaxAttempts
      /\ Len(hcSent[c]) = n /\ Len(hcCounted[c]) = n
  BY <1>1, <1>2 DEF CallRecords, AttemptRange, CallInv, AtPlace
<1>4. hcCall' = [hcCall EXCEPT ![c] = x]
  BY <1>1, <1>2 DEF ClientTypes
<1>5. "send" \in CallAts /\ n + 1 \in AttemptRange
  BY <1>3, ClientAssumption, SMT DEF CallAts, AttemptRange
<1>6. /\ x \in CallRecords /\ x.at = "send" /\ x.attempt = n + 1 /\ x.body = hcCall[c].body
      /\ x.result = hcCall[c].result /\ x.resp = hcCall[c].resp /\ x.since = hcCall[c].since
  BY <1>1, <1>5 DEF CallRecords
<1> HIDE DEF x, n
<1>7. /\ hcCall' \in [Call -> CallRecords] /\ hcCall'[c] = x
      /\ \A d \in Call \ {c} : hcCall'[d] = hcCall[d]
  BY <1>1, <1>4, <1>6, CallUpdated
<1>8. ClientTypes'
  BY <1>1, <1>2, <1>7 DEF ClientTypes
<1>9. AtPlace(c)'
  <2>1. n + 1 >= 1 /\ n = (n + 1) - 1
    BY <1>3, ClientAssumption, SMT
  <2> QED
    BY <1>2, <1>3, <1>6, <1>7, <2>1 DEF AtPlace
<1>10. SentWhole(c)' /\ SuccessApplied(c)'
  BY <1>1, <1>2, <1>6, <1>7 DEF CallInv, SentWhole, SuccessApplied, BodyOf, IsApplied
<1>11. WaitInv(c)'
  <2>1. \A d \in retryAfter(hcCall[c].resp.after) : hcCall[c].since + 0 >= ClampedTo(d)
    BY <1>1, <1>2 DEF CallInv, WaitInv
  <2>2. hcCall[c].since + 0 = hcCall[c].since
    BY <1>3, SMT
  <2> QED
    BY <1>6, <1>7, <2>1, <2>2 DEF WaitInv, ClampedTo, retryAfter
<1> QED
  BY <1>2, <1>7, <1>8, <1>9, <1>10, <1>11, AppliedKept, OneCallMoves DEF CallInv

\* Time passes for the calls under way.
LEMMA ClientTickKeeps == ClientInv /\ ClientTick => ClientInv'
<1> SUFFICES ASSUME ClientInv, ClientTick PROVE ClientInv'
  OBVIOUS
<1>1. ClientTypes
  BY DEF ClientInv
<1>2. UNCHANGED <<hcSent, hcApplied, hcCounted>>
  BY DEF ClientTick
<1>3. hcToken' \in 0 .. TokenLife
  <2>1. hcToken' = Less(hcToken) /\ hcToken \in 0 .. TokenLife
    BY <1>1 DEF ClientTick, ClientTypes
  <2> QED
    BY <2>1, ClientAssumption, SMT DEF Less
<1>4. ASSUME NEW c \in Call
      PROVE  /\ hcCall'[c] \in CallRecords
             /\ hcCall'[c].at = hcCall[c].at /\ hcCall'[c].attempt = hcCall[c].attempt
             /\ hcCall'[c].body = hcCall[c].body /\ hcCall'[c].resp = hcCall[c].resp
             /\ hcCall'[c].result = hcCall[c].result
             /\ hcCall'[c].at = "send" => hcCall'[c].since = hcCall[c].since
             /\ hcCall'[c].at = "wait" => /\ hcCall'[c].since = hcCall[c].since + 1
                                          /\ hcCall'[c].wait = Less(hcCall[c].wait)
  <2>1. hcCall[c] \in CallRecords
    BY <1>1 DEF ClientTypes
  <2>2. CASE Active(c)
    <3> DEFINE s == IF hcCall[c].at = "wait" THEN hcCall[c].since + 1 ELSE hcCall[c].since
               x == [hcCall[c] EXCEPT !.left = hcCall[c].left - 1, !.wait = Less(hcCall[c].wait), !.since = s]
    <3>1. hcCall'[c] = x
      BY <2>2 DEF ClientTick
    <3>2. hcCall[c].left \in 0 .. Timeout /\ hcCall[c].wait \in 0 .. MaxDelay /\ hcCall[c].since \in Nat
          /\ hcCall[c].left > 0
      BY <2>1, <2>2 DEF CallRecords, LeftRange, WaitRange, ClientTick
    <3>3. hcCall[c].left - 1 \in LeftRange /\ Less(hcCall[c].wait) \in WaitRange /\ s \in Nat
      BY <3>2, ClientAssumption, SMT DEF LeftRange, WaitRange, Less
    <3>4. /\ x \in CallRecords /\ x.at = hcCall[c].at /\ x.attempt = hcCall[c].attempt
          /\ x.body = hcCall[c].body /\ x.resp = hcCall[c].resp /\ x.result = hcCall[c].result
          /\ x.since = s /\ x.wait = Less(hcCall[c].wait)
      <4> HIDE DEF s
      <4> QED
        BY <2>1, <3>3 DEF CallRecords
    <3> HIDE DEF x
    <3>5. /\ hcCall[c].at = "wait" => s = hcCall[c].since + 1
          /\ hcCall[c].at = "send" => s = hcCall[c].since
      OBVIOUS
    <3> HIDE DEF s
    <3> QED
      BY <3>1, <3>4, <3>5
  <2>3. CASE ~Active(c)
    <3>1. hcCall'[c] = hcCall[c]
      BY <2>3 DEF ClientTick
    <3> QED
      BY <2>1, <2>3, <3>1 DEF Active
  <2> QED
    BY <2>2, <2>3
<1>5. hcCall' \in [Call -> CallRecords]
  <2>1. hcCall' = [c \in Call |-> hcCall'[c]]
    BY DEF ClientTick
  <2> QED
    BY <1>4, <2>1
<1>6. ClientTypes'
  BY <1>1, <1>2, <1>3, <1>5 DEF ClientTypes
<1>7. ASSUME NEW c \in Call PROVE CallInv(c)'
  <2>1. CallInv(c) /\ hcCall[c] \in CallRecords
    BY DEF ClientInv, ClientTypes
  <2>2. AtPlace(c)' /\ SentWhole(c)' /\ SuccessApplied(c)'
    BY <1>2, <1>4, <2>1 DEF CallInv, AtPlace, SentWhole, SuccessApplied, BodyOf, IsApplied
  <2>3. CASE hcCall[c].at = "wait"
    <3>1. hcCall[c].since \in Nat /\ hcCall[c].wait \in 0 .. MaxDelay
      BY <2>1 DEF CallRecords, WaitRange
    <3>2. ASSUME NEW d \in retryAfter(hcCall[c].resp.after)
          PROVE  (hcCall[c].since + 1) + Less(hcCall[c].wait) >= ClampedTo(d)
      <4>1. hcCall[c].since + hcCall[c].wait >= ClampedTo(d)
        BY <2>1, <2>3 DEF CallInv, WaitInv
      <4>2. ClampedTo(d) \in Int
        <5>1. hcCall[c].resp.after \in RetryAfters
          BY <2>1 DEF CallRecords, Answers
        <5>2. d \in Nat
          BY <5>1, OneRetryAfter
        <5> QED
          BY <5>2, ClientAssumption, SMT DEF ClampedTo
      <4> QED
        BY <3>1, <4>1, <4>2, ClientAssumption, SMT DEF Less
    <3>3. hcCall'[c].at = "wait" /\ hcCall'[c].since = hcCall[c].since + 1
          /\ hcCall'[c].wait = Less(hcCall[c].wait) /\ hcCall'[c].resp = hcCall[c].resp
      BY <1>4, <2>3
    <3>4. WaitInv(c)'
      BY <3>2, <3>3 DEF WaitInv, ClampedTo, retryAfter
    <3> QED
      BY <2>2, <3>4 DEF CallInv
  <2>4. CASE hcCall[c].at # "wait"
    <3>1. WaitInv(c)'
      BY <1>2, <1>4, <2>1, <2>4 DEF CallInv, WaitInv, ClampedTo, retryAfter
    <3> QED
      BY <2>2, <3>1 DEF CallInv
  <2> QED
    BY <2>3, <2>4
<1> QED
  BY <1>2, <1>6, <1>7, AppliedKept DEF ClientInv

\* Every step keeps what is known of the calls.
LEMMA ClientStep == ClientInv /\ [ClientNext]_hcVars => ClientInv'
<1> SUFFICES ASSUME ClientInv, [ClientNext]_hcVars PROVE ClientInv'
  OBVIOUS
<1>1. CASE UNCHANGED hcVars
  <2>1. UNCHANGED <<hcCall, hcSent, hcApplied, hcToken, hcCounted>>
    BY <1>1 DEF hcVars
  <2>2. ClientTypes' /\ AppliedDistinct'
    BY <2>1 DEF ClientInv, ClientTypes, AppliedDistinct
  <2>3. ASSUME NEW c \in Call PROVE CallInv(c)'
    <3>1. CallInv(c)
      BY DEF ClientInv
    <3>2. AtPlace(c)'
      BY <2>1, <3>1 DEF CallInv, AtPlace
    <3>3. SentWhole(c)'
      BY <2>1, <3>1 DEF CallInv, SentWhole, BodyOf
    <3>4. SuccessApplied(c)'
      BY <2>1, <3>1 DEF CallInv, SuccessApplied, IsApplied
    <3>5. WaitInv(c)'
      BY <2>1, <3>1 DEF CallInv, WaitInv, ClampedTo, retryAfter
    <3> QED
      BY <3>2, <3>3, <3>4, <3>5 DEF CallInv
  <2> QED
    BY <2>2, <2>3 DEF ClientInv
<1> QED
  BY <1>1, BeginKeeps, FetchTokenKeeps, SendKeeps, ServeKeeps, BreaksKeeps, ReceiveKeeps, WakeKeeps,
     TimeOutKeeps, ClientTickKeeps DEF ClientNext

\* For any number of calls and any attempts, delays and timeouts: the service
\* applies a call at most once however often RetryTransport sends it, DoJSON
\* returns nil only for an applied one, every attempt carries the whole body and
\* its resend count, and the metrics count each attempt once.
THEOREM ClientSafe == ClientSpec => []ClientSafety
<1>1. ClientInv => ClientSafety
  <2> SUFFICES ASSUME ClientInv PROVE ClientSafety
    OBVIOUS
  <2>1. ASSUME NEW c \in Call
        PROVE  /\ hcCall[c] \in CallRecords /\ hcCall[c].attempt \in 0 .. MaxAttempts /\ CallInv(c)
               /\ hcCall[c].at \in CallAts /\ hcSent[c] \in Seq(Attempts)
    BY DEF ClientInv, ClientTypes, CallRecords, AttemptRange
  <2>2. ClientTypeOK
    <3>1. ASSUME NEW c \in Call PROVE Len(hcSent[c]) <= MaxAttempts
      BY <2>1, ClientAssumption, SMT DEF CallInv, AtPlace, CallAts
    <3> QED
      BY <3>1 DEF ClientTypeOK, ClientInv, ClientTypes, CallRecords, CallAts, CallResults,
                  AttemptRange, LeftRange, WaitRange
  <2>3. AppliedOnce
    <3> SUFFICES ASSUME NEW c \in Call
                 PROVE  LET effects == {i \in DOMAIN hcApplied : hcApplied[i][1] = c}
                        IN /\ \A i, j \in effects : i = j
                           /\ hcCall[c].result = "ok" => effects # {}
      BY DEF AppliedOnce
    <3> DEFINE effects == {i \in DOMAIN hcApplied : hcApplied[i][1] = c}
    <3>1. \A i \in DOMAIN hcApplied : hcApplied[i] \in Call \X {1}
      BY SMT DEF ClientInv, ClientTypes
    <3>2. \A k \in Call \X {1} : k[1] = c => k = <<c, 1>>
      BY SMT
    <3>3. \A i \in effects : i \in DOMAIN hcApplied /\ hcApplied[i] = <<c, 1>>
      BY <3>1, <3>2
    <3>4. \A i, j \in effects : i = j
      BY <3>3 DEF ClientInv, AppliedDistinct
    <3>5. ASSUME effects = {} PROVE hcCall[c].result # "ok"
      <4>1. <<c, 1>>[1] = c
        BY SMT
      <4>2. ~IsApplied(<<c, 1>>)
        BY <3>5, <4>1 DEF IsApplied
      <4> QED
        BY <2>1, <4>2 DEF CallInv, SuccessApplied
    <3> QED
      BY <3>4, <3>5
  <2>4. EveryAttemptIsWhole
    BY <2>1 DEF EveryAttemptIsWhole, CallInv, SentWhole, BodyOf
  <2>5. AttemptsCounted
    BY <2>1, SMT DEF AttemptsCounted, CallInv, AtPlace, CallAts
  <2> QED
    BY <2>2, <2>3, <2>4, <2>5 DEF ClientSafety
<1> QED
  BY <1>1, ClientInitially, ClientStep, PTL DEF ClientSpec

\* For any answers of the server: RetryTransport resends a request only after
\* the wait its Retry-After asked for, up to Backoff.Max.
THEOREM ClientWaits == ClientSpec => AskedWaitIsKept
<1>1. ClientInv /\ [ClientNext]_hcVars => [WaitsAsAsked]_hcVars
  <2> SUFFICES ASSUME ClientInv, ClientNext PROVE WaitsAsAsked
    OBVIOUS
  <2>1. ASSUME NEW c \in Call, hcSent'[c] # hcSent[c] PROVE hcCall[c].at = "send"
    <3>1. hcSent \in [Call -> Seq(Attempts)]
      BY DEF ClientInv, ClientTypes
    <3>2. PICK d \in Call : SendAttempt(d)
      BY <2>1 DEF ClientNext, Begin, FetchToken, Serve, Breaks, Receive, Wake, TimeOut, ClientTick
    <3>3. hcCall[d].at = "send" /\ \A e \in Call \ {d} : hcSent'[e] = hcSent[e]
      BY <3>1, <3>2 DEF SendAttempt
    <3> QED
      BY <2>1, <3>3
  <2>2. ASSUME NEW c \in Call, Len(hcSent'[c]) > Len(hcSent[c]), Len(hcSent[c]) > 0
        PROVE  \A d \in retryAfter(hcCall[c].resp.after) : hcCall[c].since >= ClampedTo(d)
    <3>1. hcSent'[c] # hcSent[c]
      <4>1. hcSent[c] \in Seq(Attempts)
        BY DEF ClientInv, ClientTypes
      <4>2. ~(Len(hcSent[c]) > Len(hcSent[c]))
        BY <4>1, SMT
      <4> QED
        BY <2>2, <4>2
    <3> QED
      BY <2>1, <2>2, <3>1 DEF ClientInv, CallInv, WaitInv
  <2> QED
    BY <2>2 DEF WaitsAsAsked
<1> QED
  BY <1>1, ClientInitially, ClientStep, PTL DEF ClientSpec, AskedWaitIsKept
=============================================================================
