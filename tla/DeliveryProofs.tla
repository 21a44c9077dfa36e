--------------------------- MODULE DeliveryProofs ---------------------------
(***************************************************************************)
(* Proofs about Delivery, for any number of events, readers, retries and   *)
(* faults.                                                                 *)
(***************************************************************************)
EXTENDS Delivery, TLAPS

\* Most leaves are first-order; the ones with arithmetic cite SMT.
USE Zenon

Handling(r) == go[r] \in {"dispatch", "wait", "commit"}

\* A verdict was reached for record n, or it was given up in a shutdown.
Done(n) == n \in settled \cup abandoned

\* What a commit relies on: all records up to the committed offset, all records
\* handed to the owner but the one it handles, and all records before the one a
\* reader handles are done, also for a reader that has lost the partition.
OffsetInv ==
  /\ \A n \in Nat : (1 <= n /\ n <= committed) => Done(n)
  /\ \A r \in Reader : owner = r =>
       \A n \in Nat : (1 <= n /\ n <= pos) => (Done(n) \/ n = at[r])
  /\ \A r \in Reader : Handling(r) =>
       /\ 1 <= at[r]
       /\ \A n \in Nat : (1 <= n /\ n < at[r]) => Done(n)
  /\ \A r \in Reader : ~Handling(r) => at[r] = 0
  /\ \A r \in Reader : go[r] = "commit" => Done(at[r])

\* How far Start has come with the readers.
StartInv ==
  /\ closed => \A r \in Reader : rd[r] # "open"
  /\ main \in {"waiting", "draining", "returned"} =>
       \A r \in Reader : rd[r] \in {"open", "closed"}
  /\ main \in {"draining", "returned"} => closed
  /\ main = "returned" => \A r \in Reader : go[r] \in {"none", "over"}
  /\ \A r \in Reader : rd[r] \in {"none", "made"} => go[r] = "none"

\* The steps of one reader that leave the partition and its process alone.
LocalStep(r) ==
  \/ FetchEnds(r) \/ Retry(r) \/ Abandon(r) \/ CommitFails(r)
  \/ \E v \in Verdict : Dispatch(r, v)

\* The steps of the process and of the coordinator.
ProcessStep ==
  \/ Launch \/ Started \/ SeeDone \/ Drained \/ Exit \/ Cancel \/ Stop \/ Crash
  \/ \E r \in Reader : Make(r) \/ Register(r) \/ Assign(r)

ProducerStep ==
  \/ \E e \in Event : Publish(e) \/ PublishUnsure(e) \/ PublishRefused(e)
  \/ PublishBad

\* Next, split by who moves: the producer, the process or one reader.
LEMMA NextCases ==
  ASSUME Next
  PROVE  \/ ProducerStep \/ ProcessStep
         \/ \E r \in Reader : LocalStep(r) \/ Fetch(r) \/ Commit(r)
  BY DEF Next, ProducerStep, ProcessStep, LocalStep, ReaderStep, MainStep

-----------------------------------------------------------------------------
(* Types.                                                                   *)

FaultType == faults \in 0..MaxFaults

\* A fault takes one from the budget of faults, which stays in its range.
LEMMA FaultTyped ==
  ASSUME FaultType, Fault \/ UNCHANGED faults
  PROVE  FaultType'
  BY DeliveryAssumption, SMT DEF Fault, FaultType

\* The variables of TypeOK that depend on the log, beside the log.
LogType ==
  /\ log \in Seq(Event \cup {Bad})
  /\ committed \in 0..Len(log) /\ pos \in 0..Len(log)
  /\ at \in [Reader -> 0..Len(log)]
  /\ settled \subseteq 1..Len(log) /\ abandoned \subseteq 1..Len(log)

\* Appending a record keeps every offset and every verdict within the log.
LEMMA LogGrows ==
  ASSUME LogType, NEW x \in Event \cup {Bad}, log' = Append(log, x),
         UNCHANGED <<committed, pos, at, settled, abandoned>>
  PROVE  LogType'
<1>1. log' \in Seq(Event \cup {Bad}) /\ Len(log') = Len(log) + 1 /\ Len(log) \in Nat
  BY SMT DEF LogType
<1>2. 0..Len(log) \subseteq 0..Len(log') /\ 1..Len(log) \subseteq 1..Len(log')
  BY <1>1, SMT
<1> QED
  BY <1>1, <1>2 DEF LogType

\* A publish, acknowledged or not, keeps the types.
LEMMA ProducerTyped ==
  ASSUME TypeOK, ProducerStep
  PROVE  TypeOK'
<1>1. UNCHANGED <<committed, owner, pos, main, canceled, closed, rd, go, at, attempt,
                  settled, abandoned>>
  BY DEF ProducerStep, Publish, PublishUnsure, PublishRefused, PublishBad,
         group, process, run, readers, history
<1>2. FaultType'
  <2>1. Fault \/ UNCHANGED faults
    BY DEF ProducerStep, Publish, PublishUnsure, PublishRefused, PublishBad
  <2> QED
    BY <2>1, FaultTyped DEF TypeOK, FaultType
<1>3. LogType'
  <2>1. UNCHANGED log \/ \E x \in Event \cup {Bad} : log' = Append(log, x)
    BY DEF ProducerStep, Publish, PublishUnsure, PublishRefused, PublishBad
  <2>2. LogType
    BY DEF TypeOK, LogType
  <2>3. CASE UNCHANGED log
    BY <1>1, <2>2, <2>3 DEF LogType
  <2>4. CASE \E x \in Event \cup {Bad} : log' = Append(log, x)
    BY <1>1, <2>2, <2>4, LogGrows
  <2> QED
    BY <2>1, <2>3, <2>4
<1>4. phase' \in [Event -> {"waiting", "gone", "dead"}]
  BY DEF TypeOK, ProducerStep, Publish, PublishUnsure, PublishRefused, PublishBad
<1> QED
  BY <1>1, <1>2, <1>3, <1>4 DEF TypeOK, LogType, FaultType

\* What a step of the process or of the coordinator leaves alone.
LEMMA ProcessFrame ==
  ASSUME TypeOK, ProcessStep
  PROVE  /\ UNCHANGED <<phase, log, committed, settled, abandoned>>
         /\ Fault \/ UNCHANGED faults
  BY DEF ProcessStep, Launch, Started, SeeDone, Drained, Exit, Cancel, Stop, Crash,
         Make, Register, Assign, ProcessEnds, queue, group, run, process, readers, history

\* Start, its shutdown, a crash and a rebalance keep the types.
LEMMA ProcessTyped ==
  ASSUME TypeOK, ProcessStep
  PROVE  TypeOK'
<1>1. /\ UNCHANGED <<phase, log, committed, settled, abandoned>>
      /\ Fault \/ UNCHANGED faults
  BY ProcessFrame
<1>2. faults' \in 0..MaxFaults
  BY <1>1, FaultTyped DEF TypeOK, FaultType
<1>3. main' \in {"down", "starting", "waiting", "draining", "returned"}
  BY DEF TypeOK, ProcessStep, Launch, Started, SeeDone, Drained, Exit, Cancel, Stop,
         Crash, Make, Register, Assign, ProcessEnds, run, process
<1>4. canceled' \in BOOLEAN /\ closed' \in BOOLEAN
  BY DEF TypeOK, ProcessStep, Launch, Started, SeeDone, Drained, Exit, Cancel, Stop,
         Crash, Make, Register, Assign, ProcessEnds, Close, run, process
<1>5. rd' \in [Reader -> {"none", "made", "open", "closed"}]
  BY SMT DEF TypeOK, ProcessStep, Launch, Started, SeeDone, Drained, Exit, Cancel, Stop,
         Crash, Make, Register, Assign, ProcessEnds, Close, None, process, readers
<1>6. go' \in [Reader -> {"none", "fetch", "dispatch", "wait", "commit", "over"}]
  BY DEF TypeOK, ProcessStep, Launch, Started, SeeDone, Drained, Exit, Cancel, Stop,
         Crash, Make, Register, Assign, ProcessEnds, Close, None, process, readers
<1>7. UNCHANGED <<at, attempt>> \/ (at' = Zero /\ attempt' = Zero)
  BY DEF ProcessStep, Launch, Started, SeeDone, Drained, Exit, Cancel, Stop,
         Crash, Make, Register, Assign, ProcessEnds, Close, process, readers
<1>8. at' \in [Reader -> 0..Len(log)] /\ attempt' \in [Reader -> 0..MaxRetries]
  <2>1. 0 \in 0..Len(log) /\ 0 \in 0..MaxRetries
    BY DeliveryAssumption, SMT DEF TypeOK
  <2> QED
    BY <1>7, <2>1 DEF TypeOK, Zero
<1>9. \/ UNCHANGED <<owner, pos>>
      \/ owner' = NoReader /\ pos' = 0
      \/ \E r \in Reader : owner' = r /\ pos' = committed
  <2>1. CASE \E r \in Reader : Assign(r)
    BY <2>1 DEF Assign
  <2>2. CASE Exit \/ Crash
    BY <2>2 DEF Exit, Crash, ProcessEnds
  <2>3. CASE Launch \/ Started \/ SeeDone \/ Drained \/ Cancel \/ Stop
    BY <2>3 DEF Launch, Started, SeeDone, Drained, Cancel, Stop, group
  <2>4. CASE \E r \in Reader : Make(r) \/ Register(r)
    BY <2>4 DEF Make, Register, group
  <2> QED
    BY <2>1, <2>2, <2>3, <2>4 DEF ProcessStep
<1>10. owner' \in Reader \cup {NoReader} /\ pos' \in 0..Len(log)
  <2>1. 0 \in 0..Len(log)
    BY SMT DEF TypeOK
  <2> QED
    BY <1>9, <2>1 DEF TypeOK
<1> QED
  BY <1>1, <1>2, <1>3, <1>4, <1>5, <1>6, <1>8, <1>10 DEF TypeOK

\* A handler that is retried has retries left.
RetryInv == \A r \in Reader : go[r] = "wait" => attempt[r] < MaxRetries

\* A step of the goroutine of one reader keeps the types; it needs OffsetInv
\* for the offset a commit writes.
LEMMA ReaderTyped ==
  ASSUME TypeOK, RetryInv, OffsetInv, NEW r \in Reader,
         LocalStep(r) \/ Fetch(r) \/ Commit(r)
  PROVE  TypeOK'
<1>1. UNCHANGED <<phase, log, owner, main, canceled, closed, rd>>
  BY DEF LocalStep, FetchEnds, Retry, Abandon, CommitFails, Dispatch, Fetch, Commit,
         queue, group, run
<1>2. faults' \in 0..MaxFaults
  <2>1. Fault \/ UNCHANGED faults
    BY DEF LocalStep, FetchEnds, Retry, Abandon, CommitFails, Dispatch, Fetch, Commit
  <2> QED
    BY <2>1, FaultTyped DEF TypeOK, FaultType
<1>3. go' \in [Reader -> {"none", "fetch", "dispatch", "wait", "commit", "over"}]
  BY DEF TypeOK, LocalStep, FetchEnds, Retry, Abandon, CommitFails, Dispatch, Fetch,
         Commit, Handled
<1>4. attempt' \in [Reader -> 0..MaxRetries]
  <2>1. CASE Retry(r)
    <3>1. attempt[r] + 1 \in 0..MaxRetries
      BY <2>1, DeliveryAssumption, SMT DEF Retry, RetryInv, TypeOK
    <3> QED
      BY <2>1, <3>1 DEF Retry, TypeOK
  <2>2. CASE ~Retry(r)
    <3>1. UNCHANGED attempt \/ attempt' = [attempt EXCEPT ![r] = 0]
      BY <2>2 DEF LocalStep, FetchEnds, Abandon, CommitFails, Dispatch, Fetch,
                  Commit, Handled
    <3>2. 0 \in 0..MaxRetries
      BY DeliveryAssumption, SMT
    <3> QED
      BY <3>1, <3>2 DEF TypeOK
  <2> QED
    BY <2>1, <2>2
<1>5. Len(log) \in Nat /\ 0 \in 0..Len(log)
  BY SMT DEF TypeOK
<1>6. CASE Fetch(r)
  <2>1. pos + 1 \in 1..Len(log) /\ pos + 1 \in 0..Len(log)
    BY <1>5, <1>6, SMT DEF Fetch, TypeOK
  <2>2. /\ pos' = pos + 1 /\ at' = [at EXCEPT ![r] = pos + 1]
        /\ settled' \subseteq settled \cup {pos + 1}
        /\ UNCHANGED <<committed, abandoned>>
    BY <1>6 DEF Fetch
  <2>3. at' \in [Reader -> 0..Len(log)]
    BY <2>1, <2>2 DEF TypeOK
  <2>4. settled' \subseteq 1..Len(log)
    BY <2>1, <2>2 DEF TypeOK
  <2> QED
    BY <1>1, <1>2, <1>3, <1>4, <2>1, <2>2, <2>3, <2>4 DEF TypeOK
<1>7. CASE ~Fetch(r)
  <2>1. /\ UNCHANGED pos
        /\ UNCHANGED at \/ at' = [at EXCEPT ![r] = 0]
        /\ committed' \in {committed, at[r]}
    BY <1>7 DEF LocalStep, FetchEnds, Retry, Abandon, CommitFails, Dispatch, Commit,
                Handled, group
  <2>2. at' \in [Reader -> 0..Len(log)]
    BY <1>5, <2>1 DEF TypeOK
  <2>3. committed' \in 0..Len(log)
    BY <2>1, SMT DEF TypeOK
  <2>4. settled' \subseteq 1..Len(log) /\ abandoned' \subseteq 1..Len(log)
    <3>1. \/ UNCHANGED <<settled, abandoned>>
          \/ /\ Handling(r)
             /\ settled' \subseteq settled \cup {at[r]}
             /\ abandoned' \subseteq abandoned \cup {at[r]}
      BY <1>7 DEF LocalStep, FetchEnds, Retry, Abandon, CommitFails, Dispatch, Commit,
                  Handling, history
    <3>2. Handling(r) => at[r] \in 1..Len(log)
      BY <1>5, SMT DEF OffsetInv, TypeOK
    <3> QED
      BY <3>1, <3>2 DEF TypeOK
  <2> QED
    BY <1>1, <1>2, <1>3, <1>4, <2>1, <2>2, <2>3, <2>4 DEF TypeOK
<1> QED
  BY <1>6, <1>7

-----------------------------------------------------------------------------
(* Offsets.                                                                 *)

\* A step that leaves offsets, verdicts and goroutines alone.
LEMMA QuietOffset ==
  ASSUME OffsetInv, RetryInv,
         UNCHANGED <<committed, owner, pos, go, at, attempt, settled, abandoned>>
  PROVE  OffsetInv' /\ RetryInv'
  BY DEF OffsetInv, RetryInv, Handling, Done

\* A new goroutine has fetched nothing.
LEMMA RegisterOffset ==
  ASSUME TypeOK, OffsetInv, RetryInv, StartInv, NEW r \in Reader, Register(r)
  PROVE  OffsetInv' /\ RetryInv'
<1>1. /\ UNCHANGED <<committed, owner, pos, at, attempt, settled, abandoned>>
      /\ rd[r] = "made"
      /\ \A s \in Reader : s # r => go'[s] = go[s]
      /\ go'[r] \in {go[r], "fetch"}
  BY DEF Register, TypeOK, group, history
<1>2. ~Handling(r) /\ go[r] = "none"
  BY <1>1 DEF StartInv, Handling
<1>3. \A s \in Reader : /\ Handling(s)' = Handling(s)
                        /\ go'[s] \in {"wait", "commit"} => go'[s] = go[s]
  BY <1>1, <1>2, SMT DEF Handling
<1>4. RetryInv'
  BY <1>1, <1>3 DEF RetryInv
<1>5. OffsetInv'
  BY <1>1, <1>3 DEF OffsetInv, Done
<1> QED
  BY <1>4, <1>5

\* The new owner starts behind the committed offset.
LEMMA AssignOffset ==
  ASSUME TypeOK, OffsetInv, RetryInv, NEW r \in Reader, Assign(r)
  PROVE  OffsetInv' /\ RetryInv'
<1>1. /\ owner' = r /\ pos' = committed
      /\ UNCHANGED <<committed, go, at, attempt, settled, abandoned>>
  BY DEF Assign, process, readers, history
<1> QED
  BY <1>1 DEF OffsetInv, RetryInv, Handling, Done

\* A process that ends leaves the committed offset.
LEMMA EndOffset ==
  ASSUME OffsetInv, ProcessEnds
  PROVE  OffsetInv' /\ RetryInv'
<1>1. /\ owner' = NoReader /\ UNCHANGED <<committed, settled, abandoned>>
      /\ \A r \in Reader : go'[r] = "none" /\ at'[r] = 0
  BY DEF ProcessEnds, None, Zero, history
<1>2. \A r \in Reader : r # NoReader
  BY DeliveryAssumption, SMT DEF Reader, NoReader
<1> QED
  BY <1>1, <1>2 DEF OffsetInv, RetryInv, Handling, Done

\* A step of the process or of the coordinator keeps the offsets: a new owner
\* starts at the committed offset, below which all is done.
LEMMA ProcessOffset ==
  ASSUME TypeOK, OffsetInv, RetryInv, StartInv, ProcessStep
  PROVE  OffsetInv' /\ RetryInv'
<1>1. CASE \E r \in Reader : Assign(r)
  BY <1>1, AssignOffset
<1>2. CASE \E r \in Reader : Register(r)
  BY <1>2, RegisterOffset
<1>3. CASE Exit \/ Crash
  BY <1>3, EndOffset DEF Exit, Crash
<1>4. CASE \/ Launch \/ Started \/ SeeDone \/ Drained \/ Cancel \/ Stop
           \/ \E r \in Reader : Make(r)
  <2>1. UNCHANGED <<committed, owner, pos, go, at, attempt, settled, abandoned>>
    BY <1>4 DEF Launch, Started, SeeDone, Drained, Cancel, Stop, Make, Close, group,
                readers, history
  <2> QED
    BY <2>1, QuietOffset
<1> QED
  BY <1>1, <1>2, <1>3, <1>4 DEF ProcessStep

\* The next record of the owner comes after records that are done.
LEMMA FetchOffset ==
  ASSUME TypeOK, OffsetInv, RetryInv, NEW r \in Reader, Fetch(r)
  PROVE  OffsetInv' /\ RetryInv'
<1>1. /\ go[r] = "fetch" /\ owner = r /\ pos' = pos + 1 /\ at'[r] = pos + 1
      /\ UNCHANGED <<committed, owner, attempt, abandoned>>
      /\ settled \subseteq settled'
      /\ go'[r] = "commit" => pos + 1 \in settled'
      /\ go'[r] \in {"commit", "dispatch"}
      /\ \A s \in Reader : s # r => go'[s] = go[s] /\ at'[s] = at[s]
  BY DEF Fetch, TypeOK
<1>2. pos \in Nat /\ at[r] = 0
  <2>1. ~Handling(r)
    BY <1>1 DEF Handling
  <2>2. pos \in Nat
    BY SMT DEF TypeOK
  <2> QED
    BY <2>1, <2>2 DEF OffsetInv
<1>3. \A n : Done(n) => Done(n)'
  BY <1>1 DEF Done
<1>4. \A n \in Nat : (1 <= n /\ n < pos + 1) => Done(n)
  BY <1>1, <1>2, SMT DEF OffsetInv
<1>5. \A s \in Reader : owner' = s =>
        \A n \in Nat : (1 <= n /\ n <= pos') => (Done(n)' \/ n = at'[s])
  BY <1>1, <1>2, <1>3, <1>4, SMT
<1>6. \A s \in Reader : Handling(s)' =>
        /\ 1 <= at'[s]
        /\ \A n \in Nat : (1 <= n /\ n < at'[s]) => Done(n)'
  <2> SUFFICES ASSUME NEW s \in Reader, Handling(s)'
               PROVE  /\ 1 <= at'[s]
                      /\ \A n \in Nat : (1 <= n /\ n < at'[s]) => Done(n)'
    OBVIOUS
  <2>1. CASE s = r
    BY <1>1, <1>2, <1>3, <1>4, <2>1, SMT
  <2>2. CASE s # r
    <3>1. Handling(s) /\ at'[s] = at[s]
      BY <1>1, <2>2 DEF Handling
    <3> QED
      BY <1>3, <3>1 DEF OffsetInv
  <2> QED
    BY <2>1, <2>2
<1>7. \A s \in Reader : ~Handling(s)' => at'[s] = 0
  BY <1>1 DEF OffsetInv, Handling
<1>8. \A s \in Reader : go'[s] = "commit" => Done(at[s])'
  BY <1>1, <1>3 DEF OffsetInv, Done
<1>9. \A n \in Nat : (1 <= n /\ n <= committed') => Done(n)'
  BY <1>1, <1>3 DEF OffsetInv
<1>10. OffsetInv'
  BY <1>5, <1>6, <1>7, <1>8, <1>9 DEF OffsetInv
<1>11. RetryInv'
  BY <1>1 DEF RetryInv
<1> QED
  BY <1>10, <1>11

\* A commit meets a record that is done, behind records that are done.
LEMMA CommitOffset ==
  ASSUME TypeOK, OffsetInv, RetryInv, NEW r \in Reader, Commit(r)
  PROVE  OffsetInv' /\ RetryInv'
<1>1. /\ go[r] = "commit" /\ committed' = at[r] /\ go'[r] = "fetch" /\ at'[r] = 0
      /\ UNCHANGED <<owner, pos, settled, abandoned>>
      /\ \A s \in Reader : s # r =>
           go'[s] = go[s] /\ at'[s] = at[s] /\ attempt'[s] = attempt[s]
  BY DEF Commit, Handled, TypeOK, history
<1>2. Handling(r) /\ Done(at[r]) /\ at[r] \in Nat
  BY <1>1, SMT DEF OffsetInv, Handling, TypeOK
<1>3. \A n : Done(n)' = Done(n)
  BY <1>1 DEF Done
<1>4. \A n \in Nat : (1 <= n /\ n <= committed') => Done(n)'
  <2>1. \A n \in Nat : (1 <= n /\ n < at[r]) => Done(n)
    BY <1>2 DEF OffsetInv
  <2> QED
    BY SMT, <1>1, <1>2, <1>3, <2>1
<1>5. \A s \in Reader : owner' = s =>
        \A n \in Nat : (1 <= n /\ n <= pos') => (Done(n)' \/ n = at'[s])
  BY <1>1, <1>2, <1>3 DEF OffsetInv
<1>6. \A s \in Reader : (Handling(s)' => s # r /\ Handling(s)) /\ (~Handling(s)' => at'[s] = 0)
  BY <1>1 DEF OffsetInv, Handling
<1>7. OffsetInv'
  BY <1>1, <1>3, <1>4, <1>5, <1>6 DEF OffsetInv
<1>8. RetryInv'
  BY <1>1 DEF RetryInv
<1> QED
  BY <1>7, <1>8

\* The other steps of a reader settle its record, give it up, or keep it.
LEMMA LocalOffset ==
  ASSUME TypeOK, OffsetInv, RetryInv, NEW r \in Reader, LocalStep(r)
  PROVE  OffsetInv' /\ RetryInv'
<1>1. /\ UNCHANGED <<committed, owner, pos>>
      /\ settled \subseteq settled' /\ abandoned \subseteq abandoned'
      /\ \A s \in Reader : s # r =>
           go'[s] = go[s] /\ at'[s] = at[s] /\ attempt'[s] = attempt[s]
  BY DEF LocalStep, FetchEnds, Retry, Abandon, CommitFails, Dispatch, Handled, TypeOK,
         group, history
<1>2. \/ /\ Handling(r) /\ Handling(r)' /\ at'[r] = at[r]
         /\ go'[r] = "commit" => Done(at[r])'
      \/ /\ Handling(r) /\ ~Handling(r)' /\ at'[r] = 0
         /\ at[r] \in settled' \cup abandoned'
      \/ ~Handling(r) /\ ~Handling(r)' /\ at'[r] = at[r]
  <2>1. CASE FetchEnds(r)
    BY <2>1 DEF FetchEnds, Handling, TypeOK
  <2>2. CASE Retry(r)
    BY <2>2 DEF Retry, Handling, TypeOK
  <2>3. CASE Abandon(r)
    BY <2>3 DEF Abandon, Handled, Handling, Done, TypeOK
  <2>4. CASE CommitFails(r)
    <3>1. go[r] = "commit" /\ go'[r] = "fetch" /\ at'[r] = 0
      BY <2>4 DEF CommitFails, Handled, TypeOK
    <3> QED
      BY <1>1, <3>1 DEF Handling, OffsetInv, Done
  <2>5. CASE \E v \in Verdict : Dispatch(r, v)
    <3>1. /\ go[r] = "dispatch" /\ go'[r] \in {"wait", "commit"} /\ at' = at
          /\ go'[r] = "commit" => at[r] \in settled'
      BY <2>5 DEF Dispatch, TypeOK
    <3> QED
      BY <3>1 DEF Handling, Done
  <2> QED
    BY <2>1, <2>2, <2>3, <2>4, <2>5 DEF LocalStep
<1>3. \A n : Done(n) => Done(n)'
  BY <1>1 DEF Done
<1>4. \A n \in Nat : (1 <= n /\ n <= committed') => Done(n)'
  BY <1>1, <1>3 DEF OffsetInv
<1>5. \A s \in Reader : owner' = s =>
        \A n \in Nat : (1 <= n /\ n <= pos') => (Done(n)' \/ n = at'[s])
  BY <1>1, <1>2, <1>3 DEF OffsetInv, Done
<1>6. \A s \in Reader : s # r => Handling(s)' = Handling(s)
  BY <1>1 DEF Handling
<1>7. \A s \in Reader : Handling(s)' => Handling(s) /\ at'[s] = at[s]
  BY <1>1, <1>2, <1>6
<1>8. \A s \in Reader : ~Handling(s)' => at'[s] = 0
  BY <1>1, <1>2, <1>6 DEF OffsetInv
<1>9. \A s \in Reader : go'[s] = "commit" => Done(at[s])'
  BY <1>1, <1>2, <1>3 DEF OffsetInv, Handling, Done
<1>10. OffsetInv'
  BY <1>3, <1>4, <1>5, <1>7, <1>8, <1>9 DEF OffsetInv
<1>11. RetryInv'
  <2>1. go'[r] = "wait" => attempt'[r] < MaxRetries
    BY DEF LocalStep, FetchEnds, Retry, Abandon, CommitFails, Dispatch, Handled, TypeOK
  <2> QED
    BY <1>1, <2>1 DEF RetryInv
<1> QED
  BY <1>10, <1>11

-----------------------------------------------------------------------------
(* Start and close.                                                         *)

\* A producer leaves the consumer alone.
LEMMA ProducerFrame ==
  ASSUME ProducerStep
  PROVE  UNCHANGED <<committed, owner, pos, main, canceled, closed, rd, go, at,
                     attempt, settled, abandoned>>
  BY DEF ProducerStep, Publish, PublishUnsure, PublishRefused, PublishBad,
         group, process, run, readers, history

\* A goroutine that fetches, handles or ends is one that Start has registered;
\* none is left once Start has returned.
LEMMA ReaderStart ==
  ASSUME TypeOK, StartInv, NEW r \in Reader, LocalStep(r) \/ Fetch(r) \/ Commit(r)
  PROVE  StartInv'
<1>1. /\ UNCHANGED <<main, closed, rd>>
      /\ go[r] \notin {"none", "over"}
      /\ \A s \in Reader : s # r => go'[s] = go[s]
  BY DEF LocalStep, FetchEnds, Retry, Abandon, CommitFails, Dispatch, Fetch, Commit,
         Handled, TypeOK, run
<1>2. main # "returned" /\ rd[r] \notin {"none", "made"}
  BY <1>1 DEF StartInv
<1> QED
  BY <1>1, <1>2 DEF StartInv

\* Each step of Start, close and the process keeps the startup consistent.
LEMMA ProcessStart ==
  ASSUME TypeOK, StartInv, ProcessStep
  PROVE  StartInv'
<1>1. CASE Launch
  BY <1>1 DEF Launch, StartInv, readers
<1>2. CASE Started
  BY <1>2 DEF Started, StartInv, readers
<1>3. CASE SeeDone
  <2>1. /\ main = "waiting" /\ main' = "draining" /\ closed' = TRUE /\ go' = go
        /\ \A r \in Reader : rd'[r] = IF rd[r] = "open" THEN "closed" ELSE rd[r]
    BY <1>3 DEF SeeDone, Close
  <2> QED
    BY <2>1 DEF StartInv
<1>4. CASE Drained
  BY <1>4 DEF Drained, StartInv, readers
<1>5. CASE Exit \/ Crash
  <2>1. main' = "down" /\ closed' = FALSE
        /\ \A r \in Reader : rd'[r] = "none" /\ go'[r] = "none"
    BY <1>5 DEF Exit, Crash, ProcessEnds, None
  <2> QED
    BY <2>1 DEF StartInv
<1>6. CASE Cancel
  BY <1>6 DEF Cancel, StartInv, readers
<1>7. CASE Stop
  <2>1. /\ main' = main /\ closed' = TRUE /\ go' = go
        /\ \A r \in Reader : rd'[r] = IF rd[r] = "open" THEN "closed" ELSE rd[r]
    BY <1>7 DEF Stop, Close
  <2> QED
    BY <2>1 DEF StartInv
<1>8. ASSUME NEW r \in Reader, Make(r)
      PROVE  StartInv'
  <2>1. /\ main = "starting" /\ rd[r] = "none" /\ rd'[r] = "made"
        /\ \A s \in Reader : s # r => rd'[s] = rd[s]
        /\ UNCHANGED <<main, closed, go>>
    BY <1>8 DEF Make, TypeOK, run
  <2> QED
    BY <2>1 DEF StartInv
<1>9. ASSUME NEW r \in Reader, Register(r)
      PROVE  StartInv'
  <2>1. /\ main = "starting" /\ UNCHANGED <<main, closed>>
        /\ rd'[r] = IF closed THEN "closed" ELSE "open"
        /\ \A s \in Reader : s # r => rd'[s] = rd[s] /\ go'[s] = go[s]
    BY <1>9 DEF Register, TypeOK, run
  <2> QED
    BY <2>1 DEF StartInv
<1>10. ASSUME NEW r \in Reader, Assign(r)
       PROVE  StartInv'
  BY <1>10 DEF Assign, StartInv, process, run, readers
<1> QED
  BY <1>1, <1>2, <1>3, <1>4, <1>5, <1>6, <1>7, <1>8, <1>9, <1>10 DEF ProcessStep

-----------------------------------------------------------------------------
(* The theorems.                                                            *)

DeliveryInv == TypeOK /\ OffsetInv /\ RetryInv /\ StartInv

\* The inductive invariant holds initially.
LEMMA DeliveryInit ==
  ASSUME Init
  PROVE  DeliveryInv
<1>1. TypeOK
  <2>1. /\ 0 \in 0..Len(<<>>) /\ 0 \in 0..MaxRetries /\ 0 \in 0..MaxFaults
        /\ <<>> \in Seq(Event \cup {Bad})
    BY DeliveryAssumption, SMT
  <2> QED
    BY <2>1 DEF Init, TypeOK, None, Zero
<1>2. OffsetInv /\ RetryInv
  <2>1. \A r \in Reader : go[r] = "none" /\ at[r] = 0 /\ owner # r
    BY DeliveryAssumption, SMT DEF Init, None, Zero, Reader, NoReader
  <2>2. committed = 0
    BY DEF Init
  <2> QED
    BY <2>1, <2>2, SMT DEF OffsetInv, RetryInv, Handling
<1>3. StartInv
  BY DEF Init, StartInv, None
<1> QED
  BY <1>1, <1>2, <1>3 DEF DeliveryInv

\* Every step keeps the inductive invariant.
LEMMA DeliveryStep ==
  ASSUME DeliveryInv, [Next]_vars
  PROVE  DeliveryInv'
<1>1. CASE UNCHANGED vars
  <2>1. UNCHANGED <<phase, log, committed, owner, pos, main, canceled, closed, rd, go,
                    at, attempt, settled, abandoned, faults>>
    BY <1>1 DEF vars, queue, group, run, readers, history
  <2>2. TypeOK'
    BY <2>1 DEF DeliveryInv, TypeOK
  <2>3. OffsetInv' /\ RetryInv'
    BY <2>1, QuietOffset DEF DeliveryInv
  <2>4. StartInv'
    BY <2>1 DEF DeliveryInv, StartInv
  <2> QED
    BY <2>2, <2>3, <2>4 DEF DeliveryInv
<1>2. CASE ProducerStep
  <2>1. UNCHANGED <<committed, owner, pos, main, canceled, closed, rd, go, at,
                    attempt, settled, abandoned>>
    BY <1>2, ProducerFrame
  <2>2. OffsetInv' /\ RetryInv'
    BY <2>1, QuietOffset DEF DeliveryInv
  <2>3. StartInv'
    BY <2>1 DEF DeliveryInv, StartInv
  <2> QED
    BY <1>2, <2>2, <2>3, ProducerTyped DEF DeliveryInv
<1>3. CASE ProcessStep
  BY <1>3, ProcessTyped, ProcessOffset, ProcessStart DEF DeliveryInv
<1>4. ASSUME NEW r \in Reader, LocalStep(r) \/ Fetch(r) \/ Commit(r)
      PROVE  DeliveryInv'
  <2>1. TypeOK' /\ StartInv'
    BY <1>4, ReaderTyped, ReaderStart DEF DeliveryInv
  <2>2. OffsetInv' /\ RetryInv'
    BY <1>4, LocalOffset, FetchOffset, CommitOffset DEF DeliveryInv
  <2> QED
    BY <2>1, <2>2 DEF DeliveryInv
<1> QED
  BY <1>1, <1>2, <1>3, <1>4, NextCases

\* So it holds always.
LEMMA DeliveryInvariant == Spec => []DeliveryInv
  BY DeliveryInit, DeliveryStep, PTL DEF Spec

\* Type correctness of the outbox, the partition and the consumer.
THEOREM DeliveryTyped == Spec => []TypeOK
<1>1. DeliveryInv => TypeOK
  BY DEF DeliveryInv
<1> QED
  BY <1>1, DeliveryInvariant, PTL

\* The at-least-once loop of consume: whatever the rebalances, failed commits,
\* stale commits and crashes, no record below the committed offset is without a
\* terminal verdict unless a shutdown gave it up.
THEOREM DeliverySkipsNothing == Spec => []SkippedOnlyAtShutdown
<1>1. DeliveryInv => SkippedOnlyAtShutdown
  <2> SUFFICES ASSUME DeliveryInv, NEW n \in 1..committed
               PROVE  n \in settled \cup abandoned
    BY DEF SkippedOnlyAtShutdown
  <2>1. n \in Nat /\ 1 <= n /\ n <= committed
    BY SMT DEF DeliveryInv, TypeOK
  <2> QED
    BY <2>1 DEF DeliveryInv, OffsetInv, Done
<1> QED
  BY <1>1, DeliveryInvariant, PTL

\* close against the startup of the readers: no reader is open after close, and
\* neither a reader nor a goroutine is left when Start has returned.
THEOREM DeliveryLeaksNothing == Spec => []NoReaderLeaks
<1>1. DeliveryInv => NoReaderLeaks
  BY DEF DeliveryInv, StartInv, NoReaderLeaks
<1> QED
  BY <1>1, DeliveryInvariant, PTL

\* Both together: what the topic and the group rely on.
THEOREM DeliverySafe == Spec => []DeliverySafety
BY DeliverySkipsNothing, DeliveryLeaksNothing, PTL DEF DeliverySafety
=============================================================================
