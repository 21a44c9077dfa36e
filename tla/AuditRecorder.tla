--------------------------- MODULE AuditRecorder ---------------------------
(***************************************************************************)
(* The three recorders behind auditlog.Recorder: Core.Record on the        *)
(* caller's goroutine (sync), AsyncRecorder of async.go with BlockOnFull   *)
(* (block) or without (drop), and auditqueue's Recorder and workers over   *)
(* the task queue (queue).  Producers reach them through auditbus.         *)
(*                                                                         *)
(* In the asynchronous recorder, producers hold the read lock of mu across *)
(* the send, the coordinator of Start takes its write lock on shutdown, and*)
(* a waiting writer keeps new readers out, as sync.RWMutex does.           *)
(***************************************************************************)
EXTENDS Integers, Sequences, Functions

CONSTANTS
    Producer,   \* goroutines that publish audit events
    Subject,    \* the (ModelType, ModelID) pairs
    Shard,      \* the workers and their channels
    Buffer,     \* AsyncConfig.Buffer
    MaxEntries, \* bound: entries of one producer
    Modes       \* the recorders to check

ASSUME RecorderAssumption == Buffer \in Nat /\ MaxEntries \in Nat

VARIABLES
    recMode,    \* the recorder of this service
    recShardOf, \* subject -> shard: the hash of shardFor
    recProd,    \* producer -> its Record call
    recCount,   \* producer -> entries recorded so far
    recShards,  \* shard -> buffered entries
    recTasks,   \* auditqueue: the entries whose task is in the queue
    recWritten, \* subject -> entries written, in order
    recGone,    \* entries dropped, failed or logged: reported, not written
    recCtx,     \* the ctx of Start is canceled
    recStart,   \* Start: new, running, returned
    recCoord,   \* the coordinator: wait, locking, locked, ready
    recWorker   \* shard -> its worker: select, wait, exited

recVars == <<recMode, recShardOf, recProd, recCount, recShards, recTasks,
             recWritten, recGone, recCtx, recStart, recCoord, recWorker>>

\* An entry: who recorded it, as its how-manieth, of which model.
Entry == [by : Producer, n : 1..MaxEntries, subject : Subject]

Async == recMode \in {"block", "drop"}

\* close(done) is the coordinator's first step.
done == recCoord # "wait"
closing == recCoord \in {"locked", "ready"}
drainReady == recCoord = "ready"

RecorderInit ==
    /\ recMode \in Modes
    /\ recShardOf \in [Subject -> Shard]
    /\ recProd = [p \in Producer |-> {}]
    /\ recCount = [p \in Producer |-> 0]
    /\ recShards = [s \in Shard |-> <<>>]
    /\ recTasks = {}
    /\ recWritten = [m \in Subject |-> <<>>]
    /\ recGone = {}
    /\ recCtx = FALSE
    /\ recStart = "new"
    /\ recCoord = "wait"
    /\ recWorker = [s \in Shard |-> "select"]

-----------------------------------------------------------------------------
Write(e) == recWritten' = [recWritten EXCEPT ![e.subject] = Append(@, e)]

Drop(e) == recGone' = recGone \cup {e}

\* Core.Record writes the entry, or logs the error; a panic of the store is
\* recovered by the worker that called it.
CoreRecord(e) ==
    \/ Write(e) /\ UNCHANGED recGone
    \/ Drop(e) /\ UNCHANGED recWritten

\* auditbus.Publish and the subscription: the event reaches rec.Record.
Publish(p, m) ==
    /\ recProd[p] = {}
    /\ recCount[p] < MaxEntries
    /\ recCount' = [recCount EXCEPT ![p] = @ + 1]
    /\ LET e == [by |-> p, n |-> recCount[p] + 1, subject |-> m]
       IN  \/ /\ Async
              /\ recCoord # "locking"
              /\ recProd' = [recProd EXCEPT ![p] = {e}]
              /\ UNCHANGED <<recTasks, recWritten, recGone>>
           \/ /\ recMode = "sync"
              /\ CoreRecord(e)
              /\ UNCHANGED <<recProd, recTasks>>
           \/ /\ recMode = "queue"
              /\ \/ recTasks' = recTasks \cup {e} /\ UNCHANGED recGone
                 \/ Drop(e) /\ UNCHANGED recTasks
              /\ UNCHANGED <<recProd, recWritten>>
    /\ UNCHANGED <<recMode, recShardOf, recShards, recCtx, recStart, recCoord, recWorker>>

Returns(p) == recProd' = [recProd EXCEPT ![p] = {}]

ShardForAny(e) == CHOOSE s \in Shard : (s = recShardOf[e.subject]) = (e.n % 2 = 1)

\* shardFor: a model always has the same shard.
ShardFor(e) == recShardOf[e.subject]

\* The entry goes to its shard, while there is room and no shutdown.
RecordSend(p) ==
    \E e \in recProd[p] :
        /\ ~closing
        /\ Len(recShards[ShardFor(e)]) < Buffer
        /\ recShards' = [recShards EXCEPT ![ShardFor(e)] = Append(@, e)]
        /\ Returns(p)
        /\ UNCHANGED <<recMode, recShardOf, recCount, recTasks, recWritten, recGone,
                       recCtx, recStart, recCoord, recWorker>>

\* The entry is dropped: during a shutdown, from a full shard, or, when a
\* blocked send sees done closed.
RecordDrop(p) ==
    \E e \in recProd[p] :
        /\ \/ closing
           \/ recMode = "drop" /\ Len(recShards[ShardFor(e)]) = Buffer
           \/ recMode = "block" /\ done
        /\ Drop(e)
        /\ Returns(p)
        /\ UNCHANGED <<recMode, recShardOf, recCount, recShards, recTasks, recWritten,
                       recCtx, recStart, recCoord, recWorker>>

-----------------------------------------------------------------------------
\* Start launches the coordinator and the workers.
RecorderStart ==
    /\ Async
    /\ recStart = "new"
    /\ recStart' = "running"
    /\ UNCHANGED <<recMode, recShardOf, recProd, recCount, recShards, recTasks,
                   recWritten, recGone, recCtx, recCoord, recWorker>>

RecorderCancel ==
    /\ Async
    /\ ~recCtx
    /\ recCtx' = TRUE
    /\ UNCHANGED <<recMode, recShardOf, recProd, recCount, recShards, recTasks,
                   recWritten, recGone, recStart, recCoord, recWorker>>

\* The coordinator: close(done) and wait for the lock; take it when no
\* producer holds it and set closing; release the workers.
Coordinate ==
    /\ recStart = "running"
    /\ \/ recCtx /\ recCoord = "wait" /\ recCoord' = "locking"
       \/ recCoord = "locking" /\ (\A p \in Producer : recProd[p] = {}) /\ recCoord' = "locked"
       \/ recCoord = "locked" /\ recCoord' = "ready"
    /\ UNCHANGED <<recMode, recShardOf, recProd, recCount, recShards, recTasks,
                   recWritten, recGone, recCtx, recStart, recWorker>>

\* A worker writes the first entry of its shard, in its loop or in the flush.
WorkerWrites(s) ==
    /\ recStart = "running"
    /\ recWorker[s] = "select" \/ (recWorker[s] = "wait" /\ drainReady)
    /\ recShards[s] # <<>>
    /\ recShards' = [recShards EXCEPT ![s] = Tail(@)]
    /\ CoreRecord(Head(recShards[s]))
    /\ UNCHANGED <<recMode, recShardOf, recProd, recCount, recTasks, recCtx, recStart,
                   recCoord, recWorker>>

\* On ctx.Done a worker waits for drainReady, and leaves an empty shard.
WorkerEnds(s) ==
    /\ recStart = "running"
    /\ \/ recWorker[s] = "select" /\ recCtx /\ recWorker' = [recWorker EXCEPT ![s] = "wait"]
       \/ /\ recWorker[s] = "wait" /\ drainReady /\ recShards[s] = <<>>
          /\ recWorker' = [recWorker EXCEPT ![s] = "exited"]
    /\ UNCHANGED <<recMode, recShardOf, recProd, recCount, recShards, recTasks,
                   recWritten, recGone, recCtx, recStart, recCoord>>

\* wg.Wait: Start returns when every worker has.
RecorderReturns ==
    /\ recStart = "running"
    /\ \A s \in Shard : recWorker[s] = "exited"
    /\ recStart' = "returned"
    /\ UNCHANGED <<recMode, recShardOf, recProd, recCount, recShards, recTasks,
                   recWritten, recGone, recCtx, recCoord, recWorker>>

\* A worker of the audit queue records an entry and deletes its task; it may
\* die in between, so that the task runs again, or the task may end as dead.
QueueRecord(e) ==
    /\ e \in recTasks
    /\ \/ /\ Write(e) /\ UNCHANGED recGone
          /\ recTasks' \in {recTasks, recTasks \ {e}}
          /\ Len(recWritten[e.subject]) < 2 * MaxEntries
       \/ Drop(e) /\ UNCHANGED recWritten /\ recTasks' = recTasks \ {e}
    /\ UNCHANGED <<recMode, recShardOf, recProd, recCount, recShards, recCtx,
                   recStart, recCoord, recWorker>>

RecorderNext ==
    \/ \E p \in Producer, m \in Subject : Publish(p, m)
    \/ \E p \in Producer : RecordSend(p) \/ RecordDrop(p)
    \/ RecorderStart \/ RecorderCancel \/ Coordinate \/ RecorderReturns
    \/ \E s \in Shard : WorkerWrites(s) \/ WorkerEnds(s)
    \/ \E e \in Entry : QueueRecord(e)

RecorderSpec == RecorderInit /\ [][RecorderNext]_recVars

\* Goroutines that can run do: producers in Record, the coordinator and the
\* workers.  Nobody has to publish, to start or to cancel.
RecorderFairness ==
    /\ \A p \in Producer : WF_recVars(RecordSend(p) \/ RecordDrop(p))
    /\ WF_recVars(Coordinate)
    /\ WF_recVars(RecorderReturns)
    /\ \A s \in Shard : WF_recVars(WorkerWrites(s)) /\ WF_recVars(WorkerEnds(s))

RecorderFairSpec == RecorderSpec /\ RecorderFairness

-----------------------------------------------------------------------------
\* Every variable keeps its type.
RecorderTypeOK ==
    /\ recProd \in [Producer -> SUBSET Entry]
    /\ recCount \in [Producer -> 0..MaxEntries]
    /\ \A s \in Shard : recShards[s] \in Seq(Entry) /\ Len(recShards[s]) <= Buffer
    /\ recTasks \subseteq Entry
    /\ recGone \subseteq Entry
    /\ recCoord \in {"wait", "locking", "locked", "ready"}
    /\ recWorker \in [Shard -> {"select", "wait", "exited"}]

\* No entry is lost silently: an entry whose Record returned is buffered, in
\* the queue, written or reported; and once Start has returned, none is left
\* in a buffer that nobody reads, whoever was sending when ctx was canceled.
NoneLost ==
    /\ \A p \in Producer : \A n \in 1..recCount[p] : \E e \in Entry :
           /\ e.by = p /\ e.n = n
           /\ \/ e \in recProd[p] \/ e \in recTasks \/ e \in recGone
              \/ e \in Range(recWritten[e.subject])
              \/ e \in UNION {Range(recShards[s]) : s \in Shard}
    /\ recStart = "returned" => \A s \in Shard : recShards[s] = <<>>

\* The asynchronous recorder keeps the order of a model: the entries of one
\* producer are written in the order it recorded them, each once.
ModelOrder ==
    Async => \A m \in Subject : \A i, j \in 1..Len(recWritten[m]) :
        i < j /\ recWritten[m][i].by = recWritten[m][j].by
            => recWritten[m][i].n < recWritten[m][j].n

\* A canceled recorder returns from Start, even with producers parked on a
\* full shard.
ShutdownEnds == (recStart = "running" /\ recCtx) ~> (recStart = "returned")

\* What becomes of a recorded entry: written, queued or counted as dropped, and in
\* the order of its model.
RecorderSafety == RecorderTypeOK /\ NoneLost /\ ModelOrder
=============================================================================
