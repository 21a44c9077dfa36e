------------------------------- MODULE Dedup -------------------------------
(***************************************************************************)
(* dedup.Keeper: Do calls that race each other over the records of their   *)
(* keys, kept in memory or in Redis.                                       *)
(*                                                                         *)
(* Time is relative: a record, a lease and the sweep hold the ticks they   *)
(* have left.  A record with none left is expired: in memory it stays      *)
(* until it is swept or replaced, in Redis nothing reads it any more.  The *)
(* token of a call is the call itself, and so is the value it stores.      *)
(***************************************************************************)
EXTENDS Naturals

CONSTANTS Call,          \* Do calls
          Key,
          Lease, TTL,    \* options.lease and options.ttl, in ticks
          SweepEvery     \* sweepEvery, in ticks

ASSUME DedupAssumption ==
  /\ "none" \notin Call \cup Key
  /\ Lease \in Nat /\ TTL \in Nat /\ SweepEvery \in Nat


VARIABLES store,     \* where newKeeper keeps the records
          records,   \* the record of each key
          sweep,     \* ticks until the next sweep of the memory
          calls,     \* where each call is, its key and the answer it got
          lease      \* ticks left of the lease each call was given

dedupVars == <<store, records, sweep, calls, lease>>

None == [token |-> "none", value |-> "none", left |-> 0]
Running(c) == [token |-> c, value |-> "none", left |-> Lease]
Stored(c) == [token |-> "none", value |-> c, left |-> TTL]

InFlight(c) == calls[c].pc \in {"fn", "failed", "encoded"}
Live(k) == records[k].left > 0
Holds(c) == records[calls[c].key].token = c

TypeOK ==
  /\ store \in {"memory", "redis"}
  /\ records \in [Key -> [token : Call \cup {"none"}, value : Call \cup {"none"},
                          left : 0 .. (Lease + TTL)]]
  /\ sweep \in 0 .. SweepEvery
  /\ calls \in [Call -> [pc : {"new", "fn", "failed", "encoded", "returned", "crashed"},
                         key : Key \cup {"none"},
                         got : {"nothing", "unavailable", "inProgress", "error", "own"} \cup Call]]
  /\ lease \in [Call -> 0 .. Lease]

Init ==
  /\ store \in {"memory", "redis"}
  /\ records = [k \in Key |-> None]
  /\ sweep = 0
  /\ calls = [c \in Call |-> [pc |-> "new", key |-> "none", got |-> "nothing"]]
  /\ lease = [c \in Call |-> 0]

At(c, pc, k, got) == calls' = [calls EXCEPT ![c] = [pc |-> pc, key |-> k, got |-> got]]
Returns(c, got) == At(c, "returned", calls[c].key, got)
Goto(c, pc) == At(c, pc, calls[c].key, "nothing")

-----------------------------------------------------------------------------
(* The stores: each operation is one critical section or one script.        *)

SweptAll(recs) == IF store = "memory" /\ sweep = 0 THEN [k \in Key |-> None] ELSE recs

\* memory.sweep, due at most once per SweepEvery, drops every expired record.
Swept(recs) ==
  IF store = "memory" /\ sweep = 0
  THEN [k \in Key |-> IF recs[k].left = 0 THEN None ELSE recs[k]]
  ELSE recs

\* store.acquire: the state of k, and the records after it.
AcquireState(k) ==
  IF ~Live(k) THEN "acquired" ELSE IF records[k].token # "none" THEN "running" ELSE "done"

AcquireRecords(c, k) ==
  IF Live(k) THEN Swept(records) ELSE [Swept(records) EXCEPT ![k] = Running(c)]

Sweeps == sweep' = IF store = "memory" /\ sweep = 0 THEN SweepEvery ELSE sweep

\* store.complete writes the value only while the token holds the key.
Completes(c) == Live(calls[c].key) /\ Holds(c)

ReleasesAny(c) == TRUE

\* store.release deletes the key when the token holds it.
Releases(c) == Holds(c)

-----------------------------------------------------------------------------
(* Keeper.Do                                                                 *)

\* The store answers.
Acquire(c, k) ==
  /\ calls[c].pc = "new"
  /\ records' = AcquireRecords(c, k)
  /\ Sweeps
  /\ CASE AcquireState(k) = "acquired" -> At(c, "fn", k, "nothing")
       [] AcquireState(k) = "running" -> At(c, "returned", k, "inProgress")
       [] OTHER -> At(c, "returned", k, records[k].value)
  /\ lease' = [lease EXCEPT ![c] = IF AcquireState(k) = "acquired" THEN Lease ELSE 0]
  /\ UNCHANGED store

\* Redis fails before it runs the script, or after it and the answer is lost:
\* the key may be held for a call that never runs fn.
AcquireFails(c, k) ==
  /\ calls[c].pc = "new" /\ store = "redis"
  /\ \/ UNCHANGED records
     \/ records' = AcquireRecords(c, k)
  /\ At(c, "returned", k, "unavailable")
  /\ UNCHANGED <<store, sweep, lease>>

\* fn runs under a deadline it may outlive.  It returns a value that encodes; or
\* an error, a panic, or a value that does not encode, after which the deferred
\* release runs.
FnReturns(c) ==
  /\ calls[c].pc = "fn"
  /\ Goto(c, "encoded") \/ Goto(c, "failed")
  /\ UNCHANGED <<store, records, sweep, lease>>

\* Keeper.complete; a store that fails, and a lost lease, are only logged.
Complete(c) ==
  /\ calls[c].pc = "encoded"
  /\ \/ records' = IF Completes(c) THEN [records EXCEPT ![calls[c].key] = Stored(c)] ELSE records
     \/ store = "redis" /\ UNCHANGED records
  /\ Returns(c, "own")
  /\ lease' = [lease EXCEPT ![c] = 0]
  /\ UNCHANGED <<store, sweep>>

\* Keeper.release; a failure leaves the record to its lease.
Release(c) ==
  /\ calls[c].pc = "failed"
  /\ \/ records' = IF Releases(c) THEN [records EXCEPT ![calls[c].key] = None] ELSE records
     \/ store = "redis" /\ UNCHANGED records
  /\ Returns(c, "error")
  /\ lease' = [lease EXCEPT ![c] = 0]
  /\ UNCHANGED <<store, sweep>>

\* The process of the call dies; the records in Redis outlive it.
Crash(c) ==
  /\ InFlight(c) /\ store = "redis"
  /\ Goto(c, "crashed")
  /\ lease' = [lease EXCEPT ![c] = 0]
  /\ UNCHANGED <<store, records, sweep>>

Less(n) == IF n > 0 THEN n - 1 ELSE 0

\* A tick passes for every timer.
Tick ==
  /\ records' = [k \in Key |-> [records[k] EXCEPT !.left = Less(@)]]
  /\ sweep' = Less(sweep)
  /\ lease' = [c \in Call |-> Less(lease[c])]
  /\ UNCHANGED <<store, calls>>

Do(c) ==
  \/ \E k \in Key : Acquire(c, k) \/ AcquireFails(c, k)
  \/ FnReturns(c) \/ Complete(c) \/ Release(c) \/ Crash(c)

Next == (\E c \in Call : Do(c)) \/ Tick

Spec == Init /\ [][Next]_dedupVars
FairSpec == Spec /\ WF_dedupVars(Tick)

-----------------------------------------------------------------------------
\* While a call is inside the lease it was given, its key is held for it: no
\* other call's acquire, late complete or late release, and no sweep, takes the
\* record away.  One record per key makes the lease exclusive (dedup.go Do,
\* memory.go, the three scripts of redis.go).
LeaseIsKept ==
  \A c \in Call : InFlight(c) /\ lease[c] > 0 => Holds(c) /\ Live(calls[c].key)

\* A stored success is handed to every repeat until its TTL ends: nothing a
\* call that lost its lease still does replaces or deletes it (store.complete,
\* store.release).
SuccessIsFinal ==
  [][\A k \in Key :
       Live(k) /\ records[k].value # "none" => records'[k].value = records[k].value]_dedupVars

\* A crashed holder, or one whose release failed, blocks its key no longer than
\* the lease (WithLease).
KeyFrees == \A k \in Key : Live(k) ~> ~Live(k)
=============================================================================
