---------------------------- MODULE StateProofs -----------------------------
(* Shared state in a store: who owns a record of Dedup, who holds a lock,     *)
(* what a Save shows and which partitions a plan keeps, for any number of     *)
(* calls, keys, holders, replicas and tables, and any durations.              *)
EXTENDS MCState, FiniteSetTheorems, TLAPS

\* Most leaves are first-order; the ones with arithmetic cite SMT.
USE Zenon

-----------------------------------------------------------------------------
(* Dedup                                                                      *)

\* A call that runs has a key, and as long as its lease lasts the record of the
\* key is its own and has the time of the lease left.
OwnInv ==
  \A c \in Call : InFlight(c) =>
    /\ calls[c].key \in Key
    /\ lease[c] > 0 => Holds(c) /\ records[calls[c].key].left = lease[c]

Record == [token : Call \cup {"none"}, value : Call \cup {"none"}, left : 0 .. (Lease + TTL)]

\* A record is held by a call or has a value, not both, and a live one either.
Sound(rec) ==
  /\ rec.value # "none" => rec.token = "none"
  /\ rec.left > 0 => rec.value # "none" \/ rec.token # "none"

ValueInv == \A k \in Key : Sound(records[k])

DedupInv == TypeOK /\ OwnInv /\ ValueInv

\* No record is held and no call runs in the beginning.
LEMMA DedupInit == Init => DedupInv
<1> SUFFICES ASSUME Init PROVE DedupInv
  OBVIOUS
<1>1. TypeOK
  BY DedupAssumption, SMT DEF Init, TypeOK, None
<1>2. OwnInv
  BY DEF Init, OwnInv, InFlight
<1>3. ValueInv
  BY SMT DEF Init, ValueInv, Sound, None
<1> QED
  BY <1>1, <1>2, <1>3 DEF DedupInv

\* A sweep drops no live record, and what it leaves is a record.
LEMMA SweptKeeps ==
  ASSUME TypeOK, ValueInv
  PROVE  /\ Swept(records) \in [Key -> Record]
         /\ \A k \in Key : Live(k) => Swept(records)[k] = records[k]
         /\ \A k \in Key : Sound(Swept(records)[k])
<1>1. None \in Record /\ Sound(None)
  BY DedupAssumption, SMT DEF Record, Sound, None
<1>2. records \in [Key -> Record] /\ \A k \in Key : Sound(records[k])
  BY DEF TypeOK, ValueInv, Record
<1>3. \A k \in Key : Live(k) => records[k].left # 0
  BY <1>2, DedupAssumption, SMT DEF Live, Record
<1> QED
  BY <1>1, <1>2, <1>3 DEF Swept

\* What acquire leaves: a live record as it was, or a record of the call.
LEMMA AcquireKeeps ==
  ASSUME TypeOK, ValueInv, NEW c \in Call, NEW k \in Key
  PROVE  /\ AcquireRecords(c, k) \in [Key -> Record]
         /\ \A j \in Key : Live(j) => AcquireRecords(c, k)[j] = records[j]
         /\ ~Live(k) => AcquireRecords(c, k)[k] = Running(c)
         /\ \A j \in Key : Sound(AcquireRecords(c, k)[j])
<1>1. Running(c) \in Record /\ Sound(Running(c))
  BY DedupAssumption, SMT DEF Running, Record, Sound
<1> QED
  BY <1>1, SweptKeeps DEF AcquireRecords

\* A complete writes a record of its own only.
LEMMA CompleteOwns ==
  ASSUME DedupInv, NEW c \in Call, Complete(c)
  PROVE  /\ records' = records \/ (/\ calls[c].key \in Key /\ Holds(c)
                                   /\ records' = [records EXCEPT ![calls[c].key] = Stored(c)])
         /\ Stored(c) \in Record /\ Sound(Stored(c))
<1>1. InFlight(c)
  BY DEF Complete, InFlight
<1>2. Stored(c) \in Record /\ Sound(Stored(c))
  BY DedupAssumption, SMT DEF Stored, Record, Sound
<1> QED
  BY <1>1, <1>2 DEF DedupInv, OwnInv, Complete, Completes

\* A release deletes a record of its own only.
LEMMA ReleaseOwns ==
  ASSUME DedupInv, NEW c \in Call, Release(c)
  PROVE  /\ records' = records \/ (/\ calls[c].key \in Key /\ Holds(c)
                                   /\ records' = [records EXCEPT ![calls[c].key] = None])
         /\ None \in Record /\ Sound(None)
<1>1. InFlight(c)
  BY DEF Release, InFlight
<1>2. None \in Record /\ Sound(None)
  BY DedupAssumption, SMT DEF None, Record, Sound
<1> QED
  BY <1>1, <1>2 DEF DedupInv, OwnInv, Release, Releases

\* A step of a call keeps the invariant.
LEMMA DoInv ==
  ASSUME DedupInv, NEW c \in Call, Do(c)
  PROVE  DedupInv'
<1> USE DEF DedupInv
<1>1. ASSUME NEW k \in Key, Acquire(c, k) PROVE DedupInv'
  <2>0. /\ records' \in [Key -> Record]
        /\ \A j \in Key : Live(j) => records'[j] = records[j]
        /\ ~Live(k) => records'[k] = Running(c)
        /\ \A j \in Key : Sound(records'[j])
    BY <1>1, AcquireKeeps DEF Acquire
  <2>a. CASE ~Live(k)
    <3>1. calls' = [calls EXCEPT ![c] = [pc |-> "fn", key |-> k, got |-> "nothing"]]
      BY <1>1, <2>a DEF Acquire, AcquireState, At
    <3>2. lease' = [lease EXCEPT ![c] = Lease]
      BY <1>1, <2>a DEF Acquire, AcquireState
    <3>3. TypeOK'
      BY <1>1, <2>0, <3>1, <3>2, DedupAssumption, SMT DEF Acquire, TypeOK, Sweeps, Record
    <3>4. OwnInv'
      BY <2>0, <2>a, <3>1, <3>2, SMT DEF TypeOK, Live, OwnInv, InFlight, Holds, Running
    <3> QED
      BY <2>0, <3>3, <3>4 DEF ValueInv
  <2>b. CASE Live(k)
    <3>1. PICK got \in {"inProgress"} \cup Call :
            calls' = [calls EXCEPT ![c] = [pc |-> "returned", key |-> k, got |-> got]]
      <4>1. CASE records[k].token # "none"
        BY <1>1, <2>b, <4>1 DEF Acquire, AcquireState, At
      <4>2. CASE records[k].token = "none"
        <5>1. records[k].value \in Call
          BY <2>b, <4>2 DEF ValueInv, Sound, Live, TypeOK
        <5> QED
          BY <1>1, <2>b, <4>2, <5>1 DEF Acquire, AcquireState, At
      <4> QED
        BY <4>1, <4>2
    <3>2. lease' = [lease EXCEPT ![c] = 0]
      BY <1>1, <2>b DEF Acquire, AcquireState
    <3>3. TypeOK'
      BY <1>1, <2>0, <3>1, <3>2, DedupAssumption, SMT DEF Acquire, TypeOK, Sweeps, Record
    <3>4. OwnInv'
      BY <2>0, <3>1, <3>2, SMT DEF TypeOK, Live, OwnInv, InFlight, Holds
    <3> QED
      BY <2>0, <3>3, <3>4 DEF ValueInv
  <2> QED
    BY <2>a, <2>b
<1>2. ASSUME NEW k \in Key, AcquireFails(c, k) PROVE DedupInv'
  <2>0. /\ records' \in [Key -> Record]
        /\ \A j \in Key : Live(j) => records'[j] = records[j]
        /\ \A j \in Key : Sound(records'[j])
    BY <1>2, AcquireKeeps, SMT DEF AcquireFails, TypeOK, ValueInv, Record
  <2>1. TypeOK'
    BY <1>2, <2>0, SMT DEF AcquireFails, TypeOK, At, Record
  <2>2. OwnInv'
    BY <1>2, <2>0, SMT DEF AcquireFails, TypeOK, At, Live, OwnInv, InFlight, Holds
  <2>3. ValueInv'
    BY <2>0 DEF ValueInv
  <2> QED
    BY <2>1, <2>2, <2>3
<1>3. ASSUME FnReturns(c) PROVE DedupInv'
  <2>1. TypeOK'
    BY <1>3, SMT DEF FnReturns, TypeOK, At, Goto
  <2>2. OwnInv'
    BY <1>3, SMT DEF FnReturns, TypeOK, At, Goto, OwnInv, InFlight, Holds
  <2>3. ValueInv'
    BY <1>3 DEF FnReturns, ValueInv
  <2> QED
    BY <2>1, <2>2, <2>3
<1>4. ASSUME Complete(c) PROVE DedupInv'
  <2>0. /\ records' \in [Key -> Record]
        /\ \A j \in Key : records[j].token # c => records'[j] = records[j]
        /\ \A j \in Key : Sound(records'[j])
    <3>1. records \in [Key -> Record] /\ \A j \in Key : Sound(records[j])
      BY DEF TypeOK, ValueInv, Record
    <3> QED
      BY <1>4, <3>1, CompleteOwns DEF Holds
  <2>1. TypeOK'
    BY <1>4, <2>0, DedupAssumption, SMT DEF Complete, TypeOK, At, Returns, Record
  <2>2. OwnInv'
    BY <1>4, <2>0, SMT DEF Complete, TypeOK, At, Returns, OwnInv, InFlight, Holds
  <2>3. ValueInv'
    BY <2>0 DEF ValueInv
  <2> QED
    BY <2>1, <2>2, <2>3
<1>5. ASSUME Release(c) PROVE DedupInv'
  <2>0. /\ records' \in [Key -> Record]
        /\ \A j \in Key : records[j].token # c => records'[j] = records[j]
        /\ \A j \in Key : Sound(records'[j])
    <3>1. records \in [Key -> Record] /\ \A j \in Key : Sound(records[j])
      BY DEF TypeOK, ValueInv, Record
    <3> QED
      BY <1>5, <3>1, ReleaseOwns DEF Holds
  <2>1. TypeOK'
    BY <1>5, <2>0, DedupAssumption, SMT DEF Release, TypeOK, At, Returns, Record
  <2>2. OwnInv'
    BY <1>5, <2>0, SMT DEF Release, TypeOK, At, Returns, OwnInv, InFlight, Holds
  <2>3. ValueInv'
    BY <2>0 DEF ValueInv
  <2> QED
    BY <2>1, <2>2, <2>3
<1>6. ASSUME Crash(c) PROVE DedupInv'
  <2>1. TypeOK'
    BY <1>6, DedupAssumption, SMT DEF Crash, TypeOK, At, Goto
  <2>2. OwnInv'
    BY <1>6, SMT DEF Crash, TypeOK, At, Goto, OwnInv, InFlight, Holds
  <2>3. ValueInv'
    BY <1>6 DEF Crash, ValueInv
  <2> QED
    BY <2>1, <2>2, <2>3
<1> QED
  BY <1>1, <1>2, <1>3, <1>4, <1>5, <1>6 DEF Do

\* So does the time that passes: records and leases lose a tick together.
LEMMA TickInv ==
  ASSUME DedupInv, Tick
  PROVE  DedupInv'
<1> USE DEF DedupInv
<1>0. ASSUME NEW k \in Key
      PROVE  /\ records'[k] \in Record
             /\ records'[k].token = records[k].token /\ records'[k].value = records[k].value
             /\ records'[k].left = Less(records[k].left)
             /\ Sound(records'[k])
  <2>1. records[k] \in Record /\ Sound(records[k])
    BY DEF TypeOK, ValueInv, Record
  <2>2. records'[k] = [records[k] EXCEPT !.left = Less(@)]
    BY DEF Tick
  <2>3. Less(records[k].left) \in 0 .. (Lease + TTL)
    BY <2>1, DedupAssumption, SMT DEF Record, Less
  <2> QED
    BY <2>1, <2>2, <2>3, DedupAssumption, SMT DEF Record, Sound, Less
<1>1. TypeOK'
  <2>1. records' \in [Key -> Record]
    BY <1>0 DEF Tick
  <2> QED
    BY <2>1, DedupAssumption, SMT DEF Tick, TypeOK, Less, Record
<1>2. OwnInv'
  BY <1>0, SMT DEF Tick, TypeOK, Less, OwnInv, InFlight, Holds
<1>3. ValueInv'
  BY <1>0 DEF ValueInv
<1> QED
  BY <1>1, <1>2, <1>3

\* Every step keeps the invariant.
LEMMA DedupStep == DedupInv /\ [Next]_dedupVars => DedupInv'
<1> SUFFICES ASSUME DedupInv, [Next]_dedupVars PROVE DedupInv'
  OBVIOUS
<1>1. CASE UNCHANGED dedupVars
  BY <1>1 DEF dedupVars, DedupInv, TypeOK, OwnInv, ValueInv, InFlight, Holds
<1>2. CASE Next
  BY <1>2, DoInv, TickInv DEF Next
<1> QED
  BY <1>1, <1>2

\* The invariant holds from the start.
LEMMA DedupAlways == Spec => []DedupInv
BY DedupInit, DedupStep, PTL DEF Spec

\* Inside its lease a call owns the record of its key, whatever calls that lost
\* theirs still complete or release, and whatever is swept (Keeper.Do, the
\* stores).
THEOREM DedupLease == Spec => []LeaseIsKept
<1>1. DedupInv => LeaseIsKept
  BY SMT DEF DedupInv, TypeOK, OwnInv, LeaseIsKept, Live, InFlight
<1> QED
  BY <1>1, DedupAlways, PTL

\* A stored success is neither replaced nor deleted before its TTL ends
\* (store.complete, store.release, memory.sweep).
THEOREM DedupSuccess == Spec => SuccessIsFinal
<1> DEFINE Final == \A k \in Key :
                      Live(k) /\ records[k].value # "none" => records'[k].value = records[k].value
<1>1. DedupInv /\ [Next]_dedupVars => [Final]_dedupVars
  <2> SUFFICES ASSUME DedupInv, Next, NEW k \in Key, Live(k), records[k].value # "none"
               PROVE  records'[k].value = records[k].value
    OBVIOUS
  <2> USE DEF DedupInv
  <2>1. records[k].token = "none"
    BY DEF ValueInv, Sound
  <2>2. ASSUME NEW c \in Call, Holds(c) PROVE calls[c].key # k
    BY <2>1, <2>2, DedupAssumption DEF Holds
  <2>3. ASSUME NEW c \in Call, NEW j \in Key, Acquire(c, j) \/ AcquireFails(c, j)
        PROVE  records'[k].value = records[k].value
    BY <2>3, AcquireKeeps, SMT DEF Acquire, AcquireFails
  <2>4. ASSUME NEW c \in Call, Complete(c) PROVE records'[k].value = records[k].value
    BY <2>2, <2>4, CompleteOwns, SMT DEF TypeOK
  <2>5. ASSUME NEW c \in Call, Release(c) PROVE records'[k].value = records[k].value
    BY <2>2, <2>5, ReleaseOwns, SMT DEF TypeOK
  <2>6. ASSUME Tick PROVE records'[k].value = records[k].value
    BY <2>6, SMT DEF Tick, TypeOK
  <2> QED
    BY <2>3, <2>4, <2>5, <2>6 DEF Next, Do, FnReturns, Crash
<1> QED
  BY <1>1, DedupAlways, PTL DEF Spec, SuccessIsFinal

-----------------------------------------------------------------------------
(* Lock                                                                       *)

\* Who is inside a grant holds the lock, for exactly the time left of the grant;
\* and a connection that is checked out is the session of the lock.
GrantInv ==
  \A h \in Holder :
    /\ leased[h] > 0 => lock.by = h /\ lock.left = leased[h]
    /\ h \in conn => backend = "pg" /\ lock.by = h

LockInv == LockTypeOK /\ GrantInv

\* The lock is free in the beginning.
LEMMA LockInvInit == LockInit => LockInv
BY LockAssumption, SMT DEF LockInit, LockInv, LockTypeOK, GrantInv, Free

\* Every step of a holder, of the server and of the clock keeps the grants.
LEMMA LockInvNext == LockInv /\ [LockNext]_lockVars => LockInv'
<1> SUFFICES ASSUME LockInv, [LockNext]_lockVars PROVE LockInv'
  OBVIOUS
<1> USE LockAssumption DEF LockInv, LockTypeOK, GrantInv, Free, Held, HolderGoto, Disconnect
<1>1. ASSUME NEW h \in Holder, PGTryLock(h) PROVE LockInv'
  BY <1>1, SMT DEF PGTryLock
<1>2. ASSUME NEW h \in Holder, PGTryLockFails(h) PROVE LockInv'
  BY <1>2 DEF PGTryLockFails
<1>3. ASSUME NEW h \in Holder, PGRelease(h) PROVE LockInv'
  BY <1>3, SMT DEF PGRelease
<1>4. ASSUME NEW h \in Holder, ConnDies(h) PROVE LockInv'
  BY <1>4, SMT DEF ConnDies
<1>5. ASSUME NEW h \in Holder, RedisTryLock(h) PROVE LockInv'
  BY <1>5, SMT DEF RedisTryLock
<1>6. ASSUME NEW h \in Holder, RedisRelease(h) PROVE LockInv'
  BY <1>6, SMT DEF RedisRelease, ReleaseScript
<1>7. ASSUME NEW h \in Holder, HolderCrash(h) PROVE LockInv'
  BY <1>7, SMT DEF HolderCrash
<1>8. CASE LockTick
  BY <1>8, SMT DEF LockTick
<1>9. CASE UNCHANGED lockVars
  BY <1>9 DEF lockVars
<1> QED
  BY <1>1, <1>2, <1>3, <1>4, <1>5, <1>6, <1>7, <1>8, <1>9 DEF LockNext

\* A grant of lock.PG and of lock.Redis excludes every other, whatever releases come
\* late, connections die and keys expire (releaseScript, PG.TryLock).
THEOREM LockExclusive == LockSpec => []LockSafety
<1>1. LockInv => LockSafety
  BY DEF LockInv, GrantInv, LockSafety, GrantIsExclusive
<1> QED
  BY <1>1, LockInvInit, LockInvNext, PTL DEF LockSpec

-----------------------------------------------------------------------------
(* Settings                                                                   *)

\* What the polls of a replica hold, and that a Save that has read the row read
\* its own document or a later one.
SettingsInv ==
  /\ stored \in Nat
  /\ current \in [Replica -> Nat]
  /\ loop \in [Replica -> [pc : {"wait", "poll", "fetched", "returned"}, doc : Nat]]
  /\ save \in [Replica -> [pc : {"idle", "poll", "fetched"}, doc : Nat, wrote : Nat]]
  /\ \A r \in Replica :
       /\ save[r].wrote <= stored
       /\ save[r].pc = "fetched" => save[r].doc >= save[r].wrote

\* Nothing is saved in the beginning.
LEMMA SettingsInvInit == SettingsInit => SettingsInv
BY SMT DEF SettingsInit, SettingsInv, Idle

\* The row is written before it is read, whoever else writes in between.
LEMMA SettingsInvNext == SettingsInv /\ [SettingsNext]_settingsVars => SettingsInv'
<1> SUFFICES ASSUME SettingsInv, [SettingsNext]_settingsVars PROVE SettingsInv'
  OBVIOUS
<1> USE DEF SettingsInv, Idle
<1>1. ASSUME NEW r \in Replica, Loop(r) PROVE SettingsInv'
  <2>1. loop' \in [Replica -> [pc : {"wait", "poll", "fetched", "returned"}, doc : Nat]]
    <3>1. CASE LoopTick(r)
      BY <3>1 DEF LoopTick
    <3>2. CASE LoopFetch(r)
      BY <3>2 DEF LoopFetch
    <3>3. CASE LoopFetchFails(r)
      BY <3>3 DEF LoopFetchFails
    <3>4. CASE LoopApply(r) \/ LoopReturns(r)
      BY <3>4, SMT DEF LoopApply, LoopReturns
    <3> QED
      BY <1>1, <3>1, <3>2, <3>3, <3>4 DEF Loop
  <2>2. current' \in [Replica -> Nat] /\ UNCHANGED <<stored, save>>
    BY <1>1 DEF Loop, LoopTick, LoopFetch, LoopFetchFails, LoopApply, LoopReturns
  <2> QED
    BY <2>1, <2>2
<1>2. ASSUME NEW r \in Replica, SaveStores(r) PROVE SettingsInv'
  BY <1>2, SMT DEF SaveStores
<1>3. ASSUME NEW r \in Replica, SaveFetch(r) PROVE SettingsInv'
  BY <1>3 DEF SaveFetch
<1>4. ASSUME NEW r \in Replica, SaveFetchFails(r) \/ SaveApply(r) PROVE SettingsInv'
  <2>1. /\ save' = [save EXCEPT ![r] = [pc |-> "idle", doc |-> 0, wrote |-> 0]]
        /\ UNCHANGED <<stored, loop>>
    BY <1>4 DEF SaveFetchFails, SaveApply
  <2>2. current' \in [Replica -> Nat]
    BY <1>4 DEF SaveFetchFails, SaveApply
  <2>3. save' \in [Replica -> [pc : {"idle", "poll", "fetched"}, doc : Nat, wrote : Nat]]
    BY <2>1
  <2>4. ASSUME NEW q \in Replica
        PROVE  /\ save'[q].wrote <= stored'
               /\ save'[q].pc = "fetched" => save'[q].doc >= save'[q].wrote
    <3>1. CASE q = r
      BY <2>1, <3>1, SMT
    <3>2. CASE q # r
      BY <2>1, <3>2
    <3> QED
      BY <3>1, <3>2
  <2> QED
    BY <2>1, <2>2, <2>3, <2>4
<1>5. ASSUME NEW r \in Replica, Cancel(r) PROVE SettingsInv'
  BY <1>5 DEF Cancel
<1>6. CASE UNCHANGED settingsVars
  BY <1>6 DEF settingsVars
<1> QED
  BY <1>1, <1>2, <1>3, <1>4, <1>5, <1>6 DEF SettingsNext, Save

\* A step in which a Save returns applies what it read.
LEMMA SettingsStep ==
  SettingsInv /\ [SettingsNext]_settingsVars => SaveReadsItsWrite
<1> SUFFICES ASSUME SettingsInv, [SettingsNext]_settingsVars, NEW r \in Replica,
                    save[r].pc = "fetched", save'[r].pc = "idle"
             PROVE  current'[r] >= save[r].wrote
  BY DEF SaveReadsItsWrite
<1>1. SaveApply(r)
  BY DEF SettingsInv, SettingsNext, settingsVars, Loop, LoopTick, LoopFetch, LoopFetchFails, LoopApply,
         LoopReturns, Save, SaveStores, SaveFetch, SaveFetchFails, SaveApply, Cancel, Idle
<1> QED
  BY <1>1 DEF SaveApply, SettingsInv

\* A Save never shows its own replica a document older than the one it stored
\* (Settings.Save, Poller.Poll).
THEOREM SettingsReadsItsWrite == SettingsSpec => [][SaveReadsItsWrite]_settingsVars
BY SettingsInvInit, SettingsInvNext, SettingsStep, PTL DEF SettingsSpec

-----------------------------------------------------------------------------
(* Partition                                                                  *)

\* The number of the period of a day: the last one that has begun.
LEMMA StartOfIsLast ==
  ASSUME NEW t \in Nat
  PROVE  /\ StartOf(t) \in 1 .. Len(PeriodStart)
         /\ \A i \in 1 .. Len(PeriodStart) : PeriodStart[i] <= t <=> i <= StartOf(t)
<1> DEFINE S == {i \in DOMAIN PeriodStart : PeriodStart[i] <= t}
           n == Len(PeriodStart)
<1>0. n \in Nat /\ n >= 1 /\ DOMAIN PeriodStart = 1 .. n /\ \A i \in 1 .. n : PeriodStart[i] \in Nat
  BY PartitionAssumption, SMT
<1>1. IsFiniteSet(1 .. n) /\ Cardinality(1 .. n) = n
  BY <1>0, FS_Interval, SMT
<1>2. S \subseteq 1 .. n
  BY <1>0
<1>3. IsFiniteSet(S) /\ Cardinality(S) \in Nat /\ Cardinality(S) <= n
  BY <1>1, <1>2, FS_Subset, FS_CardinalityType
<1>4. ASSUME NEW i \in 1 .. n, PeriodStart[i] <= t PROVE i <= Cardinality(S)
  <2>1. 1 .. i \subseteq S
    <3> SUFFICES ASSUME NEW j \in 1 .. i PROVE j \in S
      OBVIOUS
    <3>0. j \in 1 .. n /\ i \in 1 .. n /\ (j = i \/ j < i)
      BY <1>0, SMT
    <3>1. j = i \/ PeriodStart[j] < PeriodStart[i]
      BY <1>0, <3>0, PartitionAssumption
    <3> QED
      BY <1>0, <1>4, <3>0, <3>1, SMT
  <2>2. Cardinality(1 .. i) = i
    BY FS_Interval, SMT
  <2> QED
    BY <1>3, <2>1, <2>2, FS_Subset, SMT
<1>5. ASSUME NEW i \in 1 .. n, ~(PeriodStart[i] <= t) PROVE ~(i <= Cardinality(S))
  <2>1. S \subseteq 1 .. (i - 1)
    <3> SUFFICES ASSUME NEW j \in S PROVE j \in 1 .. (i - 1)
      OBVIOUS
    <3>1. j \in 1 .. n /\ PeriodStart[j] <= t
      BY <1>0
    <3>2. ~(j = i) /\ ~(i < j)
      BY <1>0, <1>5, <3>1, PartitionAssumption, SMT
    <3> QED
      BY <3>1, <3>2, SMT
  <2>2. IsFiniteSet(1 .. (i - 1)) /\ Cardinality(1 .. (i - 1)) = i - 1
    BY FS_Interval, SMT
  <2> QED
    BY <1>3, <2>1, <2>2, FS_Subset, SMT
<1>6. 1 <= Cardinality(S)
  BY <1>0, <1>4, PartitionAssumption, SMT
<1> QED
  BY <1>3, <1>4, <1>5, <1>6, SMT DEF StartOf


\* The later of two days has the later period, and a period that has not ended yet
\* on a day is not before the one of the day.
LEMMA StartOfGrows ==
  ASSUME NEW s \in Nat, NEW t \in Nat, s <= t
  PROVE  StartOf(s) <= StartOf(t)
<1>1. StartOf(s) \in 1 .. Len(PeriodStart) /\ PeriodStart[StartOf(s)] <= s
  BY StartOfIsLast, SMT
<1>2. PeriodStart[StartOf(s)] \in Nat
  BY <1>1, PartitionAssumption, SMT
<1>3. PeriodStart[StartOf(s)] <= t
  BY <1>1, <1>2, SMT
<1> QED
  BY <1>1, <1>3, StartOfIsLast

\* A partition that has expired lies before the period of the day.
LEMMA ExpiredIsPast ==
  ASSUME NEW now \in Nat, NEW p \in Part, Expired(now, p)
  PROVE  /\ p.from < StartOf(now)
         /\ \A d \in Nat : StartOf(d) = p.from => d + Retention <= now
<1>1. p.from \in 1 .. (Len(PeriodStart) - 1) /\ Len(PeriodStart) \in Nat
  BY PartitionAssumption, SMT DEF Part
<1>2. p.from + 1 \in 1 .. Len(PeriodStart) /\ End(p) = PeriodStart[p.from + 1] /\ End(p) \in Nat
  <2>1. p.from + 1 \in 1 .. Len(PeriodStart)
    BY <1>1, SMT
  <2>2. PeriodStart[p.from + 1] \in Nat
    BY <2>1, PartitionAssumption, SMT
  <2> QED
    BY <2>1, <2>2 DEF End
<1>3. Retention \in Nat /\ End(p) + Retention <= now
  BY PartitionAssumption DEF Expired
<1>4. p.from + 1 <= StartOf(now)
  <2>1. PeriodStart[p.from + 1] <= now <=> p.from + 1 <= StartOf(now)
    BY <1>2, StartOfIsLast, Zenon
  <2> QED
    BY <1>2, <1>3, <2>1, SMT
<1>5. ASSUME NEW d \in Nat, StartOf(d) = p.from PROVE d + Retention <= now
  <2>0. PeriodStart[p.from + 1] <= d <=> p.from + 1 <= StartOf(d)
    BY <1>2, StartOfIsLast, Zenon
  <2>1. ~(End(p) <= d)
    BY <1>1, <1>2, <1>5, <2>0, SMT
  <2> QED
    BY <1>2, <1>3, <2>1, SMT
<1>6. StartOf(now) \in Nat
  BY StartOfIsLast, SMT
<1> QED
  BY <1>1, <1>4, <1>5, <1>6, SMT

\* What a plan of day now asks for.
Asked(now) == [table : Table, from : StartOf(now) .. (StartOf(now) + Ahead)]

\* A plan has all the partitions it asks for, and keeps the ones that are not
\* expired.
LEMMA PlanIsWhole ==
  ASSUME NEW now \in 0 .. MaxDay, NEW parts \in SUBSET Part
  PROVE  /\ Planned(now, parts) \subseteq Part
         /\ Asked(now) \subseteq Planned(now, parts)
         /\ \A p \in parts : p \in Planned(now, parts) \/ Expired(now, p)
         /\ Planned(now, parts) = {p \in parts : ~Expired(now, p)} \cup Asked(now)
<1>0. now \in Nat /\ MaxDay \in Nat /\ now <= MaxDay
  BY PartitionAssumption, SMT
<1>1. StartOf(now) \in 1 .. Len(PeriodStart) /\ StartOf(now) <= StartOf(MaxDay)
      /\ StartOf(MaxDay) \in Nat /\ Len(PeriodStart) \in Nat
  <2>1. StartOf(now) \in 1 .. Len(PeriodStart) /\ StartOf(MaxDay) \in 1 .. Len(PeriodStart)
    BY <1>0, StartOfIsLast, Zenon
  <2>2. StartOf(now) <= StartOf(MaxDay)
    BY <1>0, StartOfGrows, Zenon
  <2>3. Len(PeriodStart) \in Nat
    BY PartitionAssumption, SMT
  <2> QED
    BY <2>1, <2>2, <2>3, SMT
<1>2. Asked(now) \subseteq Part
  BY <1>1, PartitionAssumption, SMT DEF Asked, Part
<1>3. ASSUME NEW p \in Asked(now) PROVE ~Expired(now, p)
  <2>1. p \in Part /\ p.from >= StartOf(now) /\ p.from \in Nat
    BY <1>1, <1>2, PartitionAssumption, SMT DEF Asked
  <2>2. ~(p.from < StartOf(now))
    BY <1>1, <2>1, SMT
  <2> QED
    BY <1>0, <2>1, <2>2, ExpiredIsPast
<1>4. Creates(now, parts) = Asked(now) \ parts
  BY DEF Creates, Asked
<1>5. Drops(now, parts) = {p \in parts : Expired(now, p)}
  BY DEF Drops
<1>6. Planned(now, parts) = {p \in parts : ~Expired(now, p)} \cup Asked(now)
  BY <1>3, <1>4, <1>5, Zenon DEF Planned
<1> QED
  BY <1>2, <1>6

\* "A second run changes nothing": planning twice on a day is planning once.
LEMMA PlanTwice ==
  ASSUME NEW now \in 0 .. MaxDay, NEW parts \in SUBSET Part
  PROVE  Planned(now, Planned(now, parts)) = Planned(now, parts)
<1> DEFINE once == Planned(now, parts)
<1>1. once \subseteq Part /\ Asked(now) \subseteq once
      /\ once = {p \in parts : ~Expired(now, p)} \cup Asked(now)
  BY PlanIsWhole
<1>2. Planned(now, once) = {p \in once : ~Expired(now, p)} \cup Asked(now)
  BY <1>1, PlanIsWhole
<1> QED
  BY <1>1, <1>2, Zenon

\* Nobody's clock is ahead, and the partitions that the latest run asked for are
\* there: a later run drops only what lies before its own period.
CreatedInv ==
  /\ \A r \in Keeper : ptRun[r].now <= ptDay
  /\ ptLast # NoLast => ptLast <= ptDay /\ Asked(ptLast) \subseteq ptParts

PartitionInv == PartitionTypeOK /\ CreatedInv

\* The invariant of the partition manager holds initially.
LEMMA PartitionInvInit == PartitionInit => PartitionInv
BY PartitionAssumption, SMT DEF PartitionInit, PartitionInv, PartitionTypeOK, CreatedInv, NoRun, NoLast

\* The later of two runs, for the clock they read.
LEMMA Later ==
  ASSUME NEW a \in Nat, NEW b \in Nat
  PROVE  Max({a, b}) = IF a <= b THEN b ELSE a
<1>1. CASE a <= b
  <2>1. b \in {a, b} /\ \A y \in {a, b} : b >= y
    BY <1>1, SMT
  <2>2. \A x \in {a, b} : (\A y \in {a, b} : x >= y) => x = b
    BY <1>1, SMT
  <2> QED
    BY <1>1, <2>1, <2>2 DEF Max
<1>2. CASE ~(a <= b)
  <2>1. a \in {a, b} /\ \A y \in {a, b} : a >= y
    BY <1>2, SMT
  <2>2. \A x \in {a, b} : (\A y \in {a, b} : x >= y) => x = a
    BY <1>2
  <2> QED
    BY <1>2, <2>1, <2>2, SMT DEF Max
<1> QED
  BY <1>1, <1>2


\* The partitions the latest run asked for outlive the plan of any other run.
LEMMA CommitKeeps ==
  ASSUME PartitionInv, NEW r \in Keeper, MaintainCommits(r)
  PROVE  PartitionInv'
<1> DEFINE now == ptRun[r].now
           NextLast == IF ptLast = NoLast THEN now ELSE Max({ptLast, now})
<1>1. /\ now \in 0 .. MaxDay /\ now \in Nat /\ now <= ptDay /\ ptDay \in 0 .. MaxDay
      /\ ptParts \in SUBSET Part /\ MaxDay \in Nat /\ ptLast \in 0 .. (MaxDay + 1)
  BY PartitionAssumption, SMT DEF PartitionInv, PartitionTypeOK, CreatedInv, NoLast
<1>2. /\ ptParts' = Planned(now, ptParts) /\ ptLast' = NextLast /\ ptDay' = ptDay
      /\ ptRun' = [ptRun EXCEPT ![r] = NoRun]
      /\ ptRows' \subseteq ptRows
  BY DEF MaintainCommits
<1>3. \/ NextLast = now
      \/ ptLast # NoLast /\ NextLast = ptLast /\ now <= ptLast
  <2>1. CASE ptLast = NoLast
    BY <2>1
  <2>2. CASE ptLast # NoLast
    <3>1. NextLast = IF ptLast <= now THEN now ELSE ptLast
      BY <1>1, <2>2, Later, SMT
    <3> QED
      BY <1>1, <2>2, <3>1, SMT
  <2> QED
    BY <2>1, <2>2
<1>4. /\ ptParts' \subseteq Part /\ Asked(now) \subseteq ptParts'
      /\ \A p \in ptParts : p \in ptParts' \/ Expired(now, p)
  BY <1>1, <1>2, PlanIsWhole
<1>5. Asked(NextLast) \subseteq ptParts'
  <2>1. CASE NextLast = now
    BY <1>4, <2>1
  <2>2. CASE ptLast # NoLast /\ NextLast = ptLast /\ now <= ptLast
    <3>0. ptLast \in Nat /\ ptLast <= ptDay /\ Asked(ptLast) \subseteq ptParts
      BY <1>1, <2>2, SMT DEF PartitionInv, CreatedInv
    <3> SUFFICES ASSUME NEW p \in Asked(ptLast) PROVE ~Expired(now, p)
      BY <1>4, <2>2, <3>0
    <3>1. p \in Part /\ p.from >= StartOf(ptLast)
      BY <1>1, <3>0, SMT DEF Asked
    <3>2. StartOf(now) <= StartOf(ptLast)
      BY <1>1, <2>2, <3>0, StartOfGrows
    <3>3. StartOf(now) \in Nat /\ StartOf(ptLast) \in Nat /\ p.from \in Nat
      <4>1. StartOf(now) \in Nat /\ StartOf(ptLast) \in Nat
        <5>1. StartOf(now) \in 1 .. Len(PeriodStart) /\ StartOf(ptLast) \in 1 .. Len(PeriodStart)
          BY <1>1, <3>0, StartOfIsLast, Zenon
        <5> QED
          BY <5>1, SMT
      <4> QED
        BY <4>1, <3>1, PartitionAssumption, SMT DEF Part
    <3>4. ~(p.from < StartOf(now))
      BY <3>1, <3>2, <3>3, SMT
    <3> QED
      BY <1>1, <3>1, <3>4, ExpiredIsPast
  <2> QED
    BY <1>3, <2>1, <2>2
<1>6. NextLast \in 0 .. MaxDay /\ NextLast <= ptDay
  BY <1>1, <1>3, SMT DEF PartitionInv, CreatedInv, NoLast
<1>7. PartitionTypeOK'
  <2>1. ptRun' \in [Keeper -> [waits : BOOLEAN, now : 0 .. MaxDay]]
    BY <1>1, <1>2, SMT DEF PartitionInv, PartitionTypeOK, NoRun
  <2>2. ptRows' \subseteq [table : Table, day : 0 .. MaxDay]
    BY <1>2 DEF PartitionInv, PartitionTypeOK
  <2>3. ptLast' \in 0 .. NoLast /\ ptDay' \in 0 .. MaxDay
    BY <1>1, <1>2, <1>6, SMT DEF NoLast
  <2> QED
    BY <1>4, <2>1, <2>2, <2>3 DEF PartitionTypeOK
<1>8. CreatedInv'
  <2>1. \A q \in Keeper : ptRun'[q].now <= ptDay'
    BY <1>1, <1>2, SMT DEF PartitionInv, PartitionTypeOK, CreatedInv, NoRun
  <2>2. (Asked(ptLast) \subseteq ptParts)'
    BY <1>2, <1>5 DEF Asked, StartOf, Table
  <2> QED
    BY <1>2, <1>6, <2>1, <2>2 DEF CreatedInv
<1> QED
  BY <1>7, <1>8 DEF PartitionInv

\* Every step of a keeper, of a writer of rows and of the clock.
LEMMA PartitionInvNext == PartitionInv /\ [PartitionNext]_ptVars => PartitionInv'
<1> SUFFICES ASSUME PartitionInv, [PartitionNext]_ptVars PROVE PartitionInv'
  OBVIOUS
<1> USE PartitionAssumption DEF PartitionInv, PartitionTypeOK, CreatedInv, NoRun, NoLast
<1>1. ASSUME NEW r \in Keeper, Maintain(r) PROVE PartitionInv'
  BY <1>1, SMT DEF Maintain
<1>2. ASSUME NEW r \in Keeper, MaintainCommits(r) PROVE PartitionInv'
  BY <1>2, CommitKeeps
<1>3. ASSUME NEW r \in Keeper, MaintainFails(r) PROVE PartitionInv'
  BY <1>3, SMT DEF MaintainFails
<1>4. ASSUME NEW t \in Table, Insert(t) PROVE PartitionInv'
  BY <1>4, SMT DEF Insert
<1>5. CASE Midnight
  BY <1>5, SMT DEF Midnight
<1>6. CASE UNCHANGED ptVars
  BY <1>6 DEF ptVars
<1> QED
  BY <1>1, <1>2, <1>3, <1>4, <1>5, <1>6 DEF PartitionNext

\* The invariant says what PartitionSafety promises.
LEMMA PartitionInvSafe == PartitionInv => PartitionSafety
<1> SUFFICES ASSUME PartitionInv PROVE PartitionSafety
  OBVIOUS
<1>1. ptDay \in 0 .. MaxDay /\ ptDay \in Nat /\ ptParts \in SUBSET Part
  BY PartitionAssumption, SMT DEF PartitionInv, PartitionTypeOK
<1>2. SecondRunIsIdle
  BY <1>1, PlanTwice DEF SecondRunIsIdle
<1>3. ASSUME ptLast # NoLast, NEW t \in Table, StartOf(ptDay) - StartOf(ptLast) <= Ahead
      PROVE  [table |-> t, from |-> StartOf(ptDay)] \in ptParts
  <2>1. ptLast \in Nat /\ ptLast <= ptDay /\ Asked(ptLast) \subseteq ptParts
    BY <1>3, PartitionAssumption, SMT DEF PartitionInv, PartitionTypeOK, CreatedInv, NoLast
  <2>2. StartOf(ptLast) <= StartOf(ptDay)
    BY <1>1, <2>1, StartOfGrows
  <2>3. StartOf(ptLast) \in 1 .. Len(PeriodStart) /\ StartOf(ptDay) \in 1 .. Len(PeriodStart)
    BY <1>1, <2>1, StartOfIsLast, Zenon
  <2>4. StartOf(ptDay) \in StartOf(ptLast) .. (StartOf(ptLast) + Ahead)
    BY <1>3, <2>2, <2>3, PartitionAssumption, SMT
  <2> QED
    BY <2>1, <2>4 DEF Asked
<1> QED
  BY <1>2, <1>3 DEF PartitionSafety, PartitionInv, RowsHaveAPlace

\* Only a commit drops rows, and only of partitions that have expired.
LEMMA PartitionStep == PartitionInv /\ [PartitionNext]_ptVars => YoungRowsStay
<1> SUFFICES ASSUME PartitionInv, [PartitionNext]_ptVars, NEW row \in ptRows, row \notin ptRows'
             PROVE  row.day + Retention <= ptDay
  BY DEF YoungRowsStay
<1>1. PICK r \in Keeper : MaintainCommits(r)
  BY DEF PartitionNext, ptVars, Maintain, MaintainFails, Insert, Midnight
<1>2. PICK p \in Drops(ptRun[r].now, ptParts) : row \in RowsOf(p)
  BY <1>1 DEF MaintainCommits
<1>3. p \in Part /\ Expired(ptRun[r].now, p) /\ StartOf(row.day) = p.from
  BY <1>2 DEF Drops, RowsOf, PartitionInv, PartitionTypeOK
<1>4. /\ row.day \in Nat /\ ptRun[r].now \in Nat /\ ptDay \in Nat /\ Retention \in Nat
      /\ ptRun[r].now <= ptDay
  BY PartitionAssumption, SMT DEF PartitionInv, PartitionTypeOK, CreatedInv
<1>5. row.day + Retention <= ptRun[r].now
  BY <1>3, <1>4, ExpiredIsPast
<1> QED
  BY <1>4, <1>5, SMT

\* For any tables, periods and replicas, and runs that commit plans of days gone by:
\* rows of the Ahead periods after the latest run find a partition, and a second
\* run changes nothing (Keeper.Maintain, plan).
THEOREM PartitionSafe == PartitionSpec => []PartitionSafety
BY PartitionInvInit, PartitionInvNext, PartitionInvSafe, PTL DEF PartitionSpec

\* No run drops a row younger than Retention (plan, Config.Retention).
THEOREM PartitionKeepsYoung == PartitionSpec => [][YoungRowsStay]_ptVars
BY PartitionInvInit, PartitionInvNext, PartitionStep, PTL DEF PartitionSpec

-----------------------------------------------------------------------------
(* The parts side by side                                                     *)

\* Each part starts in its own invariant.
LEMMA StateInit == MCInit => SettingsInv /\ PartitionInv
BY SettingsInvInit, PartitionInvInit DEF MCInit

\* A step of one part leaves the variables of the others alone.
LEMMA StateTurn ==
  [MCNext]_mcVars => [SettingsNext]_settingsVars /\ [PartitionNext]_ptVars
BY DEF MCNext, Turn, mcVars

\* Of the two parts with promises about single steps: a Save shows its own
\* replica nothing older than it wrote, and no row younger than Retention goes.
THEOREM StateStepsKeep == MCSpec => StateSteps
<1>1. SettingsInv /\ PartitionInv /\ [MCNext]_mcVars => SettingsInv' /\ PartitionInv'
  BY StateTurn, SettingsInvNext, PartitionInvNext
<1>2. SettingsInv /\ PartitionInv /\ [MCNext]_mcVars => SaveReadsItsWrite /\ YoungRowsStay
  BY StateTurn, SettingsStep, PartitionStep
<1> QED
  BY <1>1, <1>2, StateInit, PTL DEF MCSpec, StateSteps
=============================================================================
