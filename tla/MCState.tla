------------------------------ MODULE MCState -------------------------------
(* Shared state in a store: idempotency records, locks, live settings and   *)
(* partitions.  A behaviour runs one part on its own instance; the others   *)
(* rest in one of their initial states.                                     *)
EXTENDS Dedup, Lock, Settings, Partition

CONSTANT Parts   \* the parts to check

VARIABLE part

\* Two tables, and periods of two days and of one.
MCTables == <<"a", "b">>
MCPeriodStart == <<0, 2, 3, 5, 6>>

mcVars == <<part, dedupVars, lockVars, settingsVars, ptVars>>

MCInit ==
  /\ part \in Parts
  /\ Init
  /\ (part # "dedup") => store = "memory"
  /\ LockInit
  /\ (part # "lock") => backend = "pg"
  /\ SettingsInit
  /\ PartitionInit

\* Only part p moves.
Turn(p) ==
  /\ part = p /\ UNCHANGED part
  /\ IF p = "dedup" THEN TRUE ELSE UNCHANGED dedupVars
  /\ IF p = "lock" THEN TRUE ELSE UNCHANGED lockVars
  /\ IF p = "settings" THEN TRUE ELSE UNCHANGED settingsVars
  /\ IF p = "partition" THEN TRUE ELSE UNCHANGED ptVars

MCNext ==
  \/ Turn("dedup") /\ Next
  \/ Turn("lock") /\ LockNext
  \/ Turn("settings") /\ SettingsNext
  \/ Turn("partition") /\ PartitionNext

\* The fairness of every part, as its own specification states it.
MCSpec ==
  /\ MCInit /\ [][MCNext]_mcVars
  /\ WF_dedupVars(part = "dedup" /\ Tick)
  /\ WF_lockVars(part = "lock" /\ LockTick)
  /\ \A h \in Holder : WF_lockVars(part = "lock" /\ PGRelease(h))
  /\ \A r \in Replica : WF_settingsVars(part = "settings" /\ Loop(r))
  /\ \A r \in Replica : WF_settingsVars(part = "settings" /\ (SaveFetch(r) \/ SaveApply(r)))
  /\ WF_ptVars(part = "partition" /\ Midnight)
  /\ \A r \in Keeper : WF_ptVars(part = "partition" /\ Maintain(r))
  /\ \A r \in Keeper : SF_ptVars(part = "partition" /\ MaintainCommits(r))

-----------------------------------------------------------------------------
\* Settings: a Save that returns nil leaves a current value at least as new as its
\* own.  Partition: no row younger than the retention is dropped.
StateSteps == [][SaveReadsItsWrite /\ YoungRowsStay]_mcVars

\* The stores recover.  Dedup, Lock: no key and no lock is held forever, whatever
\* happens to its holder.  Settings: the last saved value is in the end the current
\* one of every replica that runs.  Partition: in the end every expired partition
\* is dropped.
StateSettles ==
  /\ (part = "dedup") => KeyFrees
  /\ (part = "lock") => LockFrees
  /\ (part = "settings") => SavedShows
  /\ (part = "partition") => ExpiredGoes
=============================================================================
