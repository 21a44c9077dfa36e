------------------------------ MODULE Settings ------------------------------
(***************************************************************************)
(* settings.Settings over poller.Poller: the replicas of a service keep    *)
(* one stored document in memory, reread it on an interval and on a Save.  *)
(*                                                                         *)
(* A document is the number of the Save that stored it, 0 the defaults.    *)
(* The fetch of a poll and the store of its result into current are two    *)
(* steps: the interval loop and a Save of the same replica poll without a  *)
(* common lock.                                                            *)
(***************************************************************************)
EXTENDS Naturals

CONSTANTS Replica,
          MaxSaves,    \* Saves in all
          MaxFaults    \* reads and writes that fail, in all

VARIABLES stored,    \* the row of the table settings
          current,   \* poller.current of each replica
          loop,      \* Poller.Start of each replica: where it is, what it fetched
          save,      \* Settings.Save of each replica: the same, and what it wrote
          canceled,  \* replicas that shut down
          faults

settingsVars == <<stored, current, loop, save, canceled, faults>>

Idle == [pc |-> "idle", doc |-> 0, wrote |-> 0]

\* New: a failed read fails it, so a replica starts with what is stored.
SettingsInit ==
  /\ stored = 0
  /\ current = [r \in Replica |-> 0]
  /\ loop = [r \in Replica |-> [pc |-> "poll", doc |-> 0]]
  /\ save = [r \in Replica |-> Idle]
  /\ canceled = {}
  /\ faults = 0

Fault == faults < MaxFaults /\ faults' = faults + 1

-----------------------------------------------------------------------------
(* Poll, by the loop and by Save: read, then store under the write lock.     *)

\* The ticker fires, which the select may prefer to a canceled context; the
\* first poll runs before the first tick.
LoopTick(r) ==
  /\ loop[r].pc = "wait"
  /\ loop' = [loop EXCEPT ![r].pc = "poll"]
  /\ UNCHANGED <<stored, current, save, canceled, faults>>

\* read, after which the value is stored whatever else was stored since.
LoopFetch(r) ==
  /\ loop[r].pc = "poll" /\ r \notin canceled
  /\ loop' = [loop EXCEPT ![r] = [pc |-> "fetched", doc |-> stored]]
  /\ UNCHANGED <<stored, current, save, canceled, faults>>

\* An error, a panic or a canceled context leaves current as it was.
LoopFetchFails(r) ==
  /\ loop[r].pc = "poll"
  /\ (r \in canceled /\ UNCHANGED faults) \/ Fault
  /\ loop' = [loop EXCEPT ![r].pc = "wait"]
  /\ UNCHANGED <<stored, current, save, canceled>>

LoopApply(r) ==
  /\ loop[r].pc = "fetched"
  /\ current' = [current EXCEPT ![r] = loop[r].doc]
  /\ loop' = [loop EXCEPT ![r] = [pc |-> "wait", doc |-> 0]]
  /\ UNCHANGED <<stored, save, canceled, faults>>

\* Start returns on a canceled context, between two polls.
LoopReturns(r) ==
  /\ loop[r].pc = "wait" /\ r \in canceled
  /\ loop' = [loop EXCEPT ![r].pc = "returned"]
  /\ UNCHANGED <<stored, current, save, canceled, faults>>

-----------------------------------------------------------------------------
(* Settings.Save *)

SavePollsFirst(r) ==
  /\ save[r].pc = "idle" /\ stored < MaxSaves
  /\ stored' = stored + 1
  /\ save' = [save EXCEPT ![r] = [pc |-> "fetched", doc |-> stored, wrote |-> stored + 1]]
  /\ UNCHANGED <<current, loop, canceled, faults>>

\* The upsert replaces the whole row: of two Saves the last one wins.
SaveStores(r) ==
  /\ save[r].pc = "idle" /\ stored < MaxSaves
  /\ stored' = stored + 1
  /\ save' = [save EXCEPT ![r] = [pc |-> "poll", doc |-> 0, wrote |-> stored + 1]]
  /\ UNCHANGED <<current, loop, canceled, faults>>

SaveFetch(r) ==
  /\ save[r].pc = "poll"
  /\ save' = [save EXCEPT ![r].pc = "fetched", ![r].doc = stored]
  /\ UNCHANGED <<stored, current, loop, canceled, faults>>

\* Save returns nil although its poll failed: the row is stored.
SaveFetchFails(r) ==
  /\ save[r].pc = "poll" /\ Fault
  /\ save' = [save EXCEPT ![r] = Idle]
  /\ UNCHANGED <<stored, current, loop, canceled>>

SaveApply(r) ==
  /\ save[r].pc = "fetched"
  /\ current' = [current EXCEPT ![r] = save[r].doc]
  /\ save' = [save EXCEPT ![r] = Idle]
  /\ UNCHANGED <<stored, loop, canceled, faults>>

\* The group cancels the context of Start.
Cancel(r) ==
  /\ r \notin canceled
  /\ canceled' = canceled \cup {r}
  /\ UNCHANGED <<stored, current, loop, save, faults>>

Loop(r) == LoopTick(r) \/ LoopFetch(r) \/ LoopFetchFails(r) \/ LoopApply(r) \/ LoopReturns(r)
Save(r) == SaveStores(r) \/ SaveFetch(r) \/ SaveFetchFails(r) \/ SaveApply(r)

SettingsNext == \E r \in Replica : Loop(r) \/ Save(r) \/ Cancel(r)

SettingsSpec == SettingsInit /\ [][SettingsNext]_settingsVars

\* The loop runs on, a poll that began returns, and a select that keeps finding
\* the context canceled takes that case in the end; nobody has to call Save.
SettingsFairSpec ==
  /\ SettingsSpec
  /\ \A r \in Replica :
       WF_settingsVars(Loop(r)) /\ WF_settingsVars(SaveFetch(r) \/ SaveApply(r))

-----------------------------------------------------------------------------
\* Whatever the overlap of polls did to current, the interval loop repairs it:
\* once the Saves are over, a replica that keeps running shows what is stored,
\* and keeps showing it (WithInterval, "the longest a change saved on another
\* replica takes to show here").
SavedShows ==
  \A r \in Replica : (stored = MaxSaves) ~> (r \in canceled \/ [](current[r] = stored))

\* A Save never shows its own replica a document older than the one it stored:
\* the row is written before it is read (Settings.Save, then Poll).
SaveReadsItsWrite ==
  \A r \in Replica :
    save[r].pc = "fetched" /\ save'[r].pc = "idle" => current'[r] >= save[r].wrote
=============================================================================
