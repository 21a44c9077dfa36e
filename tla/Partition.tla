------------------------------ MODULE Partition ------------------------------
(***************************************************************************)
(* partition.Keeper: the replicas of a service create the partitions of    *)
(* their tables ahead of the clock and drop the expired ones, while rows   *)
(* arrive.                                                                 *)
(*                                                                         *)
(* Time is counted in days, and PeriodStart holds the first days of the    *)
(* periods, which differ in length as months do.  A row carries the day it *)
(* was written on.  Every table but the first refers to the one before it, *)
(* a row to rows of its own period.                                        *)
(***************************************************************************)
EXTENDS Naturals, Sequences, FiniteSets, FiniteSetsExt, Functions

CONSTANTS Keeper,       \* a partition.Keeper in every replica
          Tables,       \* Config.Tables, in their order
          PeriodStart,  \* the first day of every period, some after MaxDay included
          Ahead, Retention,
          MaxDay        \* the days of a behaviour

VARIABLES ptDay,      \* the clock
          ptParts,    \* the partitions: table and number of the period
          ptRows,     \* the rows: table and day
          ptRun,      \* Maintain of each replica: "none" or waiting, with its now
          ptLast      \* the latest now of a run that committed, none before the first

ptVars == <<ptDay, ptParts, ptRows, ptRun, ptLast>>

Table == Range(Tables)
NoRun == [waits |-> FALSE, now |-> 0]
NoLast == MaxDay + 1

\* Period.start: the period of day t, and Period.add is + on their numbers.
StartOf(t) == Cardinality({i \in DOMAIN PeriodStart : PeriodStart[i] <= t})

\* Periods follow each other from day 0 on, and the calendar goes on long enough
\* for the partitions that the last day of a behaviour asks for.
ASSUME PartitionAssumption ==
  /\ Ahead \in Nat /\ Retention \in Nat /\ MaxDay \in Nat
  /\ PeriodStart \in Seq(Nat) /\ PeriodStart # <<>> /\ PeriodStart[1] = 0
  /\ \A i, j \in DOMAIN PeriodStart : i < j => PeriodStart[i] < PeriodStart[j]
  /\ StartOf(MaxDay) + Ahead < Len(PeriodStart)

\* The first day after partition p.
End(p) == PeriodStart[p.from + 1]

Part == [table : Table, from : 1 .. (Len(PeriodStart) - 1)]

PartitionTypeOK ==
  /\ ptDay \in 0 .. MaxDay
  /\ ptParts \subseteq Part
  /\ ptRows \subseteq [table : Table, day : 0 .. MaxDay]
  /\ ptRun \in [Keeper -> [waits : BOOLEAN, now : 0 .. MaxDay]]
  /\ ptLast \in 0 .. NoLast

\* New touches no database: the tables have no partitions yet.
PartitionInit ==
  /\ ptDay = 0
  /\ ptParts = {} /\ ptRows = {}
  /\ ptRun = [r \in Keeper |-> NoRun]
  /\ ptLast = NoLast

-----------------------------------------------------------------------------
(* plan *)

\* The months of now and not of its start: the day carries over into the month
\* after a shorter one.
CreatesFromNow(now, parts) ==
  LET starts == {StartOf(PeriodStart[StartOf(now) + i] + now - PeriodStart[StartOf(now)]) : i \in 0 .. Ahead}
  IN  [table : Table, from : starts] \ parts

\* The missing partitions of this period and of the Ahead next ones.
Creates(now, parts) ==
  [table : Table, from : StartOf(now) .. (StartOf(now) + Ahead)] \ parts

\* A partition expires when its end is Retention old; 0 keeps all.
Expired(now, p) == Retention > 0 /\ End(p) + Retention <= now

Drops(now, parts) == {p \in parts : Expired(now, p)}

Rank(t) == CHOOSE i \in DOMAIN Tables : Tables[i] = t
\* The expired partitions go table by table, from the last table on.
Sooner(q, p) == Rank(q.table) > Rank(p.table)

Planned(now, parts) == (parts \cup Creates(now, parts)) \ Drops(now, parts)

-----------------------------------------------------------------------------
(* apply, in one transaction *)

RowsOf(p) == {r \in ptRows : r.table = p.table /\ StartOf(r.day) = p.from}

\* PostgreSQL refuses to detach a partition that rows of the next table refer to.
Refers(q, p) ==
  /\ q.from = p.from /\ RowsOf(q) # {}
  /\ Rank(q.table) = Rank(p.table) + 1

Applies(drops) ==
  \A p \in drops, q \in ptParts : Refers(q, p) => q \in drops /\ Sooner(q, p)

\* Maintain reads the clock, then waits for the advisory lock.
Maintain(r) ==
  /\ ~ptRun[r].waits
  /\ ptRun' = [ptRun EXCEPT ![r] = [waits |-> TRUE, now |-> ptDay]]
  /\ UNCHANGED <<ptDay, ptParts, ptRows, ptLast>>

\* Under the lock: the partitions are read, the plan applied and committed.
MaintainCommits(r) ==
  /\ ptRun[r].waits
  /\ LET drops == Drops(ptRun[r].now, ptParts) IN
       /\ Applies(drops)
       /\ ptParts' = Planned(ptRun[r].now, ptParts)
       /\ ptRows' = ptRows \ UNION {RowsOf(p) : p \in drops}
  /\ ptLast' = IF ptLast = NoLast THEN ptRun[r].now ELSE Max({ptLast, ptRun[r].now})
  /\ ptRun' = [ptRun EXCEPT ![r] = NoRun]
  /\ UNCHANGED ptDay

\* A statement fails, or waits too long for a table: everything rolls back.
MaintainFails(r) ==
  /\ ptRun[r].waits
  /\ ptRun' = [ptRun EXCEPT ![r] = NoRun]
  /\ UNCHANGED <<ptDay, ptParts, ptRows, ptLast>>

\* A row of today goes to the partition of its day.
Insert(t) ==
  /\ [table |-> t, from |-> StartOf(ptDay)] \in ptParts
  /\ ptRows' = ptRows \cup {[table |-> t, day |-> ptDay]}
  /\ UNCHANGED <<ptDay, ptParts, ptRun, ptLast>>

Midnight ==
  /\ ptDay < MaxDay
  /\ ptDay' = ptDay + 1
  /\ UNCHANGED <<ptParts, ptRows, ptRun, ptLast>>

PartitionNext ==
  \/ \E r \in Keeper : Maintain(r) \/ MaintainCommits(r) \/ MaintainFails(r)
  \/ \E t \in Table : Insert(t)
  \/ Midnight

PartitionSpec == PartitionInit /\ [][PartitionNext]_ptVars
\* Every replica runs Maintain again and again, and not every run fails.
PartitionFairness ==
  /\ WF_ptVars(Midnight)
  /\ \A r \in Keeper : WF_ptVars(Maintain(r)) /\ SF_ptVars(MaintainCommits(r))
PartitionFairSpec == PartitionSpec /\ PartitionFairness

-----------------------------------------------------------------------------
\* After a run every table takes the rows of the current period and of the Ahead
\* periods after it, whatever runs of other replicas, late with an old clock, do
\* in between: an insert fails only when no run committed for longer (plan, add).
RowsHaveAPlace ==
  ptLast # NoLast =>
    \A t \in Table :
      StartOf(ptDay) - StartOf(ptLast) <= Ahead =>
        [table |-> t, from |-> StartOf(ptDay)] \in ptParts

\* "no row younger than Retention is" dropped (Config.Retention), though a whole
\* partition goes at once.
YoungRowsStay ==
  \A row \in ptRows \ ptRows' : row.day + Retention <= ptDay

\* "A second run changes nothing" (Maintain).
SecondRunIsIdle ==
  Planned(ptDay, Planned(ptDay, ptParts)) = Planned(ptDay, ptParts)

\* Expired partitions go in the end and stay away: no order of drops is refused
\* for the rows of another table, and a run late with an old clock that creates
\* one again does not leave it (Maintain on every replica).
ExpiredGoes == <>[](\A p \in ptParts : ~Expired(ptDay, p))

\* Between the runs of Maintain, on whichever days they come: new rows have a
\* partition, and a run is repeated without effect.
PartitionSafety == PartitionTypeOK /\ RowsHaveAPlace /\ SecondRunIsIdle
=============================================================================
