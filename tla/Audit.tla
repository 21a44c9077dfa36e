------------------------------- MODULE Audit -------------------------------
(***************************************************************************)
(* The audit log: Core.Create of auditlog.go (a read of the latest         *)
(* version, then an insert of the next one, retried on a collision),       *)
(* Compact and CompactBatch of compact.go, the queries of compare.go and   *)
(* auditrest, and the two stores, auditpg over Postgres and audittest in   *)
(* memory.  Writers, the inline compaction of a writer and a compaction    *)
(* batch interleave between any two statements of the store.               *)
(***************************************************************************)
EXTENDS Integers, Sequences, FiniteSets, SequencesExt

CONSTANTS
    Writer,      \* processes that call Core.Create
    Model,       \* the (ModelType, ModelID) pairs
    Payload,     \* the snapshots: functions from fields to values
    Opts,        \* the CompactOptions a service may be configured with
    Every,       \* WithAutoCompact's every; 0 switches it off
    Threshold,   \* CompactBatchOptions.Threshold
    Limit,       \* CompactBatchOptions.Limit
    MaxVersion   \* bound: the last version number a model reaches

VARIABLES
    auditPg,     \* auditpg: model -> (version -> payload)
    auditMem,    \* audittest: model -> sequence of [version, payload]
    auditOpts,   \* the CompactOptions of this service
    auditCalls,  \* writer -> its Create
    auditBatch,  \* the CompactBatch call
    auditReused  \* ghost: model -> versions inserted a second time

auditVars == <<auditPg, auditMem, auditOpts, auditCalls, auditBatch, auditReused>>

maxCreateAttempts == 3

Most(S) == IF S = {} THEN 0 ELSE Max(S)

-----------------------------------------------------------------------------
\* compare.go: what two payloads have in common.

\* removeKeys strips the volatile fields before a comparison.
NormalizeMap(p) == [f \in DOMAIN p \ {"updated_at", "updated_by"} |-> p[f]]

PayloadsEqual(a, b) == NormalizeMap(a) = NormalizeMap(b)

\* An absent key has no value: the nil of a map lookup.
At(p, f) == IF f \in DOMAIN p THEN p[f] ELSE "nil"

\* The changed, added and removed keys, with their old and new values.
CompareJSON(prev, curr) ==
    {[key |-> f, old |-> At(prev, f), new |-> At(curr, f)] :
        f \in {g \in DOMAIN prev \cup DOMAIN curr : At(prev, g) # At(curr, g)}}

-----------------------------------------------------------------------------
\* auditpg: the rows of a model under UNIQUE (model_type, model_id, version).

\* The order of QueryHistoryByModelID and of Versions.
Versions(m) == SetToSortSeq(DOMAIN auditPg[m], <)

\* QueryLastByModelID: ErrNotFound leaves the zero AuditLog, version 0.
QueryLast(m) == Most(DOMAIN auditPg[m])

\* QueryModelByVersion: the one row of that version, or ErrNotFound.
QueryVersion(m, v) == {auditPg[m][w] : w \in DOMAIN auditPg[m] \cap {v}}

PgSave(m, v, p) ==
    [auditPg EXCEPT ![m] =
        [w \in DOMAIN @ \cup {v} |-> IF w = v THEN p ELSE @[w]]]

PgDelete(m, vs) ==
    [auditPg EXCEPT ![m] = [v \in DOMAIN @ \ vs |-> @[v]]]

\* OverThreshold: the most versioned first, up to Limit; ties in any order.
Over == {m \in Model : Cardinality(DOMAIN auditPg[m]) > Threshold}

OverThreshold ==
    LET Desc(s) == \A i, j \in 1..Len(s) : i < j =>
            Cardinality(DOMAIN auditPg[s[i]]) >= Cardinality(DOMAIN auditPg[s[j]])
    IN  {SubSeq(s, 1, IF Len(s) < Limit THEN Len(s) ELSE Limit) :
            s \in {t \in SetToSeqs(Over) : Desc(t)}}

-----------------------------------------------------------------------------
\* audittest: the versions of a model in an ascending slice.

\* QueryModelByVersion of the memory store.
MemVersion(m, v) == {al.payload : al \in {x \in Range(auditMem[m]) : x.version = v}}

\* slices.Insert at the place the binary search found.
MemSave(m, v, p) ==
    LET below == Cardinality({i \in 1..Len(auditMem[m]) : auditMem[m][i].version < v})
    IN  [auditMem EXCEPT ![m] = InsertAt(@, below + 1, [version |-> v, payload |-> p])]

\* slices.DeleteFunc.
MemDelete(m, vs) ==
    [auditMem EXCEPT ![m] = SelectSeq(@, LAMBDA al : al.version \notin vs)]

\* QueryLastByModelID of the memory store.
MemLast(m) ==
    IF auditMem[m] = <<>> THEN 0 ELSE Last(auditMem[m]).version

-----------------------------------------------------------------------------
\* compact.go: which versions a compaction deletes.

\* keepEvenly: up to budget indices of [lo, hi), evenly spaced.
KeepEvenly(lo, hi, budget) ==
    LET span == hi - lo
    IN  IF span <= 0 \/ budget <= 0 THEN {}
        ELSE IF budget >= span THEN lo..(hi - 1)
        ELSE {lo + ((j * span) \div budget) : j \in 0..(budget - 1)}

\* The indices that no option may thin: first, last and the most recent.
Protected(n, o) ==
    {0, n - 1} \cup
        (IF o.keepRecent > 0 THEN Max({n - o.keepRecent, 0})..(n - 1) ELSE {})

RecentStart(n, o) ==
    IF o.keepRecent > 0 THEN Min({n - 1, n - o.keepRecent}) ELSE n - 1

KeptMiddle(n, o) ==
    CASE o.maxVersions > 0 ->
            KeepEvenly(1, RecentStart(n, o), o.maxVersions - Cardinality(Protected(n, o)))
      [] o.maxVersions <= 0 /\ o.factor >= 2 ->
            {i \in 1..(RecentStart(n, o) - 1) : i % o.factor = 0}
      [] OTHER -> 1..(RecentStart(n, o) - 1)

VersionsToDelete(vers, o) ==
    LET n == Len(vers)
    IN  IF n <= Max({o.minVersions, 2}) THEN {}
        ELSE {vers[i + 1] : i \in (0..(n - 1)) \ (Protected(n, o) \cup KeptMiddle(n, o))}

-----------------------------------------------------------------------------
\* The queries of auditlog.go and auditrest.

\* A version parameter that is absent or not a number.
NoVersion == -1

\* GET .../diff: both versions are required, a version that is not stored is
\* NotFound, equal payloads have an empty diff; toErr gives each its code.
Diff(m, cur, target) ==
    IF NoVersion \in {cur, target} THEN "InvalidArgument"
    ELSE IF {} \in {QueryVersion(m, cur), QueryVersion(m, target)} THEN "NotFound"
    ELSE IF QueryVersion(m, cur) = QueryVersion(m, target) THEN "no change"
    ELSE "diff"

\* GET .../changes: each version with the fields that changed since the one
\* before it; the first record lists the old values of what changed next.
Changes(m) ==
    LET vers == Versions(m)
        P(i) == auditPg[m][vers[i]]
        first == {[key |-> c.key, old |-> "nil", new |-> c.old] :
                    c \in CompareJSON(P(1), P(2))}
    IN  IF Len(vers) < 2 THEN <<>>
        ELSE [i \in 1..Len(vers) |->
                [version |-> vers[i],
                 changed |-> IF i = 1 THEN first ELSE CompareJSON(P(i - 1), P(i))]]

-----------------------------------------------------------------------------
Call == [pc : {"idle", "read", "save", "compact", "delete"}, model : Model,
         payload : Payload, last : 0..MaxVersion, attempt : 1..maxCreateAttempts,
         raced : 0..maxCreateAttempts, del : SUBSET (1..MaxVersion),
         result : {"none", "returned", "collision"}]

Batch == [pc : {"idle", "read", "delete"}, refs : SeqOf(Model, Limit),
          del : SUBSET (1..MaxVersion), models : 0..Limit,
          quiet : BOOLEAN, result : {"none", "ok", "error"}]

\* No Create runs; the last one of the writer ended with result r.
Idle(r, racers) ==
    [pc |-> "idle", model |-> CHOOSE m \in Model : TRUE,
     payload |-> CHOOSE p \in Payload : TRUE, last |-> 0, attempt |-> 1,
     raced |-> racers, del |-> {}, result |-> r]

Init ==
    /\ auditPg = [m \in Model |-> <<>>]
    /\ auditMem = [m \in Model |-> <<>>]
    /\ auditOpts \in Opts
    /\ auditCalls = [w \in Writer |-> Idle("none", 0)]
    /\ auditBatch = [pc |-> "idle", refs |-> <<>>, del |-> {}, models |-> 0,
                     quiet |-> TRUE, result |-> "none"]
    /\ auditReused = [m \in Model |-> {}]

Return(w) == [auditCalls EXCEPT ![w] = Idle("returned", 0)]

ReturnCollision(w) == [auditCalls EXCEPT ![w] = Idle("collision", @.raced)]

\* A caller calls Create; the payload has been encoded.
Create(w, m, p) ==
    /\ auditCalls[w].pc = "idle"
    /\ QueryLast(m) < MaxVersion
    /\ auditCalls' = [auditCalls EXCEPT ![w] =
            [pc |-> "read", model |-> m, payload |-> p, last |-> 0, attempt |-> 1,
             raced |-> 0, del |-> {}, result |-> "none"]]
    /\ UNCHANGED <<auditPg, auditMem, auditOpts, auditBatch, auditReused>>

\* The read of the latest version; an unchanged snapshot ends the call.
CreateRead(w) ==
    LET c == auditCalls[w]
        last == QueryLast(c.model)
    IN  /\ c.pc = "read"
        /\ last < MaxVersion
        /\ auditCalls' =
               IF last # 0 /\ PayloadsEqual(c.payload, auditPg[c.model][last])
               THEN Return(w)
               ELSE [auditCalls EXCEPT ![w].pc = "save", ![w].last = last]
        /\ UNCHANGED <<auditPg, auditMem, auditOpts, auditBatch, auditReused>>

\* After a save: maybeAutoCompact compacts once every Every versions.
Stored(w, v) ==
    LET others == {x \in Writer \ {w} : auditCalls[x].pc \in {"read", "save"}
                                          /\ auditCalls[x].model = auditCalls[w].model}
        saved == IF Every > 0 /\ v % Every = 0
                 THEN [auditCalls EXCEPT ![w].pc = "compact"]
                 ELSE Return(w)
    IN  [x \in Writer |-> IF x \in others
            THEN [saved[x] EXCEPT !.raced = Min({@ + 1, maxCreateAttempts})] ELSE saved[x]]

AfterCollisionNoReread(w) ==
    IF auditCalls[w].attempt < maxCreateAttempts
    THEN [auditCalls EXCEPT ![w].attempt = @ + 1, ![w].last = Min({@ + 1, MaxVersion - 1})]
    ELSE ReturnCollision(w)

\* Create reads the latest version again, in at most maxCreateAttempts attempts.
AfterCollision(w) ==
    IF auditCalls[w].attempt < maxCreateAttempts
    THEN [auditCalls EXCEPT ![w].pc = "read", ![w].attempt = @ + 1]
    ELSE ReturnCollision(w)

\* The insert.  A version that a racing writer took is a duplicated entry.
CreateSave(w) ==
    LET c == auditCalls[w]
        v == c.last + 1
        dup == v \in DOMAIN auditPg[c.model]
    IN  /\ c.pc = "save"
        /\ IF dup
           THEN /\ auditCalls' = AfterCollision(w)
                /\ UNCHANGED <<auditPg, auditMem, auditBatch, auditReused>>
           ELSE /\ auditPg' = PgSave(c.model, v, c.payload)
                /\ auditMem' = MemSave(c.model, v, c.payload)
                /\ auditCalls' = Stored(w, v)
                /\ auditBatch' = [auditBatch EXCEPT !.quiet = FALSE]
                /\ auditReused' = [auditReused EXCEPT ![c.model] =
                        IF v < QueryLast(c.model) THEN @ \cup {v} ELSE @]
        /\ UNCHANGED auditOpts

\* A query or the insert fails: the error is returned, or logged by Record.
CreateFails(w) ==
    /\ auditCalls[w].pc \in {"read", "save"}
    /\ auditCalls' = Return(w)
    /\ UNCHANGED <<auditPg, auditMem, auditOpts, auditBatch, auditReused>>

\* Compact reads the versions of the model ...
AutoCompactRead(w) ==
    LET c == auditCalls[w]
        del == VersionsToDelete(Versions(c.model), auditOpts)
    IN  /\ c.pc = "compact"
        /\ auditCalls' = IF del = {} THEN Return(w)
                         ELSE [auditCalls EXCEPT ![w].pc = "delete", ![w].del = del]
        /\ UNCHANGED <<auditPg, auditMem, auditOpts, auditBatch, auditReused>>

\* ... and deletes what it decided on then.
AutoCompactDelete(w) ==
    LET c == auditCalls[w]
    IN  /\ c.pc = "delete"
        /\ auditPg' = PgDelete(c.model, c.del)
        /\ auditMem' = MemDelete(c.model, c.del)
        /\ auditCalls' = Return(w)
        /\ auditBatch' = [auditBatch EXCEPT !.quiet = FALSE]
        /\ UNCHANGED <<auditOpts, auditReused>>

\* A failed compaction is logged: the entry stays stored.
AutoCompactFails(w) ==
    /\ auditCalls[w].pc \in {"compact", "delete"}
    /\ auditCalls' = Return(w)
    /\ UNCHANGED <<auditPg, auditMem, auditOpts, auditBatch, auditReused>>

\* CompactBatch lists its candidates.
CompactBatch ==
    /\ auditBatch.pc = "idle"
    /\ \E refs \in OverThreshold :
           auditBatch' = [pc |-> IF refs = <<>> THEN "idle" ELSE "read", refs |-> refs,
                          del |-> {}, models |-> 0, quiet |-> TRUE,
                          result |-> IF refs = <<>> THEN "ok" ELSE "none"]
    /\ UNCHANGED <<auditPg, auditMem, auditOpts, auditCalls, auditReused>>

\* The batch goes on with the next candidate, or returns.
NextRef(n) ==
    LET rest == Tail(auditBatch.refs)
    IN  [auditBatch EXCEPT !.refs = rest, !.del = {}, !.models = @ + n,
            !.pc = IF rest = <<>> THEN "idle" ELSE "read",
            !.result = IF rest = <<>> THEN "ok" ELSE "none"]

BatchRead ==
    LET del == VersionsToDelete(Versions(Head(auditBatch.refs)), auditOpts)
    IN  /\ auditBatch.pc = "read"
        /\ auditBatch' = IF del = {} THEN NextRef(0)
                         ELSE [auditBatch EXCEPT !.pc = "delete", !.del = del]
        /\ UNCHANGED <<auditPg, auditMem, auditOpts, auditCalls, auditReused>>

\* A model counts when at least one of its versions was still there.
BatchDelete ==
    LET m == Head(auditBatch.refs)
    IN  /\ auditBatch.pc = "delete"
        /\ auditPg' = PgDelete(m, auditBatch.del)
        /\ auditMem' = MemDelete(m, auditBatch.del)
        /\ auditBatch' =
               NextRef(IF auditBatch.del \cap DOMAIN auditPg[m] = {} THEN 0 ELSE 1)
        /\ UNCHANGED <<auditOpts, auditCalls, auditReused>>

\* The first error ends the batch.
BatchFails ==
    /\ auditBatch.pc \in {"read", "delete"}
    /\ auditBatch' = [auditBatch EXCEPT !.pc = "idle", !.refs = <<>>, !.del = {},
                                        !.result = "error"]
    /\ UNCHANGED <<auditPg, auditMem, auditOpts, auditCalls, auditReused>>

Next ==
    \/ \E w \in Writer, m \in Model, p \in Payload : Create(w, m, p)
    \/ \E w \in Writer : CreateRead(w) \/ CreateSave(w) \/ CreateFails(w)
    \/ \E w \in Writer : AutoCompactRead(w) \/ AutoCompactDelete(w) \/ AutoCompactFails(w)
    \/ CompactBatch \/ BatchRead \/ BatchDelete \/ BatchFails

Spec == Init /\ [][Next]_auditVars

-----------------------------------------------------------------------------
\* Every variable keeps its type.
TypeOK ==
    /\ \A m \in Model : DOMAIN auditPg[m] \subseteq 1..MaxVersion
    /\ auditOpts \in Opts
    /\ auditCalls \in [Writer -> Call]
    /\ auditBatch \in Batch
    /\ auditReused \in [Model -> SUBSET (1..MaxVersion)]

\* The memory store of audittest answers every read as the Postgres store
\* does, whatever writers and compactions interleave: the same versions, in
\* ascending order, with the same payloads, and the same latest one.
StoresAgree ==
    \A m \in Model :
        /\ auditMem[m] = [i \in 1..Len(Versions(m)) |->
                [version |-> Versions(m)[i], payload |-> auditPg[m][Versions(m)[i]]]]
        /\ MemLast(m) = QueryLast(m)
        /\ \A v \in 1..MaxVersion : MemVersion(m, v) = QueryVersion(m, v)

\* A stored version is never rewritten, and however compactions interleave
\* with writers the baseline and the current version stay: the latest version
\* number never goes back and the diff from version 1 to it is answered.
HistoryIsKept ==
    \A m \in Model : QueryLast(m) # 0 =>
        /\ QueryLast(m)' >= QueryLast(m)
        /\ Diff(m, 1, QueryLast(m))' # "NotFound"
        /\ \A v \in DOMAIN auditPg[m] :
               v \in DOMAIN auditPg'[m] => auditPg'[m][v] = auditPg[m][v]

\* Create fails on a collision only when the model took at least
\* maxCreateAttempts other versions while it ran: one retry needs one racer.
CollisionNeedsRacers ==
    \A w \in Writer : auditCalls[w].result = "collision"
                        => auditCalls[w].raced >= maxCreateAttempts

\* Consecutive versions differ in more than who updated them and when, even
\* when two writers race with the same snapshot (a version inserted again
\* below the latest one is the exception that VersionsAreNew is about).
NoRepeat ==
    \A m \in Model : \A v \in DOMAIN auditPg[m] :
        (v + 1) \in DOMAIN auditPg[m] /\ v \notin auditReused[m] /\ (v + 1) \notin auditReused[m]
            => ~PayloadsEqual(auditPg[m][v], auditPg[m][v + 1])

\* A CompactBatch that reports no model, with no write meanwhile, leaves no
\* model over the threshold that could still be thinned: a big model that
\* cannot be thinned does not hide a smaller one behind the limit.
BatchDrains ==
    auditBatch.pc = "idle" /\ auditBatch.result = "ok" /\ auditBatch.models = 0
            /\ auditBatch.quiet
        => \A m \in Over : VersionsToDelete(Versions(m), auditOpts) = {}

\* The changes of the REST API replay the history: each record turns the
\* payload of the version before it into its own.
ChangesReplay ==
    \A m \in Model : LET cs == Changes(m) IN
        \A i \in 2..Len(cs) : \A f \in {"name", "updated_by"} :
            LET old == auditPg[m][cs[i - 1].version]
                hit == {c \in cs[i].changed : c.key = f}
            IN  At(auditPg[m][cs[i].version], f)
                    = IF hit = {} THEN At(old, f) ELSE (CHOOSE c \in hit : TRUE).new

\* auditlog.go, Create: "If a concurrent writer inserts the same version
\* first, the UNIQUE constraint rejects this insert; Create then re-reads the
\* latest version and retries".  A stored version is new: none is inserted
\* under the latest one.
VersionsAreNew == \A m \in Model : auditReused[m] = {}

\* The history of a model and what is read of it, in both stores and whoever
\* writes and compacts at the same time.
AuditSafety == TypeOK /\ StoresAgree /\ NoRepeat /\ CollisionNeedsRacers /\ ChangesReplay
=============================================================================
