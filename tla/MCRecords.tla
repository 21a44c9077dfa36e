----------------------------- MODULE MCRecords ------------------------------
(* What is kept: the versions of the audit log, translations and the files  *)
(* that the scaffolding commands write.  A behaviour runs one part on its   *)
(* own instance; the others rest in one of their initial states.            *)
EXTENDS Scaffold

CONSTANTS Parts,   \* the parts to check
          w1, w2, m1, m2, k1, k2

MCPayload == {[name |-> "a"], [name |-> "b"], [name |-> "b", updated_by |-> "a"]}

\* A thinning by factor, and a retention of the newest.
MCOpts ==
  {[factor |-> 2, keepRecent |-> 0, maxVersions |-> 0, minVersions |-> 3],
   [factor |-> 0, keepRecent |-> 2, maxVersions |-> 3, minVersions |-> 0]}

MCCmd ==
  {"new", "new-full", "rest", "rest-test", "grpc", "grpc-test", "consumer", "worker",
   "cron", "event", "http-client", "migration"}

VARIABLES part,
          auditPg, auditMem, auditOpts, auditCalls, auditBatch,   \* Audit
          auditReused,
          pg, mem, children, response    \* Translation

A == INSTANCE Audit WITH
       Writer <- {w1, w2}, Model <- {m1}, Payload <- MCPayload,
       Opts <- MCOpts, Every <- 3, Threshold <- 2, Limit <- 1,
       MaxVersion <- 4
B == INSTANCE Audit WITH
       Writer <- {w1}, Model <- {m1, m2}, Payload <- MCPayload,
       Opts <- MCOpts, Every <- 3, Threshold <- 2, Limit <- 1,
       MaxVersion <- 4
X == INSTANCE Translation WITH
       Key <- {k1, k2}, Lang <- {"ru", "kk"}, Default <- "ru"

auditVars ==
  <<auditPg, auditMem, auditOpts, auditCalls, auditBatch, auditReused>>
translationVars ==
  <<pg, mem, children, response>>

mcVars == <<part, auditVars, translationVars, scaffoldVars>>

AnyOf(set) == CHOOSE x \in set : TRUE

MCInit ==
  /\ part \in Parts
  /\ IF part = "batch" THEN B!Init ELSE A!Init
  /\ (part \notin {"audit", "batch"}) => auditOpts = AnyOf(MCOpts)
  /\ X!Init
  /\ (part # "translation") => children = [k \in {k1, k2} |-> {}]
  /\ Init
  /\ (part # "scaffold") => files = {}

\* Only part p moves.
Turn(p) ==
  /\ part = p /\ UNCHANGED part
  /\ IF p \in {"audit", "batch"} THEN TRUE ELSE UNCHANGED auditVars
  /\ IF p = "translation" THEN TRUE ELSE UNCHANGED translationVars
  /\ IF p = "scaffold" THEN TRUE ELSE UNCHANGED scaffoldVars

MCNext ==
  \/ Turn("audit") /\ A!Next
  \/ Turn("batch") /\ B!Next
  \/ Turn("translation") /\ X!Next
  \/ Turn("scaffold") /\ Next

MCSpec == MCInit /\ [][MCNext]_mcVars

-----------------------------------------------------------------------------
\* Audit: the store of tests answers as the Postgres store does, consecutive
\* versions differ, Create fails on a collision only when as many racers won as it
\* has attempts, the changes of the API replay the history, and a CompactBatch that
\* reports no model leaves none that could be thinned.
AuditSafety ==
  /\ (part = "audit") => A!AuditSafety
  /\ (part = "batch") => B!AuditSafety /\ B!BatchDrains

\* Translation: every model of a response is found, cycles included; with nothing
\* missing every required column is served translated; the store of tests answers
\* as the Postgres store does; and X-Language decides before Accept-Language.
TranslationSafety == (part = "translation") => X!TranslationSafety

\* Nothing is overwritten.  Audit: no version is rewritten, and the first and the
\* latest stay.  Translation: a Save leaves the optional columns it does not carry.
\* Scaffold: no run overwrites what the developer changed, and a new migration comes
\* after all the others.
NothingOverwritten ==
  [][/\ (part = "audit") => A!HistoryIsKept
     /\ (part = "batch") => B!HistoryIsKept
     /\ (part = "translation") => X!PartialSaveKeeps
     /\ (part = "scaffold") => NeverClobbers /\ MigrationsOrdered]_mcVars

\* Audit, as the doc of Create says: no version is stored below the latest one.
VersionsAreNew == (part = "audit") => A!VersionsAreNew
=============================================================================
