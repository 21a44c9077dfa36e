----------------------------- MODULE MCPipeline -----------------------------
(* Data on its way: events through the outbox to RabbitMQ, audit entries    *)
(* through the recorder, HTTP calls through the client transport, rows      *)
(* through bulk statements.  A behaviour runs one part on its own instance; *)
(* the others rest in one of their initial states.                          *)
EXTENDS Outbox, AuditRecorder, HttpClient

CONSTANT Parts   \* the parts to check

VARIABLES part,
          stIn, stCheck, stAt, stLeft, stOpen, stTable, stExecs, stErr,   \* Statements
          stTries

B == INSTANCE Statements WITH
       MaxParameters <- 5, Columns <- {1, 2, 3, 6},
       Lengths <- {0, 2, 6, 7, 12}, MaxTries <- 3, CheckTime <- 4

statementsVars ==
  <<stIn, stCheck, stAt, stLeft, stOpen, stTable, stExecs, stErr, stTries>>

mcVars == <<part, outboxVars, recVars, hcVars, statementsVars>>

AnyOf(set) == CHOOSE x \in set : TRUE

MCInit ==
  /\ part \in Parts
  /\ Init
  /\ (part # "outbox") => typ = AnyOf([Event -> Types])
  /\ RecorderInit
  /\ (part # "recorder") => recMode = "sync" /\ recShardOf = AnyOf([Subject -> Shard])
  /\ ClientInit
  /\ (part # "client") => hcCall[AnyOf(Call)].body = AnyOf(Bodies)
  /\ B!Init
  /\ (part # "statements") => stIn = AnyOf([cols : {1}, len : {0}, tx : BOOLEAN, ignore : BOOLEAN])

\* Only part p moves.
Turn(p) ==
  /\ part = p /\ UNCHANGED part
  /\ IF p = "outbox" THEN TRUE ELSE UNCHANGED outboxVars
  /\ IF p = "recorder" THEN TRUE ELSE UNCHANGED recVars
  /\ IF p = "client" THEN TRUE ELSE UNCHANGED hcVars
  /\ IF p = "statements" THEN TRUE ELSE UNCHANGED statementsVars

MCNext ==
  \/ Turn("outbox") /\ Next
  \/ Turn("recorder") /\ RecorderNext
  \/ Turn("client") /\ ClientNext
  \/ Turn("statements") /\ B!Next

\* The steps of the goroutine of call c.
Calling(c) ==
  \/ Begin(c) \/ FetchToken(c) \/ SendAttempt(c) \/ Receive(c) \/ Wake(c)
  \/ TimeOut(c)

\* The fairness of every part, as its own specification states it.
MCSpec ==
  /\ MCInit /\ [][MCNext]_mcVars
  /\ WF_outboxVars(part = "outbox" /\ Run)
  /\ \A e \in Event : WF_outboxVars(part = "outbox" /\ Work(e))
  /\ \A e \in Event : WF_outboxVars(part = "outbox" /\ Consume(e))
  /\ \A p \in Producer : WF_recVars(part = "recorder" /\ (RecordSend(p) \/ RecordDrop(p)))
  /\ WF_recVars(part = "recorder" /\ Coordinate)
  /\ WF_recVars(part = "recorder" /\ RecorderReturns)
  /\ \A s \in Shard : WF_recVars(part = "recorder" /\ WorkerWrites(s))
  /\ \A s \in Shard : WF_recVars(part = "recorder" /\ WorkerEnds(s))
  /\ WF_hcVars(part = "client" /\ ClientTick)
  /\ \A c \in Call : WF_hcVars(part = "client" /\ Calling(c))
  /\ WF_statementsVars(part = "statements" /\ B!Next)

-----------------------------------------------------------------------------
\* Statements: a bulk insert that succeeds wrote every row once, its statements
\* cover the rows in order within the limit of parameters, and one that fails
\* leaves whole batches, in a transaction nothing.
StatementsSafety == (part = "statements") => B!StatementsSafety

\* Everything on its way arrives.  Outbox: a committed event with a route is
\* delivered and settled, and no watcher goroutine outlives the consumer.
\* AuditRecorder: Start returns once its context is done.  HttpClient: every call
\* returns.  Statements: StatusCheck returns, and with the cause when it fails.
PipelineEnds ==
  /\ (part = "outbox") => EventArrives /\ WatcherEnds
  /\ (part = "recorder") => ShutdownEnds
  /\ (part = "client") => CallEnds
  /\ (part = "statements") => B!CheckEnds
=============================================================================
