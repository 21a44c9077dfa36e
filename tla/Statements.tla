----------------------------- MODULE Statements -----------------------------
(***************************************************************************)
(* Package dbx: StatusCheck at start-up, then BulkInsert, run by a caller  *)
(* that repeats a failed insert, inside a transaction of its own or        *)
(* outside any.  A statement may fail at every batch, by the connection or *)
(* by a unique constraint.  A value is its position in the caller's        *)
(* row-major slice, a table the sequence of the values inserted.           *)
(***************************************************************************)
EXTENDS Naturals, Sequences, SequencesExt, FiniteSets

CONSTANTS MaxParameters,  \* maxParameters of one statement
          Columns,        \* the column counts tried
          Lengths,        \* the numbers of values tried
          MaxTries,       \* calls the caller makes before it gives up
          CheckTime       \* ticks of StatusCheck's deadline

VARIABLES stIn,     \* [cols, len, tx, ignore]: the insert, fixed
          stCheck,  \* StatusCheck: [at, attempts, wait, left, err]
          stAt,     \* "check", "start", "insert", "done"
          stLeft,   \* BulkInsert's left
          stOpen,   \* values inserted by the open transaction
          stTable,  \* values committed
          stExecs,  \* the statements of the current call: their values
          stErr,    \* what the last call returned
          stTries   \* calls made

stVars == <<stIn, stCheck, stAt, stLeft, stOpen, stTable, stExecs, stErr, stTries>>

Errors == {"none", "shape", "columns", "duplicate", "driver"}

Init ==
  /\ stIn \in [cols: Columns, len: Lengths, tx: BOOLEAN, ignore: BOOLEAN]
  /\ stCheck = [at |-> "ping", attempts |-> 1, wait |-> 0, left |-> CheckTime, err |-> {}]
  /\ stAt = "check"
  /\ stLeft = 0
  /\ stOpen = <<>>
  /\ stTable = <<>>
  /\ stExecs = <<>>
  /\ stErr = "none"
  /\ stTries = 0

-----------------------------------------------------------------------------
(* StatusCheck: ping until the database answers or the context, which has  *)
(* a deadline of its own or the default one, is done.                      *)

bulk == <<stIn, stLeft, stOpen, stTable, stExecs, stErr, stTries>>

Ping ==
  /\ stAt = "check"
  /\ stCheck.at = "ping"
  /\ \/ stCheck' = [stCheck EXCEPT !.at = "select"]
     \/ stCheck' = [stCheck EXCEPT !.at = "wait", !.wait = stCheck.attempts,
                                   !.err = {"ping"}]
  /\ UNCHANGED <<bulk, stAt>>

PingAgain ==
  /\ stCheck.at = "wait"
  /\ stCheck.wait = 0
  /\ stCheck' = [stCheck EXCEPT !.at = "ping", !.attempts = @ + 1]
  /\ UNCHANGED <<bulk, stAt>>

CheckTicks ==
  /\ stCheck.at = "wait"
  /\ stCheck.left > 0
  /\ stCheck' = [stCheck EXCEPT !.left = @ - 1, !.wait = IF @ = 0 THEN 0 ELSE @ - 1]
  /\ UNCHANGED <<bulk, stAt>>

CheckTimesOut ==
  /\ stCheck.at = "wait"
  /\ stCheck.left = 0
  /\ stCheck' = [stCheck EXCEPT !.at = "failed", !.err = @ \cup {"deadline"}]
  /\ stAt' = "done"
  /\ UNCHANGED bulk

Select ==
  /\ stCheck.at = "select"
  /\ \/ /\ stCheck' = [stCheck EXCEPT !.at = "up"]
        /\ stAt' = "start"
     \/ /\ stCheck' = [stCheck EXCEPT !.at = "failed", !.err = {"select"}]
        /\ stAt' = "done"
  /\ UNCHANGED bulk

-----------------------------------------------------------------------------
(* BulkInsert. *)

Returns(err) == stAt' = "returned" /\ stErr' = err

stride == (MaxParameters \div stIn.cols) * stIn.cols

(* The checks before the first batch, and an empty insert. *)
Start ==
  /\ stAt = "start"
  /\ stTries < MaxTries
  /\ stTries' = stTries + 1
  /\ stExecs' = <<>>
  /\ stLeft' = 0
  /\ CASE stIn.len % stIn.cols # 0 -> Returns("shape")
       [] stIn.len = 0             -> Returns("none")
       [] stride = 0               -> Returns("columns")
       [] OTHER                    -> stAt' = "insert" /\ stErr' = "none"
  /\ UNCHANGED <<stIn, stCheck, stOpen, stTable>>

Present == ToSet(stTable) \cup ToSet(stOpen)
Right == IF stLeft + stride < stIn.len THEN stLeft + stride ELSE stIn.len
Batch == [i \in 1 .. Right - stLeft |-> stLeft + i]

(* Rows the statement adds: with ON CONFLICT DO NOTHING the new ones. *)
Added(batch) == IF stIn.ignore THEN SelectSeq(batch, LAMBDA v : v \notin Present) ELSE batch

(* One batch is executed. *)
InsertBatch ==
  /\ stAt = "insert"
  /\ stLeft < stIn.len
  /\ stIn.ignore \/ ToSet(Batch) \cap Present = {}
  /\ IF stIn.tx THEN stOpen' = stOpen \o Added(Batch) /\ UNCHANGED stTable
     ELSE stTable' = stTable \o Added(Batch) /\ UNCHANGED stOpen
  /\ stExecs' = Append(stExecs, Batch)
  /\ stLeft' = stLeft + stride
  /\ UNCHANGED <<stIn, stCheck, stAt, stErr, stTries>>

(* A caller that commits what a failed insert had done. *)
BatchFailsCommitted ==
  /\ stAt = "insert"
  /\ stLeft < stIn.len
  /\ \/ ~stIn.ignore /\ ToSet(Batch) \cap Present # {} /\ Returns("duplicate")
     \/ Returns("driver")
  /\ stTable' = stTable \o stOpen
  /\ stOpen' = <<>>
  /\ UNCHANGED <<stIn, stCheck, stLeft, stExecs, stTries>>

(* A batch fails: by a row that is already there, or by the driver.  The   *)
(* caller rolls its transaction back.                                      *)
BatchFails ==
  /\ stAt = "insert"
  /\ stLeft < stIn.len
  /\ \/ ~stIn.ignore /\ ToSet(Batch) \cap Present # {} /\ Returns("duplicate")
     \/ Returns("driver")
  /\ stOpen' = <<>>
  /\ UNCHANGED <<stIn, stCheck, stLeft, stTable, stExecs, stTries>>

(* All batches are in: the caller commits. *)
Finish ==
  /\ stAt = "insert"
  /\ stLeft >= stIn.len
  /\ Returns("none")
  /\ stTable' = stTable \o stOpen
  /\ stOpen' = <<>>
  /\ UNCHANGED <<stIn, stCheck, stLeft, stExecs, stTries>>

(* The caller takes the result, or repeats a call the driver failed. *)
Again ==
  /\ stAt = "returned"
  /\ stAt' = IF stErr = "driver" /\ stTries < MaxTries THEN "start" ELSE "done"
  /\ UNCHANGED <<stIn, stCheck, stLeft, stOpen, stTable, stExecs, stErr, stTries>>

Next ==
  \/ Ping
  \/ PingAgain
  \/ CheckTicks
  \/ CheckTimesOut
  \/ Select
  \/ Start
  \/ InsertBatch
  \/ BatchFails
  \/ Finish
  \/ Again

Spec == Init /\ [][Next]_stVars

(* The loops go on while the process runs: time passes, statements return. *)
FairSpec == Spec /\ WF_stVars(Next)

-----------------------------------------------------------------------------
TypeOK ==
  /\ stCheck.at \in {"ping", "wait", "select", "up", "failed"}
  /\ stCheck.left \in 0 .. CheckTime
  /\ stAt \in {"check", "start", "insert", "returned", "done"}
  /\ stErr \in Errors
  /\ stTries \in 0 .. MaxTries

Whole == [i \in 1 .. stIn.len |-> i]

(* dbx/bulk.go BulkInsert: a call that returns nil has put every row into  *)
(* the table once, however many earlier calls failed half way, and no row  *)
(* is ever there twice.                                                    *)
EveryRowOnce ==
  /\ \A i, j \in DOMAIN stTable : stTable[i] = stTable[j] => i = j
  /\ stAt = "returned" /\ stErr = "none" => ToSet(stTable) = ToSet(Whole)

(* dbx/bulk.go stride: every statement holds whole rows and at most        *)
(* maxParameters of them, and the statements of a call continue each other *)
(* without a gap.                                                          *)
StatementsTile ==
  /\ \A i \in DOMAIN stExecs :
       Len(stExecs[i]) <= MaxParameters /\ Len(stExecs[i]) % stIn.cols = 0
  /\ IsPrefix(FlattenSeq(stExecs), Whole)

(* dbx/bulk.go and dbx.Tran: a failed insert leaves nothing behind inside  *)
(* a transaction, and outside one the batches before the failure, whole.   *)
FailureLeavesAPrefix ==
  stAt = "returned" /\ stErr \in {"driver", "duplicate"} =>
    IF stIn.tx THEN stTable \in {<<>>, Whole}
    ELSE IsPrefix(stTable, Whole) /\ Len(stTable) % stIn.cols = 0

(* dbx/dbx.go StatusCheck, "a persistent failure surfaces its error        *)
(* instead of hanging forever": it ends, and when the deadline ended it    *)
(* the last ping's error is part of what it returns.                       *)
CheckEnds == <>(stCheck.at = "up" \/ (stCheck.at = "failed" /\ stCheck.err # {"deadline"}))

\* What a bulk insert leaves in the table, whether it succeeds or fails part way.
StatementsSafety == TypeOK /\ EveryRowOnce /\ StatementsTile /\ FailureLeavesAPrefix
=============================================================================
