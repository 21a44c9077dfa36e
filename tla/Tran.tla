-------------------------------- MODULE Tran --------------------------------
(***************************************************************************)
(* dbx.WithinTran over a pool: retry.Do around one transaction per attempt. *)
(*                                                                         *)
(* Every call runs a function that updates the rows Order[c] one after the *)
(* other.  An update locks its row until the transaction ends, so calls    *)
(* with different orders deadlock and Postgres makes one of them a victim, *)
(* whose error the classifier marks retryable.  A call may be canceled at      *)
(* any time, its function may fail, panic or ignore a failed statement,    *)
(* and the answer to its COMMIT may be lost.                               *)
(*                                                                         *)
(* db[r][c] counts the committed updates of row r by call c.               *)
(***************************************************************************)
EXTENDS Integers, Sequences

CONSTANTS Call,         \* concurrent calls of WithinTran
          Row,          \* rows the calls update
          Order,        \* Order[c]: the rows c updates, in its order
          MaxAttempts   \* retryBackoff.MaxAttempts

ASSUME TranAssumption ==
  /\ Order \in [Call -> Seq(Row)]
  /\ MaxAttempts \in Int


VARIABLES db,        \* committed updates: Row -> Call -> Nat
          tx,        \* the transaction of the running attempt
          wrote,     \* rows the transaction has updated and holds locked
          tranPc, attempt, err, tranCanceled,
          unsure     \* the answer to a COMMIT of the call was lost

tranVars == <<db, tx, wrote, tranPc, attempt, err, tranCanceled, unsure>>

PC == {"idle", "begin", "fn", "commit", "rollback", "decide", "sleep", "returned"}

\* What tran returns, up to what Do and terminal tell apart.
Err == {"none", "retryable", "terminal", "panic"}

Rows(c) == {Order[c][i] : i \in 1..Len(Order[c])}

\* MaxAttempts <= 1 means a single attempt.
Budget == IF MaxAttempts > 1 THEN MaxAttempts ELSE 1

-----------------------------------------------------------------------------
(* The locks of Postgres.                                                   *)

\* r is the row the function of c updates next.
Wants(c, r) ==
  /\ tranPc[c] = "fn" /\ tx[c] = "open"
  /\ \E i \in 1..Len(Order[c]) :
       /\ r = Order[c][i] /\ r \notin wrote[c]
       /\ \A j \in 1..(i - 1) : Order[c][j] \in wrote[c]

Waits(c, d) == c # d /\ \E r \in wrote[d] : Wants(c, r)

\* c is on a cycle of calls waiting for each other.
Deadlocked(c) ==
  \E S \in SUBSET Call :
    /\ c \in S
    /\ \A x \in S : (\E y \in S : Waits(x, y)) /\ (\E y \in S : Waits(y, x))

-----------------------------------------------------------------------------
TranInit ==
  /\ db = [r \in Row |-> [c \in Call |-> 0]]
  /\ tx = [c \in Call |-> "none"]
  /\ wrote = [c \in Call |-> {}]
  /\ tranPc = [c \in Call |-> "idle"]
  /\ attempt = [c \in Call |-> 0]
  /\ err = [c \in Call |-> "none"]
  /\ tranCanceled = [c \in Call |-> FALSE]
  /\ unsure = [c \in Call |-> FALSE]

CallGoto(c, p) == tranPc' = [tranPc EXCEPT ![c] = p]

\* Do makes its first attempt.
Start(c) ==
  /\ tranPc[c] = "idle"
  /\ CallGoto(c, "begin")
  /\ attempt' = [attempt EXCEPT ![c] = 1]
  /\ UNCHANGED <<db, tx, wrote, err, tranCanceled, unsure>>

BeginTx(c) ==
  /\ tranPc[c] = "begin" /\ ~tranCanceled[c]
  /\ CallGoto(c, "fn")
  /\ tx' = [tx EXCEPT ![c] = "open"]
  /\ err' = [err EXCEPT ![c] = "none"]
  /\ UNCHANGED <<db, wrote, attempt, tranCanceled, unsure>>

\* BeginTxx fails: the pool is down, or the context is done.
BeginFails(c) ==
  /\ tranPc[c] = "begin"
  /\ CallGoto(c, "decide")
  /\ err' = [err EXCEPT ![c] = "terminal"]
  /\ UNCHANGED <<db, tx, wrote, attempt, tranCanceled, unsure>>

\* A statement of fn, in the transaction of c or in a call that joined it.
Update(c) ==
  \E r \in Rows(c) :
    /\ Wants(c, r)
    /\ \A d \in Call \ {c} : r \notin wrote[d]
    /\ wrote' = [wrote EXCEPT ![c] = @ \cup {r}]
    /\ UNCHANGED <<db, tx, tranPc, attempt, err, tranCanceled, unsure>>

\* The server aborts the victim of a deadlock and frees its locks; the
\* statement of fn returns a retryable error.
Deadlock(c) ==
  /\ Deadlocked(c)
  /\ tx' = [tx EXCEPT ![c] = "aborted"]
  /\ wrote' = [wrote EXCEPT ![c] = {}]
  /\ UNCHANGED <<db, tranPc, attempt, err, tranCanceled, unsure>>

\* fn returns.  It returns nil when it has updated its rows, or when it drops
\* the error of a failed statement; any error at any time; or it panics.
FnReturns(c, e) ==
  /\ tranPc[c] = "fn"
  /\ e = "none" => tx[c] # "open" \/ wrote[c] = Rows(c)
  /\ err' = [err EXCEPT ![c] = e]
  /\ CallGoto(c, IF e = "none" THEN "commit" ELSE "rollback")
  /\ UNCHANGED <<db, tx, wrote, attempt, tranCanceled, unsure>>

\* The transaction of c ends; its updates are kept or not.
End(c, keep) ==
  /\ db' = IF keep
           THEN [r \in Row |-> IF r \in wrote[c] THEN [db[r] EXCEPT ![c] = @ + 1]
                                                 ELSE db[r]]
           ELSE db
  /\ tx' = [tx EXCEPT ![c] = "done"]
  /\ wrote' = [wrote EXCEPT ![c] = {}]

Commit(c) ==
  /\ tranPc[c] = "commit" /\ tx[c] = "open" /\ ~tranCanceled[c]
  /\ End(c, TRUE)
  /\ CallGoto(c, "decide")
  /\ UNCHANGED <<attempt, err, tranCanceled, unsure>>

\* COMMIT is refused and the transaction rolled back: by a serialization
\* failure, which is retryable, or because the transaction was aborted, its
\* context is done or a deferred constraint fails, which is not.  The deferred
\* Rollback then finds the transaction done.
CommitFails(c, e) ==
  /\ tranPc[c] = "commit"
  /\ e = "retryable" => tx[c] = "open" /\ ~tranCanceled[c]
  /\ End(c, FALSE)
  /\ err' = [err EXCEPT ![c] = e]
  /\ CallGoto(c, "decide")
  /\ UNCHANGED <<attempt, tranCanceled, unsure>>

\* The connection breaks during COMMIT, before or after it took effect.
CommitLost(c, keep) ==
  /\ tranPc[c] = "commit" /\ tx[c] = "open" /\ ~tranCanceled[c]
  /\ End(c, keep)
  /\ err' = [err EXCEPT ![c] = "terminal"]
  /\ unsure' = [unsure EXCEPT ![c] = TRUE]
  /\ CallGoto(c, "decide")
  /\ UNCHANGED <<attempt, tranCanceled>>

\* The deferred Rollback; a panic then goes on through Do to the caller.
Rollback(c) ==
  /\ tranPc[c] = "rollback"
  /\ End(c, FALSE)
  /\ CallGoto(c, IF err[c] = "panic" THEN "returned" ELSE "decide")
  /\ UNCHANGED <<attempt, err, tranCanceled, unsure>>

TerminalNever(c) == err[c] = "none"

Terminal(c) == err[c] # "retryable"

LastAttempt(c) == attempt[c] = Budget

\* Do returns nil, a terminal error, or the error of the last attempt.
DoReturns(c) ==
  /\ tranPc[c] = "decide"
  /\ err[c] = "none" \/ Terminal(c) \/ LastAttempt(c)
  /\ CallGoto(c, "returned")
  /\ UNCHANGED <<db, tx, wrote, attempt, err, tranCanceled, unsure>>

DoSleeps(c) ==
  /\ tranPc[c] = "decide"
  /\ err[c] # "none" /\ ~Terminal(c) /\ ~LastAttempt(c)
  /\ CallGoto(c, "sleep")
  /\ UNCHANGED <<db, tx, wrote, attempt, err, tranCanceled, unsure>>

\* The delay is over.
Again(c) ==
  /\ tranPc[c] = "sleep"
  /\ CallGoto(c, "begin")
  /\ attempt' = [attempt EXCEPT ![c] = @ + 1]
  /\ UNCHANGED <<db, tx, wrote, err, tranCanceled, unsure>>

\* The context ends the delay: Do reports the last error of the operation.
SleepCanceled(c) ==
  /\ tranPc[c] = "sleep" /\ tranCanceled[c]
  /\ CallGoto(c, "returned")
  /\ UNCHANGED <<db, tx, wrote, attempt, err, tranCanceled, unsure>>

\* The caller cancels the context.
CancelCall(c) ==
  /\ tranPc[c] \notin {"idle", "returned"} /\ ~tranCanceled[c]
  /\ tranCanceled' = [tranCanceled EXCEPT ![c] = TRUE]
  /\ UNCHANGED <<db, tx, wrote, tranPc, attempt, err, unsure>>

\* database/sql rolls back a transaction whose context is done.
CtxRollback(c) ==
  /\ tranCanceled[c] /\ tx[c] \in {"open", "aborted"}
  /\ End(c, FALSE)
  /\ UNCHANGED <<tranPc, attempt, err, tranCanceled, unsure>>

Step(c) ==
  \/ BeginTx(c) \/ BeginFails(c) \/ Update(c) \/ Deadlock(c)
  \/ \E e \in Err : FnReturns(c, e)
  \/ Commit(c)
  \/ \E e \in {"retryable", "terminal"} : CommitFails(c, e)
  \/ \E keep \in BOOLEAN : CommitLost(c, keep)
  \/ Rollback(c) \/ DoReturns(c) \/ DoSleeps(c) \/ Again(c) \/ SleepCanceled(c)
  \/ CtxRollback(c)

TranNext == \E c \in Call : Start(c) \/ CancelCall(c) \/ Step(c)

TranSpec == TranInit /\ [][TranNext]_tranVars

\* A started call goes on: fn returns, Postgres answers and breaks deadlocks.
TranFairSpec == TranSpec /\ \A c \in Call : WF_tranVars(Step(c))

-----------------------------------------------------------------------------
TranTypeOK ==
  /\ db \in [Row -> [Call -> Nat]]
  /\ tx \in [Call -> {"none", "open", "aborted", "done"}]
  /\ wrote \in [Call -> SUBSET Row]
  /\ tranPc \in [Call -> PC]
  /\ attempt \in [Call -> 0..Budget]
  /\ err \in [Call -> Err]
  /\ tranCanceled \in [Call -> BOOLEAN]
  /\ unsure \in [Call -> BOOLEAN]

\* However often a call re-runs its function, its updates are in the database
\* once or not at all, and all of them or none.
AllOnceOrNone ==
  \A c \in Call : \E n \in {0, 1} : \A r \in Rows(c) : db[r][c] = n

\* A call that returns nil has committed; a call that returns an error, or lets
\* a panic through, has left nothing, unless the answer to its COMMIT was lost.
ResultIsTrue ==
  \A c \in Call :
    tranPc[c] = "returned" /\ ~unsure[c] =>
      \A r \in Rows(c) : db[r][c] = IF err[c] = "none" THEN 1 ELSE 0

\* A call that waits for its next attempt, or has returned on any path, a panic
\* included, holds no transaction and no row lock.
NothingHeld ==
  \A c \in Call :
    tranPc[c] \in {"decide", "sleep", "begin", "returned"} =>
      tx[c] \in {"none", "done"} /\ wrote[c] = {}

\* Every call of WithinTran returns: deadlocks are broken, the attempts are
\* bounded, and no path of tran leaves a lock another call waits for.
EveryCallReturns == \A c \in Call : tranPc[c] = "begin" ~> tranPc[c] = "returned"

\* What WithinTran promises: all or nothing and once, however often it retried, a
\* result that says which, and nothing left open.
TranSafety == AllOnceOrNone /\ ResultIsTrue /\ NothingHeld
=============================================================================
