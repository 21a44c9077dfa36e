----------------------------- MODULE QueueLife -----------------------------
(***************************************************************************)
(* What the queue promises about one task after another, without leases,   *)
(* batches, clocks or workers: a scheduled task waits until its handler     *)
(* has succeeded on it, counts at most one attempt per failure, never loses *)
(* one, and goes to the dead letters only when it was refused or has spent  *)
(* its budget.  Queue implements this specification (LifeSpec of Queue).    *)
(***************************************************************************)
EXTENDS Integers

CONSTANTS Task, MaxAttempts

VARIABLES
  phase,      \* "new", "waiting", "dead" or "gone"
  attempts,   \* counted failures
  succeeded, refused, failures   \* what the handler has returned so far

vars == <<phase, attempts, succeeded, refused, failures>>

Exhausted(n) == MaxAttempts > 0 /\ n >= MaxAttempts

Init ==
  /\ phase = [t \in Task |-> "new"]
  /\ attempts = [t \in Task |-> 0]
  /\ succeeded = {}
  /\ refused = {}
  /\ failures = [t \in Task |-> 0]

Add(t) ==
  /\ phase[t] = "new"
  /\ phase' = [phase EXCEPT ![t] = "waiting"]
  /\ UNCHANGED <<attempts, succeeded, refused, failures>>

\* The handler runs on t, maybe more than once and maybe late, and returns.
Succeed(t) ==
  /\ phase[t] # "new"
  /\ succeeded' = succeeded \union {t}
  /\ UNCHANGED <<phase, attempts, refused, failures>>

Fail(t, permanent) ==
  /\ phase[t] # "new"
  /\ failures' = [failures EXCEPT ![t] = @ + 1]
  /\ refused' = IF permanent THEN refused \union {t} ELSE refused
  /\ UNCHANGED <<phase, attempts, succeeded>>

\* A waiting task leaves the queue because it succeeded.
Finish(t) ==
  /\ phase[t] = "waiting" /\ t \in succeeded
  /\ phase' = [phase EXCEPT ![t] = "gone"]
  /\ attempts' = [attempts EXCEPT ![t] = 0]
  /\ UNCHANGED <<succeeded, refused, failures>>

\* A failure is counted, once, and the task waits for its next try.
Count(t) ==
  /\ phase[t] = "waiting" /\ attempts[t] < failures[t]
  /\ ~Exhausted(attempts[t] + 1)
  /\ attempts' = [attempts EXCEPT ![t] = @ + 1]
  /\ UNCHANGED <<phase, succeeded, refused, failures>>

\* A failure is counted and is the last one.
Bury(t) ==
  /\ phase[t] = "waiting" /\ attempts[t] < failures[t]
  /\ t \in refused \/ Exhausted(attempts[t] + 1)
  /\ phase' = [phase EXCEPT ![t] = "dead"]
  /\ attempts' = [attempts EXCEPT ![t] = @ + 1]
  /\ UNCHANGED <<succeeded, refused, failures>>

\* The cleaner drops dead letters.
Drop(T) ==
  /\ \A t \in T : phase[t] = "dead"
  /\ phase' = [t \in Task |-> IF t \in T THEN "gone" ELSE phase[t]]
  /\ attempts' = [t \in Task |-> IF t \in T THEN 0 ELSE attempts[t]]
  /\ UNCHANGED <<succeeded, refused, failures>>

Next ==
  \/ \E t \in Task :
       \/ Add(t) \/ Succeed(t) \/ Fail(t, FALSE) \/ Fail(t, TRUE)
       \/ Finish(t) \/ Count(t) \/ Bury(t)
  \/ \E T \in SUBSET Task : Drop(T)

Spec == Init /\ [][Next]_vars
=============================================================================
