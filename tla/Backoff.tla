------------------------------ MODULE Backoff ------------------------------
(***************************************************************************)
(* retry.Backoff: the delay before an attempt and the attempt budget,      *)
(* shared by the queue, dbx.WithinTran, retry.Do and the HTTP transport.   *)
(*                                                                         *)
(* A Backoff is a record [base, max, factor, maxAttempts, jitter].         *)
(* Durations are integers of some unit; the two fractions of the code,     *)
(* Jitter and the random number, are integers 0..One standing for          *)
(* 0, 1/One, ..., 1, so that the float arithmetic is exact here.           *)
(***************************************************************************)
EXTENDS Integers

CONSTANTS One,          \* denominator of the fractions
          MaxDuration   \* math.MaxInt64, the longest time.Duration

\* A Factor of 1 or less means 2.
Factor(b) == IF b.factor <= 1 THEN 2 ELSE b.factor

\* Max is a ceiling when it is positive.
Ceiling(b, d) == IF b.max > 0 /\ d > b.max THEN b.max ELSE d

CenterFromZero(b, attempt) == Ceiling(b, b.base * Factor(b)^attempt)

\* Base * Factor^(attempt-1) under the ceiling; attempts start at 1.
Center(b, attempt) ==
  LET n == IF attempt < 1 THEN 1 ELSE attempt
  IN  Ceiling(b, b.base * Factor(b)^(n - 1))

\* The center moved by (2*rand - 1) * Jitter of itself.
Jittered(b, d, rand) ==
  IF b.jitter > 0
  THEN (d * (One * One + (2 * rand - One) * b.jitter)) \div (One * One)
  ELSE d

\* The final clamps: not negative, not above Max, not above an int64.
Clamp(b, d) ==
  LET e == Ceiling(b, IF d < 0 THEN 0 ELSE d)
  IN  IF e >= MaxDuration THEN MaxDuration ELSE e

NextWithRand(b, attempt, rand) ==
  Clamp(b, Jittered(b, Center(b, attempt), rand))

NextDelay(b, attempt) == NextWithRand(b, attempt, 0)

\* A budget that is not positive is never spent.
Exhausted(b, attempts) == b.maxAttempts > 0 /\ attempts >= b.maxAttempts
=============================================================================
