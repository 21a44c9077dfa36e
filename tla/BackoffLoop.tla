----------------------------- MODULE BackoffLoop ----------------------------
(* The delays of a retry loop that draws a new random fraction per attempt,   *)
(* beside the schedule a reader of the docs computes by hand: a center that   *)
(* starts at Base and grows by the factor at every attempt, held at Max.      *)
EXTENDS Backoff

CONSTANTS Base, Max, Factors, Jitter,   \* values of the fields of a Backoff
          MaxAttempt                    \* bound on the attempts

VARIABLES b, attempt, rand, delay, center

vars == <<b, attempt, rand, delay, center>>

Policy == [base : Base, max : Max, factor : Factors, maxAttempts : {0}, jitter : Jitter]

Held(d) == IF b.max > 0 /\ d > b.max THEN b.max ELSE d

Init ==
  /\ b \in Policy
  /\ attempt = 1
  /\ rand \in 0..(One - 1)
  /\ delay = NextWithRand(b, attempt, rand)
  /\ center = Held(b.base)

Retry ==
  /\ attempt < MaxAttempt
  /\ attempt' = attempt + 1
  /\ rand' \in 0..(One - 1)
  /\ delay' = NextWithRand(b, attempt', rand')
  /\ center' = Held(center * (IF b.factor > 1 THEN b.factor ELSE 2))
  /\ UNCHANGED b

Spec == Init /\ [][Retry]_vars

\* The delay is never negative, never above Max and never above the longest
\* duration, after the jitter too, and so is the one Next returns.
CeilingHolds ==
  \A d \in {delay, NextDelay(b, attempt)} :
    /\ d \in 0..MaxDuration
    /\ b.max > 0 => d <= b.max

\* The delay lies within Jitter of the center of the schedule, on either side,
\* where no ceiling cuts it: the attempts are counted from 1 and the growth
\* saturates at Max.
InBand ==
  /\ One * delay <= (One + b.jitter) * center
  /\ \/ One * (delay + 1) > (One - b.jitter) * center
     \/ delay = MaxDuration

\* A delay is in its band and under its ceiling, whatever the random fraction.
BackoffSafety == CeilingHolds /\ InBand
=============================================================================
