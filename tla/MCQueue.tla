------------------------------ MODULE MCQueue ------------------------------
(* Small instances of Queue. *)
EXTENDS Queue, TLC

CONSTANTS w1, w2

MCSkew == w1 :> 0 @@ w2 :> 1
MCFar == w1 :> 0 @@ w2 :> 3
MCRetryDelay == <<1, 2>>
MCAtOnce == <<0>>
MCSymmetry == Permutations(LeaseId)
=============================================================================
