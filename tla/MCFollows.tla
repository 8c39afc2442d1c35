------------------------------- MODULE MCFollows -------------------------------
(***************************************************************************)
(* TLC instance of Follows: a few users and requests, the requests being   *)
(* interchangeable in the runs without liveness.                           *)
(***************************************************************************)
EXTENDS Follows, TLC

RequestSymmetry == Permutations(Requests)

=============================================================================
