----------------------------- MODULE MCRateLimiter -----------------------------
(***************************************************************************)
(* TLC instance of RateLimiter: a bucket of two tokens of two units each,  *)
(* three units per tick, readings up to two ticks late or set back, and    *)
(* interchangeable goroutines.                                             *)
(***************************************************************************)
EXTENDS RateLimiter, TLC

GoroutineSymmetry == Permutations(Requests)

=============================================================================
