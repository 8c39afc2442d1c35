-------------------------- MODULE MCPostInteractions --------------------------
(***************************************************************************)
(* TLC instance of PostInteractions: ann's posts and one or two readers.   *)
(***************************************************************************)
EXTENDS PostInteractions, TLC

CONSTANTS ann, bob

MCAuthor == [p \in Posts |-> ann]

RequestSymmetry == Permutations(Requests)

=============================================================================
