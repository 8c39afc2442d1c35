----------------------------- MODULE MCReviewVotes -----------------------------
(***************************************************************************)
(* TLC instance of ReviewVotes: one post by ann, two or three other users, *)
(* one of them an admin, and a threshold of two ballots in place of 200.   *)
(***************************************************************************)
EXTENDS ReviewVotes, TLC

CONSTANTS ann, bob, eve

MCAuthor == [p \in Posts |-> ann]

MCAges == {6, 7, 30}

RequestSymmetry == Permutations(Requests)

=============================================================================
