------------------------------ MODULE MCFeedPages ------------------------------
(***************************************************************************)
(* TLC instance of FeedPages: three posts by ann and one by bob, pages of  *)
(* one or two posts.                                                       *)
(***************************************************************************)
EXTENDS FeedPages, TLC

CONSTANTS ann, bob, p1, p2, p3, p4

MCAuthor == [p \in Posts |-> IF p = p4 THEN bob ELSE ann]

MCAsked == {None, -1, 1, 3}

PostSymmetry == Permutations(Posts \ {p4})

=============================================================================
