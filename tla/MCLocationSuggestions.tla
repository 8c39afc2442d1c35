------------------------- MODULE MCLocationSuggestions -------------------------
(***************************************************************************)
(* TLC instance of LocationSuggestions: ann writes the posts, bob suggests.*)
(***************************************************************************)
EXTENDS LocationSuggestions

CONSTANTS ann, bob

MCAuthor == [p \in Posts |-> ann]

=============================================================================
