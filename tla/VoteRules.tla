------------------------------ MODULE VoteRules ------------------------------
(***************************************************************************)
(* The pure rules of the trust vote: how much a ballot weighs, what the    *)
(* aggregate columns of a post are for a given set of ballots, and when    *)
(* the community hides a post.                                             *)
(*                                                                         *)
(* Weights are counted in quarters of a vote (the code's 0.25, 0.5 and 1), *)
(* so that the DECIMAL sums of the database stay integers here.            *)
(***************************************************************************)
EXTENDS Integers, FiniteSetsExt

CONSTANTS
    Users,          \* accounts that may vote
    HideAtVotes,    \* ballots a post needs before it can be hidden (200)
    NoBallot        \* the absence of a row in review_votes

ASSUME HideAtVotesAssumption == HideAtVotes \in Nat \ {0}

VoteChoices == {"TRUSTED", "UNTRUSTED"}

Weights == {1, 2, 4}

Ballot == [choice : VoteChoices, weight : Weights]

(* One post's part of review_votes: its primary key is (post_id, user_id). *)
BallotBox == [Users -> Ballot \cup {NoBallot}]

EmptyBox == [u \in Users |-> NoBallot]

ASSUME NoBallotAssumption == NoBallot \notin Ballot

(* A plausible slip in the rule: new accounts count for nothing.           *)
CalculateWeight_NewIsZero(age) ==
    CASE age < 7  -> 0
      [] age >= 7 /\ age < 30 -> 2
      [] OTHER -> 4

(* The weight of a vote by an account of that many days. *)
CalculateWeight(age) ==
    CASE age < 7  -> 1
      [] age >= 7 /\ age < 30 -> 2
      [] OTHER -> 4

Voters(box) == {u \in Users : box[u] # NoBallot}

WeightOf(box, choice) ==
    LET of == {u \in Voters(box) : box[u].choice = choice}
    IN  MapThenSumSet(LAMBDA u : box[u].weight, of)

(* The denormalised columns trusted_weight, untrusted_weight and           *)
(* total_vote_count that the UPDATE recomputes from the ballots.           *)
Aggregate(box) ==
    [trusted   |-> WeightOf(box, "TRUSTED"),
     untrusted |-> WeightOf(box, "UNTRUSTED"),
     total     |-> Cardinality(Voters(box))]

Tallies == {Aggregate(box) : box \in BallotBox}

(* Strictly more than 70% of the weight distrusts, among enough ballots.   *)
ShouldHide(tally) ==
    /\ tally.total >= HideAtVotes
    /\ 10 * tally.untrusted > 7 * (tally.trusted + tally.untrusted)

=============================================================================
