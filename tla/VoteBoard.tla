------------------------------ MODULE VoteBoard ------------------------------
(***************************************************************************)
(* What voting and moderation promise, with every request a single step:   *)
(* the ballots of a post and the row that summarises them change together, *)
(* and each change obeys the rules of the moment at which it happens.      *)
(* ReviewVotes implements this specification with transactions.            *)
(***************************************************************************)
EXTENDS VoteRules

CONSTANTS
    Posts,
    Author          \* Author[p] is the account that wrote p

VARIABLES
    row,            \* row[p]: the columns of posts that voting touches
    ballots         \* ballots[p]: the rows of review_votes for p

boardVars == <<row, ballots>>

Status == {"VISIBLE", "HIDDEN_BY_COMMUNITY", "HIDDEN_BY_ADMIN", "DELETED_BY_AUTHOR"}

Row == [status : Status, deleted : BOOLEAN, hiddenAt : BOOLEAN, tally : Tallies]

(* Judging by the tally stored before this vote.                           *)
Judged_StaleTally(post, box) ==
    LET hide == ShouldHide(post.tally)
    IN  [post EXCEPT !.tally    = Aggregate(box),
                     !.status   = IF hide THEN "HIDDEN_BY_COMMUNITY" ELSE @,
                     !.hiddenAt = @ \/ hide]

(* Judging without the ELSE p.status of the CASE.                          *)
Judged_Reopens(post, box) ==
    LET hide == ShouldHide(Aggregate(box))
    IN  [post EXCEPT !.tally    = Aggregate(box),
                     !.status   = IF hide THEN "HIDDEN_BY_COMMUNITY" ELSE "VISIBLE",
                     !.hiddenAt = hide]

(* A post row after its aggregates were recomputed from a ballot box.      *)
Judged(post, box) ==
    LET hide == ShouldHide(Aggregate(box))
    IN  [post EXCEPT !.tally    = Aggregate(box),
                     !.status   = IF hide THEN "HIDDEN_BY_COMMUNITY" ELSE @,
                     !.hiddenAt = @ \/ hide]

Hidden(post) == [post EXCEPT !.status = "HIDDEN_BY_ADMIN", !.hiddenAt = TRUE]

Restored(post) == [post EXCEPT !.status = "VISIBLE", !.hiddenAt = FALSE]

Deleted(post) == [post EXCEPT !.status = "DELETED_BY_AUTHOR", !.deleted = TRUE]

BoardInit ==
    /\ row = [p \in Posts |->
                [status |-> "VISIBLE", deleted |-> FALSE, hiddenAt |-> FALSE,
                 tally |-> Aggregate(EmptyBox)]]
    /\ ballots = [p \in Posts |-> EmptyBox]

(* Replace u's ballot on p and judge p by the ballots that result.         *)
PutBallot(u, p, ballot) ==
    /\ ~row[p].deleted
    /\ u # Author[p]
    /\ ballots' = [ballots EXCEPT ![p][u] = ballot]
    /\ row' = [row EXCEPT ![p] = Judged(row[p], ballots'[p])]

CastVote(u, p) ==
    /\ row[p].status = "VISIBLE"
    /\ \E ballot \in Ballot : PutBallot(u, p, ballot)

WithdrawVote(u, p) == PutBallot(u, p, NoBallot)

Moderate(p) ==
    /\ ~row[p].deleted
    /\ \E post \in {Hidden(row[p]), Restored(row[p])} : row' = [row EXCEPT ![p] = post]
    /\ UNCHANGED ballots

DeletePost(p) ==
    /\ ~row[p].deleted
    /\ row' = [row EXCEPT ![p] = Deleted(@)]
    /\ UNCHANGED ballots

BoardNext ==
    \E p \in Posts :
        \/ \E u \in Users : CastVote(u, p) \/ WithdrawVote(u, p)
        \/ Moderate(p)
        \/ DeletePost(p)

BoardSpec == BoardInit /\ [][BoardNext]_boardVars

=============================================================================
