------------------------------ MODULE ReviewVotes ------------------------------
(***************************************************************************)
(* Requests that vote on, moderate or delete a post, each in the           *)
(* READ COMMITTED transaction its handler opens.  row, ballots and         *)
(* lastAction are the committed tables; what a transaction has written but *)
(* not committed stays in its request record.  lock[p] is the lock on the  *)
(* post's row, which SELECT ... FOR UPDATE and UPDATE take and the end of  *)
(* the transaction releases.                                               *)
(***************************************************************************)
EXTENDS VoteBoard

CONSTANTS
    Admins,         \* users with role ADMIN
    Ages,           \* ages in days that an account may have when it votes
    Requests,       \* the HTTP requests of a behaviour, each served once
    None

VARIABLES
    lastAction,     \* lastAction[p]: the newest row of admin_actions about p
    lock,           \* lock[p]: the request holding the row lock, or None
    req             \* req[r]: progress of request r

ASSUME ConstantsAssumption ==
    /\ Author \in [Posts -> Users]
    /\ Ages \subseteq Nat
    /\ None \notin Requests

vars == <<row, ballots, lastAction, lock, req>>

VoteKinds == VoteChoices \cup {"REMOVE"}
AdminKinds == {"HIDE_POST", "RESTORE_POST"}
ASSUME NoActionAssumption == None \notin AdminKinds
Kinds == VoteKinds \cup AdminKinds \cup {"DELETE"}

(* Where a request stands: "lock" is about to run the statement that needs *)
(* the row lock; "ballot", "snapshot", "tally", "audit" and "commit" name  *)
(* the statement that a transaction holding the lock runs next.            *)
PCs == {"idle", "lock", "ballot", "snapshot", "tally", "audit", "commit", "done"}

InTx == {"ballot", "snapshot", "tally", "audit", "commit"}

Request == [pc : PCs, kind : Kinds \cup {None}, user : Users \cup {None},
            post : Posts \cup {None}, ballot : Ballot \cup {NoBallot},
            box : BallotBox \cup {None}, row : Row \cup {None}]

Idle == [pc |-> "idle", kind |-> None, user |-> None, post |-> None,
         ballot |-> NoBallot, box |-> None, row |-> None]

(* Answered, with a success or an error that nothing later depends on.     *)
Done == [Idle EXCEPT !.pc = "done"]

Init ==
    /\ BoardInit
    /\ lastAction = [p \in Posts |-> None]
    /\ lock = [p \in Posts |-> None]
    /\ req = [r \in Requests |-> Idle]

-----------------------------------------------------------------------------
(* Steps of a request.                                                     *)

(* The handler's reads outside a transaction: Delete loads the post to     *)
(* check the author (404, 403), moderation checks the role (403).          *)
MayAsk(kind, u, p) ==
    /\ kind = "DELETE" => ~row[p].deleted /\ u = Author[p]
    /\ kind \in AdminKinds => u \in Admins

Receive(r, kind, u, p) ==
    /\ req[r].pc = "idle"
    /\ req' = [req EXCEPT ![r] =
                  IF MayAsk(kind, u, p)
                  THEN [@ EXCEPT !.pc = "lock", !.kind = kind, !.user = u, !.post = p]
                  ELSE Done]
    /\ UNCHANGED <<row, ballots, lastAction, lock>>

(* What the row read by SELECT ... FOR UPDATE must say for a vote: the     *)
(* post exists (404), is another's (403) and, unless the vote is           *)
(* withdrawn, is VISIBLE (409).                                            *)
MayVote(kind, u, p) ==
    /\ ~row[p].deleted
    /\ u # Author[p]
    /\ kind = "REMOVE" \/ row[p].status = "VISIBLE"

LockFree(r) == lock[req[r].post] = None

(* The same SELECT without FOR UPDATE.                                     *)
LockForVote_NoForUpdate(r) ==
    /\ req[r].pc = "lock"
    /\ req[r].kind \in VoteKinds
    /\ req' = [req EXCEPT ![r] = IF MayVote(@.kind, @.user, @.post)
                                 THEN [@ EXCEPT !.pc = "ballot"] ELSE Done]
    /\ UNCHANGED <<row, ballots, lastAction, lock>>

(* A refusal that returns without the rollback.                            *)
LockForVote_ForgetsRollback(r) ==
    /\ req[r].pc = "lock"
    /\ req[r].kind \in VoteKinds
    /\ LockFree(r)
    /\ lock' = [lock EXCEPT ![req[r].post] = r]
    /\ req' = [req EXCEPT ![r] = IF MayVote(@.kind, @.user, @.post)
                                 THEN [@ EXCEPT !.pc = "ballot"] ELSE Done]
    /\ UNCHANGED <<row, ballots, lastAction>>

(* SELECT user_id,status ... FOR UPDATE; a refusal rolls back at once.     *)
LockForVote(r) ==
    /\ req[r].pc = "lock"
    /\ req[r].kind \in VoteKinds
    /\ LockFree(r)
    /\ IF MayVote(req[r].kind, req[r].user, req[r].post)
       THEN /\ lock' = [lock EXCEPT ![req[r].post] = r]
            /\ req' = [req EXCEPT ![r].pc = "ballot"]
       ELSE /\ req' = [req EXCEPT ![r] = Done]
            /\ UNCHANGED lock
    /\ UNCHANGED <<row, ballots, lastAction>>

(* The account's age is read, its weight computed, and the vote upserted   *)
(* or deleted.                                                             *)
WriteBallot(r) ==
    /\ req[r].pc = "ballot"
    /\ \E days \in Ages :
          req' = [req EXCEPT ![r].pc = "snapshot",
                             ![r].ballot =
                                 IF req[r].kind = "REMOVE" THEN NoBallot
                                 ELSE [choice |-> req[r].kind,
                                       weight |-> CalculateWeight(days)]]
    /\ UNCHANGED <<row, ballots, lastAction, lock>>

(* UPDATE posts SET trusted_weight=(SELECT SUM ...), ...: its subqueries   *)
(* see the ballots committed when the statement starts, and the vote the   *)
(* transaction has written itself.                                         *)
TallySnapshot(r) ==
    /\ req[r].pc = "snapshot"
    /\ req' = [req EXCEPT ![r].pc = "tally",
                          ![r].box = [ballots[req[r].post] EXCEPT ![req[r].user] = req[r].ballot]]
    /\ UNCHANGED <<row, ballots, lastAction, lock>>

(* ... and then it writes the newest version of the row, once it may.      *)
WriteTally(r) ==
    LET p == req[r].post
    IN  /\ req[r].pc = "tally"
        /\ lock[p] \in {None, r}
        /\ lock' = [lock EXCEPT ![p] = r]
        /\ req' = [req EXCEPT ![r].pc = "commit", ![r].row = Judged(row[p], req[r].box)]
        /\ UNCHANGED <<row, ballots, lastAction>>

(* An UPDATE that waits for the row lock re-evaluates deleted_at IS NULL   *)
(* on the newest version; no row is a 404 and a rollback.                  *)
UpdateRow(r, new, next) ==
    LET p == req[r].post
    IN  /\ req[r].pc = "lock"
        /\ LockFree(r)
        /\ \/ /\ ~row[p].deleted
              /\ lock' = [lock EXCEPT ![p] = r]
              /\ req' = [req EXCEPT ![r].pc = next, ![r].row = new]
           \/ /\ row[p].deleted
              /\ req' = [req EXCEPT ![r] = Done]
              /\ UNCHANGED lock
        /\ UNCHANGED <<row, ballots, lastAction>>

HidePost(r) ==
    req[r].kind = "HIDE_POST" /\ UpdateRow(r, Hidden(row[req[r].post]), "audit")

RestorePost(r) ==
    req[r].kind = "RESTORE_POST" /\ UpdateRow(r, Restored(row[req[r].post]), "audit")

SoftDelete(r) ==
    req[r].kind = "DELETE" /\ UpdateRow(r, Deleted(row[req[r].post]), "commit")

(* INSERT INTO admin_actions, seen by others at the commit.                *)
RecordAction(r) ==
    /\ req[r].pc = "audit"
    /\ req' = [req EXCEPT ![r].pc = "commit"]
    /\ UNCHANGED <<row, ballots, lastAction, lock>>

Commit(r) ==
    LET p == req[r].post
    IN  /\ req[r].pc = "commit"
        /\ row' = [row EXCEPT ![p] = req[r].row]
        /\ ballots' = IF req[r].kind \in VoteKinds
                      THEN [ballots EXCEPT ![p][req[r].user] = req[r].ballot]
                      ELSE ballots
        /\ lastAction' = IF req[r].kind \in AdminKinds
                         THEN [lastAction EXCEPT ![p] = req[r].kind]
                         ELSE lastAction
        /\ lock' = [lock EXCEPT ![p] = None]
        /\ req' = [req EXCEPT ![r] = Done]

(* A statement fails, or the client's context is cancelled: WithTx rolls   *)
(* back, the lock goes and nothing was ever visible.                       *)
Rollback(r) ==
    LET p == req[r].post
    IN  /\ req[r].pc \in InTx \cup {"lock"}
        /\ lock' = IF lock[p] = r THEN [lock EXCEPT ![p] = None] ELSE lock
        /\ req' = [req EXCEPT ![r] = Done]
        /\ UNCHANGED <<row, ballots, lastAction>>

Step(r) ==
    \/ LockForVote(r) \/ WriteBallot(r) \/ TallySnapshot(r) \/ WriteTally(r)
    \/ HidePost(r) \/ RestorePost(r) \/ RecordAction(r)
    \/ SoftDelete(r)
    \/ Commit(r)

Next ==
    \/ \E r \in Requests, kind \in Kinds, u \in Users, p \in Posts : Receive(r, kind, u, p)
    \/ \E r \in Requests : Step(r) \/ Rollback(r)

Spec == Init /\ [][Next]_vars

(* A handler keeps running until it answers, and PostgreSQL keeps serving  *)
(* it: the goroutine of a received request is never abandoned.             *)
FairSpec == Spec /\ \A r \in Requests : WF_vars(Step(r))

-----------------------------------------------------------------------------
(* Properties.                                                             *)

(* Every variable has its type.                                            *)
TypeOK ==
    /\ row \in [Posts -> Row]
    /\ ballots \in [Posts -> BallotBox]
    /\ lastAction \in [Posts -> AdminKinds \cup {None}]
    /\ lock \in [Posts -> Requests \cup {None}]
    /\ req \in [Requests -> Request]

(* The row a transaction is about to commit is the newest row, changed as  *)
(* its request asked; its premises (the post exists, is another's, is      *)
(* VISIBLE for a new ballot) still hold.  This makes the invariants below  *)
(* inductive: it fails as soon as a step forgets the row lock.             *)
StagedRow(r) ==
    LET p == req[r].post
        box == [ballots[p] EXCEPT ![req[r].user] = req[r].ballot]
    IN  CASE req[r].kind = "HIDE_POST"    -> Hidden(row[p])
          [] req[r].kind = "RESTORE_POST" -> Restored(row[p])
          [] req[r].kind = "DELETE"       -> Deleted(row[p])
          [] OTHER                        -> Judged(row[p], box)

Current(r) ==
    LET p == req[r].post
        u == req[r].user
        kind == req[r].kind
        pc == req[r].pc
    IN  /\ pc \in InTx \cup {"lock"} => p \in Posts /\ u \in Users /\ kind \in Kinds
        /\ pc \in InTx => lock[p] = r /\ ~row[p].deleted
        /\ pc \in {"ballot", "snapshot", "tally"} => kind \in VoteKinds
        /\ pc = "audit" => kind \in AdminKinds
        /\ pc \in InTx /\ kind \in VoteKinds =>
               u # Author[p] /\ (kind # "REMOVE" => row[p].status = "VISIBLE")
        /\ pc \in InTx \ {"ballot"} /\ kind = "REMOVE" => req[r].ballot = NoBallot
        /\ pc = "tally" => req[r].box = [ballots[p] EXCEPT ![u] = req[r].ballot]
        /\ pc \in {"audit", "commit"} => req[r].row = StagedRow(r)

TransactionsAreCurrent == \A r \in Requests : Current(r)

(* The aggregate columns of a post are the sums over its committed ballots *)
(* at every instant, whoever votes concurrently: the posts table calls     *)
(* them a cache always updated in the transaction of the original change.  *)
TallyMatchesBallots ==
    \A p \in Posts : row[p].tally = Aggregate(ballots[p])

(* The three records of who hides a post agree: a post whose newest admin  *)
(* action is HIDE_POST is not visible again, only such a post is hidden by *)
(* an admin, and hidden_at is set exactly while somebody hides the post,   *)
(* however moderation, votes and deletion interleave.                      *)
AuditExplainsStatus ==
    \A p \in Posts :
        /\ lastAction[p] = "HIDE_POST" => row[p].status # "VISIBLE"
        /\ row[p].status = "HIDDEN_BY_ADMIN" => lastAction[p] = "HIDE_POST"
        /\ ~row[p].deleted => (row[p].hiddenAt <=> row[p].status # "VISIBLE")

(* A committed change of ballots that meets the rule leaves the post       *)
(* HIDDEN_BY_COMMUNITY, and the community hides a post only in a step      *)
(* after which the committed ballots meet the rule.                        *)
CommunityHidesByRule ==
    [][\A p \in Posts :
         LET met == ShouldHide(Aggregate(ballots'[p]))
             hidden == row'[p].status = "HIDDEN_BY_COMMUNITY"
         IN  /\ ballots'[p] # ballots[p] /\ met => hidden
             /\ hidden /\ row[p].status # "HIDDEN_BY_COMMUNITY" => met]_vars

(* The technical document: "Bài không VISIBLE -> 409" for votes.  Taken    *)
(* for both methods of /posts/{id}/vote, no vote request changes the row   *)
(* or the ballots of a post that is not VISIBLE.                           *)
NoVoteChangesHiddenPost ==
    [][\A r \in Requests :
         req[r].kind \in VoteKinds /\ req[r].post # None =>
             LET p == req[r].post
             IN  req'[r].pc = "done" /\ row[p].status # "VISIBLE" =>
                     row'[p] = row[p] /\ ballots'[p] = ballots[p]]_vars

(* Every received request is answered: no refusal, rollback or commit      *)
(* leaves the row locked.                                                  *)
EveryRequestAnswered ==
    \A r \in Requests : req[r].pc = "lock" ~> req[r].pc = "done"

(* The transactions implement the one-step requests of VoteBoard, which    *)
(* has the same two variables: a commit is the step, all else stutters.    *)
ImplementsVoteBoard == BoardSpec

=============================================================================
