--------------------------- MODULE ReviewVotesProofs ---------------------------
(***************************************************************************)
(* Proofs about ReviewVotes, for any users, posts, requests and threshold. *)
(* The inductive invariant is IInv: the types, the fact that the holder of *)
(* a row lock has staged a change of the newest row (which is what the     *)
(* FOR UPDATE buys), and the agreement of aggregates with ballots.         *)
(***************************************************************************)
EXTENDS ReviewVotes, TLAPS

IInv == TypeOK /\ TransactionsAreCurrent /\ TallyMatchesBallots

LEMMA AggregateType ==
    ASSUME NEW box \in BallotBox PROVE Aggregate(box) \in Tallies
  BY DEF Tallies

(* Every way of changing a row yields a row; only Judged moves its tally.  *)
LEMMA RowChanges ==
    ASSUME NEW post \in Row, NEW box \in BallotBox
    PROVE  /\ Judged(post, box) \in Row /\ Judged(post, box).tally = Aggregate(box)
           /\ Hidden(post) \in Row /\ Hidden(post).tally = post.tally
           /\ Restored(post) \in Row /\ Restored(post).tally = post.tally
           /\ Deleted(post) \in Row /\ Deleted(post).tally = post.tally
  <1> USE DEF Row, Status
  <1>1. Aggregate(box) \in Tallies
    BY AggregateType
  <1>2. Judged(post, box) \in Row /\ Judged(post, box).tally = Aggregate(box)
    BY <1>1 DEF Judged
  <1>3. Hidden(post) \in Row /\ Hidden(post).tally = post.tally
    BY DEF Hidden
  <1>4. Restored(post) \in Row /\ Restored(post).tally = post.tally
    BY DEF Restored
  <1>5. Deleted(post) \in Row /\ Deleted(post).tally = post.tally
    BY DEF Deleted
  <1> QED
    BY <1>2, <1>3, <1>4, <1>5

LEMMA BoxChange ==
    ASSUME NEW box \in BallotBox, NEW u \in Users, NEW ballot \in Ballot \cup {NoBallot}
    PROVE  [box EXCEPT ![u] = ballot] \in BallotBox
  BY DEF BallotBox

LEMMA WeightType ==
    ASSUME NEW days \in Nat PROVE CalculateWeight(days) \in Weights
  BY DEF CalculateWeight, Weights

LEMMA InitIInv == Init => IInv
  <1> SUFFICES ASSUME Init PROVE IInv
    OBVIOUS
  <1>1. EmptyBox \in BallotBox
    BY DEF EmptyBox, BallotBox
  <1>2. TypeOK
    <2>1. Aggregate(EmptyBox) \in Tallies
      BY <1>1, AggregateType
    <2>2. row \in [Posts -> Row]
      BY <2>1 DEF Init, BoardInit, Row, Status
    <2>3. Idle \in Request
      BY DEF Idle, Request, PCs
    <2> QED
      BY <1>1, <2>2, <2>3 DEF Init, BoardInit, TypeOK
  <1>3. TransactionsAreCurrent
    BY DEF Init, Idle, InTx, TransactionsAreCurrent, Current
  <1>4. TallyMatchesBallots
    BY DEF Init, BoardInit, TallyMatchesBallots
  <1> QED
    BY <1>2, <1>3, <1>4 DEF IInv

(* A staged row is a row, and committing it keeps aggregates and ballots   *)
(* of the post together.                                                   *)
LEMMA StagedRowFacts ==
    ASSUME IInv, NEW r \in Requests, req[r].pc \in InTx \ {"ballot", "snapshot"}
    PROVE  LET p == req[r].post
               box == [ballots[p] EXCEPT ![req[r].user] = req[r].ballot]
           IN  /\ StagedRow(r) \in Row
               /\ req[r].kind \in VoteKinds => StagedRow(r) = Judged(row[p], box)
               /\ req[r].kind \notin VoteKinds => StagedRow(r).tally = row[p].tally
  <1> DEFINE p == req[r].post
             u == req[r].user
             box == [ballots[p] EXCEPT ![u] = req[r].ballot]
  <1>1. /\ p \in Posts /\ u \in Users /\ req[r].kind \in Kinds
        /\ req[r].ballot \in Ballot \cup {NoBallot}
    BY DEF IInv, TypeOK, TransactionsAreCurrent, Current, Request, InTx
  <1>2. row[p] \in Row /\ ballots[p] \in BallotBox
    BY <1>1 DEF IInv, TypeOK
  <1>3. box \in BallotBox
    BY <1>1, <1>2, BoxChange
  <1> HIDE DEF box
  <1>4. /\ Judged(row[p], box) \in Row
        /\ Hidden(row[p]) \in Row /\ Hidden(row[p]).tally = row[p].tally
        /\ Restored(row[p]) \in Row /\ Restored(row[p]).tally = row[p].tally
        /\ Deleted(row[p]) \in Row /\ Deleted(row[p]).tally = row[p].tally
    BY <1>2, <1>3, RowChanges
  <1> QED
    BY <1>1, <1>4 DEF box, StagedRow, Kinds, VoteKinds, AdminKinds, VoteChoices

(* What a statement changes in its request record keeps it a request.      *)
LEMMA RequestChange ==
    ASSUME NEW q \in Request, NEW pc \in PCs
    PROVE  /\ [q EXCEPT !.pc = pc] \in Request
           /\ \A ballot \in Ballot \cup {NoBallot} :
                 [q EXCEPT !.pc = pc, !.ballot = ballot] \in Request
           /\ \A box \in BallotBox : [q EXCEPT !.pc = pc, !.box = box] \in Request
           /\ \A new \in Row : [q EXCEPT !.pc = pc, !.row = new] \in Request
           /\ \A kind \in Kinds, u \in Users, p \in Posts :
                 [q EXCEPT !.pc = pc, !.kind = kind, !.user = u, !.post = p] \in Request
           /\ Done \in Request
  <1> USE DEF Request
  <1>1. [q EXCEPT !.pc = pc] \in Request
    OBVIOUS
  <1>2. \A ballot \in Ballot \cup {NoBallot} :
          [q EXCEPT !.pc = pc, !.ballot = ballot] \in Request
    OBVIOUS
  <1>3. \A box \in BallotBox : [q EXCEPT !.pc = pc, !.box = box] \in Request
    OBVIOUS
  <1>4. \A new \in Row : [q EXCEPT !.pc = pc, !.row = new] \in Request
    OBVIOUS
  <1>5. \A kind \in Kinds, u \in Users, p \in Posts :
          [q EXCEPT !.pc = pc, !.kind = kind, !.user = u, !.post = p] \in Request
    OBVIOUS
  <1>6. Done \in Request
    BY DEF Done, Idle, PCs
  <1> QED
    BY <1>1, <1>2, <1>3, <1>4, <1>5, <1>6

LEMMA NextTypeOK == IInv /\ [Next]_vars => TypeOK'
  <1> SUFFICES ASSUME IInv, [Next]_vars PROVE TypeOK'
    OBVIOUS
  <1> USE DEF IInv, Current
  <1>1. ASSUME NEW r \in Requests, NEW kind \in Kinds, NEW u \in Users, NEW p \in Posts,
               Receive(r, kind, u, p)
        PROVE  TypeOK'
    <2>1. [req[r] EXCEPT !.pc = "lock", !.kind = kind, !.user = u, !.post = p] \in Request
      BY RequestChange DEF TypeOK, PCs
    <2>2. Done \in Request
      BY RequestChange DEF TypeOK, PCs
    <2> QED
      BY <1>1, <2>1, <2>2 DEF Receive, TypeOK
  <1>2. ASSUME NEW r \in Requests, LockForVote(r) PROVE TypeOK'
    <2>1. req[r].post \in Posts
      BY <1>2 DEF LockForVote, TransactionsAreCurrent
    <2> QED
      BY <1>2, <2>1 DEF LockForVote, TypeOK, Request, Done, Idle, PCs
  <1>3. ASSUME NEW r \in Requests, WriteBallot(r) PROVE TypeOK'
    <2>1. req[r].kind \in VoteKinds
      BY <1>3 DEF WriteBallot, TransactionsAreCurrent
    <2>2. PICK days \in Ages :
            req' = [req EXCEPT ![r].pc = "snapshot",
                               ![r].ballot =
                                   IF req[r].kind = "REMOVE" THEN NoBallot
                                   ELSE [choice |-> req[r].kind,
                                         weight |-> CalculateWeight(days)]]
      BY <1>3 DEF WriteBallot
    <2>3. CalculateWeight(days) \in Weights
      BY ConstantsAssumption, WeightType
    <2>4. (IF req[r].kind = "REMOVE" THEN NoBallot
           ELSE [choice |-> req[r].kind, weight |-> CalculateWeight(days)])
             \in Ballot \cup {NoBallot}
      BY <2>1, <2>3 DEF VoteKinds, Ballot
    <2> DEFINE ballot == IF req[r].kind = "REMOVE" THEN NoBallot
                         ELSE [choice |-> req[r].kind, weight |-> CalculateWeight(days)]
    <2>5. [req[r] EXCEPT !.pc = "snapshot", !.ballot = ballot] \in Request
      <3> HIDE DEF ballot
      <3> QED
        BY <2>4, RequestChange DEF TypeOK, PCs, ballot
    <2> QED
      BY <1>3, <2>2, <2>5 DEF WriteBallot, TypeOK
  <1>4. ASSUME NEW r \in Requests, TallySnapshot(r) PROVE TypeOK'
    <2>1. /\ req[r].post \in Posts /\ req[r].user \in Users
          /\ req[r].ballot \in Ballot \cup {NoBallot}
      BY <1>4 DEF TallySnapshot, TransactionsAreCurrent, InTx, TypeOK, Request
    <2> DEFINE box == [ballots[req[r].post] EXCEPT ![req[r].user] = req[r].ballot]
    <2>2. ballots[req[r].post] \in BallotBox
      BY <2>1 DEF TypeOK
    <2>3. box \in BallotBox
      BY <2>1, <2>2, BoxChange
    <2>4. [req[r] EXCEPT !.pc = "tally", !.box = box] \in Request
      <3> HIDE DEF box
      <3> QED
        BY <2>3, RequestChange DEF TypeOK, PCs
    <2> QED
      BY <1>4, <2>4 DEF TallySnapshot, TypeOK
  <1>5. ASSUME NEW r \in Requests, WriteTally(r) PROVE TypeOK'
    <2>1. req[r].post \in Posts /\ req[r].user \in Users /\ req[r].kind \in VoteKinds
      BY <1>5 DEF WriteTally, TransactionsAreCurrent, InTx
    <2>2. /\ req[r].ballot \in Ballot \cup {NoBallot}
          /\ ballots[req[r].post] \in BallotBox
          /\ row[req[r].post] \in Row
      BY <2>1 DEF TypeOK, Request
    <2>3. req[r].box = [ballots[req[r].post] EXCEPT ![req[r].user] = req[r].ballot]
      BY <1>5 DEF WriteTally, TransactionsAreCurrent
    <2>4. req[r].box \in BallotBox
      <3>1. [ballots[req[r].post] EXCEPT ![req[r].user] = req[r].ballot] \in BallotBox
        BY <2>1, <2>2, BoxChange
      <3> QED
        BY <2>3, <3>1
    <2>5. Judged(row[req[r].post], req[r].box) \in Row
      BY <2>2, <2>4, RowChanges
    <2>6. [req[r] EXCEPT !.pc = "commit", !.row = Judged(row[req[r].post], req[r].box)]
             \in Request
      BY <2>5, RequestChange DEF TypeOK, PCs
    <2> QED
      BY <1>5, <2>1, <2>6 DEF WriteTally, TypeOK
  <1>6. ASSUME NEW r \in Requests, HidePost(r) \/ RestorePost(r) \/ SoftDelete(r)
        PROVE  TypeOK'
    <2>1. req[r].post \in Posts
      BY <1>6 DEF HidePost, RestorePost, SoftDelete, UpdateRow, TransactionsAreCurrent
    <2>2. /\ Hidden(row[req[r].post]) \in Row
          /\ Restored(row[req[r].post]) \in Row
          /\ Deleted(row[req[r].post]) \in Row
      BY <2>1, RowChanges DEF TypeOK
    <2> QED
      BY <1>6, <2>1, <2>2 DEF HidePost, RestorePost, SoftDelete, UpdateRow, TypeOK,
                              Request, Done, Idle, PCs
  <1>7. ASSUME NEW r \in Requests, RecordAction(r) PROVE TypeOK'
    BY <1>7 DEF RecordAction, TypeOK, Request, PCs
  <1>8. ASSUME NEW r \in Requests, Commit(r) PROVE TypeOK'
    <2>1. /\ req[r].post \in Posts /\ req[r].user \in Users
          /\ req[r].ballot \in Ballot \cup {NoBallot}
      BY <1>8 DEF Commit, TransactionsAreCurrent, InTx, TypeOK, Request
    <2>2. req[r].row \in Row
      BY <1>8, StagedRowFacts DEF Commit, TransactionsAreCurrent, InTx
    <2>3. [ballots EXCEPT ![req[r].post][req[r].user] = req[r].ballot] \in [Posts -> BallotBox]
      BY <2>1 DEF TypeOK, BallotBox
    <2> QED
      BY <1>8, <2>1, <2>2, <2>3 DEF Commit, TypeOK, Request, Done, Idle, PCs
  <1>9. ASSUME NEW r \in Requests, Rollback(r) PROVE TypeOK'
    BY <1>9 DEF Rollback, TypeOK, Request, Done, Idle, PCs
  <1>10. CASE UNCHANGED vars
    BY <1>10 DEF vars, TypeOK
  <1> QED
    BY <1>1, <1>2, <1>3, <1>4, <1>5, <1>6, <1>7, <1>8, <1>9, <1>10 DEF Next, Step

(* A step that leaves a request, and the post it has locked, alone leaves  *)
(* its transaction current.                                                *)
LEMMA Unaffected ==
    ASSUME NEW s \in Requests, Current(s), req'[s] = req[s],
           req[s].pc \in InTx =>
               LET p == req[s].post
               IN  lock'[p] = lock[p] /\ row'[p] = row[p] /\ ballots'[p] = ballots[p]
    PROVE  Current(s)'
  BY DEF Current, StagedRow, InTx

(* Two transactions never hold the lock of the same post.                  *)
LEMMA LockIsExclusive ==
    ASSUME NEW r \in Requests, NEW s \in Requests, r # s, TransactionsAreCurrent,
           req[s].pc \in InTx,
           lock[req[r].post] = None \/ req[r].pc \in InTx
    PROVE  req[s].post # req[r].post
  <1>1. lock[req[s].post] = s
    BY DEF TransactionsAreCurrent, Current
  <1>2. req[r].pc \in InTx => lock[req[r].post] = r
    BY DEF TransactionsAreCurrent, Current
  <1> QED
    BY <1>1, <1>2, ConstantsAssumption

LEMMA NextCurrent == IInv /\ [Next]_vars => TransactionsAreCurrent'
  <1> SUFFICES ASSUME IInv, [Next]_vars, NEW s \in Requests PROVE Current(s)'
    BY DEF TransactionsAreCurrent
  <1> USE DEF IInv
  <1>0. Current(s)
    BY DEF TransactionsAreCurrent
  <1>1. ASSUME NEW r \in Requests, NEW kind \in Kinds, NEW u \in Users, NEW p \in Posts,
               Receive(r, kind, u, p)
        PROVE  Current(s)'
    <2>1. CASE s = r
      BY <1>1, <2>1 DEF Receive, TypeOK, Request, Current, InTx, Done, Idle
    <2>2. CASE s # r
      BY <1>0, <1>1, <2>2, Unaffected DEF Receive, TypeOK
    <2> QED
      BY <2>1, <2>2
  <1>2. ASSUME NEW r \in Requests, LockForVote(r) PROVE Current(s)'
    <2>1. CASE s = r
      BY <1>0, <1>2, <2>1 DEF LockForVote, MayVote, TypeOK, Request, Current, InTx, Done, Idle
    <2>2. CASE s # r
      <3>1. req[s].pc \in InTx => req[s].post # req[r].post
        BY <1>2, <2>2, LockIsExclusive DEF LockForVote, LockFree
      <3>2. req'[s] = req[s]
        BY <1>2, <2>2 DEF LockForVote, TypeOK
      <3>3. req[s].pc \in InTx =>
              LET p == req[s].post
              IN  lock'[p] = lock[p] /\ row'[p] = row[p] /\ ballots'[p] = ballots[p]
        BY <1>0, <1>2, <3>1 DEF LockForVote, TypeOK, Current, InTx
      <3> QED
        BY <1>0, <3>2, <3>3, Unaffected
    <2> QED
      BY <2>1, <2>2
  <1>3. ASSUME NEW r \in Requests, WriteBallot(r) PROVE Current(s)'
    <2>1. CASE s = r
      BY <1>0, <1>3, <2>1 DEF WriteBallot, TypeOK, Request, Current, InTx
    <2>2. CASE s # r
      BY <1>0, <1>3, <2>2, Unaffected DEF WriteBallot, TypeOK
    <2> QED
      BY <2>1, <2>2
  <1>4. ASSUME NEW r \in Requests, TallySnapshot(r) PROVE Current(s)'
    <2>1. CASE s = r
      BY <1>0, <1>4, <2>1 DEF TallySnapshot, TypeOK, Request, Current, InTx
    <2>2. CASE s # r
      BY <1>0, <1>4, <2>2, Unaffected DEF TallySnapshot, TypeOK
    <2> QED
      BY <2>1, <2>2
  <1>5. ASSUME NEW r \in Requests, WriteTally(r) PROVE Current(s)'
    <2>1. CASE s = r
      BY <1>0, <1>5, <2>1
         DEF WriteTally, TypeOK, Request, Current, StagedRow, InTx, VoteKinds, VoteChoices
    <2>2. CASE s # r
      <3>1. req[s].pc \in InTx => req[s].post # req[r].post
        BY <1>5, <2>2, LockIsExclusive DEF WriteTally, InTx
      <3> QED
        BY <1>0, <1>5, <2>2, <3>1, Unaffected DEF WriteTally, TypeOK
    <2> QED
      BY <2>1, <2>2
  <1>6. ASSUME NEW r \in Requests, HidePost(r) \/ RestorePost(r) \/ SoftDelete(r)
        PROVE  Current(s)'
    <2>1. CASE s = r
      BY <1>0, <1>6, <2>1
         DEF HidePost, RestorePost, SoftDelete, UpdateRow, TypeOK, Request, Current,
             StagedRow, InTx, Done, Idle, Kinds, VoteKinds, AdminKinds, VoteChoices
    <2>2. CASE s # r
      <3>1. req[s].pc \in InTx => req[s].post # req[r].post
        BY <1>6, <2>2, LockIsExclusive DEF HidePost, RestorePost, SoftDelete, UpdateRow, LockFree
      <3>2. req'[s] = req[s]
        BY <1>6, <2>2 DEF HidePost, RestorePost, SoftDelete, UpdateRow, TypeOK
      <3>3. req[s].pc \in InTx =>
              LET p == req[s].post
              IN  lock'[p] = lock[p] /\ row'[p] = row[p] /\ ballots'[p] = ballots[p]
        BY <1>0, <1>6, <3>1 DEF HidePost, RestorePost, SoftDelete, UpdateRow, TypeOK, Current, InTx
      <3> QED
        BY <1>0, <3>2, <3>3, Unaffected
    <2> QED
      BY <2>1, <2>2
  <1>7. ASSUME NEW r \in Requests, RecordAction(r) PROVE Current(s)'
    <2>1. CASE s = r
      BY <1>0, <1>7, <2>1 DEF RecordAction, TypeOK, Request, Current, StagedRow, InTx,
                              AdminKinds, VoteKinds, VoteChoices
    <2>2. CASE s # r
      BY <1>0, <1>7, <2>2, Unaffected DEF RecordAction, TypeOK
    <2> QED
      BY <2>1, <2>2
  <1>8. ASSUME NEW r \in Requests, Commit(r) PROVE Current(s)'
    <2>1. CASE s = r
      BY <1>8, <2>1 DEF Commit, TypeOK, Current, InTx, Done, Idle
    <2>2. CASE s # r
      <3>1. req[s].pc \in InTx => req[s].post # req[r].post
        BY <1>8, <2>2, LockIsExclusive DEF Commit, InTx
      <3>2. req'[s] = req[s]
        BY <1>8, <2>2 DEF Commit, TypeOK
      <3>3. req[s].pc \in InTx =>
              LET p == req[s].post
              IN  lock'[p] = lock[p] /\ row'[p] = row[p] /\ ballots'[p] = ballots[p]
        BY <1>0, <1>8, <3>1 DEF Commit, TypeOK, Current, InTx
      <3> QED
        BY <1>0, <3>2, <3>3, Unaffected
    <2> QED
      BY <2>1, <2>2
  <1>9. ASSUME NEW r \in Requests, Rollback(r) PROVE Current(s)'
    <2>1. CASE s = r
      BY <1>9, <2>1 DEF Rollback, TypeOK, Current, InTx, Done, Idle
    <2>2. CASE s # r
      <3>1. req[s].pc \in InTx => lock[req[s].post] = s
        BY <1>0 DEF Current
      <3>2. req[s].pc \in InTx => lock'[req[s].post] = lock[req[s].post]
        BY <1>9, <2>2, <3>1 DEF Rollback, TypeOK
      <3> QED
        BY <1>0, <1>9, <2>2, <3>2, Unaffected DEF Rollback, TypeOK
    <2> QED
      BY <2>1, <2>2
  <1>10. CASE UNCHANGED vars
    BY <1>0, <1>10, Unaffected DEF vars
  <1> QED
    BY <1>1, <1>2, <1>3, <1>4, <1>5, <1>6, <1>7, <1>8, <1>9, <1>10 DEF Next, Step

(* The tally a commit installs is the aggregate of the ballots it installs. *)
LEMMA NextTally == IInv /\ [Next]_vars => TallyMatchesBallots'
  <1> SUFFICES ASSUME IInv, [Next]_vars PROVE TallyMatchesBallots'
    OBVIOUS
  <1>1. ASSUME NEW r \in Requests, Commit(r) PROVE TallyMatchesBallots'
    <2> DEFINE p == req[r].post
               u == req[r].user
               box == [ballots[p] EXCEPT ![u] = req[r].ballot]
    <2>1. /\ p \in Posts /\ u \in Users
          /\ req[r].row = StagedRow(r)
          /\ row[p] \in Row /\ ballots[p] \in BallotBox
          /\ req[r].ballot \in Ballot \cup {NoBallot}
      BY <1>1 DEF Commit, IInv, TypeOK, Request, TransactionsAreCurrent, Current, InTx
    <2>2. /\ req[r].kind \in VoteKinds => StagedRow(r) = Judged(row[p], box)
          /\ req[r].kind \notin VoteKinds => StagedRow(r).tally = row[p].tally
      BY <1>1, StagedRowFacts DEF Commit, InTx
    <2>3. Judged(row[p], box).tally = Aggregate(box)
      BY <2>1, BoxChange, RowChanges
    <2>4. row'[p].tally = Aggregate(ballots'[p])
      BY <1>1, <2>1, <2>2, <2>3 DEF Commit, IInv, TypeOK, BallotBox, TallyMatchesBallots
    <2>5. ASSUME NEW q \in Posts, q # p PROVE row'[q] = row[q] /\ ballots'[q] = ballots[q]
      BY <1>1, <2>5 DEF Commit, IInv, TypeOK
    <2> QED
      BY <2>4, <2>5 DEF IInv, TallyMatchesBallots
  <1>2. CASE UNCHANGED <<row, ballots>>
    BY <1>2 DEF IInv, TallyMatchesBallots
  <1>3. ASSUME NEW r \in Requests, Step(r), ~Commit(r) PROVE UNCHANGED <<row, ballots>>
    BY <1>3 DEF Step, LockForVote, WriteBallot, TallySnapshot, WriteTally, HidePost,
                RestorePost, SoftDelete, UpdateRow, RecordAction
  <1> QED
    BY <1>1, <1>2, <1>3 DEF Next, Receive, Rollback, vars

(* The inductive invariant holds of every behaviour.                       *)
THEOREM Invariance == Spec => []IInv
  <1>1. IInv /\ [Next]_vars => IInv'
    BY NextTypeOK, NextCurrent, NextTally DEF IInv
  <1> QED
    BY InitIInv, <1>1, PTL DEF Spec

(* Type correctness: the rows, ballots, locks and requests keep their      *)
(* types whatever transactions interleave.                                 *)
THEOREM Typing == Spec => []TypeOK
  BY Invariance, PTL DEF IInv

(* Whoever holds a row lock is about to commit a change of the newest row, *)
(* under premises that still hold.                                         *)
THEOREM LocksKeepTransactionsCurrent == Spec => []TransactionsAreCurrent
  BY Invariance, PTL DEF IInv

(* The aggregate columns of a post always equal the sums over its ballots. *)
THEOREM TallyIsExact == Spec => []TallyMatchesBallots
  BY Invariance, PTL DEF IInv

(* A commit is one step of the board, everything else a stutter of it.     *)
LEMMA CommitIsBoardStep ==
    ASSUME IInv, NEW r \in Requests, Commit(r) PROVE BoardNext
  <1> DEFINE p == req[r].post
             u == req[r].user
             box == [ballots[p] EXCEPT ![u] = req[r].ballot]
  <1>1. /\ p \in Posts /\ u \in Users /\ req[r].kind \in Kinds
        /\ ~row[p].deleted
        /\ req[r].row = StagedRow(r)
        /\ req[r].ballot \in Ballot \cup {NoBallot}
        /\ ballots[p] \in BallotBox
    BY DEF Commit, IInv, TypeOK, Request, TransactionsAreCurrent, Current, InTx
  <1>2. CASE req[r].kind \in VoteKinds
    <2>1. /\ u # Author[p]
          /\ req[r].kind # "REMOVE" => row[p].status = "VISIBLE"
          /\ req[r].kind = "REMOVE" => req[r].ballot = NoBallot
      BY <1>2 DEF Commit, IInv, TransactionsAreCurrent, Current, InTx
    <2>2. ballots' = [ballots EXCEPT ![p][u] = req[r].ballot]
      BY <1>2 DEF Commit
    <2>3. ballots'[p] = box
      BY <1>1, <2>2 DEF IInv, TypeOK
    <2>4. StagedRow(r) = Judged(row[p], box)
      BY <1>2, StagedRowFacts DEF Commit, InTx
    <2>5. row' = [row EXCEPT ![p] = Judged(row[p], ballots'[p])]
      BY <1>1, <2>3, <2>4 DEF Commit
    <2>6. PutBallot(u, p, req[r].ballot)
      BY <1>1, <2>1, <2>2, <2>5 DEF PutBallot
    <2>7. CASE req[r].ballot = NoBallot
      BY <1>1, <2>6, <2>7 DEF BoardNext, WithdrawVote
    <2>8. CASE req[r].ballot # NoBallot
      <3>1. row[p].status = "VISIBLE" /\ req[r].ballot \in Ballot
        BY <1>1, <2>1, <2>8
      <3> QED
        BY <1>1, <2>6, <3>1 DEF BoardNext, CastVote
    <2> QED
      BY <2>7, <2>8
  <1>3. CASE req[r].kind \in AdminKinds
    <2>1. StagedRow(r) \in {Hidden(row[p]), Restored(row[p])}
      BY <1>3 DEF StagedRow, AdminKinds
    <2>2. row' = [row EXCEPT ![p] = StagedRow(r)] /\ UNCHANGED ballots
      BY <1>1, <1>3 DEF Commit, AdminKinds, VoteKinds, VoteChoices
    <2> QED
      BY <1>1, <2>1, <2>2 DEF BoardNext, Moderate
  <1>4. CASE req[r].kind = "DELETE"
    <2>1. row' = [row EXCEPT ![p] = Deleted(row[p])] /\ UNCHANGED ballots
      BY <1>1, <1>4 DEF Commit, StagedRow, VoteKinds, VoteChoices
    <2> QED
      BY <1>1, <2>1 DEF BoardNext, DeletePost
  <1> QED
    BY <1>1, <1>2, <1>3, <1>4 DEF Kinds

(* The transactions of voting, moderation and deletion implement their     *)
(* one-step specification: an interleaving of handlers changes the tables  *)
(* only as some serial order of whole requests would.                      *)
THEOREM Refinement == Spec => ImplementsVoteBoard
  <1>1. Init => BoardInit
    BY DEF Init
  <1>2. IInv /\ [Next]_vars => [BoardNext]_boardVars
    <2> SUFFICES ASSUME IInv, [Next]_vars, ~ UNCHANGED boardVars PROVE BoardNext
      OBVIOUS
    <2>1. PICK r \in Requests : Commit(r)
      BY DEF Next, Step, Receive, LockForVote, WriteBallot, TallySnapshot, WriteTally,
             HidePost, RestorePost, SoftDelete, UpdateRow, RecordAction, Rollback,
             vars, boardVars
    <2> QED
      BY <2>1, CommitIsBoardStep
  <1> QED
    BY Invariance, <1>1, <1>2, PTL DEF Spec, ImplementsVoteBoard, BoardSpec

(* A commit writes the newest row of one post, changed as its request asks *)
(* under premises that hold; no other step touches a committed table.      *)
LEMMA CommitFacts ==
    ASSUME IInv, NEW r \in Requests, Commit(r)
    PROVE  LET p == req[r].post
               box == [ballots[p] EXCEPT ![req[r].user] = req[r].ballot]
           IN  /\ p \in Posts /\ req[r].kind \in Kinds
               /\ row[p] \in Row /\ ~row[p].deleted
               /\ row'[p] = StagedRow(r)
               /\ req[r].kind \in VoteKinds =>
                      ballots'[p] = box /\ StagedRow(r) = Judged(row[p], box)
               /\ req[r].kind \notin VoteKinds => ballots'[p] = ballots[p]
               /\ req[r].kind \in AdminKinds => lastAction'[p] = req[r].kind
               /\ req[r].kind \notin AdminKinds => lastAction'[p] = lastAction[p]
               /\ \A q \in Posts \ {p} :
                      /\ row'[q] = row[q]
                      /\ ballots'[q] = ballots[q]
                      /\ lastAction'[q] = lastAction[q]
  <1> DEFINE p == req[r].post
  <1>1. TypeOK
    BY DEF IInv
  <1>2. p \in Posts /\ req[r].kind \in Kinds /\ ~row[p].deleted /\ req[r].row = StagedRow(r)
    BY DEF Commit, IInv, TransactionsAreCurrent, Current, InTx
  <1>3. row[p] \in Row
    BY <1>1, <1>2 DEF TypeOK
  <1>4. row'[p] = StagedRow(r) /\ \A q \in Posts \ {p} : row'[q] = row[q]
    BY <1>1, <1>2 DEF Commit, TypeOK
  <1>5. CASE req[r].kind \in VoteKinds
    <2>1. ballots' = [ballots EXCEPT ![p][req[r].user] = req[r].ballot]
      BY <1>5 DEF Commit
    <2>2. /\ ballots'[p] = [ballots[p] EXCEPT ![req[r].user] = req[r].ballot]
          /\ \A q \in Posts \ {p} : ballots'[q] = ballots[q]
      BY <1>1, <1>2, <2>1 DEF TypeOK
    <2>3. req[r].pc \in InTx \ {"ballot", "snapshot"}
      BY DEF Commit, InTx
    <2>4. StagedRow(r) = Judged(row[p], [ballots[p] EXCEPT ![req[r].user] = req[r].ballot])
      BY <1>5, <2>3, StagedRowFacts
    <2>5. lastAction' = lastAction /\ req[r].kind \notin AdminKinds
      BY <1>5 DEF Commit, VoteKinds, VoteChoices, AdminKinds
    <2> QED
      BY <1>2, <1>3, <1>4, <1>5, <2>2, <2>4, <2>5
  <1>6. CASE req[r].kind \notin VoteKinds
    <2>1. ballots' = ballots
      BY <1>6 DEF Commit
    <2>2. /\ req[r].kind \in AdminKinds => lastAction'[p] = req[r].kind
          /\ req[r].kind \notin AdminKinds => lastAction'[p] = lastAction[p]
          /\ \A q \in Posts \ {p} : lastAction'[q] = lastAction[q]
      BY <1>1, <1>2 DEF Commit, TypeOK
    <2> QED
      BY <1>2, <1>3, <1>4, <1>6, <2>1, <2>2
  <1> QED
    BY <1>5, <1>6

LEMMA OnlyCommitsWrite ==
    ASSUME [Next]_vars
    PROVE  (\E r \in Requests : Commit(r)) \/ UNCHANGED <<row, ballots, lastAction>>
  <1>1. ASSUME NEW r \in Requests, Step(r), ~Commit(r)
        PROVE  UNCHANGED <<row, ballots, lastAction>>
    BY <1>1 DEF Step, LockForVote, WriteBallot, TallySnapshot, WriteTally, HidePost,
                RestorePost, SoftDelete, UpdateRow, RecordAction
  <1> QED
    BY <1>1 DEF Next, Receive, Rollback, vars

(* Three writers set status, hidden_at and the audit trail: moderation in  *)
(* one transaction with the trail, votes, and deletion.  Whichever commits *)
(* last, the three records still tell one story.                           *)
THEOREM AuditIsConsistent == Spec => []AuditExplainsStatus
  <1>1. Init => AuditExplainsStatus
    BY NoActionAssumption DEF Init, BoardInit, AuditExplainsStatus, AdminKinds
  <1>2. IInv /\ AuditExplainsStatus /\ [Next]_vars => AuditExplainsStatus'
    <2> SUFFICES ASSUME IInv, AuditExplainsStatus, [Next]_vars PROVE AuditExplainsStatus'
      OBVIOUS
    <2>1. ASSUME NEW r \in Requests, Commit(r) PROVE AuditExplainsStatus'
      <3> DEFINE p == req[r].post
                 box == [ballots[p] EXCEPT ![req[r].user] = req[r].ballot]
      <3>1. /\ p \in Posts /\ req[r].kind \in Kinds
            /\ row[p] \in Row /\ ~row[p].deleted
        BY <2>1, CommitFacts
      <3>2. /\ row'[p] = StagedRow(r)
            /\ \A q \in Posts \ {p} : row'[q] = row[q] /\ lastAction'[q] = lastAction[q]
        BY <2>1, CommitFacts
      <3>3. CASE req[r].kind \in VoteKinds
        <4>1. StagedRow(r) = Judged(row[p], box) /\ lastAction'[p] = lastAction[p]
          <5>1. req[r].kind \notin AdminKinds
            BY <3>3 DEF VoteKinds, VoteChoices, AdminKinds
          <5> QED
            BY <2>1, <3>3, <5>1, CommitFacts
        <4>2. CASE ShouldHide(Aggregate(box))
          <5>1. /\ row'[p].status = "HIDDEN_BY_COMMUNITY" /\ row'[p].hiddenAt
                /\ row'[p].deleted = row[p].deleted
            <6> HIDE DEF box
            <6> QED
              BY <3>1, <3>2, <4>1, <4>2 DEF Judged, Row
          <5> QED
            BY <3>2, <4>1, <5>1 DEF AuditExplainsStatus
        <4>3. CASE ~ShouldHide(Aggregate(box))
          <5>1. /\ row'[p].status = row[p].status
                /\ row'[p].hiddenAt <=> row[p].hiddenAt
                /\ row'[p].deleted <=> row[p].deleted
            <6> HIDE DEF box
            <6> QED
              BY <3>1, <3>2, <4>1, <4>3 DEF Judged, Row
          <5> QED
            BY <3>2, <4>1, <5>1 DEF AuditExplainsStatus
        <4> QED
          BY <4>2, <4>3
      <3>4. CASE req[r].kind \in AdminKinds
        <4>1. lastAction'[p] = req[r].kind
          BY <2>1, <3>4, CommitFacts
        <4>2. CASE req[r].kind = "HIDE_POST"
          <5>1. row'[p].status = "HIDDEN_BY_ADMIN" /\ row'[p].hiddenAt
            BY <3>1, <3>2, <4>2 DEF StagedRow, Hidden, Row
          <5> QED
            BY <3>2, <4>1, <4>2, <5>1 DEF AuditExplainsStatus
        <4>3. CASE req[r].kind = "RESTORE_POST"
          <5>1. row'[p].status = "VISIBLE" /\ ~row'[p].hiddenAt
            BY <3>1, <3>2, <4>3 DEF StagedRow, Restored, Row
          <5> QED
            BY <3>2, <4>1, <4>3, <5>1 DEF AuditExplainsStatus
        <4> QED
          BY <3>4, <4>2, <4>3 DEF AdminKinds
      <3>5. CASE req[r].kind = "DELETE"
        <4>1. lastAction'[p] = lastAction[p]
          BY <2>1, <3>5, CommitFacts DEF AdminKinds
        <4>2. row'[p].status = "DELETED_BY_AUTHOR" /\ row'[p].deleted
          BY <3>1, <3>2, <3>5 DEF StagedRow, Deleted, Row
        <4> QED
          BY <3>2, <4>1, <4>2 DEF AuditExplainsStatus
      <3> QED
        BY <3>1, <3>3, <3>4, <3>5 DEF Kinds
    <2>2. CASE UNCHANGED <<row, ballots, lastAction>>
      BY <2>2 DEF AuditExplainsStatus
    <2> QED
      BY <2>1, <2>2, OnlyCommitsWrite
  <1> QED
    BY <1>1, <1>2, Invariance, PTL DEF Spec

(* The 200-ballot, 70 percent rule decides both ways, and by the ballots   *)
(* that the hiding commit itself installs, not by an older sum.            *)
THEOREM RuleDecides == Spec => CommunityHidesByRule
  <1> DEFINE Ruled ==
               \A p \in Posts :
                  LET met == ShouldHide(Aggregate(ballots'[p]))
                      hidden == row'[p].status = "HIDDEN_BY_COMMUNITY"
                  IN  /\ ballots'[p] # ballots[p] /\ met => hidden
                      /\ hidden /\ row[p].status # "HIDDEN_BY_COMMUNITY" => met
  <1>1. IInv /\ [Next]_vars => [Ruled]_vars
    <2> SUFFICES ASSUME IInv, [Next]_vars, NEW q \in Posts
                 PROVE  LET met == ShouldHide(Aggregate(ballots'[q]))
                            hidden == row'[q].status = "HIDDEN_BY_COMMUNITY"
                        IN  /\ ballots'[q] # ballots[q] /\ met => hidden
                            /\ hidden /\ row[q].status # "HIDDEN_BY_COMMUNITY" => met
      OBVIOUS
    <2>1. ASSUME NEW r \in Requests, Commit(r), q = req[r].post, req[r].kind \in VoteKinds
          PROVE  row[q] \in Row /\ row'[q] = Judged(row[q], ballots'[q])
      BY <2>1, CommitFacts
    <2>2. ASSUME NEW r \in Requests, Commit(r), q = req[r].post, req[r].kind \notin VoteKinds
          PROVE  ballots'[q] = ballots[q] /\ row'[q].status # "HIDDEN_BY_COMMUNITY"
      <3>1. /\ row[q] \in Row /\ row'[q] = StagedRow(r)
            /\ ballots'[q] = ballots[q] /\ req[r].kind \in Kinds
        BY <2>2, CommitFacts
      <3> QED
        BY <2>2, <3>1 DEF StagedRow, Kinds, AdminKinds, Hidden, Restored, Deleted, Row
    <2>3. ASSUME NEW r \in Requests, Commit(r), q # req[r].post
          PROVE  ballots'[q] = ballots[q] /\ row'[q] = row[q]
      BY <2>3, CommitFacts
    <2>4. CASE \E r \in Requests : Commit(r)
      <3>1. PICK r \in Requests : Commit(r)
        BY <2>4
      <3>2. CASE q = req[r].post /\ req[r].kind \in VoteKinds
        BY <2>1, <3>1, <3>2 DEF Judged, Row
      <3> QED
        BY <2>2, <2>3, <3>1, <3>2
    <2>5. CASE UNCHANGED <<row, ballots, lastAction>>
      BY <2>5
    <2> QED
      BY <2>4, <2>5, OnlyCommitsWrite
  <1> QED
    BY <1>1, Invariance, PTL DEF Spec, CommunityHidesByRule

=============================================================================
