-------------------------------- MODULE Follows --------------------------------
(***************************************************************************)
(* Following, unfollowing, blocking and unblocking.  A follow or unfollow  *)
(* is one READ COMMITTED transaction that changes a row of follows and     *)
(* then two rows of users, so that two of them can wait for each other; a  *)
(* block is two statements without a transaction.  graph, following,       *)
(* followers, blocks and notices are the committed tables; uncommitted     *)
(* writes stay in the request record.                                      *)
(***************************************************************************)
EXTENDS Integers, FiniteSets

CONSTANTS
    Users,
    Requests,       \* each request is served once
    None

ASSUME NoneAssumption == None \notin Requests

VARIABLES
    graph,          \* the pairs <<follower, following>> of table follows
    following,      \* following[u]: users.following_count
    followers,      \* followers[u]: users.follower_count
    blocks,         \* the pairs <<blocker, blocked>> of table blocks
    notices,        \* notices[e]: FOLLOW notifications written for the pair e
    severed,        \* history: <<r, e>> if the block r has deleted row e of follows
    keyLock,        \* keyLock[e]: who has inserted or deleted row e
    rowLock,        \* rowLock[u]: who has updated u's row in users
    req

tables == <<graph, following, followers, blocks, notices, severed>>
vars == <<tables, keyLock, rowLock, req>>

Pairs == {e \in Users \X Users : e[1] # e[2]}

Kinds == {"FOLLOW", "UNFOLLOW", "BLOCK", "UNBLOCK"}

PCs == {"idle", "write", "own", "other", "commit", "sever", "done"}

(* Statements of a transaction, begun with the first one.                  *)
InTx == {"write", "own", "other", "commit"}

Request == [pc : PCs, kind : Kinds \cup {None}, pair : Pairs \cup {None}, wrote : BOOLEAN]

Idle == [pc |-> "idle", kind |-> None, pair |-> None, wrote |-> FALSE]

Done == [Idle EXCEPT !.pc = "done"]

Init ==
    /\ graph = {} /\ blocks = {} /\ severed = {}
    /\ following = [u \in Users |-> 0]
    /\ followers = [u \in Users |-> 0]
    /\ notices = [e \in Pairs |-> 0]
    /\ keyLock = [e \in Pairs |-> None]
    /\ rowLock = [u \in Users |-> None]
    /\ req = [r \in Requests |-> Idle]

-----------------------------------------------------------------------------
(* Follow and unfollow.                                                    *)

(* Relating to oneself goes unnoticed.                                     *)
Sensible_Always(u, v) == TRUE

Sensible(u, v) == u # v

Receive(r, kind, u, v) ==
    /\ req[r].pc = "idle"
    /\ req' = [req EXCEPT ![r] =
                 IF Sensible(u, v)
                 THEN [Idle EXCEPT !.pc = "write", !.kind = kind, !.pair = <<u, v>>]
                 ELSE Done]
    /\ UNCHANGED <<tables, keyLock, rowLock>>

Reverse(e) == <<e[2], e[1]>>

(* The INSERT without its RowsAffected check.                              *)
InsertFollow_AlwaysCounts(r) ==
    LET e == req[r].pair
    IN  /\ req[r].pc = "write" /\ req[r].kind = "FOLLOW"
        /\ keyLock[e] = None
        /\ req' = [req EXCEPT ![r].pc = "own", ![r].wrote = TRUE]
        /\ keyLock' = [keyLock EXCEPT ![e] = r]
        /\ UNCHANGED <<tables, rowLock>>

(* INSERT ... ON CONFLICT DO NOTHING: waits for a concurrent writer of the *)
(* key, and is over if the row is there.                                   *)
InsertFollow(r) ==
    LET e == req[r].pair
    IN  /\ req[r].pc = "write" /\ req[r].kind = "FOLLOW"
        /\ keyLock[e] = None
        /\ IF e \in graph
           THEN /\ req' = [req EXCEPT ![r].pc = "commit"]
                /\ UNCHANGED keyLock
           ELSE /\ req' = [req EXCEPT ![r].pc = "own", ![r].wrote = TRUE]
                /\ keyLock' = [keyLock EXCEPT ![e] = r]
        /\ UNCHANGED <<tables, rowLock>>

(* DELETE finds committed rows, and waits for a concurrent deleter.        *)
DeleteFollow(r) ==
    LET e == req[r].pair
    IN  /\ req[r].pc = "write" /\ req[r].kind = "UNFOLLOW"
        /\ IF e \in graph
           THEN /\ keyLock[e] = None
                /\ req' = [req EXCEPT ![r].pc = "own", ![r].wrote = TRUE]
                /\ keyLock' = [keyLock EXCEPT ![e] = r]
           ELSE /\ req' = [req EXCEPT ![r].pc = "commit"]
                /\ UNCHANGED keyLock
        /\ UNCHANGED <<tables, rowLock>>

(* UPDATE users: first the follower's row, then the row of the followed.   *)
UpdateUser(r, pc, u, next) ==
    /\ req[r].pc = pc
    /\ rowLock[u] = None
    /\ rowLock' = [rowLock EXCEPT ![u] = r]
    /\ req' = [req EXCEPT ![r].pc = next]
    /\ UNCHANGED <<tables, keyLock>>

UpdateOwn(r) == req[r].pc = "own" /\ UpdateUser(r, "own", req[r].pair[1], "other")

UpdateOther(r) == req[r].pc = "other" /\ UpdateUser(r, "other", req[r].pair[2], "commit")

Decrement(n) == IF n > 0 THEN n - 1 ELSE 0

(* Keeping the locks of the users' rows.                                   *)
ReleaseLocks_KeysOnly(r) ==
    /\ keyLock' = [e \in Pairs |-> IF keyLock[e] = r THEN None ELSE keyLock[e]]
    /\ UNCHANGED rowLock

ReleaseLocks(r) ==
    /\ keyLock' = [e \in Pairs |-> IF keyLock[e] = r THEN None ELSE keyLock[e]]
    /\ rowLock' = [u \in Users |-> IF rowLock[u] = r THEN None ELSE rowLock[u]]

(* The row, both counters and the notification become visible together.    *)
(* The UPDATEs were made under the row locks, of the newest values.        *)
Commit(r) ==
    LET e == req[r].pair
        count(n) == IF req[r].kind = "FOLLOW" THEN n + 1 ELSE Decrement(n)
    IN  /\ req[r].pc = "commit"
        /\ IF ~req[r].wrote
           THEN UNCHANGED <<graph, following, followers, notices>>
           ELSE /\ graph' = IF req[r].kind = "FOLLOW" THEN graph \cup {e} ELSE graph \ {e}
                /\ following' = [following EXCEPT ![e[1]] = count(@)]
                /\ followers' = [followers EXCEPT ![e[2]] = count(@)]
                /\ notices' = IF req[r].kind = "FOLLOW" THEN [notices EXCEPT ![e] = @ + 1]
                              ELSE notices
        /\ ReleaseLocks(r)
        /\ req' = [req EXCEPT ![r] = Done]
        /\ UNCHANGED <<blocks, severed>>

Rollback(r) ==
    /\ req[r].pc \in InTx
    /\ ReleaseLocks(r)
    /\ req' = [req EXCEPT ![r] = Done]
    /\ UNCHANGED tables

-----------------------------------------------------------------------------
(* Deadlock.  Blocker(r) is the transaction that r's next statement waits  *)
(* for, None if it can run.                                                *)

Blocker(r) ==
    LET e == req[r].pair
    IN  CASE req[r].pc = "own" -> rowLock[e[1]]
          [] req[r].pc = "other" -> rowLock[e[2]]
          [] req[r].pc = "write" /\ req[r].kind \in {"FOLLOW", "UNFOLLOW"} -> keyLock[e]
          [] OTHER -> None

WaitingInCircle(r) ==
    \E circle \in SUBSET Requests :
        r \in circle /\ \A s \in circle : Blocker(s) \in circle

(* PostgreSQL's detector cancels one transaction of a circle: the handler  *)
(* sees an error, rolls back and answers 500.                              *)
CancelledByDetector(r) == WaitingInCircle(r) /\ Rollback(r)

-----------------------------------------------------------------------------
(* Block and unblock: autocommitted statements on the pool.                *)

InsertBlock(r) ==
    /\ req[r].pc = "write" /\ req[r].kind = "BLOCK"
    /\ blocks' = blocks \cup {req[r].pair}
    /\ req' = [req EXCEPT ![r].pc = "sever"]
    /\ UNCHANGED <<graph, following, followers, notices, severed, keyLock, rowLock>>

(* DELETE FROM follows in both directions; no counter follows.  Rows that  *)
(* an unfollow is deleting are waited for, uncommitted ones not seen.      *)
Sever(r) ==
    LET gone == graph \cap {req[r].pair, Reverse(req[r].pair)}
    IN  /\ req[r].pc = "sever"
        /\ \A e \in gone : keyLock[e] = None
        /\ graph' = graph \ gone
        /\ severed' = severed \cup ({r} \X gone)
        /\ req' = [req EXCEPT ![r] = Done]
        /\ UNCHANGED <<following, followers, blocks, notices, keyLock, rowLock>>

(* The DELETE fails or the request is cancelled before it: the error is    *)
(* dropped, and the block stays without it.                                *)
SeverFails(r) ==
    /\ req[r].pc = "sever"
    /\ req' = [req EXCEPT ![r] = Done]
    /\ UNCHANGED <<tables, keyLock, rowLock>>

DeleteBlock(r) ==
    /\ req[r].pc = "write" /\ req[r].kind = "UNBLOCK"
    /\ blocks' = blocks \ {req[r].pair}
    /\ req' = [req EXCEPT ![r] = Done]
    /\ UNCHANGED <<graph, following, followers, notices, severed, keyLock, rowLock>>

-----------------------------------------------------------------------------
Step(r) ==
    \/ InsertFollow(r) \/ DeleteFollow(r) \/ UpdateOwn(r) \/ UpdateOther(r) \/ Commit(r)
    \/ CancelledByDetector(r)
    \/ InsertBlock(r) \/ Sever(r) \/ DeleteBlock(r)

Next ==
    \/ \E r \in Requests, kind \in Kinds, u, v \in Users : Receive(r, kind, u, v)
    \/ \E r \in Requests : Step(r) \/ Rollback(r) \/ SeverFails(r)

Spec == Init /\ [][Next]_vars

(* Handlers run to their answer; PostgreSQL grants free locks and its      *)
(* detector runs (deadlock_timeout).                                       *)
FairSpec == Spec /\ \A r \in Requests : WF_vars(Step(r))

-----------------------------------------------------------------------------
(* Properties.                                                             *)

(* Nobody follows or blocks themself, no counter goes below zero, and a    *)
(* lock's holder has not ended its transaction.                            *)
TypeOK ==
    /\ graph \subseteq Pairs
    /\ blocks \subseteq Pairs
    /\ following \in [Users -> Nat]
    /\ followers \in [Users -> Nat]
    /\ notices \in [Pairs -> Nat]
    /\ severed \subseteq Requests \X Pairs
    /\ keyLock \in [Pairs -> Requests \cup {None}]
    /\ rowLock \in [Users -> Requests \cup {None}]
    /\ req \in [Requests -> Request]
    /\ \A e \in Pairs : keyLock[e] # None => req[keyLock[e]].pc \in InTx
    /\ \A u \in Users : rowLock[u] # None => req[rowLock[u]].pc \in InTx

(* The follow counters are wrong by exactly the rows that blocks have cut  *)
(* out of the graph: neither concurrent follows and unfollows of the same  *)
(* pair, nor mutual ones, nor rollbacks, nor a deadlock's victim adds to   *)
(* the error, and no counter is ever too low.                              *)
OnlyBlocksBreakCounters ==
    \A u \in Users :
        /\ following[u] = Cardinality({e \in graph : e[1] = u})
                           + Cardinality({cut \in severed : cut[2][1] = u})
        /\ followers[u] = Cardinality({e \in graph : e[2] = u})
                           + Cardinality({cut \in severed : cut[2][2] = u})

(* A FOLLOW notification is written exactly with a new row of follows, so  *)
(* following who is followed already tells nobody anything.                *)
NoticeOnlyForNewFollow ==
    [][\A e \in Pairs :
         /\ e \notin graph /\ e \in graph' => notices'[e] = notices[e] + 1
         /\ e \in graph \/ e \notin graph' => notices'[e] = notices[e]]_vars

(* Every request is answered although two users who follow each other at   *)
(* the same time wait for each other's row: the deadlock's victim is told. *)
EveryFollowAnswered ==
    \A r \in Requests : req[r].pc \notin {"idle", "done"} ~> req[r].pc = "done"

(* The technical document's definition of done: counters always equal the  *)
(* real COUNT of the rows they stand for, here follower_count.             *)
FollowerCountExact ==
    \A u \in Users : followers[u] = Cardinality({e \in graph : e[2] = u})

=============================================================================
