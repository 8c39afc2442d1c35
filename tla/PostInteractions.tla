--------------------------- MODULE PostInteractions ---------------------------
(***************************************************************************)
(* Likes, saves and comments on a post, each request in a READ COMMITTED   *)
(* transaction of several statements.  The committed tables are members,   *)
(* comments, counter and notices; what a transaction has written stays in  *)
(* its request record until it commits.  Two kinds of locks are held to    *)
(* the end of a transaction: rowLock on the post's row, taken by UPDATE    *)
(* posts, and keyLock on a row of post_likes or saved_posts, held by who   *)
(* has inserted or deleted it.                                             *)
(***************************************************************************)
EXTENDS Integers, FiniteSets

CONSTANTS
    Users,
    Posts,
    Author,         \* Author[p] wrote post p and is notified
    Requests,       \* each request is served once, and names its comment
    None

ASSUME AuthorAssumption == Author \in [Posts -> Users]

ASSUME NoneAssumption == None \notin Requests \cup Nat

VARIABLES
    state,          \* state[p]: "VISIBLE", "HIDDEN" or "DELETED"
    members,        \* members[t][p]: users with a row in table t for p
    comments,       \* the committed comments
    counter,        \* counter[c][p]: like_count, save_count, comment_count
    notices,        \* notices[k][p][u]: notifications of kind k by actor u
    rowLock, keyLock,
    req

tables == <<state, members, comments, counter, notices>>
vars == <<tables, rowLock, keyLock, req>>

Tables == {"post_likes", "saved_posts"}
Counters == Tables \cup {"comments"}
Toggles == {"add", "remove"} \X Tables
CommentKind == <<"add", "comments">>
Kinds == Toggles \cup {CommentKind}

Comment == [id : Requests, post : Posts, user : Users, parent : Requests \cup {None}]

PCs == {"idle", "write", "count", "bump", "commit", "done"}

InTx == {"write", "count", "bump", "commit"}

(* wrote: the statement on the child table changed a row.  seen: COUNT of  *)
(* the child table in the snapshot of the counter's UPDATE.  value: the    *)
(* counter this transaction has written, or None.  alone is a history      *)
(* variable: no other transaction on the post has overlapped this one.     *)
Request == [pc : PCs, kind : Kinds \cup {None}, user : Users \cup {None},
            post : Posts \cup {None}, parent : Requests \cup {None},
            wrote : BOOLEAN, seen : Nat, value : Nat \cup {None}, alone : BOOLEAN]

Idle == [pc |-> "idle", kind |-> None, user |-> None, post |-> None, parent |-> None,
         wrote |-> FALSE, seen |-> 0, value |-> None, alone |-> FALSE]

Done == [Idle EXCEPT !.pc = "done"]

Init ==
    /\ state = [p \in Posts |-> "VISIBLE"]
    /\ members = [t \in Tables |-> [p \in Posts |-> {}]]
    /\ comments = {}
    /\ counter = [c \in Counters |-> [p \in Posts |-> 0]]
    /\ notices = [k \in {"LIKE", "COMMENT"} |-> [p \in Posts |-> [u \in Users |-> 0]]]
    /\ rowLock = [p \in Posts |-> None]
    /\ keyLock = [t \in Tables |-> [p \in Posts |-> [u \in Users |-> None]]]
    /\ req = [r \in Requests |-> Idle]

-----------------------------------------------------------------------------
Verb(r) == req[r].kind[1]
Table(r) == req[r].kind[2]

(* A comment needs a VISIBLE post and, for a reply, a parent on that post; *)
(* a toggle needs a post that is not deleted.                              *)
MayInteract(kind, p, parent) ==
    IF kind = CommentKind
    THEN /\ state[p] = "VISIBLE"
         /\ parent # None => \E c \in comments : c.id = parent /\ c.post = p
    ELSE state[p] # "DELETED"

Overlapping(r, p) == {s \in Requests \ {r} : req[s].pc \in InTx /\ req[s].post = p}

(* The request arrives: BEGIN and the SELECTs that may refuse it.          *)
Begin(r, kind, u, p, parent) ==
    LET others == Overlapping(r, p)
        begun == [Idle EXCEPT !.pc = "write", !.kind = kind, !.user = u, !.post = p,
                              !.parent = parent, !.alone = others = {}]
    IN  /\ req[r].pc = "idle"
        /\ parent # None => kind = CommentKind
        /\ req' = IF MayInteract(kind, p, parent)
                  THEN [s \in Requests |->
                          IF s = r THEN begun
                          ELSE [req[s] EXCEPT !.alone = @ /\ s \notin others]]
                  ELSE [req EXCEPT ![r] = Done]
        /\ UNCHANGED <<tables, rowLock, keyLock>>

IsMember(r) == req[r].user \in members[Table(r)][req[r].post]

(* Who else has inserted or deleted this row and not finished yet.         *)
KeyFree(r) == keyLock[Table(r)][req[r].post][req[r].user] = None

TakeKey(r) == keyLock' = [keyLock EXCEPT ![Table(r)][req[r].post][req[r].user] = r]

(* INSERT ... ON CONFLICT DO NOTHING waits for a concurrent writer of its  *)
(* key, then inserts or does nothing.                                      *)
InsertMember(r) ==
    /\ req[r].pc = "write" /\ req[r].kind \in Toggles /\ Verb(r) = "add"
    /\ KeyFree(r)
    /\ req' = [req EXCEPT ![r].pc = "count", ![r].wrote = ~IsMember(r)]
    /\ IF IsMember(r) THEN UNCHANGED keyLock ELSE TakeKey(r)
    /\ UNCHANGED <<tables, rowLock>>

(* DELETE sees only committed rows, and waits for a concurrent deleter.    *)
DeleteMember(r) ==
    /\ req[r].pc = "write" /\ req[r].kind \in Toggles /\ Verb(r) = "remove"
    /\ IF IsMember(r)
       THEN /\ KeyFree(r)
            /\ TakeKey(r)
            /\ req' = [req EXCEPT ![r].pc = "bump", ![r].wrote = TRUE]
       ELSE /\ req' = [req EXCEPT ![r].pc = "commit"]
            /\ UNCHANGED keyLock
    /\ UNCHANGED <<tables, rowLock>>

InsertComment(r) ==
    /\ req[r].pc = "write" /\ req[r].kind = CommentKind
    /\ req' = [req EXCEPT ![r].pc = "bump", ![r].wrote = TRUE]
    /\ UNCHANGED <<tables, rowLock, keyLock>>

(* The UPDATE without its condition on the count.                          *)
CountMembers_NoCondition(r) ==
    /\ req[r].pc = "count"
    /\ req' = [req EXCEPT ![r].pc = "bump", ![r].seen = counter[Table(r)][req[r].post] + 1]
    /\ UNCHANGED <<tables, rowLock, keyLock>>

(* UPDATE posts SET c=c+1 WHERE id=$1 AND c < (SELECT COUNT ...): the      *)
(* count is taken in the statement's snapshot, with the row inserted by    *)
(* the transaction itself; the row is skipped if its snapshot already has  *)
(* as many.                                                                *)
CountMembers(r) ==
    LET t == Table(r)
        p == req[r].post
        own == IF req[r].wrote THEN {req[r].user} ELSE {}
        seen == Cardinality(members[t][p] \cup own)
    IN  /\ req[r].pc = "count"
        /\ req' = [req EXCEPT ![r].pc = IF counter[t][p] < seen THEN "bump" ELSE "commit",
                              ![r].seen = seen]
        /\ UNCHANGED <<tables, rowLock, keyLock>>

(* The value an UPDATE writes to the newest version of the row: an add of  *)
(* a like or save re-evaluates its condition with the count it took, the   *)
(* others increment or decrement whatever they find.                       *)
NewValue(r) ==
    LET now == counter[Table(r)][req[r].post]
    IN  IF req[r].kind = CommentKind THEN now + 1
        ELSE IF Verb(r) = "remove" THEN (IF now > 0 THEN now - 1 ELSE 0)
        ELSE IF now < req[r].seen THEN now + 1 ELSE now

(* Reading the counter first and writing it back incremented.              *)
Bump_ReadThenWrite(r) ==
    /\ req[r].pc = "bump"
    /\ req' = [req EXCEPT ![r].pc = "commit", ![r].value = NewValue(r)]
    /\ UNCHANGED <<tables, rowLock, keyLock>>

Bump(r) ==
    LET p == req[r].post
    IN  /\ req[r].pc = "bump"
        /\ rowLock[p] = None
        /\ rowLock' = [rowLock EXCEPT ![p] = r]
        /\ req' = [req EXCEPT ![r].pc = "commit", ![r].value = NewValue(r)]
        /\ UNCHANGED <<tables, keyLock>>

(* A like that notifies whether or not it was new.                         *)
Notified_EveryTime(r) ==
    IF req[r].user = Author[req[r].post] THEN {}
    ELSE CASE req[r].kind = CommentKind -> {"COMMENT"}
           [] req[r].kind = <<"add", "post_likes">> -> {"LIKE"}
           [] OTHER -> {}

(* A notification to oneself.                                              *)
Notified_SelfToo(r) ==
    IF ~req[r].wrote THEN {}
    ELSE CASE req[r].kind = CommentKind -> {"COMMENT"}
           [] req[r].kind = <<"add", "post_likes">> -> {"LIKE"}
           [] OTHER -> {}

(* The notifications to the author that a transaction writes.              *)
Notified(r) ==
    IF req[r].user = Author[req[r].post] \/ ~req[r].wrote THEN {}
    ELSE CASE req[r].kind = CommentKind -> {"COMMENT"}
           [] req[r].kind = <<"add", "post_likes">> -> {"LIKE"}
           [] OTHER -> {}

(* Releasing the post's row only.                                          *)
ReleaseLocks_RowOnly(r) ==
    /\ rowLock' = [p \in Posts |-> IF rowLock[p] = r THEN None ELSE rowLock[p]]
    /\ UNCHANGED keyLock

ReleaseLocks(r) ==
    /\ rowLock' = [p \in Posts |-> IF rowLock[p] = r THEN None ELSE rowLock[p]]
    /\ keyLock' = [t \in Tables |-> [p \in Posts |-> [u \in Users |->
                       IF keyLock[t][p][u] = r THEN None ELSE keyLock[t][p][u]]]]

(* What a transaction did becomes visible at its commit, and its locks go. *)
Commit(r) ==
    LET t == Table(r)
        p == req[r].post
        u == req[r].user
    IN  /\ req[r].pc = "commit"
        /\ members' = IF req[r].kind \in Toggles /\ req[r].wrote
                      THEN [members EXCEPT ![t][p] = IF Verb(r) = "add" THEN @ \cup {u}
                                                    ELSE @ \ {u}]
                      ELSE members
        /\ comments' = IF req[r].kind = CommentKind
                       THEN comments \cup {[id |-> r, post |-> p, user |-> u,
                                            parent |-> req[r].parent]}
                       ELSE comments
        /\ counter' = IF req[r].value = None THEN counter
                      ELSE [counter EXCEPT ![t][p] = req[r].value]
        /\ notices' = [k \in {"LIKE", "COMMENT"} |->
                         IF k \in Notified(r) THEN [notices[k] EXCEPT ![p][u] = @ + 1]
                         ELSE notices[k]]
        /\ ReleaseLocks(r)
        /\ req' = [req EXCEPT ![r] = Done]
        /\ UNCHANGED state

(* A failed statement or a cancelled request context ends in a rollback.   *)
Rollback(r) ==
    /\ req[r].pc \in InTx
    /\ ReleaseLocks(r)
    /\ req' = [req EXCEPT ![r] = Done]
    /\ UNCHANGED tables

(* The author deletes the post, or it is hidden or restored: transactions  *)
(* of other components, whose UPDATE of the row waits for its lock too.    *)
StateChanges(p) ==
    /\ rowLock[p] = None
    /\ state[p] # "DELETED"
    /\ \E s \in {"VISIBLE", "HIDDEN", "DELETED"} : state' = [state EXCEPT ![p] = s]
    /\ UNCHANGED <<members, comments, counter, notices, rowLock, keyLock, req>>

Step(r) ==
    \/ InsertMember(r) \/ DeleteMember(r) \/ InsertComment(r)
    \/ CountMembers(r) \/ Bump(r) \/ Commit(r)

Next ==
    \/ \E r \in Requests, kind \in Kinds, u \in Users, p \in Posts,
          parent \in Requests \cup {None} : Begin(r, kind, u, p, parent)
    \/ \E r \in Requests : Step(r) \/ Rollback(r)
    \/ \E p \in Posts : StateChanges(p)

Spec == Init /\ [][Next]_vars

(* Handlers run to their answer and PostgreSQL grants free locks.          *)
FairSpec == Spec /\ \A r \in Requests : WF_vars(Step(r))

-----------------------------------------------------------------------------
(* Properties.                                                             *)

(* Every variable has its type, and a lock's holder has not ended its      *)
(* transaction.                                                            *)
TypeOK ==
    /\ state \in [Posts -> {"VISIBLE", "HIDDEN", "DELETED"}]
    /\ members \in [Tables -> [Posts -> SUBSET Users]]
    /\ comments \subseteq Comment
    /\ counter \in [Counters -> [Posts -> Nat]]
    /\ notices \in [{"LIKE", "COMMENT"} -> [Posts -> [Users -> Nat]]]
    /\ rowLock \in [Posts -> Requests \cup {None}]
    /\ keyLock \in [Tables -> [Posts -> [Users -> Requests \cup {None}]]]
    /\ req \in [Requests -> Request]
    /\ \A p \in Posts : rowLock[p] # None => req[rowLock[p]].pc \in InTx
    /\ \A t \in Tables, p \in Posts, u \in Users :
           keyLock[t][p][u] # None => req[keyLock[t][p][u]].pc \in InTx

(* comment_count is the number of comments at every instant, however       *)
(* commenters, togglers and deletions of the post interleave.              *)
CommentCountExact ==
    \A p \in Posts : counter["comments"][p] = Cardinality({c \in comments : c.post = p})

(* The author of a post hears of every comment by another once, and of     *)
(* every user who likes the post; never of an own action.                  *)
AuthorIsNotified ==
    \A p \in Posts, u \in Users :
        /\ notices["COMMENT"][p][u] =
               IF u = Author[p] THEN 0
               ELSE Cardinality({c \in comments : c.post = p /\ c.user = u})
        /\ u \in members["post_likes"][p] /\ u # Author[p] => notices["LIKE"][p][u] > 0

(* Liking again what is liked tells nobody anything: a LIKE notification   *)
(* is only written together with a new row of post_likes.                  *)
NoticeOnlyForNewLike ==
    [][\A p \in Posts, u \in Users :
         notices'["LIKE"][p][u] # notices["LIKE"][p][u] =>
             u \notin members["post_likes"][p] /\ u \in members'["post_likes"][p]]_vars

(* A toggle that no other transaction on the post overlaps leaves an exact *)
(* counter exact, repeated likes and repeated unlikes included.            *)
SerialTogglesStayExact ==
    [][\A t \in Tables, p \in Posts :
         (\E r \in Requests :
             /\ req[r].pc = "commit" /\ req'[r].pc = "done" /\ req[r].alone
             /\ req[r].post = p /\ counter[t][p] = Cardinality(members[t][p]))
         => counter'[t][p] = Cardinality(members'[t][p])]_vars

(* Every request is answered: the waits for key and row locks never form a *)
(* cycle, and no transaction ends without releasing its locks.             *)
EveryInteractionAnswered ==
    \A r \in Requests : req[r].pc \in InTx ~> req[r].pc = "done"

(* The technical document's definition of done: the counter like_count     *)
(* always equals the real COUNT of post_likes.                             *)
LikeCountExact ==
    \A p \in Posts :
        counter["post_likes"][p] = Cardinality(members["post_likes"][p])

=============================================================================
