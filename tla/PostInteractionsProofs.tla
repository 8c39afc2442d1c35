------------------------ MODULE PostInteractionsProofs ------------------------
(***************************************************************************)
(* Proofs about PostInteractions, for any users, posts and requests.  The  *)
(* inductive invariant says what a transaction in flight may rely on: its  *)
(* key lock keeps the row it has inserted or deleted as it found it, its   *)
(* row lock keeps the counter it has bumped as it read it, and as long as  *)
(* no other transaction overlaps it, its count is the number of rows.      *)
(***************************************************************************)
EXTENDS PostInteractions, FiniteSetTheorems, TLAPS

(* The statements a request has behind it.                                 *)
Progress(r) ==
    /\ req[r].pc \in InTx => /\ req[r].kind \in Kinds
                             /\ req[r].user \in Users
                             /\ req[r].post \in Posts
    /\ req[r].pc = "write" => ~req[r].wrote
    /\ req[r].pc \in {"write", "count", "bump"} => req[r].value = None
    /\ req[r].pc = "count" => req[r].kind \in Toggles /\ Verb(r) = "add"
    /\ req[r].pc \in {"bump", "commit"} /\ req[r].kind = CommentKind => req[r].wrote
    /\ req[r].pc = "bump" /\ Verb(r) = "remove" => req[r].wrote
    /\ req[r].pc = "commit" /\ req[r].kind = CommentKind => req[r].value # None
    /\ req[r].pc = "commit" /\ Verb(r) = "remove" => (req[r].value # None <=> req[r].wrote)

HasToggled(r) == req[r].pc \in InTx /\ req[r].kind \in Toggles /\ req[r].wrote

(* Who has inserted or deleted a row holds its key, and the committed row  *)
(* is as the statement found it.                                           *)
KeyClaim(r) ==
    HasToggled(r) =>
        /\ keyLock[Table(r)][req[r].post][req[r].user] = r
        /\ IsMember(r) <=> Verb(r) = "remove"

(* Who has updated the post holds its row, whose counter is still the one  *)
(* the new value was computed from.                                        *)
RowClaim(r) ==
    req[r].pc = "commit" /\ req[r].value # None =>
        /\ rowLock[req[r].post] = r
        /\ req[r].value = NewValue(r)

(* What a transaction that nobody has overlapped knows of its post.        *)
LonelyView(r) ==
    LET t == Table(r)
        p == req[r].post
        own == IF req[r].wrote THEN {req[r].user} ELSE {}
    IN  req[r].alone /\ req[r].pc \in InTx =>
          /\ \A s \in Requests \ {r} : req[s].pc \in InTx => req[s].post # p
          /\ req[r].kind \in Toggles /\ Verb(r) = "add" =>
               /\ req[r].pc # "write" /\ ~req[r].wrote => IsMember(r)
               /\ req[r].pc \in {"bump", "commit"} =>
                      req[r].seen = Cardinality(members[t][p] \cup own)
               /\ req[r].pc = "commit" /\ req[r].value = None => req[r].seen <= counter[t][p]

Claims == \A r \in Requests : Progress(r) /\ KeyClaim(r) /\ RowClaim(r)

LonelyViews == \A r \in Requests : LonelyView(r)

(* Finite tables, and comments only of requests that are over.             *)
TablesAreFinite ==
    /\ \A t \in Tables, p \in Posts : IsFiniteSet(members[t][p])
    /\ IsFiniteSet(comments)

CommentsOfTheDone == \A c \in comments : req[c.id].pc = "done"

IInv ==
    /\ TypeOK /\ Claims
    /\ TablesAreFinite /\ CommentsOfTheDone
    /\ CommentCountExact /\ AuthorIsNotified

-----------------------------------------------------------------------------
(* What the actions do, table by table.                                    *)

LEMMA KindFacts ==
    \A k \in Kinds :
        /\ k[1] \in {"add", "remove"} /\ k[2] \in Counters
        /\ k \in Toggles <=> k[2] \in Tables
        /\ k = CommentKind <=> k \notin Toggles
        /\ k = CommentKind <=> k[2] = "comments"
        /\ k = CommentKind => k[1] = "add"
  BY DEF Kinds, Toggles, CommentKind, Counters, Tables

LEMMA WhoIsNotified ==
    ASSUME NEW r \in Requests, req[r].kind \in Kinds
    PROVE  /\ "COMMENT" \in Notified(r) <=>
                  req[r].kind = CommentKind /\ req[r].wrote /\ req[r].user # Author[req[r].post]
           /\ "LIKE" \in Notified(r) <=>
                  /\ req[r].kind = <<"add", "post_likes">> /\ req[r].wrote
                  /\ req[r].user # Author[req[r].post]
  <1>1. CommentKind # <<"add", "post_likes">>
    BY DEF CommentKind
  <1>2. CASE req[r].user = Author[req[r].post] \/ ~req[r].wrote
    BY <1>2 DEF Notified
  <1>3. CASE req[r].kind = CommentKind /\ ~(req[r].user = Author[req[r].post] \/ ~req[r].wrote)
    <2>1. Notified(r) = {"COMMENT"}
      BY <1>1, <1>3 DEF Notified
    <2> QED
      BY <1>1, <1>3, <2>1
  <1>4. CASE /\ req[r].kind = <<"add", "post_likes">>
             /\ ~(req[r].user = Author[req[r].post] \/ ~req[r].wrote)
    <2>1. Notified(r) = {"LIKE"}
      BY <1>1, <1>4 DEF Notified
    <2> QED
      BY <1>1, <1>4, <2>1
  <1>5. CASE /\ req[r].kind # CommentKind /\ req[r].kind # <<"add", "post_likes">>
             /\ ~(req[r].user = Author[req[r].post] \/ ~req[r].wrote)
    <2>1. Notified(r) = {}
      BY <1>5 DEF Notified
    <2> QED
      BY <1>5, <2>1
  <1> QED
    BY <1>2, <1>3, <1>4, <1>5

(* A step of one request leaves the others alone.                          *)
LEMMA OthersKept ==
    ASSUME TypeOK, NEW r \in Requests, Step(r) \/ Rollback(r)
    PROVE  \A s \in Requests \ {r} : req'[s] = req[s]
  BY DEF TypeOK, Step, InsertMember, DeleteMember, InsertComment, CountMembers, Bump, Commit,
         Rollback

(* All but the history is the same.                                        *)
SameTransaction(s) ==
    /\ req'[s].pc = req[s].pc /\ req'[s].kind = req[s].kind
    /\ req'[s].user = req[s].user /\ req'[s].post = req[s].post
    /\ req'[s].wrote <=> req[s].wrote
    /\ req'[s].seen = req[s].seen /\ req'[s].value = req[s].value
    /\ req'[s].alone => req[s].alone

Begun(r, kind, u, p, parent) ==
    [Idle EXCEPT !.pc = "write", !.kind = kind, !.user = u, !.post = p, !.parent = parent,
                 !.alone = (Overlapping(r, p) = {})]

(* BEGIN makes a request a transaction, and others that it overlaps not    *)
(* alone any more.                                                         *)
LEMMA BeginEffect ==
    ASSUME TypeOK, NEW r \in Requests, NEW kind \in Kinds, NEW u \in Users, NEW p \in Posts,
           NEW parent \in Requests \cup {None}, Begin(r, kind, u, p, parent)
    PROVE  /\ req' \in [Requests -> Request]
           /\ req[r].pc = "idle" /\ UNCHANGED <<tables, rowLock, keyLock>>
           /\ \/ req'[r] = Done
              \/ /\ req'[r] = Begun(r, kind, u, p, parent)
                 /\ \A s \in Requests \ {r} : req'[s].alone => s \notin Overlapping(r, p)
           /\ \A s \in Requests \ {r} : SameTransaction(s)
  <1> DEFINE others == Overlapping(r, p)
             begun == Begun(r, kind, u, p, parent)
  <1>1. req[r].pc = "idle" /\ UNCHANGED <<tables, rowLock, keyLock>>
    BY DEF Begin
  <1>2. begun \in Request /\ Done \in Request
    BY DEF Begun, Request, Idle, Done, PCs
  <1>3. \A s \in Requests, a \in BOOLEAN : [req[s] EXCEPT !.alone = a] \in Request
    BY DEF TypeOK, Request
  <1>4. CASE MayInteract(kind, p, parent)
    <2>1. req' = [s \in Requests |->
                    IF s = r THEN begun ELSE [req[s] EXCEPT !.alone = @ /\ s \notin others]]
      BY <1>4 DEF Begin, Begun
    <2> HIDE DEF begun, others
    <2>2. \A s \in Requests \ {r} :
             /\ req'[s] = [req[s] EXCEPT !.alone = (req[s].alone /\ s \notin others)]
             /\ (req[s].alone /\ s \notin others) \in BOOLEAN
             /\ req[s] \in Request
      BY <2>1 DEF TypeOK
    <2>3. ASSUME NEW s \in Requests \ {r}
          PROVE  SameTransaction(s) /\ (req'[s].alone => s \notin others)
      <3> DEFINE a == req[s].alone /\ s \notin others
      <3>1. req'[s] = [req[s] EXCEPT !.alone = a] /\ req[s] \in Request
        BY <2>2
      <3> HIDE DEF a
      <3>2. req'[s].alone <=> a
        BY <3>1 DEF Request
      <3>3. a => req[s].alone /\ s \notin others
        BY DEF a
      <3> QED
        BY <3>1, <3>2, <3>3 DEF Request, SameTransaction
    <2>4. req'[r] = begun
      BY <2>1
    <2>5. req' \in [Requests -> Request]
      BY <1>2, <1>3, <2>1, <2>2, <2>4
    <2> QED
      BY <1>1, <2>3, <2>4, <2>5 DEF begun, others
  <1>5. CASE ~MayInteract(kind, p, parent)
    <2>1. req' = [req EXCEPT ![r] = Done]
      BY <1>5 DEF Begin
    <2> QED
      BY <1>1, <1>2, <2>1 DEF TypeOK, SameTransaction
  <1> QED
    BY <1>4, <1>5

LEMMA KeyTaken ==
    ASSUME TypeOK, NEW r \in Requests, Progress(r), req[r].pc \in InTx, req[r].kind \in Toggles,
           TakeKey(r)
    PROVE  /\ keyLock' \in [Tables -> [Posts -> [Users -> Requests \cup {None}]]]
           /\ \A t \in Tables, p \in Posts, u \in Users :
                 keyLock'[t][p][u] = IF t = Table(r) /\ p = req[r].post /\ u = req[r].user
                                     THEN r ELSE keyLock[t][p][u]
  <1>1. /\ Table(r) \in Tables /\ req[r].post \in Posts /\ req[r].user \in Users
    BY KindFacts DEF Progress, Table
  <1> QED
    BY <1>1 DEF TakeKey, TypeOK

LEMMA Released ==
    ASSUME TypeOK, NEW r \in Requests, ReleaseLocks(r)
    PROVE  /\ keyLock' \in [Tables -> [Posts -> [Users -> Requests \cup {None}]]]
           /\ rowLock' \in [Posts -> Requests \cup {None}]
           /\ \A t \in Tables, p \in Posts, u \in Users :
                 keyLock'[t][p][u] = IF keyLock[t][p][u] = r THEN None ELSE keyLock[t][p][u]
           /\ \A p \in Posts : rowLock'[p] = IF rowLock[p] = r THEN None ELSE rowLock[p]
  BY DEF ReleaseLocks, TypeOK

(* The tables after a commit of r.                                         *)
MembersAfter(r) ==
    \A t \in Tables, p \in Posts :
       members'[t][p] = IF HasToggled(r) /\ t = Table(r) /\ p = req[r].post
                        THEN IF Verb(r) = "add" THEN members[t][p] \cup {req[r].user}
                             ELSE members[t][p] \ {req[r].user}
                        ELSE members[t][p]

CounterAfter(r) ==
    \A c \in Counters, p \in Posts :
       counter'[c][p] = IF req[r].value # None /\ c = Table(r) /\ p = req[r].post
                        THEN req[r].value ELSE counter[c][p]

NoticesAfter(r) ==
    \A k \in {"LIKE", "COMMENT"}, p \in Posts, u \in Users :
       notices'[k][p][u] = IF k \in Notified(r) /\ p = req[r].post /\ u = req[r].user
                           THEN notices[k][p][u] + 1 ELSE notices[k][p][u]

LEMMA Committed ==
    ASSUME TypeOK, NEW r \in Requests, Progress(r), Commit(r)
    PROVE  /\ members' \in [Tables -> [Posts -> SUBSET Users]]
           /\ MembersAfter(r)
           /\ counter' \in [Counters -> [Posts -> Nat]]
           /\ CounterAfter(r)
           /\ notices' \in [{"LIKE", "COMMENT"} -> [Posts -> [Users -> Nat]]]
           /\ NoticesAfter(r)
  <1>1. /\ req[r].kind \in Kinds /\ req[r].user \in Users /\ req[r].post \in Posts
        /\ req[r].pc = "commit" /\ req[r].pc \in InTx
        /\ Table(r) \in Counters /\ (req[r].kind \in Toggles <=> Table(r) \in Tables)
    BY KindFacts DEF Commit, Progress, InTx, Table
  <1>2. req[r].value \in Nat \cup {None}
    BY DEF TypeOK, Request
  <1>3. /\ members' \in [Tables -> [Posts -> SUBSET Users]]
        /\ MembersAfter(r)
    <2>1. CASE req[r].kind \in Toggles /\ req[r].wrote
      <3> DEFINE old == members[Table(r)][req[r].post]
                 new == IF Verb(r) = "add" THEN old \cup {req[r].user} ELSE old \ {req[r].user}
      <3>1. HasToggled(r) /\ Table(r) \in Tables
        BY <1>1, <2>1 DEF HasToggled
      <3>2. members' = [members EXCEPT ![Table(r)][req[r].post] = new]
        BY <2>1 DEF Commit
      <3>3. members \in [Tables -> [Posts -> SUBSET Users]] /\ new \in SUBSET Users
        BY <1>1, <3>1 DEF TypeOK
      <3> HIDE DEF new
      <3>4. /\ members' \in [Tables -> [Posts -> SUBSET Users]]
            /\ \A t \in Tables, p \in Posts :
                  members'[t][p] = IF t = Table(r) /\ p = req[r].post THEN new ELSE members[t][p]
        BY <1>1, <3>1, <3>2, <3>3
      <3> QED
        BY <3>1, <3>4 DEF new, MembersAfter
    <2>2. CASE ~(req[r].kind \in Toggles /\ req[r].wrote)
      BY <1>1, <2>2 DEF Commit, HasToggled, TypeOK, MembersAfter
    <2> QED
      BY <2>1, <2>2
  <1>4. /\ counter' \in [Counters -> [Posts -> Nat]]
        /\ CounterAfter(r)
    BY <1>1, <1>2 DEF Commit, TypeOK, CounterAfter
  <1>5. /\ notices' \in [{"LIKE", "COMMENT"} -> [Posts -> [Users -> Nat]]]
        /\ NoticesAfter(r)
    BY <1>1 DEF Commit, TypeOK, NoticesAfter
  <1> QED
    BY <1>3, <1>4, <1>5

-----------------------------------------------------------------------------
(* Types.                                                                  *)

LEMMA InitIInv == Init => IInv /\ LonelyViews
  <1> SUFFICES ASSUME Init PROVE IInv /\ LonelyViews
    OBVIOUS
  <1>1. TypeOK
    BY DEF Init, TypeOK, Request, Idle, PCs, Counters
  <1>2. Claims /\ CommentsOfTheDone /\ LonelyViews
    BY DEF Init, Claims, Progress, KeyClaim, HasToggled, RowClaim, CommentsOfTheDone,
           LonelyViews, LonelyView, Idle, InTx
  <1>3. TablesAreFinite
    BY FS_EmptySet DEF Init, TablesAreFinite
  <1>4. CommentCountExact /\ AuthorIsNotified
    <2>1. CommentCountExact
      <3> SUFFICES ASSUME NEW p \in Posts
                   PROVE  counter["comments"][p] = Cardinality({c \in comments : c.post = p})
        BY DEF CommentCountExact
      <3>1. {c \in comments : c.post = p} = {} /\ counter["comments"][p] = 0
        BY DEF Init, Counters
      <3>2. Cardinality({c \in comments : c.post = p}) = 0
        BY <3>1, FS_EmptySet, Zenon
      <3> QED
        BY <3>1, <3>2
    <2>2. AuthorIsNotified
      <3> SUFFICES ASSUME NEW p \in Posts, NEW u \in Users
                   PROVE  /\ notices["COMMENT"][p][u] = 0
                          /\ Cardinality({c \in comments : c.post = p /\ c.user = u}) = 0
                          /\ u \notin members["post_likes"][p]
        BY DEF AuthorIsNotified
      <3>1. {c \in comments : c.post = p /\ c.user = u} = {}
        BY DEF Init
      <3>2. Cardinality({c \in comments : c.post = p /\ c.user = u}) = 0
        BY <3>1, FS_EmptySet, Zenon
      <3>3. notices["COMMENT"][p][u] = 0 /\ u \notin members["post_likes"][p]
        BY DEF Init, Tables
      <3> QED
        BY <3>2, <3>3
    <2> QED
      BY <2>1, <2>2
  <1> QED
    BY <1>1, <1>2, <1>3, <1>4 DEF IInv

LEMMA RequestParts ==
    ASSUME NEW q \in Request, NEW pc \in PCs, NEW wrote \in BOOLEAN, NEW n \in Nat
    PROVE  /\ [q EXCEPT !.pc = pc] \in Request
           /\ [q EXCEPT !.pc = pc, !.wrote = wrote] \in Request
           /\ [q EXCEPT !.pc = pc, !.seen = n] \in Request
           /\ [q EXCEPT !.pc = pc, !.value = n] \in Request
  BY DEF Request

(* The number of rows that a transaction counts.                           *)
LEMMA CountIsNat ==
    ASSUME NEW S, IsFiniteSet(S), NEW u, NEW wrote
    PROVE  Cardinality(S \cup (IF wrote THEN {u} ELSE {})) \in Nat
  <1>1. IsFiniteSet(IF wrote THEN {u} ELSE {})
    BY FS_EmptySet, FS_Singleton
  <1>2. IsFiniteSet(S \cup (IF wrote THEN {u} ELSE {}))
    BY <1>1, FS_Union, Zenon
  <1> QED
    BY <1>2, FS_CardinalityType, Zenon

LEMMA NewValueIsNat ==
    ASSUME TypeOK, NEW r \in Requests, Progress(r), req[r].pc \in InTx
    PROVE  NewValue(r) \in Nat
  <1>1. Table(r) \in Counters /\ req[r].post \in Posts
    BY KindFacts DEF Progress, Table
  <1>2. counter[Table(r)][req[r].post] \in Nat /\ req[r].seen \in Nat
    BY <1>1 DEF TypeOK, Request
  <1> QED
    BY <1>2 DEF NewValue

(* A request that steps stays a request.                                   *)
LEMMA RequestTyped ==
    ASSUME TypeOK, Claims, TablesAreFinite, NEW r \in Requests, Step(r) \/ Rollback(r)
    PROVE  req' \in [Requests -> Request]
  <1>0. req \in [Requests -> Request] /\ req[r] \in Request /\ Done \in Request
    BY DEF TypeOK, Done, Idle, Request, PCs
  <1>1. CASE InsertMember(r)
    <2>1. (~IsMember(r)) \in BOOLEAN /\ "count" \in PCs
      BY DEF PCs
    <2>2. [req[r] EXCEPT !.pc = "count", !.wrote = ~IsMember(r)] \in Request
      BY <1>0, <2>1, RequestParts
    <2>3. req' = [req EXCEPT ![r] = [req[r] EXCEPT !.pc = "count", !.wrote = ~IsMember(r)]]
      BY <1>1 DEF InsertMember
    <2> QED
      BY <1>0, <2>2, <2>3
  <1>2. CASE DeleteMember(r)
    BY <1>0, <1>2, RequestParts DEF DeleteMember, PCs
  <1>3. CASE InsertComment(r)
    BY <1>0, <1>3, RequestParts DEF InsertComment, PCs
  <1>4. CASE CountMembers(r)
    <2> DEFINE seen == Cardinality(members[Table(r)][req[r].post]
                                     \cup (IF req[r].wrote THEN {req[r].user} ELSE {}))
    <2>1. Table(r) \in Tables /\ req[r].post \in Posts
      BY <1>4, KindFacts DEF CountMembers, Claims, Progress, Table, InTx
    <2>2. IsFiniteSet(members[Table(r)][req[r].post])
      BY <2>1 DEF TablesAreFinite
    <2>3. seen \in Nat
      BY <2>2, CountIsNat, Zenon
    <2>4. PICK pc \in PCs :
             req' = [req EXCEPT ![r] = [req[r] EXCEPT !.pc = pc, !.seen = seen]]
      BY <1>0, <1>4 DEF CountMembers, PCs
    <2> HIDE DEF seen
    <2>5. [req[r] EXCEPT !.pc = pc, !.seen = seen] \in Request
      BY <1>0, <2>3, RequestParts
    <2> QED
      BY <1>0, <2>4, <2>5
  <1>5. CASE Bump(r)
    <2>3. NewValue(r) \in Nat /\ "commit" \in PCs
      BY <1>5, NewValueIsNat DEF Bump, Claims, InTx, PCs
    <2>4. req' = [req EXCEPT ![r] = [req[r] EXCEPT !.pc = "commit", !.value = NewValue(r)]]
      BY <1>5 DEF Bump
    <2> QED
      BY <1>0, <2>3, <2>4, RequestParts
  <1>6. CASE Commit(r) \/ Rollback(r)
    BY <1>0, <1>6 DEF Commit, Rollback
  <1> QED
    BY <1>1, <1>2, <1>3, <1>4, <1>5, <1>6 DEF Step

(* Keys and rows stay locked only for transactions.                        *)
LocksOfTransactions ==
    /\ \A p \in Posts : rowLock[p] # None => req[rowLock[p]].pc \in InTx
    /\ \A t \in Tables, p \in Posts, u \in Users :
           keyLock[t][p][u] # None => req[keyLock[t][p][u]].pc \in InTx

LockTypes ==
    /\ rowLock \in [Posts -> Requests \cup {None}]
    /\ keyLock \in [Tables -> [Posts -> [Users -> Requests \cup {None}]]]

LEMMA LocksMoved ==
    ASSUME LockTypes, LockTypes', LocksOfTransactions, NEW r \in Requests,
           \A s \in Requests \ {r} : req'[s] = req[s],
           \A p \in Posts : rowLock'[p] \in {None, r, rowLock[p]},
           \A t \in Tables, p \in Posts, u \in Users :
               keyLock'[t][p][u] \in {None, r, keyLock[t][p][u]},
           \/ req'[r].pc \in InTx
           \/ /\ \A p \in Posts : rowLock'[p] # r
              /\ \A t \in Tables, p \in Posts, u \in Users : keyLock'[t][p][u] # r
    PROVE  LocksOfTransactions'
  <1>1. ASSUME NEW p \in Posts, rowLock'[p] # None PROVE req'[rowLock'[p]].pc \in InTx
    BY <1>1 DEF LockTypes, LocksOfTransactions
  <1>2. ASSUME NEW t \in Tables, NEW p \in Posts, NEW u \in Users, keyLock'[t][p][u] # None
        PROVE  req'[keyLock'[t][p][u]].pc \in InTx
    <2>1. keyLock'[t][p][u] \in Requests /\ keyLock[t][p][u] \in Requests \cup {None}
      BY <1>2 DEF LockTypes
    <2> QED
      BY <1>2, <2>1 DEF LocksOfTransactions
  <1> QED
    BY <1>1, <1>2 DEF LocksOfTransactions, InTx

LEMMA LocksKept ==
    ASSUME TypeOK, Claims, NEW r \in Requests, Step(r) \/ Rollback(r)
    PROVE  LockTypes' /\ LocksOfTransactions'
  <1>0. \A s \in Requests \ {r} : req'[s] = req[s]
    BY OthersKept
  <1>1. LockTypes /\ LocksOfTransactions /\ Progress(r) /\ None # r
    BY NoneAssumption DEF TypeOK, LockTypes, LocksOfTransactions, Claims
  <1>2. CASE (InsertMember(r) \/ DeleteMember(r) \/ InsertComment(r) \/ CountMembers(r))
    <2>1. rowLock' = rowLock /\ req'[r].pc \in InTx
      BY <1>2 DEF InsertMember, DeleteMember, InsertComment, CountMembers, TypeOK, Request, InTx
    <2>2. \/ keyLock' = keyLock
          \/ TakeKey(r) /\ req[r].pc \in InTx /\ req[r].kind \in Toggles
      BY <1>2 DEF InsertMember, DeleteMember, InsertComment, CountMembers, InTx
    <2>3. /\ keyLock' \in [Tables -> [Posts -> [Users -> Requests \cup {None}]]]
          /\ \A t \in Tables, p \in Posts, u \in Users :
                keyLock'[t][p][u] \in {None, r, keyLock[t][p][u]}
      <3>1. CASE keyLock' = keyLock
        BY <1>1, <3>1 DEF LockTypes
      <3>2. CASE TakeKey(r) /\ req[r].pc \in InTx /\ req[r].kind \in Toggles
        BY <1>1, <3>2, KeyTaken
      <3> QED
        BY <2>2, <3>1, <3>2
    <2>4. LockTypes'
      BY <1>1, <2>1, <2>3 DEF LockTypes
    <2> QED
      BY <1>0, <1>1, <2>1, <2>3, <2>4, LocksMoved
  <1>3. CASE Bump(r)
    <2>1. req'[r].pc \in InTx /\ keyLock' = keyLock /\ rowLock' = [rowLock EXCEPT ![req[r].post] = r]
      BY <1>3 DEF Bump, TypeOK, Request, InTx
    <2>2. LockTypes' /\ \A p \in Posts : rowLock'[p] \in {None, r, rowLock[p]}
      BY <1>1, <2>1 DEF LockTypes
    <2> QED
      BY <1>0, <1>1, <2>1, <2>2, LocksMoved
  <1>4. CASE Commit(r) \/ Rollback(r)
    <2>1. ReleaseLocks(r)
      BY <1>4 DEF Commit, Rollback
    <2>2. /\ LockTypes'
          /\ \A p \in Posts : rowLock'[p] \in {None, rowLock[p]} /\ rowLock'[p] # r
          /\ \A t \in Tables, p \in Posts, u \in Users :
                keyLock'[t][p][u] \in {None, keyLock[t][p][u]} /\ keyLock'[t][p][u] # r
      BY <1>1, <2>1, Released DEF LockTypes
    <2> QED
      BY <1>0, <1>1, <2>2, LocksMoved
  <1> QED
    BY <1>2, <1>3, <1>4 DEF Step

LEMMA NextTypeOK == IInv /\ [Next]_vars => TypeOK'
  <1> SUFFICES ASSUME IInv, [Next]_vars PROVE TypeOK'
    OBVIOUS
  <1>0. TypeOK /\ Claims /\ TablesAreFinite
    BY DEF IInv
  <1>1. ASSUME NEW r \in Requests, NEW kind \in Kinds, NEW u \in Users, NEW p \in Posts,
               NEW parent \in Requests \cup {None}, Begin(r, kind, u, p, parent)
        PROVE  TypeOK'
    <2>1. /\ req' \in [Requests -> Request]
          /\ req[r].pc = "idle" /\ UNCHANGED <<tables, rowLock, keyLock>>
          /\ \A s \in Requests \ {r} : SameTransaction(s)
      BY <1>0, <1>1, BeginEffect
    <2>2. \A s \in Requests : req[s].pc \in InTx => req'[s].pc \in InTx
      BY <2>1 DEF InTx, SameTransaction
    <2> QED
      BY <1>0, <2>1, <2>2 DEF TypeOK, tables
  <1>2. ASSUME NEW r \in Requests, Step(r) \/ Rollback(r) PROVE TypeOK'
    <2>1. req' \in [Requests -> Request]
      BY <1>0, <1>2, RequestTyped
    <2>2. LockTypes' /\ LocksOfTransactions'
      BY <1>0, <1>2, LocksKept
    <2>3. CASE UNCHANGED tables
      BY <1>0, <2>1, <2>2, <2>3 DEF TypeOK, tables, LockTypes, LocksOfTransactions
    <2>4. CASE Commit(r)
      <3>1. /\ members' \in [Tables -> [Posts -> SUBSET Users]]
            /\ counter' \in [Counters -> [Posts -> Nat]]
            /\ notices' \in [{"LIKE", "COMMENT"} -> [Posts -> [Users -> Nat]]]
        BY <1>0, <2>4, Committed DEF Claims
      <3>2. comments' \subseteq Comment /\ state' = state
        BY <1>0, <2>4 DEF Commit, TypeOK, Claims, Progress, InTx, Comment, Request
      <3> QED
        BY <1>0, <2>1, <2>2, <3>1, <3>2 DEF TypeOK, LockTypes, LocksOfTransactions
    <2> QED
      BY <1>2, <2>3, <2>4 DEF Step, InsertMember, DeleteMember, InsertComment, CountMembers, Bump,
                              Rollback, tables
  <1>3. ASSUME NEW p \in Posts, StateChanges(p) PROVE TypeOK'
    BY <1>0, <1>3 DEF StateChanges, TypeOK
  <1>4. CASE UNCHANGED vars
    BY <1>0, <1>4 DEF vars, tables, TypeOK
  <1> QED
    BY <1>1, <1>2, <1>3, <1>4 DEF Next

-----------------------------------------------------------------------------
(* What transactions may rely on.                                          *)

Claim(s) == Progress(s) /\ KeyClaim(s) /\ RowClaim(s)

(* A step that keeps a transaction, its key, its row, and what they guard  *)
(* keeps what it may rely on.                                              *)
LEMMA ClaimKept ==
    ASSUME NEW s \in Requests, Claim(s), SameTransaction(s),
           HasToggled(s) =>
               /\ keyLock'[Table(s)][req[s].post][req[s].user] = s
               /\ req[s].user \in members'[Table(s)][req[s].post] <=> IsMember(s),
           req[s].pc = "commit" /\ req[s].value # None =>
               /\ rowLock'[req[s].post] = s
               /\ counter'[Table(s)][req[s].post] = counter[Table(s)][req[s].post]
    PROVE  Claim(s)'
  <1>1. Progress(s)'
    BY DEF Claim, Progress, SameTransaction, Verb, InTx
  <1>2. KeyClaim(s)'
    BY DEF Claim, KeyClaim, SameTransaction, HasToggled, Verb, Table, IsMember
  <1>3. RowClaim(s)'
    BY DEF Claim, RowClaim, SameTransaction, NewValue, Verb, Table
  <1> QED
    BY <1>1, <1>2, <1>3 DEF Claim

LEMMA SameRequest ==
    ASSUME NEW s \in Requests, req'[s] = req[s]
    PROVE  SameTransaction(s)
  BY DEF SameTransaction

(* Where a toggle's key and a counter's row are.                           *)
LEMMA Places ==
    ASSUME TypeOK, NEW s \in Requests, Progress(s)
    PROVE  /\ HasToggled(s) => /\ Table(s) \in Tables
                               /\ req[s].post \in Posts /\ req[s].user \in Users
           /\ req[s].pc \in InTx => /\ Table(s) \in Counters /\ req[s].post \in Posts
                                    /\ req[s].user \in Users
  BY KindFacts DEF Progress, HasToggled, Table

LEMMA ClaimsOfOthers ==
    ASSUME TypeOK, Claims, NEW r \in Requests, Step(r) \/ Rollback(r), NEW s \in Requests, s # r
    PROVE  Claim(s)'
  <1>0. SameTransaction(s) /\ Claim(s) /\ Claim(r)
    BY OthersKept, SameRequest DEF Claims, Claim
  <1>1. /\ HasToggled(s) => /\ Table(s) \in Tables
                            /\ req[s].post \in Posts /\ req[s].user \in Users
                            /\ keyLock[Table(s)][req[s].post][req[s].user] = s
        /\ req[s].pc = "commit" /\ req[s].value # None =>
               /\ Table(s) \in Counters /\ req[s].post \in Posts
               /\ rowLock[req[s].post] = s
    BY <1>0, Places DEF Claim, KeyClaim, RowClaim, InTx
  <1>2. CASE (InsertMember(r) \/ DeleteMember(r) \/ InsertComment(r) \/ CountMembers(r))
    <2>1. UNCHANGED <<members, counter, rowLock>>
      BY <1>2 DEF InsertMember, DeleteMember, InsertComment, CountMembers, tables
    <2>2. \/ keyLock' = keyLock
          \/ TakeKey(r) /\ KeyFree(r) /\ req[r].pc \in InTx /\ req[r].kind \in Toggles
      BY <1>2 DEF InsertMember, DeleteMember, InsertComment, CountMembers, InTx
    <2>3. HasToggled(s) => keyLock'[Table(s)][req[s].post][req[s].user] = s
      <3>1. CASE TakeKey(r) /\ KeyFree(r) /\ req[r].pc \in InTx /\ req[r].kind \in Toggles
        <4>1. \A t \in Tables, p \in Posts, u \in Users :
                 keyLock'[t][p][u] = IF t = Table(r) /\ p = req[r].post /\ u = req[r].user
                                     THEN r ELSE keyLock[t][p][u]
          BY <1>0, <3>1, KeyTaken DEF Claim
        <4> QED
          BY <1>1, <3>1, <4>1, NoneAssumption DEF KeyFree
      <3> QED
        BY <1>1, <2>2, <3>1
    <2> QED
      BY <1>0, <1>1, <2>1, <2>3, ClaimKept DEF IsMember
  <1>3. CASE Bump(r)
    <2>1. UNCHANGED <<members, counter, keyLock>>
      BY <1>3 DEF Bump, tables
    <2>2. rowLock[req[r].post] = None /\ rowLock' = [rowLock EXCEPT ![req[r].post] = r]
      BY <1>3 DEF Bump
    <2>3. req[s].pc = "commit" /\ req[s].value # None => rowLock'[req[s].post] = s
      BY <1>1, <2>2, NoneAssumption DEF TypeOK
    <2> QED
      BY <1>0, <1>1, <2>1, <2>3, ClaimKept DEF IsMember
  <1>4. CASE Commit(r) \/ Rollback(r)
    <2>1. ReleaseLocks(r)
      BY <1>4 DEF Commit, Rollback
    <2>2. /\ HasToggled(s) => keyLock'[Table(s)][req[s].post][req[s].user] = s
          /\ req[s].pc = "commit" /\ req[s].value # None => rowLock'[req[s].post] = s
      BY <1>1, <2>1, Released
    <2>3. CASE Rollback(r)
      BY <1>0, <2>2, <2>3, ClaimKept DEF Rollback, tables, IsMember
    <2>4. CASE Commit(r)
      <3>1. HasToggled(s) => (req[s].user \in members'[Table(s)][req[s].post] <=> IsMember(s))
        <4>1. HasToggled(r) => keyLock[Table(r)][req[r].post][req[r].user] = r
          BY <1>0 DEF Claim, KeyClaim
        <4>2. MembersAfter(r)
          BY <1>0, <2>4, Committed DEF Claim
        <4>3. CASE HasToggled(s) /\ HasToggled(r) /\ Table(s) = Table(r) /\ req[s].post = req[r].post
          <5>1. req[s].user # req[r].user
            BY <1>1, <4>1, <4>3
          <5> QED
            BY <1>1, <4>2, <4>3, <5>1 DEF IsMember, MembersAfter
        <4>4. CASE HasToggled(s)
                     /\ ~(HasToggled(r) /\ Table(s) = Table(r) /\ req[s].post = req[r].post)
          BY <1>1, <4>2, <4>4 DEF IsMember, MembersAfter
        <4> QED
          BY <4>3, <4>4
      <3>2. req[s].pc = "commit" /\ req[s].value # None =>
               counter'[Table(s)][req[s].post] = counter[Table(s)][req[s].post]
        <4>1. req[r].value # None => rowLock[req[r].post] = r
          BY <1>0, <2>4 DEF Claim, RowClaim, Commit
        <4>2. CounterAfter(r)
          BY <1>0, <2>4, Committed DEF Claim
        <4> QED
          BY <1>1, <4>1, <4>2 DEF CounterAfter
      <3> QED
        BY <1>0, <2>2, <3>1, <3>2, ClaimKept
    <2> QED
      BY <1>4, <2>3, <2>4
  <1> QED
    BY <1>2, <1>3, <1>4 DEF Step

LEMMA ClaimOfOwn ==
    ASSUME TypeOK, Claims, TablesAreFinite, NEW r \in Requests, Step(r) \/ Rollback(r)
    PROVE  Claim(r)'
  <1>0. TypeOK /\ Claim(r) /\ req[r] \in Request /\ r # None
    BY NoneAssumption DEF Claims, Claim, TypeOK
  <1>1. req[r].pc \in InTx => req[r].kind \in Kinds
    BY <1>0 DEF Claim, Progress
  <1>2. CASE InsertMember(r)
    <2>1. /\ req'[r] = [req[r] EXCEPT !.pc = "count", !.wrote = ~IsMember(r)]
          /\ req[r].pc = "write" /\ req[r].kind \in Toggles /\ Verb(r) = "add"
          /\ UNCHANGED members
          /\ ~IsMember(r) => TakeKey(r)
      BY <1>0, <1>2 DEF InsertMember, TypeOK, tables
    <2>2. /\ req'[r].pc = "count" /\ (req'[r].wrote <=> ~IsMember(r))
          /\ req'[r].kind = req[r].kind /\ req'[r].user = req[r].user
          /\ req'[r].post = req[r].post /\ req'[r].value = req[r].value
      BY <1>0, <2>1 DEF Request
    <2>3. ~IsMember(r) => keyLock'[Table(r)][req[r].post][req[r].user] = r
      BY <1>0, <2>1, KeyTaken, Places, KindFacts DEF Claim, Progress, InTx, Table
    <2>4. Progress(r)'
      BY <1>0, <2>1, <2>2, KindFacts DEF Claim, Progress, InTx, Verb
    <2>5. KeyClaim(r)'
      BY <2>1, <2>2, <2>3 DEF KeyClaim, HasToggled, Verb, Table, IsMember
    <2>6. RowClaim(r)'
      BY <2>2 DEF RowClaim
    <2> QED
      BY <2>4, <2>5, <2>6 DEF Claim
  <1>3. CASE DeleteMember(r)
    <2>1. /\ req[r].pc = "write" /\ req[r].kind \in Toggles /\ Verb(r) = "remove"
          /\ UNCHANGED members
          /\ IsMember(r) => TakeKey(r)
          /\ req'[r] = IF IsMember(r) THEN [req[r] EXCEPT !.pc = "bump", !.wrote = TRUE]
                       ELSE [req[r] EXCEPT !.pc = "commit"]
      BY <1>0, <1>3 DEF DeleteMember, TypeOK, tables
    <2>2. /\ req'[r].pc = IF IsMember(r) THEN "bump" ELSE "commit"
          /\ req'[r].wrote <=> IsMember(r)
          /\ req'[r].kind = req[r].kind /\ req'[r].user = req[r].user
          /\ req'[r].post = req[r].post /\ req'[r].value = None
      BY <1>0, <2>1 DEF Request, Claim, Progress
    <2>3. IsMember(r) => keyLock'[Table(r)][req[r].post][req[r].user] = r
      BY <1>0, <2>1, KeyTaken, Places, KindFacts DEF Claim, Progress, InTx, Table
    <2>4. Progress(r)'
      BY <1>0, <2>1, <2>2, KindFacts DEF Claim, Progress, InTx, Verb
    <2>5. KeyClaim(r)'
      BY <2>1, <2>2, <2>3 DEF KeyClaim, HasToggled, Verb, Table, IsMember
    <2>6. RowClaim(r)'
      BY <2>2 DEF RowClaim
    <2> QED
      BY <2>4, <2>5, <2>6 DEF Claim
  <1>4. CASE InsertComment(r)
    <2>1. /\ req[r].pc = "write" /\ req[r].kind = CommentKind
          /\ req'[r] = [req[r] EXCEPT !.pc = "bump", !.wrote = TRUE]
      BY <1>0, <1>4 DEF InsertComment, TypeOK
    <2>2. /\ req'[r].pc = "bump" /\ req'[r].wrote
          /\ req'[r].kind = req[r].kind /\ req'[r].user = req[r].user
          /\ req'[r].post = req[r].post /\ req'[r].value = None
      BY <1>0, <2>1 DEF Request, Claim, Progress
    <2> QED
      BY <1>0, <1>1, <2>1, <2>2, KindFacts
         DEF Claim, Progress, KeyClaim, HasToggled, RowClaim, InTx, Verb
  <1>5. CASE CountMembers(r)
    <2>1. /\ req[r].pc = "count" /\ req[r].kind \in Toggles /\ Verb(r) = "add"
          /\ UNCHANGED <<members, keyLock>>
          /\ \E pc \in {"bump", "commit"} : \E n :
                req'[r] = [req[r] EXCEPT !.pc = pc, !.seen = n]
      BY <1>0, <1>5 DEF CountMembers, TypeOK, tables, Claim, Progress
    <2>2. /\ req'[r].pc \in {"bump", "commit"} /\ (req'[r].wrote <=> req[r].wrote)
          /\ req'[r].kind = req[r].kind /\ req'[r].user = req[r].user
          /\ req'[r].post = req[r].post /\ req'[r].value = None
      BY <1>0, <2>1 DEF Request, Claim, Progress
    <2>3. Progress(r)'
      BY <1>0, <1>1, <2>1, <2>2, KindFacts DEF Claim, Progress, InTx, Verb
    <2>4. KeyClaim(r)'
      BY <1>0, <2>1, <2>2 DEF Claim, KeyClaim, HasToggled, InTx, Verb, Table, IsMember
    <2>5. RowClaim(r)'
      BY <2>2 DEF RowClaim
    <2> QED
      BY <2>3, <2>4, <2>5 DEF Claim
  <1>6. CASE Bump(r)
    <2>1. /\ req[r].pc = "bump" /\ UNCHANGED <<members, counter, keyLock>>
          /\ rowLock' = [rowLock EXCEPT ![req[r].post] = r]
          /\ req'[r] = [req[r] EXCEPT !.pc = "commit", !.value = NewValue(r)]
      BY <1>0, <1>6 DEF Bump, TypeOK, tables
    <2>2. /\ req'[r].pc = "commit" /\ (req'[r].wrote <=> req[r].wrote)
          /\ req'[r].kind = req[r].kind /\ req'[r].user = req[r].user
          /\ req'[r].post = req[r].post /\ req'[r].seen = req[r].seen
          /\ req'[r].value = NewValue(r)
      BY <1>0, <2>1 DEF Request
    <2>3. NewValue(r) # None /\ req[r].post \in Posts
      BY <1>0, <2>1, NewValueIsNat, NoneAssumption DEF Claim, Progress, InTx
    <2>4. Progress(r)'
      BY <1>0, <1>1, <2>1, <2>2, <2>3 DEF Claim, Progress, InTx, Verb
    <2>5. KeyClaim(r)'
      BY <1>0, <2>1, <2>2 DEF Claim, KeyClaim, HasToggled, InTx, Verb, Table, IsMember
    <2>6. RowClaim(r)'
      <3>1. rowLock'[req[r].post] = r
        BY <1>0, <2>1, <2>3 DEF TypeOK
      <3>2. NewValue(r)' = NewValue(r)
        BY <2>1, <2>2 DEF NewValue, Verb, Table
      <3> QED
        BY <2>2, <3>1, <3>2 DEF RowClaim
    <2> QED
      BY <2>4, <2>5, <2>6 DEF Claim
  <1>7. CASE Commit(r) \/ Rollback(r)
    <2>1. req'[r] = Done
      BY <1>0, <1>7 DEF Commit, Rollback, TypeOK
    <2> QED
      BY <2>1 DEF Done, Idle, Claim, Progress, KeyClaim, HasToggled, RowClaim, InTx
  <1> QED
    BY <1>2, <1>3, <1>4, <1>5, <1>6, <1>7 DEF Step

LEMMA NextClaims == IInv /\ [Next]_vars => Claims'
  <1> SUFFICES ASSUME IInv, [Next]_vars, NEW s \in Requests PROVE Claim(s)'
    BY DEF Claims, Claim
  <1>0. TypeOK /\ Claims /\ TablesAreFinite /\ Claim(s)
    BY DEF IInv, Claims, Claim
  <1>1. ASSUME UNCHANGED <<members, counter, rowLock, keyLock>>, SameTransaction(s)
        PROVE  Claim(s)'
    BY <1>0, <1>1, ClaimKept DEF Claim, KeyClaim, RowClaim, IsMember
  <1>2. ASSUME NEW r \in Requests, NEW kind \in Kinds, NEW u \in Users, NEW p \in Posts,
               NEW parent \in Requests \cup {None}, Begin(r, kind, u, p, parent)
        PROVE  Claim(s)'
    <2>1. /\ UNCHANGED <<tables, rowLock, keyLock>>
          /\ s # r => SameTransaction(s)
          /\ req'[r] = Done \/ req'[r] = Begun(r, kind, u, p, parent)
      BY <1>0, <1>2, BeginEffect
    <2>2. CASE s = r
      BY <2>1, <2>2
         DEF Begun, Done, Idle, Claim, Progress, KeyClaim, HasToggled, RowClaim, InTx
    <2> QED
      BY <1>1, <2>1, <2>2 DEF tables
  <1>3. ASSUME NEW r \in Requests, Step(r) \/ Rollback(r) PROVE Claim(s)'
    BY <1>0, <1>3, ClaimsOfOthers, ClaimOfOwn
  <1>4. ASSUME NEW p \in Posts, StateChanges(p) PROVE Claim(s)'
    BY <1>1, <1>4, SameRequest DEF StateChanges
  <1>5. CASE UNCHANGED vars
    BY <1>1, <1>5, SameRequest DEF vars, tables
  <1> QED
    BY <1>2, <1>3, <1>4, <1>5 DEF Next

-----------------------------------------------------------------------------
(* Tables and counts.                                                      *)

(* The comments on a post, and those of a user among them.                 *)
On(cs, p) == {c \in cs : c.post = p}
By(cs, p, u) == {c \in cs : c.post = p /\ c.user = u}

LEMMA OneMoreComment ==
    ASSUME NEW cs, IsFiniteSet(cs), NEW c, c \notin cs, NEW p, NEW u
    PROVE  /\ Cardinality(On(cs \cup {c}, p))
                = IF c.post = p THEN Cardinality(On(cs, p)) + 1 ELSE Cardinality(On(cs, p))
           /\ Cardinality(By(cs \cup {c}, p, u))
                = IF c.post = p /\ c.user = u THEN Cardinality(By(cs, p, u)) + 1
                  ELSE Cardinality(By(cs, p, u))
  <1>1. IsFiniteSet(On(cs, p)) /\ IsFiniteSet(By(cs, p, u))
    BY FS_Subset DEF On, By
  <1>2. Cardinality(On(cs \cup {c}, p))
          = IF c.post = p THEN Cardinality(On(cs, p)) + 1 ELSE Cardinality(On(cs, p))
    <2>1. CASE c.post = p
      <3>1. On(cs \cup {c}, p) = On(cs, p) \cup {c} /\ c \notin On(cs, p)
        BY <2>1 DEF On
      <3> QED
        BY <1>1, <2>1, <3>1, FS_AddElement
    <2>2. CASE c.post # p
      <3>1. On(cs \cup {c}, p) = On(cs, p)
        BY <2>2 DEF On
      <3> QED
        BY <2>2, <3>1
    <2> QED
      BY <2>1, <2>2
  <1>3. Cardinality(By(cs \cup {c}, p, u))
          = IF c.post = p /\ c.user = u THEN Cardinality(By(cs, p, u)) + 1
            ELSE Cardinality(By(cs, p, u))
    <2>1. CASE c.post = p /\ c.user = u
      <3>1. By(cs \cup {c}, p, u) = By(cs, p, u) \cup {c} /\ c \notin By(cs, p, u)
        BY <2>1 DEF By
      <3>2. Cardinality(By(cs, p, u) \cup {c}) = Cardinality(By(cs, p, u)) + 1
        BY <1>1, <3>1, FS_AddElement
      <3> QED
        BY <2>1, <3>1, <3>2
    <2>2. CASE ~(c.post = p /\ c.user = u)
      <3>1. By(cs \cup {c}, p, u) = By(cs, p, u)
        BY <2>2 DEF By
      <3> QED
        BY <2>2, <3>1
    <2> QED
      BY <2>1, <2>2
  <1> QED
    BY <1>2, <1>3

CountsExact ==
    /\ \A p \in Posts : counter["comments"][p] = Cardinality(On(comments, p))
    /\ \A p \in Posts, u \in Users :
          /\ notices["COMMENT"][p][u] =
                 IF u = Author[p] THEN 0 ELSE Cardinality(By(comments, p, u))
          /\ u \in members["post_likes"][p] /\ u # Author[p] => notices["LIKE"][p][u] > 0

LEMMA CountsByComments == CommentCountExact /\ AuthorIsNotified <=> CountsExact
  BY DEF CommentCountExact, AuthorIsNotified, CountsExact, On, By

(* A commit's comment is new, its counter was bumped from the count before *)
(* it, and its notification goes with what it has inserted.                *)
LEMMA CommitCounts ==
    ASSUME IInv, NEW r \in Requests, Commit(r)
    PROVE  /\ TablesAreFinite' /\ CommentsOfTheDone'
           /\ CountsExact'
  <1>0. /\ TypeOK /\ Progress(r) /\ KeyClaim(r) /\ RowClaim(r) /\ req[r].pc = "commit"
        /\ TablesAreFinite /\ CommentsOfTheDone /\ CountsExact
    BY CountsByComments DEF IInv, Claims, Commit
  <1>1. /\ req[r].kind \in Kinds /\ req[r].post \in Posts /\ req[r].user \in Users
        /\ req[r].kind = CommentKind => /\ req[r].wrote /\ req[r].value # None
                                        /\ Table(r) = "comments" /\ "comments" \in Counters
        /\ req[r].kind # CommentKind => req[r].kind \in Toggles /\ Table(r) \in Tables
    BY <1>0, KindFacts DEF Progress, InTx, Table, Counters
  <1>2. /\ \A s \in Requests \ {r} : req'[s] = req[s]
        /\ req'[r].pc = "done"
    BY <1>0, OthersKept DEF Commit, Step, Done, Idle, TypeOK
  <1>3. MembersAfter(r)
    BY <1>0, Committed
  <1>4. CounterAfter(r)
    BY <1>0, Committed
  <1>5. NoticesAfter(r)
    BY <1>0, Committed
  <1> DEFINE c == [id |-> r, post |-> req[r].post, user |-> req[r].user, parent |-> req[r].parent]
  <1>6. /\ comments' = IF req[r].kind = CommentKind THEN comments \cup {c} ELSE comments
        /\ c \notin comments
    BY <1>0 DEF Commit, CommentsOfTheDone
  <1>7. TablesAreFinite'
    <2>1. ASSUME NEW t \in Tables, NEW p \in Posts PROVE IsFiniteSet(members'[t][p])
      <3>1. IsFiniteSet(members[t][p])
        BY <1>0 DEF TablesAreFinite
      <3>2. /\ IsFiniteSet(members[t][p] \cup {req[r].user})
            /\ IsFiniteSet(members[t][p] \ {req[r].user})
        BY <3>1, FS_AddElement, FS_RemoveElement
      <3> QED
        BY <1>3, <3>1, <3>2 DEF MembersAfter
    <2>2. IsFiniteSet(comments')
      BY <1>0, <1>6, FS_AddElement DEF TablesAreFinite
    <2> QED
      BY <2>1, <2>2 DEF TablesAreFinite
  <1>8. CommentsOfTheDone'
    <2>1. \A d \in comments : d.id \in Requests /\ req[d.id].pc = "done"
      BY <1>0 DEF CommentsOfTheDone, TypeOK, Comment
    <2> QED
      BY <1>0, <1>2, <1>6, <2>1 DEF CommentsOfTheDone
  <1>9. CountsExact'
    <2>1. ASSUME NEW p \in Posts, NEW u \in Users
          PROVE  /\ counter'["comments"][p] = Cardinality(On(comments', p))
                 /\ notices'["COMMENT"][p][u] =
                        IF u = Author[p] THEN 0 ELSE Cardinality(By(comments', p, u))
      <3>1. /\ counter["comments"][p] = Cardinality(On(comments, p))
            /\ notices["COMMENT"][p][u] =
                   IF u = Author[p] THEN 0 ELSE Cardinality(By(comments, p, u))
        BY <1>0 DEF CountsExact
      <3>2. CASE req[r].kind = CommentKind
        <4>1. comments' = comments \cup {c} /\ IsFiniteSet(comments)
          BY <1>0, <1>6, <3>2 DEF TablesAreFinite
        <4>2. /\ Cardinality(On(comments', p)) = IF req[r].post = p THEN Cardinality(On(comments, p)) + 1
                                                 ELSE Cardinality(On(comments, p))
              /\ Cardinality(By(comments', p, u))
                   = IF req[r].post = p /\ req[r].user = u THEN Cardinality(By(comments, p, u)) + 1
                     ELSE Cardinality(By(comments, p, u))
          BY <1>6, <4>1, OneMoreComment
        <4>3. req[r].value = counter["comments"][req[r].post] + 1
          BY <1>0, <1>1, <3>2 DEF RowClaim, NewValue
        <4>4. "COMMENT" \in Notified(r) <=> req[r].user # Author[req[r].post]
          BY <1>1, <3>2, WhoIsNotified
        <4> QED
          BY <1>1, <1>4, <1>5, <3>1, <3>2, <4>2, <4>3, <4>4 DEF CounterAfter, NoticesAfter
      <3>3. CASE req[r].kind # CommentKind
        <4>1. "COMMENT" \notin Notified(r)
          BY <1>1, <3>3, WhoIsNotified
        <4>2. Table(r) # "comments" /\ "comments" \in Counters
          BY <1>1, <3>3 DEF Tables, Counters
        <4> QED
          BY <1>4, <1>5, <1>6, <3>1, <3>3, <4>1, <4>2 DEF CounterAfter, NoticesAfter
      <3> QED
        BY <3>2, <3>3
    <2>2. ASSUME NEW p \in Posts, NEW u \in Users, u \in members'["post_likes"][p], u # Author[p]
          PROVE  notices'["LIKE"][p][u] > 0
      <3>1. notices["LIKE"][p][u] \in Nat /\ "post_likes" \in Tables
        BY <1>0 DEF TypeOK, Tables
      <3>2. CASE u \in members["post_likes"][p]
        BY <1>0, <1>5, <2>2, <3>1, <3>2 DEF CountsExact, NoticesAfter
      <3>3. CASE u \notin members["post_likes"][p]
        <4>1. /\ HasToggled(r) /\ Verb(r) = "add" /\ Table(r) = "post_likes"
              /\ p = req[r].post /\ u = req[r].user
          BY <1>3, <2>2, <3>1, <3>3 DEF MembersAfter
        <4>2. req[r].kind = <<"add", "post_likes">>
          BY <4>1 DEF HasToggled, Toggles, Verb, Table
        <4>3. "LIKE" \in Notified(r)
          BY <1>1, <2>2, <4>1, <4>2, WhoIsNotified DEF HasToggled
        <4> QED
          BY <1>5, <3>1, <4>1, <4>3 DEF NoticesAfter
      <3> QED
        BY <3>2, <3>3
    <2>3. \A p \in Posts : counter'["comments"][p] = Cardinality(On(comments', p))
      BY <2>1, AuthorAssumption
    <2> QED
      BY <2>1, <2>2, <2>3 DEF CountsExact
  <1> QED
    BY <1>7, <1>8, <1>9

LEMMA NextTables ==
    IInv /\ [Next]_vars =>
        TablesAreFinite' /\ CommentsOfTheDone' /\ CommentCountExact' /\ AuthorIsNotified'
  <1> SUFFICES ASSUME IInv, [Next]_vars
               PROVE  TablesAreFinite' /\ CommentsOfTheDone' /\ CountsExact'
    BY DEF CommentCountExact, AuthorIsNotified, CountsExact, On, By
  <1>0. TypeOK /\ Claims /\ TablesAreFinite /\ CommentsOfTheDone /\ CountsExact
    BY CountsByComments DEF IInv
  <1>1. \A c \in comments : c.id \in Requests /\ req[c.id].pc = "done"
    BY <1>0 DEF CommentsOfTheDone, TypeOK, Comment
  <1>2. ASSUME UNCHANGED <<members, comments, counter, notices>>,
               \A s \in Requests : req[s].pc = "done" => req'[s].pc = "done"
        PROVE  TablesAreFinite' /\ CommentsOfTheDone' /\ CountsExact'
    BY <1>0, <1>1, <1>2 DEF TablesAreFinite, CommentsOfTheDone, CountsExact
  <1>3. ASSUME NEW r \in Requests, NEW kind \in Kinds, NEW u \in Users, NEW p \in Posts,
               NEW parent \in Requests \cup {None}, Begin(r, kind, u, p, parent)
        PROVE  TablesAreFinite' /\ CommentsOfTheDone' /\ CountsExact'
    <2>1. /\ req[r].pc = "idle" /\ UNCHANGED <<tables, rowLock, keyLock>>
          /\ \A s \in Requests \ {r} : SameTransaction(s)
      BY <1>0, <1>3, BeginEffect
    <2> QED
      BY <1>2, <2>1 DEF tables, SameTransaction
  <1>4. ASSUME NEW r \in Requests, Step(r) \/ Rollback(r)
        PROVE  TablesAreFinite' /\ CommentsOfTheDone' /\ CountsExact'
    <2>1. /\ \A s \in Requests \ {r} : req'[s] = req[s]
          /\ req[r].pc # "done"
      BY <1>0, <1>4, OthersKept
         DEF Step, InsertMember, DeleteMember, InsertComment, CountMembers, Bump, Commit, Rollback, InTx
    <2>2. CASE UNCHANGED tables
      BY <1>2, <2>1, <2>2 DEF tables
    <2>3. CASE Commit(r)
      BY <2>3, CommitCounts
    <2> QED
      BY <1>4, <2>2, <2>3 DEF Step, InsertMember, DeleteMember, InsertComment, CountMembers, Bump,
                              Rollback, tables
  <1>5. ASSUME NEW p \in Posts, StateChanges(p)
        PROVE  TablesAreFinite' /\ CommentsOfTheDone' /\ CountsExact'
    BY <1>2, <1>5 DEF StateChanges
  <1>6. CASE UNCHANGED vars
    BY <1>2, <1>6 DEF vars, tables
  <1> QED
    BY <1>3, <1>4, <1>5, <1>6 DEF Next

-----------------------------------------------------------------------------
(* Undisturbed transactions.                                               *)

Undisturbed(s) ==
    \A q \in Requests \ {s} : req[q].pc \in InTx => req[q].post # req[s].post

LEMMA ViewKept ==
    ASSUME NEW s \in Requests, LonelyView(s), SameTransaction(s),
           req'[s].alone /\ req'[s].pc \in InTx =>
               /\ Undisturbed(s)'
               /\ req[s].kind \in Toggles =>
                     /\ members'[Table(s)][req[s].post] = members[Table(s)][req[s].post]
                     /\ counter'[Table(s)][req[s].post] = counter[Table(s)][req[s].post]
    PROVE  LonelyView(s)'
  BY DEF LonelyView, Undisturbed, SameTransaction, Verb, Table, IsMember

(* Who steps was already there.                                            *)
LEMMA NobodyNew ==
    ASSUME TypeOK, NEW r \in Requests, Step(r) \/ Rollback(r)
    PROVE  /\ req[r].pc \in InTx
           /\ req'[r].pc \in InTx => req'[r].post = req[r].post
           /\ req'[r].pc \in InTx => (req'[r].alone <=> req[r].alone)
  <1>0. req[r] \in Request
    BY DEF TypeOK
  <1>1. CASE Commit(r) \/ Rollback(r)
    BY <1>1 DEF Commit, Rollback, TypeOK, Done, Idle, InTx
  <1>2. CASE InsertMember(r)
    BY <1>0, <1>2 DEF InsertMember, TypeOK, Request, InTx
  <1>3. CASE DeleteMember(r)
    <2>1. /\ req[r].pc = "write"
          /\ req'[r] = IF IsMember(r) THEN [req[r] EXCEPT !.pc = "bump", !.wrote = TRUE]
                       ELSE [req[r] EXCEPT !.pc = "commit"]
      BY <1>3 DEF DeleteMember, TypeOK
    <2>2. CASE IsMember(r)
      BY <1>0, <2>1, <2>2 DEF Request, InTx
    <2>3. CASE ~IsMember(r)
      BY <1>0, <2>1, <2>3 DEF Request, InTx
    <2> QED
      BY <2>2, <2>3
  <1>4. CASE InsertComment(r)
    BY <1>0, <1>4 DEF InsertComment, TypeOK, Request, InTx
  <1>5. CASE CountMembers(r)
    BY <1>0, <1>5 DEF CountMembers, TypeOK, Request, InTx
  <1>6. CASE Bump(r)
    BY <1>0, <1>6 DEF Bump, TypeOK, Request, InTx
  <1> QED
    BY <1>1, <1>2, <1>3, <1>4, <1>5, <1>6 DEF Step

LEMMA ViewOfOther ==
    ASSUME TypeOK, Claims, NEW r \in Requests, Step(r) \/ Rollback(r), NEW s \in Requests, s # r,
           LonelyView(s)
    PROVE  LonelyView(s)'
  <1>1. SameTransaction(s) /\ \A q \in Requests \ {r} : req'[q] = req[q]
    BY OthersKept, SameRequest
  <1> SUFFICES ASSUME req'[s].alone, req'[s].pc \in InTx
               PROVE  /\ Undisturbed(s)'
                      /\ req[s].kind \in Toggles =>
                            /\ members'[Table(s)][req[s].post] = members[Table(s)][req[s].post]
                            /\ counter'[Table(s)][req[s].post] = counter[Table(s)][req[s].post]
    BY <1>1, ViewKept
  <1>2. Undisturbed(s) /\ req[s].pc \in InTx /\ Progress(s) /\ Progress(r)
    BY <1>1 DEF LonelyView, Undisturbed, Claims, SameTransaction
  <1>3. req[r].pc \in InTx /\ (req'[r].pc \in InTx => req'[r].post = req[r].post)
    BY NobodyNew
  <1>4. Undisturbed(s)'
    BY <1>1, <1>2, <1>3 DEF Undisturbed
  <1>5. req[r].post # req[s].post /\ req[s].post \in Posts
    BY <1>2, <1>3 DEF Undisturbed, Progress
  <1>6. ASSUME req[s].kind \in Toggles
        PROVE  /\ members'[Table(s)][req[s].post] = members[Table(s)][req[s].post]
               /\ counter'[Table(s)][req[s].post] = counter[Table(s)][req[s].post]
    <2>1. CASE UNCHANGED <<members, counter>>
      BY <2>1
    <2>2. CASE Commit(r)
      <3>1. Table(s) \in Tables /\ Table(s) \in Counters
        BY <1>2, <1>6, KindFacts DEF Progress, Table
      <3>2. /\ \A t \in Tables, p \in Posts \ {req[r].post} : members'[t][p] = members[t][p]
            /\ \A c \in Counters, p \in Posts \ {req[r].post} : counter'[c][p] = counter[c][p]
        <4>1. MembersAfter(r)
          BY <1>2, <2>2, Committed
        <4>2. CounterAfter(r)
          BY <1>2, <2>2, Committed
        <4> QED
          BY <4>1, <4>2 DEF MembersAfter, CounterAfter
      <3> QED
        BY <1>5, <3>1, <3>2
    <2> QED
      BY <2>1, <2>2 DEF Step, InsertMember, DeleteMember, InsertComment, CountMembers, Bump,
                        Rollback, tables
  <1> QED
    BY <1>4, <1>6

LEMMA ViewOfOwn ==
    ASSUME TypeOK, Claims, TablesAreFinite, NEW r \in Requests, Step(r) \/ Rollback(r),
           LonelyView(r)
    PROVE  LonelyView(r)'
  <1>0. req[r] \in Request /\ Progress(r) /\ \A q \in Requests \ {r} : req'[q] = req[q]
    BY OthersKept DEF TypeOK, Claims
  <1> SUFFICES ASSUME req'[r].alone, req'[r].pc \in InTx PROVE LonelyView(r)'
    BY DEF LonelyView
  <1>1. req[r].alone /\ req[r].pc \in InTx /\ req'[r].post = req[r].post
    BY NobodyNew
  <1>2. \A q \in Requests \ {r} : req'[q].pc \in InTx => req'[q].post # req'[r].post
    BY <1>0, <1>1 DEF LonelyView
  <1>3. CASE InsertMember(r)
    <2>1. /\ req'[r] = [req[r] EXCEPT !.pc = "count", !.wrote = ~IsMember(r)]
          /\ UNCHANGED members
      BY <1>0, <1>3 DEF InsertMember, TypeOK, tables
    <2>2. /\ req'[r].pc = "count" /\ (req'[r].wrote <=> ~IsMember(r))
          /\ req'[r].kind = req[r].kind /\ req'[r].user = req[r].user
      BY <1>0, <2>1 DEF Request
    <2> QED
      BY <1>1, <1>2, <2>1, <2>2 DEF LonelyView, IsMember, Table, Verb
  <1>4. CASE DeleteMember(r) \/ InsertComment(r)
    <2>1. req[r].kind = CommentKind \/ Verb(r) = "remove"
      BY <1>4 DEF DeleteMember, InsertComment
    <2>2. req'[r].kind = req[r].kind
      <3>1. CASE DeleteMember(r)
        BY <1>0, <3>1 DEF DeleteMember, TypeOK, Request
      <3>2. CASE InsertComment(r)
        BY <1>0, <3>2 DEF InsertComment, TypeOK, Request
      <3> QED
        BY <1>4, <3>1, <3>2
    <2> QED
      BY <1>0, <1>1, <1>2, <2>1, <2>2, KindFacts DEF LonelyView, Verb, Progress
  <1>5. CASE CountMembers(r)
    <2> DEFINE seen == Cardinality(members[Table(r)][req[r].post]
                                     \cup (IF req[r].wrote THEN {req[r].user} ELSE {}))
               next == IF counter[Table(r)][req[r].post] < seen THEN "bump" ELSE "commit"
    <2>1. /\ req'[r] = [req[r] EXCEPT !.pc = next, !.seen = seen]
          /\ UNCHANGED <<members, counter>>
      BY <1>0, <1>5 DEF CountMembers, TypeOK, tables
    <2>2. /\ req'[r].pc = next /\ req'[r].seen = seen
          /\ (req'[r].wrote <=> req[r].wrote)
          /\ req'[r].kind = req[r].kind /\ req'[r].user = req[r].user
      <3> HIDE DEF seen, next
      <3> QED
        BY <1>0, <2>1 DEF Request
    <2>3. req'[r].kind \in Toggles /\ Verb(r)' = "add" /\ ~req'[r].wrote => IsMember(r)
      BY <1>1, <1>5, <2>2 DEF LonelyView, CountMembers, Verb
    <2>4. next = "commit" => seen <= counter[Table(r)][req[r].post]
      <3>1. Table(r) \in Tables /\ Table(r) \in Counters /\ req[r].post \in Posts
        BY <1>0, <1>1, <1>5, KindFacts DEF CountMembers, Progress, Table
      <3>2. IsFiniteSet(members[Table(r)][req[r].post]) /\ counter[Table(r)][req[r].post] \in Nat
        BY <3>1 DEF TablesAreFinite, TypeOK
      <3>3. seen \in Nat
        BY <3>2, CountIsNat, Zenon
      <3> HIDE DEF seen
      <3> QED
        BY <3>2, <3>3
    <2> HIDE DEF next, seen
    <2>5. /\ Table(r)' = Table(r) /\ (IsMember(r)' <=> IsMember(r))
          /\ seen = Cardinality(members'[Table(r)'][req'[r].post]
                                   \cup (IF req'[r].wrote THEN {req'[r].user} ELSE {}))
      BY <1>1, <2>1, <2>2 DEF Table, IsMember, seen
    <2> QED
      BY <1>1, <1>2, <2>1, <2>2, <2>3, <2>4, <2>5 DEF LonelyView
  <1>6. CASE Bump(r)
    <2>1. /\ req[r].pc = "bump" /\ UNCHANGED members
          /\ req'[r] = [req[r] EXCEPT !.pc = "commit", !.value = NewValue(r)]
      BY <1>0, <1>6 DEF Bump, TypeOK, tables
    <2>2. /\ req'[r].pc = "commit" /\ (req'[r].wrote <=> req[r].wrote)
          /\ req'[r].kind = req[r].kind /\ req'[r].user = req[r].user
          /\ req'[r].seen = req[r].seen /\ req'[r].value = NewValue(r)
      BY <1>0, <2>1 DEF Request
    <2>3. NewValue(r) # None
      BY <1>0, <2>1, NewValueIsNat, NoneAssumption DEF InTx
    <2> QED
      BY <1>1, <1>2, <2>1, <2>2, <2>3 DEF LonelyView, IsMember, Table, Verb
  <1>7. CASE Commit(r) \/ Rollback(r)
    <2>1. req'[r].pc = "done"
      BY <1>0, <1>7 DEF Commit, Rollback, TypeOK, Done, Idle
    <2> QED
      BY <2>1 DEF InTx
  <1> QED
    BY <1>3, <1>4, <1>5, <1>6, <1>7 DEF Step

LEMMA NextLonely == IInv /\ LonelyViews /\ [Next]_vars => LonelyViews'
  <1> SUFFICES ASSUME IInv, LonelyViews, [Next]_vars, NEW s \in Requests PROVE LonelyView(s)'
    BY DEF LonelyViews
  <1>0. TypeOK /\ Claims /\ TablesAreFinite /\ LonelyView(s)
    BY DEF IInv, LonelyViews
  <1>1. ASSUME UNCHANGED <<members, counter, req>> PROVE LonelyView(s)'
    <2>1. SameTransaction(s) /\ (req[s].alone /\ req[s].pc \in InTx => Undisturbed(s))
      BY <1>0, <1>1, SameRequest DEF LonelyView, Undisturbed
    <2>2. req'[s].alone /\ req'[s].pc \in InTx => Undisturbed(s)'
      BY <1>1, <2>1 DEF Undisturbed
    <2> QED
      BY <1>0, <1>1, <2>1, <2>2, ViewKept
  <1>2. ASSUME NEW r \in Requests, NEW kind \in Kinds, NEW u \in Users, NEW p \in Posts,
               NEW parent \in Requests \cup {None}, Begin(r, kind, u, p, parent)
        PROVE  LonelyView(s)'
    <2>1. /\ req[r].pc = "idle" /\ UNCHANGED <<tables, rowLock, keyLock>>
          /\ \/ req'[r] = Done
             \/ /\ req'[r] = Begun(r, kind, u, p, parent)
                /\ \A q \in Requests \ {r} : req'[q].alone => q \notin Overlapping(r, p)
          /\ \A q \in Requests \ {r} : SameTransaction(q)
      BY <1>0, <1>2, BeginEffect
    <2>2. CASE req'[r] = Done
      <3>1. req'[r].pc = "done" /\ ~req'[r].alone
        BY <2>2 DEF Done, Idle
      <3>2. CASE s = r
        BY <3>1, <3>2 DEF LonelyView
      <3>3. CASE s # r
        <4>1. SameTransaction(s) /\ (req'[s].alone /\ req'[s].pc \in InTx => Undisturbed(s)')
          BY <1>0, <2>1, <3>1, <3>3 DEF LonelyView, Undisturbed, SameTransaction, InTx
        <4> QED
          BY <1>0, <2>1, <4>1, ViewKept DEF tables
      <3> QED
        BY <3>2, <3>3
    <2>3. CASE /\ req'[r] = Begun(r, kind, u, p, parent)
               /\ \A q \in Requests \ {r} : req'[q].alone => q \notin Overlapping(r, p)
      <3>1. /\ req'[r].pc = "write" /\ req'[r].post = p
            /\ req'[r].alone <=> Overlapping(r, p) = {}
        BY <2>3 DEF Begun, Idle
      <3>2. CASE s = r
        <4>1. req'[r].alone => \A q \in Requests \ {r} : req'[q].pc \in InTx => req'[q].post # p
          BY <2>1, <3>1 DEF Overlapping, SameTransaction
        <4> QED
          BY <3>1, <3>2, <4>1 DEF LonelyView
      <3>3. CASE s # r
        <4>1. SameTransaction(s) /\ (req'[s].alone => s \notin Overlapping(r, p))
          BY <2>1, <2>3, <3>3
        <4>2. req'[s].alone /\ req'[s].pc \in InTx => Undisturbed(s)'
          BY <1>0, <2>1, <3>1, <3>3, <4>1 DEF LonelyView, Undisturbed, SameTransaction, Overlapping
        <4> QED
          BY <1>0, <2>1, <4>1, <4>2, ViewKept DEF tables
      <3> QED
        BY <3>2, <3>3
    <2> QED
      BY <2>1, <2>2, <2>3
  <1>3. ASSUME NEW r \in Requests, Step(r) \/ Rollback(r) PROVE LonelyView(s)'
    BY <1>0, <1>3, ViewOfOther, ViewOfOwn
  <1>4. ASSUME NEW p \in Posts, StateChanges(p) PROVE LonelyView(s)'
    BY <1>1, <1>4 DEF StateChanges
  <1>5. CASE UNCHANGED vars
    BY <1>1, <1>5 DEF vars, tables
  <1> QED
    BY <1>2, <1>3, <1>4, <1>5 DEF Next

-----------------------------------------------------------------------------
(* The theorems.                                                           *)

(* What transactions may rely on is invariant.                             *)
THEOREM Invariance == Spec => [](IInv /\ LonelyViews)
  <1>1. IInv /\ LonelyViews /\ [Next]_vars => (IInv /\ LonelyViews)'
    BY NextTypeOK, NextClaims, NextTables, NextLonely DEF IInv
  <1> QED
    BY InitIInv, <1>1, PTL DEF Spec

(* Types, and locks held only inside transactions.                         *)
THEOREM Typing == Spec => []TypeOK
  <1>1. IInv => TypeOK
    BY DEF IInv
  <1> QED
    BY Invariance, <1>1, PTL

(* However commenters, togglers and deletions interleave, comment_count is *)
(* the number of comments.                                                 *)
THEOREM CommentsAreCounted == Spec => []CommentCountExact
  <1>1. IInv => CommentCountExact
    BY DEF IInv
  <1> QED
    BY Invariance, <1>1, PTL

(* The author hears of every comment once, and of whoever likes the post.  *)
THEOREM AuthorHears == Spec => []AuthorIsNotified
  <1>1. IInv => AuthorIsNotified
    BY DEF IInv
  <1> QED
    BY Invariance, <1>1, PTL

LikeNoticeStep ==
    \A p \in Posts, u \in Users :
       notices'["LIKE"][p][u] # notices["LIKE"][p][u] =>
           u \notin members["post_likes"][p] /\ u \in members'["post_likes"][p]

(* Steps that change no table but in a commit.                             *)
LEMMA OnlyCommitsChange ==
    ASSUME TypeOK, [Next]_vars
    PROVE  UNCHANGED <<members, counter, notices>> \/ \E r \in Requests : Commit(r)
  BY DEF Next, Step, Begin, InsertMember, DeleteMember, InsertComment, CountMembers, Bump,
         Rollback, StateChanges, vars, tables

LEMMA NextLikeNotice == IInv /\ [Next]_vars => LikeNoticeStep
  <1> SUFFICES ASSUME IInv, [Next]_vars PROVE LikeNoticeStep
    OBVIOUS
  <1>0. TypeOK /\ Claims
    BY DEF IInv
  <1>1. CASE UNCHANGED <<members, counter, notices>>
    BY <1>1 DEF LikeNoticeStep
  <1>2. ASSUME NEW r \in Requests, Commit(r) PROVE LikeNoticeStep
    <2>0. Progress(r) /\ KeyClaim(r) /\ req[r].pc = "commit" /\ req[r].kind \in Kinds
      BY <1>0, <1>2 DEF Claims, Progress, Commit, InTx
    <2>1. NoticesAfter(r)
      BY <1>0, <1>2, <2>0, Committed
    <2>2. MembersAfter(r)
      BY <1>0, <1>2, <2>0, Committed
    <2>3. "LIKE" \in Notified(r) => /\ HasToggled(r) /\ Verb(r) = "add"
                                    /\ Table(r) = "post_likes" /\ ~IsMember(r)
      <3>1. "LIKE" \in Notified(r) => req[r].kind = <<"add", "post_likes">> /\ req[r].wrote
        BY <2>0, WhoIsNotified
      <3> QED
        BY <2>0, <3>1 DEF HasToggled, KeyClaim, Toggles, Tables, Verb, Table, InTx
    <2> QED
      BY <2>1, <2>2, <2>3 DEF LikeNoticeStep, IsMember, Tables, NoticesAfter, MembersAfter
  <1> QED
    BY <1>0, <1>1, <1>2, OnlyCommitsChange

(* Liking again tells nobody: a LIKE notification is written with a new    *)
(* row of post_likes only.                                                 *)
THEOREM NoticeWithTheLike == Spec => NoticeOnlyForNewLike
  <1>1. IInv /\ [Next]_vars => [LikeNoticeStep]_vars
    BY NextLikeNotice
  <1> QED
    BY Invariance, <1>1, PTL DEF Spec, NoticeOnlyForNewLike, LikeNoticeStep

SerialStep ==
    \A t \in Tables, p \in Posts :
       (\E r \in Requests :
           /\ req[r].pc = "commit" /\ req'[r].pc = "done" /\ req[r].alone
           /\ req[r].post = p /\ counter[t][p] = Cardinality(members[t][p]))
       => counter'[t][p] = Cardinality(members'[t][p])

(* What a toggle that nobody overlaps leaves behind.                       *)
LEMMA SerialCommit ==
    ASSUME IInv, LonelyViews, NEW r \in Requests, Commit(r), req[r].alone,
           NEW t \in Tables, counter[t][req[r].post] = Cardinality(members[t][req[r].post])
    PROVE  counter'[t][req[r].post] = Cardinality(members'[t][req[r].post])
  <1> DEFINE p == req[r].post
             u == req[r].user
             here == members[t][p]
  <1>0. /\ TypeOK /\ Progress(r) /\ KeyClaim(r) /\ RowClaim(r) /\ LonelyView(r)
        /\ req[r].pc = "commit" /\ req[r].pc \in InTx
        /\ req[r].kind \in Kinds /\ p \in Posts /\ t \in Counters
    BY DEF IInv, Claims, LonelyViews, Commit, Progress, InTx, Counters
  <1>1. members'[t][p] = IF HasToggled(r) /\ t = Table(r)
                         THEN IF Verb(r) = "add" THEN here \cup {u} ELSE here \ {u}
                         ELSE here
    <2>1. \A q \in Posts :
             members'[t][q] =
                IF HasToggled(r) /\ t = Table(r) /\ q = p
                THEN IF Verb(r) = "add" THEN members[t][q] \cup {u} ELSE members[t][q] \ {u}
                ELSE members[t][q]
      BY <1>0, Committed DEF MembersAfter
    <2> QED
      BY <1>0, <2>1
  <1>2. counter'[t][p] = IF req[r].value # None /\ t = Table(r) THEN req[r].value ELSE counter[t][p]
    BY <1>0, Committed DEF CounterAfter
  <1>3. IsFiniteSet(here) /\ Cardinality(here) \in Nat
    BY <1>0, FS_CardinalityType DEF IInv, TablesAreFinite
  <1>4. CASE t # Table(r)
    BY <1>1, <1>2, <1>4
  <1>5. CASE t = Table(r)
    <2>1. req[r].kind \in Toggles /\ req[r].kind # CommentKind
      BY <1>0, <1>5, KindFacts DEF Table
    <2>2. req[r].kind[1] \in {"add", "remove"}
      BY <1>0, KindFacts
    <2>3. CASE Verb(r) = "remove"
      <3>1. CASE req[r].wrote
        <4>1. u \in here /\ HasToggled(r)
          BY <1>0, <1>5, <2>1, <2>3, <3>1 DEF KeyClaim, HasToggled, IsMember
        <4>2. Cardinality(here \ {u}) = Cardinality(here) - 1
          <5> HIDE DEF here, u
          <5> QED
            BY <1>3, <4>1, FS_RemoveElement
        <4>3. Cardinality(here \ {u}) \in Nat
          BY <1>3, FS_RemoveElement, FS_CardinalityType
        <4>4. req[r].value # None /\ req[r].value = NewValue(r)
          BY <1>0, <2>3, <3>1 DEF Progress, RowClaim
        <4>5. req[r].value = Cardinality(here) - 1
          BY <1>3, <1>5, <2>1, <2>3, <4>2, <4>3, <4>4 DEF NewValue
        <4> QED
          BY <1>1, <1>2, <1>5, <2>3, <4>1, <4>2, <4>4, <4>5
      <3>2. CASE ~req[r].wrote
        BY <1>0, <1>1, <1>2, <2>3, <3>2 DEF Progress, HasToggled
      <3> QED
        BY <3>1, <3>2
    <2>4. CASE Verb(r) = "add"
      <3>1. /\ ~req[r].wrote => IsMember(r)
            /\ req[r].seen = Cardinality(here \cup (IF req[r].wrote THEN {u} ELSE {}))
            /\ req[r].value = None => req[r].seen <= counter[t][p]
        BY <1>0, <1>5, <2>1, <2>4 DEF LonelyView
      <3>2. req[r].value # None =>
               req[r].value = IF counter[t][p] < req[r].seen THEN counter[t][p] + 1
                              ELSE counter[t][p]
        BY <1>0, <1>5, <2>1, <2>4 DEF RowClaim, NewValue
      <3>3. CASE req[r].wrote
        <4>1. u \notin here /\ HasToggled(r)
          BY <1>0, <1>5, <2>1, <2>4, <3>3 DEF KeyClaim, HasToggled, IsMember
        <4>2. Cardinality(here \cup {u}) = Cardinality(here) + 1
          BY <1>3, <4>1, FS_AddElement
        <4>3. req[r].seen = Cardinality(here) + 1
          BY <3>1, <3>3, <4>2
        <4>4. req[r].value # None /\ req[r].value = Cardinality(here) + 1
          BY <1>3, <3>1, <3>2, <4>3
        <4> QED
          BY <1>1, <1>2, <1>5, <2>4, <4>1, <4>2, <4>4
      <3>4. CASE ~req[r].wrote
        <4>1. here \cup (IF req[r].wrote THEN {u} ELSE {}) = here
          BY <3>4
        <4>2. req[r].seen = Cardinality(here)
          BY <3>1, <4>1
        <4>3. req[r].value # None => req[r].value = Cardinality(here)
          BY <1>3, <3>2, <4>2
        <4> QED
          BY <1>1, <1>2, <3>4, <4>3 DEF HasToggled
      <3> QED
        BY <3>3, <3>4
    <2> QED
      BY <2>2, <2>3, <2>4 DEF Verb
  <1> QED
    BY <1>4, <1>5

LEMMA NextSerial == IInv /\ LonelyViews /\ [Next]_vars => SerialStep
  <1> SUFFICES ASSUME IInv, LonelyViews, [Next]_vars, NEW t \in Tables, NEW p \in Posts,
                      NEW r \in Requests, req[r].pc = "commit", req'[r].pc = "done", req[r].alone,
                      req[r].post = p, counter[t][p] = Cardinality(members[t][p])
               PROVE  counter'[t][p] = Cardinality(members'[t][p])
    BY DEF SerialStep
  <1>0. TypeOK
    BY DEF IInv
  <1>1. CASE UNCHANGED <<members, counter, notices>>
    BY <1>1
  <1>2. ASSUME NEW s \in Requests, Commit(s) PROVE counter'[t][p] = Cardinality(members'[t][p])
    <2>1. s = r
      BY <1>0, <1>2, OthersKept DEF Step
    <2> QED
      BY <1>2, <2>1, SerialCommit
  <1> QED
    BY <1>0, <1>1, <1>2, OnlyCommitsChange

(* A toggle that no transaction on the post overlaps leaves an exact       *)
(* counter exact.                                                          *)
THEOREM SerialToggles == Spec => SerialTogglesStayExact
  <1>1. IInv /\ LonelyViews /\ [Next]_vars => [SerialStep]_vars
    BY NextSerial
  <1> QED
    BY Invariance, <1>1, PTL DEF Spec, SerialTogglesStayExact, SerialStep

===============================================================================
