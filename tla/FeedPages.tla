------------------------------- MODULE FeedPages -------------------------------
(***************************************************************************)
(* A client walks the feed, or the posts of one user, page after page      *)
(* while posts are published, hidden, restored and deleted.  Pages are cut *)
(* by the key (created_at, id): created_at is the time at which the        *)
(* creating transaction began, id comes from a sequence when the row is    *)
(* inserted, and the row is seen when the transaction commits, so posts    *)
(* may appear in another order than that of their keys.  Times are         *)
(* microseconds, the unit in which the database keeps them.                *)
(***************************************************************************)
EXTENDS Integers, FiniteSets

CONSTANTS
    Posts,
    Users,
    Author,             \* Author[p] writes post p
    DefaultLimit,       \* defaultLimit of cursor.go, 20
    MaxLimit,           \* maxLimit of cursor.go, 50
    Asked,              \* values of ?limit=, None standing for no number
    MaxTime,            \* bound on the clock
    None

ASSUME FeedAuthors == Author \in [Posts -> Users]
ASSUME LimitsAssumption ==
    /\ DefaultLimit \in Nat \ {0}
    /\ MaxLimit \in Nat \ {0}
    /\ Asked \subseteq Int \cup {None}
ASSUME TableAssumption == IsFiniteSet(Posts) /\ MaxTime \in Nat \ {0}

VARIABLES
    now,                \* the database's clock
    state,              \* state[p]: how far the creation is, or the post's status
    stamp,              \* stamp[p]: posts.created_at
    id,                 \* id[p]: posts.id
    walk                \* the client's walk through the pages

vars == <<now, state, stamp, id, walk>>
rows == <<now, state, stamp, id>>

States == {"absent", "begun", "inserted", "VISIBLE", "HIDDEN", "DELETED"}

Cursor == [nanos : Nat, id : Nat]

ASSUME NoneAssumption == None \notin Cursor

(* of: whose posts, None for the feed.  shown[p]: how often p was shown.   *)
(* steady: the posts that could be seen since the first page was asked.    *)
Walk == [pc : {"idle", "walking", "done"}, of : Users \cup {None}, cursor : Cursor \cup {None},
         shown : [Posts -> Nat], steady : SUBSET Posts]

Init ==
    /\ now = 1
    /\ state = [p \in Posts |-> "absent"]
    /\ stamp = [p \in Posts |-> 0]
    /\ id = [p \in Posts |-> 0]
    /\ walk = [pc |-> "idle", of |-> None, cursor |-> None,
               shown |-> [p \in Posts |-> 0], steady |-> {}]

-----------------------------------------------------------------------------
(* Posts come, change and go.                                              *)

Tick == now < MaxTime /\ now' = now + 1 /\ UNCHANGED <<state, stamp, id, walk>>

Begin(p) ==
    /\ state[p] = "absent"
    /\ state' = [state EXCEPT ![p] = "begun"]
    /\ stamp' = [stamp EXCEPT ![p] = now]
    /\ UNCHANGED <<now, id, walk>>

(* The id follows the greatest one that can be seen.                       *)
Insert_NextSeen(p) ==
    /\ state[p] = "begun"
    /\ state' = [state EXCEPT ![p] = "inserted"]
    /\ id' = [id EXCEPT ![p] =
                 1 + Cardinality({q \in Posts : state[q] \in {"VISIBLE", "HIDDEN", "DELETED"}})]
    /\ UNCHANGED <<now, stamp, walk>>

Insert(p) ==
    /\ state[p] = "begun"
    /\ state' = [state EXCEPT ![p] = "inserted"]
    /\ id' = [id EXCEPT ![p] = 1 + Cardinality({q \in Posts : id[q] > 0})]
    /\ UNCHANGED <<now, stamp, walk>>

Commit(p) ==
    /\ state[p] = "inserted"
    /\ state' = [state EXCEPT ![p] = "VISIBLE"]
    /\ UNCHANGED <<now, stamp, id, walk>>

(* Votes, moderation and the author change the status.                     *)
Change(p, status) ==
    /\ state[p] \in {"VISIBLE", "HIDDEN"} /\ status # state[p]
    /\ state' = [state EXCEPT ![p] = status]
    /\ walk' = [walk EXCEPT !.steady = IF status = "VISIBLE" THEN @ ELSE @ \ {p}]
    /\ UNCHANGED <<now, stamp, id>>

-----------------------------------------------------------------------------
(* Pages.                                                                  *)

Key(p) == <<stamp[p], id[p]>>

(* The row comparison (created_at, id) < (.., ..).                         *)
Before(k, l) == k[1] < l[1] \/ (k[1] = l[1] /\ k[2] < l[2])

(* The cursor keeps whole milliseconds.                                    *)
EncodeCursor_Millis(k) == [nanos |-> 1000000 * (k[1] \div 1000), id |-> k[2]]

EncodeCursor(k) == [nanos |-> 1000 * k[1], id |-> k[2]]

DecodeCursor(c) == <<c.nanos \div 1000, c.id>>

ParseLimit(asked) ==
    IF asked = None THEN DefaultLimit
    ELSE IF asked <= 0 THEN DefaultLimit
    ELSE IF asked > MaxLimit THEN MaxLimit ELSE asked

Listed(of) == {p \in Posts : state[p] = "VISIBLE" /\ (of = None \/ Author[p] = of)}

(* ORDER BY created_at DESC, id DESC LIMIT n.                              *)
Newest(posts, n) ==
    {p \in posts : Cardinality({q \in posts : Before(Key(p), Key(q))}) < n}

Query(of, cursor, n) ==
    Newest({p \in Listed(of) : cursor # None => Before(Key(p), DecodeCursor(cursor))}, n)

Oldest(posts) == CHOOSE p \in posts : \A q \in posts \ {p} : Before(Key(p), Key(q))

(* One row more than the page is asked for; it only tells that there is a  *)
(* next page.                                                              *)
NextCursor(found, limit) ==
    IF Cardinality(found) > limit THEN EncodeCursor(Key(Oldest(Newest(found, limit)))) ELSE None

Show(of, cursor, steady, asked) ==
    LET limit == ParseLimit(asked)
        found == Query(of, cursor, limit + 1)
        next == NextCursor(found, limit)
    IN  walk' = [walk EXCEPT !.pc = IF next = None THEN "done" ELSE "walking",
                             !.of = of, !.cursor = next, !.steady = steady,
                             !.shown = [p \in Posts |->
                                  @[p] + IF p \in Newest(found, limit) THEN 1 ELSE 0]]

(* GET /posts and GET /users/{id}/posts without a cursor.                  *)
FirstPage(of, asked) ==
    /\ walk.pc = "idle"
    /\ Show(of, None, Listed(of), asked)
    /\ UNCHANGED rows

NextPage(asked) ==
    /\ walk.pc = "walking"
    /\ Show(walk.of, walk.cursor, walk.steady, asked)
    /\ UNCHANGED rows

Next ==
    \/ Tick
    \/ \E p \in Posts :
          \/ Begin(p) \/ Insert(p) \/ Commit(p)
          \/ \E status \in {"VISIBLE", "HIDDEN", "DELETED"} : Change(p, status)
    \/ \E asked \in Asked : (\E of \in Users \cup {None} : FirstPage(of, asked)) \/ NextPage(asked)

Spec == Init /\ [][Next]_vars

-----------------------------------------------------------------------------
(* Properties.                                                             *)

(* Every variable has its type, and two rows never have one key.           *)
TypeOK ==
    /\ now \in 1..MaxTime
    /\ state \in [Posts -> States]
    /\ stamp \in [Posts -> 0..MaxTime]
    /\ id \in [Posts -> 0..Cardinality(Posts)]
    /\ walk \in Walk
    /\ \A p, q \in Posts : p # q /\ id[p] # 0 => id[p] # id[q]

(* A post that can be seen all the time from the first page on is shown    *)
(* exactly once by the time the pages have passed its place, and at the    *)
(* latest when there is no next page; no post is shown twice, whatever is  *)
(* published, hidden, restored or deleted between the pages and although   *)
(* times repeat and posts appear late.                                     *)
PagesAreExact ==
    /\ \A p \in Posts : walk.shown[p] <= 1
    /\ \A p \in walk.steady :
          (walk.pc = "done" \/ (walk.pc = "walking" /\ ~Before(Key(p), DecodeCursor(walk.cursor))))
              => walk.shown[p] = 1

=============================================================================
