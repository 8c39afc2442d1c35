--------------------------- MODULE FeedPagesProofs ---------------------------
(***************************************************************************)
(* Proofs about FeedPages, for any posts, page sizes and questions.  That  *)
(* the pages lose and repeat nothing rests on the keys: they order the     *)
(* posts that have one, a page is an upper part of what the query matches, *)
(* and no post that was or could have been shown ever changes its key.     *)
(***************************************************************************)
EXTENDS FeedPages, FiniteSetTheorems, TLAPS

(* The posts that have drawn their id.                                     *)
Numbered == {p \in Posts : id[p] # 0}

RowsKnow ==
    /\ \A p \in Posts : id[p] = 0 <=> state[p] \in {"absent", "begun"}
    /\ \A p \in Posts : id[p] <= Cardinality(Numbered)

(* What was shown lies before the cursor in the list, hence after it in    *)
(* the order of keys, and what the client has seen all the time is listed. *)
WalkKnows ==
    /\ walk.pc = "idle" => \A p \in Posts : walk.shown[p] = 0
    /\ walk.pc = "walking" => walk.cursor \in Cursor
    /\ walk.steady \subseteq Listed(walk.of)
    /\ \A p \in Posts : walk.shown[p] # 0 =>
          /\ p \in Numbered
          /\ walk.pc = "walking" => ~Before(Key(p), DecodeCursor(walk.cursor))

IInv == TypeOK /\ RowsKnow /\ WalkKnows /\ PagesAreExact

-----------------------------------------------------------------------------
(* Keys are ordered.                                                       *)

LEMMA NoneFacts == None \notin Cursor
  BY NoneAssumption

LEMMA BeforeIsAnOrder ==
    ASSUME NEW k \in Nat \X Nat, NEW l \in Nat \X Nat, NEW m \in Nat \X Nat
    PROVE  /\ ~Before(k, k)
           /\ Before(k, l) => ~Before(l, k)
           /\ Before(k, l) /\ Before(l, m) => Before(k, m)
           /\ k[2] # l[2] => Before(k, l) \/ Before(l, k)
  <1>1. /\ k[1] \in Nat /\ k[2] \in Nat /\ l[1] \in Nat /\ l[2] \in Nat
        /\ m[1] \in Nat /\ m[2] \in Nat
    OBVIOUS
  <1> QED
    BY <1>1 DEF Before

LEMMA KeyFacts ==
    ASSUME TypeOK, NEW p \in Posts
    PROVE  Key(p) \in Nat \X Nat /\ Key(p)[1] = stamp[p] /\ Key(p)[2] = id[p]
  <1>1. stamp[p] \in Nat
    BY TableAssumption DEF TypeOK
  <1>2. id[p] \in Nat
    <2>1. Cardinality(Posts) \in Nat
      BY TableAssumption, FS_CardinalityType
    <2> QED
      BY <2>1 DEF TypeOK
  <1> QED
    BY <1>1, <1>2 DEF Key

LEMMA CursorFacts ==
    /\ \A c \in Cursor : DecodeCursor(c) \in Nat \X Nat
    /\ \A k \in Nat \X Nat : EncodeCursor(k) \in Cursor /\ DecodeCursor(EncodeCursor(k)) = k
  <1>1. ASSUME NEW c \in Cursor
        PROVE  DecodeCursor(c) \in Nat \X Nat
    <2>1. c.nanos \in Nat /\ c.id \in Nat
      BY DEF Cursor
    <2>2. c.nanos \div 1000 \in Nat
      BY <2>1
    <2> QED
      BY <2>1, <2>2 DEF DecodeCursor
  <1>2. ASSUME NEW k \in Nat \X Nat
        PROVE  EncodeCursor(k) \in Cursor /\ DecodeCursor(EncodeCursor(k)) = k
    <2>1. k[1] \in Nat /\ k[2] \in Nat /\ k = <<k[1], k[2]>>
      OBVIOUS
    <2>2. 1000 * k[1] \in Nat /\ (1000 * k[1]) \div 1000 = k[1]
      BY <2>1
    <2>3. EncodeCursor(k).nanos = 1000 * k[1] /\ EncodeCursor(k).id = k[2]
      BY DEF EncodeCursor
    <2> QED
      BY <2>1, <2>2, <2>3 DEF EncodeCursor, DecodeCursor, Cursor
  <1> QED
    BY <1>1, <1>2

LEMMA LimitFacts ==
    ASSUME NEW asked \in Asked
    PROVE  ParseLimit(asked) \in Nat \ {0}
  BY LimitsAssumption DEF ParseLimit

LEMMA PostsAreFinite ==
    ASSUME NEW S \in SUBSET Posts
    PROVE  IsFiniteSet(S) /\ Cardinality(S) \in Nat
  BY TableAssumption, FS_Subset, FS_CardinalityType

-----------------------------------------------------------------------------
(* Pages of a set of posts.                                                *)

Above(S, p) == {q \in S : Before(Key(p), Key(q))}

LEMMA NewestIsAbove ==
    ASSUME NEW S, NEW n
    PROVE  Newest(S, n) = {p \in S : Cardinality(Above(S, p)) < n}
  BY DEF Newest, Above

(* A family of finite sets has a member that contains no other.            *)
LEMMA SmallestMember ==
    ASSUME NEW S, IsFiniteSet(S), NEW F \in SUBSET (SUBSET S), F # {}
    PROVE  \E X \in F : \A Y \in F : Y \subseteq X => Y = X
  <1>1. F \subseteq FiniteSubsetsOf(S)
    BY FS_Subset DEF FiniteSubsetsOf
  <1>2. \E X \in F : \A Y \in F : ~(<<Y, X>> \in StrictSubsetOrdering(S))
    <2>1. IsWellFoundedOn(StrictSubsetOrdering(S), FiniteSubsetsOf(S))
      BY FS_StrictSubsetOrderingWellFounded
    <2> QED
      BY <1>1, <2>1, WFMin
  <1> QED
    BY <1>2 DEF StrictSubsetOrdering

(* Whatever is above a post has less above it.                             *)
LEMMA AboveShrinks ==
    ASSUME TypeOK, NEW S \in SUBSET Posts, NEW p \in Posts, NEW q \in Above(S, p)
    PROVE  /\ Above(S, q) \subseteq Above(S, p) /\ q \notin Above(S, q)
           /\ Cardinality(Above(S, q)) < Cardinality(Above(S, p))
  <1>1. q \in Posts /\ Before(Key(p), Key(q))
    BY DEF Above
  <1>2. ~Before(Key(q), Key(q))
    BY <1>1, KeyFacts, BeforeIsAnOrder
  <1>3. \A x \in Above(S, q) : Before(Key(p), Key(x))
    BY <1>1, KeyFacts, BeforeIsAnOrder DEF Above
  <1>4. Above(S, q) \subseteq Above(S, p) /\ q \notin Above(S, q)
    BY <1>2, <1>3 DEF Above
  <1>5. Above(S, p) \in SUBSET Posts /\ Above(S, q) \in SUBSET Posts
    BY DEF Above
  <1> DEFINE P == Above(S, p)
             Q == Above(S, q)
  <1>6. Q \subseteq P /\ q \in P /\ q \notin Q
    BY <1>4
  <1>7. IsFiniteSet(P) /\ Cardinality(P) \in Nat /\ Cardinality(Q) \in Nat
    BY <1>5, PostsAreFinite
  <1> HIDE DEF P, Q
  <1>8. Cardinality(Q) <= Cardinality(P) /\ Cardinality(Q) # Cardinality(P)
    BY <1>6, <1>7, FS_Subset
  <1>9. Cardinality(Q) < Cardinality(P)
    BY <1>7, <1>8
  <1> QED
    BY <1>4, <1>9 DEF P, Q

(* A page that leaves something out is full.                               *)
LEMMA PageIsFull ==
    ASSUME TypeOK, NEW S \in SUBSET Posts, NEW n \in Nat, Newest(S, n) # S
    PROVE  Cardinality(Newest(S, n)) >= n
  <1> DEFINE page == Newest(S, n)
             F == {Above(S, p) : p \in S \ page}
  <1>1. page \subseteq S /\ S \ page # {}
    BY DEF Newest
  <1>2. F \in SUBSET (SUBSET Posts) /\ F # {}
    BY <1>1 DEF Above
  <1>3. PICK X \in F : \A Y \in F : Y \subseteq X => Y = X
    <2> HIDE DEF F
    <2> QED
      BY <1>2, TableAssumption, SmallestMember
  <1>4. PICK p \in S \ page : X = Above(S, p)
    BY <1>3
  <1>5. p \in Posts /\ ~(Cardinality(Above(S, p)) < n)
    BY <1>4, NewestIsAbove
  <1>6. Above(S, p) \subseteq page
    <2> SUFFICES ASSUME NEW q \in Above(S, p), q \notin page
                 PROVE  FALSE
      OBVIOUS
    <2>1. q \in S \ page
      BY DEF Above
    <2>2. Above(S, q) \in F
      BY <2>1
    <2>3. Above(S, q) \subseteq Above(S, p) /\ q \notin Above(S, q)
      BY <1>5, AboveShrinks
    <2>4. Above(S, q) = Above(S, p)
      BY <1>3, <1>4, <2>2, <2>3
    <2> QED
      BY <2>3, <2>4
  <1>7. page \in SUBSET Posts
    BY <1>1
  <1>8. Above(S, p) \in SUBSET Posts
    BY DEF Above
  <1>9. /\ IsFiniteSet(page) /\ Cardinality(page) \in Nat
        /\ Cardinality(Above(S, p)) \in Nat
    BY <1>7, <1>8, PostsAreFinite
  <1> HIDE DEF page, F
  <1>10. Cardinality(Above(S, p)) <= Cardinality(page)
    BY <1>6, <1>9, FS_Subset
  <1> QED
    BY <1>5, <1>9, <1>10 DEF page

(* A set that fits into a page is the page.                                *)
LEMMA SmallSetIsThePage ==
    ASSUME TypeOK, NEW S \in SUBSET Posts, NEW n \in Nat, Cardinality(S) <= n
    PROVE  Newest(S, n) = S
  <1> SUFFICES ASSUME NEW p \in S
               PROVE  Cardinality(Above(S, p)) < n
    BY NewestIsAbove
  <1> DEFINE P == Above(S, p)
  <1>1. P \subseteq S /\ p \notin P
    BY KeyFacts, BeforeIsAnOrder DEF Above
  <1>2. IsFiniteSet(S) /\ Cardinality(S) \in Nat
    BY PostsAreFinite
  <1>3. Cardinality(P) \in Nat
    BY <1>1, PostsAreFinite
  <1> HIDE DEF P
  <1>4. Cardinality(P) <= Cardinality(S) /\ Cardinality(P) # Cardinality(S)
    BY <1>1, <1>2, FS_Subset
  <1> QED
    BY <1>2, <1>3, <1>4 DEF P

(* The oldest post of a page is there: the keys of numbered posts differ.  *)
LEMMA OldestIsThere ==
    ASSUME TypeOK, NEW S \in SUBSET Numbered, S # {}
    PROVE  /\ Oldest(S) \in S
           /\ \A p \in S \ {Oldest(S)} : Before(Key(Oldest(S)), Key(p))
  <1> DEFINE Below(p) == {q \in S : Before(Key(q), Key(p))}
             F == {Below(p) : p \in S}
  <1>1. S \subseteq Posts /\ \A p \in S : id[p] # 0
    BY DEF Numbered
  <1>2. F \in SUBSET (SUBSET Posts) /\ F # {}
    BY <1>1
  <1>3. PICK X \in F : \A Y \in F : Y \subseteq X => Y = X
    <2> HIDE DEF F
    <2> QED
      BY <1>2, TableAssumption, SmallestMember
  <1>4. PICK p \in S : X = Below(p)
    BY <1>3
  <1>5. Below(p) = {}
    <2> SUFFICES ASSUME NEW q \in Below(p)
                 PROVE  FALSE
      OBVIOUS
    <2>1. q \in S /\ Before(Key(q), Key(p))
      OBVIOUS
    <2>2. \A x \in S : Before(Key(x), Key(q)) => Before(Key(x), Key(p))
      BY <1>1, <2>1, KeyFacts, BeforeIsAnOrder
    <2>3. ~Before(Key(q), Key(q))
      BY <1>1, <2>1, KeyFacts, BeforeIsAnOrder
    <2>4. Below(q) \subseteq Below(p) /\ q \notin Below(q) /\ Below(q) \in F
      BY <2>1, <2>2, <2>3
    <2>5. Below(q) = Below(p)
      BY <1>3, <1>4, <2>4
    <2> QED
      BY <2>4, <2>5
  <1>6. \A q \in S \ {p} : Before(Key(p), Key(q))
    <2> SUFFICES ASSUME NEW q \in S, q # p
                 PROVE  Before(Key(p), Key(q))
      OBVIOUS
    <2>1. id[q] # id[p]
      BY <1>1 DEF TypeOK
    <2>2. Before(Key(p), Key(q)) \/ Before(Key(q), Key(p))
      BY <1>1, <2>1, KeyFacts, BeforeIsAnOrder
    <2> QED
      BY <1>5, <2>2
  <1> HIDE DEF F, Below
  <1> QED
    BY <1>6 DEF Oldest

(* The page of the query: all that it matches, or the part of it that is   *)
(* not before the oldest post on the page.                                 *)
LEMMA PageFacts ==
    ASSUME TypeOK, NEW S \in SUBSET Numbered, NEW n \in Nat \ {0}
    PROVE  LET found == Newest(S, n + 1)
               page == Newest(found, n)
               last == Oldest(page)
           IN  /\ page \subseteq S
               /\ Cardinality(found) <= n => page = S
               /\ Cardinality(found) > n =>
                     /\ last \in page
                     /\ \A p \in page : ~Before(Key(p), Key(last))
                     /\ \A p \in S : ~Before(Key(p), Key(last)) => p \in page
  <1> DEFINE found == Newest(S, n + 1)
             page == Newest(found, n)
             last == Oldest(page)
  <1>1. S \in SUBSET Posts /\ found \subseteq S /\ page \subseteq found
    BY DEF Numbered, Newest
  <1>2. Cardinality(found) \in Nat
    BY <1>1, PostsAreFinite
  <1>3. ASSUME Cardinality(found) <= n
        PROVE  page = S
    <2>1. found = S
      <3>1. found # S => Cardinality(found) >= n + 1
        BY <1>1, PageIsFull
      <3> HIDE DEF found
      <3> QED
        BY <1>2, <1>3, <3>1
    <2> QED
      BY <1>1, <1>3, <2>1, SmallSetIsThePage
  <1>4. ASSUME Cardinality(found) > n
        PROVE  /\ last \in page
               /\ \A p \in page : ~Before(Key(p), Key(last))
               /\ \A p \in S : ~Before(Key(p), Key(last)) => p \in page
    <2>1. page # {}
      <3>1. page # found => Cardinality(page) >= n
        BY <1>1, PageIsFull
      <3>2. Cardinality({}) = 0
        BY FS_EmptySet
      <3> HIDE DEF page, found
      <3> QED
        BY <1>2, <1>4, <3>1, <3>2
    <2>2. /\ last \in page
          /\ \A p \in page \ {last} : Before(Key(last), Key(p))
      BY <1>1, <2>1, OldestIsThere
    <2>3. \A p \in page : ~Before(Key(p), Key(last))
      BY <1>1, <2>2, KeyFacts, BeforeIsAnOrder
    <2>4. ASSUME NEW p \in S, ~Before(Key(p), Key(last)), p \notin page
          PROVE  FALSE
      <3>1. p \in Posts /\ last \in Posts /\ p # last /\ id[p] # 0 /\ last \in found
        BY <1>1, <2>2, <2>4 DEF Numbered
      <3>2. id[p] # id[last]
        BY <3>1 DEF TypeOK
      <3>3. Before(Key(last), Key(p))
        BY <2>4, <3>1, <3>2, KeyFacts, BeforeIsAnOrder
      <3>4. p \in Above(S, last)
        BY <3>3 DEF Above
      <3>5. Cardinality(Above(S, p)) < Cardinality(Above(S, last))
        BY <1>1, <3>1, <3>4, AboveShrinks
      <3>6. Cardinality(Above(S, last)) < n + 1
        BY <3>1, NewestIsAbove
      <3>7. Cardinality(Above(S, p)) \in Nat /\ Cardinality(Above(S, last)) \in Nat
        <4>1. Above(S, p) \in SUBSET Posts /\ Above(S, last) \in SUBSET Posts
          BY <1>1 DEF Above
        <4> QED
          BY <4>1, PostsAreFinite
      <3>8. p \in found
        <4>1. Cardinality(Above(S, p)) < n + 1
          BY <3>5, <3>6, <3>7
        <4> QED
          BY <4>1, NewestIsAbove
      <3>9. p \in Above(found, last)
        BY <3>3, <3>8 DEF Above
      <3>10. Cardinality(Above(found, p)) < Cardinality(Above(found, last))
        BY <1>1, <3>1, <3>9, AboveShrinks
      <3>11. Cardinality(Above(found, last)) < n
        BY <2>2, NewestIsAbove
      <3>12. Cardinality(Above(found, p)) \in Nat /\ Cardinality(Above(found, last)) \in Nat
        <4>1. Above(found, p) \in SUBSET Posts /\ Above(found, last) \in SUBSET Posts
          BY <1>1 DEF Above
        <4> QED
          BY <4>1, PostsAreFinite
      <3>13. Cardinality(Above(found, p)) < n
        BY <3>10, <3>11, <3>12
      <3>14. p \in page
        BY <3>8, <3>13, NewestIsAbove
      <3> QED
        BY <2>4, <3>14
    <2> QED
      BY <2>2, <2>3, <2>4
  <1> HIDE DEF found, page, last
  <1> QED
    BY <1>1, <1>3, <1>4 DEF found, page, last
-----------------------------------------------------------------------------
(* Steps of the posts.                                                     *)

(* A step that leaves the keys that are drawn and the walk alone, except   *)
(* that a post can no longer be seen, keeps what the walk knows.           *)
LEMMA RowStepKeepsWalk ==
    ASSUME IInv, walk'.pc = walk.pc, walk'.of = walk.of, walk'.cursor = walk.cursor,
           walk'.shown = walk.shown, walk'.steady \subseteq walk.steady,
           \A p \in Numbered : stamp'[p] = stamp[p] /\ id'[p] = id[p],
           \A p \in walk'.steady : state'[p] = "VISIBLE"
    PROVE  WalkKnows' /\ PagesAreExact'
  <1>1. TypeOK /\ RowsKnow /\ WalkKnows /\ PagesAreExact
    BY DEF IInv
  <1>2. \A p \in Numbered : Key(p)' = Key(p) /\ p \in Numbered'
    BY DEF Key, Numbered
  <1>3. walk.steady \subseteq Numbered
    BY <1>1 DEF WalkKnows, Listed, Numbered, RowsKnow
  <1>4. walk'.steady \subseteq Listed(walk.of)'
    BY <1>1 DEF WalkKnows, Listed
  <1>5. WalkKnows'
    <2>1. ASSUME NEW p \in Posts, walk.shown[p] # 0
          PROVE  /\ p \in Numbered'
                 /\ walk.pc = "walking" => ~Before(Key(p)', DecodeCursor(walk.cursor))
      BY <1>1, <1>2, <2>1 DEF WalkKnows
    <2>2. DecodeCursor(walk.cursor)' = DecodeCursor(walk.cursor)
      BY DEF DecodeCursor
    <2>3. \A p \in Posts : Before(Key(p), DecodeCursor(walk.cursor))' <=>
                           Before(Key(p)', DecodeCursor(walk.cursor))
      BY <2>2 DEF Before
    <2>4. /\ walk.pc = "idle" => \A p \in Posts : walk.shown[p] = 0
          /\ walk.pc = "walking" => walk.cursor \in Cursor
      BY <1>1 DEF WalkKnows
    <2> QED
      BY <1>4, <2>1, <2>3, <2>4 DEF WalkKnows
  <1>6. PagesAreExact'
    <2>1. \A p \in Posts : walk'.shown[p] <= 1
      BY <1>1 DEF PagesAreExact
    <2>2. ASSUME NEW p \in walk'.steady,
                 \/ walk'.pc = "done"
                 \/ walk'.pc = "walking" /\ ~Before(Key(p), DecodeCursor(walk.cursor))'
          PROVE  walk'.shown[p] = 1
      <3>1. p \in walk.steady /\ Key(p)' = Key(p)
        BY <1>2, <1>3
      <3>2. Before(Key(p), DecodeCursor(walk.cursor))' <=> Before(Key(p), DecodeCursor(walk.cursor))
        BY <3>1 DEF Before, DecodeCursor
      <3>3. walk.pc = "done" \/ (walk.pc = "walking" /\ ~Before(Key(p), DecodeCursor(walk.cursor)))
        BY <2>2, <3>2
      <3> QED
        BY <1>1, <3>1, <3>3 DEF PagesAreExact
    <2> QED
      BY <2>1, <2>2 DEF PagesAreExact
  <1> QED
    BY <1>5, <1>6

(* The hypotheses of RowStepKeepsWalk of a step that leaves the walk.      *)
LEMMA WalkIsKept ==
    ASSUME IInv, walk' = walk,
           \A p \in Numbered : stamp'[p] = stamp[p] /\ id'[p] = id[p],
           \A p \in Posts : state[p] = "VISIBLE" => state'[p] = "VISIBLE"
    PROVE  WalkKnows' /\ PagesAreExact'
  <1>1. \A p \in walk.steady : p \in Posts /\ state[p] = "VISIBLE"
    BY DEF IInv, WalkKnows, Listed
  <1> QED
    BY <1>1, RowStepKeepsWalk

LEMMA TickStep ==
    ASSUME IInv, Tick
    PROVE  IInv'
  <1>1. /\ now < MaxTime /\ now' = now + 1
        /\ state' = state /\ stamp' = stamp /\ id' = id /\ walk' = walk
    BY DEF Tick
  <1>2. TypeOK /\ RowsKnow
    BY DEF IInv
  <1>3. now' \in 1..MaxTime
    BY <1>1, <1>2, TableAssumption DEF TypeOK
  <1>4. TypeOK'
    BY <1>1, <1>2, <1>3 DEF TypeOK
  <1>5. RowsKnow'
    BY <1>1, <1>2 DEF RowsKnow, Numbered
  <1>6. WalkKnows' /\ PagesAreExact'
    BY <1>1, WalkIsKept
  <1> QED
    BY <1>4, <1>5, <1>6 DEF IInv

LEMMA BeginStep ==
    ASSUME IInv, NEW p \in Posts, Begin(p)
    PROVE  IInv'
  <1>1. /\ state[p] = "absent" /\ state' = [state EXCEPT ![p] = "begun"]
        /\ stamp' = [stamp EXCEPT ![p] = now]
        /\ now' = now /\ id' = id /\ walk' = walk
    BY DEF Begin
  <1>2. TypeOK /\ RowsKnow
    BY DEF IInv
  <1>3. now \in 0..MaxTime
    BY <1>2, TableAssumption DEF TypeOK
  <1>4. TypeOK'
    BY <1>1, <1>2, <1>3 DEF TypeOK, States
  <1>5. Numbered' = Numbered /\ p \notin Numbered
    BY <1>1, <1>2 DEF Numbered, RowsKnow
  <1>6. RowsKnow'
    BY <1>1, <1>2, <1>5 DEF RowsKnow, TypeOK
  <1>7. /\ \A q \in Numbered : stamp'[q] = stamp[q] /\ id'[q] = id[q]
        /\ \A q \in Posts : state[q] = "VISIBLE" => state'[q] = "VISIBLE"
    BY <1>1, <1>2, <1>5 DEF TypeOK, Numbered
  <1>8. WalkKnows' /\ PagesAreExact'
    BY <1>1, <1>7, WalkIsKept
  <1> QED
    BY <1>4, <1>6, <1>8 DEF IInv

LEMMA InsertStep ==
    ASSUME IInv, NEW p \in Posts, Insert(p)
    PROVE  IInv'
  <1> DEFINE n == Cardinality(Numbered)
  <1>1. TypeOK /\ RowsKnow
    BY DEF IInv
  <1>2. /\ state[p] = "begun" /\ state' = [state EXCEPT ![p] = "inserted"]
        /\ now' = now /\ stamp' = stamp /\ walk' = walk
        /\ id' = [id EXCEPT ![p] = n + 1]
    <2>1. \A q \in Posts : id[q] > 0 <=> id[q] # 0
      BY <1>1, KeyFacts
    <2>2. {q \in Posts : id[q] > 0} = Numbered
      BY <2>1 DEF Numbered
    <2>3. n \in Nat
      BY PostsAreFinite DEF Numbered
    <2>4. 1 + n = n + 1
      BY <2>3
    <2> QED
      BY <2>2, <2>4 DEF Insert
  <1>3. id[p] = 0 /\ p \notin Numbered
    BY <1>1, <1>2 DEF RowsKnow, Numbered
  <1>4. /\ IsFiniteSet(Numbered) /\ n \in Nat
        /\ Cardinality(Posts) \in Nat
    BY PostsAreFinite DEF Numbered
  <1>5. Cardinality(Numbered \cup {p}) = n + 1
    BY <1>3, <1>4, FS_AddElement
  <1>6. n + 1 <= Cardinality(Posts)
    <2>1. Numbered \cup {p} \in SUBSET Posts
      BY DEF Numbered
    <2>2. Cardinality(Numbered \cup {p}) <= Cardinality(Posts)
      BY <2>1, TableAssumption, FS_Subset
    <2> QED
      BY <1>5, <2>2
  <1> HIDE DEF n
  <1>7. n + 1 \in 0..Cardinality(Posts) /\ n + 1 # 0
    BY <1>4, <1>6 DEF n
  <1>8. /\ id' \in [Posts -> 0..Cardinality(Posts)] /\ id'[p] = n + 1
        /\ \A q \in Posts \ {p} : id'[q] = id[q]
    BY <1>1, <1>2, <1>7 DEF TypeOK
  <1>9. \A q \in Posts : id[q] <= n /\ id[q] \in Nat
    BY <1>1, KeyFacts DEF RowsKnow, n
  <1>10. \A q \in Posts \ {p} : id[q] # n + 1
    BY <1>4, <1>9 DEF n
  <1>11. \A q, x \in Posts : q # x /\ id'[q] # 0 => id'[q] # id'[x]
    BY <1>1, <1>8, <1>10 DEF TypeOK
  <1>12. TypeOK'
    BY <1>1, <1>2, <1>8, <1>11 DEF TypeOK, States
  <1>13. Numbered' = Numbered \cup {p}
    BY <1>7, <1>8 DEF Numbered
  <1>14. Cardinality(Numbered)' = n + 1
    BY <1>5, <1>13 DEF n
  <1>15. \A q \in Posts : id'[q] <= n + 1
    BY <1>4, <1>8, <1>9 DEF n
  <1>16. RowsKnow'
    <2>1. \A q \in Posts : id'[q] = 0 <=> state'[q] \in {"absent", "begun"}
      BY <1>1, <1>2, <1>7, <1>8 DEF RowsKnow, TypeOK
    <2> QED
      BY <1>14, <1>15, <2>1 DEF RowsKnow
  <1>17. /\ \A q \in Numbered : stamp'[q] = stamp[q] /\ id'[q] = id[q]
         /\ \A q \in Posts : state[q] = "VISIBLE" => state'[q] = "VISIBLE"
    BY <1>1, <1>2, <1>3, <1>8 DEF TypeOK, Numbered
  <1>18. WalkKnows' /\ PagesAreExact'
    BY <1>2, <1>17, WalkIsKept
  <1> QED
    BY <1>12, <1>16, <1>18 DEF IInv

LEMMA CommitStep ==
    ASSUME IInv, NEW p \in Posts, Commit(p)
    PROVE  IInv'
  <1>1. /\ state[p] = "inserted" /\ state' = [state EXCEPT ![p] = "VISIBLE"]
        /\ now' = now /\ stamp' = stamp /\ id' = id /\ walk' = walk
    BY DEF Commit
  <1>2. TypeOK /\ RowsKnow
    BY DEF IInv
  <1>3. TypeOK'
    BY <1>1, <1>2 DEF TypeOK, States
  <1>4. RowsKnow'
    BY <1>1, <1>2 DEF RowsKnow, Numbered, TypeOK
  <1>5. \A q \in Posts : state[q] = "VISIBLE" => state'[q] = "VISIBLE"
    BY <1>1, <1>2 DEF TypeOK
  <1>6. WalkKnows' /\ PagesAreExact'
    BY <1>1, <1>5, WalkIsKept
  <1> QED
    BY <1>3, <1>4, <1>6 DEF IInv

LEMMA ChangeStep ==
    ASSUME IInv, NEW p \in Posts, NEW status \in {"VISIBLE", "HIDDEN", "DELETED"},
           Change(p, status)
    PROVE  IInv'
  <1> DEFINE kept == IF status = "VISIBLE" THEN walk.steady ELSE walk.steady \ {p}
  <1>1. /\ state[p] \in {"VISIBLE", "HIDDEN"} /\ state' = [state EXCEPT ![p] = status]
        /\ walk' = [walk EXCEPT !.steady = kept]
        /\ now' = now /\ stamp' = stamp /\ id' = id
    BY DEF Change
  <1>2. TypeOK /\ RowsKnow /\ walk \in Walk
    BY DEF IInv, TypeOK
  <1>3. /\ kept \subseteq walk.steady /\ walk.steady \subseteq Posts
        /\ p \in kept => status = "VISIBLE"
    BY <1>2 DEF Walk
  <1> HIDE DEF kept
  <1>4. /\ walk' \in Walk /\ walk'.pc = walk.pc /\ walk'.of = walk.of
        /\ walk'.cursor = walk.cursor /\ walk'.shown = walk.shown /\ walk'.steady = kept
    BY <1>1, <1>2, <1>3 DEF Walk
  <1>5. TypeOK'
    BY <1>1, <1>2, <1>4 DEF TypeOK, States
  <1>6. RowsKnow'
    BY <1>1, <1>2 DEF RowsKnow, Numbered, TypeOK
  <1>7. \A q \in walk.steady : state[q] = "VISIBLE"
    BY DEF IInv, WalkKnows, Listed
  <1>8. \A q \in kept : state'[q] = "VISIBLE"
    BY <1>1, <1>2, <1>3, <1>7 DEF TypeOK
  <1>9. WalkKnows' /\ PagesAreExact'
    BY <1>1, <1>3, <1>4, <1>8, RowStepKeepsWalk
  <1> QED
    BY <1>5, <1>6, <1>9 DEF IInv

-----------------------------------------------------------------------------
(* Pages are shown.                                                        *)

LEMMA ShowStep ==
    ASSUME IInv, NEW of \in Users \cup {None}, NEW cursor \in Cursor \cup {None},
           NEW steady \in SUBSET Posts, NEW asked \in Asked,
           Show(of, cursor, steady, asked), UNCHANGED rows,
           steady \subseteq Listed(of),
           \A p \in Posts : walk.shown[p] # 0 =>
               cursor # None /\ ~Before(Key(p), DecodeCursor(cursor)),
           \A p \in steady : cursor # None /\ ~Before(Key(p), DecodeCursor(cursor)) =>
               walk.shown[p] = 1
    PROVE  IInv'
  <1> DEFINE limit == ParseLimit(asked)
             S == {p \in Listed(of) : cursor # None => Before(Key(p), DecodeCursor(cursor))}
             found == Newest(S, limit + 1)
             page == Newest(found, limit)
             last == Oldest(page)
             next == IF Cardinality(found) > limit THEN EncodeCursor(Key(last)) ELSE None
             pc == IF next = None THEN "done" ELSE "walking"
             shown == [p \in Posts |-> walk.shown[p] + IF p \in page THEN 1 ELSE 0]
  <1>1. walk' = [walk EXCEPT !.pc = pc, !.of = of, !.cursor = next, !.steady = steady,
                             !.shown = shown]
    BY DEF Show, Query, NextCursor
  <1>2. /\ TypeOK /\ RowsKnow /\ WalkKnows /\ PagesAreExact
        /\ walk \in Walk /\ walk.shown \in [Posts -> Nat]
    BY DEF IInv, TypeOK, Walk
  <1>3. limit \in Nat \ {0}
    BY LimitFacts
  <1>4. S \in SUBSET Numbered
    BY <1>2 DEF Listed, Numbered, RowsKnow
  <1> HIDE DEF limit, S
  <1>5. /\ page \subseteq S
        /\ Cardinality(found) <= limit => page = S
        /\ Cardinality(found) > limit =>
              /\ last \in page
              /\ \A p \in page : ~Before(Key(p), Key(last))
              /\ \A p \in S : ~Before(Key(p), Key(last)) => p \in page
    BY <1>2, <1>3, <1>4, PageFacts
  <1>6. Cardinality(found) \in Nat
    BY <1>4, PostsAreFinite DEF Newest, Numbered
  <1>7. S \subseteq Posts
    BY <1>4 DEF Numbered
  <1> HIDE DEF found, page, last
  <1>8. \/ next = None /\ pc = "done" /\ page = S
        \/ /\ pc = "walking" /\ next \in Cursor /\ DecodeCursor(next) = Key(last)
           /\ last \in page
           /\ \A p \in page : ~Before(Key(p), Key(last))
           /\ \A p \in S : ~Before(Key(p), Key(last)) => p \in page
    <2>1. CASE Cardinality(found) > limit
      <3>1. last \in Posts
        BY <1>5, <1>7, <2>1
      <3>2. Key(last) \in Nat \X Nat
        BY <1>2, <3>1, KeyFacts
      <3>3. next = EncodeCursor(Key(last))
        BY <2>1
      <3>4. next \in Cursor /\ DecodeCursor(next) = Key(last) /\ next # None
        BY <3>2, <3>3, CursorFacts, NoneFacts
      <3> QED
        BY <1>5, <2>1, <3>4
    <2>2. CASE ~(Cardinality(found) > limit)
      <3>1. Cardinality(found) <= limit
        BY <1>3, <1>6, <2>2
      <3> QED
        BY <1>5, <2>2, <3>1
    <2> QED
      BY <2>1, <2>2
  <1>9. /\ next \in Cursor \cup {None} /\ pc \in {"walking", "done"}
        /\ pc = "walking" => next # None
    BY <1>8, NoneFacts
  <1>10. /\ shown \in [Posts -> Nat]
         /\ \A p \in Posts : shown[p] = walk.shown[p] + IF p \in page THEN 1 ELSE 0
    BY <1>2
  <1> HIDE DEF next, pc, shown
  <1>11. /\ walk' \in Walk /\ walk'.pc = pc /\ walk'.of = of /\ walk'.cursor = next
         /\ walk'.steady = steady /\ walk'.shown = shown
    BY <1>1, <1>2, <1>9, <1>10 DEF Walk
  <1>12. now' = now /\ state' = state /\ stamp' = stamp /\ id' = id
    BY DEF rows
  <1>13. TypeOK'
    BY <1>2, <1>11, <1>12 DEF TypeOK
  <1>14. RowsKnow' /\ Numbered' = Numbered
    BY <1>2, <1>12 DEF RowsKnow, Numbered
  <1>15. \A p : Key(p)' = Key(p)
    BY <1>12 DEF Key
  <1>16. ASSUME NEW p \in Posts
         PROVE  Before(Key(p), DecodeCursor(walk.cursor))' <=> Before(Key(p), DecodeCursor(next))
    BY <1>11, <1>15 DEF Before, DecodeCursor
  <1>17. ASSUME NEW p \in Posts, walk.shown[p] # 0
         PROVE  p \notin page /\ (pc = "walking" => ~Before(Key(p), DecodeCursor(next)))
    <2>1. cursor # None /\ ~Before(Key(p), DecodeCursor(cursor))
      BY <1>17
    <2>2. \A q \in page : q \in Posts /\ Before(Key(q), DecodeCursor(cursor))
      BY <1>5, <1>7, <2>1 DEF S
    <2>3. DecodeCursor(cursor) \in Nat \X Nat
      BY <2>1, CursorFacts
    <2>4. ASSUME pc = "walking", Before(Key(p), Key(last))
          PROVE  FALSE
      <3>1. last \in Posts /\ Before(Key(last), DecodeCursor(cursor))
        BY <1>8, <2>2, <2>4
      <3>2. Key(p) \in Nat \X Nat /\ Key(last) \in Nat \X Nat
        BY <1>2, <3>1, KeyFacts
      <3>3. Before(Key(p), DecodeCursor(cursor))
        BY <2>3, <2>4, <3>1, <3>2, BeforeIsAnOrder
      <3> QED
        BY <2>1, <3>3
    <2> QED
      BY <1>8, <2>1, <2>2, <2>4
  <1>18. WalkKnows'
    <2>1. pc = "walking" => next \in Cursor
      BY <1>9
    <2>2. steady \subseteq Listed(of)'
      BY <1>12 DEF Listed
    <2>3. ASSUME NEW p \in Posts, shown[p] # 0
          PROVE  /\ p \in Numbered
                 /\ pc = "walking" => ~Before(Key(p), DecodeCursor(next))
      <3>1. CASE p \in page
        BY <1>4, <1>5, <1>8, <3>1
      <3>2. CASE p \notin page
        <4>1. walk.shown[p] # 0
          BY <1>2, <1>10, <2>3, <3>2
        <4> QED
          BY <1>2, <1>17, <4>1 DEF WalkKnows
      <3> QED
        BY <3>1, <3>2
    <2>4. \A p \in Posts : walk'.shown[p] # 0 =>
              /\ p \in Numbered'
              /\ walk'.pc = "walking" => ~Before(Key(p), DecodeCursor(walk.cursor))'
      BY <1>11, <1>14, <1>16, <2>3
    <2> QED
      BY <1>9, <1>11, <2>1, <2>2, <2>4 DEF WalkKnows, Listed
  <1>19. PagesAreExact'
    <2>1. ASSUME NEW p \in Posts
          PROVE  shown[p] <= 1
      <3>1. walk.shown[p] <= 1 /\ walk.shown[p] \in Nat
        BY <1>2 DEF PagesAreExact
      <3> QED
        BY <1>10, <1>17, <3>1
    <2>2. ASSUME NEW p \in steady,
                 pc = "done" \/ ~Before(Key(p), DecodeCursor(next))
          PROVE  shown[p] = 1
      <3>1. CASE p \in page
        <4>1. walk.shown[p] = 0
          BY <1>17, <3>1
        <4> QED
          BY <1>10, <3>1, <4>1
      <3>2. CASE p \notin page
        <4>1. p \notin S
          BY <1>8, <2>2, <3>2
        <4>2. cursor # None /\ ~Before(Key(p), DecodeCursor(cursor))
          BY <4>1 DEF S
        <4>3. walk.shown[p] = 1
          BY <4>2
        <4> QED
          BY <1>10, <3>2, <4>3
      <3> QED
        BY <3>1, <3>2
    <2>3. \A p \in walk'.steady :
              \/ walk'.pc = "done"
              \/ walk'.pc = "walking" /\ ~Before(Key(p), DecodeCursor(walk.cursor))'
              => walk'.shown[p] = 1
      BY <1>11, <1>16, <2>2
    <2> QED
      BY <1>11, <2>1, <2>3 DEF PagesAreExact
  <1> QED
    BY <1>13, <1>14, <1>18, <1>19 DEF IInv

LEMMA FirstPageStep ==
    ASSUME IInv, NEW of \in Users \cup {None}, NEW asked \in Asked, FirstPage(of, asked)
    PROVE  IInv'
  <1> DEFINE seen == Listed(of)
  <1>1. seen \in SUBSET Posts /\ seen \subseteq Listed(of)
    BY DEF Listed
  <1>2. Show(of, None, seen, asked) /\ UNCHANGED rows /\ walk.pc = "idle"
    BY DEF FirstPage
  <1>3. \A p \in Posts : walk.shown[p] = 0
    BY <1>2 DEF IInv, WalkKnows
  <1> HIDE DEF seen
  <1> QED
    BY <1>1, <1>2, <1>3, ShowStep

LEMMA NextPageStep ==
    ASSUME IInv, NEW asked \in Asked, NextPage(asked)
    PROVE  IInv'
  <1>1. /\ Show(walk.of, walk.cursor, walk.steady, asked) /\ UNCHANGED rows
        /\ walk.pc = "walking"
    BY DEF NextPage
  <1>2. walk \in Walk /\ WalkKnows /\ PagesAreExact
    BY DEF IInv, TypeOK
  <1>3. walk.of \in Users \cup {None} /\ walk.steady \in SUBSET Posts
    BY <1>2 DEF Walk
  <1>4. walk.cursor \in Cursor /\ walk.cursor # None /\ walk.steady \subseteq Listed(walk.of)
    BY <1>1, <1>2, NoneFacts DEF WalkKnows
  <1>5. \A p \in Posts : walk.shown[p] # 0 => ~Before(Key(p), DecodeCursor(walk.cursor))
    BY <1>1, <1>2 DEF WalkKnows
  <1>6. \A p \in walk.steady : ~Before(Key(p), DecodeCursor(walk.cursor)) => walk.shown[p] = 1
    BY <1>1, <1>2 DEF PagesAreExact
  <1> DEFINE of == walk.of
             cursor == walk.cursor
             steady == walk.steady
  <1>7. /\ of \in Users \cup {None} /\ cursor \in Cursor \cup {None} /\ steady \in SUBSET Posts
        /\ Show(of, cursor, steady, asked) /\ steady \subseteq Listed(of) /\ cursor # None
        /\ \A p \in Posts : walk.shown[p] # 0 => ~Before(Key(p), DecodeCursor(cursor))
        /\ \A p \in steady : ~Before(Key(p), DecodeCursor(cursor)) => walk.shown[p] = 1
    BY <1>1, <1>3, <1>4, <1>5, <1>6
  <1> HIDE DEF of, cursor, steady
  <1> QED
    BY <1>1, <1>7, ShowStep

-----------------------------------------------------------------------------
(* The theorems.                                                           *)

LEMMA InitHolds == Init => IInv
  <1> SUFFICES ASSUME Init
               PROVE  IInv
    OBVIOUS
  <1>1. /\ now = 1 /\ state = [p \in Posts |-> "absent"]
        /\ stamp = [p \in Posts |-> 0] /\ id = [p \in Posts |-> 0]
        /\ walk = [pc |-> "idle", of |-> None, cursor |-> None,
                   shown |-> [p \in Posts |-> 0], steady |-> {}]
    BY DEF Init
  <1>2. Cardinality(Posts) \in Nat
    BY TableAssumption, FS_CardinalityType
  <1>3. 0 \in 0..Cardinality(Posts) /\ 0 \in 0..MaxTime /\ now \in 1..MaxTime
    BY <1>1, <1>2, TableAssumption
  <1>4. walk \in Walk
    BY <1>1 DEF Walk
  <1>5. TypeOK
    BY <1>1, <1>3, <1>4 DEF TypeOK, States
  <1>6. RowsKnow
    <2>1. Numbered = {}
      BY <1>1 DEF Numbered
    <2>2. Cardinality(Numbered) = 0
      BY <2>1, FS_EmptySet
    <2> QED
      BY <1>1, <2>2 DEF RowsKnow
  <1>7. WalkKnows
    BY <1>1 DEF WalkKnows
  <1>8. PagesAreExact
    BY <1>1 DEF PagesAreExact
  <1> QED
    BY <1>5, <1>6, <1>7, <1>8 DEF IInv

LEMMA StutterHolds ==
    ASSUME IInv, UNCHANGED vars
    PROVE  IInv'
  <1>1. now' = now /\ state' = state /\ stamp' = stamp /\ id' = id /\ walk' = walk
    BY DEF vars
  <1>2. TypeOK' /\ RowsKnow'
    BY <1>1 DEF IInv, TypeOK, RowsKnow, Numbered
  <1>3. WalkKnows' /\ PagesAreExact'
    BY <1>1, WalkIsKept
  <1> QED
    BY <1>2, <1>3 DEF IInv

(* The inductive invariant holds in every state of every walk, whatever    *)
(* happens to the posts between the pages.                                 *)
THEOREM Invariance == Spec => []IInv
  <1>1. IInv /\ [Next]_vars => IInv'
    <2> SUFFICES ASSUME IInv, [Next]_vars
                 PROVE  IInv'
      OBVIOUS
    <2>1. CASE Tick
      BY <2>1, TickStep
    <2>2. ASSUME NEW p \in Posts,
                 \/ Begin(p) \/ Insert(p) \/ Commit(p)
                 \/ \E status \in {"VISIBLE", "HIDDEN", "DELETED"} : Change(p, status)
          PROVE  IInv'
      BY <2>2, BeginStep, InsertStep, CommitStep, ChangeStep
    <2>3. ASSUME NEW asked \in Asked,
                 (\E of \in Users \cup {None} : FirstPage(of, asked)) \/ NextPage(asked)
          PROVE  IInv'
      BY <2>3, FirstPageStep, NextPageStep
    <2>4. CASE UNCHANGED vars
      BY <2>4, StutterHolds
    <2> QED
      BY <2>1, <2>2, <2>3, <2>4 DEF Next
  <1> QED
    BY <1>1, InitHolds, PTL DEF Spec

(* Rows, keys and the walk have their types, and no two rows share a key.  *)
THEOREM Typing == Spec => []TypeOK
  <1>1. IInv => TypeOK
    BY DEF IInv
  <1> QED
    BY <1>1, Invariance, PTL

(* Pages cut by the key lose no post that can be seen all the time and     *)
(* show none twice, for any page sizes and any changes between the pages.  *)
THEOREM PagesLoseAndRepeatNothing == Spec => []PagesAreExact
  <1>1. IInv => PagesAreExact
    BY DEF IInv
  <1> QED
    BY <1>1, Invariance, PTL

===============================================================================
