---------------------- MODULE LocationSuggestionsProofs ----------------------
(***************************************************************************)
(* Proofs about LocationSuggestions, for any users, posts, places and      *)
(* requests.  The inductive invariant says what a request knows between    *)
(* two of its statements because of the row locks it holds, and that a     *)
(* place has counted, besides the posts that are there, every post that a  *)
(* running deletion has read there and is going to take off its counter.   *)
(***************************************************************************)
EXTENDS LocationSuggestions, FiniteSetTheorems, TLAPS

Running(r, kind) == req[r].pc \in InTx /\ req[r].kind = kind

Resolving(r) == Running(r, "ACCEPT") \/ Running(r, "REJECT")

(* A suggestion is inserted by a request that then is done.                *)
RowClaim(r) == req[r].pc # "done" => sugg[r] = None

KindClaim(r) ==
    LET q == req[r]
    IN  q.pc \in InTx =>
          /\ q.kind \in Kinds
          /\ q.pc = "suggestion" => q.kind \in {"ACCEPT", "REJECT"}
          /\ q.pc # "suggestion" => q.post \in Posts
          /\ q.pc = "post" => q.kind # "CREATE"
          /\ q.pc = "insert" => q.kind = "SUGGEST"
          /\ q.pc = "place" => q.kind \in {"CREATE", "ACCEPT", "DELETE"} /\ q.place \in Places
          /\ q.pc = "settle" => q.kind = "ACCEPT"
          /\ q.kind \in {"ACCEPT", "REJECT"} => q.target \in Requests
          /\ q.kind = "SUGGEST" => q.user \in Users /\ q.place \in Places

(* From its post's lock to the end of the transaction the post stays as it *)
(* was found: not yet there, VISIBLE, or not deleted.                      *)
PostClaim(r) ==
    LET q == req[r]
    IN  /\ Running(r, "DELETE") => state[q.post] # "absent"
        /\ q.pc \in {"insert", "place", "settle", "commit"} =>
              /\ postLock[q.post] = r
              /\ q.kind = "CREATE" => state[q.post] = "absent"
              /\ q.kind = "SUGGEST" => state[q.post] = "VISIBLE" /\ q.user # Author[q.post]
              /\ q.kind = "DELETE" => ~Gone(q.post)

(* Who resolves a suggestion holds its lock, and past the checks it is     *)
(* pending.                                                                *)
ResolveClaim(r) ==
    LET q == req[r]
    IN  Resolving(r) /\ q.pc # "suggestion" =>
          /\ sugg[q.target] # None /\ suggLock[q.target] = r
          /\ sugg[q.target].post = q.post /\ sugg[q.target].place = q.place
          /\ q.pc # "post" => sugg[q.target].status = "PENDING"

(* An acceptance that commits has locked all that it settles: nobody adds  *)
(* a suggestion to a post that it has locked.                              *)
SettleClaim(r) ==
    req[r].pc = "commit" /\ req[r].kind = "ACCEPT" =>
        \A s \in Pending(req[r].post) : suggLock[s] = r

Knows(r) ==
    RowClaim(r) /\ KindClaim(r) /\ PostClaim(r) /\ ResolveClaim(r) /\ SettleClaim(r)

AllKnow == \A r \in Requests : Knows(r)

(* The deletions that will take p off the counter of l.                    *)
Deleting(p, l) ==
    {r \in Requests : Running(r, "DELETE") /\ req[r].post = p /\ req[r].place = l}

(* The posts the counter of l has to account for.                          *)
Owed(l) == {p \in Posts : ~Gone(p) /\ (place[p] = l \/ Deleting(p, l) # {})}

OwedIsCounted == \A l \in Places : postCount[l] >= Cardinality(Owed(l))

IInv == TypeOK /\ AllKnow /\ OwedIsCounted /\ OneNoticePerAcceptance

-----------------------------------------------------------------------------
LEMMA NoneFacts == None \notin Places /\ None \notin Requests /\ None \notin Suggestion
  BY NoneAssumption

(* What a step of r does not do: to the types, to the other requests and   *)
(* what they have locked, and to the rows that are there.                  *)
LockFrame(r) ==
    /\ postLock' \in [Posts -> Requests \cup {None}]
    /\ placeLock' \in [Places -> Requests \cup {None}]
    /\ suggLock' \in [Requests -> Requests \cup {None}]
    /\ \A s \in Requests \ {r} :
          /\ \A p \in Posts : postLock'[p] = s <=> postLock[p] = s
          /\ \A l \in Places : placeLock'[l] = s <=> placeLock[l] = s
          /\ \A t \in Requests : suggLock'[t] = s <=> suggLock[t] = s
    /\ \/ req'[r].pc \in InTx
       \/ /\ \A p \in Posts : postLock'[p] # r
          /\ \A l \in Places : placeLock'[l] # r
          /\ \A t \in Requests : suggLock'[t] # r

RequestFrame(r) ==
    /\ req[r].pc # "done"
    /\ req' \in [Requests -> Request]
    /\ \A s \in Requests \ {r} : req'[s] = req[s]

PostFrame(r) ==
    /\ state' \in [Posts -> {"absent", "VISIBLE", "HIDDEN", "DELETED"}]
    /\ place' \in [Posts -> Places \cup {None}]
    /\ postCount' \in [Places -> Nat]
    /\ \A p \in Posts : state'[p] # state[p] => postLock[p] = r /\ state'[p] # "absent"

SuggFrame(r) ==
    /\ sugg' \in [Requests -> Suggestion \cup {None}]
    /\ notices' \in [Requests -> Nat]
    /\ \A t \in Requests :
          /\ sugg[t] # None =>
                /\ sugg'[t] # None /\ sugg'[t].post = sugg[t].post
                /\ sugg'[t].by = sugg[t].by /\ sugg'[t].place = sugg[t].place
                /\ sugg'[t].status # "PENDING" \/ sugg[t].status = "PENDING"
                /\ sugg'[t] # sugg[t] => suggLock[t] = r
          /\ sugg[t] = None /\ sugg'[t] # None => t = r /\ postLock[sugg'[t].post] = r

Frame(r) == LockFrame(r) /\ RequestFrame(r) /\ PostFrame(r) /\ SuggFrame(r)

LEMMA FrameKeepsTypes ==
    ASSUME TypeOK, NEW r \in Requests, Frame(r)
    PROVE  TypeOK'
  <1>1. /\ state' \in [Posts -> {"absent", "VISIBLE", "HIDDEN", "DELETED"}]
        /\ place' \in [Posts -> Places \cup {None}]
        /\ postCount' \in [Places -> Nat]
        /\ sugg' \in [Requests -> Suggestion \cup {None}]
        /\ notices' \in [Requests -> Nat]
        /\ postLock' \in [Posts -> Requests \cup {None}]
        /\ placeLock' \in [Places -> Requests \cup {None}]
        /\ suggLock' \in [Requests -> Requests \cup {None}]
        /\ req' \in [Requests -> Request]
    BY DEF Frame, LockFrame, RequestFrame, PostFrame, SuggFrame
  <1>2. \A s \in Requests \ {r} : req'[s] = req[s]
    BY DEF Frame, RequestFrame
  <1>3. ASSUME NEW p \in Posts, postLock'[p] # None
        PROVE  req'[postLock'[p]].pc \in InTx
    <2>1. CASE postLock'[p] = r
      BY <2>1 DEF Frame, LockFrame
    <2>2. CASE postLock'[p] # r
      <3>1. postLock'[p] \in Requests \ {r}
        BY <1>1, <1>3, <2>2
      <3>2. postLock[p] = postLock'[p] /\ req'[postLock'[p]] = req[postLock'[p]]
        BY <1>2, <3>1 DEF Frame, LockFrame
      <3>3. req[postLock[p]].pc \in InTx
        BY <1>3, <3>2 DEF TypeOK
      <3> QED
        BY <3>2, <3>3
    <2> QED
      BY <2>1, <2>2
  <1>4. ASSUME NEW l \in Places, placeLock'[l] # None
        PROVE  req'[placeLock'[l]].pc \in InTx
    <2>1. CASE placeLock'[l] = r
      BY <2>1 DEF Frame, LockFrame
    <2>2. CASE placeLock'[l] # r
      <3>1. placeLock'[l] \in Requests \ {r}
        BY <1>1, <1>4, <2>2
      <3>2. placeLock[l] = placeLock'[l] /\ req'[placeLock'[l]] = req[placeLock'[l]]
        BY <1>2, <3>1 DEF Frame, LockFrame
      <3>3. req[placeLock[l]].pc \in InTx
        BY <1>4, <3>2 DEF TypeOK
      <3> QED
        BY <3>2, <3>3
    <2> QED
      BY <2>1, <2>2
  <1>5. ASSUME NEW t \in Requests, suggLock'[t] # None
        PROVE  req'[suggLock'[t]].pc \in InTx
    <2>1. CASE suggLock'[t] = r
      BY <2>1 DEF Frame, LockFrame
    <2>2. CASE suggLock'[t] # r
      <3>1. suggLock'[t] \in Requests \ {r}
        BY <1>1, <1>5, <2>2
      <3>2. suggLock[t] = suggLock'[t] /\ req'[suggLock'[t]] = req[suggLock'[t]]
        BY <1>2, <3>1 DEF Frame, LockFrame
      <3>3. req[suggLock[t]].pc \in InTx
        BY <1>5, <3>2 DEF TypeOK
      <3> QED
        BY <3>2, <3>3
    <2> QED
      BY <2>1, <2>2
  <1> QED
    BY <1>1, <1>3, <1>4, <1>5 DEF TypeOK

LEMMA OthersKeepTheirClaims ==
    ASSUME IInv, NEW r \in Requests, Frame(r), NEW s \in Requests \ {r}
    PROVE  Knows(s)'
  <1>0. /\ TypeOK /\ Knows(s) /\ RowClaim(r) /\ req'[s] = req[s] /\ req[r].pc # "done"
    BY DEF IInv, AllKnow, Knows, Frame, RequestFrame
  <1>1. \A p \in Posts : postLock[p] = s => postLock'[p] = s /\ state'[p] = state[p]
    BY DEF Frame, LockFrame, PostFrame
  <1>2. ASSUME NEW t \in Requests, suggLock[t] = s, sugg[t] # None
        PROVE  suggLock'[t] = s /\ sugg'[t] = sugg[t]
    BY <1>2 DEF Frame, LockFrame, SuggFrame
  <1>3. RowClaim(s)'
    BY <1>0 DEF RowClaim, Knows, Frame, SuggFrame
  <1>4. KindClaim(s)'
    BY <1>0 DEF KindClaim, Knows
  <1>5. PostClaim(s)'
    <2>0. Running(s, "DELETE")' => state'[req[s].post] # "absent"
      <3> SUFFICES ASSUME Running(s, "DELETE")
                   PROVE  state'[req[s].post] # "absent"
        BY <1>0 DEF Running
      <3>1. req[s].post \in Posts /\ state[req[s].post] # "absent"
        BY <1>0 DEF Knows, KindClaim, PostClaim, Running
      <3> QED
        BY <3>1 DEF Frame, PostFrame
    <2> SUFFICES ASSUME req[s].pc \in {"insert", "place", "settle", "commit"}
                 PROVE  /\ postLock'[req[s].post] = s
                        /\ state'[req[s].post] = state[req[s].post]
      BY <1>0, <2>0 DEF PostClaim, Knows, Gone
    <2>1. req[s].post \in Posts /\ postLock[req[s].post] = s
      BY <1>0 DEF Knows, KindClaim, PostClaim, InTx
    <2> QED
      BY <1>1, <2>1
  <1>6. ResolveClaim(s)'
    <2> SUFFICES ASSUME Resolving(s), req[s].pc # "suggestion"
                 PROVE  /\ suggLock'[req[s].target] = s
                        /\ sugg'[req[s].target] = sugg[req[s].target]
      BY <1>0 DEF ResolveClaim, Resolving, Running, Knows
    <2>1. /\ req[s].target \in Requests /\ sugg[req[s].target] # None
          /\ suggLock[req[s].target] = s
      BY <1>0 DEF Knows, KindClaim, ResolveClaim, Resolving, Running
    <2> QED
      BY <1>2, <2>1
  <1>7. SettleClaim(s)'
    <2> SUFFICES ASSUME req[s].pc = "commit", req[s].kind = "ACCEPT",
                        NEW t \in Requests, t \in Pending(req[s].post)'
                 PROVE  suggLock'[t] = s
      BY <1>0 DEF SettleClaim, Pending
    <2>1. postLock[req[s].post] = s
      BY <1>0 DEF Knows, PostClaim
    <2>2. sugg'[t] # None /\ sugg'[t].post = req[s].post /\ sugg'[t].status = "PENDING"
      BY <1>0 DEF Pending
    <2>3. sugg[t] # None
      BY <2>1, <2>2 DEF Frame, SuggFrame
    <2>4. sugg[t].post = req[s].post /\ sugg[t].status = "PENDING"
      BY <2>2, <2>3 DEF Frame, SuggFrame
    <2>5. t \in Pending(req[s].post)
      BY <2>3, <2>4 DEF Pending
    <2>6. suggLock[t] = s
      BY <1>0, <2>5 DEF Knows, SettleClaim
    <2> QED
      BY <2>6 DEF Frame, LockFrame
  <1> QED
    BY <1>3, <1>4, <1>5, <1>6, <1>7 DEF Knows

-----------------------------------------------------------------------------
(* Counting.                                                               *)

LEMMA OwedIsFinite ==
    ASSUME NEW S \in SUBSET Posts
    PROVE  IsFiniteSet(S) /\ Cardinality(S) \in Nat
  BY PostsAssumption, FS_Subset, FS_CardinalityType

(* What the counter of a place may do: nobody new is owed, one is owed and *)
(* counted, or one is taken off.                                           *)
CountFrame(l) ==
    \/ Owed(l)' \subseteq Owed(l) /\ postCount'[l] >= postCount[l]
    \/ \E p \in Posts :
          \/ Owed(l)' \subseteq Owed(l) \cup {p} /\ postCount'[l] = postCount[l] + 1
          \/ /\ p \in Owed(l) /\ Owed(l)' \subseteq Owed(l) \ {p}
             /\ postCount[l] > 0 => postCount'[l] = postCount[l] - 1

LEMMA CountFrameKeepsCounted ==
    ASSUME TypeOK, TypeOK', OwedIsCounted, \A l \in Places : CountFrame(l)
    PROVE  OwedIsCounted'
  <1> SUFFICES ASSUME NEW l \in Places
               PROVE  postCount'[l] >= Cardinality(Owed(l)')
    BY DEF OwedIsCounted
  <1> DEFINE old == Owed(l)
             new == Owed(l)'
  <1>1. old \in SUBSET Posts /\ new \in SUBSET Posts
    BY DEF Owed
  <1>2. postCount[l] \in Nat /\ postCount'[l] \in Nat /\ postCount[l] >= Cardinality(old)
    BY DEF TypeOK, OwedIsCounted
  <1>3. \/ new \subseteq old /\ postCount'[l] >= postCount[l]
        \/ \E p \in Posts :
              \/ new \subseteq old \cup {p} /\ postCount'[l] = postCount[l] + 1
              \/ /\ p \in old /\ new \subseteq old \ {p}
                 /\ postCount[l] > 0 => postCount'[l] = postCount[l] - 1
    BY DEF CountFrame
  <1> HIDE DEF old, new
  <1>4. /\ IsFiniteSet(old) /\ Cardinality(old) \in Nat
        /\ IsFiniteSet(new) /\ Cardinality(new) \in Nat
    BY <1>1, OwedIsFinite
  <1>5. CASE new \subseteq old /\ postCount'[l] >= postCount[l]
    <2>1. Cardinality(new) <= Cardinality(old)
      BY <1>4, <1>5, FS_Subset
    <2> QED
      BY <1>2, <1>4, <1>5, <2>1 DEF new
  <1>6. ASSUME NEW p \in Posts, new \subseteq old \cup {p}, postCount'[l] = postCount[l] + 1
        PROVE  postCount'[l] >= Cardinality(new)
    <2>1. /\ IsFiniteSet(old \cup {p})
          /\ \/ Cardinality(old \cup {p}) = Cardinality(old)
             \/ Cardinality(old \cup {p}) = Cardinality(old) + 1
      BY <1>4, FS_AddElement
    <2>2. Cardinality(new) <= Cardinality(old \cup {p})
      BY <1>6, <2>1, FS_Subset
    <2> QED
      BY <1>2, <1>4, <1>6, <2>1, <2>2
  <1>7. ASSUME NEW p \in Posts, p \in old, new \subseteq old \ {p},
               postCount[l] > 0 => postCount'[l] = postCount[l] - 1
        PROVE  postCount'[l] >= Cardinality(new)
    <2>1. /\ IsFiniteSet(old \ {p})
          /\ Cardinality(old \ {p}) = Cardinality(old) - 1
      BY <1>4, <1>7, FS_RemoveElement
    <2>2. Cardinality(new) <= Cardinality(old \ {p})
      BY <1>7, <2>1, FS_Subset
    <2> QED
      BY <1>2, <1>4, <1>7, <2>1, <2>2
  <1> QED
    BY <1>3, <1>5, <1>6, <1>7 DEF new

(* A step that stays in its frame, knows what it has done, counts what it  *)
(* owes and notifies whom it accepts is a step of the invariant.           *)
LEMMA StepKeepsIInv ==
    ASSUME IInv, NEW r \in Requests, Frame(r), Knows(r)',
           \A l \in Places : CountFrame(l), OneNoticePerAcceptance'
    PROVE  IInv'
  <1>1. TypeOK /\ AllKnow /\ OwedIsCounted
    BY DEF IInv
  <1>2. TypeOK'
    BY <1>1, FrameKeepsTypes
  <1>3. AllKnow'
    BY OthersKeepTheirClaims DEF AllKnow
  <1>4. OwedIsCounted'
    BY <1>1, <1>2, CountFrameKeepsCounted
  <1> QED
    BY <1>2, <1>3, <1>4 DEF IInv
-----------------------------------------------------------------------------
(* Steps by what they leave alone.                                         *)

(* What a step does to the suggestions and their posts.                    *)
LifeStep ==
    /\ \A s \in Requests :
         /\ sugg[s] = None /\ sugg'[s] # None =>
                state[sugg'[s].post] = "VISIBLE" /\ sugg'[s].by # Author[sugg'[s].post]
         /\ sugg[s] # None /\ sugg[s].status # "PENDING" => sugg'[s] = sugg[s]
         /\ sugg[s] # None /\ sugg[s].status = "PENDING" /\ sugg'[s].status = "ACCEPTED" =>
                place'[sugg[s].post] = sugg[s].place /\ Pending(sugg[s].post)' = {}
    /\ \A p \in Posts :
         ~Gone(p) /\ place'[p] # place[p] =>
             \E s \in Requests : s \in Pending(p) /\ sugg'[s].status = "ACCEPTED"

LEMMA QuietTables ==
    ASSUME IInv, NEW r \in Requests, UNCHANGED tables
    PROVE  PostFrame(r) /\ SuggFrame(r) /\ OneNoticePerAcceptance' /\ LifeStep
  <1>1. /\ state' = state /\ place' = place /\ postCount' = postCount
        /\ sugg' = sugg /\ notices' = notices
    BY DEF tables
  <1>2. TypeOK /\ OneNoticePerAcceptance
    BY DEF IInv
  <1>3. PostFrame(r)
    BY <1>1, <1>2 DEF TypeOK, PostFrame
  <1>4. SuggFrame(r)
    BY <1>1, <1>2 DEF TypeOK, SuggFrame
  <1>5. OneNoticePerAcceptance'
    BY <1>1, <1>2 DEF OneNoticePerAcceptance
  <1>6. LifeStep
    BY <1>1 DEF LifeStep
  <1> QED
    BY <1>3, <1>4, <1>5, <1>6

LEMMA QuietLocks ==
    ASSUME TypeOK, NEW r \in Requests, UNCHANGED locks,
           req[r].pc \notin InTx \/ req'[r].pc \in InTx
    PROVE  LockFrame(r)
  <1>1. postLock' = postLock /\ placeLock' = placeLock /\ suggLock' = suggLock
    BY DEF locks
  <1>2. CASE req[r].pc \notin InTx
    <2>1. \A p \in Posts : postLock[p] # r
      BY <1>2, NoneFacts DEF TypeOK
    <2>2. \A l \in Places : placeLock[l] # r
      BY <1>2, NoneFacts DEF TypeOK
    <2>3. \A t \in Requests : suggLock[t] # r
      BY <1>2, NoneFacts DEF TypeOK
    <2> QED
      BY <1>1, <2>1, <2>2, <2>3 DEF TypeOK, LockFrame
  <1>3. CASE req'[r].pc \in InTx
    BY <1>1, <1>3 DEF TypeOK, LockFrame
  <1> QED
    BY <1>2, <1>3

(* A deletion begins with a post that is counted.                          *)
DeletionsBeginCounted(r) ==
    Running(r, "DELETE")' =>
        \/ /\ Running(r, "DELETE")
           /\ req'[r].post = req[r].post /\ req'[r].place = req[r].place
        \/ place[req'[r].post] = req'[r].place

LEMMA DeletionsAreOwed ==
    ASSUME NEW r \in Requests, RequestFrame(r), DeletionsBeginCounted(r)
    PROVE  \A p \in Posts, l \in Places :
              Deleting(p, l)' # {} => Deleting(p, l) # {} \/ place[p] = l
  <1> SUFFICES ASSUME NEW p \in Posts, NEW l \in Places, NEW s \in Requests,
                      s \in Deleting(p, l)'
               PROVE  Deleting(p, l) # {} \/ place[p] = l
    BY DEF Deleting
  <1>1. CASE s = r
    BY <1>1 DEF Deleting, DeletionsBeginCounted, Running
  <1>2. CASE s # r
    <2>1. req'[s] = req[s]
      BY <1>2 DEF RequestFrame
    <2>2. s \in Deleting(p, l)
      BY <2>1 DEF Deleting, Running
    <2> QED
      BY <2>2
  <1> QED
    BY <1>1, <1>2

LEMMA QuietCounts ==
    ASSUME TypeOK, NEW r \in Requests, RequestFrame(r), DeletionsBeginCounted(r),
           UNCHANGED <<state, place, postCount>>
    PROVE  \A l \in Places : CountFrame(l)
  <1> SUFFICES ASSUME NEW l \in Places
               PROVE  Owed(l)' \subseteq Owed(l) /\ postCount'[l] >= postCount[l]
    BY DEF CountFrame
  <1>1. postCount'[l] >= postCount[l]
    BY DEF TypeOK
  <1>2. Owed(l)' \subseteq Owed(l)
    BY DeletionsAreOwed DEF Owed, Gone
  <1> QED
    BY <1>1, <1>2

(* A statement that changes no table.                                      *)
LEMMA QuietStep ==
    ASSUME IInv, NEW r \in Requests, UNCHANGED tables, LockFrame(r), RequestFrame(r),
           DeletionsBeginCounted(r), Knows(r)'
    PROVE  IInv' /\ LifeStep
  <1>1. PostFrame(r) /\ SuggFrame(r) /\ OneNoticePerAcceptance' /\ LifeStep
    BY QuietTables
  <1>2. TypeOK
    BY DEF IInv
  <1>3. \A l \in Places : CountFrame(l)
    BY <1>2, QuietCounts DEF tables
  <1>4. Frame(r)
    BY <1>1 DEF Frame
  <1> QED
    BY <1>1, <1>3, <1>4, StepKeepsIInv

LEMMA DoneFacts ==
    Done \in Request /\ Done.pc = "done" /\ Done.pc \notin InTx
  BY DEF Done, Idle, Request, InTx

LEMMA FinishFacts ==
    ASSUME TypeOK, NEW r \in Requests, req[r].pc # "done", Finish(r)
    PROVE  /\ LockFrame(r) /\ RequestFrame(r) /\ Knows(r)'
           /\ req'[r] = Done /\ DeletionsBeginCounted(r)
  <1>1. req' = [req EXCEPT ![r] = Done] /\ req \in [Requests -> Request]
    BY DEF Finish, TypeOK
  <1>2. RequestFrame(r) /\ req'[r] = Done
    BY <1>1, DoneFacts DEF RequestFrame
  <1>3. /\ postLock' \in [Posts -> Requests \cup {None}]
        /\ \A p \in Posts : postLock'[p] # r
        /\ \A s \in Requests \ {r}, p \in Posts : postLock'[p] = s <=> postLock[p] = s
    BY NoneFacts DEF Finish, Free, TypeOK
  <1>4. /\ placeLock' \in [Places -> Requests \cup {None}]
        /\ \A l \in Places : placeLock'[l] # r
        /\ \A s \in Requests \ {r}, l \in Places : placeLock'[l] = s <=> placeLock[l] = s
    BY NoneFacts DEF Finish, Free, TypeOK
  <1>5. /\ suggLock' \in [Requests -> Requests \cup {None}]
        /\ \A t \in Requests : suggLock'[t] # r
        /\ \A s \in Requests \ {r}, t \in Requests : suggLock'[t] = s <=> suggLock[t] = s
    BY NoneFacts DEF Finish, Free, TypeOK
  <1>6. LockFrame(r)
    BY <1>3, <1>4, <1>5 DEF LockFrame
  <1>7. Knows(r)'
    BY <1>2, DoneFacts DEF Knows, RowClaim, KindClaim, PostClaim, ResolveClaim, SettleClaim,
                           Resolving, Running, InTx
  <1>8. DeletionsBeginCounted(r)
    BY <1>2, DoneFacts DEF DeletionsBeginCounted, Running
  <1> QED
    BY <1>2, <1>6, <1>7, <1>8

LEMMA QuietFinish ==
    ASSUME IInv, NEW r \in Requests, req[r].pc # "done", Finish(r), UNCHANGED tables
    PROVE  IInv' /\ LifeStep
  <1>1. TypeOK
    BY DEF IInv
  <1> QED
    BY <1>1, FinishFacts, QuietStep

-----------------------------------------------------------------------------
(* Requests arrive.                                                        *)

LEMMA StartFacts ==
    ASSUME TypeOK, NEW r \in Requests, NEW begun \in Request, Start(r, begun)
    PROVE  RequestFrame(r) /\ req[r].pc \notin InTx /\ req'[r] = begun
  BY DEF TypeOK, Start, RequestFrame, InTx

LEMMA CreateStep ==
    ASSUME IInv, NEW r \in Requests, NEW p \in Posts, NEW l \in Places \cup {None}, Create(r, p, l)
    PROVE  IInv' /\ LifeStep
  <1> DEFINE q == [Idle EXCEPT !.pc = IF l = None THEN "commit" ELSE "place", !.kind = "CREATE",
                               !.user = Author[p], !.post = p, !.place = l]
  <1>1. /\ TypeOK /\ RowClaim(r) /\ Start(r, q) /\ UNCHANGED tables
        /\ state[p] = "absent" /\ postLock[p] = None
        /\ postLock' = [postLock EXCEPT ![p] = r]
        /\ placeLock' = placeLock /\ suggLock' = suggLock
    BY DEF IInv, AllKnow, Knows, Create
  <1>2. /\ q.pc = IF l = None THEN "commit" ELSE "place"
        /\ q.kind = "CREATE" /\ q.post = p /\ q.place = l
    BY DEF Idle
  <1>3. q \in Request
    BY SuggestionAuthors DEF Idle, Request, InTx, Kinds
  <1> HIDE DEF q
  <1>4. RequestFrame(r) /\ req'[r] = q /\ req[r].pc \notin InTx
    BY <1>1, <1>3, StartFacts
  <1>5. req'[r].pc \in InTx
    BY <1>2, <1>4 DEF InTx
  <1>6. LockFrame(r)
    BY <1>1, <1>5, NoneFacts DEF TypeOK, LockFrame
  <1>7. DeletionsBeginCounted(r)
    BY <1>2, <1>4 DEF DeletionsBeginCounted, Running
  <1>8. RowClaim(r)'
    BY <1>1 DEF RowClaim, Start, tables
  <1>9. KindClaim(r)'
    BY <1>2, <1>4 DEF KindClaim, Kinds
  <1>10. PostClaim(r)'
    BY <1>1, <1>2, <1>4 DEF PostClaim, Running, TypeOK, tables
  <1>11. ResolveClaim(r)' /\ SettleClaim(r)'
    BY <1>2, <1>4 DEF ResolveClaim, SettleClaim, Resolving, Running
  <1>12. Knows(r)'
    BY <1>8, <1>9, <1>10, <1>11 DEF Knows
  <1> QED
    BY <1>1, <1>4, <1>6, <1>7, <1>12, QuietStep

LEMMA SuggestStep ==
    ASSUME IInv, NEW r \in Requests, NEW u \in Users, NEW p \in Posts, NEW l \in Places,
           Suggest(r, u, p, l)
    PROVE  IInv' /\ LifeStep
  <1> DEFINE q == [Idle EXCEPT !.pc = "post", !.kind = "SUGGEST", !.user = u, !.post = p,
                               !.place = l]
  <1>1. /\ TypeOK /\ RowClaim(r) /\ Start(r, q) /\ UNCHANGED tables /\ UNCHANGED locks
    BY DEF IInv, AllKnow, Knows, Suggest
  <1>2. q.pc = "post" /\ q.kind = "SUGGEST" /\ q.user = u /\ q.post = p /\ q.place = l
    BY DEF Idle
  <1>3. q \in Request
    BY DEF Idle, Request, InTx, Kinds
  <1> HIDE DEF q
  <1>4. RequestFrame(r) /\ req'[r] = q /\ req[r].pc \notin InTx
    BY <1>1, <1>3, StartFacts
  <1>5. LockFrame(r)
    BY <1>1, <1>4, QuietLocks
  <1>6. DeletionsBeginCounted(r)
    BY <1>2, <1>4 DEF DeletionsBeginCounted, Running
  <1>7. RowClaim(r)'
    BY <1>1 DEF RowClaim, Start, tables
  <1>8. KindClaim(r)'
    BY <1>2, <1>4 DEF KindClaim, Kinds
  <1>9. PostClaim(r)' /\ ResolveClaim(r)' /\ SettleClaim(r)'
    BY <1>2, <1>4 DEF PostClaim, ResolveClaim, SettleClaim, Resolving, Running
  <1>10. Knows(r)'
    BY <1>7, <1>8, <1>9 DEF Knows
  <1> QED
    BY <1>1, <1>4, <1>5, <1>6, <1>10, QuietStep

LEMMA ResolveStep ==
    ASSUME IInv, NEW r \in Requests, NEW s \in Requests, NEW kind \in {"ACCEPT", "REJECT"},
           NEW u \in Users, Resolve(r, kind, u, s)
    PROVE  IInv' /\ LifeStep
  <1> DEFINE q == [Idle EXCEPT !.pc = "suggestion", !.kind = kind, !.user = u, !.target = s]
  <1>1. /\ TypeOK /\ RowClaim(r) /\ Start(r, q) /\ UNCHANGED tables /\ UNCHANGED locks
    BY DEF IInv, AllKnow, Knows, Resolve
  <1>2. q.pc = "suggestion" /\ q.kind = kind /\ q.target = s
    BY DEF Idle
  <1>3. q \in Request
    BY DEF Idle, Request, InTx, Kinds
  <1> HIDE DEF q
  <1>4. RequestFrame(r) /\ req'[r] = q /\ req[r].pc \notin InTx
    BY <1>1, <1>3, StartFacts
  <1>5. LockFrame(r)
    BY <1>1, <1>4, QuietLocks
  <1>6. DeletionsBeginCounted(r)
    BY <1>2, <1>4 DEF DeletionsBeginCounted, Running
  <1>7. RowClaim(r)'
    BY <1>1 DEF RowClaim, Start, tables
  <1>8. KindClaim(r)'
    BY <1>2, <1>4 DEF KindClaim, Kinds
  <1>9. PostClaim(r)' /\ ResolveClaim(r)' /\ SettleClaim(r)'
    BY <1>2, <1>4 DEF PostClaim, ResolveClaim, SettleClaim, Resolving, Running
  <1>10. Knows(r)'
    BY <1>7, <1>8, <1>9 DEF Knows
  <1> QED
    BY <1>1, <1>4, <1>5, <1>6, <1>10, QuietStep

LEMMA DeleteStep ==
    ASSUME IInv, NEW r \in Requests, NEW u \in Users, NEW p \in Posts, Delete(r, u, p)
    PROVE  IInv' /\ LifeStep
  <1>1. TypeOK /\ RowClaim(r) /\ UNCHANGED tables /\ UNCHANGED locks /\ req[r].pc = "idle"
    BY DEF IInv, AllKnow, Knows, Delete, Start
  <1>2. CASE Gone(p) \/ u # Author[p]
    <2>1. Start(r, Done)
      BY <1>2 DEF Delete
    <2>2. RequestFrame(r) /\ req'[r] = Done /\ req[r].pc \notin InTx
      BY <1>1, <2>1, DoneFacts, StartFacts
    <2>3. LockFrame(r)
      BY <1>1, <2>2, QuietLocks
    <2>4. DeletionsBeginCounted(r)
      BY <2>2, DoneFacts DEF DeletionsBeginCounted, Running
    <2>5. Knows(r)'
      BY <2>2, DoneFacts DEF Knows, RowClaim, KindClaim, PostClaim, ResolveClaim, SettleClaim,
                             Resolving, Running, InTx
    <2> QED
      BY <1>1, <2>2, <2>3, <2>4, <2>5, QuietStep
  <1>3. CASE ~(Gone(p) \/ u # Author[p])
    <2> DEFINE q == [Idle EXCEPT !.pc = "post", !.kind = "DELETE", !.user = u, !.post = p,
                                 !.place = place[p]]
    <2>1. Start(r, q)
      BY <1>3 DEF Delete
    <2>2. q.pc = "post" /\ q.kind = "DELETE" /\ q.post = p /\ q.place = place[p]
      BY DEF Idle
    <2>3. q \in Request
      BY <1>1 DEF Idle, Request, InTx, Kinds, TypeOK
    <2> HIDE DEF q
    <2>4. RequestFrame(r) /\ req'[r] = q /\ req[r].pc \notin InTx
      BY <1>1, <2>1, <2>3, StartFacts
    <2>5. LockFrame(r)
      BY <1>1, <2>4, QuietLocks
    <2>6. DeletionsBeginCounted(r)
      BY <2>2, <2>4 DEF DeletionsBeginCounted
    <2>7. RowClaim(r)'
      BY <1>1 DEF RowClaim, tables
    <2>8. KindClaim(r)'
      BY <2>2, <2>4 DEF KindClaim, Kinds
    <2>9. PostClaim(r)' /\ ResolveClaim(r)' /\ SettleClaim(r)'
      BY <1>1, <1>3, <2>2, <2>4
      DEF PostClaim, ResolveClaim, SettleClaim, Resolving, Running, Gone, tables
    <2>10. Knows(r)'
      BY <2>7, <2>8, <2>9 DEF Knows
    <2> QED
      BY <1>1, <2>4, <2>5, <2>6, <2>10, QuietStep
  <1> QED
    BY <1>2, <1>3
-----------------------------------------------------------------------------
(* Statements.                                                             *)

(* A step into another statement of the same transaction.                  *)
Moves(r, pc) ==
    /\ req[r].pc \in InTx /\ pc \in InTx
    /\ req'[r] \in Request /\ req'[r].pc = pc
    /\ req'[r].kind = req[r].kind /\ req'[r].user = req[r].user
    /\ req'[r].target = req[r].target

Stays(r) == req'[r].post = req[r].post /\ req'[r].place = req[r].place

LEMMA MoveFacts ==
    ASSUME TypeOK, NEW r \in Requests, NEW pc \in InTx, req[r].pc \in InTx,
           req' = [req EXCEPT ![r].pc = pc]
    PROVE  RequestFrame(r) /\ Moves(r, pc) /\ Stays(r) /\ DeletionsBeginCounted(r)
  <1> DEFINE q == [req[r] EXCEPT !.pc = pc]
  <1>1. req[r] \in Request /\ req \in [Requests -> Request]
    BY DEF TypeOK
  <1>2. /\ q.pc = pc /\ q.kind = req[r].kind /\ q.user = req[r].user /\ q.post = req[r].post
        /\ q.place = req[r].place /\ q.target = req[r].target
    BY <1>1 DEF Request
  <1>3. q \in Request
    BY <1>1 DEF Request
  <1>4. req' = [req EXCEPT ![r] = q]
    OBVIOUS
  <1> HIDE DEF q
  <1>5. req'[r] = q /\ req' \in [Requests -> Request] /\ \A s \in Requests \ {r} : req'[s] = req[s]
    BY <1>1, <1>3, <1>4
  <1>6. req[r].pc # "done"
    BY DEF InTx
  <1> QED
    BY <1>2, <1>3, <1>5, <1>6
    DEF RequestFrame, Moves, Stays, DeletionsBeginCounted, Running

LEMMA LockSuggestionStep ==
    ASSUME IInv, NEW r \in Requests, LockSuggestion(r)
    PROVE  IInv' /\ LifeStep
  <1> DEFINE s == req[r].target
  <1>1. TypeOK /\ Knows(r) /\ req[r].pc = "suggestion" /\ UNCHANGED tables
    BY DEF IInv, AllKnow, LockSuggestion
  <1>2. req[r].kind \in {"ACCEPT", "REJECT"} /\ s \in Requests /\ req[r].pc # "done"
    BY <1>1 DEF Knows, KindClaim, InTx
  <1>3. CASE sugg[s] = None
    BY <1>1, <1>2, <1>3, QuietFinish DEF LockSuggestion
  <1>4. CASE sugg[s] # None
    <2> DEFINE q == [req[r] EXCEPT !.pc = "post", !.post = sugg[s].post, !.place = sugg[s].place]
    <2>1. /\ suggLock[s] = None /\ suggLock' = [suggLock EXCEPT ![s] = r]
          /\ postLock' = postLock /\ placeLock' = placeLock
          /\ req' = [req EXCEPT ![r] = q]
      BY <1>4 DEF LockSuggestion
    <2>2. sugg[s] \in Suggestion /\ sugg[s].post \in Posts /\ sugg[s].place \in Places
      BY <1>1, <1>2, <1>4 DEF TypeOK, Suggestion
    <2>3. req[r] \in Request
      BY <1>1 DEF TypeOK
    <2>4. /\ q.pc = "post" /\ q.kind = req[r].kind /\ q.target = s
          /\ q.post = sugg[s].post /\ q.place = sugg[s].place
      BY <2>3 DEF Request
    <2>5. q \in Request
      BY <2>2, <2>3 DEF Request, InTx
    <2> HIDE DEF q
    <2>6. RequestFrame(r) /\ req'[r] = q
      BY <1>1, <1>2, <2>1, <2>5 DEF TypeOK, RequestFrame
    <2>7. req'[r].pc \in InTx
      BY <2>4, <2>6 DEF InTx
    <2>8. LockFrame(r) /\ suggLock'[s] = r
      BY <1>1, <1>2, <2>1, <2>7, NoneFacts DEF TypeOK, LockFrame
    <2>9. DeletionsBeginCounted(r)
      BY <1>2, <2>4, <2>6 DEF DeletionsBeginCounted, Running
    <2>10. RowClaim(r)' /\ KindClaim(r)'
      BY <1>1, <1>2, <2>2, <2>4, <2>6 DEF Knows, RowClaim, KindClaim, Kinds, tables
    <2>11. PostClaim(r)' /\ SettleClaim(r)'
      BY <1>2, <2>4, <2>6 DEF PostClaim, SettleClaim, Running
    <2>12. ResolveClaim(r)'
      BY <1>1, <1>4, <2>4, <2>6, <2>8 DEF ResolveClaim, tables
    <2>13. Knows(r)'
      BY <2>10, <2>11, <2>12 DEF Knows
    <2> QED
      BY <1>1, <2>6, <2>8, <2>9, <2>13, QuietStep
  <1> QED
    BY <1>3, <1>4

LEMMA LockPostStep ==
    ASSUME IInv, NEW r \in Requests, LockPost(r)
    PROVE  IInv' /\ LifeStep
  <1> DEFINE p == req[r].post
             next == AfterPost(r)
  <1>1. TypeOK /\ Knows(r) /\ req[r].pc = "post" /\ UNCHANGED tables
    BY DEF IInv, AllKnow, LockPost
  <1>2. /\ req[r].kind \in Kinds \ {"CREATE"} /\ p \in Posts
        /\ req[r].pc \in InTx /\ req[r].pc # "done"
    BY <1>1 DEF Knows, KindClaim, InTx
  <1>3. CASE ~MayProceed(r)
    BY <1>1, <1>2, <1>3, QuietFinish DEF LockPost
  <1>4. CASE MayProceed(r)
    <2>1. PostMatches(r)
      BY <1>2, <1>4 DEF PostMatches, MayProceed, Gone, Kinds
    <2>2. /\ postLock[p] = None /\ postLock' = [postLock EXCEPT ![p] = r]
          /\ req' = [req EXCEPT ![r].pc = next]
          /\ placeLock' = placeLock /\ suggLock' = suggLock
      BY <1>4, <2>1 DEF LockPost
    <2>3. /\ req[r].kind = "SUGGEST" => next = "insert"
          /\ req[r].kind = "ACCEPT" => next = "place"
          /\ req[r].kind = "REJECT" => next = "commit"
          /\ req[r].kind = "DELETE" => next = IF req[r].place = None THEN "commit" ELSE "place"
      BY DEF AfterPost
    <2>4. next \in {"insert", "place", "commit"}
      BY <1>2, <2>3 DEF Kinds
    <2> HIDE DEF next
    <2>5. next \in InTx
      BY <2>4 DEF InTx
    <2>6. RequestFrame(r) /\ Moves(r, next) /\ Stays(r) /\ DeletionsBeginCounted(r)
      BY <1>1, <1>2, <2>2, <2>5, MoveFacts
    <2>7. LockFrame(r) /\ postLock'[p] = r
      BY <1>1, <1>2, <2>2, <2>6, NoneFacts DEF TypeOK, LockFrame, Moves
    <2>8. RowClaim(r)'
      BY <1>1, <1>2 DEF Knows, RowClaim, tables
    <2>9. req[r].kind \in {"ACCEPT", "REJECT"} =>
              /\ req[r].target \in Requests /\ sugg[req[r].target] # None
              /\ suggLock[req[r].target] = r
              /\ sugg[req[r].target].post = p /\ sugg[req[r].target].place = req[r].place
              /\ sugg[req[r].target].status = "PENDING"
      BY <1>1, <1>2, <1>4 DEF Knows, KindClaim, ResolveClaim, Resolving, Running, MayProceed
    <2>10. req[r].kind = "ACCEPT" => req[r].place \in Places
      BY <1>1, <2>9 DEF TypeOK, Suggestion
    <2>11. req[r].kind = "DELETE" /\ req[r].place # None => req[r].place \in Places
      BY <1>1 DEF TypeOK, Request
    <2>12. /\ req'[r].pc = next /\ req'[r].kind = req[r].kind /\ req'[r].post = p
            /\ req'[r].user = req[r].user /\ req'[r].place = req[r].place
            /\ req'[r].target = req[r].target
      BY <2>6 DEF Moves, Stays
    <2>13. KindClaim(r)'
      <3>1. /\ req[r].kind \in Kinds
            /\ req[r].kind = "SUGGEST" => req[r].user \in Users /\ req[r].place \in Places
        BY <1>1, <1>2 DEF Knows, KindClaim
      <3>2. next = "place" => req[r].kind \in {"ACCEPT", "DELETE"} /\ req[r].place \in Places
        BY <1>2, <2>3, <2>10, <2>11 DEF Kinds
      <3>3. next = "insert" => req[r].kind = "SUGGEST"
        BY <1>2, <2>3 DEF Kinds
      <3> QED
        BY <1>2, <2>4, <2>9, <2>12, <3>1, <3>2, <3>3 DEF KindClaim
    <2>14. PostClaim(r)'
      <3>1. req[r].kind = "SUGGEST" => state[p] = "VISIBLE" /\ req[r].user # Author[p]
        BY <1>4 DEF MayProceed
      <3>2. req[r].kind = "DELETE" => state[p] \notin {"absent", "DELETED"}
        BY <1>4 DEF MayProceed, Gone
      <3>3. state' = state /\ req[r].kind # "CREATE"
        BY <1>1, <1>2 DEF tables
      <3> QED
        BY <2>7, <2>12, <3>1, <3>2, <3>3 DEF PostClaim, Running, Gone
    <2>15. ResolveClaim(r)'
      BY <1>1, <2>2, <2>6, <2>9 DEF ResolveClaim, Resolving, Running, Moves, Stays, tables
    <2>16. SettleClaim(r)'
      BY <2>3, <2>6 DEF SettleClaim, Moves
    <2>17. Knows(r)'
      BY <2>8, <2>13, <2>14, <2>15, <2>16 DEF Knows
    <2> QED
      BY <1>1, <2>6, <2>7, <2>17, QuietStep
  <1> QED
    BY <1>3, <1>4

LEMMA InsertSuggestionStep ==
    ASSUME IInv, NEW r \in Requests, InsertSuggestion(r)
    PROVE  IInv' /\ LifeStep
  <1> DEFINE again == Repeated(r)
             new == Repeated(r) = {}
             q == [req[r] EXCEPT !.pc = "commit", !.wrote = new]
  <1>1. /\ TypeOK /\ Knows(r) /\ req[r].pc = "insert" /\ UNCHANGED tables
        /\ \A s \in again : suggLock[s] = None
        /\ suggLock' = [s \in Requests |-> IF s \in again THEN r ELSE suggLock[s]]
        /\ postLock' = postLock /\ placeLock' = placeLock
        /\ req' = [req EXCEPT ![r] = q]
    BY DEF IInv, AllKnow, InsertSuggestion
  <1>2. new \in BOOLEAN
    OBVIOUS
  <1> HIDE DEF again, new
  <1>3. req[r] \in Request
    BY <1>1 DEF TypeOK
  <1>4. /\ req[r].kind = "SUGGEST" /\ req[r].post \in Posts /\ req[r].pc # "done"
        /\ req[r].user \in Users /\ req[r].place \in Places
    BY <1>1 DEF Knows, KindClaim, InTx
  <1>5. /\ q.pc = "commit" /\ q.kind = "SUGGEST" /\ q.user = req[r].user
        /\ q.post = req[r].post /\ q.place = req[r].place
    BY <1>3, <1>4 DEF Request
  <1>6. q \in Request
    BY <1>2, <1>3 DEF Request, InTx
  <1> HIDE DEF q
  <1>7. RequestFrame(r) /\ req'[r] = q
    BY <1>1, <1>4, <1>6 DEF TypeOK, RequestFrame
  <1>8. req'[r].pc \in InTx
    BY <1>5, <1>7 DEF InTx
  <1>9. LockFrame(r)
    BY <1>1, <1>8, NoneFacts DEF TypeOK, LockFrame
  <1>10. DeletionsBeginCounted(r)
    BY <1>5, <1>7 DEF DeletionsBeginCounted, Running
  <1>11. RowClaim(r)' /\ KindClaim(r)'
    BY <1>1, <1>4, <1>5, <1>7 DEF Knows, RowClaim, KindClaim, Kinds, tables
  <1>12. PostClaim(r)'
    BY <1>1, <1>4, <1>5, <1>7 DEF Knows, PostClaim, Running, tables
  <1>13. ResolveClaim(r)' /\ SettleClaim(r)'
    BY <1>5, <1>7 DEF ResolveClaim, SettleClaim, Resolving, Running
  <1>14. Knows(r)'
    BY <1>11, <1>12, <1>13 DEF Knows
  <1> QED
    BY <1>1, <1>7, <1>9, <1>10, <1>14, QuietStep

LEMMA CountPlaceStep ==
    ASSUME IInv, NEW r \in Requests, CountPlace(r)
    PROVE  IInv' /\ LifeStep
  <1> DEFINE l == req[r].place
             next == IF req[r].kind = "ACCEPT" THEN "settle" ELSE "commit"
  <1>1. /\ TypeOK /\ Knows(r) /\ req[r].pc = "place" /\ UNCHANGED tables
        /\ placeLock[l] = None /\ placeLock' = [placeLock EXCEPT ![l] = r]
        /\ postLock' = postLock /\ suggLock' = suggLock
        /\ req' = [req EXCEPT ![r].pc = next]
    BY DEF IInv, AllKnow, CountPlace
  <1>2. /\ req[r].kind \in {"CREATE", "ACCEPT", "DELETE"} /\ l \in Places
        /\ req[r].pc \in InTx /\ req[r].pc # "done"
    BY <1>1 DEF Knows, KindClaim, InTx
  <1>3. /\ next \in InTx /\ next \in {"settle", "commit"}
        /\ next = "settle" <=> req[r].kind = "ACCEPT"
    BY DEF InTx
  <1> HIDE DEF next
  <1>4. RequestFrame(r) /\ Moves(r, next) /\ Stays(r) /\ DeletionsBeginCounted(r)
    BY <1>1, <1>2, <1>3, MoveFacts
  <1>5. LockFrame(r)
    BY <1>1, <1>2, <1>4, NoneFacts DEF TypeOK, LockFrame, Moves
  <1>6. RowClaim(r)'
    BY <1>1, <1>2 DEF Knows, RowClaim, tables
  <1>7. KindClaim(r)'
    BY <1>1, <1>2, <1>3, <1>4 DEF Knows, KindClaim, Moves, Stays
  <1>8. PostClaim(r)'
    BY <1>1, <1>2, <1>4 DEF Knows, PostClaim, Running, Moves, Stays, Gone, tables
  <1>9. ResolveClaim(r)'
    BY <1>1, <1>2, <1>4 DEF Knows, ResolveClaim, Resolving, Running, Moves, Stays, tables
  <1>10. SettleClaim(r)'
    BY <1>3, <1>4 DEF SettleClaim, Moves
  <1>11. Knows(r)'
    BY <1>6, <1>7, <1>8, <1>9, <1>10 DEF Knows
  <1> QED
    BY <1>1, <1>4, <1>5, <1>11, QuietStep

LEMMA SettleStep ==
    ASSUME IInv, NEW r \in Requests, Settle(r)
    PROVE  IInv' /\ LifeStep
  <1> DEFINE settled == Pending(req[r].post)
  <1>1. /\ TypeOK /\ Knows(r) /\ req[r].pc = "settle" /\ UNCHANGED tables
        /\ \A s \in settled : suggLock[s] \in {None, r}
        /\ suggLock' = [s \in Requests |-> IF s \in settled THEN r ELSE suggLock[s]]
        /\ postLock' = postLock /\ placeLock' = placeLock
        /\ req' = [req EXCEPT ![r].pc = "commit"]
    BY DEF IInv, AllKnow, Settle
  <1>2. settled \subseteq Requests
    BY DEF Pending
  <1>3. /\ req[r].kind = "ACCEPT" /\ req[r].target \in Requests /\ req[r].post \in Posts
        /\ req[r].pc \in InTx /\ req[r].pc # "done" /\ "commit" \in InTx
    BY <1>1 DEF Knows, KindClaim, InTx
  <1>4. RequestFrame(r) /\ Moves(r, "commit") /\ Stays(r) /\ DeletionsBeginCounted(r)
    BY <1>1, <1>3, MoveFacts
  <1>5. SettleClaim(r)'
    <2>1. Pending(req[r].post)' = settled
      BY <1>1, <1>4 DEF Pending, Stays, tables
    <2> QED
      BY <1>1, <1>2, <2>1 DEF SettleClaim
  <1> HIDE DEF settled
  <1>6. LockFrame(r)
    BY <1>1, <1>4, NoneFacts DEF TypeOK, LockFrame, Moves
  <1>7. RowClaim(r)' /\ KindClaim(r)'
    BY <1>1, <1>3, <1>4 DEF Knows, RowClaim, KindClaim, Moves, Stays, tables
  <1>8. PostClaim(r)'
    BY <1>1, <1>3, <1>4 DEF Knows, PostClaim, Running, Moves, Stays, tables
  <1>9. ResolveClaim(r)'
    BY <1>1, <1>3, <1>4 DEF Knows, ResolveClaim, Resolving, Running, Moves, Stays, tables
  <1>10. Knows(r)'
    BY <1>5, <1>7, <1>8, <1>9 DEF Knows
  <1> QED
    BY <1>1, <1>4, <1>6, <1>10, QuietStep

LEMMA RollbackStep ==
    ASSUME IInv, NEW r \in Requests, Rollback(r)
    PROVE  IInv' /\ LifeStep
  <1>1. req[r].pc # "done" /\ Finish(r) /\ UNCHANGED tables
    BY DEF Rollback, InTx
  <1> QED
    BY <1>1, QuietFinish
-----------------------------------------------------------------------------
(* Commits.                                                                *)

LEMMA CommittingFacts ==
    ASSUME IInv, NEW r \in Requests, NEW kind \in Kinds, Committing(r, kind)
    PROVE  /\ TypeOK /\ Knows(r) /\ OwedIsCounted /\ OneNoticePerAcceptance
           /\ req[r].pc = "commit" /\ req[r].kind = kind /\ Running(r, kind)
           /\ req[r] \in Request /\ req[r].post \in Posts /\ postLock[req[r].post] = r
           /\ sugg[r] = None
           /\ LockFrame(r) /\ RequestFrame(r) /\ Knows(r)' /\ DeletionsBeginCounted(r)
  <1>1. /\ TypeOK /\ Knows(r) /\ OwedIsCounted /\ OneNoticePerAcceptance
        /\ req[r].pc = "commit" /\ req[r].kind = kind /\ Finish(r)
    BY DEF IInv, AllKnow, Committing
  <1>2. req[r].pc \in InTx /\ req[r].pc # "done" /\ req[r] \in Request
    BY <1>1 DEF InTx, TypeOK
  <1>3. req[r].post \in Posts /\ postLock[req[r].post] = r /\ sugg[r] = None
    BY <1>1, <1>2 DEF Knows, KindClaim, PostClaim, RowClaim
  <1>4. LockFrame(r) /\ RequestFrame(r) /\ Knows(r)' /\ DeletionsBeginCounted(r)
    BY <1>1, <1>2, FinishFacts
  <1> QED
    BY <1>1, <1>2, <1>3, <1>4 DEF Running

LEMMA CountedFacts ==
    ASSUME TypeOK, NEW l \in Places, NEW n \in {1, -1}
    PROVE  /\ Counted(l, n) \in [Places -> Nat]
           /\ \A k \in Places \ {l} : Counted(l, n)[k] = postCount[k]
           /\ n = 1 => Counted(l, n)[l] = postCount[l] + 1
           /\ n = -1 /\ postCount[l] > 0 => Counted(l, n)[l] = postCount[l] - 1
  <1>1. postCount \in [Places -> Nat] /\ postCount[l] \in Nat
    BY DEF TypeOK
  <1>2. /\ Counted(l, n)[l] = IF postCount[l] + n < 0 THEN 0 ELSE postCount[l] + n
        /\ \A k \in Places \ {l} : Counted(l, n)[k] = postCount[k]
    BY <1>1 DEF Counted
  <1>3. (IF postCount[l] + n < 0 THEN 0 ELSE postCount[l] + n) \in Nat
    BY <1>1
  <1>4. Counted(l, n) \in [Places -> Nat]
    BY <1>1, <1>3 DEF Counted
  <1> QED
    BY <1>1, <1>2, <1>4

LEMMA CommitCreateStep ==
    ASSUME IInv, NEW r \in Requests, CommitCreate(r)
    PROVE  IInv' /\ LifeStep
  <1> DEFINE l == req[r].place
  <1>0. PICK p \in Posts : p = req[r].post
    BY CommittingFacts DEF CommitCreate, Kinds
  <1>1. /\ Committing(r, "CREATE")
        /\ state' = [state EXCEPT ![p] = "VISIBLE"]
        /\ place' = [place EXCEPT ![p] = l]
        /\ postCount' = IF l = None THEN postCount ELSE Counted(l, 1)
        /\ sugg' = sugg /\ notices' = notices
    BY <1>0 DEF CommitCreate
  <1>2. /\ TypeOK /\ Knows(r) /\ OneNoticePerAcceptance
        /\ req[r].pc = "commit" /\ req[r].kind = "CREATE"
        /\ req[r] \in Request /\ p \in Posts /\ postLock[p] = r
        /\ LockFrame(r) /\ RequestFrame(r) /\ Knows(r)' /\ DeletionsBeginCounted(r)
    BY <1>0, <1>1, CommittingFacts DEF Kinds
  <1>3. state[p] = "absent"
    BY <1>0, <1>2 DEF Knows, PostClaim
  <1>4. l \in Places \cup {None}
    BY <1>2 DEF Request
  <1>5. /\ postCount' \in [Places -> Nat]
        /\ \A k \in Places \ {l} : postCount'[k] = postCount[k]
        /\ l \in Places => postCount'[l] = postCount[l] + 1
    <2>1. CASE l = None
      BY <1>1, <1>2, <2>1, NoneFacts DEF TypeOK
    <2>2. CASE l # None
      BY <1>1, <1>2, <1>4, <2>2, CountedFacts
    <2> QED
      BY <2>1, <2>2
  <1>6. PostFrame(r)
    BY <1>1, <1>2, <1>4, <1>5 DEF PostFrame, TypeOK
  <1>7. SuggFrame(r)
    BY <1>1, <1>2 DEF SuggFrame, TypeOK
  <1>8. OneNoticePerAcceptance'
    BY <1>1, <1>2 DEF OneNoticePerAcceptance
  <1>9. ASSUME NEW k \in Places
        PROVE  Deleting(p, k) = {}
    <2> SUFFICES ASSUME NEW s \in Requests, s \in Deleting(p, k)
                 PROVE  FALSE
      BY DEF Deleting
    <2>1. Knows(s) /\ Running(s, "DELETE") /\ req[s].post = p
      BY DEF IInv, AllKnow, Deleting
    <2> QED
      BY <1>3, <2>1 DEF Knows, PostClaim
  <1>10. ASSUME NEW k \in Places
         PROVE  CountFrame(k)
    <2>1. Owed(k)' \subseteq Owed(k) \cup {p}
      <3> SUFFICES ASSUME NEW x \in Posts, x # p, x \in Owed(k)'
                   PROVE  x \in Owed(k)
        BY DEF Owed
      <3>1. state'[x] = state[x] /\ place'[x] = place[x]
        BY <1>1, <1>2 DEF TypeOK
      <3>2. Deleting(x, k)' # {} => Deleting(x, k) # {} \/ place[x] = k
        BY <1>2, DeletionsAreOwed
      <3> QED
        BY <3>1, <3>2 DEF Owed, Gone
    <2>2. CASE k = l
      BY <1>2, <1>5, <2>1, <2>2 DEF CountFrame
    <2>3. CASE k # l
      <3>1. place'[p] # k
        BY <1>1, <1>2, <2>3 DEF TypeOK
      <3>2. Deleting(p, k)' = {}
        <4>1. Deleting(p, k)' # {} => Running(r, "DELETE")' \/ Deleting(p, k) # {}
          BY <1>2 DEF Deleting, Running, RequestFrame
        <4>2. ~Running(r, "DELETE")'
          BY <1>1, <1>2 DEF Committing, Finish, Running, Done, Idle, InTx, TypeOK
        <4> QED
          BY <1>9, <4>1, <4>2
      <3>3. p \notin Owed(k)'
        BY <3>1, <3>2 DEF Owed
      <3>4. postCount'[k] >= postCount[k]
        BY <1>2, <1>5, <2>3 DEF TypeOK
      <3> QED
        BY <2>1, <3>3, <3>4 DEF CountFrame
    <2> QED
      BY <2>2, <2>3
  <1>11. LifeStep
    <2>1. ASSUME NEW x \in Posts, ~Gone(x)
          PROVE  place'[x] = place[x]
      BY <1>1, <1>2, <1>3, <2>1 DEF TypeOK, Gone
    <2> QED
      BY <1>1, <2>1 DEF LifeStep
  <1>12. Frame(r)
    BY <1>2, <1>6, <1>7 DEF Frame
  <1> QED
    BY <1>2, <1>8, <1>10, <1>11, <1>12, StepKeepsIInv

LEMMA CommitSuggestStep ==
    ASSUME IInv, NEW r \in Requests, CommitSuggest(r)
    PROVE  IInv' /\ LifeStep
  <1> DEFINE row == [post |-> req[r].post, by |-> req[r].user, place |-> req[r].place,
                     status |-> "PENDING"]
  <1>1. /\ Committing(r, "SUGGEST")
        /\ sugg' = IF ~req[r].wrote THEN sugg ELSE [sugg EXCEPT ![r] = row]
        /\ UNCHANGED <<state, place, postCount>> /\ notices' = notices
    BY DEF CommitSuggest
  <1>2. /\ TypeOK /\ Knows(r) /\ OneNoticePerAcceptance
        /\ req[r].pc = "commit" /\ req[r].kind = "SUGGEST" /\ Running(r, "SUGGEST")
        /\ req[r] \in Request /\ req[r].post \in Posts /\ postLock[req[r].post] = r
        /\ sugg[r] = None
        /\ LockFrame(r) /\ RequestFrame(r) /\ Knows(r)' /\ DeletionsBeginCounted(r)
    BY <1>1, CommittingFacts DEF Kinds
  <1>3. CASE ~req[r].wrote
    BY <1>1, <1>2, <1>3, QuietStep DEF tables
  <1>4. CASE req[r].wrote
    <2>1. req[r].user \in Users /\ req[r].place \in Places
      BY <1>2 DEF Knows, KindClaim, Running
    <2>2. state[req[r].post] = "VISIBLE" /\ req[r].user # Author[req[r].post]
      BY <1>2 DEF Knows, PostClaim
    <2>3. /\ row \in Suggestion /\ row # None /\ row.status = "PENDING"
          /\ row.post = req[r].post /\ row.by = req[r].user
      BY <1>2, <2>1, NoneFacts DEF Suggestion, Statuses
    <2> HIDE DEF row
    <2>4. /\ sugg' \in [Requests -> Suggestion \cup {None}] /\ sugg'[r] = row
          /\ \A t \in Requests \ {r} : sugg'[t] = sugg[t]
      BY <1>1, <1>2, <1>4, <2>3 DEF TypeOK
    <2>5. SuggFrame(r)
      BY <1>1, <1>2, <2>3, <2>4 DEF SuggFrame, TypeOK
    <2>6. PostFrame(r)
      BY <1>1, <1>2 DEF PostFrame, TypeOK
    <2>7. OneNoticePerAcceptance'
      BY <1>1, <1>2, <2>3, <2>4 DEF OneNoticePerAcceptance
    <2>8. \A l \in Places : CountFrame(l)
      BY <1>1, <1>2, QuietCounts
    <2>9. LifeStep
      BY <1>1, <1>2, <2>2, <2>3, <2>4 DEF LifeStep
    <2>10. Frame(r)
      BY <1>2, <2>5, <2>6 DEF Frame
    <2> QED
      BY <1>2, <2>7, <2>8, <2>9, <2>10, StepKeepsIInv
  <1> QED
    BY <1>3, <1>4

(* What a resolution has in its hands.                                     *)
LEMMA TargetFacts ==
    ASSUME TypeOK, NEW r \in Requests, Knows(r), req[r].pc = "commit", Resolving(r)
    PROVE  /\ req[r].target \in Requests /\ sugg[req[r].target] \in Suggestion
           /\ sugg[req[r].target] # None /\ suggLock[req[r].target] = r
           /\ sugg[req[r].target].status = "PENDING"
           /\ sugg[req[r].target].post = req[r].post
           /\ sugg[req[r].target].place = req[r].place /\ req[r].place \in Places
           /\ req[r].target \in Pending(req[r].post)
  <1> DEFINE s == req[r].target
  <1>1. s \in Requests
    BY DEF Knows, KindClaim, Resolving, Running
  <1>2. /\ sugg[s] # None /\ suggLock[s] = r /\ sugg[s].status = "PENDING"
        /\ sugg[s].post = req[r].post /\ sugg[s].place = req[r].place
    BY DEF Knows, ResolveClaim
  <1>3. sugg[s] \in Suggestion /\ sugg[s].place \in Places
    BY <1>1, <1>2 DEF TypeOK, Suggestion
  <1> QED
    BY <1>1, <1>2, <1>3 DEF Pending

(* A pending suggestion with another status.                               *)
LEMMA StatusFacts ==
    ASSUME NEW row \in Suggestion, NEW status \in Statuses
    PROVE  LET next == [row EXCEPT !.status = status]
           IN  /\ next \in Suggestion /\ next # None /\ next.status = status
               /\ next.post = row.post /\ next.by = row.by /\ next.place = row.place
  BY NoneFacts DEF Suggestion

LEMMA CommitRejectStep ==
    ASSUME IInv, NEW r \in Requests, CommitReject(r)
    PROVE  IInv' /\ LifeStep
  <1> DEFINE s == req[r].target
             row == [sugg[s] EXCEPT !.status = "REJECTED"]
  <1>1. /\ Committing(r, "REJECT")
        /\ sugg' = [sugg EXCEPT ![s] = row]
        /\ UNCHANGED <<state, place, postCount>> /\ notices' = notices
    BY DEF CommitReject
  <1>2. /\ TypeOK /\ Knows(r) /\ OneNoticePerAcceptance
        /\ req[r].pc = "commit" /\ Running(r, "REJECT")
        /\ LockFrame(r) /\ RequestFrame(r) /\ Knows(r)' /\ DeletionsBeginCounted(r)
    BY <1>1, CommittingFacts DEF Kinds
  <1>3. /\ s \in Requests /\ sugg[s] \in Suggestion /\ sugg[s] # None
        /\ suggLock[s] = r /\ sugg[s].status = "PENDING"
    BY <1>2, TargetFacts DEF Resolving
  <1>4. /\ row \in Suggestion /\ row # None /\ row.status = "REJECTED"
        /\ row.post = sugg[s].post /\ row.by = sugg[s].by /\ row.place = sugg[s].place
    BY <1>3, StatusFacts DEF Statuses
  <1> HIDE DEF s, row
  <1>5. /\ sugg' \in [Requests -> Suggestion \cup {None}] /\ sugg'[s] = row
        /\ \A t \in Requests \ {s} : sugg'[t] = sugg[t]
    BY <1>1, <1>2, <1>3, <1>4 DEF TypeOK
  <1>6. SuggFrame(r)
    BY <1>1, <1>2, <1>3, <1>4, <1>5 DEF SuggFrame, TypeOK
  <1>7. PostFrame(r)
    BY <1>1, <1>2 DEF PostFrame, TypeOK
  <1>8. OneNoticePerAcceptance'
    BY <1>1, <1>2, <1>3, <1>4, <1>5 DEF OneNoticePerAcceptance
  <1>9. \A l \in Places : CountFrame(l)
    BY <1>1, <1>2, QuietCounts
  <1>10. LifeStep
    BY <1>1, <1>3, <1>4, <1>5 DEF LifeStep
  <1>11. Frame(r)
    BY <1>2, <1>6, <1>7 DEF Frame
  <1> QED
    BY <1>2, <1>8, <1>9, <1>10, <1>11, StepKeepsIInv

LEMMA CommitAcceptStep ==
    ASSUME IInv, NEW r \in Requests, CommitAccept(r)
    PROVE  IInv' /\ LifeStep
  <1>0. PICK p \in Posts : p = req[r].post
    BY CommittingFacts DEF CommitAccept, Kinds
  <1> DEFINE l == req[r].place
             s == req[r].target
             settled == Pending(p)
             row(t) == [sugg[t] EXCEPT !.status = IF t = s THEN "ACCEPTED" ELSE "REJECTED"]
  <1>1. /\ Committing(r, "ACCEPT")
        /\ place' = [place EXCEPT ![p] = l]
        /\ postCount' = Counted(l, 1)
        /\ sugg' = [t \in Requests |-> IF t \notin settled THEN sugg[t] ELSE row(t)]
        /\ notices' = [notices EXCEPT ![s] = @ + 1]
        /\ state' = state
    BY <1>0 DEF CommitAccept, CountAccepted, Settled
  <1>2. /\ TypeOK /\ Knows(r) /\ OneNoticePerAcceptance
        /\ req[r].pc = "commit" /\ req[r].kind = "ACCEPT" /\ Running(r, "ACCEPT")
        /\ LockFrame(r) /\ RequestFrame(r) /\ Knows(r)' /\ DeletionsBeginCounted(r)
    BY <1>1, CommittingFacts DEF Kinds
  <1>3. /\ s \in Requests /\ sugg[s].post = p /\ sugg[s].place = l /\ l \in Places
        /\ s \in settled
    BY <1>0, <1>2, TargetFacts DEF Resolving
  <1>4. \A t \in settled : /\ t \in Requests /\ sugg[t] \in Suggestion /\ sugg[t] # None
                           /\ sugg[t].post = p /\ sugg[t].status = "PENDING"
                           /\ suggLock[t] = r
    <2>1. \A t \in settled : suggLock[t] = r
      BY <1>0, <1>2 DEF Knows, SettleClaim
    <2> QED
      BY <1>2, <2>1 DEF Pending, TypeOK
  <1>5. ASSUME NEW t \in Requests, sugg[t] # None, sugg[t].post = p, sugg[t].status = "PENDING"
        PROVE  t \in settled
    BY <1>5 DEF Pending
  <1> HIDE DEF settled, s, l, row
  <1>6. ASSUME NEW t \in settled
        PROVE  /\ row(t) \in Suggestion /\ row(t) # None
               /\ row(t).post = sugg[t].post /\ row(t).by = sugg[t].by
               /\ row(t).place = sugg[t].place
               /\ row(t).status = IF t = s THEN "ACCEPTED" ELSE "REJECTED"
    <2> DEFINE status == IF t = s THEN "ACCEPTED" ELSE "REJECTED"
    <2>1. status \in Statuses
      BY DEF Statuses
    <2>2. row(t) = [sugg[t] EXCEPT !.status = status]
      BY DEF row
    <2> HIDE DEF status
    <2>3. /\ row(t) \in Suggestion /\ row(t) # None
          /\ row(t).post = sugg[t].post /\ row(t).by = sugg[t].by
          /\ row(t).place = sugg[t].place /\ row(t).status = status
      BY <1>4, <2>1, <2>2, StatusFacts
    <2> QED
      BY <2>3 DEF status
  <1>7. /\ sugg' \in [Requests -> Suggestion \cup {None}]
        /\ \A t \in settled : sugg'[t] = row(t)
        /\ \A t \in Requests \ settled : sugg'[t] = sugg[t]
    BY <1>1, <1>2, <1>4, <1>6 DEF TypeOK
  <1>8. /\ notices' \in [Requests -> Nat] /\ notices'[s] = notices[s] + 1
        /\ \A t \in Requests \ {s} : notices'[t] = notices[t]
    BY <1>1, <1>2, <1>3 DEF TypeOK
  <1>9. SuggFrame(r)
    <2>1. ASSUME NEW t \in Requests, sugg[t] # None
          PROVE  /\ sugg'[t] # None /\ sugg'[t].post = sugg[t].post
                 /\ sugg'[t].by = sugg[t].by /\ sugg'[t].place = sugg[t].place
                 /\ sugg'[t].status # "PENDING" \/ sugg[t].status = "PENDING"
                 /\ sugg'[t] # sugg[t] => suggLock[t] = r
      BY <1>4, <1>6, <1>7, <2>1
    <2>2. ASSUME NEW t \in Requests, sugg[t] = None
          PROVE  sugg'[t] = None
      BY <1>4, <1>7, <2>2
    <2> QED
      BY <1>7, <1>8, <2>1, <2>2 DEF SuggFrame
  <1>10. /\ postCount' \in [Places -> Nat] /\ postCount'[l] = postCount[l] + 1
         /\ \A k \in Places \ {l} : postCount'[k] = postCount[k]
    BY <1>1, <1>2, <1>3, CountedFacts
  <1>11. /\ place' \in [Posts -> Places \cup {None}] /\ place'[p] = l
         /\ \A x \in Posts \ {p} : place'[x] = place[x]
    BY <1>1, <1>2, <1>3 DEF TypeOK
  <1>12. PostFrame(r)
    BY <1>1, <1>2, <1>10, <1>11 DEF PostFrame, TypeOK
  <1>13. OneNoticePerAcceptance'
    <2> SUFFICES ASSUME NEW t \in Requests
                 PROVE  notices'[t] = IF sugg'[t] # None /\ sugg'[t].status = "ACCEPTED"
                                      THEN 1 ELSE 0
      BY DEF OneNoticePerAcceptance
    <2>1. notices[t] = IF sugg[t] # None /\ sugg[t].status = "ACCEPTED" THEN 1 ELSE 0
      BY <1>2 DEF OneNoticePerAcceptance
    <2>2. CASE t = s
      BY <1>3, <1>4, <1>6, <1>7, <1>8, <2>1, <2>2
    <2>3. CASE t # s /\ t \in settled
      BY <1>4, <1>6, <1>7, <1>8, <2>1, <2>3
    <2>4. CASE t \notin settled
      BY <1>3, <1>7, <1>8, <2>1, <2>4
    <2> QED
      BY <2>2, <2>3, <2>4
  <1>14. ASSUME NEW k \in Places
         PROVE  CountFrame(k)
    <2>1. ASSUME NEW x \in Posts, x \in Owed(k)', x \notin Owed(k)
          PROVE  x = p /\ k = l
      <3>1. Deleting(x, k)' # {} => Deleting(x, k) # {} \/ place[x] = k
        BY <1>2, DeletionsAreOwed
      <3>2. place'[x] = k /\ place[x] # k
        BY <1>1, <2>1, <3>1 DEF Owed, Gone
      <3> QED
        BY <1>11, <3>2
    <2>2. CASE k = l
      <3>1. Owed(k)' \subseteq Owed(k) \cup {p}
        BY <2>1 DEF Owed
      <3> QED
        BY <1>2, <1>10, <2>2, <3>1 DEF CountFrame
    <2>3. CASE k # l
      <3>1. Owed(k)' \subseteq Owed(k)
        BY <2>1, <2>3 DEF Owed
      <3>2. postCount'[k] >= postCount[k]
        BY <1>2, <1>10, <2>3 DEF TypeOK
      <3> QED
        BY <3>1, <3>2 DEF CountFrame
    <2> QED
      BY <2>2, <2>3
  <1>15. LifeStep
    <2>1. ASSUME NEW t \in Requests
          PROVE  /\ sugg[t] = None => sugg'[t] = None
                 /\ sugg[t] # None /\ sugg[t].status # "PENDING" => sugg'[t] = sugg[t]
      BY <1>4, <1>7
    <2>2. Pending(p)' = {}
      <3> SUFFICES ASSUME NEW t \in Requests, sugg'[t] # None, sugg'[t].post = p,
                          sugg'[t].status = "PENDING"
                   PROVE  FALSE
        BY DEF Pending
      <3>1. CASE t \in settled
        BY <1>6, <1>7, <3>1
      <3>2. CASE t \notin settled
        BY <1>5, <1>7, <3>2
      <3> QED
        BY <3>1, <3>2
    <2>3. ASSUME NEW t \in Requests, sugg[t] # None, sugg[t].status = "PENDING",
                 sugg'[t].status = "ACCEPTED"
          PROVE  t = s
      BY <1>6, <1>7, <2>3
    <2>4. sugg'[s].status = "ACCEPTED" /\ s \in Pending(p)
      BY <1>3, <1>6, <1>7 DEF settled
    <2>5. place'[sugg[s].post] = sugg[s].place /\ sugg[s].post = p
      BY <1>3, <1>11
    <2>6. ASSUME NEW t \in Requests, sugg[t] # None, sugg[t].status = "PENDING",
                 sugg'[t].status = "ACCEPTED"
          PROVE  place'[sugg[t].post] = sugg[t].place /\ Pending(sugg[t].post)' = {}
      <3>1. t = s
        BY <2>3, <2>6
      <3>2. sugg'[t].post = p
        BY <1>3, <1>6, <1>7, <3>1
      <3>3. Pending(sugg[t].post)' = Pending(p)'
        BY <3>2 DEF Pending
      <3> QED
        BY <2>2, <2>5, <3>1, <3>3
    <2>7. \A x \in Posts : place'[x] # place[x] => x = p
      BY <1>11
    <2> QED
      BY <1>3, <2>1, <2>4, <2>6, <2>7 DEF LifeStep
  <1>16. Frame(r)
    BY <1>2, <1>9, <1>12 DEF Frame
  <1> QED
    BY <1>2, <1>13, <1>14, <1>15, <1>16, StepKeepsIInv

LEMMA CommitDeleteStep ==
    ASSUME IInv, NEW r \in Requests, CommitDelete(r)
    PROVE  IInv' /\ LifeStep
  <1> DEFINE p == req[r].post
             l == req[r].place
  <1>1. /\ Committing(r, "DELETE")
        /\ state' = [state EXCEPT ![p] = "DELETED"]
        /\ postCount' = IF l = None THEN postCount ELSE Counted(l, -1)
        /\ place' = place /\ sugg' = sugg /\ notices' = notices
    BY DEF CommitDelete
  <1>2. /\ TypeOK /\ Knows(r) /\ OneNoticePerAcceptance
        /\ req[r].pc = "commit" /\ req[r].kind = "DELETE" /\ Running(r, "DELETE")
        /\ req[r] \in Request /\ p \in Posts /\ postLock[p] = r
        /\ LockFrame(r) /\ RequestFrame(r) /\ Knows(r)' /\ DeletionsBeginCounted(r)
    BY <1>1, CommittingFacts DEF Kinds
  <1>3. ~Gone(p)
    BY <1>2 DEF Knows, PostClaim
  <1>4. l \in Places \cup {None}
    BY <1>2 DEF Request
  <1>5. /\ postCount' \in [Places -> Nat]
        /\ \A k \in Places \ {l} : postCount'[k] = postCount[k]
        /\ l \in Places /\ postCount[l] > 0 => postCount'[l] = postCount[l] - 1
    <2>1. CASE l = None
      BY <1>1, <1>2, <2>1, NoneFacts DEF TypeOK
    <2>2. CASE l # None
      BY <1>1, <1>2, <1>4, <2>2, CountedFacts
    <2> QED
      BY <2>1, <2>2
  <1>6. PostFrame(r)
    BY <1>1, <1>2, <1>5 DEF PostFrame, TypeOK
  <1>7. SuggFrame(r)
    BY <1>1, <1>2 DEF SuggFrame, TypeOK
  <1>8. OneNoticePerAcceptance'
    BY <1>1, <1>2 DEF OneNoticePerAcceptance
  <1>9. ASSUME NEW k \in Places
         PROVE  CountFrame(k)
    <2>1. Owed(k)' \subseteq Owed(k) \ {p}
      <3>1. p \notin Owed(k)'
        BY <1>1, <1>2 DEF Owed, Gone, TypeOK
      <3>2. ASSUME NEW x \in Posts, x # p, x \in Owed(k)'
            PROVE  x \in Owed(k)
        <4>1. state'[x] = state[x] /\ place'[x] = place[x]
          BY <1>1, <1>2, <3>2 DEF TypeOK
        <4>2. Deleting(x, k)' # {} => Deleting(x, k) # {} \/ place[x] = k
          BY <1>2, DeletionsAreOwed
        <4> QED
          BY <3>2, <4>1, <4>2 DEF Owed, Gone
      <3> QED
        BY <3>1, <3>2 DEF Owed
    <2>2. CASE k = l
      <3>1. r \in Deleting(p, k)
        BY <1>2, <2>2 DEF Deleting
      <3>2. p \in Owed(k)
        BY <1>2, <1>3, <3>1 DEF Owed
      <3> QED
        BY <1>2, <1>5, <2>1, <2>2, <3>2 DEF CountFrame
    <2>3. CASE k # l
      <3>1. postCount'[k] >= postCount[k]
        BY <1>2, <1>5, <2>3 DEF TypeOK
      <3> QED
        BY <2>1, <3>1 DEF CountFrame
    <2> QED
      BY <2>2, <2>3
  <1>10. LifeStep
    BY <1>1 DEF LifeStep
  <1>11. Frame(r)
    BY <1>2, <1>6, <1>7 DEF Frame
  <1> QED
    BY <1>2, <1>8, <1>9, <1>10, <1>11, StepKeepsIInv

-----------------------------------------------------------------------------
(* Moderation changes only posts that no transaction has locked.           *)
LEMMA ModerationStep ==
    ASSUME IInv, NEW p \in Posts, ModerationChanges(p)
    PROVE  IInv' /\ LifeStep
  <1>1. /\ ~Gone(p) /\ postLock[p] = None
        /\ state' = [state EXCEPT ![p] = IF @ = "VISIBLE" THEN "HIDDEN" ELSE "VISIBLE"]
        /\ place' = place /\ postCount' = postCount /\ sugg' = sugg /\ notices' = notices
        /\ postLock' = postLock /\ placeLock' = placeLock /\ suggLock' = suggLock
        /\ req' = req
    BY DEF ModerationChanges, locks
  <1>2. TypeOK /\ AllKnow /\ OwedIsCounted /\ OneNoticePerAcceptance
    BY DEF IInv
  <1>3. /\ state' \in [Posts -> {"absent", "VISIBLE", "HIDDEN", "DELETED"}]
        /\ \A x \in Posts \ {p} : state'[x] = state[x]
        /\ state'[p] \in {"VISIBLE", "HIDDEN"}
    BY <1>1, <1>2 DEF TypeOK
  <1>4. TypeOK'
    BY <1>1, <1>2, <1>3 DEF TypeOK
  <1>5. \A x \in Posts : Gone(x)' <=> Gone(x)
    BY <1>1, <1>3 DEF Gone
  <1>6. ASSUME NEW r \in Requests
        PROVE  Knows(r)'
    <2>1. Knows(r)
      BY <1>2 DEF AllKnow
    <2>2. RowClaim(r)' /\ KindClaim(r)' /\ ResolveClaim(r)' /\ SettleClaim(r)'
      BY <1>1, <2>1
      DEF Knows, RowClaim, KindClaim, ResolveClaim, SettleClaim, Resolving, Running, Pending
    <2>3. Running(r, "DELETE")' => state'[req'[r].post] # "absent"
      <3> SUFFICES ASSUME Running(r, "DELETE")
                   PROVE  state'[req[r].post] # "absent"
        BY <1>1 DEF Running
      <3>1. req[r].post \in Posts /\ state[req[r].post] # "absent"
        BY <2>1 DEF Knows, KindClaim, PostClaim, Running
      <3> QED
        BY <1>3, <3>1
    <2>4. req[r].pc \in {"insert", "place", "settle", "commit"} =>
              /\ req[r].post \in Posts /\ postLock[req[r].post] = r /\ req[r].post # p
      BY <1>1, <2>1, NoneFacts DEF Knows, KindClaim, PostClaim, InTx
    <2>5. PostClaim(r)'
      BY <1>1, <1>3, <2>1, <2>3, <2>4 DEF Knows, PostClaim, Gone
    <2> QED
      BY <2>2, <2>5 DEF Knows
  <1>7. OwedIsCounted'
    <2>1. ASSUME NEW l \in Places
          PROVE  Owed(l)' = Owed(l)
      BY <1>1, <1>5 DEF Owed, Deleting, Running
    <2> QED
      BY <1>1, <1>2, <2>1 DEF OwedIsCounted
  <1>8. OneNoticePerAcceptance'
    BY <1>1, <1>2 DEF OneNoticePerAcceptance
  <1>9. LifeStep
    BY <1>1 DEF LifeStep
  <1> QED
    BY <1>4, <1>6, <1>7, <1>8, <1>9 DEF IInv, AllKnow

-----------------------------------------------------------------------------
(* The theorems.                                                           *)

LEMMA InitHolds == Init => IInv
  <1> SUFFICES ASSUME Init
               PROVE  IInv
    OBVIOUS
  <1>1. /\ state \in [Posts -> {"absent", "VISIBLE"}]
        /\ place \in [Posts -> Places \cup {None}]
        /\ \A p \in Posts : state[p] = "absent" => place[p] = None
        /\ postCount = [l \in Places |-> Cardinality({p \in Posts : place[p] = l})]
        /\ notices = [s \in Requests |-> 0]
        /\ postLock = [p \in Posts |-> None]
        /\ placeLock = [l \in Places |-> None]
        /\ suggLock = [s \in Requests |-> None]
        /\ req = [r \in Requests |-> IF r \in Early THEN Done ELSE Idle]
    BY DEF Init
  <1>2. PICK f \in ProposedOn(state) : sugg = [s \in Requests |-> IF s \in Early THEN f[s] ELSE None]
    BY DEF Init
  <1>3. /\ sugg \in [Requests -> Suggestion \cup {None}]
        /\ \A s \in Requests : sugg[s] # None => s \in Early /\ sugg[s].status = "PENDING"
    <2>1. f \in [Early -> {s \in Suggestion : s.status = "PENDING"} \cup {None}]
      BY DEF ProposedOn
    <2> QED
      BY <1>2, <2>1, EarlyAssumption
  <1>4. /\ \A r \in Requests : req[r].pc \in {"idle", "done"}
        /\ \A r \in Requests : req[r].pc # "done" => r \notin Early
    BY <1>1 DEF Done, Idle
  <1>5. req \in [Requests -> Request]
    BY <1>1, DoneFacts DEF Idle, Request
  <1>6. postCount \in [Places -> Nat]
    <2>1. \A l \in Places : Cardinality({p \in Posts : place[p] = l}) \in Nat
      BY OwedIsFinite
    <2> QED
      BY <1>1, <2>1
  <1>7. TypeOK
    BY <1>1, <1>3, <1>5, <1>6 DEF TypeOK
  <1>8. AllKnow
    <2> SUFFICES ASSUME NEW r \in Requests
                 PROVE  Knows(r)
      BY DEF AllKnow
    <2>1. req[r].pc \notin InTx
      BY <1>4 DEF InTx
    <2>2. RowClaim(r)
      BY <1>3, <1>4 DEF RowClaim
    <2>3. /\ req[r].pc \notin {"insert", "place", "settle", "commit"}
          /\ ~Running(r, "DELETE") /\ ~Resolving(r)
      BY <2>1 DEF InTx, Resolving, Running
    <2> QED
      BY <2>1, <2>2, <2>3 DEF Knows, KindClaim, PostClaim, ResolveClaim, SettleClaim
  <1>9. OwedIsCounted
    <2> SUFFICES ASSUME NEW l \in Places
                 PROVE  postCount[l] >= Cardinality(Owed(l))
      BY DEF OwedIsCounted
    <2> DEFINE here == {p \in Posts : place[p] = l}
    <2>1. Owed(l) \subseteq here
      BY <1>4 DEF Owed, Deleting, Running, InTx
    <2>2. IsFiniteSet(here) /\ Cardinality(here) \in Nat
      BY OwedIsFinite
    <2>3. postCount[l] = Cardinality(here)
      BY <1>1
    <2> HIDE DEF here
    <2>4. IsFiniteSet(Owed(l)) /\ Cardinality(Owed(l)) <= Cardinality(here)
      BY <2>1, <2>2, FS_Subset
    <2>5. Cardinality(Owed(l)) \in Nat
      BY <2>4, FS_CardinalityType
    <2> QED
      BY <2>2, <2>3, <2>4, <2>5
  <1>10. OneNoticePerAcceptance
    BY <1>1, <1>3 DEF OneNoticePerAcceptance
  <1> QED
    BY <1>7, <1>8, <1>9, <1>10 DEF IInv

LEMMA StepHolds ==
    ASSUME IInv, Next
    PROVE  IInv' /\ LifeStep
  <1>1. CASE \E r \in Requests, p \in Posts, l \in Places \cup {None} : Create(r, p, l)
    BY <1>1, CreateStep
  <1>2. CASE \E r \in Requests, u \in Users, p \in Posts, l \in Places : Suggest(r, u, p, l)
    BY <1>2, SuggestStep
  <1>3. CASE \E r, s \in Requests, kind \in {"ACCEPT", "REJECT"}, u \in Users :
                 Resolve(r, kind, u, s)
    BY <1>3, ResolveStep
  <1>4. CASE \E r \in Requests, u \in Users, p \in Posts : Delete(r, u, p)
    BY <1>4, DeleteStep
  <1>5. ASSUME NEW r \in Requests, Step(r) \/ Rollback(r)
        PROVE  IInv' /\ LifeStep
    <2>1. CASE LockSuggestion(r)
      BY <2>1, LockSuggestionStep
    <2>2. CASE LockPost(r)
      BY <2>2, LockPostStep
    <2>3. CASE InsertSuggestion(r)
      BY <2>3, InsertSuggestionStep
    <2>4. CASE CountPlace(r)
      BY <2>4, CountPlaceStep
    <2>5. CASE Settle(r)
      BY <2>5, SettleStep
    <2>6. CASE CommitCreate(r)
      BY <2>6, CommitCreateStep
    <2>7. CASE CommitSuggest(r)
      BY <2>7, CommitSuggestStep
    <2>8. CASE CommitReject(r)
      BY <2>8, CommitRejectStep
    <2>9. CASE CommitAccept(r)
      BY <2>9, CommitAcceptStep
    <2>10. CASE CommitDelete(r)
      BY <2>10, CommitDeleteStep
    <2>11. CASE CancelledByDetector(r) \/ Rollback(r)
      BY <2>11, RollbackStep DEF CancelledByDetector
    <2> QED
      BY <1>5, <2>1, <2>2, <2>3, <2>4, <2>5, <2>6, <2>7, <2>8, <2>9, <2>10, <2>11 DEF Step
  <1>6. CASE \E p \in Posts : ModerationChanges(p)
    BY <1>6, ModerationStep
  <1> QED
    BY <1>1, <1>2, <1>3, <1>4, <1>5, <1>6 DEF Next

LEMMA StutterHolds ==
    ASSUME IInv, UNCHANGED vars
    PROVE  IInv' /\ LifeStep
  <1>1. UNCHANGED tables /\ UNCHANGED locks /\ req' = req
    BY DEF vars
  <1>2. TypeOK' /\ OneNoticePerAcceptance'
    BY <1>1 DEF IInv, TypeOK, OneNoticePerAcceptance, tables, locks
  <1>3. AllKnow'
    BY <1>1 DEF IInv, AllKnow, Knows, RowClaim, KindClaim, PostClaim, ResolveClaim, SettleClaim,
                Resolving, Running, Pending, Gone, tables, locks
  <1>4. OwedIsCounted'
    BY <1>1 DEF IInv, OwedIsCounted, Owed, Deleting, Running, Gone, tables
  <1>5. LifeStep
    BY <1>1 DEF LifeStep, tables
  <1> QED
    BY <1>2, <1>3, <1>4, <1>5 DEF IInv

(* The inductive invariant holds in every state that the requests can      *)
(* reach, however their statements interleave.                             *)
THEOREM Invariance == Spec => []IInv
  <1>1. IInv /\ [Next]_vars => IInv'
    BY StepHolds, StutterHolds
  <1> QED
    BY <1>1, InitHolds, PTL DEF Spec

(* Every table, lock and request has its type, and a lock is held by a     *)
(* transaction that has not ended.                                         *)
THEOREM Typing == Spec => []TypeOK
  <1>1. IInv => TypeOK
    BY DEF IInv
  <1> QED
    BY <1>1, Invariance, PTL

(* An acceptance notifies whoever proposed the place once, and nobody is   *)
(* notified of a proposal that was not accepted.                           *)
THEOREM AcceptancesAreNotified == Spec => []OneNoticePerAcceptance
  <1>1. IInv => OneNoticePerAcceptance
    BY DEF IInv
  <1> QED
    BY <1>1, Invariance, PTL

(* The counter of a place never falls below the number of its posts, even  *)
(* though a deletion takes off the place it read before its transaction.   *)
THEOREM PlacesCountTheirPosts == Spec => []PostCountNeverTooLow
  <1>1. IInv => PostCountNeverTooLow
    <2> SUFFICES ASSUME IInv, NEW l \in Places
                 PROVE  postCount[l] >= Cardinality({p \in Posts : place[p] = l /\ ~Gone(p)})
      BY DEF PostCountNeverTooLow
    <2> DEFINE here == {p \in Posts : place[p] = l /\ ~Gone(p)}
    <2>1. here \subseteq Owed(l)
      BY DEF Owed
    <2>2. IsFiniteSet(Owed(l)) /\ Cardinality(Owed(l)) \in Nat
      <3>1. Owed(l) \in SUBSET Posts
        BY DEF Owed
      <3> QED
        BY <3>1, OwedIsFinite
    <2>3. IsFiniteSet(here) /\ Cardinality(here) \in Nat
      BY OwedIsFinite
    <2>4. postCount[l] >= Cardinality(Owed(l)) /\ postCount[l] \in Nat
      BY DEF IInv, OwedIsCounted, TypeOK
    <2> HIDE DEF here
    <2>5. Cardinality(here) <= Cardinality(Owed(l))
      BY <2>1, <2>2, FS_Subset
    <2>6. postCount[l] >= Cardinality(here)
      BY <2>2, <2>3, <2>4, <2>5
    <2> QED
      BY <2>6 DEF here
  <1> QED
    BY <1>1, Invariance, PTL

(* A suggestion enters for a VISIBLE post of somebody else, is resolved    *)
(* once, and its acceptance alone moves a post that is there.              *)
THEOREM SuggestionsLiveOnce == Spec => LifeOfSuggestion
  <1>1. IInv /\ [Next]_vars => [LifeStep]_vars
    BY StepHolds
  <1>2. [LifeStep]_vars => [LifeStep]_vars
    OBVIOUS
  <1> QED
    BY <1>1, Invariance, PTL DEF Spec, LifeOfSuggestion, LifeStep

===============================================================================
