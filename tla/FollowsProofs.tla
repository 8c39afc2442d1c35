----------------------------- MODULE FollowsProofs -----------------------------
(***************************************************************************)
(* Proofs about Follows, for any users and requests.  The inductive        *)
(* invariant adds to the types that who has written a row of follows and   *)
(* not committed holds that row's key, so that the row is as it found it,  *)
(* and that only finished blocks have severed rows.                        *)
(***************************************************************************)
EXTENDS Follows, FiniteSetTheorems, TLAPS

Writing(r) == req[r].pc \in {"own", "other", "commit"} /\ req[r].wrote

(* A writer holds the key of its pair, whose row is still what its INSERT  *)
(* or DELETE has found.                                                    *)
Claim(r) ==
    /\ req[r].pc \notin {"idle", "done"} => req[r].pair \in Pairs
    /\ req[r].pc \in {"own", "other"} => req[r].wrote
    /\ req[r].pc = "write" => ~req[r].wrote
    /\ Writing(r) =>
          /\ keyLock[req[r].pair] = r
          /\ \/ req[r].kind = "FOLLOW" /\ req[r].pair \notin graph
             \/ req[r].kind = "UNFOLLOW" /\ req[r].pair \in graph

ClaimsHold == \A r \in Requests : Claim(r)

(* Locks are held by writers only.                                         *)
HoldersWrite ==
    /\ \A e \in Pairs : keyLock[e] # None => Writing(keyLock[e])
    /\ \A u \in Users : rowLock[u] # None => req[rowLock[u]].pc \in {"other", "commit"}

(* The tables are finite, and what is severed was severed by a block that  *)
(* is over.                                                                *)
TablesAreFinite == IsFiniteSet(graph) /\ IsFiniteSet(severed)

SeveredByTheDone == \A cut \in severed : req[cut[1]].pc = "done"

IInv ==
    /\ TypeOK /\ ClaimsHold /\ HoldersWrite
    /\ TablesAreFinite /\ SeveredByTheDone
    /\ OnlyBlocksBreakCounters

-----------------------------------------------------------------------------
(* Rows of a table, counted by a column.                                   *)

(* A selection of a finite set is finite and has a natural cardinality.    *)
LEMMA SelectionSize ==
    ASSUME NEW S, IsFiniteSet(S), NEW T, T \subseteq S
    PROVE  IsFiniteSet(T) /\ Cardinality(T) \in Nat
  BY FS_Subset, FS_CardinalityType

LEMMA InitIInv == Init => IInv
  <1> SUFFICES ASSUME Init PROVE IInv
    OBVIOUS
  <1>1. TypeOK
    BY DEF Init, TypeOK, Idle, Request, PCs
  <1>2. ClaimsHold /\ HoldersWrite /\ SeveredByTheDone
    BY DEF Init, Idle, ClaimsHold, Claim, Writing, HoldersWrite, SeveredByTheDone
  <1>3. TablesAreFinite
    BY FS_EmptySet DEF Init, TablesAreFinite
  <1>4. OnlyBlocksBreakCounters
    <2> SUFFICES ASSUME NEW u \in Users
                 PROVE  /\ following[u] = Cardinality({e \in graph : e[1] = u})
                                          + Cardinality({cut \in severed : cut[2][1] = u})
                        /\ followers[u] = Cardinality({e \in graph : e[2] = u})
                                          + Cardinality({cut \in severed : cut[2][2] = u})
      BY DEF OnlyBlocksBreakCounters
    <2>1. /\ {e \in graph : e[1] = u} = {} /\ {cut \in severed : cut[2][1] = u} = {}
          /\ {e \in graph : e[2] = u} = {} /\ {cut \in severed : cut[2][2] = u} = {}
      BY DEF Init
    <2>2. following[u] = 0 /\ followers[u] = 0
      BY DEF Init
    <2>3. /\ Cardinality({e \in graph : e[1] = u}) = 0
          /\ Cardinality({cut \in severed : cut[2][1] = u}) = 0
          /\ Cardinality({e \in graph : e[2] = u}) = 0
          /\ Cardinality({cut \in severed : cut[2][2] = u}) = 0
      BY <2>1, FS_EmptySet, Zenon
    <2> QED
      BY <2>2, <2>3
  <1> QED
    BY <1>1, <1>2, <1>3, <1>4 DEF IInv

-----------------------------------------------------------------------------
(* Types.                                                                  *)

LEMMA NextTypeOK == IInv /\ [Next]_vars => TypeOK'
  <1> SUFFICES ASSUME IInv, [Next]_vars PROVE TypeOK'
    OBVIOUS
  <1>0. TypeOK /\ ClaimsHold /\ HoldersWrite
    BY DEF IInv
  <1>1. ASSUME NEW r \in Requests, NEW kind \in Kinds, NEW u \in Users, NEW v \in Users,
               Receive(r, kind, u, v)
        PROVE  TypeOK'
    <2>1. Sensible(u, v) => <<u, v>> \in Pairs
      BY DEF Sensible, Pairs
    <2>2. PICK q \in Request : req' = [req EXCEPT ![r] = q]
      <3>1. [Idle EXCEPT !.pc = "write", !.kind = kind, !.pair = <<u, v>>] \in Request
              \/ ~Sensible(u, v)
        BY <2>1 DEF Idle, Request, PCs
      <3>2. Done \in Request
        BY DEF Done, Idle, Request, PCs
      <3> QED
        BY <1>1, <3>1, <3>2 DEF Receive
    <2>3. req[r].pc \notin InTx
      BY <1>1 DEF Receive, InTx
    <2> QED
      BY <1>0, <1>1, <2>2, <2>3 DEF Receive, TypeOK, tables
  <1>2. ASSUME NEW r \in Requests, InsertFollow(r) \/ DeleteFollow(r) PROVE TypeOK'
    BY <1>0, <1>2 DEF InsertFollow, DeleteFollow, TypeOK, Request, PCs, InTx, tables
  <1>3. ASSUME NEW r \in Requests, UpdateOwn(r) \/ UpdateOther(r) PROVE TypeOK'
    <2>1. req[r].pair[1] \in Users /\ req[r].pair[2] \in Users
      BY <1>0, <1>3 DEF UpdateOwn, UpdateOther, ClaimsHold, Claim, Pairs
    <2>2. PICK u \in Users, pc \in InTx, next \in InTx : UpdateUser(r, pc, u, next)
      BY <1>3, <2>1 DEF UpdateOwn, UpdateOther, InTx
    <2>3. [req[r] EXCEPT !.pc = next] \in Request
      BY <1>0 DEF TypeOK, Request, PCs, InTx
    <2> QED
      BY <1>0, <2>2, <2>3 DEF UpdateUser, TypeOK, tables
  <1>4. ASSUME NEW r \in Requests, Commit(r) PROVE TypeOK'
    <2>1. req[r].pair \in Pairs
      BY <1>0, <1>4 DEF Commit, ClaimsHold, Claim
    <2>2. \A n \in Nat : n + 1 \in Nat /\ Decrement(n) \in Nat
      BY DEF Decrement
    <2>3. /\ graph' \subseteq Pairs /\ blocks' \subseteq Pairs /\ severed' \subseteq Requests \X Pairs
          /\ following' \in [Users -> Nat] /\ followers' \in [Users -> Nat]
          /\ notices' \in [Pairs -> Nat]
      BY <1>0, <1>4, <2>1, <2>2 DEF Commit, TypeOK
    <2> QED
      BY <1>0, <1>4, <2>3, NoneAssumption DEF Commit, ReleaseLocks, TypeOK, Request, PCs, InTx, Idle, Done
  <1>5. ASSUME NEW r \in Requests, Rollback(r) PROVE TypeOK'
    BY <1>0, <1>5, NoneAssumption
       DEF Rollback, ReleaseLocks, TypeOK, Request, PCs, InTx, Idle, Done, tables
  <1>6. ASSUME NEW r \in Requests, InsertBlock(r) \/ DeleteBlock(r) \/ SeverFails(r)
        PROVE  TypeOK'
    <2>1. req[r].pair \in Pairs
      BY <1>0, <1>6 DEF InsertBlock, DeleteBlock, SeverFails, ClaimsHold, Claim
    <2>2. [req[r] EXCEPT !.pc = "sever"] \in Request /\ Done \in Request
      BY <1>0 DEF TypeOK, Request, PCs, Idle, Done
    <2>3. /\ \A e \in Pairs : keyLock[e] # r
          /\ \A u \in Users : rowLock[u] # r
      BY <1>0, <1>6, NoneAssumption DEF InsertBlock, DeleteBlock, SeverFails, HoldersWrite, Writing
    <2>4. CASE InsertBlock(r)
      BY <1>0, <2>1, <2>2, <2>3, <2>4 DEF InsertBlock, TypeOK
    <2>5. CASE DeleteBlock(r)
      BY <1>0, <2>1, <2>2, <2>3, <2>5 DEF DeleteBlock, TypeOK
    <2>6. CASE SeverFails(r)
      BY <1>0, <2>1, <2>2, <2>3, <2>6 DEF SeverFails, TypeOK, tables
    <2> QED
      BY <1>6, <2>4, <2>5, <2>6
  <1>7. ASSUME NEW r \in Requests, Sever(r) PROVE TypeOK'
    BY <1>0, <1>7 DEF Sever, TypeOK, Request, PCs, InTx, Idle, Done
  <1>8. CASE UNCHANGED vars
    BY <1>0, <1>8 DEF vars, tables, TypeOK
  <1> QED
    BY <1>1, <1>2, <1>3, <1>4, <1>5, <1>6, <1>7, <1>8 DEF Next, Step, CancelledByDetector

-----------------------------------------------------------------------------
(* Claims.                                                                 *)

(* A step that leaves a request, and the row and key it has written,       *)
(* alone leaves its claim.                                                 *)
LEMMA Unaffected ==
    ASSUME NEW s \in Requests, Claim(s), req'[s] = req[s],
           Writing(s) =>
               LET e == req[s].pair
               IN  keyLock'[e] = keyLock[e] /\ (e \in graph' <=> e \in graph)
    PROVE  Claim(s)'
  BY DEF Claim, Writing

(* Two writers never claim the same pair.                                  *)
LEMMA ClaimIsExclusive ==
    ASSUME ClaimsHold, NEW r \in Requests, NEW s \in Requests, r # s,
           Writing(s), Writing(r) \/ keyLock[req[r].pair] = None
    PROVE  req[s].pair # req[r].pair
  BY NoneAssumption DEF ClaimsHold, Claim

LEMMA NextClaims == IInv /\ [Next]_vars => ClaimsHold'
  <1> SUFFICES ASSUME IInv, [Next]_vars, NEW s \in Requests PROVE Claim(s)'
    BY DEF ClaimsHold
  <1>0. TypeOK /\ ClaimsHold /\ HoldersWrite /\ Claim(s)
    BY DEF IInv, ClaimsHold
  <1>1. ASSUME NEW r \in Requests, NEW kind \in Kinds, NEW u \in Users, NEW v \in Users,
               Receive(r, kind, u, v)
        PROVE  Claim(s)'
    <2>1. CASE s = r
      BY <1>0, <1>1, <2>1 DEF Receive, Sensible, Pairs, TypeOK, Claim, Writing, Idle, Done
    <2>2. CASE s # r
      BY <1>0, <1>1, <2>2, Unaffected DEF Receive, TypeOK, tables
    <2> QED
      BY <2>1, <2>2
  <1>2. ASSUME NEW r \in Requests, InsertFollow(r) \/ DeleteFollow(r) PROVE Claim(s)'
    <2>1. req[r].pair \in Pairs
      BY <1>0, <1>2 DEF InsertFollow, DeleteFollow, ClaimsHold, Claim
    <2>2. CASE s = r
      <3>1. req[r].pc = "write" /\ graph' = graph
        BY <1>2 DEF InsertFollow, DeleteFollow, tables
      <3>2. \/ /\ req'[r] = [req[r] EXCEPT !.pc = "commit"]
            \/ /\ req'[r] = [req[r] EXCEPT !.pc = "own", !.wrote = TRUE]
               /\ keyLock'[req[r].pair] = r
               /\ \/ req[r].kind = "FOLLOW" /\ req[r].pair \notin graph
                  \/ req[r].kind = "UNFOLLOW" /\ req[r].pair \in graph
        <4>1. CASE InsertFollow(r)
          BY <1>0, <2>1, <4>1 DEF InsertFollow, TypeOK
        <4>2. CASE DeleteFollow(r)
          BY <1>0, <2>1, <4>2 DEF DeleteFollow, TypeOK
        <4> QED
          BY <1>2, <4>1, <4>2
      <3>3. req[r] \in Request /\ (req[r].pc = "write" => ~req[r].wrote)
        BY <1>0, <2>2 DEF TypeOK, Claim
      <3> QED
        BY <2>1, <2>2, <3>1, <3>2, <3>3 DEF Request, Claim, Writing
    <2>3. CASE s # r
      <3>1. req'[s] = req[s] /\ graph' = graph
        BY <1>0, <1>2, <2>3 DEF InsertFollow, DeleteFollow, TypeOK, tables
      <3>2. Writing(s) => keyLock'[req[s].pair] = keyLock[req[s].pair]
        <4>1. \/ keyLock' = keyLock
              \/ keyLock[req[r].pair] = None /\ keyLock' = [keyLock EXCEPT ![req[r].pair] = r]
          <5>1. CASE InsertFollow(r)
            BY <5>1 DEF InsertFollow
          <5>2. CASE DeleteFollow(r)
            BY <5>2 DEF DeleteFollow
          <5> QED
            BY <1>2, <5>1, <5>2
        <4>2. Writing(s) => req[s].pair \in Pairs
          BY <1>0 DEF Claim, Writing
        <4> QED
          BY <1>0, <2>3, <4>1, <4>2, ClaimIsExclusive DEF TypeOK
      <3> QED
        BY <1>0, <3>1, <3>2, Unaffected
    <2> QED
      BY <2>2, <2>3
  <1>3. ASSUME NEW r \in Requests, UpdateOwn(r) \/ UpdateOther(r) PROVE Claim(s)'
    <2>1. CASE s = r
      BY <1>0, <1>3, <2>1 DEF UpdateOwn, UpdateOther, UpdateUser, TypeOK, Request, Claim, Writing, tables
    <2>2. CASE s # r
      BY <1>0, <1>3, <2>2, Unaffected DEF UpdateOwn, UpdateOther, UpdateUser, TypeOK, tables
    <2> QED
      BY <2>1, <2>2
  <1>4. ASSUME NEW r \in Requests, Commit(r) PROVE Claim(s)'
    <2>1. CASE s = r
      BY <1>0, <1>4, <2>1 DEF Commit, TypeOK, Claim, Writing, Idle, Done
    <2>2. CASE s # r
      <3>1. req'[s] = req[s]
        BY <1>0, <1>4, <2>2 DEF Commit, TypeOK
      <3>2. Writing(s) => req[s].pair \in Pairs /\ keyLock[req[s].pair] = s
        BY <1>0 DEF Claim, Writing
      <3>3. Writing(s) => keyLock'[req[s].pair] = keyLock[req[s].pair]
        BY <1>4, <2>2, <3>2 DEF Commit, ReleaseLocks
      <3>4. Writing(s) /\ req[r].wrote => req[s].pair # req[r].pair
        BY <1>0, <1>4, <2>2, ClaimIsExclusive DEF Commit, Writing
      <3>5. Writing(s) => (req[s].pair \in graph' <=> req[s].pair \in graph)
        BY <1>4, <3>4 DEF Commit
      <3> QED
        BY <1>0, <3>1, <3>3, <3>5, Unaffected
    <2> QED
      BY <2>1, <2>2
  <1>5. ASSUME NEW r \in Requests, Rollback(r) PROVE Claim(s)'
    <2>1. CASE s = r
      BY <1>0, <1>5, <2>1 DEF Rollback, TypeOK, Claim, Writing, Idle, Done
    <2>2. CASE s # r
      <3>1. req'[s] = req[s] /\ graph' = graph
        BY <1>0, <1>5, <2>2 DEF Rollback, TypeOK, tables
      <3>2. Writing(s) => req[s].pair \in Pairs /\ keyLock[req[s].pair] = s
        BY <1>0 DEF Claim, Writing
      <3>3. Writing(s) => keyLock'[req[s].pair] = keyLock[req[s].pair]
        BY <1>5, <2>2, <3>2 DEF Rollback, ReleaseLocks
      <3> QED
        BY <1>0, <3>1, <3>3, Unaffected
    <2> QED
      BY <2>1, <2>2
  <1>6. ASSUME NEW r \in Requests, InsertBlock(r) \/ DeleteBlock(r) \/ SeverFails(r)
        PROVE  Claim(s)'
    <2>1. CASE s = r
      BY <1>0, <1>6, <2>1
         DEF InsertBlock, DeleteBlock, SeverFails, TypeOK, Request, Claim, Writing, Idle, Done
    <2>2. CASE s # r
      BY <1>0, <1>6, <2>2, Unaffected DEF InsertBlock, DeleteBlock, SeverFails, TypeOK, tables
    <2> QED
      BY <2>1, <2>2
  <1>7. ASSUME NEW r \in Requests, Sever(r) PROVE Claim(s)'
    <2>1. CASE s = r
      BY <1>0, <1>7, <2>1 DEF Sever, TypeOK, Claim, Writing, Idle, Done
    <2>2. CASE s # r
      <3>1. req'[s] = req[s] /\ keyLock' = keyLock
        BY <1>0, <1>7, <2>2 DEF Sever, TypeOK
      <3>2. Writing(s) => keyLock[req[s].pair] = s
        BY <1>0 DEF Claim, Writing
      <3>3. Writing(s) => (req[s].pair \in graph' <=> req[s].pair \in graph)
        BY <1>7, <3>2, NoneAssumption DEF Sever
      <3> QED
        BY <1>0, <3>1, <3>3, Unaffected
    <2> QED
      BY <2>1, <2>2
  <1>8. CASE UNCHANGED vars
    BY <1>0, <1>8, Unaffected DEF vars, tables
  <1> QED
    BY <1>1, <1>2, <1>3, <1>4, <1>5, <1>6, <1>7, <1>8 DEF Next, Step, CancelledByDetector

-----------------------------------------------------------------------------
(* Holders of locks.                                                       *)

LEMMA NextHolders == IInv /\ [Next]_vars => HoldersWrite'
  <1> SUFFICES ASSUME IInv, [Next]_vars PROVE HoldersWrite'
    OBVIOUS
  <1>0. TypeOK /\ ClaimsHold /\ HoldersWrite
    BY DEF IInv
  <1>1. ASSUME NEW r \in Requests, NEW kind \in Kinds, NEW u \in Users, NEW v \in Users,
               Receive(r, kind, u, v)
        PROVE  HoldersWrite'
    <2>1. req[r].pc = "idle" /\ keyLock' = keyLock /\ rowLock' = rowLock
      BY <1>1 DEF Receive
    <2>2. \A s \in Requests \ {r} : req'[s] = req[s]
      BY <1>0, <1>1 DEF Receive, TypeOK
    <2> QED
      BY <1>0, <2>1, <2>2 DEF HoldersWrite, Writing, TypeOK
  <1>2. ASSUME NEW r \in Requests, InsertFollow(r) \/ DeleteFollow(r) PROVE HoldersWrite'
    <2>1. req[r].pc = "write" /\ rowLock' = rowLock
      BY <1>2 DEF InsertFollow, DeleteFollow
    <2>2. \A s \in Requests \ {r} : req'[s] = req[s]
      BY <1>0, <1>2 DEF InsertFollow, DeleteFollow, TypeOK
    <2>3. \/ keyLock' = keyLock
          \/ /\ keyLock' = [keyLock EXCEPT ![req[r].pair] = r]
             /\ req'[r].pc = "own" /\ req'[r].wrote
      <3>1. CASE InsertFollow(r)
        BY <1>0, <3>1 DEF InsertFollow, TypeOK, Request
      <3>2. CASE DeleteFollow(r)
        BY <1>0, <3>2 DEF DeleteFollow, TypeOK, Request
      <3> QED
        BY <1>2, <3>1, <3>2
    <2> QED
      BY <1>0, <2>1, <2>2, <2>3 DEF HoldersWrite, Writing, TypeOK
  <1>3. ASSUME NEW r \in Requests, UpdateOwn(r) \/ UpdateOther(r) PROVE HoldersWrite'
    <2>1. PICK u : /\ rowLock' = [rowLock EXCEPT ![u] = r]
                   /\ keyLock' = keyLock
                   /\ req[r].pc \in {"own", "other"}
                   /\ \/ req' = [req EXCEPT ![r].pc = "other"]
                      \/ req' = [req EXCEPT ![r].pc = "commit"]
      BY <1>3 DEF UpdateOwn, UpdateOther, UpdateUser
    <2>2. req'[r].pc \in {"other", "commit"} /\ (req'[r].wrote <=> req[r].wrote)
      BY <1>0, <2>1 DEF TypeOK, Request
    <2>3. \A s \in Requests \ {r} : req'[s] = req[s]
      BY <1>0, <2>1 DEF TypeOK
    <2> QED
      BY <1>0, <2>1, <2>2, <2>3 DEF HoldersWrite, Writing, TypeOK
  <1>4. ASSUME NEW r \in Requests, Commit(r) \/ Rollback(r) PROVE HoldersWrite'
    <2>1. \A s \in Requests \ {r} : req'[s] = req[s]
      BY <1>0, <1>4 DEF Commit, Rollback, TypeOK
    <2>2. ReleaseLocks(r)
      BY <1>4 DEF Commit, Rollback
    <2> QED
      BY <1>0, <2>1, <2>2, NoneAssumption DEF ReleaseLocks, HoldersWrite, Writing, TypeOK
  <1>5. ASSUME NEW r \in Requests,
               InsertBlock(r) \/ DeleteBlock(r) \/ Sever(r) \/ SeverFails(r)
        PROVE  HoldersWrite'
    <2>1. \A s \in Requests \ {r} : req'[s] = req[s]
      BY <1>0, <1>5 DEF InsertBlock, DeleteBlock, Sever, SeverFails, TypeOK
    <2>2. /\ req[r].pc \in {"write", "sever"}
          /\ keyLock' = keyLock /\ rowLock' = rowLock
      BY <1>5 DEF InsertBlock, DeleteBlock, Sever, SeverFails
    <2> QED
      BY <1>0, <2>1, <2>2 DEF HoldersWrite, Writing, TypeOK
  <1>6. CASE UNCHANGED vars
    BY <1>0, <1>6 DEF vars, HoldersWrite, Writing
  <1> QED
    BY <1>1, <1>2, <1>3, <1>4, <1>5, <1>6 DEF Next, Step, CancelledByDetector

-----------------------------------------------------------------------------
(* Tables.                                                                 *)

LEMMA NextTables == IInv /\ [Next]_vars => TablesAreFinite' /\ SeveredByTheDone'
  <1> SUFFICES ASSUME IInv, [Next]_vars PROVE TablesAreFinite' /\ SeveredByTheDone'
    OBVIOUS
  <1>0. TypeOK /\ TablesAreFinite /\ SeveredByTheDone
    BY DEF IInv
  <1>1. ASSUME NEW r \in Requests, req[r].pc # "done", severed' = severed,
               graph' = graph, NEW q, req' = [req EXCEPT ![r] = q]
        PROVE  TablesAreFinite' /\ SeveredByTheDone'
    BY <1>0, <1>1 DEF TablesAreFinite, SeveredByTheDone, TypeOK
  <1>2. ASSUME NEW r \in Requests, NEW kind \in Kinds, NEW u \in Users, NEW v \in Users,
               Receive(r, kind, u, v)
        PROVE  TablesAreFinite' /\ SeveredByTheDone'
    BY <1>1, <1>2 DEF Receive, tables
  <1>3. ASSUME NEW r \in Requests, InsertFollow(r) \/ DeleteFollow(r)
        PROVE  TablesAreFinite' /\ SeveredByTheDone'
    <2>1. \A s \in Requests \ {r} : req'[s] = req[s]
      BY <1>0, <1>3 DEF InsertFollow, DeleteFollow, TypeOK
    <2>2. req[r].pc = "write" /\ graph' = graph /\ severed' = severed
      BY <1>3 DEF InsertFollow, DeleteFollow, tables
    <2> QED
      BY <1>0, <2>1, <2>2 DEF TablesAreFinite, SeveredByTheDone, TypeOK
  <1>4. ASSUME NEW r \in Requests,
               UpdateOwn(r) \/ UpdateOther(r) \/ Rollback(r) \/ InsertBlock(r)
                 \/ DeleteBlock(r) \/ SeverFails(r)
        PROVE  TablesAreFinite' /\ SeveredByTheDone'
    <2>1. \A s \in Requests \ {r} : req'[s] = req[s]
      BY <1>0, <1>4 DEF UpdateOwn, UpdateOther, UpdateUser, Rollback, InsertBlock, DeleteBlock,
                        SeverFails, TypeOK
    <2>2. req[r].pc # "done" /\ graph' = graph /\ severed' = severed
      BY <1>4 DEF UpdateOwn, UpdateOther, UpdateUser, Rollback, InTx, InsertBlock, DeleteBlock,
                  SeverFails, tables
    <2> QED
      BY <1>0, <2>1, <2>2 DEF TablesAreFinite, SeveredByTheDone, TypeOK
  <1>5. ASSUME NEW r \in Requests, Commit(r) PROVE TablesAreFinite' /\ SeveredByTheDone'
    <2>1. \A s \in Requests \ {r} : req'[s] = req[s]
      BY <1>0, <1>5 DEF Commit, TypeOK
    <2>2. req[r].pc # "done" /\ severed' = severed
      BY <1>5 DEF Commit
    <2>3. \/ graph' = graph
          \/ graph' = graph \cup {req[r].pair}
          \/ graph' = graph \ {req[r].pair}
      BY <1>5 DEF Commit
    <2>4. IsFiniteSet(graph')
      BY <1>0, <2>3, FS_AddElement, FS_RemoveElement DEF TablesAreFinite
    <2> QED
      BY <1>0, <2>1, <2>2, <2>4 DEF TablesAreFinite, SeveredByTheDone, TypeOK
  <1>6. ASSUME NEW r \in Requests, Sever(r) PROVE TablesAreFinite' /\ SeveredByTheDone'
    <2> DEFINE gone == graph \cap {req[r].pair, Reverse(req[r].pair)}
    <2>1. severed' = severed \cup ({r} \X gone) /\ graph' = graph \ gone
      BY <1>6 DEF Sever
    <2>2. /\ req'[r].pc = "done"
          /\ \A s \in Requests \ {r} : req'[s] = req[s]
      BY <1>0, <1>6 DEF Sever, TypeOK, Done, Idle
    <2> HIDE DEF gone
    <2>3. SeveredByTheDone'
      BY <1>0, <2>1, <2>2 DEF SeveredByTheDone, TypeOK
    <2>4. IsFiniteSet({r}) /\ IsFiniteSet(gone) /\ IsFiniteSet(graph')
      BY <1>0, <2>1, FS_Singleton, FS_Subset DEF TablesAreFinite, gone
    <2>5. IsFiniteSet({r} \X gone)
      BY <2>4, FS_Product
    <2>6. IsFiniteSet(severed')
      BY <1>0, <2>1, <2>5, FS_Union DEF TablesAreFinite
    <2> QED
      BY <2>3, <2>4, <2>6 DEF TablesAreFinite
  <1>7. CASE UNCHANGED vars
    BY <1>0, <1>7 DEF vars, tables, TablesAreFinite, SeveredByTheDone
  <1> QED
    BY <1>2, <1>3, <1>4, <1>5, <1>6, <1>7 DEF Next, Step, CancelledByDetector

-----------------------------------------------------------------------------
(* Counters.                                                               *)

(* The rows of table g whose k-th column is u, and what the blocks in v    *)
(* have severed of them.                                                   *)
Rows(g, k, u) == {e \in g : e[k] = u}

Cuts(v, k, u) == {cut \in v : cut[2][k] = u}

One(e, k, u) == IF e[k] = u THEN 1 ELSE 0

(* Sizes of what remains of a set and of disjoint sets put together.       *)
LEMMA SizeWithout ==
    ASSUME NEW S, IsFiniteSet(S), NEW T, T \subseteq S
    PROVE  Cardinality(S \ T) = Cardinality(S) - Cardinality(T)
  <1>1. S \cap T = T
    OBVIOUS
  <1>2. Cardinality(S \ T) = Cardinality(S) - Cardinality(S \cap T)
    BY FS_Difference, Zenon
  <1> QED
    BY <1>1, <1>2, Zenon

LEMMA SizeTogether ==
    ASSUME NEW S, IsFiniteSet(S), NEW T, IsFiniteSet(T), S \cap T = {}
    PROVE  Cardinality(S \cup T) = Cardinality(S) + Cardinality(T)
  <1>1. Cardinality(S \cup T) = Cardinality(S) + Cardinality(T) - Cardinality(S \cap T)
    BY FS_Union, Zenon
  <1>2. Cardinality(S \cap T) = 0
    BY FS_EmptySet, Zenon
  <1>3. Cardinality(S) \in Nat /\ Cardinality(T) \in Nat
    BY FS_CardinalityType
  <1> QED
    BY <1>1, <1>2, <1>3

LEMMA RowAdded ==
    ASSUME NEW g, IsFiniteSet(g), NEW e, e \notin g, NEW k, NEW u
    PROVE  Cardinality(Rows(g \cup {e}, k, u)) = Cardinality(Rows(g, k, u)) + One(e, k, u)
  <1>1. IsFiniteSet(Rows(g, k, u)) /\ Cardinality(Rows(g, k, u)) \in Nat
    BY SelectionSize DEF Rows
  <1>2. CASE e[k] = u
    <2>1. Rows(g \cup {e}, k, u) = Rows(g, k, u) \cup {e} /\ e \notin Rows(g, k, u)
      BY <1>2 DEF Rows
    <2> QED
      BY <1>1, <1>2, <2>1, FS_AddElement DEF One
  <1>3. CASE e[k] # u
    <2>1. Rows(g \cup {e}, k, u) = Rows(g, k, u)
      BY <1>3 DEF Rows
    <2> QED
      BY <1>1, <1>3, <2>1 DEF One
  <1> QED
    BY <1>2, <1>3

LEMMA RowRemoved ==
    ASSUME NEW g, IsFiniteSet(g), NEW e, e \in g, NEW k, NEW u
    PROVE  /\ Cardinality(Rows(g \ {e}, k, u)) = Cardinality(Rows(g, k, u)) - One(e, k, u)
           /\ One(e, k, u) <= Cardinality(Rows(g, k, u))
  <1>1. IsFiniteSet(Rows(g, k, u)) /\ Cardinality(Rows(g, k, u)) \in Nat
    BY SelectionSize DEF Rows
  <1>2. CASE e[k] = u
    <2>1. Rows(g \ {e}, k, u) = Rows(g, k, u) \ {e} /\ e \in Rows(g, k, u)
      BY <1>2 DEF Rows
    <2>2. /\ IsFiniteSet(Rows(g, k, u) \ {e})
          /\ Cardinality(Rows(g, k, u) \ {e}) = Cardinality(Rows(g, k, u)) - 1
      BY <1>1, <2>1, FS_RemoveElement
    <2>3. Cardinality(Rows(g, k, u) \ {e}) \in Nat
      BY <2>2, FS_CardinalityType
    <2>4. Cardinality(Rows(g \ {e}, k, u)) = Cardinality(Rows(g, k, u) \ {e})
      BY <2>1, Zenon
    <2>5. One(e, k, u) = 1
      BY <1>2 DEF One
    <2> QED
      BY <1>1, <2>2, <2>3, <2>4, <2>5
  <1>3. CASE e[k] # u
    <2>1. Rows(g \ {e}, k, u) = Rows(g, k, u)
      BY <1>3 DEF Rows
    <2> QED
      BY <1>1, <1>3, <2>1 DEF One
  <1> QED
    BY <1>2, <1>3

LEMMA CountersByRows ==
    OnlyBlocksBreakCounters <=>
      \A u \in Users :
        /\ following[u] = Cardinality(Rows(graph, 1, u)) + Cardinality(Cuts(severed, 1, u))
        /\ followers[u] = Cardinality(Rows(graph, 2, u)) + Cardinality(Cuts(severed, 2, u))
  BY DEF OnlyBlocksBreakCounters, Rows, Cuts

(* Moving rows from the graph to what r has severed keeps their number.    *)
LEMMA RowsSevered ==
    ASSUME IInv, NEW r \in Requests, Sever(r), NEW k, NEW u
    PROVE  Cardinality(Rows(graph', k, u)) + Cardinality(Cuts(severed', k, u))
             = Cardinality(Rows(graph, k, u)) + Cardinality(Cuts(severed, k, u))
  <1> DEFINE gone == graph \cap {req[r].pair, Reverse(req[r].pair)}
  <1>a. /\ severed' = severed \cup ({r} \X gone) /\ graph' = graph \ gone
        /\ gone \subseteq graph
    BY DEF Sever
  <1>b. /\ \A cut \in severed : cut[1] # r
        /\ IsFiniteSet(graph) /\ IsFiniteSet(severed)
    BY DEF IInv, SeveredByTheDone, TablesAreFinite, Sever
  <1> HIDE DEF gone
  <1> DEFINE cutNow == Rows(gone, k, u)
  <1>1. /\ IsFiniteSet(cutNow) /\ Cardinality(cutNow) \in Nat
        /\ IsFiniteSet(Rows(graph, k, u)) /\ Cardinality(Rows(graph, k, u)) \in Nat
        /\ IsFiniteSet(Cuts(severed, k, u)) /\ Cardinality(Cuts(severed, k, u)) \in Nat
    <2>1. IsFiniteSet(gone)
      BY <1>a, <1>b, FS_Subset
    <2> QED
      BY <1>b, <2>1, SelectionSize DEF Rows, Cuts
  <1>2. Cardinality(Rows(graph \ gone, k, u)) = Cardinality(Rows(graph, k, u)) - Cardinality(cutNow)
    <2>1. Rows(graph \ gone, k, u) = Rows(graph, k, u) \ cutNow /\ cutNow \subseteq Rows(graph, k, u)
      BY <1>a DEF Rows
    <2> QED
      BY <1>1, <2>1, SizeWithout, Zenon
  <1>3. Cardinality(Cuts(severed \cup ({r} \X gone), k, u))
          = Cardinality(Cuts(severed, k, u)) + Cardinality(cutNow)
    <2>1. /\ Cuts(severed \cup ({r} \X gone), k, u) = Cuts(severed, k, u) \cup ({r} \X cutNow)
          /\ Cuts(severed, k, u) \cap ({r} \X cutNow) = {}
      BY <1>b DEF Rows, Cuts
    <2>2. IsFiniteSet({r}) /\ Cardinality({r}) = 1
      BY FS_Singleton
    <2>3. IsFiniteSet({r} \X cutNow) /\ Cardinality({r} \X cutNow) = Cardinality(cutNow)
      <3>1. IsFiniteSet({r} \X cutNow) /\ Cardinality({r} \X cutNow) = Cardinality({r}) * Cardinality(cutNow)
        BY <1>1, <2>2, FS_Product, Zenon
      <3>2. \A n \in Nat : 1 * n = n
        OBVIOUS
      <3> HIDE DEF cutNow
      <3> QED
        BY <1>1, <2>2, <3>1, <3>2
    <2> HIDE DEF cutNow
    <2> QED
      BY <1>1, <2>1, <2>3, SizeTogether, Zenon
  <1> HIDE DEF cutNow
  <1> QED
    BY <1>a, <1>1, <1>2, <1>3

LEMMA CommitCounts ==
    ASSUME IInv, NEW r \in Requests, Commit(r), NEW u \in Users
    PROVE  /\ following'[u] = Cardinality(Rows(graph', 1, u)) + Cardinality(Cuts(severed', 1, u))
           /\ followers'[u] = Cardinality(Rows(graph', 2, u)) + Cardinality(Cuts(severed', 2, u))
  <1> DEFINE e == req[r].pair
  <1>0. /\ TypeOK /\ ClaimsHold /\ TablesAreFinite
        /\ following[u] = Cardinality(Rows(graph, 1, u)) + Cardinality(Cuts(severed, 1, u))
        /\ followers[u] = Cardinality(Rows(graph, 2, u)) + Cardinality(Cuts(severed, 2, u))
        /\ following[u] \in Nat /\ followers[u] \in Nat
    BY CountersByRows DEF IInv, TypeOK
  <1>1. severed' = severed /\ e \in Pairs /\ e[1] \in Users /\ e[2] \in Users
    BY <1>0 DEF Commit, ClaimsHold, Claim, Pairs
  <1>2. /\ Cardinality(Rows(graph, 1, u)) \in Nat /\ Cardinality(Rows(graph, 2, u)) \in Nat
        /\ Cardinality(Cuts(severed, 1, u)) \in Nat /\ Cardinality(Cuts(severed, 2, u)) \in Nat
    BY <1>0, SelectionSize DEF TablesAreFinite, Rows, Cuts
  <1>3. CASE ~req[r].wrote
    BY <1>0, <1>3 DEF Commit
  <1>4. CASE req[r].wrote /\ req[r].kind = "FOLLOW"
    <2>1. e \notin graph
      BY <1>0, <1>4 DEF Commit, ClaimsHold, Claim, Writing
    <2>2. /\ graph' = graph \cup {e}
          /\ following' = [following EXCEPT ![e[1]] = @ + 1]
          /\ followers' = [followers EXCEPT ![e[2]] = @ + 1]
      BY <1>4 DEF Commit
    <2>3. /\ following'[u] = following[u] + One(e, 1, u)
          /\ followers'[u] = followers[u] + One(e, 2, u)
      BY <1>0, <1>1, <2>2 DEF One, TypeOK
    <2>4. /\ Cardinality(Rows(graph', 1, u)) = Cardinality(Rows(graph, 1, u)) + One(e, 1, u)
          /\ Cardinality(Rows(graph', 2, u)) = Cardinality(Rows(graph, 2, u)) + One(e, 2, u)
      BY <1>0, <2>1, <2>2, RowAdded DEF TablesAreFinite
    <2>5. One(e, 1, u) \in 0..1 /\ One(e, 2, u) \in 0..1
      BY DEF One
    <2> HIDE DEF e
    <2> QED
      BY <1>0, <1>1, <1>2, <2>3, <2>4, <2>5
  <1>5. CASE req[r].wrote /\ req[r].kind # "FOLLOW"
    <2>1. e \in graph
      BY <1>0, <1>5 DEF Commit, ClaimsHold, Claim, Writing
    <2>2. /\ graph' = graph \ {e}
          /\ following' = [following EXCEPT ![e[1]] = Decrement(@)]
          /\ followers' = [followers EXCEPT ![e[2]] = Decrement(@)]
      BY <1>5 DEF Commit
    <2>4. /\ Cardinality(Rows(graph', 1, u)) = Cardinality(Rows(graph, 1, u)) - One(e, 1, u)
          /\ Cardinality(Rows(graph', 2, u)) = Cardinality(Rows(graph, 2, u)) - One(e, 2, u)
          /\ One(e, 1, u) <= Cardinality(Rows(graph, 1, u))
          /\ One(e, 2, u) <= Cardinality(Rows(graph, 2, u))
      BY <1>0, <2>1, <2>2, RowRemoved DEF TablesAreFinite
    <2>5. One(e, 1, u) \in 0..1 /\ One(e, 2, u) \in 0..1
      BY DEF One
    <2>6. One(e, 1, u) <= following[u] /\ One(e, 2, u) <= followers[u]
      <3> HIDE DEF e
      <3> QED
        BY <1>0, <1>2, <2>4, <2>5
    <2>3. /\ following'[u] = following[u] - One(e, 1, u)
          /\ followers'[u] = followers[u] - One(e, 2, u)
      BY <1>0, <1>1, <2>2, <2>6 DEF One, Decrement, TypeOK
    <2> HIDE DEF e
    <2> QED
      BY <1>0, <1>1, <1>2, <2>3, <2>4, <2>5
  <1> QED
    BY <1>3, <1>4, <1>5

LEMMA NextCounters == IInv /\ [Next]_vars => OnlyBlocksBreakCounters'
  <1> SUFFICES ASSUME IInv, [Next]_vars PROVE OnlyBlocksBreakCounters'
    OBVIOUS
  <1>0. TypeOK /\ TablesAreFinite /\ SeveredByTheDone /\ OnlyBlocksBreakCounters
    BY DEF IInv
  <1>1. CASE UNCHANGED <<graph, following, followers, severed>>
    BY <1>0, <1>1 DEF OnlyBlocksBreakCounters
  <1>2. ASSUME NEW r \in Requests, Commit(r) PROVE OnlyBlocksBreakCounters'
    <2>1. \A u \in Users :
            /\ following'[u] = Cardinality(Rows(graph', 1, u)) + Cardinality(Cuts(severed', 1, u))
            /\ followers'[u] = Cardinality(Rows(graph', 2, u)) + Cardinality(Cuts(severed', 2, u))
      BY <1>2, CommitCounts
    <2> QED
      BY <2>1 DEF OnlyBlocksBreakCounters, Rows, Cuts
  <1>3. ASSUME NEW r \in Requests, Sever(r) PROVE OnlyBlocksBreakCounters'
    <2>1. following' = following /\ followers' = followers
      BY <1>3 DEF Sever
    <2>4. \A u \in Users, k \in {1, 2} :
             Cardinality(Rows(graph', k, u)) + Cardinality(Cuts(severed', k, u))
               = Cardinality(Rows(graph, k, u)) + Cardinality(Cuts(severed, k, u))
      BY <1>3, RowsSevered
    <2>5. \A u \in Users :
            /\ following'[u] = Cardinality(Rows(graph', 1, u)) + Cardinality(Cuts(severed', 1, u))
            /\ followers'[u] = Cardinality(Rows(graph', 2, u)) + Cardinality(Cuts(severed', 2, u))
      BY <1>0, <2>1, <2>4, CountersByRows
    <2> QED
      BY <2>5 DEF OnlyBlocksBreakCounters, Rows, Cuts
  <1> QED
    BY <1>1, <1>2, <1>3
       DEF Next, Step, CancelledByDetector, vars, tables, Receive, InsertFollow, DeleteFollow,
           UpdateOwn, UpdateOther, UpdateUser, Rollback, InsertBlock, DeleteBlock, SeverFails

-----------------------------------------------------------------------------
(* The theorems.                                                           *)

(* The inductive invariant holds: writers hold the keys of the rows they   *)
(* have written, and so every counter moves with its rows.                 *)
THEOREM Invariance == Spec => []IInv
  <1>1. IInv /\ [Next]_vars => IInv'
    BY NextTypeOK, NextClaims, NextHolders, NextTables, NextCounters DEF IInv
  <1> QED
    BY InitIInv, <1>1, PTL DEF Spec

(* Types, and locks held only inside transactions.                         *)
THEOREM Typing == Spec => []TypeOK
  <1>1. IInv => TypeOK
    BY DEF IInv
  <1> QED
    BY Invariance, <1>1, PTL

(* Whatever the interleaving of follows, unfollows, rollbacks and blocks,  *)
(* the counters of users are off by exactly the rows that blocks deleted.  *)
THEOREM CountersMoveWithRows == Spec => []OnlyBlocksBreakCounters
  <1>1. IInv => OnlyBlocksBreakCounters
    BY DEF IInv
  <1> QED
    BY Invariance, <1>1, PTL

NoticeStep ==
    \A e \in Pairs :
       /\ e \notin graph /\ e \in graph' => notices'[e] = notices[e] + 1
       /\ e \in graph \/ e \notin graph' => notices'[e] = notices[e]

LEMMA NextNotices == IInv /\ [Next]_vars => [NoticeStep]_vars
  <1> SUFFICES ASSUME IInv, [Next]_vars PROVE NoticeStep \/ UNCHANGED vars
    OBVIOUS
  <1>0. TypeOK /\ ClaimsHold
    BY DEF IInv
  <1>1. CASE UNCHANGED <<graph, notices>>
    BY <1>1 DEF NoticeStep
  <1>2. ASSUME NEW r \in Requests, Commit(r) PROVE NoticeStep
    <2>1. CASE ~req[r].wrote
      BY <1>2, <2>1 DEF Commit, NoticeStep
    <2>2. CASE req[r].wrote /\ req[r].kind = "FOLLOW"
      BY <1>0, <1>2, <2>2 DEF Commit, NoticeStep, TypeOK, ClaimsHold, Claim, Writing
    <2>3. CASE req[r].wrote /\ req[r].kind # "FOLLOW"
      BY <1>0, <1>2, <2>3 DEF Commit, NoticeStep
    <2> QED
      BY <2>1, <2>2, <2>3
  <1>3. ASSUME NEW r \in Requests, Sever(r) PROVE NoticeStep
    BY <1>3 DEF Sever, NoticeStep
  <1> QED
    BY <1>1, <1>2, <1>3
       DEF Next, Step, CancelledByDetector, vars, tables, Receive, InsertFollow, DeleteFollow,
           UpdateOwn, UpdateOther, UpdateUser, Rollback, InsertBlock, DeleteBlock, SeverFails

(* A FOLLOW notification is written with a new row and at no other time.   *)
THEOREM NoticeWithTheRow == Spec => NoticeOnlyForNewFollow
  BY Invariance, NextNotices, PTL DEF Spec, NoticeOnlyForNewFollow, NoticeStep

=============================================================================
