-------------------------- MODULE LocationSuggestions --------------------------
(***************************************************************************)
(* Readers suggest where a post was eaten, its author accepts or rejects,  *)
(* and places.post_count counts the posts of a place: it goes up when a    *)
(* post is created at a place or a suggestion is accepted, and down when a *)
(* post is deleted.  Each request is a READ COMMITTED transaction;         *)
(* postLock, placeLock and suggLock are the row locks it holds to its end, *)
(* and what it writes under them becomes visible at its commit.            *)
(***************************************************************************)
EXTENDS Integers, FiniteSets

CONSTANTS
    Users,
    Posts,
    Author,         \* Author[p] writes post p
    Places,         \* all ACTIVE: no code changes a place's status
    Requests,       \* each request is served once, and names its suggestion
    Early,          \* requests served before the behaviour begins
    None

ASSUME SuggestionAuthors == Author \in [Posts -> Users]
ASSUME EarlyAssumption == Early \subseteq Requests
ASSUME PostsAssumption == IsFiniteSet(Posts)    \* a table has finitely many rows

VARIABLES
    state,          \* state[p]: "absent", "VISIBLE", "HIDDEN" or "DELETED"
    place,          \* place[p]: posts.place_id, or None
    postCount,      \* postCount[l]: places.post_count
    sugg,           \* sugg[s]: the committed row of location_suggestions
    notices,        \* notices[s]: LOCATION_ACCEPTED notifications for s
    postLock, placeLock, suggLock,
    req

tables == <<state, place, postCount, sugg, notices>>
locks == <<postLock, placeLock, suggLock>>
vars == <<tables, locks, req>>

Statuses == {"PENDING", "ACCEPTED", "REJECTED"}

Suggestion == [post : Posts, by : Users, place : Places, status : Statuses]

(* None is no row, place or request: SQL's NULL.                           *)
ASSUME NoneAssumption == None \notin Places \cup Requests \cup Suggestion

Kinds == {"CREATE", "SUGGEST", "ACCEPT", "REJECT", "DELETE"}

(* Statements of a transaction that may wait, in the order they come.      *)
InTx == {"suggestion", "post", "insert", "place", "settle", "commit"}

(* place is the place asked for, the suggested one, or the one a delete    *)
(* has read before its transaction.  wrote: a suggestion was inserted.     *)
Request == [pc : InTx \cup {"idle", "done"}, kind : Kinds \cup {None},
            user : Users \cup {None}, post : Posts \cup {None},
            place : Places \cup {None}, target : Requests \cup {None}, wrote : BOOLEAN]

Idle == [pc |-> "idle", kind |-> None, user |-> None, post |-> None, place |-> None,
         target |-> None, wrote |-> FALSE]

Done == [Idle EXCEPT !.pc = "done"]

(* Pending suggestions of readers on posts, each proposal at most once.    *)
ProposedOn(posts) ==
    LET proposals == {s \in Suggestion : s.status = "PENDING" /\ s.by # Author[s.post]
                                          /\ posts[s.post] = "VISIBLE"}
    IN  {f \in [Early -> proposals \cup {None}] :
           \A s, t \in Early : f[s] = f[t] /\ f[s] # None => s = t}

(* Some posts exist, with or without a place, are counted there and may    *)
(* have suggestions pending from the early requests.                       *)
Init ==
    /\ state \in [Posts -> {"absent", "VISIBLE"}]
    /\ place \in {f \in [Posts -> Places \cup {None}] :
                    \A p \in Posts : state[p] = "absent" => f[p] = None}
    /\ postCount = [l \in Places |-> Cardinality({p \in Posts : place[p] = l})]
    /\ \E f \in ProposedOn(state) :
          sugg = [s \in Requests |-> IF s \in Early THEN f[s] ELSE None]
    /\ notices = [s \in Requests |-> 0]
    /\ postLock = [p \in Posts |-> None]
    /\ placeLock = [l \in Places |-> None]
    /\ suggLock = [s \in Requests |-> None]
    /\ req = [r \in Requests |-> IF r \in Early THEN Done ELSE Idle]

-----------------------------------------------------------------------------
(* Requests arrive.                                                        *)

Free(lock, r) == [x \in DOMAIN lock |-> IF lock[x] = r THEN None ELSE lock[x]]

(* A refusal that forgets to roll back.                                    *)
Finish_LeavesOpen(r) ==
    /\ req' = [req EXCEPT ![r] = Done]
    /\ UNCHANGED locks

(* COMMIT, ROLLBACK and a refusal end a transaction alike: no lock stays.  *)
Finish(r) ==
    /\ postLock' = Free(postLock, r)
    /\ placeLock' = Free(placeLock, r)
    /\ suggLock' = Free(suggLock, r)
    /\ req' = [req EXCEPT ![r] = Done]

Start(r, begun) ==
    /\ req[r].pc = "idle"
    /\ req' = [req EXCEPT ![r] = begun]

(* A new post's row is its creator's until the commit shows it.            *)
Create(r, p, l) ==
    /\ state[p] = "absent" /\ postLock[p] = None
    /\ Start(r, [Idle EXCEPT !.pc = IF l = None THEN "commit" ELSE "place", !.kind = "CREATE",
                             !.user = Author[p], !.post = p, !.place = l])
    /\ postLock' = [postLock EXCEPT ![p] = r]
    /\ UNCHANGED <<tables, placeLock, suggLock>>

Suggest(r, u, p, l) ==
    /\ Start(r, [Idle EXCEPT !.pc = "post", !.kind = "SUGGEST", !.user = u, !.post = p,
                             !.place = l])
    /\ UNCHANGED <<tables, locks>>

Resolve(r, kind, u, s) ==
    /\ Start(r, [Idle EXCEPT !.pc = "suggestion", !.kind = kind, !.user = u, !.target = s])
    /\ UNCHANGED <<tables, locks>>

Gone(p) == state[p] \in {"absent", "DELETED"}

(* Delete reads the post on the pool, then begins its transaction.         *)
Delete(r, u, p) ==
    /\ Start(r, IF Gone(p) \/ u # Author[p] THEN Done
                ELSE [Idle EXCEPT !.pc = "post", !.kind = "DELETE", !.user = u, !.post = p,
                                  !.place = place[p]])
    /\ UNCHANGED <<tables, locks>>

-----------------------------------------------------------------------------
(* Statements.                                                             *)

(* SELECT ... FOR UPDATE of Resolve locks the suggestion, then its post.   *)
LockSuggestion(r) ==
    LET s == req[r].target
    IN  /\ req[r].pc = "suggestion"
        /\ IF sugg[s] = None
           THEN Finish(r)
           ELSE /\ suggLock[s] = None
                /\ suggLock' = [suggLock EXCEPT ![s] = r]
                /\ req' = [req EXCEPT ![r].pc = "post", ![r].post = sugg[s].post,
                                      ![r].place = sugg[s].place]
                /\ UNCHANGED <<postLock, placeLock>>
        /\ UNCHANGED tables

(* Resolve without the check of the suggestion's status.                   *)
MayProceed_AnyStatus(r) ==
    LET p == req[r].post
    IN  CASE req[r].kind = "SUGGEST" -> state[p] = "VISIBLE" /\ req[r].user # Author[p]
          [] req[r].kind = "DELETE" -> ~Gone(p)
          [] OTHER -> req[r].user = Author[p]

(* What the handlers check once the post is locked, or does not match.     *)
MayProceed(r) ==
    LET p == req[r].post
    IN  CASE req[r].kind = "SUGGEST" -> state[p] = "VISIBLE" /\ req[r].user # Author[p]
          [] req[r].kind = "DELETE" -> ~Gone(p)
          [] OTHER -> req[r].user = Author[p] /\ sugg[req[r].target].status = "PENDING"

AfterPost(r) ==
    CASE req[r].kind = "SUGGEST" -> "insert"
      [] req[r].kind = "ACCEPT" -> "place"
      [] req[r].kind = "REJECT" -> "commit"
      [] req[r].kind = "DELETE" -> IF req[r].place = None THEN "commit" ELSE "place"

(* The SELECT of Suggest and the UPDATE of Delete match no deleted post,   *)
(* Resolve locks it whatever its state.                                    *)
PostMatches(r) == req[r].kind \in {"ACCEPT", "REJECT"} \/ ~Gone(req[r].post)

LockPost(r) ==
    LET p == req[r].post
    IN  /\ req[r].pc = "post"
        /\ PostMatches(r) => postLock[p] = None
        /\ IF MayProceed(r)
           THEN /\ postLock' = [postLock EXCEPT ![p] = r]
                /\ req' = [req EXCEPT ![r].pc = AfterPost(r)]
                /\ UNCHANGED <<placeLock, suggLock>>
           ELSE Finish(r)
        /\ UNCHANGED tables

Pending(p) == {s \in Requests : sugg[s] # None /\ sugg[s].post = p /\ sugg[s].status = "PENDING"}

(* The caller's own pending suggestion of the same place.                  *)
Repeated(r) == {s \in Pending(req[r].post) : sugg[s].by = req[r].user /\ sugg[s].place = req[r].place}

(* INSERT ... ON CONFLICT (one pending row per proposal) DO UPDATE note.   *)
InsertSuggestion(r) ==
    /\ req[r].pc = "insert"
    /\ \A s \in Repeated(r) : suggLock[s] = None
    /\ suggLock' = [s \in Requests |-> IF s \in Repeated(r) THEN r ELSE suggLock[s]]
    /\ req' = [req EXCEPT ![r].pc = "commit", ![r].wrote = Repeated(r) = {}]
    /\ UNCHANGED <<tables, postLock, placeLock>>

(* UPDATE places, the counter of the request's place.                      *)
CountPlace(r) ==
    LET l == req[r].place
    IN  /\ req[r].pc = "place"
        /\ placeLock[l] = None
        /\ placeLock' = [placeLock EXCEPT ![l] = r]
        /\ req' = [req EXCEPT ![r].pc = IF req[r].kind = "ACCEPT" THEN "settle" ELSE "commit"]
        /\ UNCHANGED <<tables, postLock, suggLock>>

(* Accept updates every pending suggestion of the post, and locks it.      *)
Settle(r) ==
    LET settled == Pending(req[r].post)
    IN  /\ req[r].pc = "settle"
        /\ \A s \in settled : suggLock[s] \in {None, r}
        /\ suggLock' = [s \in Requests |-> IF s \in settled THEN r ELSE suggLock[s]]
        /\ req' = [req EXCEPT ![r].pc = "commit"]
        /\ UNCHANGED <<tables, postLock, placeLock>>

-----------------------------------------------------------------------------
(* Commits.                                                                *)

Committing(r, kind) == req[r].pc = "commit" /\ req[r].kind = kind /\ Finish(r)

Counted(l, n) == [postCount EXCEPT ![l] = IF @ + n < 0 THEN 0 ELSE @ + n]

CommitCreate(r) ==
    /\ Committing(r, "CREATE")
    /\ state' = [state EXCEPT ![req[r].post] = "VISIBLE"]
    /\ place' = [place EXCEPT ![req[r].post] = req[r].place]
    /\ postCount' = IF req[r].place = None THEN postCount ELSE Counted(req[r].place, 1)
    /\ UNCHANGED <<sugg, notices>>

CommitSuggest(r) ==
    /\ Committing(r, "SUGGEST")
    /\ sugg' = IF ~req[r].wrote THEN sugg
               ELSE [sugg EXCEPT ![r] = [post |-> req[r].post, by |-> req[r].user,
                                         place |-> req[r].place, status |-> "PENDING"]]
    /\ UNCHANGED <<state, place, postCount, notices>>

CommitReject(r) ==
    /\ Committing(r, "REJECT")
    /\ sugg' = [sugg EXCEPT ![req[r].target].status = "REJECTED"]
    /\ UNCHANGED <<state, place, postCount, notices>>

(* Leaving the other suggestions of the post pending.                      *)
Settled_OnlyTheChosen(r) == [sugg EXCEPT ![req[r].target].status = "ACCEPTED"]

(* CASE WHEN id=$1 THEN 'ACCEPTED' ELSE 'REJECTED' of the pending rows.    *)
Settled(r) ==
    [s \in Requests |->
        IF s \notin Pending(req[r].post) THEN sugg[s]
        ELSE [sugg[s] EXCEPT !.status = IF s = req[r].target THEN "ACCEPTED" ELSE "REJECTED"]]

(* Accepting without UPDATE places.                                        *)
CountAccepted_Forgotten(r) == postCount

(* post_count=post_count+1 of the accepted place; the place that the post  *)
(* leaves is not touched, nor is the post's state looked at.               *)
CountAccepted(r) == Counted(req[r].place, 1)

CommitAccept(r) ==
    /\ Committing(r, "ACCEPT")
    /\ place' = [place EXCEPT ![req[r].post] = req[r].place]
    /\ postCount' = CountAccepted(r)
    /\ sugg' = Settled(r)
    /\ notices' = [notices EXCEPT ![req[r].target] = @ + 1]
    /\ UNCHANGED state

CommitDelete(r) ==
    /\ Committing(r, "DELETE")
    /\ state' = [state EXCEPT ![req[r].post] = "DELETED"]
    /\ postCount' = IF req[r].place = None THEN postCount ELSE Counted(req[r].place, -1)
    /\ UNCHANGED <<place, sugg, notices>>

-----------------------------------------------------------------------------
Rollback(r) ==
    /\ req[r].pc \in InTx
    /\ Finish(r)
    /\ UNCHANGED tables

(* The transactions that r's next statement waits for.                     *)
BlockedBy(r) ==
    LET holders ==
          CASE req[r].pc = "suggestion" -> {suggLock[req[r].target]}
            [] req[r].pc = "post" /\ PostMatches(r) -> {postLock[req[r].post]}
            [] req[r].pc = "insert" -> {suggLock[s] : s \in Repeated(r)}
            [] req[r].pc = "place" -> {placeLock[req[r].place]}
            [] req[r].pc = "settle" -> {suggLock[s] : s \in Pending(req[r].post)}
            [] OTHER -> {}
    IN  holders \ {None, r}

WaitingInCircle(r) ==
    \E circle \in SUBSET Requests :
        r \in circle /\ \A s \in circle : BlockedBy(s) \cap circle # {}

(* PostgreSQL's detector cancels one transaction of a circle of waits.     *)
CancelledByDetector(r) == WaitingInCircle(r) /\ Rollback(r)

(* Votes and moderators hide and restore the post: other components, whose *)
(* UPDATE waits for the row's lock too.                                    *)
ModerationChanges(p) ==
    /\ ~Gone(p) /\ postLock[p] = None
    /\ state' = [state EXCEPT ![p] = IF @ = "VISIBLE" THEN "HIDDEN" ELSE "VISIBLE"]
    /\ UNCHANGED <<place, postCount, sugg, notices, locks, req>>

Step(r) ==
    \/ LockSuggestion(r) \/ LockPost(r) \/ InsertSuggestion(r) \/ CountPlace(r) \/ Settle(r)
    \/ CommitCreate(r) \/ CommitSuggest(r) \/ CommitReject(r) \/ CommitAccept(r)
    \/ CommitDelete(r)
    \/ CancelledByDetector(r)

Next ==
    \/ \E r \in Requests, p \in Posts, l \in Places \cup {None} : Create(r, p, l)
    \/ \E r \in Requests, u \in Users, p \in Posts, l \in Places : Suggest(r, u, p, l)
    \/ \E r, s \in Requests, kind \in {"ACCEPT", "REJECT"}, u \in Users : Resolve(r, kind, u, s)
    \/ \E r \in Requests, u \in Users, p \in Posts : Delete(r, u, p)
    \/ \E r \in Requests : Step(r) \/ Rollback(r)
    \/ \E p \in Posts : ModerationChanges(p)

Spec == Init /\ [][Next]_vars

(* Handlers run to their answer; PostgreSQL grants free locks and its      *)
(* detector runs (deadlock_timeout).                                       *)
FairSpec == Spec /\ \A r \in Requests : WF_vars(Step(r))

-----------------------------------------------------------------------------
(* Properties.                                                             *)

(* Every variable has its type, and a lock's holder has not ended its      *)
(* transaction.                                                            *)
TypeOK ==
    /\ state \in [Posts -> {"absent", "VISIBLE", "HIDDEN", "DELETED"}]
    /\ place \in [Posts -> Places \cup {None}]
    /\ postCount \in [Places -> Nat]
    /\ sugg \in [Requests -> Suggestion \cup {None}]
    /\ notices \in [Requests -> Nat]
    /\ postLock \in [Posts -> Requests \cup {None}]
    /\ placeLock \in [Places -> Requests \cup {None}]
    /\ suggLock \in [Requests -> Requests \cup {None}]
    /\ req \in [Requests -> Request]
    /\ \A lock \in {postLock, placeLock, suggLock} :
           \A x \in DOMAIN lock : lock[x] # None => req[lock[x]].pc \in InTx

(* places.post_count never misses a post: whatever creations, accepted     *)
(* moves and deletions interleave, a place counts at least the posts that  *)
(* are there and not deleted.                                              *)
PostCountNeverTooLow ==
    \A l \in Places :
        postCount[l] >= Cardinality({p \in Posts : place[p] = l /\ ~Gone(p)})

(* Whoever proposed an accepted place has one notification about it, and   *)
(* nobody whose proposal is pending or rejected has one, even when two     *)
(* accepts race or an accept races a reject.                               *)
OneNoticePerAcceptance ==
    \A s \in Requests :
        notices[s] = IF sugg[s] # None /\ sugg[s].status = "ACCEPTED" THEN 1 ELSE 0

(* The life of a suggestion: it enters the table only while its post is    *)
(* VISIBLE and never from the author; it is resolved once; an acceptance   *)
(* moves the post to the accepted place and leaves no other suggestion of  *)
(* the post pending; and nothing else moves a post.                        *)
LifeOfSuggestion ==
    [][/\ \A s \in Requests :
            /\ sugg[s] = None /\ sugg'[s] # None =>
                   state[sugg'[s].post] = "VISIBLE" /\ sugg'[s].by # Author[sugg'[s].post]
            /\ sugg[s] # None /\ sugg[s].status # "PENDING" => sugg'[s] = sugg[s]
            /\ sugg[s] # None /\ sugg[s].status = "PENDING" /\ sugg'[s].status = "ACCEPTED" =>
                   place'[sugg[s].post] = sugg[s].place /\ Pending(sugg[s].post)' = {}
       /\ \A p \in Posts :
            ~Gone(p) /\ place'[p] # place[p] =>
                \E s \in Requests : s \in Pending(p) /\ sugg'[s].status = "ACCEPTED"]_vars

(* Every request is answered although Resolve locks suggestion before post *)
(* and Suggest post before suggestion: a circle of waits loses a member.   *)
EverySuggestionAnswered ==
    \A r \in Requests : req[r].pc \in InTx ~> req[r].pc = "done"

(* The comment on Delete: it takes a post with a place off that place's    *)
(* counter.                                                                *)
DeletionIsUncounted ==
    [][\A p \in Posts :
         ~Gone(p) /\ state'[p] = "DELETED" /\ place[p] # None =>
             postCount'[place[p]] = postCount[place[p]] - 1]_vars

=============================================================================
