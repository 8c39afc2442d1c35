--------------------------------- MODULE Posts ---------------------------------
(***************************************************************************)
(* Publishing, editing, deleting and reading posts.  Creation and deletion *)
(* are READ COMMITTED transactions over posts, post_images, hashtags and   *)
(* post_hashtags; an edit is one conditional UPDATE (the optimistic lock); *)
(* a reader loads the post, its images and its hashtags with one query     *)
(* each.  A post is named by the request that creates it, a text by the    *)
(* request that wrote it.  Tables hold committed rows; what a transaction  *)
(* has written under its locks appears at its commit.  The counter of a    *)
(* place, written last by both transactions, is in LocationSuggestions.    *)
(***************************************************************************)
EXTENDS Integers, FiniteSets, SequencesExt

CONSTANTS
    Users,
    Requests,       \* each request is served once
    Early,          \* requests that have published before the behaviour begins
    Assets,         \* ids of media_assets
    Tags,           \* hashtags as the database keeps them
    Drafts,         \* bodies clients may send to publish
    None

ASSUME RequestsAssumption == IsFiniteSet(Requests)
ASSUME EarlyAssumption == Early \subseteq Requests
ASSUME DraftsAssumption ==
    \A d \in Drafts : /\ d.valid \in BOOLEAN
                      /\ d.images \in Seq(Assets)
                      /\ d.tags \in Seq(Tags \cup {None})
VARIABLES
    asset,          \* asset[m]: the row of media_assets, or None
    post,           \* post[p]: the row of posts and its post_hashtags, or None
    holder,         \* holder[m]: the post whose post_images row has m, or None
    count,          \* count[t]: hashtags.post_count
    postLock,       \* postLock[p]: the request that has updated p's row
    imageLock,      \* imageLock[m]: the request that has inserted m's row
    tagLock,        \* tagLock[t]: the request that has upserted or updated t's row
    req

tables == <<post, holder, count>>
locks == <<postLock, imageLock, tagLock>>
vars == <<asset, tables, locks, req>>

Asset == [owner : Users, status : {"PENDING", "USABLE"}]

Post == [author : Users, deleted : BOOLEAN, version : Nat \ {0}, text : Requests,
         tags : SUBSET Tags]

Kinds == {"CREATE", "UPDATE", "DELETE", "READ"}

(* Inside a transaction: creation writes its rows, deletion marks the post *)
(* and then lowers its hashtags.                                           *)
InTx == {"write", "delete", "untag"}

Answers == {"200", "201", "204", "400", "403", "404", "409", "500"}

ASSUME NoneAssumption == None \notin Requests \cup Tags \cup Kinds \cup Answers \cup Asset \cup Post

(* version is what an update sent, found the version that GetByID returned *)
(* to it; at counts the rows of images and tags   *)
(* a creation has written; shown is what hydrate has read for the answer.  *)
Request == [pc : InTx \cup {"idle", "edit", "images", "tags", "done"},
            kind : Kinds \cup {None}, user : Users \cup {None},
            post : Requests \cup {None}, version : Nat, found : Nat,
            images : Seq(Assets), tags : Seq(Tags), at : Nat, wrote : BOOLEAN,
            shown : [images : SUBSET Assets, tags : SUBSET Tags],
            answer : Answers \cup {None}]

Idle == [pc |-> "idle", kind |-> None, user |-> None, post |-> None, version |-> 0,
         found |-> 0, images |-> <<>>, tags |-> <<>>, at |-> 0, wrote |-> FALSE,
         shown |-> [images |-> {}, tags |-> {}], answer |-> None]

-----------------------------------------------------------------------------
(* The body of POST /posts.                                                *)

(* Hashtags of which only the empty ones are dropped.                      *)
Normalized_KeepsRepeats(raw) == SelectSeq(raw, LAMBDA t : t # None)

(* What s has at the indices in keep, in order.                            *)
Kept(s, keep) ==
    [n \in 1..Cardinality(keep) |->
        s[CHOOSE i \in keep : Cardinality({j \in keep : j <= i}) = n]]

Firsts(s) == {i \in DOMAIN s : \A j \in 1..(i - 1) : s[j] # s[i]}

(* The first occurrences, in order.                                        *)
Distinct(s) == Kept(s, Firsts(s))

(* Blank hashtags (None) are dropped.                                      *)
Normalized(raw) == Kept(raw, {i \in Firsts(raw) : raw[i] # None})

(* A post as it is inserted.                                               *)
NewPost(p, u, tags) ==
    [author |-> u, deleted |-> FALSE, version |-> 1, text |-> p, tags |-> tags]

Gone(p) == post[p] = None \/ post[p].deleted

Live(t) == {p \in Requests : ~Gone(p) /\ t \in post[p].tags}

Init ==
    /\ asset \in [Assets -> Asset \cup {None}]
    /\ \E by \in [Early -> Users], d \in [Early -> Drafts] :
          post = [p \in Requests |->
                    IF p \in Early THEN NewPost(p, by[p], ToSet(Normalized(d[p].tags))) ELSE None]
    /\ holder = [m \in Assets |-> None]
    /\ count = [t \in Tags |-> Cardinality(Live(t))]
    /\ postLock = [p \in Requests |-> None]
    /\ imageLock = [m \in Assets |-> None]
    /\ tagLock = [t \in Tags |-> None]
    /\ req = [r \in Requests |-> IF r \in Early THEN [Idle EXCEPT !.pc = "done"] ELSE Idle]

-----------------------------------------------------------------------------
(* Ends of a request.  COMMIT and ROLLBACK release every lock.             *)

Unlocked(lock, r) == [x \in DOMAIN lock |-> IF lock[x] = r THEN None ELSE lock[x]]

(* Only the rows of posts are let go.                                      *)
Release_KeepsTags(r) ==
    /\ postLock' = Unlocked(postLock, r)
    /\ imageLock' = Unlocked(imageLock, r)
    /\ UNCHANGED tagLock

Release(r) ==
    /\ postLock' = Unlocked(postLock, r)
    /\ imageLock' = Unlocked(imageLock, r)
    /\ tagLock' = Unlocked(tagLock, r)

(* What a request is remembered by.                                        *)
Answered(q, answer) ==
    [q EXCEPT !.pc = "done", !.answer = answer, !.user = None, !.images = <<>>, !.tags = <<>>,
              !.at = 0]

Refuse(r, answer) ==
    /\ req' = [req EXCEPT ![r] = Answered(req[r], answer)]
    /\ Release(r)
    /\ UNCHANGED <<asset, tables>>

(* An SQL error, or the client's context is cancelled: WithTx rolls back.  *)
(* After a commit only the answer is lost.                                 *)
Fail(r) == req[r].pc \notin {"idle", "done"} /\ Refuse(r, "500")

-----------------------------------------------------------------------------
(* Requests arrive.  Up to its first statement that waits or writes what   *)
(* others see, a request is one step.                                      *)

Start(r, begun) ==
    /\ req[r].pc = "idle"
    /\ req' = [req EXCEPT ![r] = begun]
    /\ UNCHANGED <<asset, tables, locks>>

(* Images that CountAttachableMedia counts.                                *)
Attachable(u) ==
    {m \in Assets : asset[m] = [owner |-> u, status |-> "USABLE"] /\ holder[m] = None}

(* A draft is not valid if its text is blank or too long, if it has more   *)
(* than ten images or hashtags, an id that is no id, a long hashtag, or a  *)
(* place or province that is not there.                                    *)
Drafted(r, u, d) ==
    LET begun == [Idle EXCEPT !.kind = "CREATE", !.user = u, !.post = r]
        images == Distinct(d.images)
    IN  IF d.valid /\ ToSet(images) \subseteq Attachable(u)
        THEN [begun EXCEPT !.pc = "write", !.images = images, !.tags = Normalized(d.tags)]
        ELSE Answered(begun, "400")

(* The INSERT of the post on the pool: it is there before its hashtags.    *)
Create_Autocommits(r, u, d) ==
    /\ req[r].pc = "idle"
    /\ req' = [req EXCEPT ![r] = Drafted(r, u, d)]
    /\ post' = IF req'[r].pc = "write" THEN [post EXCEPT ![r] = NewPost(r, u, {})] ELSE post
    /\ UNCHANGED <<asset, holder, count, locks>>

(* Validate, BEGIN, CountAttachableMedia and the INSERT of the post, which *)
(* nobody else sees.                                                       *)
Create(r, u, d) == Start(r, Drafted(r, u, d))

(* GetByID, and the author's right to change the post.                     *)
Lookup(r, kind, u, p, v, next) ==
    LET begun == [Idle EXCEPT !.kind = kind, !.post = p, !.version = v]
    IN  Start(r, IF Gone(p) THEN Answered(begun, "404")
                 ELSE IF u # post[p].author THEN Answered(begun, "403")
                 ELSE [begun EXCEPT !.pc = next, !.user = u, !.found = post[p].version])

(* Any positive version is looked up, also one that the post has not       *)
(* reached; a body without one is read as 0.                               *)
Update(r, u, p, v) ==
    IF v = 0
    THEN Start(r, Answered([Idle EXCEPT !.kind = "UPDATE", !.post = p], "400"))
    ELSE Lookup(r, "UPDATE", u, p, v, "edit")

Delete(r, u, p) == Lookup(r, "DELETE", u, p, 0, "delete")

Read(r, p) ==
    LET begun == [Idle EXCEPT !.kind = "READ", !.post = p]
    IN  Start(r, IF Gone(p) THEN Answered(begun, "404") ELSE [begun EXCEPT !.pc = "images"])

-----------------------------------------------------------------------------
(* Creation: images, then hashtags, a row at a time in the client's order. *)

(* The image or hashtag whose turn it is.                                  *)
Image(r) == req[r].images[req[r].at + 1]

Tag(r) == req[r].tags[req[r].at - Len(req[r].images) + 1]

Wrote(r) ==
    /\ req' = [req EXCEPT ![r].at = @ + 1]
    /\ UNCHANGED <<asset, tables, postLock>>

(* Without the unique index on post_images.media_id.                       *)
AttachImage_NoIndex(r) ==
    /\ req[r].pc = "write" /\ req[r].at < Len(req[r].images)
    /\ imageLock' = [imageLock EXCEPT ![Image(r)] = r]
    /\ Wrote(r)
    /\ UNCHANGED tagLock

(* INSERT INTO post_images waits for whoever is inserting the same image   *)
(* and fails if it is there.                                               *)
AttachImage(r) ==
    /\ req[r].pc = "write" /\ req[r].at < Len(req[r].images)
    /\ imageLock[Image(r)] \in {None, r}
    /\ IF holder[Image(r)] # None \/ imageLock[Image(r)] = r
       THEN Refuse(r, "500")
       ELSE /\ imageLock' = [imageLock EXCEPT ![Image(r)] = r]
            /\ Wrote(r)
            /\ UNCHANGED tagLock

(* UpsertHashtag adds one under the row's lock; LinkHashtag does nothing   *)
(* about a link that is there.                                             *)
UpsertHashtag(r) ==
    /\ req[r].pc = "write"
    /\ req[r].at \in Len(req[r].images) .. Len(req[r].images \o req[r].tags) - 1
    /\ tagLock[Tag(r)] \in {None, r}
    /\ tagLock' = [tagLock EXCEPT ![Tag(r)] = r]
    /\ Wrote(r)
    /\ UNCHANGED imageLock

Upserts(r, t) == Cardinality({i \in DOMAIN req[r].tags : req[r].tags[i] = t})

CommitCreate(r) ==
    /\ req[r].pc = "write" /\ req[r].at = Len(req[r].images \o req[r].tags)
    /\ post' = [post EXCEPT ![r] = NewPost(r, req[r].user, ToSet(req[r].tags))]
    /\ holder' = [m \in Assets |-> IF imageLock[m] = r THEN r ELSE holder[m]]
    /\ count' = [t \in Tags |-> count[t] + Upserts(r, t)]
    /\ req' = [req EXCEPT ![r].pc = "images", ![r].images = <<>>, ![r].tags = <<>>, ![r].at = 0,
                          ![r].user = None, ![r].wrote = TRUE]
    /\ Release(r)
    /\ UNCHANGED asset

-----------------------------------------------------------------------------
(* Edits and deletions.                                                    *)

(* The UPDATE finds the row by its version and its author.                 *)
Matches(r) ==
    LET p == req[r].post
    IN  ~Gone(p) /\ post[p].author = req[r].user /\ post[p].version = req[r].version

(* The UPDATE without version = $4.                                        *)
UpdateContent_AnyVersion(r) ==
    LET p == req[r].post
    IN  /\ req[r].pc = "edit"
        /\ postLock[p] = None
        /\ IF ~Gone(p)
           THEN /\ post' = [post EXCEPT ![p].version = @ + 1, ![p].text = r]
                /\ req' = [req EXCEPT ![r].pc = "images", ![r].wrote = TRUE, ![r].user = None]
                /\ UNCHANGED <<asset, holder, count, locks>>
           ELSE Refuse(r, "409")

(* An autocommitted UPDATE: it waits for the row it has found, and looks   *)
(* again.  Finding none is always told as a conflict of versions.          *)
UpdateContent(r) ==
    LET p == req[r].post
    IN  /\ req[r].pc = "edit"
        /\ Matches(r) => postLock[p] = None
        /\ IF Matches(r)
           THEN /\ post' = [post EXCEPT ![p].version = @ + 1, ![p].text = r]
                /\ req' = [req EXCEPT ![r].pc = "images", ![r].wrote = TRUE, ![r].user = None]
                /\ UNCHANGED <<asset, holder, count, locks>>
           ELSE Refuse(r, "409")

SoftDelete(r) ==
    LET p == req[r].post
    IN  /\ req[r].pc = "delete"
        /\ ~Gone(p) => postLock[p] = None
        /\ IF Gone(p)
           THEN Refuse(r, "404")
           ELSE /\ postLock' = [postLock EXCEPT ![p] = r]
                /\ req' = [req EXCEPT ![r].pc = "untag"]
                /\ UNCHANGED <<asset, tables, imageLock, tagLock>>

Unlowered(r) == {t \in post[req[r].post].tags : tagLock[t] # r}

(* One UPDATE lowers all hashtags of the post; it meets their rows in an   *)
(* order of its own.                                                       *)
LowerHashtag(r, t) ==
    /\ req[r].pc = "untag" /\ t \in Unlowered(r)
    /\ tagLock[t] = None
    /\ tagLock' = [tagLock EXCEPT ![t] = r]
    /\ UNCHANGED <<asset, tables, postLock, imageLock, req>>

Lowered(n) == IF n > 0 THEN n - 1 ELSE 0

CommitDelete(r) ==
    LET p == req[r].post
    IN  /\ req[r].pc = "untag" /\ Unlowered(r) = {}
        /\ post' = [post EXCEPT ![p].deleted = TRUE]
        /\ count' = [t \in Tags |-> IF tagLock[t] = r THEN Lowered(count[t]) ELSE count[t]]
        /\ req' = [req EXCEPT ![r] = Answered([@ EXCEPT !.wrote = TRUE], "204")]
        /\ Release(r)
        /\ UNCHANGED <<asset, holder>>

-----------------------------------------------------------------------------
(* hydrate: the images, then the hashtags of the post for the answer.      *)

ImagesOf(p) == {m \in Assets : holder[m] = p}

ReadImages(r) ==
    /\ req[r].pc = "images"
    /\ req' = [req EXCEPT ![r].pc = "tags", ![r].shown.images = ImagesOf(req[r].post)]
    /\ UNCHANGED <<asset, tables, locks>>

ReadHashtags(r) ==
    /\ req[r].pc = "tags"
    /\ req' = [req EXCEPT ![r] = Answered([@ EXCEPT !.shown.tags = post[req[r].post].tags],
                                          IF @.kind = "CREATE" THEN "201" ELSE "200")]
    /\ UNCHANGED <<asset, tables, locks>>

-----------------------------------------------------------------------------
(* Deadlock: two creations that write the same rows in opposite orders, or *)
(* a creation and a deletion.  Awaited(r) are the holders of the rows one  *)
(* of which r's statement needs next, empty if it can run.                 *)

Awaited(r) ==
    LET holders ==
            CASE req[r].pc = "write" /\ req[r].at < Len(req[r].images) -> {imageLock[Image(r)]}
              [] req[r].pc = "write" /\ req[r].at < Len(req[r].images \o req[r].tags)
                     -> {tagLock[Tag(r)]}
              [] req[r].pc = "untag" -> {tagLock[t] : t \in Unlowered(r)}
              [] OTHER -> {None}
    IN  IF None \in holders THEN {} ELSE holders \ {r}

WaitingInCircle(r) ==
    \E circle \in SUBSET Requests :
        r \in circle /\ \A s \in circle : Awaited(s) \cap circle # {}

CancelledByDetector(r) == WaitingInCircle(r) /\ Refuse(r, "500")

-----------------------------------------------------------------------------
(* The abstract catalogue behind the tables: what a reader is shown, and   *)
(* what has been deleted.                                                  *)
Shown ==
    [p \in Requests |->
        IF post[p] = None \/ post[p].deleted THEN None
        ELSE [author |-> post[p].author, tags |-> post[p].tags,
              version |-> post[p].version, text |-> post[p].text]]

Withdrawn == {p \in Requests : post[p] # None /\ post[p].deleted}

Catalogue == INSTANCE PostCatalogue WITH
    Posts <- Requests, catalogue <- Shown, withdrawn <- Withdrawn

ASSUME NoEntryAssumption == None \notin Catalogue!Entry

(* bound: the versions that updates send, as no post gets beyond the last  *)
(* of them: the request that created it does not edit.                     *)
SentVersions == 0..Cardinality(Requests)

Arrive(r) ==
    \/ \E u \in Users, d \in Drafts : Create(r, u, d)
    \/ \E p \in Requests \ {r} :
          \/ \E u \in Users : Delete(r, u, p) \/ \E v \in SentVersions : Update(r, u, p, v)
          \/ Read(r, p)

Step(r) ==
    \/ AttachImage(r) \/ UpsertHashtag(r) \/ CommitCreate(r)
    \/ UpdateContent(r)
    \/ SoftDelete(r) \/ (\E t \in Tags : LowerHashtag(r, t)) \/ CommitDelete(r)
    \/ ReadImages(r) \/ ReadHashtags(r)
    \/ CancelledByDetector(r)

Serve(r) == Arrive(r) \/ Step(r) \/ Fail(r)

(* What the media component does to its table: it adds assets, makes them  *)
(* usable, and never changes an owner or takes an asset back.              *)
MediaGrows ==
    /\ asset' \in [Assets -> Asset \cup {None}]
    /\ Catalogue!AssetsGrow
    /\ UNCHANGED <<tables, locks, req>>

Next == MediaGrows \/ \E r \in Requests : Serve(r)

Spec == Init /\ [][Next]_vars

-----------------------------------------------------------------------------
(* Properties.                                                             *)

(* Every variable has its type, and a lock's holder is in a transaction.   *)
TypeOK ==
    /\ asset \in [Assets -> Asset \cup {None}]
    /\ post \in [Requests -> Post \cup {None}]
    /\ holder \in [Assets -> Requests \cup {None}]
    /\ count \in [Tags -> Nat]
    /\ postLock \in [Requests -> Requests \cup {None}]
    /\ imageLock \in [Assets -> Requests \cup {None}]
    /\ tagLock \in [Tags -> Requests \cup {None}]
    /\ req \in [Requests -> Request]
    /\ \A lock \in {postLock, imageLock, tagLock} :
           \A x \in DOMAIN lock : lock[x] # None => req[lock[x]].pc \in InTx

(* hashtags.post_count is the number of posts that carry the hashtag and   *)
(* are not deleted, however creations that repeat or reorder hashtags,     *)
(* deletions, rollbacks and deadlocks' victims interleave.                 *)
TagCountsExact == \A t \in Tags : count[t] = Cardinality(Live(t))

(* The optimistic lock: the updates that took effect on a post, whatever   *)
(* their answers, were sent with its versions 1, 2, ... one each, the row  *)
(* has the text of the last.  Who is told of a conflict held a version     *)
(* that has been edited since, or edits a post that is gone, or had sent a *)
(* version ahead of the one found: then nobody need have edited anything.  *)
Applied(p) == {r \in Requests : req[r].kind = "UPDATE" /\ req[r].post = p /\ req[r].wrote}

EditsAreSerial ==
    /\ \A p \in Requests : post[p] # None =>
          /\ Cardinality(Applied(p)) = post[p].version - 1
          /\ {req[r].version : r \in Applied(p)} = 1 .. post[p].version - 1
          /\ post[p].text = IF Applied(p) = {} THEN p
                            ELSE CHOOSE r \in Applied(p) : req[r].version = post[p].version - 1
    /\ \A r \in Requests : req[r].answer = "409" =>
          \/ post[req[r].post].deleted
          \/ post[req[r].post].version > req[r].version
          \/ req[r].version > req[r].found

(* Nobody is shown half a post: whatever is created, edited and deleted    *)
(* between its three queries, an answer has all images and hashtags the    *)
(* post was published with, also that of the creation itself.              *)
ReadersSeeWholePosts ==
    \A r \in Requests :
        req[r].answer \in {"200", "201"} =>
            req[r].shown = [images |-> ImagesOf(req[r].post), tags |-> post[req[r].post].tags]

(* Creation, edits and deletion implement the one-step catalogue: a commit *)
(* or an edit is its step, everything else stutters; and nobody takes back *)
(* an image that a creation has found to be usable.                        *)
ImplementsCatalogue == Catalogue!CatalogueSpec

=============================================================================
