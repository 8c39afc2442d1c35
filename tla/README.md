# Food Social: a verification project

Food Social is a Go API over PostgreSQL (`src/internal`, `src/cmd/api`) with a
Flutter client (`src/mobile`). People post reviews of food, tie them to places,
vote on whether a review can be trusted, like, save and comment on posts, and
follow or block each other. This directory models the parts in which concurrent
requests share state, checks them with TLC on small instances, and proves the
most important facts with TLAPS for every value of the constants.

## Inventory

All durable state is in PostgreSQL. A request is a goroutine; it either runs a
few statements on the connection pool or one transaction through
`database.WithTx` (READ COMMITTED, one attempt, no retry). Components do not
call each other: they meet in the rows of `posts`, `users` and `places`, and
through `notifications`, which several of them write. The only state in the
process is the rate limiter's map of buckets.

| component | state | operations | what is hard | what makes it correct |
|---|---|---|---|---|
| trust votes, moderation (`governance`, `vote`) | `review_votes`, aggregates and `status`, `hidden_at` of `posts`, `admin_actions` | vote, withdraw, hide, restore | votes, moderation and deletion of one post at once; the 200 votes / 70 % rule | aggregates equal the ballots; the rule decides; `status`, `hidden_at` and the audit trail agree; deletion is final |
| likes, saves, comments (`social`) | `post_likes`, `saved_posts`, `comments`, three counters of `posts`, notifications | like, unlike, save, unsave, comment | counters under overlapping transactions, repeated requests | counters equal rows; one notification per event |
| follows, blocks, mutes (`social`) | `follows`, `blocks`, two counters of `users`, notifications | follow, unfollow, block, unblock, mute, unmute | mutual follows deadlock; block is not a transaction | counters equal rows; notification only for a new follow |
| location suggestions (`location`), place counters (`post`) | `location_suggestions`, `posts.place_id`, `places.post_count` | suggest, accept, reject; create and delete a post | opposite lock orders; races of two resolutions; a place read before the transaction | one resolution each; a post's place is the accepted one; counters |
| rate limiter (`platform`) | one bucket per address, in memory | `Allow`, `Cleanup` | clock read outside the mutex, and set back; forgotten buckets | a ceiling per interval; what a late reading takes is given back |
| transactions (`database`) | open transactions, row locks | begin, commit, rollback | refusals and errors in the middle | everything is answered, no lock stays |
| posts (`post`) | `posts`, `post_images`, `hashtags`, `post_hashtags` | create, edit, delete, read | optimistic lock, hashtag upserts in client order, two posts for one image, reading by three statements | no lost update; exact counters; an image illustrates one post; nobody sees half a post |
| feed and cursors (`post`, `httpx`) | a cursor in the client's hands | pages of the feed and of one user's posts | pages that move while posts come and go; times that repeat | a page neither repeats nor skips |
| accounts and sessions (`auth`) | `users`, `sessions`, `password_reset_tokens` | register, login, logout, request and use a reset, delete account | login racing a reset; one-time tokens | no session outlives a reset or a deletion |
| media (`media`) | `media_assets`, Cloudinary | sign, confirm | confirmation racing itself, an upload that never comes, Cloudinary silent | usable only after verification; usable for ever, so that a post may rely on it |
| places (`place`) | `places` | create once per Google id, search | two creations at once; ids that differ in blanks only | one place per Google id, and all answers name it |
| reports, notification list (`governance`) | `reports`, `notifications.read_at` | report, list, mark read | repeated reports | one open report per reporter and target |
| profiles, search, geography | rows of `users`, read-only tables | read, update own profile | nothing concurrent | - |
| HTTP plumbing, configuration | - | decode, encode, route, log, recover | nothing concurrent | - |
| mobile client | session, lists of posts in memory | all of the above over HTTP | expired sessions, retries, answers out of order | - |

`PROJECT.json` lists the same components with the modules that model them, and
the hazards, each at its line and with the properties that watch it.

## Modules

    VoteRules            pure rules: weight of a ballot, aggregates, hiding
      VoteBoard          abstract: each vote, moderation, deletion in one step
        ReviewVotes      the same requests as transactions, statement by statement
          ReviewVotesProofs, MCReviewVotes
    PostInteractions     likes, saves, comments
          PostInteractionsProofs, MCPostInteractions
    Follows              follows and blocks
          FollowsProofs, MCFollows
    LocationSuggestions  suggestions and place counters
          LocationSuggestionsProofs, MCLocationSuggestions
    PostCatalogue        abstract: publish, edit, withdraw in one step
      Posts              the same requests as transactions, and reading
    MediaAssets          signing and confirming images
    Places               creating places
      Publishing         Posts, MediaAssets and Places composed
          PublishingProofs, MCPublishing
    FeedPages            pages and cursors
          FeedPagesProofs, MCFeedPages
    Sessions             accounts, sessions, resets
          SessionsProofs, MCSessions
    RateLimiter          the token bucket
          RateLimiterProofs, MCRateLimiter

### How a transaction is modelled

A module's table variables hold *committed* rows. Each request is a record
`req[r]` whose `pc` names the next statement; what it has written and nobody
else sees yet stays in that record until its `Commit`. Row locks are variables
that map a row to the request holding it. What PostgreSQL guarantees at READ
COMMITTED, and nothing more, is in the actions:

- each statement reads what is committed when it starts (`TallySnapshot` and
  `CountMembers` are separate from the write that may have to wait);
- `UPDATE`, `DELETE` and `SELECT ... FOR UPDATE` wait for the row's lock and
  then look at the newest version: `WHERE` is evaluated again, but a subquery
  that does not depend on the row keeps the old snapshot (`seen`, in
  PostInteractions);
- `INSERT ... ON CONFLICT DO NOTHING` waits for whoever is inserting or deleting
  the same key; `DELETE` does not see an uncommitted row;
- locks go at the end of the transaction, and a transaction that waits in a
  circle is cancelled by the deadlock detector (`CancelledByDetector`).

`Rollback` may end any transaction at any statement: an SQL error or the
client's context being cancelled, after which `WithTx` rolls back. The locks and
the detector are external to the repository and marked so in `map`. Foreign keys
take KEY SHARE locks, which conflict with none of the plain UPDATEs modelled
here, so they are left out.

Every request is served once, the requests of a behaviour being the constant
`Requests`; a client that repeats a call is another request with the same
arguments.

### The modules one by one

**VoteRules, VoteBoard, ReviewVotes** model `governance.go:60-171`, `rules.go`
and `post/service.go:246-258`. Weights are counted in quarters. `voteTx` is
`LockForVote` (SELECT FOR UPDATE and the refusals), `WriteBallot` (age, weight,
upsert or delete), `TallySnapshot` and `WriteTally` (the UPDATE with its
subqueries), `Commit`. `ModeratePost` is `HidePost` or `RestorePost`,
`RecordAction`, `Commit`; deletion is `SoftDelete`, `Commit`. `VoteBoard` is what
these promise together, and `ImplementsVoteBoard` says a commit is one of its
steps and everything else stutters: the two modules share `row` and `ballots`, so
the refinement mapping is the identity. Role changes, the text of reports and the
ratio column (a quotient of the other columns) are left out.

**PostInteractions** models `social.go:43-92` and `114-162` with one request
record for both. `members` is `post_likes` and `saved_posts`, `counter` the
columns of `posts`. `StateChanges` stands for the deletion and moderation of the
post by the requests of ReviewVotes. Text and its limits are left out, and so is
the deletion of comments, which no code performs.

**Follows** models `Follow` and `SetRelation` for table `blocks`. `severed` is a
history variable: which block has deleted which row. All users exist and
are active.

**LocationSuggestions** models `location.go:33-104` and, of posts, what creation
and deletion do to `places.post_count`. Requests in `Early` have put a pending
suggestion there before the behaviour begins; that is a state the program reaches
by serving them first. Hashtags, images and `location_status` are left out, and
moderation is an action of its own that waits for the post's lock.

**Sessions** models `auth/service.go`, the statements of `auth/repository.go` it
uses and `middleware/auth.go`. A row of `users`, `sessions` or
`password_reset_tokens` is named by the request that inserts it, so an account
keeps its identity when its name is registered again after its deletion. The first
statement of a request and its arrival are one action: until that statement has
run the request holds nothing. Login reads (`LookUp`) and inserts (`Open`) apart.
Registration is one statement that may wait (`Register`) and a commit. Reset is
`Claim` (SELECT FOR UPDATE of the token), `SetPassword` (with the UPDATE of the
token, which waits for nobody), `SeeSessions` and `LockSeen` (one UPDATE: its
snapshot, then its waits), `CommitReset`; deletion shares the last ones. Expiry,
wrong passwords and invalid input are `Refuse`, possible whenever a request
arrives. Minted tokens are given to an e-mail adapter outside the repository, so
any token may be presented. Nothing sets SUSPENDED or BANNED. `checked` and `had`
are histories.

**PostCatalogue, Posts** model `post/service.go` with the statements of
`post/repository.go` and the validation of `post/dto.go`. A post is named by the
request that creates it, a text by the request that wrote it. Creation is `Create`
(validation, BEGIN, the count of attachable images, the INSERT nobody else sees),
`AttachImage` and `UpsertHashtag` row by row in the client's order, `CommitCreate`;
`UpsertHashtag` is the upsert and the link, which waits for nobody. An edit is `Update` (read, 404, 403) and
`UpdateContent`, one autocommitted UPDATE with the version in its WHERE. A deletion
is `Delete`, `SoftDelete`, `LowerHashtag` (one UPDATE of several rows, which takes
their locks in any order) and `CommitDelete`. Answers to creations, edits and reads
are put together by `ReadImages` and `ReadHashtags` on the pool, after the commit or
after the post was loaded. A draft is a sequence of images and of hashtags, `None`
standing for a blank hashtag, and a flag for everything else that makes it invalid.
Status and votes are left to ReviewVotes, the counter of the place to
LocationSuggestions. `PostCatalogue` is what the requests promise together:
`ImplementsCatalogue` maps a deleted row to a withdrawn entry and the columns of a
row to what a reader is shown; commits and edits are steps of the catalogue,
everything else stutters.

**MediaAssets** models `media/service.go`: `Sign` (PENDING row), `Upload` (by the
client, at Cloudinary), `Confirm` (the row is read), `FetchResource` (Cloudinary is
asked), `MarkUsable` (the conditional UPDATE), `Reread`. **Places** models the
creation of `place/service.go`: the lookup and the insertion against the unique
index, with ids that are sent with blanks, looked up as they are and stored trimmed.

**Publishing** composes the three. They meet in the table `media_assets`: it is
written by MediaAssets and read by Posts, whose `AssetsGrow` (in the catalogue) says
what Posts relies on: an image keeps its owner and stays usable. A request is
served by one component. Posts on its own lets that table change in any way
`AssetsGrow` allows (`MediaGrows`), so it can be reasoned about alone.

**FeedPages** models `httpx/cursor.go` and the lists of `post`. Times are
microseconds, as in the database. A creation takes its time when its transaction
begins (`Begin`), its id when the row is inserted (`Insert`) and is seen from its
commit on (`Commit`): the three orders may differ. `Show` asks for one row more than
the page and keeps the cursor of the last row shown.

**RateLimiter** models `ratelimiter.go`. Tokens are integer units: `Cost` units
are a token, `Rate` units flow in per tick. `ReadClock` happens before the mutex,
`NewBucket`, `Take` and `Refuse` are the critical section. `Tick` and `SetBack` are
the clock of `platform/clock.go`: `time.Now().UTC()` has no monotonic part, so its
readings follow the wall clock, also backwards. `latest` is the furthest the clock has
been, and `MaxLag` bounds how far behind it a reading in use may be, because the clock was
set back or the goroutine waited. `reached` is the furthest reading a bucket has met since
it was made, `window` any interval, chosen at the start, and `granted` counts what was
allowed with a reading in it.

## Runs

All instances are as small as the hazards allow; requests are one-shot, so runs
other than the rate limiter's end in states without a successor and say
`CHECK_DEADLOCK FALSE`. What replaces deadlock checking is the liveness property
of each run: every request is answered. (`feed` has no waits; it says so too
because a walk ends.)

| run | instance | shows |
|---|---|---|
| `votes` | 3 users (author, reader, admin), 1 post, 3 requests, threshold 2 for 200, ages 6, 7 and 30 days | type; open transactions are current; aggregates equal ballots; status, `hidden_at` and the audit trail tell one story; the rule decides both ways; VoteBoard is implemented, so ballots land on VISIBLE posts only and deletion is final; every request is answered |
| `interactions` | 2 users, 1 post, 3 requests | `comment_count` is exact; the author is told of each comment once and of each liker; no notification for a like that was there; a toggle nobody overlaps keeps an exact counter exact; every request is answered |
| `follows` | 2 users, 3 requests | counters are off by exactly what blocks severed; notifications go with new rows; every request is answered although mutual follows deadlock |
| `locations` | 1 post (absent at first, or there with one of 2 places or none), up to 2 pending suggestions, 2 requests | a place's counter misses no post; one notification per acceptance; the life of a suggestion: only on a VISIBLE post of another, resolved once, an acceptance settling the post; every request is answered although lock orders are opposite |
| `sessions` | 1 name, nobody registered or an account with one more session or reset token, 3 requests | a reset token is spent once; no session older than a reset or deletion survives it, and a session opened with an old password belongs to a login that overlapped the reset; one live account per name; every request is answered with no deadlock detector |
| `publishing` | 2 users, a post with 2 hashtags that is there, 2 requests of any component, 2 images, 2 hashtags, 5 drafts (both orders, repetitions, a blank, an invalid one), 1 Google id | hashtag counters are exact; edits form one chain; readers see whole posts; only what Cloudinary has is usable; one place per Google id; PostCatalogue is implemented, so an image illustrates one post, its author's own; every request is answered although creations and deletions deadlock |
| `feed` | 4 posts by 2 authors, a clock of 2 instants, pages of 1 (default) or 2 (maximum) asked for as nothing, -1, 1 and 3 | no post is shown twice, and one that could be seen all the time is shown by the time the pages have passed its place |
| `rate_limiter` | 1 address, 2 goroutines and the cleanup; a bucket of 2 tokens of 2 units, 3 units per tick, forgotten after 6 ticks, readings up to 2 ticks (3 tokens) behind, 7 ticks | the ceiling of any interval; an address is not refused beyond a token's refill after the furthest reading its bucket has met; no deadlock |
| `votes_hidden` | as `votes` | violated: `RemoveVote` changes posts that are not VISIBLE |
| `like_count` | 2 users, 2 requests | violated: overlapping likes lose an increment |
| `follower_count` | 2 users, 2 requests | violated: a block leaves the counters |
| `deletion_count` | 1 pending suggestion, 2 requests | violated: a delete lowers the place it had read too early |

Why the bounds are enough for the cases that matter: two transactions that
overlap and a third that comes before, between or after them is what the
snapshots, the waits and the re-evaluations need; one post, because requests on
two posts share nothing in these modules (for LocationSuggestions they share a
place's counter, which each of them changes by one under its lock; with one post the run
sees a counter too low after a creation or an acceptance only, and that deletions do not
lower it too far is for the theorem to say). Two ballots
reach the threshold, and the weights 1, 2 and 4 put the distrusting share on both
sides of 70 % (100 % with two UNTRUSTED ballots, 80 % with 4 to 1, 67 % with
4 to 2). Two requests beside a published post are enough for `publishing`: two
creations that lock hashtags or images in opposite orders, a creation against a
deletion, two edits with one version, an edit with a version from the future that another edit makes
the right one or not, an edit against a deletion, a reader beside
any of them, two confirmations of one image, two creations of one place. Four posts
at two instants give `feed` a page boundary inside a group of equal times, and posts
that commit above and below a cursor that was handed out. The symmetry of `feed`
permutes the three posts of one author, which nothing tells apart. In the rate limiter the horizon leaves time to
empty a bucket, forget it and fill a new one. Every property is also shown to
fail for a plausible slip in the code: `PROJECT.json` names the operator, kept
beside the one it changes.

### Fairness

`WF_vars(Step(r))` for each request: the goroutine of a received request runs
until it has answered (there is no cancellation from outside except the
context's, which is `Rollback` or `Fail`), PostgreSQL runs the statements it is sent,
grants a lock that is free, and runs its deadlock detector after
`deadlock_timeout`. In Publishing the call to Cloudinary ends at the latest with
the HTTP client's ten seconds (`media/storage.go:72`), so there `Progress` may also
be the failure of a request to media or places. Arrivals, other rollbacks and the failure of a block's second
statement are not fair. Weak fairness is enough because a lock holder never waits
without a limit: it waits for a row that somebody finishes with, or in a circle
that the detector opens. With two or three one-shot requests nobody can be
overtaken for ever; starvation by an endless stream of newcomers is not covered
(PostgreSQL queues waiters in order).

## What disagrees

1. `DELETE /posts/{id}/vote` works on posts that are not VISIBLE
   (`governance.go:83` checks only new votes); the document promises 409. The
   recount can even turn HIDDEN_BY_ADMIN into HIDDEN_BY_COMMUNITY.
2. `like_count` and `save_count` lose increments when two likes overlap
   (`social.go:132`), and then stay low: the condition that should heal them adds
   one per later like at most.
3. `follower_count` and `following_count` keep counting follows that a block
   deleted (`social.go:273`).
4. Deleting a post lowers the place it had when the handler read it
   (`post/service.go:247`, `262`), not the place a suggestion has just given it.

More without a run of their own. A login that checks the old password before
a reset and inserts after it keeps a usable session (`NoOldSessionSurvives` says
exactly when), where the document (`FoodSocial_tai_lieu_ky_thuat_v2.md:287`) has
every device log in again; muting always fails, because its SQL
uses the columns of `blocks` on table `mutes` (`social.go:265`); and the
moderation's UPDATE (`governance.go:160`) uses `$1` both as a VARCHAR column value
and in a comparison with a literal, for which PostgreSQL may refuse to deduce one
type. The model takes that statement as it is meant, and its failure is `Rollback`.

From publishing. Confirming an image is called idempotent (`media/service.go:46`),
but of two overlapping confirmations the slower answers 404; `ConfirmationHolds`
shows that the image is usable then, so a third try is answered 200. Creating a
place is called idempotent as well (`place/service.go:25`), but two creations that
overlap give one of them a 500, and an id sent with blanks around it gives a 500 on
every try once the place exists, because it is looked up as sent
(`place/service.go:29`) and stored trimmed (line 78); `PlaceAnswersAgree` says that
these are the only cases. The comment on edits (`post/service.go:231`) takes every
miss for another edit. A deletion in between is told as 409 too, and so is a version that
the post has not reached, though nobody has edited it: `Validate` (`post/dto.go:175`)
refuses only versions of 0 and less (`EditsAreSerial` names the three cases). A client has
to guess, because `PostResponse` has no `version` (`post/dto.go:41`), which `UpdatePostRequest`
expects from "the last GET": no endpoint tells a client the version it must send,
except that a new post has 1. A post whose transaction began before a cursor was handed out
and commits after it lies above the cursor and is never shown in that walk; it was
not visible all the time, so `PagesAreExact` does not promise it. The following
feed and the saved list take a limit (50 at most) and no cursor: what is older
cannot be reached, nor, the oldest coming first, the newer comments of a post with
more than 50 (`social.go:98`).

From the rate limiter. Its comment (`ratelimiter.go:13`) says that tokens flow in
steadily. They flow out when a reading is older than the one before: `elapsed` is
negative (line 65), and nothing stops the bucket from falling below zero. A clock set
back takes up to 50 tokens for each second of the step from every active address, which is
then refused for about as long as the step, however long it rests meanwhile. `RestedKeyIsServed` says that this ends
when the clock is a token's refill past where it was; it does not say that a client which
rested is served. A clock set forward by more than ten minutes and then back gives the
addresses that Cleanup forgot in between a second full bucket: that is outside
`TtlAssumption`.

## Proofs

Every type invariant, safety invariant and action property that a passing run
checks is also a theorem, proved for every value of the constants, and so are the
two refinements (`ReviewVotes` of `VoteBoard`, `Posts` of `PostCatalogue`). Each
`...Proofs` module holds one inductive invariant `IInv`, one lemma per action that
the action keeps it, and theorems of the form `Spec => []P` or `Spec => [][A]_vars`
that read the property off `IInv`. TLC has checked each `IInv` as an invariant of
the run's instance before it was proved.

The invariants share a shape. A property over the tables is not inductive: that a
commit writes the right thing depends on what the transaction read or locked
several statements before. So `IInv` says of every request `r` what it *knows* of the
tables between two of its statements, depending on its `pc`. A step of `r` keeps what
every other request knows because of its *frame*: it changes no row that another
transaction has locked, gives nobody else's lock away, and lets rows grow only in
ways that hurt no claim. That part is one lemma per module
(`OthersKeepTheirClaims`, or the lemma on the frame); the lemma of an action then only shows
the frame, what `r` knows afterwards, and the property.

- `ReviewVotesProofs`: `Typing`, `LocksKeepTransactionsCurrent`, `TallyIsExact`,
  `AuditIsConsistent`, `RuleDecides` and `Refinement`. A request inside a transaction
  holds its post's lock, the row it staged is the newest row changed as its kind
  asks, and what it checked under the lock still holds (`TransactionsAreCurrent`).
  From it the refinement reads off that a commit is a step of VoteBoard. The audit
  trail needs in addition what a moderator who has locked the row is about to record.
- `FollowsProofs`: `Typing`, `CountersMoveWithRows`, `NoticeWithTheRow`. Who has
  written a row of `follows` holds its key until its end, so that at the commit the
  row is still as the INSERT or DELETE found it; the counters then move by what the
  table moves. A block bypasses both locks, which is why its rows are accounted for in
  `severed`.
- `PostInteractionsProofs`: `Typing`, `CommentsAreCounted`, `AuthorHears`,
  `NoticeWithTheLike`, `SerialToggles`. A key lock keeps the row of the toggle, the
  post's lock keeps the counter from which the new value was computed. A transaction
  that no other overlaps has, in `seen`, the number of rows (`LonelyView`); that
  overlapping ones have not is disagreement 2 above.
- `LocationSuggestionsProofs`: `Typing`, `AcceptancesAreNotified`,
  `PlacesCountTheirPosts`, `SuggestionsLiveOnce`. `PostCountNeverTooLow` is not
  inductive: a deletion takes one off the place it read before its transaction, and
  the post may have moved since. What is: a place has counted, besides the posts that
  are there, every post that a running deletion has read there (`Owed`). An acceptance
  adds one for the place the post moves to and takes none off the place it leaves,
  which the deletion then does. That nobody adds a suggestion to a post while its
  acceptance settles them rests on the post's lock (`SettleClaim`).
- `SessionsProofs`: `Typing`, `TokensAreOneTime`, `SessionsAreSwept`,
  `NamesAreUnique`. Who claims a token holds the lock of a row that is still unused;
  what was there when a reset or deletion began is seen by its UPDATE of `sessions` or
  was revoked by somebody else; who opens a session has checked a password that the
  account has had.
- `PublishingProofs`: of posts, `TagsAreCounted`, `SerialEdits`, `WholeAnswers` and
  `Refinement` (`Spec => ImplementsCatalogue`, where the environment does no more to
  images than `MediaGrows` allows); of the composition, `Typing`, `Confirmations`,
  `SamePlace`, `PostsInTheWhole` (`PublishingSpec => Spec`: media and places are such
  an environment) and therefore `WholeRefinement`. An upserted hashtag is locked to
  the end of the creation, so its staged counter is the newest; a post inserted but
  not committed is seen by nobody; images being attached are locked and free.
  `PostCatalogue` promises that an image illustrates one post at most, its author's own.
- `FeedPagesProofs`: `Typing`, `PagesLoseAndRepeatNothing`. Keys order the posts that
  have drawn an id, and a post that was or could have been shown keeps its key. The
  heart is `PageFacts`: for any finite set of posts and any page size, the page is all
  that the query matches or exactly the part that is not before its oldest post, and
  the extra row tells which. It needs that a page which leaves something out is full:
  the least part above a post that is left out lies wholly on the page
  (`SmallestMember`, from the well-foundedness of strict inclusion of finite sets).
- `RateLimiterProofs`: `LimiterTyping`, `CeilingHolds`, `RestIsRewarded`. The argument
  is a potential: `tokens - Rate * last` of a bucket never grows while the bucket
  lives, because a refill adds what time has passed (negative for an old reading) and
  the capacity only cuts. Every grant lowers it by `Cost`. So what was granted in an
  interval is bounded by the potential it can have had at most at the beginning and
  must have had at least at the end. None of this needs readings in order. A forgotten
  bucket was idle for more than `Ttl` ticks; by `TtlAssumption`
  (`Burst + 2 * (Rate * MaxLag) <= Rate * Ttl`) it had been full before, so the new full
  bucket grants nothing extra. With the code's 50 tokens per second, a capacity of 100 and
  ten minutes, the assumption holds for a lag of 299 seconds: the waits of goroutines and
  the corrections of a clock that is kept by NTP, which are far smaller; what a larger
  step does is said above. `RestedKeyIsServed` needs no such bound: a bucket owes no
  more than flows in until the clock is at `reached` (`DebtsAreBacked`).

Assumptions, all named where the constants are declared and evaluated by TLC in the
runs:

- `None` is not a row, a name or a request (`NoneAssumption` of each module,
  `NoBallotAssumption`, `NoActionAssumption`, `NoIdAssumption`,
  `NoEntryAssumption`): SQL's NULL and Go's zero values are no ids;
- tables are finite: `RequestsAssumption` (Posts, whose rows are named by the requests
  that create them), `PostsAssumption` (LocationSuggestions), `TableAssumption`
  (FeedPages, with a clock that has at least one instant);
- authors, early requests and drafts are what the instance means by them
  (`AuthorAssumption`, `SuggestionAuthors`, `FeedAuthors`, `EarlyAssumption`,
  `DraftsAssumption`, `ConstantsAssumption`), and the parameters of the code are
  positive (`HideAtVotesAssumption`, `LimitsAssumption`, and those of RateLimiter).

Four operators are written so that the provers can reason about them: `Distinct`
and `Normalized` (hashtags without blanks and repetitions, in the client's order)
select positions instead of folding, and `Shown` and `Withdrawn` name the two images
of a row in the catalogue.

Only model-checked: the liveness properties (every request is answered), which like
ENABLED are outside the prover's reach. The violated properties of the last four runs
are false. What the theorems do not say is how many requests may arrive: a behaviour
serves each member of `Requests` once, and `Requests` may be infinite except in Posts.

## Not modelled

The components marked `not_modelled` in `PROJECT.json`. Search, geography,
profiles and the HTTP plumbing are single statements or stateless. Reports are one
INSERT against a partial unique index, the list of notifications one UPDATE. The
mobile client sends no idempotency key and the server stores none, though the
document and a table (`000011_community_safety.up.sql`) foresee them: a publication
repeated after a lost answer is a second post, and no property can be stated that
the code means to keep. Reading lists other than the two of FeedPages changes
nothing and has no cursor.

Votes, interactions and suggestions are not composed with each other or with
Posts: each represents the others' changes to the post by one action
(`StateChanges`, `ModerationChanges`, `Change`). The state space of two transaction models
over one post is out of TLC's reach, and the shared row is protected by the same lock in
both.

## Plan

1. A review of the proofs for reading: shorter lemmas where two actions share a
   step, and the frame of each module stated once in words beside its definition.
2. Lemmas about the pure rules of `VoteRules` for every ballot box: `ShouldHide`
   under one more ballot (`Aggregate` sums over a set with a fold, so what it computes
   needs an induction over data, which the installed provers cannot instantiate;
   only what follows for a given tally can be proved).
3. The mobile client's session and its lists loaded out of order.
