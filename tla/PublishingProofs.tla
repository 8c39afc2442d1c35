---------------------------- MODULE PublishingProofs ----------------------------
(***************************************************************************)
(* Proofs about Publishing and its components, for any users, requests,    *)
(* images, hashtags, drafts and Google ids.  Each component has its own    *)
(* inductive invariant: MediaInv, PlaceInv and, for posts, IInv, which     *)
(* says of every request what it knows of the tables between two of its    *)
(* statements (its claim), that images being attached are free, and that   *)
(* the edits of a post form a chain.  Posts are proved in an environment   *)
(* of which they only know MediaGrows, and then placed beside the two      *)
(* others; last, they implement PostCatalogue.                             *)
(***************************************************************************)
EXTENDS Publishing, FiniteSetTheorems, TLAPS

-----------------------------------------------------------------------------
(* Images.  Who is at a confirmation has found the row to be its own, and  *)
(* rows never lose an owner or a USABLE.                                   *)

Usable(m) == m \in Assets /\ asset[m] # None /\ asset[m].status = "USABLE"

UsableIsInTheCloud == \A m \in Assets : Usable(m) => m \in cloud

CheckClaim(r) ==
    LET q == check[r]
    IN  /\ q.pc = "idle" => q = Media!Unasked
        /\ q.pc \in {"fetch", "mark"} =>
              /\ q.asset \in Assets /\ asset[q.asset] # None
              /\ asset[q.asset].owner = q.user
        /\ q.pc = "fetch" => ~q.vouched
        /\ q.pc = "mark" => q.asset \in cloud
        /\ q.pc = "reread" => Usable(q.asset)
        /\ q.answer # None => q.pc = "done"
        /\ q.answer = "200" \/ (q.answer = "404" /\ q.vouched) => Usable(q.asset)

MediaInv ==
    /\ Media!MediaTypeOK
    /\ UsableIsInTheCloud
    /\ \A r \in Requests : CheckClaim(r)

LEMMA NoneFacts ==
    /\ None \notin Requests /\ None \notin Tags /\ None \notin Asset /\ None \notin Post
    /\ None \notin GoogleIds
    /\ None \notin {"200", "201", "204", "400", "403", "404", "409", "500", "duplicate"}
  BY NoneAssumption, NoIdAssumption DEF Answers

LEMMA InitMediaInv == Media!Init => MediaInv
  <1> SUFFICES ASSUME Media!Init PROVE MediaInv
    OBVIOUS
  <1>1. Media!Unasked \in Media!Check
    BY DEF Media!Unasked, Media!Check
  <1>2. Media!MediaTypeOK
    BY <1>1 DEF Media!Init, Media!MediaTypeOK
  <1>3. UsableIsInTheCloud
    BY DEF Media!Init, UsableIsInTheCloud, Usable
  <1>4. \A r \in Requests : CheckClaim(r)
    BY NoneFacts DEF Media!Init, CheckClaim, Media!Unasked
  <1> QED
    BY <1>2, <1>3, <1>4 DEF MediaInv

(* What a row keeps whatever the media component does.                     *)
AssetsStay ==
    \A m \in Assets :
        asset[m] # None =>
            /\ asset'[m] # None /\ asset'[m].owner = asset[m].owner
            /\ asset[m].status = "USABLE" => asset'[m].status = "USABLE"

(* Asked requests other than r are untouched, and r's claim is all that is *)
(* left to show.                                                           *)
LEMMA OthersKeepTheirClaims ==
    ASSUME MediaInv, NEW r, AssetsStay, cloud \subseteq cloud',
           \A s \in Requests \ {r} : check'[s] = check[s]
    PROVE  \A s \in Requests \ {r} : CheckClaim(s)'
  BY DEF MediaInv, AssetsStay, CheckClaim, Usable
(* One lemma per step of a request: its claim, and what rows become.       *)
MediaStep(r) ==
    /\ cloud' = cloud /\ check' \in [Requests -> Media!Check]
    /\ \A s \in Requests \ {r} : check'[s] = check[s]
    /\ asset' \in [Assets -> Media!Asset \cup {None}]
    /\ AssetsStay
    /\ CheckClaim(r)'
    /\ \A m \in Assets : Usable(m)' => m \in cloud

LEMMA ToldIsAnswered ==
    ASSUME NEW q \in Media!Check, NEW answer \in {"200", "201", "400", "403", "404", "500"}
    PROVE  /\ Media!Told(q, answer) \in Media!Check
           /\ Media!Told(q, answer).pc = "done" /\ Media!Told(q, answer).answer = answer
           /\ Media!Told(q, answer).asset = q.asset
           /\ Media!Told(q, answer).vouched = q.vouched
  BY DEF Media!Told, Media!Check

LEMMA TellKeepsClaims ==
    ASSUME MediaInv, NEW r \in Requests,
           NEW answer \in {"200", "201", "400", "403", "404", "500"},
           Media!Tell(r, answer),
           answer = "200" \/ (answer = "404" /\ check[r].vouched) => Usable(check[r].asset)
    PROVE  MediaStep(r)
  <1>1. /\ check[r] \in Media!Check /\ asset' = asset /\ cloud' = cloud
        /\ asset \in [Assets -> Media!Asset \cup {None}]
        /\ check \in [Requests -> Media!Check]
        /\ check' = [check EXCEPT ![r] = Media!Told(check[r], answer)]
    BY DEF MediaInv, Media!MediaTypeOK, Media!Tell
  <1>2. /\ check'[r].pc = "done" /\ check'[r].answer = answer /\ check'[r].asset = check[r].asset
        /\ check'[r].vouched = check[r].vouched
        /\ check' \in [Requests -> Media!Check]
    BY <1>1, ToldIsAnswered
  <1>3. CheckClaim(r)'
    BY <1>1, <1>2 DEF CheckClaim, Usable
  <1> QED
    BY <1>1, <1>2, <1>3 DEF MediaStep, AssetsStay, MediaInv, UsableIsInTheCloud, Usable

(* What a request to confirm becomes.                                      *)
LEMMA ConfirmKeepsClaims ==
    ASSUME MediaInv, NEW r \in Requests, NEW u \in Users, NEW m \in Assets,
           Media!Confirm(r, u, m)
    PROVE  MediaStep(r)
  <1> DEFINE asked == [check[r] EXCEPT !.user = u, !.asset = m]
  <1>1. /\ check[r].pc = "idle" /\ asset' = asset /\ cloud' = cloud
        /\ asset \in [Assets -> Media!Asset \cup {None}]
        /\ check \in [Requests -> Media!Check] /\ check[r] = Media!Unasked
        /\ check' = [check EXCEPT ![r] =
              IF asset[m] = None THEN Media!Told(asked, "404")
              ELSE IF asset[m].owner # u THEN Media!Told(asked, "403")
              ELSE IF asset[m].status = "USABLE" THEN Media!Told(asked, "200")
              ELSE [asked EXCEPT !.pc = "fetch"]]
    BY DEF MediaInv, Media!MediaTypeOK, Media!Confirm, CheckClaim
  <1>c. check[r] \in Media!Check
    BY <1>1
  <1>2. /\ asked \in Media!Check /\ asked.asset = m /\ ~asked.vouched
        /\ [asked EXCEPT !.pc = "fetch"] \in Media!Check
    <2>1. asked.asset = m /\ (asked.vouched <=> FALSE)
      BY <1>1, <1>c DEF Media!Unasked, Media!Check
    <2>2. asked \in Media!Check
      BY <1>c DEF Media!Check
    <2>3. [asked EXCEPT !.pc = "fetch"] \in Media!Check
      <3> HIDE DEF asked
      <3> QED
        BY <2>2 DEF Media!Check
    <2> QED
      BY <2>1, <2>2, <2>3
  <1>3. check'[r] = IF asset[m] = None THEN Media!Told(asked, "404")
              ELSE IF asset[m].owner # u THEN Media!Told(asked, "403")
              ELSE IF asset[m].status = "USABLE" THEN Media!Told(asked, "200")
              ELSE [asked EXCEPT !.pc = "fetch"]
    BY <1>1
  <1>4. check'[r] \in Media!Check /\ check' \in [Requests -> Media!Check]
    BY <1>1, <1>2, <1>3, ToldIsAnswered
  <1>5. CheckClaim(r)'
    <2>1. CASE check'[r] = Media!Told(asked, "404") \/ check'[r] = Media!Told(asked, "403")
      <3> HIDE DEF asked
      <3>1. check'[r].pc = "done" /\ check'[r].answer \in {"403", "404"} /\ ~check'[r].vouched
        BY <2>1, <1>2, ToldIsAnswered
      <3> QED
        BY <3>1 DEF CheckClaim
    <2>2. CASE Usable(m) /\ check'[r] = Media!Told(asked, "200")
      <3> HIDE DEF asked
      <3>1. check'[r].pc = "done" /\ check'[r].answer = "200" /\ check'[r].asset = m
        BY <2>2, <1>2, ToldIsAnswered
      <3> QED
        BY <1>1, <3>1, <2>2 DEF CheckClaim, Usable
    <2>3. CASE asset[m] # None /\ asset[m].owner = u /\ check'[r] = [asked EXCEPT !.pc = "fetch"]
      <3>1. /\ check'[r].pc = "fetch" /\ check'[r].asset = m /\ check'[r].answer = None
            /\ check'[r].user = u /\ ~check'[r].vouched
        BY <2>3, <1>1 DEF Media!Unasked
      <3> QED
        BY <1>1, <3>1, <2>3, NoneFacts DEF CheckClaim
    <2> QED
      BY <1>3, <2>1, <2>2, <2>3 DEF Usable
  <1> QED
    BY <1>1, <1>4, <1>5 DEF MediaStep, AssetsStay, MediaInv, UsableIsInTheCloud, Usable

LEMMA SignKeepsClaims ==
    ASSUME MediaInv, NEW r \in Requests, NEW u \in Users, NEW m \in Assets,
           Media!Sign(r, u, m)
    PROVE  MediaStep(r)
  <1> DEFINE asked == [check[r] EXCEPT !.asset = m]
             row == [owner |-> u, status |-> "PENDING"]
  <1>1. /\ check[r].pc = "idle" /\ asset[m] = None /\ cloud' = cloud
        /\ asset \in [Assets -> Media!Asset \cup {None}]
        /\ asset' = [asset EXCEPT ![m] = row]
        /\ check \in [Requests -> Media!Check] /\ check[r] = Media!Unasked
        /\ check' = [check EXCEPT ![r] = Media!Told(asked, "201")]
    BY DEF MediaInv, Media!MediaTypeOK, Media!Sign, CheckClaim
  <1>2. asked \in Media!Check /\ row \in Media!Asset /\ row.status = "PENDING"
    BY <1>1 DEF Media!Check, Media!Unasked, Media!Asset
  <1> HIDE DEF asked, row
  <1>3. /\ check'[r] \in Media!Check /\ check' \in [Requests -> Media!Check]
        /\ check'[r].pc = "done" /\ check'[r].answer = "201"
    BY <1>1, <1>2, ToldIsAnswered
  <1>4. CheckClaim(r)'
    BY <1>3 DEF CheckClaim
  <1>5. asset' \in [Assets -> Media!Asset \cup {None}] /\ AssetsStay
    BY <1>1, <1>2 DEF AssetsStay
  <1>6. \A n \in Assets : Usable(n)' => n \in cloud
    BY <1>1, <1>2 DEF Usable, MediaInv, UsableIsInTheCloud
  <1> QED
    BY <1>1, <1>3, <1>4, <1>5, <1>6 DEF MediaStep

LEMMA FetchKeepsClaims ==
    ASSUME MediaInv, NEW r \in Requests, Media!FetchResource(r)
    PROVE  MediaStep(r)
  <1>0. CheckClaim(r) /\ check[r].pc = "fetch"
    BY DEF MediaInv, Media!FetchResource
  <1>1. CASE check[r].asset \in cloud
    <2>1. /\ asset' = asset /\ cloud' = cloud
          /\ asset \in [Assets -> Media!Asset \cup {None}]
          /\ check \in [Requests -> Media!Check]
          /\ check' = [check EXCEPT ![r] = [check[r] EXCEPT !.pc = "mark", !.vouched = TRUE]]
      BY <1>1 DEF MediaInv, Media!MediaTypeOK, Media!FetchResource
    <2>2. check'[r] \in Media!Check /\ check' \in [Requests -> Media!Check]
      <3>1. check[r] \in Media!Check /\ check'[r] = [check[r] EXCEPT !.pc = "mark", !.vouched = TRUE]
        BY <2>1
      <3>2. check'[r] \in Media!Check
        BY <3>1 DEF Media!Check
      <3> QED
        BY <2>1, <3>1, <3>2
    <2>3. /\ check'[r].pc = "mark" /\ check'[r].user = check[r].user
          /\ check'[r].asset = check[r].asset /\ check'[r].answer = check[r].answer
      BY <2>1 DEF Media!Check
    <2>4. CheckClaim(r)'
      BY <1>0, <1>1, <2>1, <2>3, NoneFacts DEF CheckClaim
    <2> QED
      BY <2>1, <2>2, <2>4 DEF MediaStep, AssetsStay, MediaInv, UsableIsInTheCloud, Usable
  <1>2. CASE check[r].asset \notin cloud
    BY <1>2, TellKeepsClaims DEF Media!FetchResource
  <1> QED
    BY <1>1, <1>2

(* Of two confirmations the slower finds the image usable already.         *)
LEMMA MarkKeepsClaims ==
    ASSUME MediaInv, NEW r \in Requests, Media!MarkUsable(r)
    PROVE  MediaStep(r)
  <1> DEFINE m == check[r].asset
             pending == [owner |-> check[r].user, status |-> "PENDING"]
  <1>0. /\ check[r].pc = "mark" /\ m \in Assets /\ asset[m] # None /\ m \in cloud
        /\ asset[m].owner = check[r].user /\ check[r].answer = None
        /\ asset \in [Assets -> Media!Asset \cup {None}]
        /\ check \in [Requests -> Media!Check]
    BY DEF MediaInv, Media!MarkUsable, CheckClaim, Media!MediaTypeOK
  <1>1. CASE asset[m] = pending
    <2>1. /\ asset' = [asset EXCEPT ![m] = [asset[m] EXCEPT !.status = "USABLE"]]
          /\ cloud' = cloud
          /\ check' = [check EXCEPT ![r] = [check[r] EXCEPT !.pc = "reread"]]
      BY <1>1 DEF Media!MarkUsable
    <2>2. check'[r] \in Media!Check /\ check' \in [Requests -> Media!Check]
      BY <1>0, <2>1 DEF Media!Check
    <2>3. asset'[m] \in Media!Asset /\ asset'[m].status = "USABLE"
          /\ asset'[m].owner = asset[m].owner
      BY <1>0, <2>1 DEF Media!Asset
    <2>4. check'[r].pc = "reread" /\ check'[r].asset = m /\ check'[r].answer = None
      BY <1>0, <2>1 DEF Media!Check
    <2>5. \A n \in Assets \ {m} : asset'[n] = asset[n]
      BY <1>0, <2>1
    <2>6. asset' \in [Assets -> Media!Asset \cup {None}]
      BY <1>0, <2>1, <2>3
    <2>7. asset'[m] # None
      BY <2>3, NoneFacts DEF Asset, Media!Asset
    <2>8. CheckClaim(r)'
      BY <1>0, <2>3, <2>4, <2>7, NoneFacts DEF CheckClaim, Usable
    <2> QED
      BY <1>0, <2>1, <2>2, <2>3, <2>5, <2>6, <2>7, <2>8
         DEF MediaStep, AssetsStay, MediaInv, UsableIsInTheCloud, Usable
  <1>2. CASE asset[m] # pending
    <2>1. Usable(m)
      BY <1>0, <1>2 DEF Usable, Media!Asset
    <2> QED
      BY <1>2, <2>1, TellKeepsClaims DEF Media!MarkUsable
  <1> QED
    BY <1>1, <1>2

(* The table and the cloud as they were leave all claims as they were.     *)
LEMMA MediaSteps ==
    ASSUME MediaInv, NEW r \in Requests, Media!Serve(r)
    PROVE  MediaStep(r)
  <1>1. CASE \E u \in Users, m \in Assets : Media!Sign(r, u, m) \/ Media!Confirm(r, u, m)
    BY <1>1, SignKeepsClaims, ConfirmKeepsClaims
  <1>2. CASE Media!Reread(r)
    <2>1. Usable(check[r].asset)
      BY <1>2 DEF Media!Reread, MediaInv, CheckClaim
    <2> QED
      BY <1>2, <2>1, TellKeepsClaims DEF Media!Reread
  <1>3. CASE Media!FailCheck(r)
    BY <1>3, TellKeepsClaims DEF Media!FailCheck
  <1> QED
    BY <1>1, <1>2, <1>3, FetchKeepsClaims, MarkKeepsClaims DEF Media!Serve, Media!CheckStep

LEMMA MediaStepsKeepMediaInv ==
    ASSUME MediaInv, NEW r \in Requests, MediaStep(r)
    PROVE  MediaInv'
  <1>1. \A s \in Requests \ {r} : CheckClaim(s)'
    BY OthersKeepTheirClaims DEF MediaStep
  <1> QED
    BY <1>1 DEF MediaStep, MediaInv, Media!MediaTypeOK, UsableIsInTheCloud

LEMMA UploadKeepsMediaInv ==
    ASSUME MediaInv, NEW m \in Assets, Media!Upload(m)
    PROVE  MediaInv'
  BY DEF MediaInv, Media!MediaTypeOK, UsableIsInTheCloud, Usable, CheckClaim, Media!Upload

LEMMA MediaInvAsItWas ==
    ASSUME MediaInv, UNCHANGED <<asset, cloud, check>>
    PROVE  MediaInv'
  BY DEF MediaInv, Media!MediaTypeOK, UsableIsInTheCloud, Usable, CheckClaim

LEMMA MediaInvConfirms == MediaInv => ConfirmationHolds
  BY DEF MediaInv, UsableIsInTheCloud, Usable, CheckClaim, ConfirmationHolds,
         Media!ConfirmationHolds
-----------------------------------------------------------------------------
(* Places.  A Google id has one row, because of the index; a row is there  *)
(* for ever, so an answer remains right.                                   *)

OneRowPerId ==
    \A l, k \in Requests : place[l] # None /\ place[l] = place[k] => l = k

VisitClaim(r) ==
    LET q == visit[r]
    IN  /\ q.pc = "idle" => q = Geo!Unvisited
        /\ q.pc \in {"idle", "insert"} => place[r] = None
        /\ q.pc = "insert" => q.known = None \/ q.blanks
        /\ q.known # None => q.id # None /\ q.known \in Requests /\ place[q.known] = q.id
        /\ q.answer # None => q.pc = "done"
        /\ q.answer = "201" /\ q.id # None => q.found \in Requests /\ place[q.found] = q.id
        /\ q.answer = "duplicate" => q.known = None \/ q.blanks

PlaceInv ==
    /\ Geo!PlaceTypeOK
    /\ OneRowPerId
    /\ \A r \in Requests : VisitClaim(r)

LEMMA InitPlaceInv == Geo!Init => PlaceInv
  <1> SUFFICES ASSUME Geo!Init PROVE PlaceInv
    OBVIOUS
  <1>1. Geo!Unvisited \in Geo!Visit
    BY DEF Geo!Unvisited, Geo!Visit
  <1>2. Geo!PlaceTypeOK /\ OneRowPerId
    BY <1>1 DEF Geo!Init, Geo!PlaceTypeOK, OneRowPerId
  <1>3. \A r \in Requests : VisitClaim(r)
    BY NoneFacts DEF Geo!Init, VisitClaim, Geo!Unvisited
  <1> QED
    BY <1>2, <1>3 DEF PlaceInv

(* What the lookup finds is a row of that id, and it finds it if there is  *)
(* one.                                                                    *)
LEMMA RowIsFound ==
    ASSUME NEW g
    PROVE  /\ Geo!RowOf(g) # None =>
                 g # None /\ Geo!RowOf(g) \in Requests /\ place[Geo!RowOf(g)] = g
           /\ Geo!RowOf(g) = None => g = None \/ \A l \in Requests : place[l] # g
  BY NoneFacts DEF Geo!RowOf, Geo!Rows

(* A step of r leaves the other requests and all rows but r's.             *)
PlaceStep(r) ==
    /\ Geo!PlaceTypeOK' /\ OneRowPerId'
    /\ \A s \in Requests \ {r} : visit'[s] = visit[s]
    /\ \A l \in Requests : place[l] # None => place'[l] = place[l]
    /\ \A l \in Requests \ {r} : place'[l] = place[l]
    /\ VisitClaim(r)'

LEMMA PlaceStepsKeepPlaceInv ==
    ASSUME PlaceInv, NEW r \in Requests, PlaceStep(r)
    PROVE  PlaceInv'
  <1>1. ASSUME NEW s \in Requests \ {r} PROVE VisitClaim(s)'
    <2>1. VisitClaim(s) /\ visit'[s] = visit[s] /\ place'[s] = place[s]
      BY DEF PlaceInv, PlaceStep
    <2> QED
      BY <2>1 DEF PlaceStep, VisitClaim
  <1> QED
    BY <1>1 DEF PlaceStep, PlaceInv

(* A step that only ends r's request, or takes it to its INSERT.           *)
LEMMA VisitOnly ==
    ASSUME PlaceInv, NEW r \in Requests, NEW q \in Geo!Visit,
           place' = place, visit' = [visit EXCEPT ![r] = q],
           VisitClaim(r)'
    PROVE  PlaceStep(r)
  BY DEF PlaceInv, Geo!PlaceTypeOK, PlaceStep, OneRowPerId

LEMMA CreateKeepsPlaceInv ==
    ASSUME PlaceInv, NEW r \in Requests, NEW g \in GoogleIds \cup {None}, NEW blanks \in BOOLEAN,
           Geo!Create(r, g, blanks)
    PROVE  PlaceStep(r)
  <1> DEFINE found == Geo!FindByGoogleID(g, blanks)
             known == Geo!RowOf(g)
             asked == [Geo!Unvisited EXCEPT !.id = g, !.blanks = blanks, !.known = known]
             q == IF found # None
                  THEN [asked EXCEPT !.pc = "done", !.answer = "201", !.found = found]
                  ELSE [asked EXCEPT !.pc = "insert"]
  <1>1. /\ visit[r].pc = "idle" /\ place' = place /\ visit \in [Requests -> Geo!Visit]
        /\ place[r] = None
    BY DEF PlaceInv, Geo!PlaceTypeOK, Geo!Create, VisitClaim
  <1>2. visit' = [visit EXCEPT ![r] = q]
    BY DEF Geo!Create
  <1>3. /\ known # None => g # None /\ known \in Requests /\ place[known] = g
        /\ found = IF blanks THEN None ELSE known
    BY RowIsFound DEF Geo!FindByGoogleID
  <1> HIDE DEF found, known
  <1>4. /\ asked \in Geo!Visit /\ asked.id = g /\ (asked.blanks <=> blanks)
        /\ asked.known = known /\ asked.answer = None
    BY <1>3 DEF Geo!Visit, Geo!Unvisited
  <1> HIDE DEF asked
  <1>5. /\ q \in Geo!Visit /\ q.id = g /\ (q.blanks <=> blanks) /\ q.known = known
        /\ found # None => q.pc = "done" /\ q.answer = "201" /\ q.found = found
        /\ found = None => q.pc = "insert" /\ q.answer = None
    BY <1>3, <1>4 DEF Geo!Visit
  <1> HIDE DEF q
  <1>6. visit'[r] = q
    BY <1>1, <1>2
  <1>7. VisitClaim(r)'
    BY <1>1, <1>3, <1>5, <1>6, NoneFacts DEF VisitClaim
  <1> QED
    BY <1>1, <1>2, <1>5, <1>7, VisitOnly

LEMMA InsertKeepsPlaceInv ==
    ASSUME PlaceInv, NEW r \in Requests, Geo!Insert(r)
    PROVE  PlaceStep(r)
  <1> DEFINE g == visit[r].id
  <1>1. /\ visit[r].pc = "insert" /\ visit[r] \in Geo!Visit /\ VisitClaim(r)
        /\ visit \in [Requests -> Geo!Visit] /\ place \in [Requests -> GoogleIds \cup {None}]
        /\ place[r] = None /\ g \in GoogleIds \cup {None}
    BY DEF PlaceInv, Geo!PlaceTypeOK, Geo!Insert, VisitClaim, Geo!Visit
  <1>2. CASE Geo!RowOf(g) # None
    <2>1. /\ place' = place
          /\ visit' = [visit EXCEPT ![r] = [visit[r] EXCEPT !.pc = "done", !.answer = "duplicate"]]
      BY <1>2 DEF Geo!Insert
    <2>2. [visit[r] EXCEPT !.pc = "done", !.answer = "duplicate"] \in Geo!Visit
      BY <1>1 DEF Geo!Visit
    <2>3. /\ visit'[r].pc = "done" /\ visit'[r].answer = "duplicate"
          /\ visit'[r].known = visit[r].known /\ (visit'[r].blanks <=> visit[r].blanks)
          /\ visit'[r].id = g
      BY <1>1, <2>1 DEF Geo!Visit
    <2>4. VisitClaim(r)'
      BY <1>1, <2>1, <2>3 DEF VisitClaim
    <2> QED
      BY <2>1, <2>2, <2>4, VisitOnly
  <1>3. CASE Geo!RowOf(g) = None
    <2>1. /\ place' = [place EXCEPT ![r] = g]
          /\ visit' = [visit EXCEPT ![r] =
                          [visit[r] EXCEPT !.pc = "done", !.answer = "201", !.found = r]]
      BY <1>3, NoneFacts DEF Geo!Insert
    <2>2. [visit[r] EXCEPT !.pc = "done", !.answer = "201", !.found = r] \in Geo!Visit
      BY <1>1 DEF Geo!Visit
    <2>3. /\ visit'[r].pc = "done" /\ visit'[r].answer = "201" /\ visit'[r].found = r
          /\ visit'[r].known = visit[r].known /\ (visit'[r].blanks <=> visit[r].blanks)
          /\ visit'[r].id = g
      BY <1>1, <2>1 DEF Geo!Visit
    <2>4. /\ place'[r] = g /\ \A l \in Requests \ {r} : place'[l] = place[l]
      BY <1>1, <2>1
    <2>5. VisitClaim(r)'
      BY <1>1, <2>3, <2>4, NoneFacts DEF VisitClaim
    <2>6. OneRowPerId'
      BY <1>1, <1>3, <2>4, RowIsFound DEF OneRowPerId, PlaceInv
    <2>7. Geo!PlaceTypeOK'
      BY <1>1, <2>1, <2>2 DEF Geo!PlaceTypeOK
    <2> QED
      BY <1>1, <2>1, <2>4, <2>5, <2>6, <2>7 DEF PlaceStep
  <1> QED
    BY <1>2, <1>3

LEMMA OtherVisitsKeepPlaceInv ==
    ASSUME PlaceInv, NEW r \in Requests, Geo!RefuseVisit(r) \/ Geo!FailVisit(r)
    PROVE  PlaceStep(r)
  <1>1. PICK answer \in {"400", "500"} :
            visit' = [visit EXCEPT ![r] = [visit[r] EXCEPT !.pc = "done", !.answer = answer]]
    BY DEF Geo!RefuseVisit, Geo!FailVisit
  <1>2. /\ visit[r] \in Geo!Visit /\ visit \in [Requests -> Geo!Visit]
        /\ place' = place /\ VisitClaim(r)
    BY DEF PlaceInv, Geo!PlaceTypeOK, Geo!RefuseVisit, Geo!FailVisit
  <1>3. [visit[r] EXCEPT !.pc = "done", !.answer = answer] \in Geo!Visit
    BY <1>2 DEF Geo!Visit
  <1>4. /\ visit'[r].pc = "done" /\ visit'[r].answer = answer
        /\ visit'[r].known = visit[r].known /\ visit'[r].id = visit[r].id
    BY <1>1, <1>2 DEF Geo!Visit
  <1>5. VisitClaim(r)'
    BY <1>2, <1>4 DEF VisitClaim
  <1> QED
    BY <1>1, <1>2, <1>3, <1>5, VisitOnly

LEMMA PlaceSteps ==
    ASSUME PlaceInv, NEW r \in Requests, Geo!Serve(r)
    PROVE  PlaceStep(r)
  BY CreateKeepsPlaceInv, InsertKeepsPlaceInv, OtherVisitsKeepPlaceInv DEF Geo!Serve

LEMMA PlaceInvAsItWas ==
    ASSUME PlaceInv, UNCHANGED <<place, visit>>
    PROVE  PlaceInv'
  BY DEF PlaceInv, Geo!PlaceTypeOK, OneRowPerId, VisitClaim

(* Two answers for one id name rows of that id, which has one.             *)
LEMMA PlaceInvAgrees == PlaceInv => PlaceAnswersAgree
  BY DEF PlaceInv, OneRowPerId, VisitClaim, PlaceAnswersAgree, Geo!PlaceAnswersAgree
-----------------------------------------------------------------------------
(* The drafts' lists.                                                      *)

(* Ranks number the indices in keep from 1 without gaps, so what is kept   *)
(* is a sequence of what s has at these indices, each index once.          *)
LEMMA KeptElements ==
    ASSUME NEW S, NEW s \in Seq(S), NEW keep, keep \subseteq DOMAIN s
    PROVE  /\ Cardinality(keep) \in Nat
           /\ \A n \in 1..Cardinality(keep) : \E i \in keep : Kept(s, keep)[n] = s[i]
           /\ (\A i, j \in keep : s[i] = s[j] => i = j) =>
                 \A m, n \in 1..Cardinality(keep) :
                     Kept(s, keep)[m] = Kept(s, keep)[n] => m = n
  <1> DEFINE rank == [i \in keep |-> Cardinality({j \in keep : j <= i})]
             size == Cardinality(keep)
  <1>1. keep \subseteq Nat /\ IsFiniteSet(keep)
    <2>1. DOMAIN s = 1..Len(s) /\ Len(s) \in Nat
      OBVIOUS
    <2>2. IsFiniteSet(1..Len(s))
      BY <2>1, FS_Interval
    <2> QED
      BY <2>1, <2>2, FS_Subset
  <1>2. size \in Nat
    BY <1>1, FS_CardinalityType
  <1>3. ASSUME NEW i \in keep
        PROVE  /\ IsFiniteSet({j \in keep : j <= i})
               /\ Cardinality({j \in keep : j <= i}) \in 1..size
    <2> DEFINE below == {j \in keep : j <= i}
    <2>1. IsFiniteSet(below) /\ Cardinality(below) <= size
      BY <1>1, FS_Subset
    <2>2. Cardinality(below) \in Nat /\ (Cardinality(below) = 0 <=> below = {})
      BY <2>1, FS_CardinalityType, FS_EmptySet
    <2>3. i \in below
      BY <1>1
    <2> QED
      BY <1>2, <2>1, <2>2, <2>3
  <1>4. ASSUME NEW i \in keep, NEW k \in keep, i < k
        PROVE  Cardinality({j \in keep : j <= i}) # Cardinality({j \in keep : j <= k})
    <2> DEFINE low == {j \in keep : j <= i}
               high == {j \in keep : j <= k}
    <2>1. low \subseteq high /\ k \in high /\ k \notin low
      BY <1>1, <1>4
    <2>2. IsFiniteSet(high)
      BY <1>3
    <2> HIDE DEF low, high
    <2>3. Cardinality(low) # Cardinality(high)
      BY <2>1, <2>2, FS_Subset
    <2> QED
      BY <2>3 DEF low, high
  <1>5. rank \in [keep -> 1..size]
    BY <1>3
  <1>6. ASSUME NEW i \in keep, NEW k \in keep, rank[i] = rank[k]
        PROVE  i = k
    <2>1. rank[i] = Cardinality({j \in keep : j <= i})
      OBVIOUS
    <2>2. rank[k] = Cardinality({j \in keep : j <= k})
      OBVIOUS
    <2>3. ~(i < k) /\ ~(k < i)
      BY <1>4, <1>6, <2>1, <2>2
    <2> QED
      BY <1>1, <2>3
  <1> HIDE DEF rank
  <1>7. rank \in Injection(keep, 1..size)
    BY <1>5, <1>6 DEF Injection, IsInjective
  <1>8. rank \in Surjection(keep, 1..size)
    <2>1. IsFiniteSet(1..size) /\ Cardinality(1..size) = size
      BY <1>2, FS_Interval
    <2> QED
      BY <1>7, <2>1, FS_Injection
  <1>9. \A n \in 1..size : \E i \in keep : Cardinality({j \in keep : j <= i}) = n
    <2>1. \A n \in 1..size : \E i \in keep : rank[i] = n
      BY <1>8 DEF Surjection
    <2>2. \A i \in keep : rank[i] = Cardinality({j \in keep : j <= i})
      BY DEF rank
    <2> QED
      BY <2>1, <2>2
  <1> DEFINE Index(n) == CHOOSE i \in keep : Cardinality({j \in keep : j <= i}) = n
  <1>10. \A n \in 1..size : Index(n) \in keep /\ Cardinality({j \in keep : j <= Index(n)}) = n
    BY <1>9
  <1>11. \A n \in 1..size : Kept(s, keep)[n] = s[Index(n)]
    BY DEF Kept
  <1>12. \A m, n \in 1..size : Index(m) = Index(n) => m = n
    BY <1>10
  <1> HIDE DEF Index
  <1>13. ASSUME \A i, j \in keep : s[i] = s[j] => i = j,
                NEW m \in 1..size, NEW n \in 1..size, Kept(s, keep)[m] = Kept(s, keep)[n]
         PROVE  m = n
    <2>1. s[Index(m)] = s[Index(n)] /\ Index(m) \in keep /\ Index(n) \in keep
      BY <1>10, <1>11, <1>13
    <2> QED
      BY <1>12, <1>13, <2>1
  <1>14. \A n \in 1..size : \E i \in keep : Kept(s, keep)[n] = s[i]
    BY <1>10, <1>11
  <1> QED
    BY <1>2, <1>13, <1>14

LEMMA KeptIsSequence ==
    ASSUME NEW S, NEW T, NEW s \in Seq(S), NEW keep, keep \subseteq DOMAIN s,
           \A i \in keep : s[i] \in T
    PROVE  Kept(s, keep) \in Seq(T)
  <1> DEFINE size == Cardinality(keep)
  <1>1. size \in Nat /\ \A n \in 1..size : Kept(s, keep)[n] \in T
    BY KeptElements
  <1>2. Kept(s, keep) = [n \in 1..size |-> Kept(s, keep)[n]]
    BY DEF Kept
  <1> HIDE DEF size
  <1> QED
    BY <1>1, <1>2

(* A creation's images are ids of images, its hashtags are not blank and   *)
(* there is none twice.                                                    *)
Repeatless(s) == \A i, j \in DOMAIN s : s[i] = s[j] => i = j

LEMMA DraftLists ==
    ASSUME NEW d \in Drafts
    PROVE  /\ Distinct(d.images) \in Seq(Assets)
           /\ Normalized(d.tags) \in Seq(Tags)
           /\ Repeatless(Normalized(d.tags))
  <1>1. d.images \in Seq(Assets) /\ d.tags \in Seq(Tags \cup {None})
    BY DraftsAssumption
  <1>2. Distinct(d.images) \in Seq(Assets)
    <2>1. Firsts(d.images) \subseteq DOMAIN d.images
      BY DEF Firsts
    <2>2. \A i \in Firsts(d.images) : d.images[i] \in Assets
      BY <1>1, <2>1
    <2> QED
      BY <1>1, <2>1, <2>2, KeptIsSequence DEF Distinct
  <1> DEFINE keep == {i \in Firsts(d.tags) : d.tags[i] # None}
  <1>3. keep \subseteq DOMAIN d.tags /\ \A i \in keep : d.tags[i] \in Tags
    BY <1>1 DEF Firsts
  <1>4. \A i, j \in keep : d.tags[i] = d.tags[j] => i = j
    <2>1. DOMAIN d.tags = 1..Len(d.tags) /\ Len(d.tags) \in Nat
      BY <1>1
    <2> QED
      BY <2>1 DEF Firsts
  <1> HIDE DEF keep
  <1>5. Kept(d.tags, keep) \in Seq(Tags)
    BY <1>1, <1>3, KeptIsSequence
  <1>6. \A i, j \in 1..Cardinality(keep) :
            Kept(d.tags, keep)[i] = Kept(d.tags, keep)[j] => i = j
    BY <1>1, <1>3, <1>4, KeptElements
  <1>7. DOMAIN Kept(d.tags, keep) = 1..Cardinality(keep)
    BY DEF Kept
  <1> QED
    BY <1>2, <1>5, <1>6, <1>7 DEF Normalized, Repeatless, keep
-----------------------------------------------------------------------------
(* Posts.  The inductive invariant says what a request knows at each of    *)
(* its steps about the rows it will read or write next.                    *)

Exists(p) == p \in Requests /\ post[p] # None

(* A post that is not committed does not exist.                            *)
IdleClaim(r) ==
    /\ req[r].pc = "idle" => req[r] = Idle
    /\ req[r].pc \in {"idle", "write"} => post[r] = None

(* What a creation has locked is its user's to attach.                     *)
CreateClaim(r) ==
    req[r].pc = "write" =>
        /\ req[r].kind = "CREATE" /\ req[r].user \in Users /\ req[r].post = r
        /\ Repeatless(req[r].tags)
        /\ \A i \in DOMAIN req[r].images :
              asset[req[r].images[i]] = [owner |-> req[r].user, status |-> "USABLE"]
        /\ \A m \in Assets :
              imageLock[m] = r => asset[m] = [owner |-> req[r].user, status |-> "USABLE"]

(* A deletion has its post's row, and locks hashtags of that post only.    *)
DeleteClaim(r) ==
    /\ req[r].pc \in {"delete", "untag"} => req[r].kind = "DELETE" /\ Exists(req[r].post)
    /\ req[r].pc = "delete" => \A t \in Tags : tagLock[t] # r
    /\ req[r].pc = "untag" =>
          /\ ~post[req[r].post].deleted /\ postLock[req[r].post] = r
          /\ \A t \in Tags : tagLock[t] = r => t \in post[req[r].post].tags

(* An update was sent by the author and has found a version of the post.   *)
EditClaim(r) ==
    /\ req[r].pc = "edit" =>
          /\ req[r].kind = "UPDATE" /\ Exists(req[r].post) /\ ~req[r].wrote
          /\ req[r].user = post[req[r].post].author
          /\ req[r].version > 0 /\ req[r].found <= post[req[r].post].version
    /\ req[r].kind = "UPDATE" /\ req[r].wrote => Exists(req[r].post)

(* A reader's post has been published, with the images it has been shown.  *)
ReadClaim(r) ==
    /\ req[r].pc \in {"images", "tags"} =>
          Exists(req[r].post) /\ req[r].kind \in {"CREATE", "UPDATE", "READ"}
    /\ req[r].pc = "tags" => req[r].shown.images = ImagesOf(req[r].post)

DoneClaim(r) ==
    /\ req[r].answer # None => req[r].pc = "done"
    /\ req[r].answer \in {"200", "201"} =>
          /\ Exists(req[r].post)
          /\ req[r].shown = [images |-> ImagesOf(req[r].post), tags |-> post[req[r].post].tags]
    /\ req[r].answer = "409" =>
          /\ Exists(req[r].post)
          /\ \/ post[req[r].post].deleted
             \/ post[req[r].post].version > req[r].version
             \/ req[r].version > req[r].found

Claim(r) ==
    /\ IdleClaim(r) /\ CreateClaim(r) /\ DeleteClaim(r)
    /\ EditClaim(r) /\ ReadClaim(r) /\ DoneClaim(r)

ClaimsHold == \A r \in Requests : Claim(r)

(* What is being attached is not attached.                                 *)
LockedImagesAreFree == \A m \in Assets : imageLock[m] # None => holder[m] = None

(* The updates of a post, in the order of their versions.                  *)
Chain(p) ==
    /\ Cardinality(Applied(p)) = post[p].version - 1
    /\ {req[r].version : r \in Applied(p)} = 1 .. post[p].version - 1
    /\ \A r, s \in Applied(p) : req[r].version = req[s].version => r = s
    /\ post[p].version = 1 => post[p].text = p
    /\ \A r \in Applied(p) : req[r].version = post[p].version - 1 => post[p].text = r

EditsAreChained == \A p \in Requests : post[p] # None => Chain(p)

IInv ==
    /\ TypeOK /\ ClaimsHold /\ LockedImagesAreFree
    /\ EditsAreChained /\ TagCountsExact
(* What a step of r does not do: to the types, to the other requests, to   *)
(* their locks and to the posts they have found.                           *)
Frame(r) ==
    /\ asset' = asset
    /\ post' \in [Requests -> Post \cup {None}]
    /\ holder' \in [Assets -> Requests \cup {None}]
    /\ count' \in [Tags -> Nat]
    /\ req' \in [Requests -> Request]
    /\ \A s \in Requests \ {r} : req'[s] = req[s]
    /\ \A s \in Requests \ {r} : req[s].pc \in {"idle", "write"} => post'[s] = None
    /\ \A p \in Requests : post[p] # None =>
          /\ post'[p] # None /\ post'[p].author = post[p].author /\ post'[p].tags = post[p].tags
          /\ post'[p].version >= post[p].version
          /\ post[p].deleted => post'[p].deleted
          /\ ImagesOf(p)' = ImagesOf(p)
    /\ \A s \in Requests \ {r} :
          req[s].pc = "untag" /\ ~post[req[s].post].deleted => ~post'[req[s].post].deleted

(* Only r's locks change, and only a transaction keeps any.                *)
LockFrame(r) ==
    /\ postLock' \in [Requests -> Requests \cup {None}]
    /\ imageLock' \in [Assets -> Requests \cup {None}]
    /\ tagLock' \in [Tags -> Requests \cup {None}]
    /\ \A s \in Requests \ {r} :
          /\ \A p \in Requests : postLock'[p] = s <=> postLock[p] = s
          /\ \A m \in Assets : imageLock'[m] = s <=> imageLock[m] = s
          /\ \A t \in Tags : tagLock'[t] = s <=> tagLock[t] = s
    /\ \/ req'[r].pc \in InTx
       \/ /\ \A p \in Requests : postLock'[p] # r
          /\ \A m \in Assets : imageLock'[m] # r
          /\ \A t \in Tags : tagLock'[t] # r

LEMMA FrameKeepsTypes ==
    ASSUME TypeOK, NEW r \in Requests, Frame(r), LockFrame(r)
    PROVE  TypeOK'
  <1>1. /\ asset' \in [Assets -> Asset \cup {None}]
        /\ \A s \in Requests \ {r} : req'[s].pc = req[s].pc
    BY DEF TypeOK, Frame
  <1>2. \A p \in Requests : postLock'[p] # None => req'[postLock'[p]].pc \in InTx
    <2> SUFFICES ASSUME NEW p \in Requests, postLock'[p] # None
                 PROVE  req'[postLock'[p]].pc \in InTx
      OBVIOUS
    <2>1. postLock'[p] \in Requests
      BY DEF LockFrame
    <2>2. CASE postLock'[p] # r
      <3>1. postLock[p] = postLock'[p]
        BY <2>1, <2>2 DEF LockFrame
      <3>2. req[postLock[p]].pc \in InTx
        BY <3>1 DEF TypeOK
      <3> QED
        BY <1>1, <2>1, <2>2, <3>1, <3>2
    <2> QED
      BY <2>1, <2>2 DEF LockFrame
  <1>3. \A m \in Assets : imageLock'[m] # None => req'[imageLock'[m]].pc \in InTx
    <2> SUFFICES ASSUME NEW m \in Assets, imageLock'[m] # None
                 PROVE  req'[imageLock'[m]].pc \in InTx
      OBVIOUS
    <2>1. imageLock'[m] \in Requests
      BY DEF LockFrame
    <2>2. CASE imageLock'[m] # r
      <3>1. imageLock[m] = imageLock'[m]
        BY <2>1, <2>2 DEF LockFrame
      <3>2. req[imageLock[m]].pc \in InTx
        BY <3>1 DEF TypeOK
      <3> QED
        BY <1>1, <2>1, <2>2, <3>1, <3>2
    <2> QED
      BY <2>1, <2>2 DEF LockFrame
  <1>4. \A t \in Tags : tagLock'[t] # None => req'[tagLock'[t]].pc \in InTx
    <2> SUFFICES ASSUME NEW t \in Tags, tagLock'[t] # None
                 PROVE  req'[tagLock'[t]].pc \in InTx
      OBVIOUS
    <2>1. tagLock'[t] \in Requests
      BY DEF LockFrame
    <2>2. CASE tagLock'[t] # r
      <3>1. tagLock[t] = tagLock'[t]
        BY <2>1, <2>2 DEF LockFrame
      <3>2. req[tagLock[t]].pc \in InTx
        BY <3>1 DEF TypeOK
      <3> QED
        BY <1>1, <2>1, <2>2, <3>1, <3>2
    <2> QED
      BY <2>1, <2>2 DEF LockFrame
  <1>5. /\ DOMAIN postLock' = Requests /\ DOMAIN imageLock' = Assets /\ DOMAIN tagLock' = Tags
    BY DEF LockFrame
  <1>6. \A lock \in {postLock', imageLock', tagLock'} :
            \A x \in DOMAIN lock : lock[x] # None => req'[lock[x]].pc \in InTx
    BY <1>2, <1>3, <1>4, <1>5
  <1> QED
    BY <1>1, <1>6 DEF Frame, LockFrame, TypeOK

LEMMA FrameKeepsClaims ==
    ASSUME IInv, NEW r \in Requests, Frame(r), LockFrame(r), NEW s \in Requests \ {r}
    PROVE  Claim(s)'
  <1>0. TypeOK /\ Claim(s) /\ s \in Requests /\ s # r
    BY DEF IInv, ClaimsHold
  <1>1. req'[s] = req[s] /\ req[s] \in Request /\ asset' = asset
    BY <1>0 DEF Frame, TypeOK
  <1>2. IdleClaim(s)'
    BY <1>0, <1>1 DEF Claim, IdleClaim, Frame, Idle
  <1>3. CreateClaim(s)'
    BY <1>0, <1>1 DEF Claim, CreateClaim, LockFrame
  <1>4. DeleteClaim(s)'
    BY <1>0, <1>1 DEF Claim, DeleteClaim, Exists, Frame, LockFrame
  <1>5. EditClaim(s)'
    <2>1. CASE req[s].pc = "edit"
      <3> DEFINE p == req[s].post
      <3>1. /\ req[s].kind = "UPDATE" /\ p \in Requests /\ post[p] # None /\ ~req[s].wrote
            /\ req[s].user = post[p].author
            /\ req[s].version > 0 /\ req[s].found <= post[p].version
        BY <1>0, <2>1 DEF Claim, EditClaim, Exists
      <3>2. /\ post'[p] # None /\ post'[p].author = post[p].author
            /\ post'[p].version >= post[p].version
        BY <3>1 DEF Frame
      <3>3. post[p].version \in Nat /\ post'[p].version \in Nat /\ req[s].found \in Nat
        BY <1>0, <1>1, <3>1, <3>2 DEF TypeOK, Post, Frame, Request
      <3> QED
        BY <1>1, <3>1, <3>2, <3>3 DEF EditClaim, Exists
    <2>2. CASE req[s].pc # "edit"
      BY <1>0, <1>1, <2>2 DEF Claim, EditClaim, Exists, Frame
    <2> QED
      BY <2>1, <2>2
  <1>6. ReadClaim(s)'
    BY <1>0, <1>1 DEF Claim, ReadClaim, Exists, Frame
  <1>7. DoneClaim(s)'
    <2> DEFINE p == req[s].post
    <2>1. ASSUME req[s].answer = "409"
          PROVE  /\ Exists(p)'
                 /\ \/ post'[p].deleted
                    \/ post'[p].version > req[s].version
                    \/ req[s].version > req[s].found
      <3>1. /\ Exists(p)
            /\ \/ post[p].deleted
               \/ post[p].version > req[s].version
               \/ req[s].version > req[s].found
        BY <1>0, <2>1 DEF Claim, DoneClaim
      <3>2. /\ post'[p] # None /\ post'[p].version >= post[p].version
            /\ post[p].deleted => post'[p].deleted
        BY <3>1 DEF Exists, Frame
      <3>3. post[p].version \in Nat /\ post'[p].version \in Nat /\ req[s].version \in Nat
        BY <1>0, <1>1, <3>1, <3>2 DEF TypeOK, Post, Frame, Exists, Request
      <3> QED
        BY <1>1, <3>1, <3>2, <3>3 DEF Exists
    <2>2. ASSUME NEW q \in Requests, q = req[s].post, req[s].answer \in {"200", "201"}
          PROVE  /\ Exists(q)'
                 /\ req[s].shown = [images |-> ImagesOf(q)', tags |-> post'[q].tags]
      <3>1. /\ post[q] # None
            /\ req[s].shown = [images |-> ImagesOf(q), tags |-> post[q].tags]
        BY <1>0, <2>2 DEF Claim, DoneClaim, Exists
      <3>2. post'[q] # None /\ post'[q].tags = post[q].tags /\ ImagesOf(q)' = ImagesOf(q)
        BY <3>1 DEF Frame
      <3> QED
        BY <3>1, <3>2 DEF Exists
    <2>3. req[s].answer \in {"200", "201"} => req[s].post \in Requests
      BY <1>0 DEF Claim, DoneClaim, Exists
    <2>4. ASSUME req'[s].answer \in {"200", "201"}
          PROVE  /\ Exists(req[s].post)'
                 /\ req[s].shown = [images |-> ImagesOf(req[s].post)',
                                     tags |-> (post[req[s].post].tags)']
      BY <1>1, <2>2, <2>3, <2>4
    <2> QED
      BY <1>0, <1>1, <2>1, <2>4 DEF Claim, DoneClaim
  <1> QED
    BY <1>2, <1>3, <1>4, <1>5, <1>6, <1>7 DEF Claim
LEMMA StepKeepsIInv ==
    ASSUME IInv, NEW r \in Requests, Frame(r), LockFrame(r), Claim(r)',
           LockedImagesAreFree', EditsAreChained', TagCountsExact'
    PROVE  IInv'
  <1>1. TypeOK'
    BY FrameKeepsTypes DEF IInv
  <1>2. ClaimsHold'
    BY FrameKeepsClaims DEF ClaimsHold
  <1> QED
    BY <1>1, <1>2 DEF IInv

(* Steps that write no table.  What an update has done they leave, and     *)
(* what images they lock are free.                                         *)
Quiet(r) ==
    /\ UNCHANGED <<asset, tables>>
    /\ req' = [req EXCEPT ![r] = req'[r]] /\ req'[r] \in Request
    /\ LockFrame(r)
    /\ \/ ~(req[r].kind = "UPDATE" /\ req[r].wrote) /\ ~(req'[r].kind = "UPDATE" /\ req'[r].wrote)
       \/ /\ req'[r].kind = req[r].kind /\ (req'[r].wrote <=> req[r].wrote)
          /\ req'[r].post = req[r].post /\ req'[r].version = req[r].version
    /\ \A m \in Assets : imageLock'[m] = r => imageLock[m] = r \/ holder[m] = None

LEMMA ChainIsKept ==
    ASSUME NEW p \in Requests, Chain(p), Applied(p)' = Applied(p),
           \A s \in Applied(p) : req'[s].version = req[s].version,
           post'[p].version = post[p].version, post'[p].text = post[p].text
    PROVE  Chain(p)'
  <1>1. {req'[s].version : s \in Applied(p)} = {req[s].version : s \in Applied(p)}
    OBVIOUS
  <1> QED
    BY <1>1 DEF Chain

LEMMA QuietStepsKeepIInv ==
    ASSUME IInv, NEW r \in Requests, Quiet(r), Claim(r)'
    PROVE  IInv'
  <1>0. TypeOK /\ LockedImagesAreFree /\ EditsAreChained /\ TagCountsExact /\ ClaimsHold
    BY DEF IInv
  <1>1. post' = post /\ holder' = holder /\ count' = count /\ asset' = asset /\ LockFrame(r)
    BY DEF Quiet, tables
  <1>2. /\ req' \in [Requests -> Request]
        /\ \A s \in Requests \ {r} : req'[s] = req[s]
    BY <1>0 DEF Quiet, TypeOK
  <1>3. \A p \in Requests : post[p] # None => post[p].version \in Nat
    BY <1>0 DEF TypeOK, Post
  <1>4. Frame(r)
    BY <1>0, <1>1, <1>2, <1>3 DEF Frame, TypeOK, ImagesOf, ClaimsHold, Claim, IdleClaim
  <1>5. LockedImagesAreFree'
    <2> SUFFICES ASSUME NEW m \in Assets, imageLock'[m] # None PROVE holder[m] = None
      BY <1>1 DEF LockedImagesAreFree
    <2>1. imageLock'[m] \in Requests
      BY <1>1 DEF LockFrame
    <2>2. CASE imageLock'[m] = r
      BY <1>0, <2>2, NoneFacts DEF Quiet, LockedImagesAreFree
    <2>3. CASE imageLock'[m] # r
      BY <1>0, <1>1, <2>1, <2>3, NoneFacts DEF LockFrame, LockedImagesAreFree
    <2> QED
      BY <2>2, <2>3
  <1>6. EditsAreChained'
    <2>1. ASSUME NEW p \in Requests
          PROVE  /\ Applied(p)' = Applied(p)
                 /\ \A s \in Applied(p) : req'[s].version = req[s].version
      BY <1>2 DEF Quiet, Applied
    <2>2. ASSUME NEW p \in Requests, post[p] # None
          PROVE  Chain(p)'
      BY <1>0, <1>1, <2>1, <2>2, ChainIsKept DEF EditsAreChained
    <2> QED
      BY <1>1, <2>2 DEF EditsAreChained
  <1>7. TagCountsExact'
    BY <1>0, <1>1 DEF TagCountsExact, Live, Gone
  <1> QED
    BY <1>1, <1>4, <1>5, <1>6, <1>7, StepKeepsIInv

(* COMMIT and ROLLBACK let r's locks go, and nobody else's.                *)
LEMMA UnlockedFacts ==
    ASSUME NEW X, NEW lock \in [X -> Requests \cup {None}], NEW r \in Requests
    PROVE  /\ Unlocked(lock, r) \in [X -> Requests \cup {None}]
           /\ \A x \in X : Unlocked(lock, r)[x] # r
           /\ \A s \in Requests \ {r}, x \in X : Unlocked(lock, r)[x] = s <=> lock[x] = s
  BY NoneFacts DEF Unlocked

LEMMA ReleaseFrames ==
    ASSUME TypeOK, NEW r \in Requests, Release(r)
    PROVE  /\ LockFrame(r)
           /\ \A p \in Requests : postLock'[p] # r
           /\ \A m \in Assets : imageLock'[m] # r
           /\ \A t \in Tags : tagLock'[t] # r
  <1>1. /\ postLock \in [Requests -> Requests \cup {None}]
        /\ imageLock \in [Assets -> Requests \cup {None}]
        /\ tagLock \in [Tags -> Requests \cup {None}]
    BY DEF TypeOK
  <1> QED
    BY <1>1, UnlockedFacts DEF Release, LockFrame

LEMMA LocksAsTheyWere ==
    ASSUME TypeOK, NEW r \in Requests, UNCHANGED locks,
           req[r].pc \in InTx => req'[r].pc \in InTx
    PROVE  LockFrame(r)
  <1>1. /\ postLock \in [Requests -> Requests \cup {None}]
        /\ imageLock \in [Assets -> Requests \cup {None}]
        /\ tagLock \in [Tags -> Requests \cup {None}]
        /\ postLock' = postLock /\ imageLock' = imageLock /\ tagLock' = tagLock
    BY DEF TypeOK, locks
  <1>2. req[r].pc \notin InTx =>
          /\ \A p \in Requests : postLock[p] # r
          /\ \A m \in Assets : imageLock[m] # r
          /\ \A t \in Tags : tagLock[t] # r
    BY <1>1, NoneFacts DEF TypeOK
  <1> QED
    BY <1>1, <1>2 DEF LockFrame

(* Answers.                                                                *)
LEMMA ListsAreDropped ==
    ASSUME NEW q \in Request
    PROVE  [q EXCEPT !.images = <<>>, !.tags = <<>>, !.at = 0] \in Request
  <1>1. <<>> \in Seq(Assets) /\ <<>> \in Seq(Tags)
    OBVIOUS
  <1> QED
    BY <1>1 DEF Request

LEMMA AnsweredParts ==
    ASSUME NEW q \in Request, NEW answer \in Answers
    PROVE  /\ Answered(q, answer) \in Request
           /\ Answered(q, answer).pc = "done" /\ Answered(q, answer).answer = answer
           /\ Answered(q, answer).kind = q.kind /\ Answered(q, answer).post = q.post
           /\ Answered(q, answer).version = q.version /\ Answered(q, answer).found = q.found
           /\ (Answered(q, answer).wrote <=> q.wrote)
           /\ Answered(q, answer).shown = q.shown
  <1>1. Answered(q, answer) \in Request
    <2> DEFINE told == [q EXCEPT !.pc = "done", !.answer = answer, !.user = None]
    <2>1. told \in Request
      BY DEF Request
    <2>2. Answered(q, answer) = [told EXCEPT !.images = <<>>, !.tags = <<>>, !.at = 0]
      BY DEF Answered
    <2> HIDE DEF told
    <2> QED
      BY <2>1, <2>2, ListsAreDropped
  <1>2. /\ Answered(q, answer).pc = "done" /\ Answered(q, answer).answer = answer
        /\ Answered(q, answer).kind = q.kind /\ Answered(q, answer).post = q.post
        /\ Answered(q, answer).version = q.version /\ Answered(q, answer).found = q.found
        /\ Answered(q, answer).shown = q.shown
    BY DEF Answered, Request
  <1>3. Answered(q, answer).wrote = q.wrote
    BY DEF Answered, Request
  <1> QED
    BY <1>1, <1>2, <1>3

(* What has to be known of an answer.                                      *)
Right(r, answer) ==
    /\ answer \in Answers \ {"200", "201"}
    /\ answer = "409" =>
          /\ Exists(req[r].post)
          /\ \/ post[req[r].post].deleted
             \/ post[req[r].post].version > req[r].version
             \/ req[r].version > req[r].found

LEMMA RefuseKeepsIInv ==
    ASSUME IInv, NEW r \in Requests, NEW answer, Right(r, answer), Refuse(r, answer)
    PROVE  IInv'
  <1>0. TypeOK /\ Claim(r) /\ req[r] \in Request /\ answer \in Answers
    BY DEF IInv, ClaimsHold, TypeOK, Right
  <1>1. /\ UNCHANGED <<asset, tables>> /\ Release(r)
        /\ req' = [req EXCEPT ![r] = Answered(req[r], answer)]
    BY DEF Refuse
  <1>2. req'[r] = Answered(req[r], answer)
    BY <1>0, <1>1 DEF TypeOK
  <1>3. /\ req'[r] \in Request /\ req'[r].pc = "done" /\ req'[r].answer = answer
        /\ req'[r].kind = req[r].kind /\ req'[r].post = req[r].post
        /\ req'[r].version = req[r].version /\ req'[r].found = req[r].found
        /\ (req'[r].wrote <=> req[r].wrote)
    BY <1>0, <1>2, AnsweredParts
  <1>4. Quiet(r)
    BY <1>0, <1>1, <1>2, <1>3, ReleaseFrames DEF Quiet
  <1>5. Claim(r)'
    BY <1>0, <1>1, <1>3
       DEF Claim, IdleClaim, CreateClaim, DeleteClaim, EditClaim, ReadClaim, DoneClaim, Right,
           Exists, tables
  <1> QED
    BY <1>4, <1>5, QuietStepsKeepIInv
LEMMA CancelsKeepIInv ==
    ASSUME IInv, NEW r \in Requests, Fail(r) \/ CancelledByDetector(r)
    PROVE  IInv'
  <1>1. Refuse(r, "500")
    BY DEF Fail, CancelledByDetector
  <1>2. Right(r, "500")
    BY DEF Right, Answers
  <1> QED
    BY <1>1, <1>2, RefuseKeepsIInv

(* Requests arrive.                                                        *)
LEMMA IdleParts ==
    /\ Idle \in Request /\ Idle.pc = "idle" /\ Idle.kind = None /\ ~Idle.wrote
    /\ Idle.answer = None /\ Idle.images = <<>> /\ Idle.tags = <<>> /\ Idle.at = 0
    /\ Idle.shown = [images |-> {}, tags |-> {}]
  <1>1. <<>> \in Seq(Assets) /\ <<>> \in Seq(Tags)
    OBVIOUS
  <1>2. [images |-> {}, tags |-> {}] \in [images : SUBSET Assets, tags : SUBSET Tags]
    OBVIOUS
  <1> QED
    BY <1>1, <1>2 DEF Idle, Request

LEMMA BegunParts ==
    ASSUME NEW kind \in Kinds, NEW p \in Requests, NEW u \in Users \cup {None}, NEW v \in Nat
    PROVE  LET q == [Idle EXCEPT !.kind = kind, !.user = u, !.post = p, !.version = v]
           IN  /\ q \in Request /\ q.pc = "idle" /\ q.kind = kind /\ q.user = u /\ q.post = p
               /\ q.version = v /\ ~q.wrote /\ q.answer = None
  BY IdleParts DEF Request

(* A request that is refused at once, or goes on with what it has checked. *)
LEMMA StartKeepsIInv ==
    ASSUME IInv, NEW r \in Requests, NEW q \in Request, Start(r, q), ~q.wrote,
           Claim(r)'
    PROVE  IInv'
  <1>0. TypeOK /\ Claim(r)
    BY DEF IInv, ClaimsHold
  <1>1. /\ req[r].pc = "idle" /\ req' = [req EXCEPT ![r] = q]
        /\ UNCHANGED <<asset, tables>> /\ UNCHANGED locks
    BY DEF Start
  <1>2. req'[r] = q /\ ~req[r].wrote
    BY <1>0, <1>1, IdleParts DEF TypeOK, Claim, IdleClaim
  <1>3. LockFrame(r)
    BY <1>0, <1>1, LocksAsTheyWere DEF InTx
  <1>4. Quiet(r)
    BY <1>1, <1>2, <1>3 DEF Quiet, locks
  <1> QED
    BY <1>4, QuietStepsKeepIInv

LEMMA RefusedAtOnceKeepsIInv ==
    ASSUME IInv, NEW r \in Requests, NEW q \in Request, ~q.wrote,
           NEW answer \in {"400", "403", "404"}, Start(r, Answered(q, answer))
    PROVE  IInv'
  <1>1. answer \in Answers
    BY DEF Answers
  <1>2. req'[r] = Answered(q, answer)
    BY DEF Start, IInv, TypeOK
  <1>3. /\ Answered(q, answer) \in Request /\ Answered(q, answer).pc = "done"
        /\ Answered(q, answer).answer = answer /\ ~Answered(q, answer).wrote
    BY <1>1, AnsweredParts
  <1>4. Claim(r)'
    BY <1>2, <1>3
       DEF Claim, IdleClaim, CreateClaim, DeleteClaim, EditClaim, ReadClaim, DoneClaim
  <1> QED
    BY <1>3, <1>4, StartKeepsIInv

LEMMA CreateKeepsIInv ==
    ASSUME IInv, NEW r \in Requests, NEW u \in Users, NEW d \in Drafts, Create(r, u, d)
    PROVE  IInv'
  <1> DEFINE begun == [Idle EXCEPT !.kind = "CREATE", !.user = u, !.post = r]
             images == Distinct(d.images)
             q == [begun EXCEPT !.pc = "write", !.images = images, !.tags = Normalized(d.tags)]
  <1>0. TypeOK /\ Claim(r) /\ req[r].pc = "idle"
    BY DEF IInv, ClaimsHold, Create, Start
  <1>1. /\ begun \in Request /\ begun.kind = "CREATE" /\ begun.user = u /\ begun.post = r
        /\ ~begun.wrote /\ begun.answer = None
    BY IdleParts DEF Request, Kinds
  <1>2. /\ images \in Seq(Assets) /\ Normalized(d.tags) \in Seq(Tags)
        /\ Repeatless(Normalized(d.tags))
    BY DraftLists
  <1>3. CASE d.valid /\ ToSet(images) \subseteq Attachable(u)
    <2>1. Start(r, q)
      BY <1>3 DEF Create, Drafted
    <2>2. \A i \in DOMAIN images : asset[images[i]] = [owner |-> u, status |-> "USABLE"]
      BY <1>3 DEF ToSet, Attachable
    <2> HIDE DEF begun, images
    <2>3. q \in Request
      <3>1. "write" \in InTx
        BY DEF InTx
      <3> DEFINE tags == Normalized(d.tags)
                 there == [begun EXCEPT !.pc = "write"]
                 named == [there EXCEPT !.images = images]
      <3>2. tags \in Seq(Tags)
        BY <1>2
      <3> HIDE DEF tags
      <3>3. there \in Request
        BY <1>1, <3>1 DEF Request
      <3> HIDE DEF there
      <3>4. named \in Request
        BY <1>2, <3>3 DEF Request
      <3> HIDE DEF named
      <3>5. [named EXCEPT !.tags = tags] \in Request
        BY <3>2, <3>4 DEF Request
      <3> QED
        BY <3>5 DEF there, named, tags
    <2>4. /\ q.pc = "write" /\ q.images = images /\ q.tags = Normalized(d.tags)
          /\ q.kind = "CREATE" /\ q.user = u /\ q.post = r
          /\ q.answer = None
      BY <1>1 DEF Request
    <2>5. ~q.wrote
      BY <1>1 DEF Request
    <2> HIDE DEF q
    <2>6. /\ req'[r] = q /\ asset' = asset /\ post' = post /\ imageLock' = imageLock
          /\ post[r] = None
      BY <1>0, <2>1 DEF Start, TypeOK, tables, locks, Claim, IdleClaim
    <2>7. \A m \in Assets : imageLock[m] # r
      BY <1>0, NoneFacts DEF TypeOK, InTx
    <2>8. CreateClaim(r)'
      BY <1>2, <2>2, <2>4, <2>6, <2>7 DEF CreateClaim
    <2>9. Claim(r)'
      BY <2>4, <2>5, <2>6, <2>8, NoneFacts
         DEF Claim, IdleClaim, DeleteClaim, EditClaim, ReadClaim, DoneClaim
    <2> QED
      BY <2>1, <2>3, <2>5, <2>9, StartKeepsIInv
  <1>4. CASE ~(d.valid /\ ToSet(images) \subseteq Attachable(u))
    <2>1. Start(r, Answered(begun, "400"))
      BY <1>4 DEF Create, Drafted
    <2> HIDE DEF begun
    <2> QED
      BY <1>1, <2>1, RefusedAtOnceKeepsIInv
  <1> QED
    BY <1>3, <1>4
(* An update or a deletion that has found the post to be its sender's.     *)
LEMMA LookupKeepsIInv ==
    ASSUME IInv, NEW r \in Requests, NEW u \in Users, NEW p \in Requests, NEW v \in Nat,
           NEW kind, NEW next,
           \/ kind = "DELETE" /\ next = "delete"
           \/ kind = "UPDATE" /\ next = "edit" /\ v > 0,
           Lookup(r, kind, u, p, v, next)
    PROVE  IInv'
  <1> DEFINE begun == [Idle EXCEPT !.kind = kind, !.post = p, !.version = v]
             q == [begun EXCEPT !.pc = next, !.user = u, !.found = post[p].version]
  <1>0. TypeOK /\ Claim(r) /\ kind \in Kinds
    BY DEF IInv, ClaimsHold, Kinds
  <1>1. /\ begun \in Request /\ begun.kind = kind /\ begun.post = p /\ begun.version = v
        /\ begun.answer = None
    BY <1>0, IdleParts DEF Request
  <1>2. ~begun.wrote
    BY IdleParts DEF Request
  <1>3. CASE Gone(p)
    <2>1. Start(r, Answered(begun, "404"))
      BY <1>3 DEF Lookup
    <2> HIDE DEF begun
    <2> QED
      BY <1>1, <1>2, <2>1, RefusedAtOnceKeepsIInv
  <1>4. CASE ~Gone(p) /\ u # post[p].author
    <2>1. Start(r, Answered(begun, "403"))
      BY <1>4 DEF Lookup
    <2> HIDE DEF begun
    <2> QED
      BY <1>1, <1>2, <2>1, RefusedAtOnceKeepsIInv
  <1>5. CASE ~Gone(p) /\ u = post[p].author
    <2>1. Start(r, q)
      BY <1>5 DEF Lookup
    <2>2. Exists(p) /\ post[p].version \in Nat
      BY <1>0, <1>5 DEF Gone, Exists, TypeOK, Post
    <2> HIDE DEF begun
    <2>3. q \in Request
      <3>1. next \in InTx \cup {"idle", "edit", "images", "tags", "done"}
        BY DEF InTx
      <3> DEFINE there == [begun EXCEPT !.pc = next]
      <3>2. there \in Request
        BY <1>1, <3>1 DEF Request
      <3> HIDE DEF there
      <3>3. [there EXCEPT !.user = u, !.found = post[p].version] \in Request
        BY <2>2, <3>2 DEF Request
      <3> QED
        BY <3>3 DEF there
    <2>4. /\ q.pc = next /\ q.kind = kind /\ q.user = u /\ q.post = p /\ q.version = v
          /\ q.found = post[p].version /\ q.answer = None
      BY <1>1 DEF Request
    <2>5. ~q.wrote
      BY <1>1, <1>2 DEF Request
    <2> HIDE DEF q
    <2>6. /\ req'[r] = q /\ post' = post /\ tagLock' = tagLock /\ req[r].pc = "idle"
      BY <1>0, <2>1 DEF Start, TypeOK, tables, locks
    <2>7. \A t \in Tags : tagLock[t] # r
      BY <1>0, <2>6, NoneFacts DEF TypeOK, InTx
    <2>8. DeleteClaim(r)' /\ EditClaim(r)'
      BY <1>5, <2>2, <2>4, <2>5, <2>6, <2>7 DEF DeleteClaim, EditClaim, Exists
    <2>9. Claim(r)'
      BY <2>4, <2>5, <2>6, <2>8, NoneFacts
         DEF Claim, IdleClaim, CreateClaim, ReadClaim, DoneClaim
    <2> QED
      BY <2>1, <2>3, <2>5, <2>9, StartKeepsIInv
  <1> QED
    BY <1>3, <1>4, <1>5

LEMMA DeleteKeepsIInv ==
    ASSUME IInv, NEW r \in Requests, NEW u \in Users, NEW p \in Requests, Delete(r, u, p)
    PROVE  IInv'
  BY LookupKeepsIInv DEF Delete

LEMMA UpdateKeepsIInv ==
    ASSUME IInv, NEW r \in Requests, NEW u \in Users, NEW p \in Requests, NEW v \in Nat,
           Update(r, u, p, v)
    PROVE  IInv'
  <1>1. CASE v = 0
    <2> DEFINE begun == [Idle EXCEPT !.kind = "UPDATE", !.post = p]
    <2>1. Start(r, Answered(begun, "400"))
      BY <1>1 DEF Update
    <2>2. begun \in Request
      BY IdleParts DEF Request, Kinds
    <2>3. ~begun.wrote
      BY IdleParts DEF Request
    <2> HIDE DEF begun
    <2> QED
      BY <2>1, <2>2, <2>3, RefusedAtOnceKeepsIInv
  <1>2. CASE v # 0
    <2>1. Lookup(r, "UPDATE", u, p, v, "edit")
      BY <1>2 DEF Update
    <2> QED
      BY <1>2, <2>1, LookupKeepsIInv
  <1> QED
    BY <1>1, <1>2

LEMMA ReadKeepsIInv ==
    ASSUME IInv, NEW r \in Requests, NEW p \in Requests, Read(r, p)
    PROVE  IInv'
  <1> DEFINE begun == [Idle EXCEPT !.kind = "READ", !.post = p]
             q == [begun EXCEPT !.pc = "images"]
  <1>1. /\ begun \in Request /\ begun.kind = "READ" /\ begun.post = p /\ begun.answer = None
    BY IdleParts DEF Request, Kinds
  <1>2. ~begun.wrote
    BY IdleParts DEF Request
  <1>3. CASE Gone(p)
    <2>1. Start(r, Answered(begun, "404"))
      BY <1>3 DEF Read
    <2> HIDE DEF begun
    <2> QED
      BY <1>1, <1>2, <2>1, RefusedAtOnceKeepsIInv
  <1>4. CASE ~Gone(p)
    <2>1. Start(r, q)
      BY <1>4 DEF Read
    <2> HIDE DEF begun
    <2>2. q \in Request /\ q.pc = "images" /\ q.kind = "READ" /\ q.post = p /\ q.answer = None
      BY <1>1 DEF Request
    <2>3. ~q.wrote
      BY <1>1, <1>2 DEF Request
    <2> HIDE DEF q
    <2>4. req'[r] = q /\ post' = post
      BY <2>1 DEF Start, IInv, TypeOK, tables
    <2>5. Claim(r)'
      BY <1>4, <2>2, <2>4, NoneFacts
         DEF Claim, IdleClaim, CreateClaim, DeleteClaim, EditClaim, ReadClaim, DoneClaim,
             Exists, Gone
    <2> QED
      BY <2>1, <2>2, <2>3, <2>5, StartKeepsIInv
  <1> QED
    BY <1>3, <1>4

LEMMA ArrivalsKeepIInv ==
    ASSUME IInv, NEW r \in Requests, Arrive(r)
    PROVE  IInv'
  <1>1. Cardinality(Requests) \in Nat
    BY RequestsAssumption, FS_CardinalityType
  <1>2. \A v \in SentVersions : v \in Nat
    BY <1>1 DEF SentVersions
  <1> QED
    BY <1>2, CreateKeepsIInv, DeleteKeepsIInv, UpdateKeepsIInv, ReadKeepsIInv DEF Arrive
(* Locks are taken one by one; a row is locked that nobody else has.       *)
LEMMA LockTaken ==
    ASSUME NEW X, NEW lock \in [X -> Requests \cup {None}], NEW r \in Requests,
           NEW x \in X, lock[x] \in {None, r}
    PROVE  /\ [lock EXCEPT ![x] = r] \in [X -> Requests \cup {None}]
           /\ [lock EXCEPT ![x] = r][x] = r
           /\ \A y \in X \ {x} : [lock EXCEPT ![x] = r][y] = lock[y]
           /\ \A s \in Requests \ {r}, y \in X :
                 [lock EXCEPT ![x] = r][y] = s <=> lock[y] = s
  BY NoneFacts

LEMMA WroteParts ==
    ASSUME TypeOK, NEW r \in Requests, req' = [req EXCEPT ![r].at = @ + 1]
    PROVE  /\ req'[r] \in Request /\ req' = [req EXCEPT ![r] = req'[r]]
           /\ req'[r].pc = req[r].pc /\ req'[r].kind = req[r].kind
           /\ req'[r].user = req[r].user /\ req'[r].post = req[r].post
           /\ req'[r].version = req[r].version /\ req'[r].images = req[r].images
           /\ req'[r].tags = req[r].tags /\ req'[r].answer = req[r].answer
           /\ req'[r].shown = req[r].shown
           /\ (req'[r].wrote <=> req[r].wrote)
  <1>1. req[r] \in Request /\ req \in [Requests -> Request]
    BY DEF TypeOK
  <1>2. req'[r] = [req[r] EXCEPT !.at = req[r].at + 1]
    BY <1>1
  <1>3. req'[r] \in Request
    <2> DEFINE q == req[r]
    <2>1. q \in Request /\ q.at + 1 \in Nat
      BY <1>1 DEF Request
    <2> HIDE DEF q
    <2>2. [q EXCEPT !.at = q.at + 1] \in Request
      BY <2>1 DEF Request
    <2> QED
      BY <1>2, <2>2 DEF q
  <1>4. req' = [req EXCEPT ![r] = req'[r]]
    BY <1>1, <1>2
  <1> QED
    BY <1>1, <1>2, <1>3, <1>4 DEF Request

LEMMA AttachKeepsIInv ==
    ASSUME IInv, NEW r \in Requests, AttachImage(r)
    PROVE  IInv'
  <1> DEFINE m == Image(r)
  <1>0. /\ TypeOK /\ Claim(r) /\ req[r].pc = "write" /\ req[r].kind = "CREATE"
        /\ req[r] \in Request /\ imageLock \in [Assets -> Requests \cup {None}]
    BY DEF IInv, ClaimsHold, AttachImage, Claim, CreateClaim, TypeOK
  <1>1. req[r].at + 1 \in DOMAIN req[r].images /\ m \in Assets
    <2>1. /\ req[r].at \in Nat /\ req[r].images \in Seq(Assets)
          /\ req[r].at < Len(req[r].images)
      BY <1>0 DEF AttachImage, Request
    <2> QED
      BY <2>1 DEF Image
  <1>2. CASE holder[m] # None \/ imageLock[m] = r
    <2>1. Refuse(r, "500")
      BY <1>2 DEF AttachImage
    <2>2. Right(r, "500")
      BY DEF Right, Answers
    <2> QED
      BY <2>1, <2>2, RefuseKeepsIInv
  <1>3. CASE holder[m] = None /\ imageLock[m] # r
    <2>1. /\ imageLock' = [imageLock EXCEPT ![m] = r]
          /\ req' = [req EXCEPT ![r].at = @ + 1]
          /\ UNCHANGED <<asset, tables>> /\ postLock' = postLock /\ tagLock' = tagLock
          /\ imageLock[m] \in {None, r}
      BY <1>3 DEF AttachImage, Wrote
    <2> HIDE DEF m
    <2>2. /\ imageLock' \in [Assets -> Requests \cup {None}]
          /\ imageLock'[m] = r
          /\ \A n \in Assets \ {m} : imageLock'[n] = imageLock[n]
          /\ \A s \in Requests \ {r}, n \in Assets : imageLock'[n] = s <=> imageLock[n] = s
      BY <1>0, <1>1, <2>1, LockTaken
    <2>3. /\ req'[r] \in Request /\ req' = [req EXCEPT ![r] = req'[r]]
          /\ req'[r].pc = "write" /\ req'[r].kind = "CREATE"
          /\ req'[r].user = req[r].user /\ req'[r].post = req[r].post
          /\ req'[r].images = req[r].images
          /\ req'[r].tags = req[r].tags /\ req'[r].answer = req[r].answer
      BY <1>0, <2>1, WroteParts
    <2>4. LockFrame(r)
      BY <1>0, <2>1, <2>2, <2>3 DEF LockFrame, TypeOK, InTx
    <2>5. Quiet(r)
      BY <1>0, <1>3, <2>1, <2>2, <2>3, <2>4 DEF Quiet
    <2>6. asset[m] = [owner |-> req[r].user, status |-> "USABLE"]
      BY <1>0, <1>1 DEF Claim, CreateClaim, Image, m
    <2>7. CreateClaim(r)'
      BY <1>0, <2>1, <2>2, <2>3, <2>6 DEF Claim, CreateClaim
    <2>8. post' = post
      BY <2>1 DEF tables
    <2>9. Claim(r)'
      BY <1>0, <2>3, <2>7, <2>8, NoneFacts
         DEF Claim, IdleClaim, DeleteClaim, EditClaim, ReadClaim, DoneClaim
    <2> QED
      BY <2>5, <2>9, QuietStepsKeepIInv
  <1> QED
    BY <1>2, <1>3

LEMMA UpsertKeepsIInv ==
    ASSUME IInv, NEW r \in Requests, UpsertHashtag(r)
    PROVE  IInv'
  <1> DEFINE t == Tag(r)
  <1>0. /\ TypeOK /\ Claim(r) /\ req[r].pc = "write" /\ req[r].kind = "CREATE"
        /\ req[r] \in Request /\ tagLock \in [Tags -> Requests \cup {None}]
    BY DEF IInv, ClaimsHold, UpsertHashtag, Claim, CreateClaim, TypeOK
  <1>1. t \in Tags
    <2>1. /\ req[r].at \in Nat /\ req[r].images \in Seq(Assets) /\ req[r].tags \in Seq(Tags)
          /\ req[r].at \in Len(req[r].images) .. Len(req[r].images \o req[r].tags) - 1
      BY <1>0 DEF UpsertHashtag, Request
    <2>2. Len(req[r].images \o req[r].tags) = Len(req[r].images) + Len(req[r].tags)
      BY <2>1
    <2>3. Len(req[r].images) \in Nat /\ Len(req[r].tags) \in Nat
      BY <2>1
    <2>4. req[r].at - Len(req[r].images) + 1 \in 1..Len(req[r].tags)
      <3>1. \A at, i, j \in Nat : at \in i .. (i + j) - 1 => at - i + 1 \in 1..j
        OBVIOUS
      <3>2. req[r].at \in Len(req[r].images) .. (Len(req[r].images) + Len(req[r].tags)) - 1
        BY <2>1, <2>2, Zenon
      <3>3. req[r].at \in Nat
        BY <2>1
      <3> QED
        BY <2>3, <3>1, <3>2, <3>3, Zenon
    <2> QED
      BY <2>1, <2>4 DEF Tag
  <1>2. /\ tagLock' = [tagLock EXCEPT ![t] = r]
        /\ req' = [req EXCEPT ![r].at = @ + 1]
        /\ UNCHANGED <<asset, tables>> /\ postLock' = postLock /\ imageLock' = imageLock
        /\ tagLock[t] \in {None, r}
    BY DEF UpsertHashtag, Wrote
  <1> HIDE DEF t
  <1>3. /\ tagLock' \in [Tags -> Requests \cup {None}]
        /\ \A s \in Requests \ {r}, y \in Tags : tagLock'[y] = s <=> tagLock[y] = s
    BY <1>0, <1>1, <1>2, LockTaken
  <1>4. /\ req'[r] \in Request /\ req' = [req EXCEPT ![r] = req'[r]]
        /\ req'[r].pc = "write" /\ req'[r].kind = "CREATE"
        /\ req'[r].user = req[r].user /\ req'[r].post = req[r].post
        /\ req'[r].images = req[r].images
        /\ req'[r].tags = req[r].tags /\ req'[r].answer = req[r].answer
    BY <1>0, <1>2, WroteParts
  <1>5. LockFrame(r)
    BY <1>0, <1>2, <1>3, <1>4 DEF LockFrame, TypeOK, InTx
  <1>6. Quiet(r)
    BY <1>0, <1>2, <1>4, <1>5 DEF Quiet
  <1>7. post' = post
    BY <1>2 DEF tables
  <1>8. Claim(r)'
    BY <1>0, <1>2, <1>4, <1>7, NoneFacts
       DEF Claim, IdleClaim, CreateClaim, DeleteClaim, EditClaim, ReadClaim, DoneClaim
  <1> QED
    BY <1>6, <1>8, QuietStepsKeepIInv

LEMMA SoftDeleteKeepsIInv ==
    ASSUME IInv, NEW r \in Requests, SoftDelete(r)
    PROVE  IInv'
  <1> DEFINE p == req[r].post
  <1>0. /\ TypeOK /\ Claim(r) /\ req[r].pc = "delete" /\ req[r].kind = "DELETE"
        /\ req[r] \in Request /\ req \in [Requests -> Request]
        /\ postLock \in [Requests -> Requests \cup {None}]
        /\ p \in Requests /\ post[p] # None
    BY DEF IInv, ClaimsHold, SoftDelete, Claim, DeleteClaim, TypeOK, Exists
  <1>1. CASE Gone(p)
    <2>1. Refuse(r, "404")
      BY <1>1 DEF SoftDelete
    <2>2. Right(r, "404")
      BY DEF Right, Answers
    <2> QED
      BY <2>1, <2>2, RefuseKeepsIInv
  <1>2. CASE ~Gone(p)
    <2>1. /\ postLock' = [postLock EXCEPT ![p] = r] /\ postLock[p] = None
          /\ req' = [req EXCEPT ![r] = [req[r] EXCEPT !.pc = "untag"]]
          /\ UNCHANGED <<asset, tables>> /\ imageLock' = imageLock /\ tagLock' = tagLock
      BY <1>2 DEF SoftDelete
    <2> DEFINE q == req[r]
    <2>0. q \in Request /\ q.kind = "DELETE" /\ q.post = p /\ req'[r] = [q EXCEPT !.pc = "untag"]
      BY <1>0, <2>1
    <2> HIDE DEF q
    <2>2. /\ req'[r].pc = "untag" /\ req'[r].kind = "DELETE" /\ req'[r].post = p
          /\ req'[r].answer = req[r].answer
      BY <1>0, <2>0 DEF Request, q
    <2>3. req'[r] \in Request /\ req' = [req EXCEPT ![r] = req'[r]]
      <3>1. req'[r] \in Request
        BY <2>0 DEF Request, InTx
      <3> QED
        BY <1>0, <2>1, <3>1
    <2>4. /\ postLock' \in [Requests -> Requests \cup {None}] /\ postLock'[p] = r
          /\ \A s \in Requests \ {r}, y \in Requests : postLock'[y] = s <=> postLock[y] = s
      BY <1>0, <2>1, LockTaken
    <2>5. LockFrame(r)
      BY <1>0, <2>1, <2>2, <2>4 DEF LockFrame, TypeOK, InTx
    <2>6. Quiet(r)
      BY <1>0, <2>1, <2>2, <2>3, <2>5 DEF Quiet
    <2>7. post' = post /\ \A t \in Tags : tagLock[t] # r
      BY <1>0, <2>1 DEF tables, Claim, DeleteClaim
    <2>8. Claim(r)'
      BY <1>0, <1>2, <2>1, <2>2, <2>4, <2>7, NoneFacts
         DEF Claim, IdleClaim, CreateClaim, DeleteClaim, EditClaim, ReadClaim, DoneClaim,
             Exists, Gone
    <2> QED
      BY <2>6, <2>8, QuietStepsKeepIInv
  <1> QED
    BY <1>1, <1>2

LEMMA LowerKeepsIInv ==
    ASSUME IInv, NEW r \in Requests, NEW t \in Tags, LowerHashtag(r, t)
    PROVE  IInv'
  <1>0. /\ TypeOK /\ Claim(r) /\ req[r].pc = "untag" /\ req[r].kind = "DELETE"
        /\ tagLock \in [Tags -> Requests \cup {None}] /\ tagLock[t] = None
        /\ tagLock' = [tagLock EXCEPT ![t] = r] /\ t \in post[req[r].post].tags
        /\ req' = req /\ req \in [Requests -> Request]
        /\ UNCHANGED <<asset, tables>> /\ postLock' = postLock /\ imageLock' = imageLock
    BY DEF IInv, ClaimsHold, LowerHashtag, Unlowered, Claim, DeleteClaim, TypeOK
  <1>1. /\ tagLock' \in [Tags -> Requests \cup {None}]
        /\ \A y \in Tags \ {t} : tagLock'[y] = tagLock[y]
        /\ \A s \in Requests \ {r}, y \in Tags : tagLock'[y] = s <=> tagLock[y] = s
    BY <1>0, LockTaken
  <1>2. LockFrame(r)
    BY <1>0, <1>1 DEF LockFrame, TypeOK, InTx
  <1>3. Quiet(r)
    BY <1>0, <1>2 DEF Quiet
  <1>4. post' = post /\ holder' = holder
    BY <1>0 DEF tables
  <1>5. Claim(r)'
    BY <1>0, <1>1, <1>4
       DEF Claim, IdleClaim, CreateClaim, DeleteClaim, EditClaim, ReadClaim, DoneClaim, Exists,
           ImagesOf
  <1> QED
    BY <1>3, <1>5, QuietStepsKeepIInv

(* The two reads for the answer.                                           *)
LEMMA ReadImagesKeepsIInv ==
    ASSUME IInv, NEW r \in Requests, ReadImages(r)
    PROVE  IInv'
  <1> DEFINE images == ImagesOf(req[r].post)
             shown == [req[r].shown EXCEPT !.images = images]
  <1>0. /\ TypeOK /\ Claim(r) /\ req[r].pc = "images"
        /\ req[r] \in Request /\ req \in [Requests -> Request]
        /\ UNCHANGED <<asset, tables>> /\ UNCHANGED locks
    BY DEF IInv, ClaimsHold, ReadImages, TypeOK
  <1>1. req' = [req EXCEPT ![r] = [req[r] EXCEPT !.pc = "tags", !.shown = shown]]
    BY DEF ReadImages
  <1>2. shown \in [images : SUBSET Assets, tags : SUBSET Tags] /\ shown.images = images
    BY <1>0 DEF Request, ImagesOf
  <1> HIDE DEF shown
  <1>3. req'[r] \in Request /\ req' = [req EXCEPT ![r] = req'[r]]
    BY <1>0, <1>1, <1>2 DEF Request
  <1>4. /\ req'[r].pc = "tags" /\ req'[r].kind = req[r].kind /\ req'[r].post = req[r].post
        /\ req'[r].answer = req[r].answer /\ req'[r].version = req[r].version
        /\ req'[r].found = req[r].found /\ req'[r].shown.images = images
    BY <1>0, <1>1, <1>2 DEF Request
  <1>5. req'[r].wrote <=> req[r].wrote
    BY <1>0, <1>1 DEF Request
  <1>6. LockFrame(r)
    BY <1>0, LocksAsTheyWere DEF InTx
  <1>7. Quiet(r)
    BY <1>0, <1>3, <1>4, <1>5, <1>6 DEF Quiet, locks
  <1>8. post' = post /\ holder' = holder
    BY <1>0 DEF tables
  <1>9. Claim(r)'
    BY <1>0, <1>4, <1>5, <1>8, NoneFacts
       DEF Claim, IdleClaim, CreateClaim, DeleteClaim, EditClaim, ReadClaim, DoneClaim, Exists,
           ImagesOf
  <1> QED
    BY <1>7, <1>9, QuietStepsKeepIInv

LEMMA ReadHashtagsKeepsIInv ==
    ASSUME IInv, NEW r \in Requests, ReadHashtags(r)
    PROVE  IInv'
  <1> DEFINE p == req[r].post
             read == [req[r] EXCEPT !.shown.tags = post[req[r].post].tags]
             answer == IF req[r].kind = "CREATE" THEN "201" ELSE "200"
  <1>0. /\ TypeOK /\ Claim(r) /\ req[r].pc = "tags"
        /\ req[r] \in Request /\ req \in [Requests -> Request]
        /\ UNCHANGED <<asset, tables>> /\ UNCHANGED locks
        /\ p \in Requests /\ post[p] # None /\ req[r].shown.images = ImagesOf(p)
    BY DEF IInv, ClaimsHold, ReadHashtags, TypeOK, Claim, ReadClaim, Exists
  <1>1. req' = [req EXCEPT ![r] = Answered(read, answer)]
    BY DEF ReadHashtags
  <1>2. answer \in Answers /\ answer # "409" /\ post[p].tags \in SUBSET Tags
    BY <1>0 DEF Answers, TypeOK, Post
  <1>3. /\ read \in Request /\ read.kind = req[r].kind /\ read.post = p
        /\ read.version = req[r].version
    BY <1>0, <1>2 DEF Request
  <1>4. read.wrote <=> req[r].wrote
    BY <1>0 DEF Request
  <1>5. read.shown = [images |-> ImagesOf(p), tags |-> post[p].tags]
    <2>1. /\ read.shown \in [images : SUBSET Assets, tags : SUBSET Tags]
          /\ read.shown.images = ImagesOf(p) /\ read.shown.tags = post[p].tags
      BY <1>0, <1>2 DEF Request
    <2> QED
      BY <2>1
  <1> HIDE DEF read, answer
  <1>6. /\ req'[r] \in Request /\ req'[r].pc = "done" /\ req'[r].kind = req[r].kind
        /\ req'[r].post = p /\ req'[r].version = req[r].version
        /\ (req'[r].wrote <=> req[r].wrote) /\ req'[r].answer = answer
        /\ req'[r].shown = [images |-> ImagesOf(p), tags |-> post[p].tags]
    BY <1>0, <1>1, <1>2, <1>3, <1>4, <1>5, AnsweredParts
  <1>7. LockFrame(r)
    BY <1>0, LocksAsTheyWere DEF InTx
  <1>8. Quiet(r)
    BY <1>0, <1>1, <1>6, <1>7 DEF Quiet, locks
  <1>9. post' = post /\ holder' = holder
    BY <1>0 DEF tables
  <1>10. Claim(r)'
    BY <1>0, <1>2, <1>6, <1>9
       DEF Claim, IdleClaim, CreateClaim, DeleteClaim, EditClaim, ReadClaim, DoneClaim, Exists,
           ImagesOf
  <1> QED
    BY <1>8, <1>10, QuietStepsKeepIInv
-----------------------------------------------------------------------------
(* Steps that write tables.                                                *)

(* Posts of a hashtag are finitely many.                                   *)
LEMMA LiveIsFinite ==
    ASSUME NEW t
    PROVE  IsFiniteSet(Live(t)) /\ Cardinality(Live(t)) \in Nat
  BY RequestsAssumption, FS_Subset, FS_CardinalityType DEF Live

LEMMA AppliedIsFinite ==
    ASSUME NEW p
    PROVE  IsFiniteSet(Applied(p)) /\ Cardinality(Applied(p)) \in Nat
  BY RequestsAssumption, FS_Subset, FS_CardinalityType DEF Applied

(* A creation counts each of its hashtags once, because there is none      *)
(* twice.                                                                  *)
LEMMA UpsertsOnce ==
    ASSUME NEW r, Repeatless(req[r].tags), NEW t
    PROVE  Upserts(r, t) = IF t \in ToSet(req[r].tags) THEN 1 ELSE 0
  <1> DEFINE at == {i \in DOMAIN req[r].tags : req[r].tags[i] = t}
  <1>1. CASE t \in ToSet(req[r].tags)
    <2>1. PICK i \in DOMAIN req[r].tags : req[r].tags[i] = t
      BY <1>1 DEF ToSet
    <2>2. at = {i}
      BY <2>1 DEF Repeatless
    <2>3. Cardinality({i}) = 1
      BY FS_Singleton
    <2> QED
      BY <1>1, <2>2, <2>3 DEF Upserts
  <1>2. CASE t \notin ToSet(req[r].tags)
    <2>1. at = {}
      BY <1>2 DEF ToSet
    <2> QED
      BY <1>2, <2>1, FS_EmptySet DEF Upserts
  <1> QED
    BY <1>1, <1>2

LEMMA CommitCreateKeepsIInv ==
    ASSUME IInv, NEW r \in Requests, CommitCreate(r)
    PROVE  IInv'
  <1> DEFINE tags == ToSet(req[r].tags)
             new == NewPost(r, req[r].user, tags)
  <1>0. /\ TypeOK /\ Claim(r) /\ ClaimsHold /\ LockedImagesAreFree /\ EditsAreChained
        /\ TagCountsExact
        /\ req[r].pc = "write" /\ req[r].kind = "CREATE" /\ req[r].user \in Users
        /\ req[r].post = r /\ Repeatless(req[r].tags) /\ post[r] = None
        /\ req[r] \in Request /\ req \in [Requests -> Request]
        /\ post \in [Requests -> Post \cup {None}] /\ req[r].answer = None
    BY NoneFacts DEF IInv, ClaimsHold, CommitCreate, Claim, CreateClaim, IdleClaim, DoneClaim, TypeOK
  <1>1. tags \in SUBSET Tags
    BY <1>0 DEF Request, ToSet
  <1>2. new \in Post /\ new.tags = tags /\ ~new.deleted /\ new.version = 1 /\ new.text = r
    BY <1>0, <1>1 DEF NewPost, Post
  <1>3. /\ post' = [post EXCEPT ![r] = new]
        /\ holder' = [m \in Assets |-> IF imageLock[m] = r THEN r ELSE holder[m]]
        /\ count' = [t \in Tags |-> count[t] + Upserts(r, t)]
        /\ asset' = asset /\ Release(r)
    BY DEF CommitCreate
  <1> HIDE DEF new, tags
  <1>4. /\ post'[r] = new /\ post'[r] # None /\ \A p \in Requests \ {r} : post'[p] = post[p]
        /\ post' \in [Requests -> Post \cup {None}]
    BY <1>0, <1>2, <1>3, NoneFacts
  <1>5. /\ req'[r].pc = "images" /\ req'[r].kind = "CREATE" /\ req'[r].post = r
        /\ req'[r].answer = None /\ req' = [req EXCEPT ![r] = req'[r]]
    BY <1>0 DEF CommitCreate, Request
  <1>6. req'[r] \in Request
    <2> DEFINE done == [req[r] EXCEPT !.pc = "images", !.user = None, !.wrote = TRUE]
    <2>1. done \in Request
      BY <1>0 DEF Request
    <2>2. req'[r] = [done EXCEPT !.images = <<>>, !.tags = <<>>, !.at = 0]
      BY <1>0 DEF CommitCreate
    <2> HIDE DEF done
    <2> QED
      BY <2>1, <2>2, ListsAreDropped
  <1>7. /\ req' \in [Requests -> Request]
        /\ \A s \in Requests \ {r} : req'[s] = req[s]
    BY <1>0, <1>5, <1>6
  <1>8. \A t \in Tags : Upserts(r, t) = IF t \in tags THEN 1 ELSE 0
    BY <1>0, UpsertsOnce DEF tags
  <1>9. holder' \in [Assets -> Requests \cup {None}] /\ count' \in [Tags -> Nat]
    BY <1>0, <1>3, <1>8 DEF TypeOK
  <1>10. ASSUME NEW p \in Requests, post[p] # None
         PROVE  ImagesOf(p)' = ImagesOf(p)
    <2>1. p # r
      BY <1>0, <1>10
    <2>2. \A m \in Assets : holder'[m] = p <=> holder[m] = p
      BY <1>0, <1>3, <2>1, NoneFacts DEF LockedImagesAreFree
    <2> QED
      BY <2>2 DEF ImagesOf
  <1>11. LockFrame(r) /\ \A m \in Assets : imageLock'[m] # r
    BY <1>0, <1>3, ReleaseFrames
  <1>12. Frame(r)
    <2>1. \A p \in Requests : post[p] # None => post'[p] = post[p] /\ post[p].version \in Nat
      BY <1>0, <1>4 DEF Post
    <2>2. \A s \in Requests \ {r} : req[s].pc \in {"idle", "write"} => post'[s] = None
      BY <1>0, <1>4 DEF ClaimsHold, Claim, IdleClaim
    <2>3. \A s \in Requests \ {r} : req[s].pc = "untag" =>
              post[req[s].post] # None /\ req[s].post \in Requests
      BY <1>0 DEF ClaimsHold, Claim, DeleteClaim, Exists
    <2> QED
      BY <1>3, <1>4, <1>7, <1>9, <1>10, <2>1, <2>2, <2>3 DEF Frame
  <1>13. Claim(r)'
    BY <1>4, <1>5, NoneFacts
       DEF Claim, IdleClaim, CreateClaim, DeleteClaim, EditClaim, ReadClaim, DoneClaim, Exists
  <1>14. LockedImagesAreFree'
    <2> SUFFICES ASSUME NEW m \in Assets, imageLock'[m] # None PROVE holder'[m] = None
      BY DEF LockedImagesAreFree
    <2>1. imageLock'[m] \in Requests \ {r} /\ imageLock[m] = imageLock'[m]
      BY <1>11 DEF LockFrame
    <2> QED
      BY <1>0, <1>3, <2>1, NoneFacts DEF LockedImagesAreFree
  <1>15. EditsAreChained'
    <2> SUFFICES ASSUME NEW p \in Requests, post'[p] # None PROVE Chain(p)'
      BY DEF EditsAreChained
    <2>1. \A s \in Requests : /\ req'[s].kind = req[s].kind /\ req'[s].post = req[s].post
                              /\ req[s].kind = "UPDATE" => req'[s] = req[s]
      BY <1>0, <1>5, <1>7
    <2>2. Applied(p)' = Applied(p) /\ \A s \in Applied(p) : req'[s].version = req[s].version
      BY <2>1 DEF Applied
    <2>3. CASE p # r
      BY <1>0, <1>4, <2>2, <2>3, ChainIsKept DEF EditsAreChained
    <2>4. CASE p = r
      <3>1. Applied(p)' = {}
        BY <1>0, <2>2, <2>4 DEF Applied, ClaimsHold, Claim, EditClaim, Exists
      <3>2. {req'[s].version : s \in {}} = 1..0
        OBVIOUS
      <3> QED
        BY <1>2, <1>4, <2>4, <3>1, <3>2, FS_EmptySet DEF Chain
    <2> QED
      BY <2>3, <2>4
  <1>16. TagCountsExact'
    <2> SUFFICES ASSUME NEW t \in Tags PROVE count'[t] = Cardinality(Live(t)')
      BY DEF TagCountsExact
    <2>1. count[t] = Cardinality(Live(t)) /\ count'[t] = count[t] + Upserts(r, t)
      BY <1>0, <1>3 DEF TagCountsExact
    <2>2. r \notin Live(t)
      BY <1>0 DEF Live, Gone
    <2>3. CASE t \in tags
      <3>1. Live(t)' = Live(t) \cup {r}
        BY <1>2, <1>4, <2>3 DEF Live, Gone
      <3>2. Cardinality(Live(t) \cup {r}) = Cardinality(Live(t)) + 1
        BY <2>2, LiveIsFinite, FS_AddElement
      <3> QED
        BY <1>8, <2>1, <2>3, <3>1, <3>2
    <2>4. CASE t \notin tags
      <3>1. Live(t)' = Live(t)
        BY <1>0, <1>2, <1>4, <2>4 DEF Live, Gone
      <3>2. Cardinality(Live(t)) \in Nat
        BY LiveIsFinite
      <3> QED
        BY <1>8, <2>1, <2>4, <3>1, <3>2
    <2> QED
      BY <2>3, <2>4
  <1> QED
    BY <1>11, <1>12, <1>13, <1>14, <1>15, <1>16, StepKeepsIInv
LEMMA CommitDeleteKeepsIInv ==
    ASSUME IInv, NEW r \in Requests, CommitDelete(r)
    PROVE  IInv'
  <1> DEFINE p == req[r].post
             told == [req[r] EXCEPT !.wrote = TRUE]
  <1>0. /\ TypeOK /\ Claim(r) /\ ClaimsHold /\ LockedImagesAreFree /\ EditsAreChained
        /\ TagCountsExact
        /\ req[r].pc = "untag" /\ req[r].kind = "DELETE" /\ p \in Requests
        /\ post[p] # None /\ ~post[p].deleted /\ postLock[p] = r
        /\ \A t \in Tags : tagLock[t] = r => t \in post[p].tags
        /\ req[r] \in Request /\ req \in [Requests -> Request]
        /\ post \in [Requests -> Post \cup {None}] /\ post[p] \in Post
    BY DEF IInv, ClaimsHold, CommitDelete, Claim, DeleteClaim, TypeOK, Exists
  <1>1. /\ post' = [post EXCEPT ![p] = [post[p] EXCEPT !.deleted = TRUE]]
        /\ count' = [t \in Tags |-> IF tagLock[t] = r THEN Lowered(count[t]) ELSE count[t]]
        /\ req' = [req EXCEPT ![r] = Answered(told, "204")]
        /\ asset' = asset /\ holder' = holder /\ Release(r)
    BY DEF CommitDelete
  <1>2. \A t \in Tags : tagLock[t] = r <=> t \in post[p].tags
    BY <1>0 DEF CommitDelete, Unlowered
  <1>3. /\ post'[p] \in Post /\ post'[p].deleted /\ post'[p].author = post[p].author
        /\ post'[p].tags = post[p].tags /\ post'[p].version = post[p].version
        /\ post'[p].text = post[p].text
        /\ \A q \in Requests \ {p} : post'[q] = post[q]
        /\ post' \in [Requests -> Post \cup {None}]
    BY <1>0, <1>1 DEF Post
  <1>4. /\ told \in Request /\ told.kind = "DELETE" /\ told.post = p
    BY <1>0 DEF Request
  <1> HIDE DEF told
  <1>5. /\ req'[r] \in Request /\ req'[r].pc = "done" /\ req'[r].kind = "DELETE"
        /\ req'[r].answer = "204"
    BY <1>0, <1>1, <1>4, AnsweredParts DEF Answers
  <1>6. /\ req' \in [Requests -> Request]
        /\ \A s \in Requests \ {r} : req'[s] = req[s]
    BY <1>0, <1>1, <1>5
  <1>7. count' \in [Tags -> Nat]
    BY <1>0, <1>1 DEF TypeOK, Lowered
  <1>8. LockFrame(r) /\ \A m \in Assets : imageLock'[m] # r
    BY <1>0, <1>1, ReleaseFrames
  <1>9. Frame(r)
    <2>1. \A q \in Requests : post[q] # None => post[q].version \in Nat
      BY <1>0 DEF Post
    <2>2. \A q \in Requests : post[q] # None =>
              /\ post'[q] # None /\ post'[q].author = post[q].author
              /\ post'[q].tags = post[q].tags /\ post'[q].version >= post[q].version
              /\ post[q].deleted => post'[q].deleted
      BY <1>0, <1>3, <2>1, NoneFacts
    <2>3. \A s \in Requests \ {r} : req[s].pc \in {"idle", "write"} => post'[s] = None
      BY <1>0, <1>3 DEF ClaimsHold, Claim, IdleClaim
    <2>4. \A s \in Requests \ {r} : req[s].pc = "untag" =>
              ~post'[req[s].post].deleted
      <3>1. \A s \in Requests \ {r} : req[s].pc = "untag" =>
                /\ ~post[req[s].post].deleted /\ req[s].post \in Requests /\ req[s].post # p
        BY <1>0 DEF ClaimsHold, Claim, DeleteClaim, Exists
      <3> QED
        BY <1>3, <3>1
    <2>5. holder' \in [Assets -> Requests \cup {None}] /\ \A q \in Requests : ImagesOf(q)' = ImagesOf(q)
      BY <1>0, <1>1 DEF TypeOK, ImagesOf
    <2> QED
      BY <1>1, <1>3, <1>6, <1>7, <2>2, <2>3, <2>4, <2>5 DEF Frame
  <1>10. Claim(r)'
    BY <1>5 DEF Claim, IdleClaim, CreateClaim, DeleteClaim, EditClaim, ReadClaim, DoneClaim
  <1>11. LockedImagesAreFree'
    <2> SUFFICES ASSUME NEW m \in Assets, imageLock'[m] # None PROVE holder'[m] = None
      BY DEF LockedImagesAreFree
    <2>1. imageLock'[m] \in Requests \ {r} /\ imageLock[m] = imageLock'[m]
      BY <1>8 DEF LockFrame
    <2> QED
      BY <1>0, <1>1, <2>1, NoneFacts DEF LockedImagesAreFree
  <1>12. EditsAreChained'
    <2> SUFFICES ASSUME NEW q \in Requests, post'[q] # None PROVE Chain(q)'
      BY DEF EditsAreChained
    <2>1. Applied(q)' = Applied(q) /\ \A s \in Applied(q) : req'[s].version = req[s].version
      BY <1>0, <1>5, <1>6 DEF Applied
    <2>2. /\ post[q] # None /\ post'[q].version = post[q].version
          /\ post'[q].text = post[q].text
      BY <1>0, <1>3
    <2> QED
      BY <1>0, <2>1, <2>2, ChainIsKept DEF EditsAreChained
  <1>13. TagCountsExact'
    <2> SUFFICES ASSUME NEW t \in Tags PROVE count'[t] = Cardinality(Live(t)')
      BY DEF TagCountsExact
    <2>1. /\ count[t] = Cardinality(Live(t)) /\ Cardinality(Live(t)) \in Nat
          /\ count'[t] = IF tagLock[t] = r THEN Lowered(count[t]) ELSE count[t]
      BY <1>0, <1>1, LiveIsFinite DEF TagCountsExact
    <2>2. CASE t \in post[p].tags
      <3>1. Live(t)' = Live(t) \ {p} /\ p \in Live(t)
        BY <1>0, <1>3, <2>2, NoneFacts DEF Live, Gone
      <3>2. Cardinality(Live(t) \ {p}) = Cardinality(Live(t)) - 1
        BY <3>1, LiveIsFinite, FS_RemoveElement
      <3>3. Cardinality(Live(t)) # 0
        BY <3>1, LiveIsFinite, FS_EmptySet
      <3> QED
        BY <1>2, <2>1, <2>2, <3>1, <3>2, <3>3 DEF Lowered
    <2>3. CASE t \notin post[p].tags
      <3>1. Live(t)' = Live(t)
        BY <1>0, <1>3, <2>3, NoneFacts DEF Live, Gone
      <3> QED
        BY <1>2, <2>1, <2>3, <3>1
    <2> QED
      BY <2>2, <2>3
  <1> QED
    BY <1>8, <1>9, <1>10, <1>11, <1>12, <1>13, StepKeepsIInv

(* The UPDATE that finds its version adds itself to the chain.             *)
LEMMA ChainGrows ==
    ASSUME TypeOK, NEW p \in Requests, Chain(p), NEW r \in Requests \ Applied(p),
           post[p] \in Post,
           Applied(p)' = Applied(p) \cup {r},
           \A s \in Applied(p) \cup {r} : req'[s].version = req[s].version,
           req[r].version = post[p].version,
           post'[p].version = post[p].version + 1, post'[p].text = r
    PROVE  Chain(p)'
  <1> DEFINE v == post[p].version
  <1>1. v \in Nat \ {0}
    BY DEF Post
  <1>2. Cardinality(Applied(p)') = Cardinality(Applied(p)) + 1
    BY AppliedIsFinite, FS_AddElement
  <1>3. {req'[s].version : s \in Applied(p) \cup {r}} = {req[s].version : s \in Applied(p)} \cup {v}
    OBVIOUS
  <1>4. (1 .. v - 1) \cup {v} = 1 .. (v + 1) - 1
    BY <1>1
  <1>5. \A s \in Applied(p) : req[s].version \in 1 .. v - 1
    BY DEF Chain
  <1>6. \A s \in Applied(p) : req[s].version # v
    BY <1>1, <1>5
  <1>7. \A s, q \in Applied(p) \cup {r} : req'[s].version = req'[q].version => s = q
    BY <1>6 DEF Chain
  <1>8. Cardinality(Applied(p)') = post'[p].version - 1
    BY <1>1, <1>2 DEF Chain
  <1>9. {req'[s].version : s \in Applied(p)'} = 1 .. post'[p].version - 1
    BY <1>3, <1>4 DEF Chain
  <1>10. post'[p].version # 1
    BY <1>1
  <1>11. \A s \in Applied(p)' : req'[s].version = post'[p].version - 1 => s = r
    BY <1>1, <1>6
  <1> QED
    BY <1>7, <1>8, <1>9, <1>10, <1>11 DEF Chain

LEMMA UpdateContentKeepsIInv ==
    ASSUME IInv, NEW r \in Requests, UpdateContent(r)
    PROVE  IInv'
  <1> DEFINE p == req[r].post
             edited == [post[p] EXCEPT !.version = @ + 1, !.text = r]
  <1>0. /\ TypeOK /\ Claim(r) /\ ClaimsHold /\ LockedImagesAreFree /\ EditsAreChained
        /\ TagCountsExact
        /\ req[r].pc = "edit" /\ req[r].kind = "UPDATE" /\ p \in Requests /\ post[p] # None
        /\ ~req[r].wrote /\ req[r].user = post[p].author
        /\ req[r].version > 0 /\ req[r].found <= post[p].version
        /\ req[r] \in Request /\ req \in [Requests -> Request]
        /\ post \in [Requests -> Post \cup {None}] /\ post[p] \in Post
        /\ req[r].answer = None
    <2>1. /\ TypeOK /\ Claim(r) /\ ClaimsHold /\ LockedImagesAreFree /\ EditsAreChained
          /\ TagCountsExact /\ req[r].pc = "edit"
      BY DEF IInv, ClaimsHold, UpdateContent
    <2>2. /\ req[r] \in Request /\ req \in [Requests -> Request]
          /\ post \in [Requests -> Post \cup {None}]
      BY <2>1 DEF TypeOK
    <2>3. /\ req[r].kind = "UPDATE" /\ Exists(p) /\ ~req[r].wrote
          /\ req[r].user = post[p].author
          /\ req[r].version > 0 /\ req[r].found <= post[p].version
          /\ req[r].answer = None
      BY <2>1 DEF Claim, EditClaim, DoneClaim
    <2> QED
      BY <2>1, <2>2, <2>3 DEF Exists
  <1>1. post[p].version \in Nat \ {0} /\ req[r].version \in Nat /\ req[r].found \in Nat
    BY <1>0 DEF Post, Request
  <1>2. CASE ~Matches(r)
    <2>1. Refuse(r, "409")
      BY <1>2 DEF UpdateContent
    <2>2. post[p].deleted \/ post[p].version # req[r].version
      BY <1>0, <1>2 DEF Matches, Gone
    <2>3. \/ post[p].deleted
          \/ post[p].version > req[r].version
          \/ req[r].version > req[r].found
      BY <1>0, <1>1, <2>2
    <2>4. Right(r, "409")
      BY <1>0, <2>3 DEF Right, Answers, Exists
    <2> QED
      BY <2>1, <2>4, RefuseKeepsIInv
  <1>3. CASE Matches(r)
    <2>1. /\ post' = [post EXCEPT ![p] = edited]
          /\ req' = [req EXCEPT ![r] =
                        [req[r] EXCEPT !.pc = "images", !.wrote = TRUE, !.user = None]]
          /\ asset' = asset /\ holder' = holder /\ count' = count /\ UNCHANGED locks
      BY <1>3 DEF UpdateContent
    <2>2. ~post[p].deleted /\ req[r].version = post[p].version
      BY <1>3 DEF Matches, Gone
    <2>3. /\ edited \in Post /\ (edited.deleted <=> post[p].deleted)
          /\ edited.author = post[p].author /\ edited.tags = post[p].tags
          /\ edited.version = post[p].version + 1 /\ edited.text = r
      <3>1. post[p].version + 1 \in Nat \ {0} /\ post[p] \in Post
        BY <1>0, <1>1
      <3>2. edited \in Post
        BY <3>1 DEF Post
      <3>3. /\ edited.author = post[p].author /\ edited.tags = post[p].tags
            /\ edited.version = post[p].version + 1 /\ edited.text = r
        BY <3>1 DEF Post
      <3>4. edited.deleted = post[p].deleted
        BY <3>1 DEF Post
      <3> QED
        BY <3>2, <3>3, <3>4
    <2> HIDE DEF edited
    <2>4. /\ post'[p] = edited /\ \A q \in Requests \ {p} : post'[q] = post[q]
          /\ post' \in [Requests -> Post \cup {None}]
      BY <1>0, <2>1, <2>3
    <2>5. /\ req'[r].pc = "images" /\ req'[r].kind = "UPDATE" /\ req'[r].post = p
          /\ req'[r].version = req[r].version /\ req'[r].answer = None
          /\ req'[r] \in Request
      <3> DEFINE q == req[r]
      <3>1. req'[r] = [q EXCEPT !.pc = "images", !.wrote = TRUE, !.user = None]
        BY <1>0, <2>1
      <3>2. q \in Request /\ q.kind = "UPDATE" /\ q.post = p /\ q.answer = None
        BY <1>0
      <3> HIDE DEF q, p
      <3>3. req'[r] \in Request
        BY <3>1, <3>2 DEF Request
      <3>4. /\ req'[r].pc = "images" /\ req'[r].kind = "UPDATE" /\ req'[r].post = p
            /\ req'[r].version = q.version /\ req'[r].answer = None
        BY <3>1, <3>2 DEF Request
      <3> QED
        BY <3>3, <3>4 DEF q
    <2>6. req'[r].wrote
      BY <1>0, <2>1 DEF Request
    <2>7. /\ req' \in [Requests -> Request]
          /\ \A s \in Requests \ {r} : req'[s] = req[s]
      BY <1>0, <2>1, <2>5
    <2>8. LockFrame(r)
      BY <1>0, <2>1, LocksAsTheyWere DEF InTx
    <2>9. Frame(r)
      <3>1. \A q \in Requests : post[q] # None => post[q].version \in Nat
        BY <1>0 DEF Post
      <3>2. \A q \in Requests : post[q] # None =>
                /\ post'[q] # None /\ post'[q].author = post[q].author
                /\ post'[q].tags = post[q].tags /\ post'[q].version >= post[q].version
                /\ post[q].deleted <=> post'[q].deleted
        BY <1>0, <2>3, <2>4, <3>1, NoneFacts
      <3>3. \A s \in Requests \ {r} : req[s].pc \in {"idle", "write"} => post'[s] = None
        BY <1>0, <2>4 DEF ClaimsHold, Claim, IdleClaim
      <3>4. \A s \in Requests \ {r} : req[s].pc = "untag" =>
                req[s].post \in Requests /\ post[req[s].post] # None
        BY <1>0 DEF ClaimsHold, Claim, DeleteClaim, Exists
      <3>5. /\ holder' \in [Assets -> Requests \cup {None}] /\ count' \in [Tags -> Nat]
            /\ \A q \in Requests : ImagesOf(q)' = ImagesOf(q)
        BY <1>0, <2>1 DEF TypeOK, ImagesOf
      <3> QED
        BY <2>1, <2>4, <2>7, <3>2, <3>3, <3>4, <3>5 DEF Frame
    <2>10. Claim(r)'
      BY <1>0, <2>3, <2>4, <2>5, NoneFacts
         DEF Claim, IdleClaim, CreateClaim, DeleteClaim, EditClaim, ReadClaim, DoneClaim, Exists
    <2>11. LockedImagesAreFree'
      BY <1>0, <2>1 DEF LockedImagesAreFree, locks
    <2>12. EditsAreChained'
      <3> SUFFICES ASSUME NEW q \in Requests, post'[q] # None PROVE Chain(q)'
        BY DEF EditsAreChained
      <3>1. \A s \in Requests : /\ req'[s].kind = req[s].kind /\ req'[s].post = req[s].post
                                /\ req'[s].version = req[s].version
                                /\ s # r => (req'[s].wrote <=> req[s].wrote)
        BY <1>0, <2>5, <2>7
      <3>2. CASE q # p
        <4>1. Applied(q)' = Applied(q) /\ \A s \in Applied(q) : req'[s].version = req[s].version
          BY <1>0, <2>5, <3>1, <3>2 DEF Applied
        <4> QED
          BY <1>0, <2>4, <3>2, <4>1, ChainIsKept DEF EditsAreChained
      <3>3. CASE q = p
        <4> DEFINE z == q
        <4>1. Applied(q)' = Applied(q) \cup {r} /\ r \notin Applied(q)
          BY <1>0, <2>5, <2>6, <3>1, <3>3 DEF Applied
        <4>2. Chain(q) /\ post[q] \in Post /\ req[r].version = post[q].version
              /\ post'[q].version = post[q].version + 1 /\ post'[q].text = r
          BY <1>0, <2>2, <2>3, <2>4, <3>3 DEF EditsAreChained
        <4>3. \A s \in Applied(q) \cup {r} : req'[s].version = req[s].version
          BY <3>1 DEF Applied
        <4> QED
          BY <1>0, <4>1, <4>2, <4>3, ChainGrows
      <3> QED
        BY <3>2, <3>3
    <2>13. TagCountsExact'
      <3>1. \A t : Live(t)' = Live(t)
        BY <1>0, <2>3, <2>4, NoneFacts DEF Live, Gone
      <3> QED
        BY <1>0, <2>1, <3>1 DEF TagCountsExact
    <2> QED
      BY <2>8, <2>9, <2>10, <2>11, <2>12, <2>13, StepKeepsIInv
  <1> QED
    BY <1>2, <1>3
-----------------------------------------------------------------------------
(* The invariant of the posts component.                                   *)

LEMMA InitIInv == Init => IInv
  <1> SUFFICES ASSUME Init PROVE IInv
    OBVIOUS
  <1>1. PICK by \in [Early -> Users], d \in [Early -> Drafts] :
            post = [p \in Requests |->
                      IF p \in Early THEN NewPost(p, by[p], ToSet(Normalized(d[p].tags))) ELSE None]
    BY DEF Init
  <1>2. \A p \in Early :
            LET new == NewPost(p, by[p], ToSet(Normalized(d[p].tags)))
            IN  new \in Post /\ new.version = 1 /\ new.text = p
    <2> SUFFICES ASSUME NEW p \in Early
                 PROVE  LET new == NewPost(p, by[p], ToSet(Normalized(d[p].tags)))
                        IN  new \in Post /\ new.version = 1 /\ new.text = p
      OBVIOUS
    <2>1. Normalized(d[p].tags) \in Seq(Tags)
      BY DraftLists
    <2>2. ToSet(Normalized(d[p].tags)) \in SUBSET Tags
      BY <2>1 DEF ToSet
    <2>3. p \in Requests
      BY EarlyAssumption
    <2> QED
      BY <2>2, <2>3 DEF NewPost, Post
  <1>3. /\ post \in [Requests -> Post \cup {None}]
        /\ \A p \in Requests : post[p] # None => p \in Early /\ post[p].version = 1 /\ post[p].text = p
    BY <1>1, <1>2
  <1>4. /\ holder = [m \in Assets |-> None] /\ postLock = [p \in Requests |-> None]
        /\ imageLock = [m \in Assets |-> None] /\ tagLock = [t \in Tags |-> None]
        /\ req = [r \in Requests |-> IF r \in Early THEN [Idle EXCEPT !.pc = "done"] ELSE Idle]
        /\ count = [t \in Tags |-> Cardinality(Live(t))]
        /\ asset \in [Assets -> Asset \cup {None}]
    BY DEF Init
  <1>5. /\ [Idle EXCEPT !.pc = "done"] \in Request /\ [Idle EXCEPT !.pc = "done"].pc = "done"
        /\ [Idle EXCEPT !.pc = "done"].kind = None /\ [Idle EXCEPT !.pc = "done"].answer = None
    BY IdleParts DEF Request
  <1>6. /\ req \in [Requests -> Request]
        /\ \A r \in Requests : /\ req[r].kind = None /\ req[r].answer = None
                               /\ \/ req[r] = Idle /\ r \notin Early
                                  \/ req[r].pc = "done"
    BY <1>4, <1>5, IdleParts
  <1>7. TypeOK
    BY <1>3, <1>4, <1>6, LiveIsFinite DEF TypeOK
  <1>8. None \notin Kinds
    BY NoneAssumption
  <1>9. ClaimsHold
    <2> SUFFICES ASSUME NEW r \in Requests PROVE Claim(r)
      BY DEF ClaimsHold
    <2>1. req[r].pc \in {"idle", "done"} /\ req[r].kind # "UPDATE" /\ req[r].answer = None
      BY <1>6, <1>8, IdleParts DEF Kinds
    <2>2. IdleClaim(r)
      BY <1>3, <1>6 DEF IdleClaim
    <2> QED
      BY <2>1, <2>2, NoneFacts DEF Claim, CreateClaim, DeleteClaim, EditClaim, ReadClaim, DoneClaim
  <1>10. LockedImagesAreFree /\ TagCountsExact
    BY <1>4 DEF LockedImagesAreFree, TagCountsExact
  <1>11. EditsAreChained
    <2> SUFFICES ASSUME NEW p \in Requests, post[p] # None PROVE Chain(p)
      BY DEF EditsAreChained
    <2>1. Applied(p) = {}
      BY <1>6, <1>8 DEF Applied, Kinds
    <2>2. {req[s].version : s \in {}} = 1..0
      OBVIOUS
    <2> QED
      BY <1>3, <2>1, <2>2, FS_EmptySet DEF Chain
  <1> QED
    BY <1>7, <1>9, <1>10, <1>11 DEF IInv

LEMMA ServeKeepsIInv ==
    ASSUME IInv, NEW r \in Requests, Serve(r)
    PROVE  IInv'
  <1>1. CASE Step(r)
    BY <1>1, AttachKeepsIInv, UpsertKeepsIInv, CommitCreateKeepsIInv, UpdateContentKeepsIInv,
       SoftDeleteKeepsIInv, LowerKeepsIInv, CommitDeleteKeepsIInv, ReadImagesKeepsIInv,
       ReadHashtagsKeepsIInv, CancelsKeepIInv
       DEF Step
  <1> QED
    BY <1>1, ArrivalsKeepIInv, CancelsKeepIInv DEF Serve

(* Nothing a creation relies on is undone by the media component.          *)
LEMMA MediaKeepsIInv ==
    ASSUME IInv, MediaGrows
    PROVE  IInv'
  <1>0. /\ asset' \in [Assets -> Asset \cup {None}] /\ asset \in [Assets -> Asset \cup {None}]
        /\ UNCHANGED <<tables, locks, req>>
        /\ \A m \in Assets :
              asset[m] # None => asset'[m] \in {asset[m], [asset[m] EXCEPT !.status = "USABLE"]}
    BY DEF MediaGrows, IInv, TypeOK, Catalogue!AssetsGrow
  <1>1. \A m \in Assets, u \in Users :
            asset[m] = [owner |-> u, status |-> "USABLE"] =>
                asset'[m] = [owner |-> u, status |-> "USABLE"]
    <2> SUFFICES ASSUME NEW m \in Assets, NEW u \in Users,
                        asset[m] = [owner |-> u, status |-> "USABLE"]
                 PROVE  asset'[m] = asset[m]
      OBVIOUS
    <2>1. asset[m] \in Asset
      BY DEF Asset
    <2>2. asset[m] # None
      BY <2>1, NoneFacts
    <2>3. [asset[m] EXCEPT !.status = "USABLE"] = asset[m]
      OBVIOUS
    <2> QED
      BY <1>0, <2>2, <2>3
  <1>2. /\ post' = post /\ holder' = holder /\ count' = count /\ req' = req
        /\ postLock' = postLock /\ imageLock' = imageLock /\ tagLock' = tagLock
    BY <1>0 DEF tables, locks
  <1>3. TypeOK'
    BY <1>0, <1>2 DEF IInv, TypeOK
  <1>4. ASSUME NEW r \in Requests PROVE Claim(r)'
    <2>1. Claim(r) /\ req[r] \in Request
      BY DEF IInv, ClaimsHold, TypeOK
    <2>2. CreateClaim(r)'
      <3> SUFFICES ASSUME req[r].pc = "write" PROVE CreateClaim(r)'
        BY <1>2 DEF CreateClaim
      <3>1. req[r].images \in Seq(Assets) /\ req[r].user \in Users
        BY <2>1 DEF Claim, CreateClaim, Request
      <3>2. \A i \in DOMAIN req[r].images : req[r].images[i] \in Assets
        BY <3>1
      <3> QED
        BY <1>1, <1>2, <2>1, <3>1, <3>2 DEF Claim, CreateClaim
    <2> QED
      BY <1>2, <2>1, <2>2
         DEF Claim, IdleClaim, DeleteClaim, EditClaim, ReadClaim, DoneClaim, Exists, ImagesOf
  <1>5. LockedImagesAreFree' /\ TagCountsExact'
    BY <1>2 DEF IInv, LockedImagesAreFree, TagCountsExact, Live, Gone
  <1>6. ASSUME NEW p \in Requests, post[p] # None
        PROVE  Chain(p)'
    <2>1. Applied(p)' = Applied(p)
      BY <1>2 DEF Applied
    <2> QED
      BY <1>2, <1>6, <2>1, ChainIsKept DEF IInv, EditsAreChained
  <1> QED
    BY <1>2, <1>3, <1>4, <1>5, <1>6 DEF IInv, ClaimsHold, EditsAreChained

LEMMA StutterKeepsIInv ==
    ASSUME IInv, UNCHANGED vars
    PROVE  IInv'
  <1>1. MediaGrows
    BY DEF vars, IInv, TypeOK, MediaGrows, Catalogue!AssetsGrow
  <1> QED
    BY <1>1, MediaKeepsIInv

LEMMA NextKeepsIInv == IInv /\ [Next]_vars => IInv'
  BY MediaKeepsIInv, ServeKeepsIInv, StutterKeepsIInv DEF Next

(* The chain of a post's updates is what EditsAreSerial says of them.      *)
LEMMA ChainsAreSerial == IInv => EditsAreSerial
  <1> SUFFICES ASSUME IInv PROVE EditsAreSerial
    OBVIOUS
  <1>1. ASSUME NEW p \in Requests, post[p] # None
        PROVE  /\ Cardinality(Applied(p)) = post[p].version - 1
               /\ {req[r].version : r \in Applied(p)} = 1 .. post[p].version - 1
               /\ post[p].text =
                      IF Applied(p) = {} THEN p
                      ELSE CHOOSE r \in Applied(p) : req[r].version = post[p].version - 1
    <2>1. Chain(p) /\ post[p].version \in Nat \ {0}
      BY <1>1 DEF IInv, EditsAreChained, TypeOK, Post
    <2>2. CASE Applied(p) = {}
      <3>1. post[p].version = 1
        BY <2>1, <2>2, FS_EmptySet DEF Chain
      <3> QED
        BY <2>1, <2>2, <3>1 DEF Chain
    <2>3. CASE Applied(p) # {}
      <3>1. post[p].version - 1 \in 1 .. post[p].version - 1
        BY <2>1, <2>3 DEF Chain
      <3>2. \E r \in Applied(p) : req[r].version = post[p].version - 1
        BY <2>1, <3>1 DEF Chain
      <3>3. \A r \in Applied(p) : req[r].version = post[p].version - 1 => r = post[p].text
        BY <2>1 DEF Chain
      <3>4. (CHOOSE r \in Applied(p) : req[r].version = post[p].version - 1) = post[p].text
        BY <3>2, <3>3
      <3> QED
        BY <2>1, <2>3, <3>4 DEF Chain
    <2> QED
      BY <2>2, <2>3
  <1>2. ASSUME NEW r \in Requests, req[r].answer = "409"
        PROVE  \/ post[req[r].post].deleted
               \/ post[req[r].post].version > req[r].version
               \/ req[r].version > req[r].found
    BY <1>2 DEF IInv, ClaimsHold, Claim, DoneClaim
  <1> QED
    BY <1>1, <1>2 DEF EditsAreSerial

LEMMA AnswersAreWhole == IInv => ReadersSeeWholePosts
  BY DEF IInv, ClaimsHold, Claim, DoneClaim, ReadersSeeWholePosts
-----------------------------------------------------------------------------
(* The components together.                                                *)

WholeInv == IInv /\ MediaInv /\ PlaceInv

LEMMA InitWholeInv == PublishingInit => WholeInv
  BY InitIInv, InitMediaInv, InitPlaceInv DEF PublishingInit, WholeInv

(* The tables are untouched by arrivals, and by every other step but the   *)
(* commits and an update that finds its row.                               *)
LEMMA ArrivalsLeaveTheTables ==
    ASSUME NEW r, Arrive(r)
    PROVE  UNCHANGED <<asset, tables>>
  <1>1. ASSUME NEW u, NEW d, Create(r, u, d)
        PROVE  UNCHANGED <<asset, tables>>
    BY <1>1 DEF Create, Start
  <1>2. ASSUME NEW kind, NEW u, NEW p, NEW v, NEW next, Lookup(r, kind, u, p, v, next)
        PROVE  UNCHANGED <<asset, tables>>
    BY <1>2 DEF Lookup, Start
  <1>3. ASSUME NEW u, NEW p, NEW v, Update(r, u, p, v)
        PROVE  UNCHANGED <<asset, tables>>
    <2>1. CASE v = 0
      BY <1>3, <2>1 DEF Update, Start
    <2> QED
      BY <1>2, <1>3, <2>1 DEF Update
  <1>4. ASSUME NEW p, Read(r, p)
        PROVE  UNCHANGED <<asset, tables>>
    BY <1>4 DEF Read, Start
  <1> QED
    BY <1>1, <1>2, <1>3, <1>4 DEF Arrive, Delete

LEMMA OthersLeaveTheTables ==
    ASSUME NEW r, Serve(r), ~CommitCreate(r), ~CommitDelete(r),
           ~(UpdateContent(r) /\ Matches(r))
    PROVE  UNCHANGED <<asset, tables>>
  <1>1. CASE AttachImage(r) \/ UpsertHashtag(r)
    BY <1>1 DEF AttachImage, UpsertHashtag, Wrote, Refuse
  <1>2. CASE UpdateContent(r) \/ SoftDelete(r)
    BY <1>2 DEF UpdateContent, SoftDelete, Refuse
  <1>3. CASE \E t \in Tags : LowerHashtag(r, t)
    BY <1>3 DEF LowerHashtag
  <1>4. CASE ReadImages(r) \/ ReadHashtags(r)
    BY <1>4 DEF ReadImages, ReadHashtags
  <1>5. CASE CancelledByDetector(r) \/ Fail(r)
    BY <1>5 DEF CancelledByDetector, Fail, Refuse
  <1> QED
    BY <1>1, <1>2, <1>3, <1>4, <1>5, ArrivalsLeaveTheTables DEF Serve, Step

(* No step of the posts component touches media_assets.                    *)
LEMMA PostsLeaveAssets ==
    ASSUME NEW r, Serve(r)
    PROVE  asset' = asset
  <1>1. CASE CommitCreate(r) \/ CommitDelete(r)
    BY <1>1 DEF CommitCreate, CommitDelete
  <1>2. CASE UpdateContent(r) /\ Matches(r)
    BY <1>2 DEF UpdateContent
  <1> QED
    BY <1>1, <1>2, OthersLeaveTheTables

(* What the media component does is what the posts component expects.      *)
LEMMA AssetsOnlyGrow ==
    ASSUME MediaInv, asset' \in [Assets -> Media!Asset \cup {None}], AssetsStay,
           UNCHANGED privateToPosts
    PROVE  MediaGrows
  <1>1. asset' \in [Assets -> Asset \cup {None}]
    BY DEF Asset, Media!Asset
  <1>2. ASSUME NEW m \in Assets, asset[m] # None
        PROVE  asset'[m] \in {asset[m], [asset[m] EXCEPT !.status = "USABLE"]}
    <2>1. /\ asset[m] \in Asset /\ asset'[m] \in Asset
          /\ asset'[m].owner = asset[m].owner
          /\ asset[m].status = "USABLE" => asset'[m].status = "USABLE"
      BY <1>1, <1>2 DEF MediaInv, Media!MediaTypeOK, Media!Asset, Asset, AssetsStay
    <2> QED
      BY <2>1 DEF Asset
  <1> QED
    BY <1>1, <1>2 DEF MediaGrows, Catalogue!AssetsGrow, privateToPosts

(* A step of each kind, for every component.                               *)
LEMMA MoveOfPosts ==
    ASSUME WholeInv, NEW r \in Requests, PostsMove(r)
    PROVE  WholeInv' /\ Next
  <1>1. Serve(r) /\ asset' = asset /\ cloud' = cloud /\ check' = check
        /\ place' = place /\ visit' = visit
    BY PostsLeaveAssets DEF PostsMove, privateToMedia
  <1> QED
    BY <1>1, ServeKeepsIInv, MediaInvAsItWas, PlaceInvAsItWas DEF WholeInv, Next

LEMMA MoveOfMedia ==
    ASSUME WholeInv, NEW r \in Requests, MediaMove(r)
    PROVE  WholeInv' /\ Next
  <1>1. MediaInv /\ MediaStep(r) /\ UNCHANGED privateToPosts /\ UNCHANGED <<place, visit>>
    BY MediaSteps DEF MediaMove, WholeInv
  <1>2. MediaGrows
    BY <1>1, AssetsOnlyGrow DEF MediaStep
  <1> QED
    BY <1>1, <1>2, MediaKeepsIInv, MediaStepsKeepMediaInv, PlaceInvAsItWas DEF WholeInv, Next

LEMMA ArrivalOfFile ==
    ASSUME WholeInv, NEW m \in Assets, FileArrives(m)
    PROVE  WholeInv' /\ Next
  <1>1. Media!Upload(m) /\ UNCHANGED privateToPosts /\ UNCHANGED <<place, visit>>
    BY DEF FileArrives
  <1>2. asset' = asset /\ asset \in [Assets -> Media!Asset \cup {None}]
    BY <1>1 DEF Media!Upload, WholeInv, MediaInv, Media!MediaTypeOK
  <1>3. MediaGrows
    BY <1>1, <1>2, AssetsOnlyGrow DEF AssetsStay, WholeInv
  <1> QED
    BY <1>1, <1>3, MediaKeepsIInv, UploadKeepsMediaInv, PlaceInvAsItWas DEF WholeInv, Next

LEMMA MoveOfPlaces ==
    ASSUME WholeInv, NEW r \in Requests, PlacesMove(r)
    PROVE  WholeInv' /\ UNCHANGED vars
  <1>1. /\ Geo!Serve(r) /\ UNCHANGED vars /\ asset' = asset /\ cloud' = cloud
        /\ check' = check
    BY DEF PlacesMove, vars, privateToMedia
  <1>2. PlaceInv'
    BY <1>1, PlaceSteps, PlaceStepsKeepPlaceInv DEF WholeInv
  <1> QED
    BY <1>1, <1>2, StutterKeepsIInv, MediaInvAsItWas DEF WholeInv

LEMMA PublishingSteps ==
    ASSUME WholeInv, [PublishingNext]_publishingVars
    PROVE  WholeInv' /\ [Next]_vars
  <1>1. CASE UNCHANGED publishingVars
    <2>1. /\ UNCHANGED vars /\ asset' = asset /\ cloud' = cloud
          /\ check' = check /\ place' = place /\ visit' = visit
      BY <1>1 DEF publishingVars, vars, privateToMedia
    <2> QED
      BY <2>1, StutterKeepsIInv, MediaInvAsItWas, PlaceInvAsItWas DEF WholeInv
  <1> QED
    BY <1>1, MoveOfPosts, MoveOfMedia, MoveOfPlaces, ArrivalOfFile DEF PublishingNext

(* The inductive invariants of the three components hold together.         *)
THEOREM Invariance == PublishingSpec => []WholeInv
  <1>1. WholeInv /\ [PublishingNext]_publishingVars => WholeInv'
    BY PublishingSteps
  <1> QED
    BY InitWholeInv, <1>1, PTL DEF PublishingSpec

(* Together with the media component, which adds and confirms images while *)
(* posts are published, the posts component is what Posts alone says it is *)
(* with an environment that only lets the images grow.                     *)
THEOREM PostsInTheWhole == PublishingSpec => Spec
  <1>1. PublishingInit => Init
    BY DEF PublishingInit
  <1>2. WholeInv /\ [PublishingNext]_publishingVars => [Next]_vars
    BY PublishingSteps
  <1> QED
    BY Invariance, <1>1, <1>2, PTL DEF PublishingSpec, Spec

(* Every variable of posts, images and places has its type, and a lock's   *)
(* holder is in a transaction.                                             *)
THEOREM Typing == PublishingSpec => []PublishingTypeOK
  <1>1. WholeInv => PublishingTypeOK
    BY DEF WholeInv, IInv, MediaInv, PlaceInv, PublishingTypeOK
  <1> QED
    BY Invariance, <1>1, PTL

(* A confirmation is believed by Cloudinary's word only, and one that lost *)
(* a race against another leaves the image usable.                         *)
THEOREM Confirmations == PublishingSpec => []ConfirmationHolds
  <1>1. WholeInv => ConfirmationHolds
    BY MediaInvConfirms DEF WholeInv
  <1> QED
    BY Invariance, <1>1, PTL

(* All who are answered about one Google id are given the same place,      *)
(* although it is looked up and inserted without a transaction.            *)
THEOREM SamePlace == PublishingSpec => []PlaceAnswersAgree
  <1>1. WholeInv => PlaceAnswersAgree
    BY PlaceInvAgrees DEF WholeInv
  <1> QED
    BY Invariance, <1>1, PTL

(* hashtags.post_count is the number of undeleted posts with the hashtag,  *)
(* whatever creations, deletions and rollbacks interleave.                 *)
THEOREM TagsAreCounted == PublishingSpec => []TagCountsExact
  <1>1. WholeInv => TagCountsExact
    BY DEF WholeInv, IInv
  <1> QED
    BY Invariance, <1>1, PTL

(* The optimistic lock, for whatever versions clients send: updates of a   *)
(* post take effect one on each version, and a conflict is told to who     *)
(* held an old one or edits a post that is gone, or else to who sent a     *)
(* version that the post had not reached.                                  *)
THEOREM SerialEdits == PublishingSpec => []EditsAreSerial
  <1>1. WholeInv => EditsAreSerial
    BY ChainsAreSerial DEF WholeInv
  <1> QED
    BY Invariance, <1>1, PTL

(* An answer shows all images and hashtags of its post, although they are  *)
(* read by three queries without a transaction.                            *)
THEOREM WholeAnswers == PublishingSpec => []ReadersSeeWholePosts
  <1>1. WholeInv => ReadersSeeWholePosts
    BY AnswersAreWhole DEF WholeInv
  <1> QED
    BY Invariance, <1>1, PTL

-----------------------------------------------------------------------------
(* Posts implement the catalogue.                                          *)

(* What readers are shown of a post that is there.                         *)
LEMMA ShownParts ==
    ASSUME NEW p \in Requests
    PROVE  /\ Gone(p) => Shown[p] = None
           /\ ~Gone(p) => /\ Shown[p].author = post[p].author /\ Shown[p].tags = post[p].tags
                          /\ Shown[p].version = post[p].version /\ Shown[p].text = post[p].text
  BY DEF Shown, Gone

LEMMA ShownIsEntry ==
    ASSUME TypeOK, NEW p \in Requests, ~Gone(p)
    PROVE  Shown[p] \in Catalogue!Entry /\ Shown[p] # None
  <1>1. post[p] \in Post
    BY DEF TypeOK, Gone
  <1>2. Shown[p] = [author |-> post[p].author, tags |-> post[p].tags,
                    version |-> post[p].version, text |-> post[p].text]
    BY DEF Shown, Gone
  <1>3. Shown[p] \in Catalogue!Entry
    BY <1>1, <1>2 DEF Post, Catalogue!Entry
  <1> QED
    BY <1>3, NoEntryAssumption

LEMMA SameCardinality == \A S : Catalogue!Cardinality(S) = Cardinality(S)
  BY DEF Cardinality, Catalogue!Cardinality

LEMMA CountIsCounted == IInv => count = Catalogue!Counted(Shown)
  <1> SUFFICES ASSUME IInv PROVE count = Catalogue!Counted(Shown)
    OBVIOUS
  <1>1. TypeOK /\ TagCountsExact
    BY DEF IInv
  <1>2. ASSUME NEW t \in Tags
        PROVE  Live(t) = {p \in Requests : Shown[p] # None /\ t \in Shown[p].tags}
    BY <1>1, ShownParts, ShownIsEntry DEF Live
  <1>3. count = [t \in Tags |-> Cardinality(Live(t))]
    BY <1>1 DEF TypeOK, TagCountsExact
  <1>4. Catalogue!Counted(Shown) =
            [t \in Tags |-> Cardinality({p \in Requests : Shown[p] # None /\ t \in Shown[p].tags})]
    BY SameCardinality DEF Catalogue!Counted
  <1>5. \A t \in Tags : Catalogue!Counted(Shown)[t] = Cardinality(Live(t))
    BY <1>2, <1>4
  <1> QED
    BY <1>3, <1>4, <1>5

LEMMA CountIsCountedNext == (IInv => count = Catalogue!Counted(Shown))'
  BY CountIsCounted, PTL

LEMMA EntriesAreEqual ==
    ASSUME NEW e \in Catalogue!Entry, NEW f \in Catalogue!Entry,
           e.author = f.author, e.tags = f.tags, e.version = f.version, e.text = f.text
    PROVE  e = f
  BY DEF Catalogue!Entry

(* What a reader is shown of a row of posts that is not deleted.           *)
EntryOf(row) ==
    [author |-> row.author, tags |-> row.tags, version |-> row.version, text |-> row.text]

LEMMA EntryOfRow ==
    ASSUME NEW row \in Post
    PROVE  EntryOf(row) \in Catalogue!Entry /\ EntryOf(row) # None
  <1>1. EntryOf(row) \in Catalogue!Entry
    BY DEF Post, EntryOf, Catalogue!Entry
  <1> QED
    BY <1>1, NoEntryAssumption

(* One row is written, and the catalogue changes in that place.            *)
LEMMA RowIsWritten ==
    ASSUME NEW p \in Requests, NEW row \in Post,
           post \in [Requests -> Post \cup {None}], post' = [post EXCEPT ![p] = row]
    PROVE  /\ Shown' = [Shown EXCEPT ![p] = IF row.deleted THEN None ELSE EntryOf(row)]
           /\ Withdrawn' = IF row.deleted THEN Withdrawn \cup {p} ELSE Withdrawn \ {p}
  <1>1. /\ post'[p] = row /\ row # None
        /\ \A q \in Requests \ {p} : post'[q] = post[q]
    BY NoneFacts
  <1>2. Shown'[p] = IF row.deleted THEN None ELSE EntryOf(row)
    BY <1>1 DEF Shown, EntryOf
  <1>3. \A q \in Requests \ {p} : Shown'[q] = Shown[q]
    BY <1>1 DEF Shown
  <1>4. /\ Shown = [q \in Requests |-> Shown[q]]
        /\ Shown' = [q \in Requests |-> Shown'[q]]
    BY DEF Shown
  <1>5. Shown' = [Shown EXCEPT ![p] = IF row.deleted THEN None ELSE EntryOf(row)]
    BY <1>2, <1>3, <1>4
  <1>6. Withdrawn' = IF row.deleted THEN Withdrawn \cup {p} ELSE Withdrawn \ {p}
    BY <1>1 DEF Withdrawn
  <1> QED
    BY <1>5, <1>6

(* The commit of a creation publishes its post.                            *)
LEMMA CreationPublishes ==
    ASSUME IInv, NEW r \in Requests, CommitCreate(r)
    PROVE  Catalogue!Publish(r)
  <1> DEFINE new == NewPost(r, req[r].user, ToSet(req[r].tags))
  <1>0. /\ TypeOK /\ Claim(r) /\ LockedImagesAreFree /\ req[r].pc = "write"
    BY DEF IInv, ClaimsHold, CommitCreate
  <1>1. /\ req[r].user \in Users /\ req[r] \in Request /\ post[r] = None
        /\ post \in [Requests -> Post \cup {None}]
        /\ \A m \in Assets :
              imageLock[m] = r => asset[m] = [owner |-> req[r].user, status |-> "USABLE"]
    BY <1>0 DEF Claim, CreateClaim, IdleClaim, TypeOK
  <1>2. ToSet(req[r].tags) \in SUBSET Tags
    BY <1>1 DEF Request, ToSet
  <1>3. /\ new \in Post /\ ~new.deleted /\ new.version = 1 /\ new.text = r
        /\ new.author = req[r].user
    BY <1>1, <1>2 DEF NewPost, Post
  <1>4. /\ post' = [post EXCEPT ![r] = new]
        /\ holder' = [m \in Assets |-> IF imageLock[m] = r THEN r ELSE holder[m]]
    BY DEF CommitCreate
  <1> HIDE DEF new
  <1>5. Shown' = [Shown EXCEPT ![r] = EntryOf(new)] /\ Withdrawn' = Withdrawn \ {r}
    BY <1>1, <1>3, <1>4, RowIsWritten
  <1>6. Shown[r] = None /\ r \notin Withdrawn /\ DOMAIN Shown = Requests
    BY <1>1 DEF Shown, Withdrawn
  <1>7. Shown'[r] = EntryOf(new) /\ Withdrawn' = Withdrawn
    BY <1>5, <1>6
  <1>8. /\ EntryOf(new) \in Catalogue!Entry /\ EntryOf(new).version = 1
        /\ EntryOf(new).text = r /\ EntryOf(new).author = req[r].user
    BY <1>3, EntryOfRow DEF EntryOf
  <1>9. ASSUME NEW m \in Assets, holder'[m] # holder[m]
        PROVE  /\ holder[m] = None /\ holder'[m] = r
               /\ asset[m] = [owner |-> Shown'[r].author, status |-> "USABLE"]
    BY <1>0, <1>1, <1>4, <1>7, <1>8, <1>9, NoneFacts DEF LockedImagesAreFree
  <1> QED
    BY <1>5, <1>6, <1>7, <1>8, <1>9 DEF Catalogue!Publish, Catalogue!Becomes

(* An update that finds its version edits the post.                        *)
LEMMA UpdateEdits ==
    ASSUME IInv, NEW r \in Requests, UpdateContent(r), Matches(r)
    PROVE  Catalogue!Edit(req[r].post)
  <1> DEFINE p == req[r].post
             edited == [post[p] EXCEPT !.version = @ + 1, !.text = r]
             entry == [Shown[p] EXCEPT !.version = @ + 1, !.text = r]
  <1>0. /\ TypeOK /\ Claim(r) /\ req[r].pc = "edit"
    BY DEF IInv, ClaimsHold, UpdateContent
  <1>1. /\ p \in Requests /\ post \in [Requests -> Post \cup {None}] /\ post[p] \in Post
        /\ ~Gone(p) /\ ~post[p].deleted
    BY <1>0 DEF Claim, EditClaim, Exists, TypeOK, Matches, Gone
  <1>2. post' = [post EXCEPT ![p] = edited] /\ holder' = holder
    BY DEF UpdateContent
  <1>3. /\ edited \in Post /\ (edited.deleted <=> post[p].deleted)
        /\ edited.author = post[p].author /\ edited.tags = post[p].tags
        /\ edited.version = post[p].version + 1 /\ edited.text = r
    <2>1. post[p].version + 1 \in Nat \ {0}
      BY <1>1 DEF Post
    <2> QED
      BY <1>1, <2>1 DEF Post
  <1> HIDE DEF edited
  <1>4. Shown' = [Shown EXCEPT ![p] = EntryOf(edited)] /\ Withdrawn' = Withdrawn \ {p}
    BY <1>1, <1>2, <1>3, RowIsWritten
  <1>5. Shown[p] = EntryOf(post[p]) /\ Shown[p] # None /\ p \notin Withdrawn
    <2>1. Shown[p] = EntryOf(post[p]) /\ p \notin Withdrawn
      BY <1>1, NoneFacts DEF Shown, EntryOf, Withdrawn
    <2> QED
      BY <1>1, <2>1, EntryOfRow
  <1>6. Shown[p] \in Catalogue!Entry /\ EntryOf(edited) \in Catalogue!Entry
    BY <1>1, <1>3, <1>5, EntryOfRow
  <1>7. /\ entry \in Catalogue!Entry /\ entry.author = post[p].author
        /\ entry.tags = post[p].tags /\ entry.version = post[p].version + 1 /\ entry.text = r
    <2>1. /\ Shown[p].author = post[p].author /\ Shown[p].tags = post[p].tags
          /\ Shown[p].version = post[p].version
      BY <1>5 DEF EntryOf
    <2>2. Shown[p].version + 1 \in Nat \ {0}
      BY <1>6 DEF Catalogue!Entry
    <2> HIDE DEF p
    <2> QED
      BY <1>6, <2>1, <2>2 DEF Catalogue!Entry
  <1> HIDE DEF p, entry
  <1>8. entry = EntryOf(edited)
    <2>1. /\ EntryOf(edited).author = edited.author /\ EntryOf(edited).tags = edited.tags
          /\ EntryOf(edited).version = edited.version /\ EntryOf(edited).text = edited.text
      BY DEF EntryOf
    <2> HIDE DEF EntryOf
    <2> QED
      BY <1>3, <1>6, <1>7, <2>1, EntriesAreEqual
  <1>9. Shown' = [Shown EXCEPT ![p] = [Shown[p] EXCEPT !.version = @ + 1, !.text = r]]
    BY <1>4, <1>8 DEF entry
  <1> QED
    BY <1>2, <1>4, <1>5, <1>9 DEF Catalogue!Edit, Catalogue!Becomes, p

(* The commit of a deletion withdraws the post.                            *)
LEMMA DeletionWithdraws ==
    ASSUME IInv, NEW r \in Requests, CommitDelete(r)
    PROVE  Catalogue!Withdraw(req[r].post)
  <1> DEFINE p == req[r].post
             row == [post[p] EXCEPT !.deleted = TRUE]
  <1>0. /\ TypeOK /\ Claim(r) /\ req[r].pc = "untag"
    BY DEF IInv, ClaimsHold, CommitDelete
  <1>1. /\ p \in Requests /\ post \in [Requests -> Post \cup {None}] /\ post[p] \in Post
        /\ ~Gone(p)
    BY <1>0 DEF Claim, DeleteClaim, Exists, TypeOK, Gone
  <1>2. post' = [post EXCEPT ![p] = row] /\ holder' = holder
    BY DEF CommitDelete
  <1>3. row \in Post /\ row.deleted
    BY <1>1 DEF Post
  <1> HIDE DEF row
  <1>4. Shown' = [Shown EXCEPT ![p] = None] /\ Withdrawn' = Withdrawn \cup {p}
    BY <1>1, <1>2, <1>3, RowIsWritten
  <1>5. TypeOK /\ Shown[p] # None
    BY <1>0, <1>1, ShownIsEntry
  <1> QED
    BY <1>2, <1>4, <1>5 DEF Catalogue!Withdraw, Catalogue!Becomes

(* Nothing else is seen by readers.                                        *)
LEMMA ShelvesStay ==
    ASSUME UNCHANGED tables
    PROVE  UNCHANGED Catalogue!shelves
  BY DEF tables, Catalogue!shelves, Shown, Withdrawn

LEMMA StepsOfTheCatalogue ==
    ASSUME IInv, count' = Catalogue!Counted(Shown)', [Next]_vars
    PROVE  [Catalogue!CatalogueNext]_(Catalogue!shelves)
  <1>1. CASE UNCHANGED vars
    BY <1>1, ShelvesStay DEF vars
  <1>2. CASE MediaGrows
    BY <1>2, ShelvesStay DEF MediaGrows
  <1>3. ASSUME NEW r \in Requests, Serve(r)
        PROVE  [Catalogue!CatalogueNext]_(Catalogue!shelves)
    <2>1. CASE CommitCreate(r)
      BY <2>1, CreationPublishes DEF Catalogue!CatalogueNext
    <2>2. CASE CommitDelete(r)
      <3>1. req[r].post \in Requests
        BY <2>2 DEF IInv, ClaimsHold, CommitDelete, Claim, DeleteClaim, Exists
      <3> QED
        BY <2>2, <3>1, DeletionWithdraws DEF Catalogue!CatalogueNext
    <2>3. CASE UpdateContent(r) /\ Matches(r)
      <3>1. req[r].post \in Requests
        BY <2>3 DEF IInv, ClaimsHold, UpdateContent, Claim, EditClaim, Exists
      <3> QED
        BY <2>3, <3>1, UpdateEdits DEF Catalogue!CatalogueNext
    <2> QED
      BY <1>3, <2>1, <2>2, <2>3, OthersLeaveTheTables, ShelvesStay
  <1> QED
    BY <1>1, <1>2, <1>3 DEF Next

LEMMA NobodyTakesAnImageBack ==
    ASSUME [Next]_vars
    PROVE  [Catalogue!AssetsGrow]_asset
  BY PostsLeaveAssets DEF Next, vars, MediaGrows

(* Posts is an implementation of the catalogue whose every operation is    *)
(* one step: publication, edit and withdrawal are the commits of the three *)
(* transactions, and the counters are exact at each.                       *)
THEOREM Refinement == Spec => ImplementsCatalogue
  <1>1. Init => IInv
    BY InitIInv
  <1>2. IInv /\ [Next]_vars => IInv'
    BY NextKeepsIInv
  <1>3. Init => Catalogue!CatalogueInit
    <2>1. Init => Withdrawn = {}
      BY NoneFacts DEF Init, Withdrawn, NewPost
    <2> QED
      BY <2>1, InitIInv, CountIsCounted DEF Catalogue!CatalogueInit
  <1>4. IInv /\ IInv' /\ [Next]_vars => [Catalogue!CatalogueNext]_(Catalogue!shelves)
    BY CountIsCountedNext, StepsOfTheCatalogue
  <1>5. [Next]_vars => [Catalogue!AssetsGrow]_asset
    BY NobodyTakesAnImageBack
  <1> QED
    BY <1>1, <1>2, <1>3, <1>4, <1>5, PTL
       DEF Spec, ImplementsCatalogue, Catalogue!CatalogueSpec

(* The same, with the media component and places beside posts.             *)
THEOREM WholeRefinement == PublishingSpec => ImplementsCatalogue
  BY PostsInTheWhole, Refinement

===============================================================================
