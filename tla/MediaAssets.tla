------------------------------ MODULE MediaAssets ------------------------------
(***************************************************************************)
(* Images: the server signs an upload and keeps a PENDING row, the client  *)
(* sends the file to Cloudinary itself, and a confirmation asks Cloudinary *)
(* before the row becomes USABLE.  Every statement is autocommitted; the   *)
(* call to Cloudinary lies between two of them.                            *)
(***************************************************************************)
EXTENDS Integers

CONSTANTS Users, Requests, Assets, None

VARIABLES
    asset,          \* asset[m]: the row of media_assets, or None
    cloud,          \* images whose file is at Cloudinary
    check           \* check[r]: a request to sign or to confirm

mediaVars == <<asset, cloud, check>>

(* REJECTED is in the table's CHECK, but no code writes it.                *)
Asset == [owner : Users, status : {"PENDING", "USABLE"}]

(* vouched: Cloudinary has answered that it has the file.                  *)
Check == [pc : {"idle", "fetch", "mark", "reread", "done"}, user : Users \cup {None},
          asset : Assets \cup {None}, vouched : BOOLEAN,
          answer : {"200", "201", "400", "403", "404", "500", None}]

Unasked == [pc |-> "idle", user |-> None, asset |-> None, vouched |-> FALSE, answer |-> None]

Init ==
    /\ asset \in [Assets -> Asset \cup {None}]
    /\ cloud \in SUBSET {m \in Assets : asset[m] # None}
    /\ \A m \in Assets : asset[m] # None /\ asset[m].status = "USABLE" => m \in cloud
    /\ check = [r \in Requests |-> Unasked]

Told(c, answer) == [c EXCEPT !.pc = "done", !.user = None, !.answer = answer]

Tell(r, answer) ==
    /\ check' = [check EXCEPT ![r] = Told(@, answer)]
    /\ UNCHANGED <<asset, cloud>>

(* The row of a signed upload; its id and its storage key are new.         *)
Sign(r, u, m) ==
    /\ check[r].pc = "idle" /\ asset[m] = None
    /\ asset' = [asset EXCEPT ![m] = [owner |-> u, status |-> "PENDING"]]
    /\ check' = [check EXCEPT ![r] = Told([@ EXCEPT !.asset = m], "201")]
    /\ UNCHANGED cloud

(* The client puts the file where its signature lets it.                   *)
Upload(m) ==
    /\ asset[m] # None
    /\ cloud' = cloud \cup {m}
    /\ UNCHANGED <<asset, check>>

(* The row is read and the client trusted.                                 *)
Confirm_TrustsClient(r, u, m) ==
    /\ check[r].pc = "idle"
    /\ check' = [check EXCEPT ![r] =
          LET asked == [@ EXCEPT !.user = u, !.asset = m]
          IN  IF asset[m] = None THEN Told(asked, "404")
              ELSE IF asset[m].owner # u THEN Told(asked, "403")
              ELSE IF asset[m].status = "USABLE" THEN Told(asked, "200")
              ELSE [asked EXCEPT !.pc = "mark"]]
    /\ UNCHANGED <<asset, cloud>>

Confirm(r, u, m) ==
    /\ check[r].pc = "idle"
    /\ check' = [check EXCEPT ![r] =
          LET asked == [@ EXCEPT !.user = u, !.asset = m]
          IN  IF asset[m] = None THEN Told(asked, "404")
              ELSE IF asset[m].owner # u THEN Told(asked, "403")
              ELSE IF asset[m].status = "USABLE" THEN Told(asked, "200")
              ELSE [asked EXCEPT !.pc = "fetch"]]
    /\ UNCHANGED <<asset, cloud>>

(* Cloudinary knows the file, or the client is told to upload it first.    *)
FetchResource(r) ==
    /\ check[r].pc = "fetch"
    /\ IF check[r].asset \in cloud
       THEN /\ check' = [check EXCEPT ![r].pc = "mark", ![r].vouched = TRUE]
            /\ UNCHANGED <<asset, cloud>>
       ELSE Tell(r, "400")

(* UPDATE ... WHERE status = 'PENDING': of two confirmations the slower    *)
(* changes no row, which is told as 404.                                   *)
MarkUsable(r) ==
    LET m == check[r].asset
    IN  /\ check[r].pc = "mark"
        /\ IF asset[m] = [owner |-> check[r].user, status |-> "PENDING"]
           THEN /\ asset' = [asset EXCEPT ![m].status = "USABLE"]
                /\ check' = [check EXCEPT ![r].pc = "reread"]
                /\ UNCHANGED cloud
           ELSE Tell(r, "404")

Reread(r) == check[r].pc = "reread" /\ Tell(r, "200")

(* Cloudinary does not answer within ten seconds or answers with an error, *)
(* a statement fails, or the client is gone.                               *)
FailCheck(r) == check[r].pc \notin {"idle", "done"} /\ Tell(r, "500")

CheckStep(r) == FetchResource(r) \/ MarkUsable(r) \/ Reread(r)

Serve(r) ==
    \/ \E u \in Users, m \in Assets : Sign(r, u, m) \/ Confirm(r, u, m)
    \/ CheckStep(r)
    \/ FailCheck(r)

Next == (\E m \in Assets : Upload(m)) \/ \E r \in Requests : Serve(r)

-----------------------------------------------------------------------------

MediaTypeOK ==
    /\ asset \in [Assets -> Asset \cup {None}]
    /\ cloud \subseteq Assets
    /\ check \in [Requests -> Check]

(* Only what Cloudinary has can be used in a post.  A confirmation that is *)
(* told 200, and one told 404 although Cloudinary vouched for the file     *)
(* (it lost a race against another), both leave the image usable, so       *)
(* asking again is answered 200.                                           *)
ConfirmationHolds ==
    /\ \A m \in Assets : asset[m] # None /\ asset[m].status = "USABLE" => m \in cloud
    /\ \A r \in Requests :
          (check[r].answer = "200" \/ (check[r].answer = "404" /\ check[r].vouched)) =>
              asset[check[r].asset].status = "USABLE"

=============================================================================
