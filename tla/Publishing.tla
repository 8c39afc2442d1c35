------------------------------ MODULE Publishing ------------------------------
(***************************************************************************)
(* The way to a post: places are created, images signed, uploaded and      *)
(* confirmed, posts published with them, edited, read and deleted.  The    *)
(* components meet in the table media_assets; a request is served by one   *)
(* of them.                                                                *)
(***************************************************************************)
EXTENDS Posts

CONSTANT GoogleIds

ASSUME NoIdAssumption == None \notin GoogleIds \cup {"duplicate"}

VARIABLES cloud, check, place, visit

Media == INSTANCE MediaAssets

Geo == INSTANCE Places

privateToMedia == <<cloud, check>>
privateToPosts == <<tables, locks, req>>
publishingVars == <<vars, privateToMedia, place, visit>>

PublishingInit == Init /\ Media!Init /\ Geo!Init

(* Requests that a component may take or has taken.                        *)
ForPosts(r) == check[r].pc = "idle" /\ visit[r].pc = "idle"
ForMedia(r) == req[r].pc = "idle" /\ visit[r].pc = "idle"
ForPlaces(r) == req[r].pc = "idle" /\ check[r].pc = "idle"

PostsMove(r) == ForPosts(r) /\ Serve(r) /\ UNCHANGED <<privateToMedia, place, visit>>
MediaMove(r) == ForMedia(r) /\ Media!Serve(r) /\ UNCHANGED <<privateToPosts, place, visit>>
PlacesMove(r) == ForPlaces(r) /\ Geo!Serve(r) /\ UNCHANGED <<vars, privateToMedia>>
FileArrives(m) == Media!Upload(m) /\ UNCHANGED <<privateToPosts, place, visit>>

PublishingNext ==
    \/ \E r \in Requests : PostsMove(r) \/ MediaMove(r) \/ PlacesMove(r)
    \/ \E m \in Assets : FileArrives(m)

PublishingSpec == PublishingInit /\ [][PublishingNext]_publishingVars

(* Handlers run to their answer: statements are executed, free locks are   *)
(* granted, the deadlock detector runs, and the call to Cloudinary ends at *)
(* the latest after the HTTP client's ten seconds.                         *)
Progress(r) ==
    \/ Step(r) /\ UNCHANGED <<privateToMedia, place, visit>>
    \/ (Media!CheckStep(r) \/ Media!FailCheck(r)) /\ UNCHANGED <<privateToPosts, place, visit>>
    \/ (Geo!Insert(r) \/ Geo!FailVisit(r)) /\ UNCHANGED <<vars, privateToMedia>>

FairPublishing == PublishingSpec /\ \A r \in Requests : WF_publishingVars(Progress(r))

-----------------------------------------------------------------------------

(* Every variable has its type.                                            *)
PublishingTypeOK == TypeOK /\ Media!MediaTypeOK /\ Geo!PlaceTypeOK

(* See MediaAssets: a confirmation is believed by Cloudinary's word only,  *)
(* and one that is refused after that has lost to another that succeeded.  *)
ConfirmationHolds == Media!ConfirmationHolds

(* See Places: all answers for one Google id name the same place.          *)
PlaceAnswersAgree == Geo!PlaceAnswersAgree

(* Every request is answered, although creations and deletions lock the    *)
(* same hashtags in any order and Cloudinary may be silent.                *)
InService(r) == {req[r].pc, check[r].pc, visit[r].pc} \ {"idle", "done"} # {}

EveryPublishingRequestAnswered == \A r \in Requests \ Early : InService(r) ~> ~InService(r)

=============================================================================
