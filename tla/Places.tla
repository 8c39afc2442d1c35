-------------------------------- MODULE Places --------------------------------
(***************************************************************************)
(* POST /places.  A place with a Google id is looked up first and inserted *)
(* if it is not there, by two statements without a transaction; the index  *)
(* ux_places_google stands behind them.  A place is named by the request   *)
(* that inserts it.                                                        *)
(***************************************************************************)
EXTENDS Integers

CONSTANTS Requests, GoogleIds, None

VARIABLES
    place,          \* place[l]: the google_place_id in the row of l, None if no row
    visit           \* visit[r]: a request to create a place

placeVars == <<place, visit>>

(* blanks: the id is sent with spaces around it.  known: the place of that *)
(* id when the request came.  found: the place in the answer.              *)
Visit == [pc : {"idle", "insert", "done"}, id : GoogleIds \cup {None}, blanks : BOOLEAN,
          known : Requests \cup {None}, found : Requests \cup {None},
          answer : {"201", "400", "500", "duplicate", None}]

Unvisited == [pc |-> "idle", id |-> None, blanks |-> FALSE, known |-> None, found |-> None,
              answer |-> None]

Init ==
    /\ place = [l \in Requests |-> None]
    /\ visit = [r \in Requests |-> Unvisited]

Rows(g) == {l \in Requests : place[l] = g}

RowOf(g) == IF g = None \/ Rows(g) = {} THEN None ELSE CHOOSE l \in Rows(g) : TRUE

(* The lookup takes the id as it was sent, the row has it trimmed.         *)
FindByGoogleID(g, blanks) == IF blanks THEN None ELSE RowOf(g)

Create(r, g, blanks) ==
    LET found == FindByGoogleID(g, blanks)
        asked == [Unvisited EXCEPT !.id = g, !.blanks = blanks, !.known = RowOf(g)]
    IN  /\ visit[r].pc = "idle"
        /\ visit' = [visit EXCEPT ![r] =
              IF found # None
              THEN [asked EXCEPT !.pc = "done", !.answer = "201", !.found = found]
              ELSE [asked EXCEPT !.pc = "insert"]]
        /\ UNCHANGED place

(* A blank name, coordinates off the globe, or an unknown province.        *)
RefuseVisit(r) ==
    /\ visit[r].pc = "idle"
    /\ visit' = [visit EXCEPT ![r].pc = "done", ![r].answer = "400"]
    /\ UNCHANGED place

(* Without the unique index.                                               *)
Insert_NoIndex(r) ==
    /\ visit[r].pc = "insert"
    /\ place' = [place EXCEPT ![r] = visit[r].id]
    /\ visit' = [visit EXCEPT ![r].pc = "done", ![r].answer = "201", ![r].found = r]

(* The index refuses a second row, which is told as 500.                   *)
Insert(r) ==
    /\ visit[r].pc = "insert"
    /\ IF RowOf(visit[r].id) # None
       THEN /\ visit' = [visit EXCEPT ![r].pc = "done", ![r].answer = "duplicate"]
            /\ UNCHANGED place
       ELSE /\ place' = [place EXCEPT ![r] = visit[r].id]
            /\ visit' = [visit EXCEPT ![r].pc = "done", ![r].answer = "201", ![r].found = r]

FailVisit(r) ==
    /\ visit[r].pc = "insert"
    /\ visit' = [visit EXCEPT ![r].pc = "done", ![r].answer = "500"]
    /\ UNCHANGED place

Serve(r) ==
    \/ \E g \in GoogleIds, blanks \in BOOLEAN : Create(r, g, blanks)
    \/ Create(r, None, FALSE)
    \/ RefuseVisit(r) \/ Insert(r) \/ FailVisit(r)

Next == \E r \in Requests : Serve(r)

-----------------------------------------------------------------------------

PlaceTypeOK ==
    /\ place \in [Requests -> GoogleIds \cup {None}]
    /\ visit \in [Requests -> Visit]

(* All who are given a place for a Google id are given the same one, and   *)
(* one that was there already is given to who sends its id as it is stored.*)
(* The refusal of a duplicate means that the place appeared since the      *)
(* lookup, or that the id was sent with blanks.                            *)
PlaceAnswersAgree ==
    \A r \in Requests :
        /\ \A s \in Requests :
              visit[r].answer = "201" /\ visit[s].answer = "201" /\ visit[r].id = visit[s].id
                  /\ visit[r].id # None => visit[r].found = visit[s].found
        /\ visit[r].answer = "201" /\ visit[r].known # None => visit[r].found = visit[r].known
        /\ visit[r].answer = "duplicate" => visit[r].known = None \/ visit[r].blanks

=============================================================================
