------------------------------- MODULE Sessions -------------------------------
(***************************************************************************)
(* Accounts, login sessions and password resets.  Registration, reset and  *)
(* deletion of an account are READ COMMITTED transactions; login, logout   *)
(* and the minting of a reset token are separate statements on the pool.   *)
(* Rows are named by the request that inserts them: accounts[r] is the row *)
(* of users that r registered, sessions[r] the one that r opened,          *)
(* tokens[r] the reset token that r minted.  Uncommitted writes stay in    *)
(* the request record.                                                     *)
(***************************************************************************)
EXTENDS Naturals, FiniteSets

CONSTANTS
    Names,          \* a username together with its e-mail address
    Requests,       \* each request is served once
    Early,          \* the requests served before a behaviour begins
    None

ASSUME EarlyAssumption == Early \subseteq Requests

VARIABLES accounts, sessions, tokens, lock, req

tables == <<accounts, sessions, tokens>>
vars == <<tables, lock, req>>

(* The password of an account is named by the request that set it.         *)
Account == [name : Names, password : Requests, deleted : BOOLEAN]
Session == [account : Requests, revoked : BOOLEAN]
Token == [account : Requests, used : BOOLEAN]

(* The rows that statements lock until the end of their transaction.       *)
Rows == {"users", "sessions", "tokens"} \X Requests

Kinds == {"REGISTER", "LOGIN", "LOGOUT", "REQUEST_RESET", "RESET", "DELETE"}

ASSUME NoneAssumption ==
    None \notin Names \cup Requests \cup Kinds \cup Account \cup Session \cup Token

PCs == {"idle", "open", "mint", "logout", "password", "delete", "see", "revoke", "commit", "done"}

(* Between the first statement of a transaction that found what it needs   *)
(* and the end of the transaction.                                         *)
InTx == {"password", "delete", "see", "revoke", "commit"}

Request == [pc : PCs, kind : Kinds \cup {None}, ok : BOOLEAN, name : Names \cup {None},
            account : Requests \cup {None}, via : Requests \cup {None},
            checked : Requests \cup {None}, seen : SUBSET Requests, had : SUBSET Requests]

(* via is the token or session presented.  Two histories, read by no       *)
(* action: checked is the password with which r opens a session, had the   *)
(* account's sessions when the transaction began.                          *)
Idle == [pc |-> "idle", kind |-> None, ok |-> FALSE, name |-> None, account |-> None,
         via |-> None, checked |-> None, seen |-> {}, had |-> {}]

Live(a) == accounts[a] # None /\ ~accounts[a].deleted

Named(n) == {a \in Requests : Live(a) /\ accounts[a].name = n}

SessionsOf(a) == {s \in Requests : sessions[s] # None /\ sessions[s].account = a}

Usable(s) == sessions[s] # None /\ ~sessions[s].revoked

(* Nobody has registered yet, or one of the early requests has and the     *)
(* others have logged in or asked for a reset.                             *)
Init ==
    \E founder \in Early \cup {None}, n \in Names, login \in SUBSET Early :
        LET later == IF founder = None THEN {} ELSE Early \ {founder}
        IN  /\ accounts = [r \in Requests |->
                 IF r = founder THEN [name |-> n, password |-> r, deleted |-> FALSE] ELSE None]
            /\ sessions = [r \in Requests |->
                 IF r = founder \/ r \in later \cap login
                 THEN [account |-> founder, revoked |-> FALSE] ELSE None]
            /\ tokens = [r \in Requests |->
                 IF r \in later \ login THEN [account |-> founder, used |-> FALSE] ELSE None]
            /\ lock = [row \in Rows |-> None]
            /\ req = [r \in Requests |->
                 IF r \in Early THEN [Idle EXCEPT !.pc = "done", !.checked = founder] ELSE Idle]

-----------------------------------------------------------------------------
(* Locks and answers.                                                      *)

Free(row, r) == lock[row] \in {None, r}

(* The locks of the users' rows stay.                                      *)
ReleaseLocks_NotUsers(r) ==
    lock' = [row \in Rows |-> IF lock[row] = r /\ row[1] # "users" THEN None ELSE lock[row]]

ReleaseLocks(r) == lock' = [row \in Rows |-> IF lock[row] = r THEN None ELSE lock[row]]

(* The record of an answered request keeps what the properties ask about.  *)
Answer(r, record, ok) ==
    req' = [req EXCEPT ![r] = [record EXCEPT !.pc = "done", !.ok = ok, !.seen = {}]]

(* Refused before anything is locked or written.                           *)
Refuse(r, kind) ==
    /\ req[r].pc = "idle"
    /\ Answer(r, [Idle EXCEPT !.kind = kind], FALSE)
    /\ UNCHANGED <<tables, lock>>

-----------------------------------------------------------------------------
(* Registration: INSERT INTO users ... ON CONFLICT DO NOTHING.  The insert *)
(* of the session, in the same transaction, waits for nobody.              *)

Inserting(n) == {r \in Requests : req[r].kind = "REGISTER" /\ req[r].pc = "commit" /\ req[r].name = n}

(* The unique indexes make the insert wait for whoever is inserting the    *)
(* name or changing the row that has it.                                   *)
NameIsSettled_Committed(n) == \A a \in Named(n) : lock[<<"users", a>>] = None

NameIsSettled(n) == Inserting(n) = {} /\ \A a \in Named(n) : lock[<<"users", a>>] = None

Register(r, n) ==
    /\ req[r].pc = "idle"
    /\ NameIsSettled(n)
    /\ Named(n) = {}
    /\ req' = [req EXCEPT ![r] = [Idle EXCEPT !.pc = "commit", !.kind = "REGISTER", !.name = n,
                                              !.account = r, !.checked = r]]
    /\ UNCHANGED <<tables, lock>>

RegisterConflict(r, n) == NameIsSettled(n) /\ Named(n) # {} /\ Refuse(r, "REGISTER")

-----------------------------------------------------------------------------
(* Login reads the hash, compares it with bcrypt, and only then inserts.   *)
(* A password that does not match is Refuse.                               *)

LookUp(r, n) ==
    \E a \in Named(n) :
        /\ req[r].pc = "idle"
        /\ req' = [req EXCEPT ![r] = [Idle EXCEPT !.pc = "open", !.kind = "LOGIN", !.account = a,
                                              !.checked = accounts[a].password]]
        /\ UNCHANGED <<tables, lock>>

Open(r) ==
    /\ req[r].pc = "open"
    /\ sessions' = [sessions EXCEPT ![r] = [account |-> req[r].account, revoked |-> FALSE]]
    /\ Answer(r, req[r], TRUE)
    /\ UNCHANGED <<accounts, tokens, lock>>

(* An unknown address gets a token as well.                                *)
FindAccount_MintsForNobody(r, n) ==
    /\ req[r].pc = "idle"
    /\ \E a \in Named(n) \cup (IF Named(n) = {} THEN {None} ELSE {}) :
            req' = [req EXCEPT ![r] = [Idle EXCEPT !.pc = "mint", !.kind = "REQUEST_RESET",
                                                   !.account = a]]
    /\ UNCHANGED <<tables, lock>>

(* The request for a reset answers alike whether the address is known.     *)
FindAccount(r, n) ==
    /\ req[r].pc = "idle"
    /\ \/ \E a \in Named(n) :
            req' = [req EXCEPT ![r] = [Idle EXCEPT !.pc = "mint", !.kind = "REQUEST_RESET",
                                                   !.account = a]]
       \/ Named(n) = {} /\ Answer(r, [Idle EXCEPT !.kind = "REQUEST_RESET"], TRUE)
    /\ UNCHANGED <<tables, lock>>

Mint(r) ==
    /\ req[r].pc = "mint"
    /\ tokens' = [tokens EXCEPT ![r] = [account |-> req[r].account, used |-> FALSE]]
    /\ Answer(r, req[r], TRUE)
    /\ UNCHANGED <<accounts, sessions, lock>>

-----------------------------------------------------------------------------
(* The middleware resolves the session before the handler runs; an expired *)
(* one is Refuse.                                                          *)
Authenticate(r, kind, s) ==
    /\ req[r].pc = "idle"
    /\ kind \in {"LOGOUT", "DELETE"}
    /\ Usable(s) /\ Live(sessions[s].account)
    /\ req' = [req EXCEPT ![r] = [Idle EXCEPT !.kind = kind, !.via = s,
                                              !.account = sessions[s].account,
                                              !.pc = IF kind = "LOGOUT" THEN "logout" ELSE "delete"]]
    /\ UNCHANGED <<tables, lock>>

(* One UPDATE, waiting for a transaction that is revoking the same row.    *)
LogOut(r) ==
    /\ req[r].pc = "logout"
    /\ Free(<<"sessions", req[r].via>>, r)
    /\ sessions' = [sessions EXCEPT ![req[r].via].revoked = TRUE]
    /\ Answer(r, req[r], TRUE)
    /\ UNCHANGED <<accounts, tokens, lock>>

-----------------------------------------------------------------------------
(* Reset and deletion.                                                     *)

(* SELECT without FOR UPDATE.                                              *)
Claim_Unlocked(r, t) ==
    /\ req[r].pc = "idle"
    /\ tokens[t] # None /\ ~tokens[t].used
    /\ req' = [req EXCEPT ![r] = [Idle EXCEPT !.pc = "password", !.kind = "RESET", !.via = t,
                                              !.account = tokens[t].account,
                                              !.had = SessionsOf(tokens[t].account)]]
    /\ UNCHANGED <<tables, lock>>

(* SELECT ... FOR UPDATE of an unused token.  A used or expired one is     *)
(* Refuse.                                                                 *)
Claim(r, t) ==
    /\ req[r].pc = "idle"
    /\ tokens[t] # None /\ ~tokens[t].used
    /\ Free(<<"tokens", t>>, r)
    /\ lock' = [lock EXCEPT ![<<"tokens", t>>] = r]
    /\ req' = [req EXCEPT ![r] = [Idle EXCEPT !.pc = "password", !.kind = "RESET", !.via = t,
                                              !.account = tokens[t].account,
                                              !.had = SessionsOf(tokens[t].account)]]
    /\ UNCHANGED tables

(* UPDATE users ... WHERE deleted_at IS NULL.  That it changes no row of a *)
(* deleted account goes unnoticed.  The UPDATE of the token follows, under *)
(* the lock that Claim took.                                               *)
SetPassword(r) ==
    LET a == req[r].account
    IN  /\ req[r].pc = "password"
        /\ IF Live(a)
           THEN /\ Free(<<"users", a>>, r)
                /\ lock' = [lock EXCEPT ![<<"users", a>>] = r]
           ELSE UNCHANGED lock
        /\ req' = [req EXCEPT ![r].pc = "see"]
        /\ UNCHANGED tables

(* The handler stops after the UPDATE of the account.                      *)
DeleteUser_Only(r) ==
    LET a == req[r].account
    IN  /\ req[r].pc = "delete"
        /\ Live(a) /\ Free(<<"users", a>>, r)
        /\ lock' = [lock EXCEPT ![<<"users", a>>] = r]
        /\ req' = [req EXCEPT ![r].pc = "commit", ![r].had = SessionsOf(a)]
        /\ UNCHANGED tables

DeleteUser(r) ==
    LET a == req[r].account
    IN  /\ req[r].pc = "delete"
        /\ Live(a) /\ Free(<<"users", a>>, r)
        /\ lock' = [lock EXCEPT ![<<"users", a>>] = r]
        /\ req' = [req EXCEPT ![r].pc = "see", ![r].had = SessionsOf(a)]
        /\ UNCHANGED tables

(* Another request has deleted the account: zero rows, 404.                *)
DeleteTwice(r) ==
    /\ req[r].pc = "delete"
    /\ ~Live(req[r].account)
    /\ Answer(r, req[r], FALSE)
    /\ UNCHANGED <<tables, lock>>

(* UPDATE sessions: the statement sees the sessions committed when it      *)
(* starts, and waits for the writers of those.                             *)
SeeSessions(r) ==
    /\ req[r].pc = "see"
    /\ req' = [req EXCEPT ![r].pc = "revoke",
                          ![r].seen = {s \in SessionsOf(req[r].account) : Usable(s)}]
    /\ UNCHANGED <<tables, lock>>

LockSeen(r) ==
    /\ req[r].pc = "revoke"
    /\ \A s \in req[r].seen : Free(<<"sessions", s>>, r)
    /\ lock' = [row \in Rows |->
                  IF row[1] = "sessions" /\ row[2] \in req[r].seen THEN r ELSE lock[row]]
    /\ req' = [req EXCEPT ![r].pc = "commit"]
    /\ UNCHANGED tables

-----------------------------------------------------------------------------
(* What the transaction wrote becomes visible.                             *)

CommitRegister(r) ==
    /\ req[r].pc = "commit" /\ req[r].kind = "REGISTER"
    /\ accounts' = [accounts EXCEPT ![r] = [name |-> req[r].name, password |-> r, deleted |-> FALSE]]
    /\ sessions' = [sessions EXCEPT ![r] = [account |-> r, revoked |-> FALSE]]
    /\ Answer(r, req[r], TRUE)
    /\ UNCHANGED <<tokens, lock>>

CommitRevocation(r) ==
    /\ req[r].pc = "commit"
    /\ sessions' = [s \in Requests |->
                      IF s \in req[r].seen THEN [sessions[s] EXCEPT !.revoked = TRUE] ELSE sessions[s]]
    /\ ReleaseLocks(r)
    /\ Answer(r, req[r], TRUE)

CommitReset(r) ==
    LET a == req[r].account
    IN  /\ req[r].kind = "RESET"
        /\ CommitRevocation(r)
        /\ accounts' = IF lock[<<"users", a>>] = r
                       THEN [accounts EXCEPT ![a].password = r] ELSE accounts
        /\ tokens' = [tokens EXCEPT ![req[r].via].used = TRUE]

CommitDelete(r) ==
    /\ req[r].kind = "DELETE"
    /\ CommitRevocation(r)
    /\ accounts' = [accounts EXCEPT ![req[r].account].deleted = TRUE]
    /\ UNCHANGED tokens

(* An SQL error or a cancelled request.                                    *)
Fail(r) ==
    /\ req[r].pc \notin {"idle", "done"}
    /\ ReleaseLocks(r)
    /\ Answer(r, req[r], FALSE)
    /\ UNCHANGED tables

-----------------------------------------------------------------------------
Arrive(r) ==
    \/ \E kind \in Kinds \ {"REQUEST_RESET"} : Refuse(r, kind)
    \/ \E n \in Names : Register(r, n) \/ RegisterConflict(r, n) \/ LookUp(r, n) \/ FindAccount(r, n)
    \/ \E s \in Requests, kind \in Kinds : Authenticate(r, kind, s)
    \/ \E t \in Requests : Claim(r, t)

Step(r) ==
    \/ Open(r) \/ Mint(r) \/ LogOut(r)
    \/ SetPassword(r) \/ DeleteUser(r) \/ DeleteTwice(r) \/ SeeSessions(r) \/ LockSeen(r)
    \/ CommitRegister(r) \/ CommitReset(r) \/ CommitDelete(r)

Next == \E r \in Requests : Arrive(r) \/ Step(r) \/ Fail(r)

Spec == Init /\ [][Next]_vars

(* Handlers run to their answer, and PostgreSQL grants free locks.  No     *)
(* deadlock detector is assumed.                                           *)
FairSpec == Spec /\ \A r \in Requests : WF_vars(Step(r))

-----------------------------------------------------------------------------
(* Properties.                                                             *)

(* Rows refer to accounts that exist, and whoever holds a lock is in the   *)
(* middle of a transaction.                                                *)
TypeOK ==
    /\ accounts \in [Requests -> Account \cup {None}]
    /\ sessions \in [Requests -> Session \cup {None}]
    /\ tokens \in [Requests -> Token \cup {None}]
    /\ lock \in [Rows -> Requests \cup {None}]
    /\ req \in [Requests -> Request]
    /\ \A s \in Requests : sessions[s] # None => accounts[sessions[s].account] # None
    /\ \A t \in Requests : tokens[t] # None => accounts[tokens[t].account] # None
    /\ \A row \in Rows : lock[row] # None => req[lock[row]].pc \in InTx

Succeeded(r, kind) == req[r].kind = kind /\ req[r].pc = "done" /\ req[r].ok

(* One-time tokens: however requests with the same token overlap, at most  *)
(* one of them is answered with success.                                   *)
TokenSpentOnce ==
    \A r, q \in Requests :
        Succeeded(r, "RESET") /\ Succeeded(q, "RESET") /\ req[r].via = req[q].via => r = q

(* After a reset or a deletion no session remains usable that was there    *)
(* when its transaction began, whoever else logs in, logs out, resets or   *)
(* deletes meanwhile.  So a usable session whose login checked another     *)
(* password than the current one is of a login that overlapped the reset.  *)
NoOldSessionSurvives ==
    /\ \A r \in Requests :
         Succeeded(r, "RESET") \/ Succeeded(r, "DELETE") => \A s \in req[r].had : ~Usable(s)
    /\ \A s \in Requests :
         LET current == accounts[sessions[s].account].password
         IN  Usable(s) /\ req[s].checked # current =>
                Succeeded(current, "RESET") /\ s \notin req[current].had

(* However registrations and deletions overlap, a name never belongs to    *)
(* two accounts that are not deleted.                                      *)
NameIsUnique == \A n \in Names : Cardinality(Named(n)) <= 1

(* Every request is answered without any deadlock detector: all of them    *)
(* lock tokens, users, sessions in this order.                             *)
EveryAuthRequestAnswered ==
    \A r \in Requests : req[r].pc \notin {"idle", "done"} ~> req[r].pc = "done"

=============================================================================
