---------------------------- MODULE SessionsProofs ----------------------------
(***************************************************************************)
(* Proofs about Sessions, for any names and requests.  The inductive       *)
(* invariant says of every request what it knows of the tables between two *)
(* of its statements: who claims a token holds the lock of a row that is   *)
(* still unused, who revokes sessions has seen all of those that were      *)
(* there, and who opens a session has checked a password the account has   *)
(* had.                                                                    *)
(***************************************************************************)
EXTENDS Sessions, FiniteSetTheorems, TLAPS

Exists(a) == a \in Requests /\ accounts[a] # None

Opened(s) == s \in Requests /\ sessions[s] # None

Revoked(s) == Opened(s) /\ sessions[s].revoked

(* Rows are inserted by requests that then are done.                       *)
RowClaim(r) ==
    req[r].pc # "done" => accounts[r] = None /\ sessions[r] = None /\ tokens[r] = None

KindClaim(r) ==
    LET q == req[r]
    IN  /\ q.pc = "open" => q.kind = "LOGIN"
        /\ q.pc = "mint" => q.kind = "REQUEST_RESET"
        /\ q.pc = "logout" => q.kind = "LOGOUT" /\ Opened(q.via)
        /\ q.pc = "delete" => q.kind = "DELETE"
        /\ q.pc = "password" => q.kind = "RESET"
        /\ q.pc \in {"see", "revoke"} => q.kind \in {"RESET", "DELETE"}
        /\ q.pc = "commit" => q.kind \in {"REGISTER", "RESET", "DELETE"}
        /\ q.pc = "commit" /\ q.kind = "REGISTER" =>
              q.account = r /\ q.checked = r /\ q.name \in Names
        /\ q.pc \in {"open", "mint", "delete"} => Exists(q.account)
        /\ q.pc \in InTx /\ q.kind # "REGISTER" => Exists(q.account)

(* Before its first UPDATE a deletion holds no lock, and a registration    *)
(* never does.                                                             *)
LockClaim(r) ==
    req[r].pc = "delete" \/ (req[r].pc = "commit" /\ req[r].kind = "REGISTER") =>
        \A row \in Rows : lock[row] # r

(* The token a reset has claimed is its own and unused until it commits.   *)
TokenClaim(r) ==
    req[r].pc \in InTx /\ req[r].kind = "RESET" =>
        /\ req[r].via \in Requests /\ tokens[req[r].via] # None
        /\ ~tokens[req[r].via].used
        /\ lock[<<"tokens", req[r].via>>] = r

(* What was there when the transaction began is there for its UPDATE of    *)
(* sessions, or has been revoked by somebody else.                         *)
SweepClaim(r) ==
    /\ req[r].pc \in {"password", "see"} => req[r].had \subseteq SessionsOf(req[r].account)
    /\ req[r].pc \in {"revoke", "commit"} /\ req[r].kind # "REGISTER" =>
          /\ \A s \in req[r].seen : Opened(s)
          /\ \A s \in req[r].had : s \in req[r].seen \/ Revoked(s)

(* A success is for ever.                                                  *)
DoneClaim(r) ==
    /\ Succeeded(r, "RESET") =>
          req[r].via \in Requests /\ tokens[req[r].via] # None /\ tokens[req[r].via].used
    /\ Succeeded(r, "RESET") \/ Succeeded(r, "DELETE") => \A s \in req[r].had : Revoked(s)

(* As long as the password is the first, only it has been checked.         *)
CheckedFirst(r, a) == accounts[a].password = a => req[r].checked = a

CheckedClaim(r) ==
    /\ req[r].pc = "open" => CheckedFirst(r, req[r].account)
    /\ sessions[r] # None => CheckedFirst(r, sessions[r].account)

Knows(r) ==
    /\ RowClaim(r) /\ KindClaim(r) /\ LockClaim(r) /\ TokenClaim(r)
    /\ SweepClaim(r) /\ DoneClaim(r) /\ CheckedClaim(r)

AllKnow == \A r \in Requests : Knows(r)

(* A password is the first one or that of a reset.                         *)
PasswordsAreSet ==
    \A a \in Requests : accounts[a] # None =>
        accounts[a].password = a \/ Succeeded(accounts[a].password, "RESET")

(* A name has one owner, or one who is inserting it.                       *)
NameIsSettling ==
    \A n \in Names :
        /\ \A r, q \in Inserting(n) : r = q
        /\ \A a, b \in Named(n) : a = b
        /\ Inserting(n) = {} \/ Named(n) = {}

IInv ==
    /\ TypeOK /\ AllKnow /\ PasswordsAreSet
    /\ NameIsSettling /\ TokenSpentOnce

-----------------------------------------------------------------------------
LEMMA NoneFacts ==
    /\ None \notin Names /\ None \notin Requests /\ None \notin Kinds
    /\ None \notin Account /\ None \notin Session /\ None \notin Token
  BY NoneAssumption

(* What a step of r does not do: to the types, to the other requests and   *)
(* what they have locked, and to the rows that are there.                  *)
LockFrame(r) ==
    /\ lock' \in [Rows -> Requests \cup {None}]
    /\ \A row \in Rows, s \in Requests \ {r} : lock'[row] = s <=> lock[row] = s
    /\ req'[r].pc \in InTx \/ \A row \in Rows : lock'[row] # r

RequestFrame(r) ==
    /\ req[r].pc # "done"
    /\ req' \in [Requests -> Request]
    /\ \A s \in Requests \ {r} : req'[s] = req[s]

AccountFrame(r) ==
    /\ accounts' \in [Requests -> Account \cup {None}]
    /\ \A a \in Requests :
          /\ accounts[a] # None =>
                /\ accounts'[a] # None
                /\ \/ accounts'[a].password = accounts[a].password
                   \/ accounts'[a].password = r /\ Succeeded(r, "RESET")'
          /\ accounts[a] = None /\ accounts'[a] # None => a = r /\ accounts'[r].password = r

SessionFrame(r) ==
    /\ sessions' \in [Requests -> Session \cup {None}]
    /\ \A s \in Requests :
          /\ sessions[s] # None =>
                /\ sessions'[s] # None /\ sessions'[s].account = sessions[s].account
                /\ sessions[s].revoked => sessions'[s].revoked
          /\ sessions[s] = None /\ sessions'[s] # None =>
                s = r /\ accounts'[sessions'[s].account] # None

TokenFrame(r) ==
    /\ tokens' \in [Requests -> Token \cup {None}]
    /\ \A t \in Requests :
          /\ tokens[t] # None =>
                /\ tokens'[t] # None /\ tokens'[t].account = tokens[t].account
                /\ tokens[t].used => tokens'[t].used
                /\ lock[<<"tokens", t>>] \notin {None, r} => (tokens'[t].used <=> tokens[t].used)
          /\ tokens[t] = None /\ tokens'[t] # None =>
                t = r /\ accounts'[tokens'[t].account] # None
    /\ Succeeded(r, "RESET")' => ~tokens[req'[r].via].used

Frame(r) ==
    LockFrame(r) /\ RequestFrame(r) /\ AccountFrame(r) /\ SessionFrame(r) /\ TokenFrame(r)

LEMMA FrameKeepsTypes ==
    ASSUME TypeOK, NEW r \in Requests, Frame(r)
    PROVE  TypeOK'
  <1>1. /\ accounts' \in [Requests -> Account \cup {None}]
        /\ sessions' \in [Requests -> Session \cup {None}]
        /\ tokens' \in [Requests -> Token \cup {None}]
        /\ lock' \in [Rows -> Requests \cup {None}]
        /\ req' \in [Requests -> Request]
    BY DEF Frame, LockFrame, RequestFrame, AccountFrame, SessionFrame, TokenFrame
  <1>2. \A a \in Requests : accounts[a] # None => accounts'[a] # None
    BY DEF Frame, AccountFrame
  <1>3. ASSUME NEW s \in Requests, sessions'[s] # None
        PROVE  accounts'[sessions'[s].account] # None
    <2>1. CASE sessions[s] = None
      BY <1>3, <2>1 DEF Frame, SessionFrame
    <2>2. CASE sessions[s] # None
      <3>1. sessions[s].account \in Requests /\ accounts[sessions[s].account] # None
        BY <2>2 DEF TypeOK, Session
      <3> QED
        BY <1>2, <2>2, <3>1 DEF Frame, SessionFrame
    <2> QED
      BY <2>1, <2>2
  <1>4. ASSUME NEW t \in Requests, tokens'[t] # None
        PROVE  accounts'[tokens'[t].account] # None
    <2>1. CASE tokens[t] = None
      BY <1>4, <2>1 DEF Frame, TokenFrame
    <2>2. CASE tokens[t] # None
      <3>1. tokens[t].account \in Requests /\ accounts[tokens[t].account] # None
        BY <2>2 DEF TypeOK, Token
      <3> QED
        BY <1>2, <2>2, <3>1 DEF Frame, TokenFrame
    <2> QED
      BY <2>1, <2>2
  <1>5. ASSUME NEW row \in Rows, lock'[row] # None
        PROVE  req'[lock'[row]].pc \in InTx
    <2>1. CASE lock'[row] = r
      BY <2>1 DEF Frame, LockFrame
    <2>2. CASE lock'[row] # r
      <3>1. lock'[row] \in Requests \ {r}
        BY <1>1, <1>5, <2>2
      <3>2. lock[row] = lock'[row] /\ req'[lock'[row]] = req[lock'[row]]
        BY <3>1 DEF Frame, LockFrame, RequestFrame
      <3> QED
        BY <1>5, <3>2 DEF TypeOK
    <2> QED
      BY <2>1, <2>2
  <1> QED
    BY <1>1, <1>3, <1>4, <1>5 DEF TypeOK

LEMMA OthersKeepTheirClaims ==
    ASSUME IInv, NEW r \in Requests, Frame(r), NEW s \in Requests \ {r}
    PROVE  Knows(s)'
  <1>0. /\ TypeOK /\ Knows(s) /\ RowClaim(r) /\ req'[s] = req[s] /\ req[r].pc # "done"
    BY DEF IInv, AllKnow, Knows, Frame, RequestFrame
  <1>1. \A a : Exists(a) => Exists(a)'
    BY DEF Exists, Frame, AccountFrame
  <1>2. \A x : /\ Opened(x) => Opened(x)' /\ sessions'[x].account = sessions[x].account
               /\ Revoked(x) => Revoked(x)'
    BY DEF Opened, Revoked, Frame, SessionFrame
  <1>3. \A a : SessionsOf(a) \subseteq SessionsOf(a)'
    BY <1>2 DEF SessionsOf, Opened
  <1>4. RowClaim(s)'
    BY <1>0 DEF RowClaim, Knows, Frame, AccountFrame, SessionFrame, TokenFrame
  <1>5. KindClaim(s)'
    BY <1>0, <1>1, <1>2 DEF KindClaim, Knows
  <1>6. TokenClaim(s)'
    <2> SUFFICES ASSUME req[s].pc \in InTx, req[s].kind = "RESET"
                 PROVE  /\ req[s].via \in Requests /\ tokens'[req[s].via] # None
                        /\ ~tokens'[req[s].via].used
                        /\ lock'[<<"tokens", req[s].via>>] = s
      BY <1>0 DEF TokenClaim
    <2> DEFINE t == req[s].via
    <2>1. t \in Requests /\ tokens[t] # None /\ ~tokens[t].used /\ lock[<<"tokens", t>>] = s
      BY <1>0 DEF Knows, TokenClaim
    <2>2. <<"tokens", t>> \in Rows
      BY <2>1 DEF Rows
    <2> HIDE DEF t
    <2>3. lock'[<<"tokens", t>>] = s
      BY <2>1, <2>2 DEF Frame, LockFrame
    <2>4. tokens'[t] # None /\ ~tokens'[t].used
      BY <2>1, NoneFacts DEF Frame, TokenFrame
    <2> QED
      BY <2>1, <2>3, <2>4 DEF t
  <1>7. SweepClaim(s)'
    BY <1>0, <1>2, <1>3 DEF SweepClaim, Knows
  <1>8. DoneClaim(s)'
    <2>1. \A kind : Succeeded(s, kind)' <=> Succeeded(s, kind)
      BY <1>0 DEF Succeeded
    <2>2. \A t \in Requests : tokens[t] # None /\ tokens[t].used => tokens'[t] # None /\ tokens'[t].used
      BY DEF Frame, TokenFrame
    <2> QED
      BY <1>0, <1>2, <2>1, <2>2 DEF DoneClaim, Knows
  <1>9. CheckedClaim(s)'
    <2>1. ASSUME NEW a \in Requests, accounts[a] # None, CheckedFirst(s, a)
          PROVE  CheckedFirst(s, a)'
      <3>1. a # r
        BY <1>0, <2>1 DEF RowClaim
      <3>2. accounts'[a].password = a => accounts[a].password = a
        BY <2>1, <3>1 DEF Frame, AccountFrame
      <3> QED
        BY <1>0, <2>1, <3>2 DEF CheckedFirst
    <2>2. CASE req[s].pc = "open"
      <3>1. Exists(req[s].account) /\ sessions[s] = None /\ CheckedFirst(s, req[s].account)
        BY <1>0, <2>2 DEF Knows, KindClaim, RowClaim, CheckedClaim
      <3>2. sessions'[s] = None
        BY <3>1 DEF Frame, SessionFrame
      <3> QED
        BY <1>0, <2>1, <3>1, <3>2 DEF CheckedClaim, Exists
    <2>3. CASE sessions[s] # None
      <3>1. /\ sessions[s].account \in Requests /\ accounts[sessions[s].account] # None
            /\ CheckedFirst(s, sessions[s].account) /\ req[s].pc = "done"
        BY <1>0, <2>3 DEF TypeOK, Session, Knows, CheckedClaim, RowClaim
      <3>2. sessions'[s].account = sessions[s].account
        BY <2>3 DEF Frame, SessionFrame
      <3> QED
        BY <1>0, <2>1, <3>1, <3>2 DEF CheckedClaim
    <2>4. CASE req[s].pc # "open" /\ sessions[s] = None
      BY <1>0, <2>4 DEF CheckedClaim, Frame, SessionFrame
    <2> QED
      BY <2>2, <2>3, <2>4
  <1>10. LockClaim(s)'
    BY <1>0 DEF LockClaim, Knows, Frame, LockFrame
  <1> QED
    BY <1>4, <1>5, <1>6, <1>7, <1>8, <1>9, <1>10 DEF Knows

(* A step that stays in its frame and knows what it has done is a step of  *)
(* the invariant, if it settles the names.                                 *)
LEMMA StepKeepsIInv ==
    ASSUME IInv, NEW r \in Requests, Frame(r), Knows(r)', NameIsSettling'
    PROVE  IInv'
  <1>0. TypeOK /\ PasswordsAreSet /\ TokenSpentOnce /\ AllKnow /\ req[r].pc # "done"
    BY DEF IInv, Frame, RequestFrame
  <1>1. TypeOK'
    BY <1>0, FrameKeepsTypes
  <1>2. AllKnow'
    BY OthersKeepTheirClaims DEF AllKnow
  <1>3. ASSUME NEW s \in Requests, Succeeded(s, "RESET")
        PROVE  Succeeded(s, "RESET")' /\ s # r /\ req'[s] = req[s]
    BY <1>0, <1>3 DEF Succeeded, Frame, RequestFrame
  <1>4. PasswordsAreSet'
    <2> SUFFICES ASSUME NEW a \in Requests, accounts'[a] # None
                 PROVE  accounts'[a].password = a \/ Succeeded(accounts[a].password, "RESET")'
      BY DEF PasswordsAreSet
    <2>1. CASE accounts[a] = None
      <3>1. a = r /\ accounts'[a].password = a
        BY <2>1 DEF Frame, AccountFrame
      <3> QED
        BY <3>1
    <2>2. CASE accounts[a] # None
      <3>1. accounts[a].password \in Requests
        BY <1>0, <2>2 DEF TypeOK, Account
      <3>2. accounts[a].password = a \/ Succeeded(accounts[a].password, "RESET")
        BY <1>0, <2>2 DEF PasswordsAreSet
      <3>3. CASE accounts'[a].password = accounts[a].password
        <4>1. req'[accounts[a].password] = req[accounts[a].password] \/ accounts[a].password = a
          BY <1>3, <3>1, <3>2
        <4> QED
          BY <3>2, <3>3, <4>1 DEF Succeeded
      <3>4. CASE accounts'[a].password = r /\ Succeeded(r, "RESET")'
        BY <3>4 DEF Succeeded
      <3> QED
        BY <2>2, <3>3, <3>4 DEF Frame, AccountFrame
    <2> QED
      BY <2>1, <2>2
  <1>5. TokenSpentOnce'
    <2>1. ASSUME NEW s \in Requests \ {r}, Succeeded(s, "RESET")'
          PROVE  /\ Succeeded(s, "RESET") /\ req'[s] = req[s]
                 /\ tokens[req[s].via].used
      <3>1. req'[s] = req[s]
        BY DEF Frame, RequestFrame
      <3>2. Succeeded(s, "RESET")
        BY <2>1, <3>1 DEF Succeeded
      <3> QED
        BY <1>0, <3>1, <3>2 DEF AllKnow, Knows, DoneClaim
    <2>2. Succeeded(r, "RESET")' => ~tokens[req'[r].via].used
      BY DEF Frame, TokenFrame
    <2> SUFFICES ASSUME NEW p \in Requests, NEW q \in Requests, Succeeded(p, "RESET")',
                        Succeeded(q, "RESET")', req'[p].via = req'[q].via
                 PROVE  p = q
      BY DEF TokenSpentOnce
    <2> QED
      BY <1>0, <2>1, <2>2 DEF TokenSpentOnce
  <1> QED
    BY <1>1, <1>2, <1>4, <1>5 DEF IInv

-----------------------------------------------------------------------------
(* Steps by what they leave alone.                                         *)

LEMMA AnswerParts ==
    ASSUME NEW r \in Requests, NEW record \in Request, NEW ok \in BOOLEAN,
           req \in [Requests -> Request], Answer(r, record, ok), req[r].pc # "done"
    PROVE  /\ RequestFrame(r)
           /\ req'[r].pc = "done" /\ (req'[r].ok <=> ok) /\ req'[r].kind = record.kind
           /\ req'[r].via = record.via /\ req'[r].had = record.had
           /\ req'[r].checked = record.checked
  <1>1. /\ req' = [req EXCEPT ![r] = [record EXCEPT !.pc = "done", !.ok = ok, !.seen = {}]]
        /\ req'[r] = [record EXCEPT !.pc = "done", !.ok = ok, !.seen = {}]
    BY DEF Answer
  <1>2. req'[r] \in Request
    <2> DEFINE done == [record EXCEPT !.pc = "done", !.seen = {}]
    <2>1. done \in Request
      BY DEF Request, PCs
    <2>2. done = [record EXCEPT !.pc = "done", !.seen = {}] /\ req'[r] = [done EXCEPT !.ok = ok]
      BY <1>1 DEF Request
    <2> HIDE DEF done
    <2> QED
      BY <2>1, <2>2 DEF Request
  <1>3. RequestFrame(r)
    BY <1>1, <1>2 DEF RequestFrame
  <1>4. /\ req'[r].pc = "done" /\ req'[r].kind = record.kind
        /\ req'[r].via = record.via /\ req'[r].had = record.had
        /\ req'[r].checked = record.checked
    BY <1>1 DEF Request
  <1>5. req'[r].ok = ok
    BY <1>1 DEF Request
  <1> QED
    BY <1>3, <1>4, <1>5

LEMMA IdleParts ==
    /\ Idle \in Request /\ Idle.pc = "idle" /\ Idle.kind = None /\ ~Idle.ok
    /\ Idle.name = None /\ Idle.account = None /\ Idle.via = None /\ Idle.checked = None
    /\ Idle.seen = {} /\ Idle.had = {}
  <1>1. Idle \in Request
    BY DEF Idle, Request, PCs
  <1> QED
    BY <1>1 DEF Idle

(* A request is set to a record.                                           *)
LEMMA RequestSet ==
    ASSUME TypeOK, NEW r \in Requests, NEW q \in Request, req[r].pc # "done",
           req' = [req EXCEPT ![r] = q]
    PROVE  RequestFrame(r) /\ req'[r] = q
  BY DEF TypeOK, RequestFrame

LEMMA NoLocks ==
    ASSUME TypeOK, NEW r \in Requests, req[r].pc \notin InTx
    PROVE  \A row \in Rows : lock[row] # r
  BY NoneFacts DEF TypeOK

LEMMA LocksStay ==
    ASSUME TypeOK, NEW r \in Requests, lock' = lock,
           req'[r].pc \in InTx \/ \A row \in Rows : lock[row] # r
    PROVE  LockFrame(r)
  BY DEF TypeOK, LockFrame

LEMMA LockIsTaken ==
    ASSUME TypeOK, NEW r \in Requests, NEW row \in Rows, Free(row, r),
           lock' = [lock EXCEPT ![row] = r], req'[r].pc \in InTx
    PROVE  LockFrame(r)
  <1>1. lock \in [Rows -> Requests \cup {None}] /\ lock[row] \in {None, r}
    BY DEF TypeOK, Free
  <1> QED
    BY <1>1, NoneFacts DEF LockFrame

LEMMA LocksAreReleased ==
    ASSUME TypeOK, NEW r \in Requests, ReleaseLocks(r)
    PROVE  LockFrame(r)
  <1>1. lock \in [Rows -> Requests \cup {None}]
    BY DEF TypeOK
  <1>2. \A row \in Rows : lock'[row] = IF lock[row] = r THEN None ELSE lock[row]
    BY DEF ReleaseLocks
  <1>3. lock' \in [Rows -> Requests \cup {None}]
    BY <1>1 DEF ReleaseLocks
  <1> QED
    BY <1>1, <1>2, <1>3, NoneFacts DEF LockFrame

LEMMA TablesStay ==
    ASSUME TypeOK, NEW r \in Requests, UNCHANGED tables, ~Succeeded(r, "RESET")'
    PROVE  AccountFrame(r) /\ SessionFrame(r) /\ TokenFrame(r)
  BY DEF TypeOK, tables, AccountFrame, SessionFrame, TokenFrame

(* Names are settled if none is inserted and no account revives.           *)
LEMMA NamesStay ==
    ASSUME NameIsSettling, NEW r \in Requests, RequestFrame(r),
           ~(req'[r].kind = "REGISTER" /\ req'[r].pc = "commit"),
           \A a \in Requests : accounts'[a] # None /\ ~accounts'[a].deleted =>
               Live(a) /\ accounts'[a].name = accounts[a].name
    PROVE  NameIsSettling'
  <1>1. \A n \in Names : Inserting(n)' \subseteq Inserting(n)
    BY DEF Inserting, RequestFrame
  <1>2. \A n \in Names : Named(n)' \subseteq Named(n)
    BY DEF Named, Live
  <1> SUFFICES ASSUME NEW n \in Names
               PROVE  (/\ \A s, q \in Inserting(n) : s = q
                       /\ \A a, b \in Named(n) : a = b
                       /\ Inserting(n) = {} \/ Named(n) = {})'
    BY DEF NameIsSettling
  <1>3. /\ \A s, q \in Inserting(n) : s = q
        /\ \A a, b \in Named(n) : a = b
        /\ Inserting(n) = {} \/ Named(n) = {}
    BY DEF NameIsSettling
  <1> HIDE DEF Inserting, Named
  <1> QED
    BY <1>1, <1>2, <1>3

LEMMA NamesStayWithTables ==
    ASSUME NameIsSettling, NEW r \in Requests, RequestFrame(r), accounts' = accounts,
           ~(req'[r].kind = "REGISTER" /\ req'[r].pc = "commit")
    PROVE  NameIsSettling'
  BY NamesStay DEF Live

(* A statement that writes nothing others see.                             *)
LEMMA QuietStep ==
    ASSUME IInv, NEW r \in Requests, UNCHANGED tables, RequestFrame(r), LockFrame(r),
           Knows(r)', ~Succeeded(r, "RESET")',
           ~(req'[r].kind = "REGISTER" /\ req'[r].pc = "commit")
    PROVE  IInv'
  <1>1. TypeOK /\ NameIsSettling /\ accounts' = accounts
    BY DEF IInv, tables
  <1>2. Frame(r)
    BY <1>1, TablesStay DEF Frame
  <1>3. NameIsSettling'
    BY <1>1, NamesStayWithTables
  <1> QED
    BY <1>2, <1>3, StepKeepsIInv

(* An answer that changes nothing.                                         *)
LEMMA EmptyAnswer ==
    ASSUME IInv, NEW r \in Requests, UNCHANGED tables, LockFrame(r), NEW ok \in BOOLEAN,
           NEW record \in Request, Answer(r, record, ok), req[r].pc # "done",
           ~ok \/ record.kind = "REQUEST_RESET"
    PROVE  IInv'
  <1>1. TypeOK /\ RowClaim(r)
    BY DEF IInv, AllKnow, Knows
  <1>2. /\ RequestFrame(r) /\ req'[r].pc = "done" /\ (req'[r].ok <=> ok)
        /\ req'[r].kind = record.kind
    BY <1>1, AnswerParts DEF TypeOK
  <1>3. ~Succeeded(r, "RESET")' /\ ~Succeeded(r, "DELETE")'
    BY <1>2 DEF Succeeded
  <1>4. sessions' = sessions /\ sessions[r] = None
    BY <1>1 DEF tables, RowClaim
  <1>5. Knows(r)'
    BY <1>2, <1>3, <1>4
       DEF Knows, RowClaim, KindClaim, LockClaim, TokenClaim, SweepClaim, DoneClaim, CheckedClaim, InTx
  <1> QED
    BY <1>2, <1>3, <1>5, QuietStep

-----------------------------------------------------------------------------
(* Requests arrive.                                                        *)

LEMMA ArrivalParts ==
    ASSUME IInv, NEW r \in Requests, req[r].pc = "idle"
    PROVE  /\ TypeOK /\ NameIsSettling /\ RowClaim(r) /\ req[r].pc # "done"
           /\ accounts[r] = None /\ sessions[r] = None /\ tokens[r] = None
           /\ \A row \in Rows : lock[row] # r
  <1>1. TypeOK /\ NameIsSettling /\ RowClaim(r)
    BY DEF IInv, AllKnow, Knows
  <1>2. \A row \in Rows : lock[row] # r
    BY <1>1, NoLocks DEF InTx
  <1> QED
    BY <1>1, <1>2 DEF RowClaim

LEMMA RefuseKeepsIInv ==
    ASSUME IInv, NEW r \in Requests, NEW kind \in Kinds, Refuse(r, kind)
    PROVE  IInv'
  <1> DEFINE refused == [Idle EXCEPT !.kind = kind]
  <1>1. /\ req[r].pc = "idle" /\ UNCHANGED tables /\ lock' = lock
        /\ Answer(r, refused, FALSE)
    BY DEF Refuse
  <1>2. TypeOK /\ LockFrame(r)
    BY <1>1, ArrivalParts, LocksStay
  <1>3. refused \in Request
    BY IdleParts DEF Request
  <1> HIDE DEF refused
  <1> QED
    BY <1>1, <1>2, <1>3, EmptyAnswer

(* A new registration waits for nobody but is waited for.                  *)
LEMMA RegisterKeepsIInv ==
    ASSUME IInv, NEW r \in Requests, NEW n \in Names, Register(r, n)
    PROVE  IInv'
  <1> DEFINE named == [Idle EXCEPT !.pc = "commit", !.kind = "REGISTER", !.name = n]
             q == [named EXCEPT !.account = r, !.checked = r]
  <1>1. /\ req[r].pc = "idle" /\ UNCHANGED tables /\ lock' = lock
        /\ req' = [req EXCEPT ![r] = q]
        /\ Inserting(n) = {} /\ Named(n) = {}
    BY DEF Register, NameIsSettled
  <1>2. /\ TypeOK /\ NameIsSettling /\ req[r].pc # "done"
        /\ accounts[r] = None /\ sessions[r] = None /\ tokens[r] = None
        /\ \A row \in Rows : lock[row] # r
    BY <1>1, ArrivalParts
  <1>3. named \in Request /\ named.pc = "commit" /\ named.kind = "REGISTER" /\ named.name = n
    BY IdleParts DEF Request, PCs, Kinds
  <1> HIDE DEF named
  <1>4. /\ q \in Request /\ q.pc = "commit" /\ q.kind = "REGISTER" /\ q.name = n
        /\ q.account = r /\ q.checked = r
    BY <1>3 DEF Request
  <1> HIDE DEF q
  <1>5. RequestFrame(r) /\ req'[r] = q
    BY <1>1, <1>2, <1>4, RequestSet
  <1>6. LockFrame(r) /\ AccountFrame(r) /\ SessionFrame(r) /\ TokenFrame(r)
    BY <1>1, <1>2, <1>4, <1>5, LocksStay, TablesStay DEF Succeeded
  <1>7. Knows(r)'
    BY <1>1, <1>2, <1>4, <1>5
       DEF Knows, RowClaim, KindClaim, LockClaim, TokenClaim, SweepClaim, DoneClaim, CheckedClaim,
           Succeeded, tables
  <1>8. NameIsSettling'
    <2>1. \A m \in Names : Named(m)' = Named(m)
      BY <1>1 DEF Named, Live, tables
    <2>2. \A m \in Names : Inserting(m)' \subseteq Inserting(m) \cup {r}
      BY <1>5 DEF Inserting, RequestFrame
    <2>3. \A m \in Names \ {n} : Inserting(m)' \subseteq Inserting(m)
      BY <1>4, <1>5 DEF Inserting, RequestFrame
    <2> SUFFICES ASSUME NEW m \in Names
                 PROVE  (/\ \A s, p \in Inserting(m) : s = p
                         /\ \A a, b \in Named(m) : a = b
                         /\ Inserting(m) = {} \/ Named(m) = {})'
      BY DEF NameIsSettling
    <2>4. /\ \A s, p \in Inserting(m) : s = p
          /\ \A a, b \in Named(m) : a = b
          /\ Inserting(m) = {} \/ Named(m) = {}
      BY <1>2 DEF NameIsSettling
    <2> HIDE DEF Inserting, Named
    <2>5. CASE m = n
      BY <1>1, <2>1, <2>2, <2>5
    <2>6. CASE m # n
      BY <2>1, <2>3, <2>4, <2>6
    <2> QED
      BY <2>5, <2>6
  <1> QED
    BY <1>5, <1>6, <1>7, <1>8, StepKeepsIInv DEF Frame

LEMMA LookUpKeepsIInv ==
    ASSUME IInv, NEW r \in Requests, NEW n \in Names, LookUp(r, n)
    PROVE  IInv'
  <1>1. PICK a \in Named(n) :
            /\ req[r].pc = "idle" /\ UNCHANGED tables /\ lock' = lock
            /\ req' = [req EXCEPT ![r] =
                 [Idle EXCEPT !.pc = "open", !.kind = "LOGIN", !.account = a,
                              !.checked = accounts[a].password]]
    BY DEF LookUp
  <1> DEFINE begun == [Idle EXCEPT !.pc = "open", !.kind = "LOGIN"]
             q == [begun EXCEPT !.account = a, !.checked = accounts[a].password]
  <1>2. /\ TypeOK /\ req[r].pc # "done"
        /\ accounts[r] = None /\ sessions[r] = None /\ tokens[r] = None
        /\ \A row \in Rows : lock[row] # r
    BY <1>1, ArrivalParts
  <1>3. Exists(a) /\ accounts[a].password \in Requests
    BY <1>2 DEF Named, Live, Exists, TypeOK, Account
  <1>4. begun \in Request /\ begun.pc = "open" /\ begun.kind = "LOGIN"
    BY IdleParts DEF Request, PCs, Kinds
  <1> HIDE DEF begun
  <1>5. /\ q \in Request /\ q.pc = "open" /\ q.kind = "LOGIN" /\ q.account = a
        /\ q.checked = accounts[a].password
    BY <1>3, <1>4 DEF Request, Exists
  <1>6. req' = [req EXCEPT ![r] = q]
    BY <1>1 DEF begun
  <1> HIDE DEF q
  <1>7. RequestFrame(r) /\ req'[r] = q
    BY <1>2, <1>5, <1>6, RequestSet
  <1>8. LockFrame(r)
    BY <1>1, <1>2, LocksStay
  <1>9. Knows(r)'
    <2>1. CheckedClaim(r)'
      BY <1>1, <1>2, <1>5, <1>7 DEF CheckedClaim, CheckedFirst, tables
    <2> QED
      BY <1>1, <1>2, <1>3, <1>5, <1>7, <2>1
         DEF Knows, RowClaim, KindClaim, LockClaim, TokenClaim, SweepClaim, DoneClaim,
             Succeeded, tables, Exists, InTx
  <1> QED
    BY <1>1, <1>5, <1>7, <1>8, <1>9, QuietStep DEF Succeeded

LEMMA FindAccountKeepsIInv ==
    ASSUME IInv, NEW r \in Requests, NEW n \in Names, FindAccount(r, n)
    PROVE  IInv'
  <1>1. req[r].pc = "idle" /\ UNCHANGED tables /\ lock' = lock
    BY DEF FindAccount
  <1>2. /\ TypeOK /\ req[r].pc # "done"
        /\ accounts[r] = None /\ sessions[r] = None /\ tokens[r] = None
        /\ \A row \in Rows : lock[row] # r
    BY <1>1, ArrivalParts
  <1>3. LockFrame(r)
    BY <1>1, <1>2, LocksStay
  <1>4. ASSUME NEW a \in Named(n),
               req' = [req EXCEPT ![r] = [Idle EXCEPT !.pc = "mint", !.kind = "REQUEST_RESET",
                                                      !.account = a]]
        PROVE  IInv'
    <2> DEFINE q == [Idle EXCEPT !.pc = "mint", !.kind = "REQUEST_RESET", !.account = a]
    <2>1. Exists(a)
      BY DEF Named, Live, Exists
    <2>2. q \in Request /\ q.pc = "mint" /\ q.kind = "REQUEST_RESET" /\ q.account = a
      BY <2>1, IdleParts DEF Request, PCs, Kinds, Exists
    <2> HIDE DEF q
    <2>3. RequestFrame(r) /\ req'[r] = q
      BY <1>2, <1>4, <2>2, RequestSet DEF q
    <2>4. Knows(r)'
      BY <1>1, <1>2, <2>1, <2>2, <2>3
         DEF Knows, RowClaim, KindClaim, LockClaim, TokenClaim, SweepClaim, DoneClaim, CheckedClaim,
             Succeeded, tables, Exists, InTx
    <2> QED
      BY <1>1, <1>3, <2>2, <2>3, <2>4, QuietStep DEF Succeeded
  <1>5. CASE Answer(r, [Idle EXCEPT !.kind = "REQUEST_RESET"], TRUE)
    <2> DEFINE q == [Idle EXCEPT !.kind = "REQUEST_RESET"]
    <2>1. q \in Request /\ q.kind = "REQUEST_RESET"
      BY IdleParts DEF Request, Kinds
    <2> HIDE DEF q
    <2>2. Answer(r, q, TRUE)
      BY <1>5 DEF q
    <2> QED
      BY <1>1, <1>2, <1>3, <2>1, <2>2, EmptyAnswer
  <1> QED
    BY <1>4, <1>5 DEF FindAccount

(* The middleware has found a session that can be used.                    *)
LEMMA AuthenticateKeepsIInv ==
    ASSUME IInv, NEW r \in Requests, NEW kind \in Kinds, NEW s \in Requests,
           Authenticate(r, kind, s)
    PROVE  IInv'
  <1> DEFINE pc == IF kind = "LOGOUT" THEN "logout" ELSE "delete"
             a == sessions[s].account
             asked == [Idle EXCEPT !.kind = kind, !.via = s]
             q == [asked EXCEPT !.account = a, !.pc = pc]
  <1>1. /\ req[r].pc = "idle" /\ kind \in {"LOGOUT", "DELETE"} /\ UNCHANGED tables
        /\ lock' = lock /\ sessions[s] # None /\ Live(a)
        /\ req' = [req EXCEPT ![r] = q]
    BY DEF Authenticate, Usable
  <1>2. /\ TypeOK /\ req[r].pc # "done"
        /\ accounts[r] = None /\ sessions[r] = None /\ tokens[r] = None
        /\ \A row \in Rows : lock[row] # r
    BY <1>1, ArrivalParts
  <1>3. Exists(a) /\ Opened(s)
    BY <1>1, <1>2 DEF TypeOK, Session, Exists, Opened
  <1>4. asked \in Request /\ asked.kind = kind /\ asked.via = s
    BY IdleParts DEF Request
  <1> HIDE DEF asked
  <1>5. /\ q \in Request /\ q.pc = pc /\ q.kind = kind /\ q.via = s /\ q.account = a
    BY <1>3, <1>4 DEF Request, PCs, Exists
  <1>6. /\ q.pc \in {"logout", "delete"} /\ (q.pc = "logout" => kind = "LOGOUT")
        /\ (q.pc = "delete" => kind = "DELETE")
    BY <1>1, <1>5
  <1> HIDE DEF q, pc
  <1>7. RequestFrame(r) /\ req'[r] = q
    BY <1>1, <1>2, <1>5, RequestSet
  <1>8. LockFrame(r)
    BY <1>1, <1>2, LocksStay
  <1>9. Knows(r)'
    BY <1>1, <1>2, <1>3, <1>5, <1>6, <1>7
       DEF Knows, RowClaim, KindClaim, LockClaim, TokenClaim, SweepClaim, DoneClaim, CheckedClaim,
           Succeeded, tables, Exists, Opened
  <1> QED
    BY <1>1, <1>6, <1>7, <1>8, <1>9, QuietStep DEF Succeeded

(* A reset claims its token.                                               *)
LEMMA ClaimKeepsIInv ==
    ASSUME IInv, NEW r \in Requests, NEW t \in Requests, Claim(r, t)
    PROVE  IInv'
  <1> DEFINE a == tokens[t].account
             asked == [Idle EXCEPT !.pc = "password", !.kind = "RESET", !.via = t]
             q == [asked EXCEPT !.account = a, !.had = SessionsOf(a)]
  <1>1. /\ req[r].pc = "idle" /\ UNCHANGED tables /\ tokens[t] # None /\ ~tokens[t].used
        /\ Free(<<"tokens", t>>, r) /\ lock' = [lock EXCEPT ![<<"tokens", t>>] = r]
        /\ req' = [req EXCEPT ![r] = q]
    BY DEF Claim
  <1>2. /\ TypeOK /\ req[r].pc # "done"
        /\ accounts[r] = None /\ sessions[r] = None /\ tokens[r] = None
    BY <1>1, ArrivalParts
  <1>3. Exists(a) /\ SessionsOf(a) \subseteq Requests
    BY <1>1, <1>2 DEF TypeOK, Token, Exists, SessionsOf
  <1>4. asked \in Request /\ asked.pc = "password" /\ asked.kind = "RESET" /\ asked.via = t
    BY IdleParts DEF Request, PCs, Kinds
  <1> HIDE DEF asked
  <1>5. /\ q \in Request /\ q.pc = "password" /\ q.kind = "RESET" /\ q.via = t
        /\ q.account = a /\ q.had = SessionsOf(a)
    BY <1>3, <1>4 DEF Request, Exists
  <1> HIDE DEF q
  <1>6. RequestFrame(r) /\ req'[r] = q
    BY <1>1, <1>2, <1>5, RequestSet
  <1>7. <<"tokens", t>> \in Rows
    BY DEF Rows
  <1>8. LockFrame(r) /\ lock'[<<"tokens", t>>] = r
    BY <1>1, <1>2, <1>5, <1>6, <1>7, LockIsTaken DEF TypeOK, InTx
  <1>9. Knows(r)'
    <2>1. TokenClaim(r)'
      BY <1>1, <1>5, <1>6, <1>8 DEF TokenClaim, tables
    <2>2. SweepClaim(r)'
      BY <1>1, <1>5, <1>6 DEF SweepClaim, SessionsOf, tables
    <2> QED
      BY <1>1, <1>2, <1>3, <1>5, <1>6, <2>1, <2>2
         DEF Knows, RowClaim, KindClaim, LockClaim, DoneClaim, CheckedClaim, Succeeded, tables, Exists
  <1> QED
    BY <1>1, <1>5, <1>6, <1>8, <1>9, QuietStep DEF Succeeded

LEMMA ArrivalsKeepIInv ==
    ASSUME IInv, NEW r \in Requests, Arrive(r)
    PROVE  IInv'
  <1>1. ASSUME NEW n \in Names, RegisterConflict(r, n)
        PROVE  IInv'
    BY <1>1, RefuseKeepsIInv DEF RegisterConflict, Kinds
  <1> QED
    BY <1>1, RefuseKeepsIInv, RegisterKeepsIInv, LookUpKeepsIInv, FindAccountKeepsIInv,
       AuthenticateKeepsIInv, ClaimKeepsIInv DEF Arrive

-----------------------------------------------------------------------------
(* Statements.                                                             *)

LEMMA StepParts ==
    ASSUME IInv, NEW r \in Requests
    PROVE  /\ TypeOK /\ NameIsSettling /\ Knows(r) /\ req[r] \in Request
           /\ req \in [Requests -> Request]
           /\ req[r].pc # "done" =>
                 accounts[r] = None /\ sessions[r] = None /\ tokens[r] = None
  BY DEF IInv, AllKnow, TypeOK, Knows, RowClaim

LEMMA PcMoves ==
    ASSUME TypeOK, NEW r \in Requests, NEW pc \in PCs, req[r].pc # "done",
           req' = [req EXCEPT ![r].pc = pc]
    PROVE  /\ RequestFrame(r) /\ req'[r].pc = pc
           /\ req'[r].kind = req[r].kind /\ req'[r].name = req[r].name
           /\ req'[r].account = req[r].account /\ req'[r].via = req[r].via
           /\ req'[r].seen = req[r].seen /\ req'[r].had = req[r].had
  <1> DEFINE q == [req[r] EXCEPT !.pc = pc]
  <1>1. req' = [req EXCEPT ![r] = q] /\ req[r] \in Request
    BY DEF TypeOK
  <1>2. /\ q \in Request /\ q.pc = pc
        /\ q.kind = req[r].kind /\ q.name = req[r].name
        /\ q.account = req[r].account /\ q.via = req[r].via
        /\ q.seen = req[r].seen /\ q.had = req[r].had
    BY <1>1 DEF Request
  <1> HIDE DEF q
  <1> QED
    BY <1>1, <1>2, RequestSet

(* The password is set under a lock, or there is nothing to set.           *)
LEMMA SetPasswordKeepsIInv ==
    ASSUME IInv, NEW r \in Requests, SetPassword(r)
    PROVE  IInv'
  <1> DEFINE a == req[r].account
             row == <<"users", a>>
  <1>1. TypeOK /\ Knows(r) /\ req[r].pc = "password" /\ UNCHANGED tables
    BY StepParts DEF SetPassword
  <1>2. /\ req[r].kind = "RESET" /\ Exists(a) /\ req[r].had \subseteq SessionsOf(a)
        /\ req[r].via \in Requests /\ tokens[req[r].via] # None /\ ~tokens[req[r].via].used
        /\ lock[<<"tokens", req[r].via>>] = r
    BY <1>1 DEF Knows, KindClaim, SweepClaim, TokenClaim, InTx
  <1>3. /\ RequestFrame(r) /\ req'[r].pc = "see" /\ req'[r].kind = "RESET"
        /\ req'[r].account = a /\ req'[r].via = req[r].via /\ req'[r].had = req[r].had
    BY <1>1, <1>2, PcMoves DEF SetPassword, PCs
  <1>4. row \in Rows /\ <<"tokens", req[r].via>> \in Rows /\ row # <<"tokens", req[r].via>>
    BY <1>2 DEF Rows, Exists
  <1>5. LockFrame(r) /\ lock'[<<"tokens", req[r].via>>] = r
    <2>1. CASE Live(a)
      <3>1. Free(row, r) /\ lock' = [lock EXCEPT ![row] = r]
        BY <2>1 DEF SetPassword
      <3>2. req'[r].pc \in InTx
        BY <1>3 DEF InTx
      <3>3. LockFrame(r)
        BY <1>1, <1>4, <3>1, <3>2, LockIsTaken
      <3>4. lock'[<<"tokens", req[r].via>>] = lock[<<"tokens", req[r].via>>]
        BY <1>1, <1>4, <3>1 DEF TypeOK
      <3> QED
        BY <1>2, <3>3, <3>4
    <2>2. CASE ~Live(a)
      BY <1>1, <1>2, <1>3, <2>2, LocksStay DEF SetPassword, InTx
    <2> QED
      BY <2>1, <2>2
  <1> HIDE DEF row
  <1>6. Knows(r)'
    <2>1. TokenClaim(r)'
      BY <1>1, <1>2, <1>3, <1>5 DEF TokenClaim, tables
    <2>2. SweepClaim(r)'
      BY <1>1, <1>2, <1>3 DEF SweepClaim, SessionsOf, tables
    <2>3. RowClaim(r)'
      BY <1>1 DEF Knows, RowClaim, tables
    <2> QED
      BY <1>1, <1>2, <1>3, <2>1, <2>2, <2>3
         DEF Knows, KindClaim, LockClaim, DoneClaim, CheckedClaim, RowClaim, Succeeded, tables,
             Exists
  <1> QED
    BY <1>1, <1>3, <1>5, <1>6, QuietStep DEF Succeeded

(* A deletion finds its account and the sessions it will revoke.           *)
LEMMA DeleteUserKeepsIInv ==
    ASSUME IInv, NEW r \in Requests, DeleteUser(r)
    PROVE  IInv'
  <1> DEFINE a == req[r].account
             row == <<"users", a>>
             there == [req[r] EXCEPT !.pc = "see"]
             q == [there EXCEPT !.had = SessionsOf(a)]
  <1>1. /\ TypeOK /\ Knows(r) /\ req[r].pc = "delete" /\ UNCHANGED tables /\ req[r] \in Request
        /\ Free(row, r) /\ lock' = [lock EXCEPT ![row] = r]
    BY StepParts DEF DeleteUser
  <1>2. req[r].kind = "DELETE" /\ Exists(a)
    BY <1>1 DEF Knows, KindClaim
  <1>3. /\ there \in Request /\ there.pc = "see" /\ there.kind = "DELETE"
        /\ there.account = a
    BY <1>1, <1>2 DEF Request, PCs
  <1>4. req' = [req EXCEPT ![r] = q]
    BY <1>1 DEF DeleteUser, TypeOK
  <1> HIDE DEF there
  <1>5. SessionsOf(a) \subseteq Requests
    BY DEF SessionsOf
  <1>6. /\ q \in Request /\ q.pc = "see" /\ q.kind = "DELETE" /\ q.account = a
        /\ q.had = SessionsOf(a)
    BY <1>3, <1>5 DEF Request
  <1> HIDE DEF q
  <1>7. RequestFrame(r) /\ req'[r] = q
    BY <1>1, <1>4, <1>6, RequestSet
  <1>8. row \in Rows
    BY <1>2 DEF Rows, Exists
  <1> HIDE DEF row
  <1>9. LockFrame(r)
    BY <1>1, <1>6, <1>7, <1>8, LockIsTaken DEF InTx
  <1>10. Knows(r)'
    <2>1. SweepClaim(r)'
      BY <1>1, <1>6, <1>7 DEF SweepClaim, SessionsOf, tables
    <2>2. RowClaim(r)'
      BY <1>1 DEF Knows, RowClaim, tables
    <2> QED
      BY <1>1, <1>2, <1>6, <1>7, <2>1, <2>2
         DEF Knows, KindClaim, LockClaim, TokenClaim, DoneClaim, CheckedClaim, RowClaim,
             Succeeded, tables, Exists
  <1> QED
    BY <1>1, <1>6, <1>7, <1>9, <1>10, QuietStep DEF Succeeded

LEMMA DeleteTwiceKeepsIInv ==
    ASSUME IInv, NEW r \in Requests, DeleteTwice(r)
    PROVE  IInv'
  <1>1. /\ TypeOK /\ Knows(r) /\ req[r] \in Request /\ req[r].pc = "delete"
        /\ UNCHANGED tables /\ lock' = lock /\ Answer(r, req[r], FALSE)
    BY StepParts DEF DeleteTwice
  <1>2. \A row \in Rows : lock[row] # r
    BY <1>1 DEF Knows, LockClaim
  <1>3. LockFrame(r)
    BY <1>1, <1>2, LocksStay
  <1> QED
    BY <1>1, <1>3, EmptyAnswer

(* The UPDATE of sessions sees what was there, and more.                   *)
LEMMA SeeSessionsKeepsIInv ==
    ASSUME IInv, NEW r \in Requests, SeeSessions(r)
    PROVE  IInv'
  <1> DEFINE a == req[r].account
             there == [req[r] EXCEPT !.pc = "revoke"]
             usable == {s \in SessionsOf(a) : Usable(s)}
             q == [there EXCEPT !.seen = usable]
  <1>1. /\ TypeOK /\ Knows(r) /\ req[r].pc = "see" /\ UNCHANGED tables /\ req[r] \in Request
        /\ lock' = lock
    BY StepParts DEF SeeSessions
  <1>2. /\ req[r].kind \in {"RESET", "DELETE"} /\ Exists(a)
        /\ req[r].had \subseteq SessionsOf(a)
    BY <1>1 DEF Knows, KindClaim, SweepClaim, InTx
  <1>3. /\ there \in Request /\ there.pc = "revoke" /\ there.kind = req[r].kind
        /\ there.account = a /\ there.via = req[r].via /\ there.had = req[r].had
    BY <1>1 DEF Request, PCs
  <1>4. req' = [req EXCEPT ![r] = q]
    BY <1>1 DEF SeeSessions, TypeOK
  <1>5. /\ usable \subseteq Requests /\ \A s \in usable : Opened(s)
        /\ \A s \in SessionsOf(a) : s \in usable \/ Revoked(s)
    BY DEF SessionsOf, Usable, Opened, Revoked
  <1> HIDE DEF there, usable
  <1>6. /\ q \in Request /\ q.pc = "revoke" /\ q.kind = req[r].kind /\ q.account = a
        /\ q.via = req[r].via /\ q.had = req[r].had /\ q.seen = usable
    BY <1>3, <1>5 DEF Request
  <1> HIDE DEF q
  <1>7. RequestFrame(r) /\ req'[r] = q
    BY <1>1, <1>4, <1>6, RequestSet
  <1>8. LockFrame(r)
    BY <1>1, <1>6, <1>7, LocksStay DEF InTx
  <1>9. Knows(r)'
    <2>1. SweepClaim(r)'
      <3>1. \A s : (Opened(s)' <=> Opened(s)) /\ (Revoked(s)' <=> Revoked(s))
        BY <1>1 DEF Opened, Revoked, tables
      <3> QED
        BY <1>2, <1>5, <1>6, <1>7, <3>1 DEF SweepClaim
    <2>2. RowClaim(r)'
      BY <1>1 DEF Knows, RowClaim, tables
    <2>3. TokenClaim(r)'
      BY <1>1, <1>6, <1>7 DEF Knows, TokenClaim, tables, InTx
    <2> QED
      BY <1>1, <1>2, <1>6, <1>7, <2>1, <2>2, <2>3
         DEF Knows, KindClaim, LockClaim, DoneClaim, CheckedClaim, RowClaim,
             Succeeded, tables, Exists
  <1> QED
    BY <1>1, <1>6, <1>7, <1>8, <1>9, QuietStep DEF Succeeded

LEMMA LockSeenKeepsIInv ==
    ASSUME IInv, NEW r \in Requests, LockSeen(r)
    PROVE  IInv'
  <1>1. /\ TypeOK /\ Knows(r) /\ req[r].pc = "revoke" /\ UNCHANGED tables
        /\ \A s \in req[r].seen : Free(<<"sessions", s>>, r)
        /\ lock' = [row \in Rows |->
                      IF row[1] = "sessions" /\ row[2] \in req[r].seen THEN r ELSE lock[row]]
    BY StepParts DEF LockSeen
  <1>2. /\ req[r].kind \in {"RESET", "DELETE"} /\ Exists(req[r].account)
    BY <1>1 DEF Knows, KindClaim, InTx
  <1>3. /\ RequestFrame(r) /\ req'[r].pc = "commit" /\ req'[r].kind = req[r].kind
        /\ req'[r].account = req[r].account /\ req'[r].via = req[r].via
        /\ req'[r].seen = req[r].seen /\ req'[r].had = req[r].had
    BY <1>1, PcMoves DEF LockSeen, PCs
  <1>4. LockFrame(r)
    <2>1. lock \in [Rows -> Requests \cup {None}]
      BY <1>1 DEF TypeOK
    <2>2. ASSUME NEW row \in Rows, row[1] = "sessions", row[2] \in req[r].seen
          PROVE  lock[row] \in {None, r}
      <3>1. row = <<"sessions", row[2]>>
        BY <2>2 DEF Rows
      <3> QED
        BY <1>1, <2>2, <3>1 DEF Free
    <2>3. lock' \in [Rows -> Requests \cup {None}]
      BY <1>1, <2>1
    <2>4. req'[r].pc \in InTx
      BY <1>3 DEF InTx
    <2>5. ASSUME NEW row \in Rows, NEW s \in Requests \ {r}
          PROVE  lock'[row] = s <=> lock[row] = s
      BY <1>1, <2>2, NoneFacts
    <2> QED
      BY <2>3, <2>4, <2>5 DEF LockFrame
  <1>5. ASSUME NEW t \in Requests
        PROVE  lock'[<<"tokens", t>>] = lock[<<"tokens", t>>]
    BY <1>1 DEF Rows
  <1>6. Knows(r)'
    <2>1. SweepClaim(r)'
      <3>1. \A s : (Opened(s)' <=> Opened(s)) /\ (Revoked(s)' <=> Revoked(s))
        BY <1>1 DEF Opened, Revoked, tables
      <3> QED
        BY <1>1, <1>2, <1>3, <3>1 DEF Knows, SweepClaim
    <2>2. RowClaim(r)'
      BY <1>1 DEF Knows, RowClaim, tables
    <2>3. TokenClaim(r)'
      BY <1>1, <1>3, <1>5 DEF Knows, TokenClaim, tables, InTx
    <2> QED
      BY <1>1, <1>2, <1>3, <2>1, <2>2, <2>3
         DEF Knows, KindClaim, LockClaim, DoneClaim, CheckedClaim, RowClaim,
             Succeeded, tables, Exists
  <1> QED
    BY <1>1, <1>2, <1>3, <1>4, <1>6, QuietStep DEF Succeeded

LEMMA FailKeepsIInv ==
    ASSUME IInv, NEW r \in Requests, Fail(r)
    PROVE  IInv'
  <1>1. /\ TypeOK /\ req[r] \in Request /\ req[r].pc # "done" /\ UNCHANGED tables
        /\ ReleaseLocks(r) /\ Answer(r, req[r], FALSE)
    BY StepParts DEF Fail
  <1> QED
    BY <1>1, LocksAreReleased, EmptyAnswer

-----------------------------------------------------------------------------
(* Statements that others see.                                             *)

(* A login opens its session after the account's password may have been    *)
(* reset or the account deleted.                                           *)
LEMMA OpenKeepsIInv ==
    ASSUME IInv, NEW r \in Requests, Open(r)
    PROVE  IInv'
  <1> DEFINE a == req[r].account
             row == [account |-> a, revoked |-> FALSE]
  <1>1. /\ TypeOK /\ NameIsSettling /\ Knows(r) /\ req[r] \in Request /\ req[r].pc = "open"
        /\ accounts[r] = None /\ sessions[r] = None /\ tokens[r] = None
        /\ sessions' = [sessions EXCEPT ![r] = row] /\ Answer(r, req[r], TRUE)
        /\ accounts' = accounts /\ tokens' = tokens /\ lock' = lock
    BY StepParts DEF Open
  <1>2. /\ req[r].kind = "LOGIN" /\ Exists(a) /\ CheckedFirst(r, a)
    BY <1>1 DEF Knows, KindClaim, CheckedClaim
  <1>3. /\ RequestFrame(r) /\ req'[r].pc = "done" /\ req'[r].kind = "LOGIN"
        /\ req'[r].checked = req[r].checked
    BY <1>1, <1>2, AnswerParts DEF TypeOK
  <1>4. row \in Session /\ row.account = a /\ row # None
    <2>1. row \in Session /\ row.account = a
      BY <1>2 DEF Session, Exists
    <2> QED
      BY <2>1, NoneFacts
  <1> HIDE DEF row
  <1>5. /\ sessions'[r] = row /\ \A s \in Requests \ {r} : sessions'[s] = sessions[s]
        /\ sessions' \in [Requests -> Session \cup {None}]
    BY <1>1, <1>4 DEF TypeOK
  <1>6. LockFrame(r)
    BY <1>1, NoLocks, LocksStay DEF InTx
  <1>7. ~Succeeded(r, "RESET")' /\ ~Succeeded(r, "DELETE")'
    BY <1>3 DEF Succeeded
  <1>8. AccountFrame(r) /\ TokenFrame(r)
    BY <1>1, <1>7 DEF TypeOK, AccountFrame, TokenFrame
  <1>9. SessionFrame(r)
    BY <1>1, <1>2, <1>4, <1>5 DEF SessionFrame, Exists
  <1>10. Knows(r)'
    <2>1. CheckedClaim(r)'
      BY <1>1, <1>2, <1>3, <1>4, <1>5 DEF CheckedClaim, CheckedFirst
    <2> QED
      BY <1>3, <1>7, <2>1
         DEF Knows, RowClaim, KindClaim, LockClaim, TokenClaim, SweepClaim, DoneClaim, InTx
  <1>11. NameIsSettling'
    BY <1>1, <1>3, NamesStayWithTables
  <1> QED
    BY <1>3, <1>6, <1>8, <1>9, <1>10, <1>11, StepKeepsIInv DEF Frame

LEMMA MintKeepsIInv ==
    ASSUME IInv, NEW r \in Requests, Mint(r)
    PROVE  IInv'
  <1> DEFINE a == req[r].account
             row == [account |-> a, used |-> FALSE]
  <1>1. /\ TypeOK /\ NameIsSettling /\ Knows(r) /\ req[r] \in Request /\ req[r].pc = "mint"
        /\ accounts[r] = None /\ sessions[r] = None /\ tokens[r] = None
        /\ tokens' = [tokens EXCEPT ![r] = row] /\ Answer(r, req[r], TRUE)
        /\ accounts' = accounts /\ sessions' = sessions /\ lock' = lock
    BY StepParts DEF Mint
  <1>2. req[r].kind = "REQUEST_RESET" /\ Exists(a)
    BY <1>1 DEF Knows, KindClaim
  <1>3. RequestFrame(r) /\ req'[r].pc = "done" /\ req'[r].kind = "REQUEST_RESET"
    BY <1>1, <1>2, AnswerParts DEF TypeOK
  <1>4. row \in Token /\ row.account = a /\ row # None
    <2>1. row \in Token /\ row.account = a
      BY <1>2 DEF Token, Exists
    <2> QED
      BY <2>1, NoneFacts
  <1> HIDE DEF row
  <1>5. /\ tokens'[r] = row /\ \A t \in Requests \ {r} : tokens'[t] = tokens[t]
        /\ tokens' \in [Requests -> Token \cup {None}]
    BY <1>1, <1>4 DEF TypeOK
  <1>6. LockFrame(r)
    BY <1>1, NoLocks, LocksStay DEF InTx
  <1>7. ~Succeeded(r, "RESET")' /\ ~Succeeded(r, "DELETE")'
    BY <1>3 DEF Succeeded
  <1>8. AccountFrame(r) /\ SessionFrame(r)
    BY <1>1, <1>7 DEF TypeOK, AccountFrame, SessionFrame
  <1>9. TokenFrame(r)
    BY <1>1, <1>2, <1>4, <1>5, <1>7 DEF TokenFrame, Exists
  <1>10. Knows(r)'
    BY <1>1, <1>3, <1>7
       DEF Knows, RowClaim, KindClaim, LockClaim, TokenClaim, SweepClaim, DoneClaim, CheckedClaim, InTx
  <1>11. NameIsSettling'
    BY <1>1, <1>3, NamesStayWithTables
  <1> QED
    BY <1>3, <1>6, <1>8, <1>9, <1>10, <1>11, StepKeepsIInv DEF Frame

LEMMA LogOutKeepsIInv ==
    ASSUME IInv, NEW r \in Requests, LogOut(r)
    PROVE  IInv'
  <1> DEFINE s == req[r].via
             row == [sessions[s] EXCEPT !.revoked = TRUE]
  <1>1. /\ TypeOK /\ NameIsSettling /\ Knows(r) /\ req[r] \in Request /\ req[r].pc = "logout"
        /\ accounts[r] = None /\ sessions[r] = None /\ tokens[r] = None
        /\ sessions' = [sessions EXCEPT ![s] = row] /\ Answer(r, req[r], TRUE)
        /\ accounts' = accounts /\ tokens' = tokens /\ lock' = lock
    BY StepParts DEF LogOut
  <1>2. req[r].kind = "LOGOUT" /\ Opened(s) /\ s # r
    BY <1>1 DEF Knows, KindClaim, Opened
  <1>3. RequestFrame(r) /\ req'[r].pc = "done" /\ req'[r].kind = "LOGOUT"
    BY <1>1, <1>2, AnswerParts DEF TypeOK
  <1>4. row \in Session /\ row.account = sessions[s].account /\ row.revoked /\ row # None
    <2>1. sessions[s] \in Session
      BY <1>1, <1>2 DEF TypeOK, Opened
    <2>2. row \in Session /\ row.account = sessions[s].account /\ row.revoked
      BY <2>1 DEF Session
    <2> QED
      BY <2>2, NoneFacts
  <1> HIDE DEF row, s
  <1>5. /\ sessions'[s] = row /\ \A x \in Requests \ {s} : sessions'[x] = sessions[x]
        /\ sessions' \in [Requests -> Session \cup {None}]
    BY <1>1, <1>2, <1>4 DEF TypeOK, Opened
  <1>6. LockFrame(r)
    BY <1>1, NoLocks, LocksStay DEF InTx
  <1>7. ~Succeeded(r, "RESET")' /\ ~Succeeded(r, "DELETE")'
    BY <1>3 DEF Succeeded
  <1>8. AccountFrame(r) /\ TokenFrame(r)
    BY <1>1, <1>7 DEF TypeOK, AccountFrame, TokenFrame
  <1>9. SessionFrame(r)
    BY <1>2, <1>4, <1>5 DEF SessionFrame, Opened
  <1>10. Knows(r)'
    BY <1>1, <1>2, <1>3, <1>5, <1>7
       DEF Knows, RowClaim, KindClaim, LockClaim, TokenClaim, SweepClaim, DoneClaim, CheckedClaim, InTx
  <1>11. NameIsSettling'
    BY <1>1, <1>3, NamesStayWithTables
  <1> QED
    BY <1>3, <1>6, <1>8, <1>9, <1>10, <1>11, StepKeepsIInv DEF Frame

(* A registration adds the account, its password and its first session.    *)
LEMMA CommitRegisterKeepsIInv ==
    ASSUME IInv, NEW r \in Requests, CommitRegister(r)
    PROVE  IInv'
  <1> DEFINE n == req[r].name
             account == [name |-> n, password |-> r, deleted |-> FALSE]
             session == [account |-> r, revoked |-> FALSE]
  <1>1. /\ TypeOK /\ NameIsSettling /\ Knows(r) /\ req[r] \in Request
        /\ req[r].pc = "commit" /\ req[r].kind = "REGISTER"
        /\ accounts[r] = None /\ sessions[r] = None /\ tokens[r] = None
        /\ accounts' = [accounts EXCEPT ![r] = account]
        /\ sessions' = [sessions EXCEPT ![r] = session]
        /\ Answer(r, req[r], TRUE) /\ tokens' = tokens /\ lock' = lock
    BY StepParts DEF CommitRegister
  <1>2. req[r].checked = r /\ n \in Names /\ \A row \in Rows : lock[row] # r
    BY <1>1 DEF Knows, KindClaim, LockClaim
  <1>3. /\ RequestFrame(r) /\ req'[r].pc = "done" /\ req'[r].kind = "REGISTER"
        /\ req'[r].checked = r
    BY <1>1, <1>2, AnswerParts DEF TypeOK
  <1>4. /\ account \in Account /\ account.name = n /\ account.password = r
        /\ session \in Session /\ session.account = r
    BY <1>2 DEF Account, Session
  <1>5. account # None /\ session # None
    BY <1>4, NoneFacts
  <1> HIDE DEF account, session
  <1>6. /\ accounts'[r] = account /\ \A a \in Requests \ {r} : accounts'[a] = accounts[a]
        /\ sessions'[r] = session /\ \A s \in Requests \ {r} : sessions'[s] = sessions[s]
        /\ accounts' \in [Requests -> Account \cup {None}]
        /\ sessions' \in [Requests -> Session \cup {None}]
    BY <1>1, <1>4 DEF TypeOK
  <1>7. LockFrame(r)
    BY <1>1, <1>2, LocksStay
  <1>8. ~Succeeded(r, "RESET")' /\ ~Succeeded(r, "DELETE")'
    BY <1>3 DEF Succeeded
  <1>9. AccountFrame(r)
    BY <1>1, <1>4, <1>6 DEF AccountFrame
  <1>10. SessionFrame(r)
    BY <1>1, <1>4, <1>5, <1>6 DEF SessionFrame
  <1>11. TokenFrame(r)
    BY <1>1, <1>8 DEF TypeOK, TokenFrame
  <1>12. Knows(r)'
    <2>1. CheckedClaim(r)'
      BY <1>3, <1>4, <1>6 DEF CheckedClaim, CheckedFirst
    <2> QED
      BY <1>3, <1>8, <2>1
         DEF Knows, RowClaim, KindClaim, LockClaim, TokenClaim, SweepClaim, DoneClaim, InTx
  <1>13. NameIsSettling'
    <2>1. r \in Inserting(n)
      BY <1>1 DEF Inserting
    <2>2. Named(n) = {} /\ \A q \in Inserting(n) : q = r
      BY <1>1, <1>2, <2>1 DEF NameIsSettling
    <2>3. \A m \in Names : Inserting(m)' \subseteq Inserting(m) \ {r}
      BY <1>3 DEF Inserting, RequestFrame
    <2>4. \A m \in Names : Named(m)' \subseteq Named(m) \cup {r}
      BY <1>6 DEF Named, Live
    <2>5. \A m \in Names \ {n} : Named(m)' \subseteq Named(m)
      BY <1>4, <1>6 DEF Named, Live
    <2> SUFFICES ASSUME NEW m \in Names
                 PROVE  (/\ \A s, p \in Inserting(m) : s = p
                         /\ \A a, b \in Named(m) : a = b
                         /\ Inserting(m) = {} \/ Named(m) = {})'
      BY DEF NameIsSettling
    <2>6. /\ \A s, p \in Inserting(m) : s = p
          /\ \A a, b \in Named(m) : a = b
          /\ Inserting(m) = {} \/ Named(m) = {}
      BY <1>1 DEF NameIsSettling
    <2> HIDE DEF Inserting, Named, n
    <2>7. CASE m = n
      BY <2>2, <2>3, <2>4, <2>7
    <2>8. CASE m # n
      BY <2>3, <2>5, <2>6, <2>8
    <2> QED
      BY <2>7, <2>8
  <1> QED
    BY <1>3, <1>7, <1>9, <1>10, <1>11, <1>12, <1>13, StepKeepsIInv DEF Frame

(* What the UPDATE of sessions has seen is revoked, and so all that was    *)
(* there when the transaction began.                                       *)
LEMMA RevocationFrame ==
    ASSUME IInv, NEW r \in Requests, CommitRevocation(r), req[r].kind \in {"RESET", "DELETE"}
    PROVE  /\ SessionFrame(r) /\ RequestFrame(r) /\ LockFrame(r)
           /\ sessions'[r] = None
           /\ req'[r].pc = "done" /\ req'[r].ok /\ req'[r].kind = req[r].kind
           /\ req'[r].via = req[r].via
           /\ \A s \in req'[r].had : Revoked(s)'
  <1>1. /\ TypeOK /\ Knows(r) /\ req[r] \in Request /\ req[r].pc = "commit"
        /\ sessions[r] = None /\ ReleaseLocks(r) /\ Answer(r, req[r], TRUE)
        /\ sessions' = [s \in Requests |-> IF s \in req[r].seen
                                           THEN [sessions[s] EXCEPT !.revoked = TRUE]
                                           ELSE sessions[s]]
    BY StepParts DEF CommitRevocation
  <1>2. /\ \A s \in req[r].seen : Opened(s)
        /\ \A s \in req[r].had : s \in req[r].seen \/ Revoked(s)
    BY <1>1 DEF Knows, SweepClaim
  <1>3. ASSUME NEW s \in req[r].seen
        PROVE  /\ s \in Requests /\ sessions[s] # None
               /\ sessions'[s] \in Session /\ sessions'[s].account = sessions[s].account
               /\ sessions'[s].revoked /\ sessions'[s] # None
    <2>1. s \in Requests /\ sessions[s] # None /\ sessions[s] \in Session
      BY <1>1, <1>2 DEF Opened, TypeOK
    <2>2. sessions'[s] = [sessions[s] EXCEPT !.revoked = TRUE]
      BY <1>1, <2>1
    <2>3. /\ sessions'[s] \in Session /\ sessions'[s].account = sessions[s].account
          /\ sessions'[s].revoked
      BY <2>1, <2>2 DEF Session
    <2> QED
      BY <2>1, <2>3, NoneFacts
  <1>4. \A s \in Requests \ req[r].seen : sessions'[s] = sessions[s]
    BY <1>1
  <1>5. sessions' \in [Requests -> Session \cup {None}]
    <2>1. \A s \in Requests : sessions'[s] \in Session \cup {None}
      BY <1>1, <1>3, <1>4 DEF TypeOK
    <2>2. sessions' = [s \in Requests |-> sessions'[s]]
      BY <1>1
    <2> QED
      BY <2>1, <2>2
  <1>6. SessionFrame(r)
    BY <1>3, <1>4, <1>5 DEF SessionFrame
  <1>7. /\ RequestFrame(r) /\ req'[r].pc = "done" /\ req'[r].ok
        /\ req'[r].kind = req[r].kind /\ req'[r].via = req[r].via /\ req'[r].had = req[r].had
    BY <1>1, AnswerParts DEF TypeOK
  <1>8. \A s \in req[r].had : Revoked(s)'
    BY <1>2, <1>3, <1>4 DEF Revoked, Opened
  <1>9. sessions'[r] = None
    BY <1>1, <1>3, <1>4
  <1> QED
    BY <1>1, <1>6, <1>7, <1>8, <1>9, LocksAreReleased

LEMMA CommitResetKeepsIInv ==
    ASSUME IInv, NEW r \in Requests, CommitReset(r)
    PROVE  IInv'
  <1> DEFINE a == req[r].account
             t == req[r].via
             account == [accounts[a] EXCEPT !.password = r]
             token == [tokens[t] EXCEPT !.used = TRUE]
  <1>1. /\ TypeOK /\ NameIsSettling /\ Knows(r) /\ req[r].pc = "commit" /\ req[r].kind = "RESET"
        /\ accounts[r] = None /\ sessions[r] = None /\ tokens[r] = None
        /\ CommitRevocation(r) /\ tokens' = [tokens EXCEPT ![t] = token]
        /\ accounts' = IF lock[<<"users", a>>] = r
                       THEN [accounts EXCEPT ![a] = account] ELSE accounts
    BY StepParts DEF CommitReset, CommitRevocation
  <1>2. /\ Exists(a) /\ t \in Requests /\ tokens[t] # None /\ ~tokens[t].used
        /\ lock[<<"tokens", t>>] = r
    BY <1>1 DEF Knows, KindClaim, TokenClaim, InTx
  <1>3. /\ SessionFrame(r) /\ RequestFrame(r) /\ LockFrame(r)
        /\ sessions'[r] = None
        /\ req'[r].pc = "done" /\ req'[r].ok /\ req'[r].kind = "RESET"
        /\ req'[r].via = t /\ \A s \in req'[r].had : Revoked(s)'
    BY <1>1, RevocationFrame
  <1>4. /\ token \in Token /\ token.account = tokens[t].account /\ token.used
        /\ token # None
    <2>1. tokens[t] \in Token
      BY <1>1, <1>2 DEF TypeOK
    <2>2. token \in Token /\ token.account = tokens[t].account /\ token.used
      BY <2>1 DEF Token
    <2> QED
      BY <2>2, NoneFacts
  <1>5. /\ account \in Account /\ account.name = accounts[a].name /\ account.password = r
        /\ (account.deleted <=> accounts[a].deleted) /\ account # None
    <2>1. accounts[a] \in Account
      BY <1>1, <1>2 DEF TypeOK, Exists
    <2>2. account \in Account /\ account.name = accounts[a].name /\ account.password = r
      BY <2>1 DEF Account
    <2>3. account.deleted = accounts[a].deleted
      BY <2>1 DEF Account
    <2> QED
      BY <2>2, <2>3, NoneFacts
  <1> HIDE DEF account, token
  <1>6. /\ tokens'[t] = token /\ \A x \in Requests \ {t} : tokens'[x] = tokens[x]
        /\ tokens' \in [Requests -> Token \cup {None}]
    BY <1>1, <1>2, <1>4 DEF TypeOK
  <1>7. /\ accounts'[a] = account \/ accounts'[a] = accounts[a]
        /\ \A x \in Requests \ {a} : accounts'[x] = accounts[x]
        /\ accounts' \in [Requests -> Account \cup {None}]
    BY <1>1, <1>2, <1>5 DEF TypeOK, Exists
  <1>8. Succeeded(r, "RESET")'
    BY <1>3 DEF Succeeded
  <1>9. AccountFrame(r)
    BY <1>2, <1>5, <1>7, <1>8 DEF AccountFrame, Exists
  <1>10. TokenFrame(r)
    <2>1. lock[<<"tokens", t>>] \in {None, r}
      BY <1>2
    <2> QED
      BY <1>2, <1>3, <1>4, <1>6, <2>1 DEF TokenFrame
  <1>11. Knows(r)'
    <2>1. DoneClaim(r)'
      BY <1>2, <1>3, <1>4, <1>6 DEF DoneClaim
    <2> QED
      BY <1>3, <2>1
         DEF Knows, RowClaim, KindClaim, LockClaim, TokenClaim, SweepClaim, CheckedClaim, InTx
  <1>12. NameIsSettling'
    <2>1. \A x \in Requests : accounts'[x] # None /\ ~accounts'[x].deleted =>
              Live(x) /\ accounts'[x].name = accounts[x].name
      BY <1>2, <1>5, <1>7 DEF Live, Exists
    <2> QED
      BY <1>1, <1>3, <2>1, NamesStay
  <1> QED
    BY <1>3, <1>9, <1>10, <1>11, <1>12, StepKeepsIInv DEF Frame

LEMMA CommitDeleteKeepsIInv ==
    ASSUME IInv, NEW r \in Requests, CommitDelete(r)
    PROVE  IInv'
  <1> DEFINE a == req[r].account
             account == [accounts[a] EXCEPT !.deleted = TRUE]
  <1>1. /\ TypeOK /\ NameIsSettling /\ Knows(r) /\ req[r].pc = "commit" /\ req[r].kind = "DELETE"
        /\ accounts[r] = None /\ sessions[r] = None /\ tokens[r] = None
        /\ CommitRevocation(r) /\ tokens' = tokens
        /\ accounts' = [accounts EXCEPT ![a] = account]
    BY StepParts DEF CommitDelete, CommitRevocation
  <1>2. Exists(a)
    BY <1>1 DEF Knows, KindClaim, InTx
  <1>3. /\ SessionFrame(r) /\ RequestFrame(r) /\ LockFrame(r)
        /\ sessions'[r] = None
        /\ req'[r].pc = "done" /\ req'[r].ok /\ req'[r].kind = "DELETE"
        /\ \A s \in req'[r].had : Revoked(s)'
    BY <1>1, RevocationFrame
  <1>4. /\ account \in Account /\ account.password = accounts[a].password
        /\ account.deleted /\ account # None
    <2>1. accounts[a] \in Account
      BY <1>1, <1>2 DEF TypeOK, Exists
    <2>2. account \in Account /\ account.password = accounts[a].password /\ account.deleted
      BY <2>1 DEF Account
    <2> QED
      BY <2>2, NoneFacts
  <1> HIDE DEF account
  <1>5. /\ accounts'[a] = account
        /\ \A x \in Requests \ {a} : accounts'[x] = accounts[x]
        /\ accounts' \in [Requests -> Account \cup {None}]
    BY <1>1, <1>2, <1>4 DEF TypeOK, Exists
  <1>6. ~Succeeded(r, "RESET")'
    BY <1>3 DEF Succeeded
  <1>7. AccountFrame(r)
    BY <1>2, <1>4, <1>5 DEF AccountFrame, Exists
  <1>8. TokenFrame(r)
    BY <1>1, <1>6 DEF TypeOK, TokenFrame
  <1>9. Knows(r)'
    <2>1. DoneClaim(r)'
      BY <1>3, <1>6 DEF DoneClaim
    <2> QED
      BY <1>3, <2>1
         DEF Knows, RowClaim, KindClaim, LockClaim, TokenClaim, SweepClaim, CheckedClaim, InTx
  <1>10. NameIsSettling'
    <2>1. \A x \in Requests : accounts'[x] # None /\ ~accounts'[x].deleted =>
              Live(x) /\ accounts'[x].name = accounts[x].name
      BY <1>4, <1>5 DEF Live
    <2> QED
      BY <1>1, <1>3, <2>1, NamesStay
  <1> QED
    BY <1>3, <1>7, <1>8, <1>9, <1>10, StepKeepsIInv DEF Frame

-----------------------------------------------------------------------------
(* The theorems.                                                           *)

LEMMA InitIInv == Init => IInv
  <1> SUFFICES ASSUME Init PROVE IInv
    OBVIOUS
  <1>1. PICK founder \in Early \cup {None}, n \in Names, login \in SUBSET Early :
            LET later == IF founder = None THEN {} ELSE Early \ {founder}
            IN  /\ accounts = [r \in Requests |->
                     IF r = founder THEN [name |-> n, password |-> r, deleted |-> FALSE] ELSE None]
                /\ sessions = [r \in Requests |->
                     IF r = founder \/ r \in later \cap login
                     THEN [account |-> founder, revoked |-> FALSE] ELSE None]
                /\ tokens = [r \in Requests |->
                     IF r \in later \ login THEN [account |-> founder, used |-> FALSE] ELSE None]
                /\ lock = [row \in Rows |-> None]
                /\ req = [r \in Requests |->
                     IF r \in Early THEN [Idle EXCEPT !.pc = "done", !.checked = founder] ELSE Idle]
    BY DEF Init
  <1> DEFINE later == IF founder = None THEN {} ELSE Early \ {founder}
             account == [name |-> n, password |-> founder, deleted |-> FALSE]
             session == [account |-> founder, revoked |-> FALSE]
             token == [account |-> founder, used |-> FALSE]
             served == [Idle EXCEPT !.pc = "done", !.checked = founder]
  <1>2. /\ founder \in Requests \cup {None} /\ Early \subseteq Requests
        /\ later \subseteq Early /\ (founder = None => later = {})
    BY EarlyAssumption
  <1>3. /\ served \in Request /\ served.pc = "done" /\ served.kind = None
        /\ served.checked = founder
    BY <1>2, IdleParts DEF Request, PCs
  <1>4. founder # None =>
            /\ account \in Account /\ account.name = n /\ account.password = founder
            /\ session \in Session /\ session.account = founder
            /\ token \in Token /\ token.account = founder
    BY <1>2 DEF Account, Session, Token
  <1>5. /\ accounts = [r \in Requests |-> IF r = founder THEN account ELSE None]
        /\ sessions = [r \in Requests |->
                          IF r = founder \/ r \in later \cap login THEN session ELSE None]
        /\ tokens = [r \in Requests |-> IF r \in later \ login THEN token ELSE None]
        /\ lock = [row \in Rows |-> None]
        /\ req = [r \in Requests |-> IF r \in Early THEN served ELSE Idle]
    BY <1>1
  <1> HIDE DEF later, account, session, token, served
  <1>6. /\ \A r \in Requests : accounts[r] # None =>
              r = founder /\ founder # None /\ accounts[r] = account
        /\ \A r \in Requests : sessions[r] # None =>
              r \in Early /\ founder \in Requests /\ founder # None /\ sessions[r] = session
        /\ \A r \in Requests : tokens[r] # None =>
              r \in Early /\ founder \in Requests /\ founder # None /\ tokens[r] = token
        /\ \A r \in Requests : req[r] = IF r \in Early THEN served ELSE Idle
        /\ founder # None => accounts[founder] = account
    BY <1>2, <1>5, NoneFacts
  <1>7. TypeOK
    <2>1. req \in [Requests -> Request]
      BY <1>3, <1>5, IdleParts
    <2>2. /\ accounts \in [Requests -> Account \cup {None}]
          /\ sessions \in [Requests -> Session \cup {None}]
          /\ tokens \in [Requests -> Token \cup {None}]
      BY <1>2, <1>4, <1>5, NoneFacts
    <2>3. founder # None => accounts[founder] # None
      BY <1>4, <1>6, NoneFacts
    <2> QED
      BY <1>4, <1>5, <1>6, <2>1, <2>2, <2>3 DEF TypeOK
  <1>8. \A r \in Requests :
            /\ req[r].kind = None /\ req[r].pc \in {"idle", "done"}
            /\ req[r].pc = "done" <=> r \in Early
            /\ \A kind \in Kinds : ~Succeeded(r, kind)
    BY <1>3, <1>6, IdleParts, NoneFacts DEF Succeeded
  <1>9. AllKnow
    <2> SUFFICES ASSUME NEW r \in Requests
                 PROVE  Knows(r)
      BY DEF AllKnow
    <2>1. RowClaim(r)
      BY <1>2, <1>6, <1>8 DEF RowClaim
    <2>2. CheckedClaim(r)
      BY <1>3, <1>4, <1>6, <1>8 DEF CheckedClaim, CheckedFirst
    <2> QED
      BY <1>8, <2>1, <2>2
         DEF Knows, KindClaim, LockClaim, TokenClaim, SweepClaim, DoneClaim, InTx, Kinds
  <1>10. PasswordsAreSet
    BY <1>4, <1>6 DEF PasswordsAreSet
  <1>11. NameIsSettling
    BY <1>6, <1>8 DEF NameIsSettling, Inserting, Named, Live
  <1>12. TokenSpentOnce
    BY <1>8 DEF TokenSpentOnce, Kinds
  <1> QED
    BY <1>7, <1>9, <1>10, <1>11, <1>12 DEF IInv

LEMMA NextKeepsIInv == IInv /\ [Next]_vars => IInv'
  <1> SUFFICES ASSUME IInv, [Next]_vars PROVE IInv'
    OBVIOUS
  <1>1. CASE UNCHANGED vars
    BY <1>1 DEF vars, tables, IInv, TypeOK, AllKnow, Knows, RowClaim, KindClaim, LockClaim,
                TokenClaim, SweepClaim, DoneClaim, CheckedClaim, CheckedFirst, PasswordsAreSet,
                NameIsSettling, TokenSpentOnce, Exists, Opened, Revoked, SessionsOf, Succeeded,
                Inserting, Named, Live
  <1>2. ASSUME NEW r \in Requests, Step(r)
        PROVE  IInv'
    BY <1>2, OpenKeepsIInv, MintKeepsIInv, LogOutKeepsIInv, SetPasswordKeepsIInv,
       DeleteUserKeepsIInv, DeleteTwiceKeepsIInv, SeeSessionsKeepsIInv, LockSeenKeepsIInv,
       CommitRegisterKeepsIInv, CommitResetKeepsIInv, CommitDeleteKeepsIInv
       DEF Step
  <1> QED
    BY <1>1, <1>2, ArrivalsKeepIInv, FailKeepsIInv DEF Next

(* What every request knows of the tables is kept by every step.           *)
THEOREM Invariance == Spec => []IInv
  BY InitIInv, NextKeepsIInv, PTL DEF Spec

(* Rows refer to accounts that exist, and whoever holds a lock is in the   *)
(* middle of a transaction.                                                *)
THEOREM Typing == Spec => []TypeOK
  <1>1. IInv => TypeOK
    BY DEF IInv
  <1> QED
    BY Invariance, <1>1, PTL

(* Of all requests that present one reset token at most one succeeds.      *)
THEOREM TokensAreOneTime == Spec => []TokenSpentOnce
  <1>1. IInv => TokenSpentOnce
    BY DEF IInv
  <1> QED
    BY Invariance, <1>1, PTL

LEMMA OldSessionsAreRevoked == IInv => NoOldSessionSurvives
  <1> SUFFICES ASSUME IInv PROVE NoOldSessionSurvives
    OBVIOUS
  <1>0. TypeOK /\ AllKnow /\ PasswordsAreSet
    BY DEF IInv
  <1>1. ASSUME NEW r \in Requests, Succeeded(r, "RESET") \/ Succeeded(r, "DELETE"),
               NEW s \in req[r].had
        PROVE  ~Usable(s)
    BY <1>0, <1>1 DEF AllKnow, Knows, DoneClaim, Revoked, Usable
  <1>2. ASSUME NEW s \in Requests, Usable(s),
               req[s].checked # accounts[sessions[s].account].password
        PROVE  /\ Succeeded(accounts[sessions[s].account].password, "RESET")
               /\ s \notin req[accounts[sessions[s].account].password].had
    <2> DEFINE a == sessions[s].account
               current == accounts[a].password
    <2>1. a \in Requests /\ accounts[a] # None /\ sessions[s] # None
      BY <1>0, <1>2 DEF Usable, TypeOK, Session
    <2>2. current \in Requests
      BY <1>0, <2>1 DEF TypeOK, Account
    <2>3. current = a => req[s].checked = a
      BY <1>0, <2>1 DEF AllKnow, Knows, CheckedClaim, CheckedFirst
    <2>4. Succeeded(current, "RESET")
      BY <1>0, <1>2, <2>1, <2>3 DEF PasswordsAreSet
    <2> QED
      BY <1>1, <1>2, <2>2, <2>4
  <1> QED
    BY <1>1, <1>2 DEF NoOldSessionSurvives

(* After a reset or a deletion no session that was there when it began can *)
(* be used, and a usable session whose login has checked an older password *)
(* is of a login that overlapped the reset.                                *)
THEOREM SessionsAreSwept == Spec => []NoOldSessionSurvives
  BY Invariance, OldSessionsAreRevoked, PTL

LEMMA SettlingNamesAreUnique == IInv => NameIsUnique
  <1> SUFFICES ASSUME IInv, NEW n \in Names
               PROVE  Cardinality(Named(n)) <= 1
    BY DEF NameIsUnique
  <1>1. \A a, b \in Named(n) : a = b
    BY DEF IInv, NameIsSettling
  <1>2. CASE Named(n) = {}
    BY <1>2, FS_EmptySet
  <1>3. CASE Named(n) # {}
    <2>1. PICK a \in Named(n) : Named(n) = {a}
      BY <1>1, <1>3
    <2> QED
      BY <2>1, FS_Singleton
  <1> QED
    BY <1>2, <1>3

(* A name never belongs to two accounts that are not deleted.              *)
THEOREM NamesAreUnique == Spec => []NameIsUnique
  BY Invariance, SettlingNamesAreUnique, PTL

===============================================================================
