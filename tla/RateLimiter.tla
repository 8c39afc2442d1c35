------------------------------ MODULE RateLimiter ------------------------------
(***************************************************************************)
(* The in-memory token bucket in front of the API.  Allow reads the clock  *)
(* before it takes the mutex, so the goroutines may use their readings in  *)
(* another order than they took them; Cleanup, in a goroutine of its own,  *)
(* does the same and forgets the buckets that have long been idle.  The    *)
(* readings are of the wall clock: UTC() strips the monotonic part of      *)
(* time.Now(), so whoever sets the clock back sets the readings back.      *)
(* The code's real-valued tokens are counted here in integer units: a      *)
(* request costs Cost units and Rate units flow in per tick of the clock.  *)
(***************************************************************************)
EXTENDS Integers

CONSTANTS
    Keys,           \* client addresses
    Requests,       \* goroutines that serve requests, one after the other
    Cost,           \* units of one token
    Rate,           \* units refilled per tick
    Burst,          \* units of a full bucket
    Ttl,            \* ticks after which an idle bucket is forgotten
    MaxLag,         \* bound: ticks a reading in use may be behind the clock's furthest
    Horizon,        \* bound: last tick of the clock
    None

ASSUME CostAssumption == Cost \in Nat /\ Cost > 0
ASSUME RateAssumption == Rate \in Nat /\ Rate > 0
ASSUME BurstAssumption == Burst \in Nat /\ Burst >= Cost
ASSUME LagAssumption == MaxLag \in Nat
ASSUME HorizonAssumption == Horizon \in Nat
(* A bucket is full again long before it is forgotten (50 per second, 100  *)
(* and ten minutes in the code: a lag of 299 seconds is covered).          *)
ASSUME TtlAssumption == Ttl \in Nat /\ Burst + 2 * (Rate * MaxLag) <= Rate * Ttl
ASSUME NoneAssumption == None \notin [tokens : Int, last : Nat]

VARIABLES
    clock,          \* SystemClock: the wall clock, which may be set back
    latest,         \* history: the furthest the clock has been
    buckets,        \* buckets[k]: the bucket of key k, or None
    req,            \* req[r]: the key and reading of a request before its mutex, or None
    sweep,          \* the reading of Cleanup before its mutex, or None
    reached,        \* history: reached[k]: the furthest reading the bucket of k has met
    window,         \* history: any interval of time, fixed at the start
    granted         \* history: requests of k allowed with a reading in window

vars == <<clock, latest, buckets, req, sweep, reached, window, granted>>

Bucket == [tokens : Int, last : Nat]

Pending == [key : Keys, now : Nat]

Init ==
    /\ clock = 0
    /\ latest = 0
    /\ buckets = [k \in Keys |-> None]
    /\ req = [r \in Requests |-> None]
    /\ sweep = None
    /\ reached = [k \in Keys |-> 0]
    /\ window \in [from : 0..Horizon, to : 0..Horizon]
    /\ window.from <= window.to
    /\ granted = [k \in Keys |-> 0]

-----------------------------------------------------------------------------
Later(s, t) == IF s < t THEN t ELSE s

(* Time passes, as far as the readings in use allow.                       *)
Tick ==
    /\ clock < Horizon
    /\ clock' = clock + 1
    /\ latest' = Later(latest, clock + 1)
    /\ \A r \in Requests : req[r] # None => latest' - req[r].now <= MaxLag
    /\ sweep # None => latest' - sweep <= MaxLag
    /\ UNCHANGED <<buckets, req, sweep, reached, window, granted>>

(* The wall clock is set back.                                             *)
SetBack(t) ==
    /\ t < clock
    /\ latest - t <= MaxLag
    /\ clock' = t
    /\ UNCHANGED <<latest, buckets, req, sweep, reached, window, granted>>

ReadClock(r, k) ==
    /\ req[r] = None
    /\ req' = [req EXCEPT ![r] = [key |-> k, now |-> clock]]
    /\ UNCHANGED <<clock, latest, buckets, sweep, reached, window, granted>>

(* Without the capacity of the bucket.                                     *)
Refilled_NoCap(b, now) == b.tokens + (now - b.last) * Rate

(* The tokens of bucket b at a reading, which may be older than b.last.    *)
Refilled(b, now) ==
    LET tokens == b.tokens + (now - b.last) * Rate
    IN  IF tokens < Burst THEN tokens ELSE Burst

Suffices(tokens) == tokens >= Cost

InWindow(t) == window.from <= t /\ t <= window.to

(* Allow, under the mutex, ends with a bucket and an answer.               *)
Answer(r, tokens, allowed) ==
    LET k == req[r].key
        now == req[r].now
    IN  /\ buckets' = [buckets EXCEPT ![k] = [tokens |-> tokens, last |-> now]]
        /\ reached' = [reached EXCEPT ![k] = IF buckets[k] = None THEN now ELSE Later(@, now)]
        /\ granted' = IF allowed /\ InWindow(now) THEN [granted EXCEPT ![k] = @ + 1] ELSE granted
        /\ req' = [req EXCEPT ![r] = None]
        /\ UNCHANGED <<clock, latest, sweep, window>>

NewBucket(r) ==
    /\ req[r] # None
    /\ buckets[req[r].key] = None
    /\ Answer(r, Burst - Cost, TRUE)

Take(r) ==
    LET b == buckets[req[r].key]
    IN  /\ req[r] # None
        /\ b # None
        /\ Suffices(Refilled(b, req[r].now))
        /\ Answer(r, Refilled(b, req[r].now) - Cost, TRUE)

(* A refusal that takes its token before it looks.                         *)
Refuse_Charged(r) ==
    LET b == buckets[req[r].key]
    IN  /\ req[r] # None
        /\ b # None
        /\ ~Suffices(Refilled(b, req[r].now))
        /\ Answer(r, Refilled(b, req[r].now) - Cost, FALSE)

Refuse(r) ==
    LET b == buckets[req[r].key]
    IN  /\ req[r] # None
        /\ b # None
        /\ ~Suffices(Refilled(b, req[r].now))
        /\ Answer(r, Refilled(b, req[r].now), FALSE)

StartCleanup ==
    /\ sweep = None
    /\ sweep' = clock
    /\ UNCHANGED <<clock, latest, buckets, req, reached, window, granted>>

(* Forgetting the buckets that have been idle for one tick less.           *)
Expired_EveryMinute(b) == sweep - b.last > 1

Expired(b) == sweep - b.last > Ttl

Cleanup ==
    /\ sweep # None
    /\ buckets' = [k \in Keys |-> IF buckets[k] # None /\ Expired(buckets[k]) THEN None
                                  ELSE buckets[k]]
    /\ sweep' = None
    /\ UNCHANGED <<clock, latest, req, reached, window, granted>>

Next ==
    \/ Tick
    \/ \E t \in 0..Horizon : SetBack(t)
    \/ \E r \in Requests, k \in Keys : ReadClock(r, k)
    \/ \E r \in Requests : NewBucket(r) \/ Take(r) \/ Refuse(r)
    \/ StartCleanup
    \/ Cleanup

Spec == Init /\ [][Next]_vars

-----------------------------------------------------------------------------
(* Properties.                                                             *)

(* Every variable has its type, and no bucket holds more than it can.      *)
TypeOK ==
    /\ clock \in Nat /\ latest \in Nat
    /\ buckets \in [Keys -> Bucket \cup {None}]
    /\ \A k \in Keys : buckets[k] # None => buckets[k].tokens <= Burst
    /\ req \in [Requests -> Pending \cup {None}]
    /\ sweep \in Nat \cup {None}
    /\ reached \in [Keys -> Nat]
    /\ window \in [from : Nat, to : Nat]
    /\ window.from <= window.to
    /\ granted \in [Keys -> Nat]

(* The ceiling the token bucket promises: of the requests of one address   *)
(* that read the clock within any interval, at most a full bucket and the  *)
(* interval's refill are allowed.  Readings used out of order gain nothing *)
(* and neither does a bucket that Cleanup forgets.                         *)
WindowBound ==
    \A k \in Keys : granted[k] * Cost <= Burst + Rate * (window.to - window.from)

(* What out-of-order readings or a clock set back take from a bucket is    *)
(* given back: an address is never refused once its reading is a token's   *)
(* refill past every reading that its bucket has met.  So a clock that is  *)
(* set back punishes it until the clock is where it was, and no longer.    *)
RestedKeyIsServed ==
    [][\A r \in Requests :
         Refuse(r) => Rate * (req[r].now - reached[req[r].key]) < Cost]_vars

=============================================================================
