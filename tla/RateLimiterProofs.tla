--------------------------- MODULE RateLimiterProofs ---------------------------
(***************************************************************************)
(* Proofs about RateLimiter.  The argument follows a potential: what a     *)
(* bucket holds minus what has flowed in since the start of time never     *)
(* grows while the bucket lives, whatever reading Allow uses, and every    *)
(* allowed request takes Cost from it.                                     *)
(***************************************************************************)
EXTENDS RateLimiter, TLAPS

Recent(t) == t \in Nat /\ t <= latest /\ latest - t <= MaxLag

(* Readings in use, and the clock itself, are recent.                      *)
ReadingsAreRecent ==
    /\ Recent(clock)
    /\ \A r \in Requests : req[r] # None => Recent(req[r].now)
    /\ sweep # None => Recent(sweep)

(* A bucket's tokens, and what they have cost: with each bucket's tokens   *)
(* and Rate * last, granted adds up to no more than a full bucket at the   *)
(* start of the window.                                                    *)
LiveBucket(b, g) ==
    /\ b.last <= latest
    /\ b.tokens <= Burst
    /\ b.tokens + Rate * MaxLag >= 0
    /\ b.tokens + (Rate * latest - Rate * b.last) >= 0
    /\ g > 0 => g * Cost + b.tokens - Rate * b.last <= Burst - Rate * window.from

(* A forgotten bucket had time to fill up again before any reading that    *)
(* can still be used.                                                      *)
NoBucket(g) ==
    g > 0 => g * Cost <= Rate * latest - Rate * MaxLag - Rate * window.from

Accounts ==
    \A k \in Keys : IF buckets[k] = None THEN NoBucket(granted[k])
                    ELSE LiveBucket(buckets[k], granted[k])

(* What a bucket owes is no more than what flows in until the clock is at  *)
(* the furthest reading that the bucket has met.                           *)
Backed(b, top) ==
    /\ b.last <= top
    /\ b.tokens + (Rate * top - Rate * b.last) >= 0

DebtsAreBacked == \A k \in Keys : buckets[k] # None => Backed(buckets[k], reached[k])

IInv == TypeOK /\ ReadingsAreRecent /\ Accounts /\ WindowBound /\ DebtsAreBacked

-----------------------------------------------------------------------------
(* Refilling for longer gives no less.                                     *)
LEMMA Monotone ==
    ASSUME NEW a \in Int, NEW b \in Int, a <= b
    PROVE  Rate * a <= Rate * b
BY RateAssumption

(* What Refilled returns: never more than the bucket holds, nor than what  *)
(* has flowed in, and never less than the smaller of the two.              *)
LEMMA RefilledFacts ==
    ASSUME NEW b \in Bucket, NEW now \in Nat
    PROVE  LET f == Refilled(b, now)
               full == b.tokens + Rate * now - Rate * b.last
           IN  /\ f \in Int /\ full \in Int
               /\ f <= Burst /\ f <= full
               /\ f = Burst \/ f = full
<1>1. b.tokens \in Int /\ b.last \in Nat
  BY DEF Bucket
<1>2. (now - b.last) * Rate = Rate * now - Rate * b.last
  BY <1>1, RateAssumption
<1>3. Rate * now \in Int /\ Rate * b.last \in Int
  BY <1>1, RateAssumption
<1> QED
  BY <1>1, <1>2, <1>3, BurstAssumption DEF Refilled

(* The type invariant is inductive.                                        *)
LEMMA InitTypeOK == Init => TypeOK
BY HorizonAssumption DEF Init, TypeOK

LEMMA NextTypeOK == TypeOK /\ [Next]_vars => TypeOK'
<1> SUFFICES ASSUME TypeOK, [Next]_vars PROVE TypeOK'
  OBVIOUS
<1>0. \A x, y \in Nat : Later(x, y) \in Nat
  BY DEF Later
<1>1. CASE Tick
  <2>1. clock + 1 \in Nat /\ latest \in Nat
    BY DEF TypeOK
  <2>2. Later(latest, clock + 1) \in Nat
    BY <1>0, <2>1
  <2> QED
    BY <1>1, <2>1, <2>2 DEF TypeOK, Tick
<1>2. ASSUME NEW r \in Requests, NEW k \in Keys, ReadClock(r, k) PROVE TypeOK'
  BY <1>2 DEF TypeOK, ReadClock, Pending
<1>3. ASSUME NEW r \in Requests, NEW tokens \in Int, NEW allowed \in BOOLEAN,
             tokens <= Burst, req[r] # None, Answer(r, tokens, allowed)
      PROVE  TypeOK'
  <2>1. req[r] \in Pending
    BY <1>3 DEF TypeOK
  <2>2. req[r].key \in Keys /\ req[r].now \in Nat
    BY <2>1 DEF Pending
  <2>3. [tokens |-> tokens, last |-> req[r].now] \in Bucket
    BY <2>2, <1>3 DEF Bucket
  <2>4. (IF buckets[req[r].key] = None THEN req[r].now
         ELSE Later(reached[req[r].key], req[r].now)) \in Nat
    BY <1>0, <2>2 DEF TypeOK
  <2> QED
    BY <1>3, <2>2, <2>3, <2>4 DEF TypeOK, Answer
<1>4. ASSUME NEW r \in Requests, NewBucket(r) PROVE TypeOK'
  <2>1. Burst - Cost \in Int /\ Burst - Cost <= Burst
    BY BurstAssumption, CostAssumption
  <2> QED
    BY <1>3, <1>4, <2>1 DEF NewBucket
<1>5. ASSUME NEW r \in Requests, Take(r) \/ Refuse(r) PROVE TypeOK'
  <2>1. req[r] # None /\ buckets[req[r].key] # None
    BY <1>5 DEF Take, Refuse
  <2>2. req[r].key \in Keys /\ req[r].now \in Nat
    BY <2>1 DEF TypeOK, Pending
  <2>3. buckets[req[r].key] \in Bucket
    BY <2>1, <2>2 DEF TypeOK
  <2>4. /\ Refilled(buckets[req[r].key], req[r].now) \in Int
        /\ Refilled(buckets[req[r].key], req[r].now) <= Burst
    BY <2>2, <2>3, RefilledFacts
  <2>5. /\ Refilled(buckets[req[r].key], req[r].now) - Cost \in Int
        /\ Refilled(buckets[req[r].key], req[r].now) - Cost <= Burst
    BY <2>4, CostAssumption, BurstAssumption
  <2> QED
    BY <1>3, <1>5, <2>1, <2>4, <2>5 DEF Take, Refuse
<1>6. CASE StartCleanup
  BY <1>6 DEF TypeOK, StartCleanup
<1>7. CASE Cleanup
  BY <1>7 DEF TypeOK, Cleanup
<1>8. CASE UNCHANGED vars
  BY <1>8 DEF TypeOK, vars
<1>9. ASSUME NEW t \in 0..Horizon, SetBack(t) PROVE TypeOK'
  BY <1>9, HorizonAssumption DEF TypeOK, SetBack
<1> QED
  BY <1>1, <1>2, <1>4, <1>5, <1>6, <1>7, <1>8, <1>9 DEF Next

-----------------------------------------------------------------------------
(* The guards of Tick and SetBack keep every reading recent.               *)
LEMMA NextReadings == TypeOK /\ ReadingsAreRecent /\ [Next]_vars => ReadingsAreRecent'
<1> SUFFICES ASSUME TypeOK, ReadingsAreRecent, [Next]_vars PROVE ReadingsAreRecent'
  OBVIOUS
<1>1. CASE Tick
  BY <1>1, LagAssumption DEF TypeOK, Tick, Later, ReadingsAreRecent, Recent, Pending
<1>2. ASSUME NEW t \in 0..Horizon, SetBack(t) PROVE ReadingsAreRecent'
  BY <1>2, HorizonAssumption DEF TypeOK, SetBack, ReadingsAreRecent, Recent
<1>3. ASSUME NEW r \in Requests, NEW k \in Keys, ReadClock(r, k) PROVE ReadingsAreRecent'
  BY <1>3 DEF TypeOK, ReadClock, ReadingsAreRecent, Recent, Pending
<1>4. ASSUME NEW r \in Requests, NewBucket(r) \/ Take(r) \/ Refuse(r) PROVE ReadingsAreRecent'
  BY <1>4 DEF TypeOK, NewBucket, Take, Refuse, Answer, ReadingsAreRecent, Recent
<1>5. CASE StartCleanup
  BY <1>5 DEF TypeOK, StartCleanup, ReadingsAreRecent, Recent
<1>6. CASE Cleanup
  BY <1>6 DEF TypeOK, Cleanup, ReadingsAreRecent, Recent
<1>7. CASE UNCHANGED vars
  BY <1>7 DEF vars, ReadingsAreRecent, Recent
<1> QED
  BY <1>1, <1>2, <1>3, <1>4, <1>5, <1>6, <1>7 DEF Next

-----------------------------------------------------------------------------
(* The accounts of one key.  Numbers is the typing that the arithmetic of  *)
(* the following lemmas needs.                                             *)
Bound(g) == g * Cost <= Burst + Rate * (window.to - window.from)

LEMMA Numbers ==
    ASSUME TypeOK
    PROVE  /\ window.from \in Nat /\ window.to \in Nat /\ window.from <= window.to
           /\ latest \in Nat
           /\ Rate * window.from \in Int /\ Rate * window.to \in Int
           /\ Rate * latest \in Int /\ Rate * MaxLag \in Nat
           /\ Rate * (window.to - window.from) = Rate * window.to - Rate * window.from
BY RateAssumption, LagAssumption DEF TypeOK

(* A recent reading, scaled by Rate.                                       *)
LEMMA RecentScaled ==
    ASSUME TypeOK, NEW now \in Nat, Recent(now)
    PROVE  /\ Rate * now \in Int
           /\ Rate * now <= Rate * latest
           /\ Rate * latest - Rate * now <= Rate * MaxLag
<1>1. latest \in Nat /\ MaxLag \in Nat
  BY LagAssumption DEF TypeOK
<1>2. Rate * now <= Rate * latest
  BY <1>1, Monotone DEF Recent
<1>3. Rate * (latest - now) <= Rate * MaxLag
  BY <1>1, Monotone DEF Recent
<1>4. Rate * (latest - now) = Rate * latest - Rate * now
  BY <1>1, RateAssumption
<1>5. Rate * now \in Int
  BY RateAssumption
<1> QED
  BY <1>2, <1>3, <1>4, <1>5

(* An allowed request pays for itself: t is what it leaves in the bucket.  *)
LEMMA AllowedAccount ==
    ASSUME TypeOK, NEW now \in Nat, Recent(now), NEW g \in Nat, NEW t \in Int,
           t >= 0, t + Cost <= Burst, Bound(g),
           g > 0 => g * Cost + t + Cost - Rate * now <= Burst - Rate * window.from
    PROVE  LET h == IF InWindow(now) THEN g + 1 ELSE g
           IN  LiveBucket([tokens |-> t, last |-> now], h) /\ Bound(h)
<1>1. g * Cost \in Nat /\ (g + 1) * Cost = g * Cost + Cost /\ (g = 0 => g * Cost = 0)
  BY CostAssumption
<1>2. CASE InWindow(now)
  <2>1. Rate * window.from <= Rate * now /\ Rate * now <= Rate * window.to
    BY <1>2, Numbers, Monotone DEF InWindow
  <2>2. (g + 1) * Cost + t - Rate * now <= Burst - Rate * window.from
    BY <1>1, <2>1, Numbers, RecentScaled, CostAssumption, BurstAssumption
  <2>3. Bound(g + 1)
    BY <1>1, <2>1, <2>2, Numbers, RecentScaled, CostAssumption, BurstAssumption DEF Bound
  <2>4. LiveBucket([tokens |-> t, last |-> now], g + 1)
    BY <2>2, Numbers, RecentScaled, CostAssumption, BurstAssumption DEF LiveBucket, Recent
  <2> QED
    BY <1>2, <2>3, <2>4
<1>3. CASE ~InWindow(now)
  <2>1. LiveBucket([tokens |-> t, last |-> now], g)
    BY <1>1, Numbers, RecentScaled, CostAssumption, BurstAssumption DEF LiveBucket, Recent
  <2> QED
    BY <1>3, <2>1
<1> QED
  BY <1>2, <1>3

(* The tokens that a reading finds in a live bucket.                       *)
LEMMA FoundTokens ==
    ASSUME TypeOK, NEW now \in Nat, Recent(now), NEW g \in Nat, NEW b \in Bucket,
           LiveBucket(b, g)
    PROVE  LET f == Refilled(b, now)
           IN  /\ f \in Int /\ f <= Burst
               /\ f + (Rate * latest - Rate * now) >= 0
               /\ f + Rate * MaxLag >= 0
               /\ g > 0 => g * Cost + f - Rate * now <= Burst - Rate * window.from
<1>1. b.tokens \in Int /\ b.last \in Nat /\ Rate * b.last \in Int
  BY RateAssumption DEF Bucket
<1>2. g * Cost \in Nat
  BY CostAssumption
<1>3. /\ Refilled(b, now) \in Int
      /\ Refilled(b, now) <= Burst
      /\ Refilled(b, now) <= b.tokens + Rate * now - Rate * b.last
      /\ \/ Refilled(b, now) = Burst
         \/ Refilled(b, now) = b.tokens + Rate * now - Rate * b.last
  BY RefilledFacts
<1>4. Refilled(b, now) + (Rate * latest - Rate * now) >= 0
  BY <1>1, <1>3, Numbers, RecentScaled, BurstAssumption DEF LiveBucket
<1>5. Refilled(b, now) + Rate * MaxLag >= 0
  BY <1>3, <1>4, Numbers, RecentScaled
<1>6. g > 0 => g * Cost + Refilled(b, now) - Rate * now <= Burst - Rate * window.from
  BY <1>1, <1>2, <1>3, Numbers, RecentScaled, BurstAssumption DEF LiveBucket
<1> QED
  BY <1>3, <1>4, <1>5, <1>6

(* The key that a request uses, and what Allow does to it.                 *)
LEMMA RequestFacts ==
    ASSUME TypeOK, ReadingsAreRecent, NEW r \in Requests, req[r] # None
    PROVE  /\ req[r].key \in Keys
           /\ req[r].now \in Nat /\ Recent(req[r].now)
           /\ granted[req[r].key] \in Nat
           /\ buckets[req[r].key] # None => buckets[req[r].key] \in Bucket
BY DEF TypeOK, ReadingsAreRecent, Pending

(* An answer that keeps the accounts of its key keeps them all.            *)
LEMMA AnswerKeepsOthers ==
    ASSUME TypeOK, ReadingsAreRecent, Accounts, WindowBound,
           NEW r \in Requests, req[r] # None, NEW t \in Int, NEW allowed \in BOOLEAN,
           Answer(r, t, allowed),
           LET g == granted[req[r].key]
               h == IF allowed /\ InWindow(req[r].now) THEN g + 1 ELSE g
           IN  LiveBucket([tokens |-> t, last |-> req[r].now], h) /\ Bound(h)
    PROVE  Accounts' /\ WindowBound'
<1> DEFINE key == req[r].key
           b == [tokens |-> t, last |-> req[r].now]
           h == IF allowed /\ InWindow(req[r].now) THEN granted[key] + 1 ELSE granted[key]
<1>1. key \in Keys /\ req[r].now \in Nat
  BY RequestFacts
<1>2. /\ buckets' = [buckets EXCEPT ![key] = b]
      /\ latest' = latest /\ window' = window
  BY DEF Answer
<1>3. granted'[key] = h /\ \A k \in Keys \ {key} : granted'[k] = granted[k]
  BY <1>1 DEF Answer, TypeOK
<1>4. b # None
  BY <1>1, NoneAssumption
<1>5. ASSUME NEW k \in Keys
      PROVE  /\ IF buckets'[k] = None THEN NoBucket(granted[k])'
                ELSE LiveBucket(buckets[k], granted[k])'
             /\ granted'[k] * Cost <= Burst + Rate * (window'.to - window'.from)
  <2>1. CASE k = key
    <3>1. buckets'[k] = b /\ granted'[k] = h
      BY <1>1, <1>2, <1>3, <2>1 DEF TypeOK
    <3>2. LiveBucket(b, h) /\ Bound(h)
      OBVIOUS
    <3> QED
      BY <1>2, <1>4, <3>1, <3>2 DEF LiveBucket, Bound
  <2>2. CASE k # key
    <3>1. buckets'[k] = buckets[k] /\ granted'[k] = granted[k]
      BY <1>1, <1>2, <1>3, <2>2 DEF TypeOK
    <3> QED
      BY <1>2, <3>1 DEF Accounts, WindowBound, LiveBucket, NoBucket
  <2> QED
    BY <2>1, <2>2
<1> QED
  BY <1>5 DEF Accounts, WindowBound

(* A new bucket is full: nothing was granted, or it had the time to fill.  *)
LEMMA NewBucketAccounts ==
    ASSUME TypeOK, ReadingsAreRecent, Accounts, WindowBound,
           NEW r \in Requests, NewBucket(r)
    PROVE  Accounts' /\ WindowBound'
<1> DEFINE g == granted[req[r].key]
<1>1. req[r] # None /\ buckets[req[r].key] = None /\ Answer(r, Burst - Cost, TRUE)
  BY DEF NewBucket
<1>2. req[r].key \in Keys /\ req[r].now \in Nat /\ Recent(req[r].now) /\ g \in Nat
  BY <1>1, RequestFacts
<1>3. NoBucket(g) /\ Bound(g)
  BY <1>1, <1>2 DEF Accounts, WindowBound, Bound
<1>4. g * Cost \in Nat
  BY <1>2, CostAssumption
<1>5. g > 0 => g * Cost + (Burst - Cost) + Cost - Rate * req[r].now <= Burst - Rate * window.from
  BY <1>2, <1>3, <1>4, Numbers, RecentScaled, BurstAssumption, CostAssumption DEF NoBucket
<1>6. Burst - Cost \in Int /\ Burst - Cost >= 0 /\ (Burst - Cost) + Cost <= Burst
  BY BurstAssumption, CostAssumption
<1>7. LET h == IF InWindow(req[r].now) THEN g + 1 ELSE g
      IN  LiveBucket([tokens |-> Burst - Cost, last |-> req[r].now], h) /\ Bound(h)
  BY <1>2, <1>3, <1>5, <1>6, AllowedAccount
<1> QED
  BY <1>1, <1>6, <1>7, AnswerKeepsOthers

LEMMA TakeAccounts ==
    ASSUME TypeOK, ReadingsAreRecent, Accounts, WindowBound,
           NEW r \in Requests, Take(r)
    PROVE  Accounts' /\ WindowBound'
<1> DEFINE g == granted[req[r].key]
           f == Refilled(buckets[req[r].key], req[r].now)
<1>1. req[r] # None /\ buckets[req[r].key] # None /\ f >= Cost /\ Answer(r, f - Cost, TRUE)
  BY DEF Take, Suffices
<1>2. /\ req[r].key \in Keys /\ req[r].now \in Nat /\ Recent(req[r].now) /\ g \in Nat
      /\ buckets[req[r].key] \in Bucket
  BY <1>1, RequestFacts
<1>3. LiveBucket(buckets[req[r].key], g) /\ Bound(g)
  BY <1>1, <1>2 DEF Accounts, WindowBound, Bound
<1>4. /\ f \in Int /\ f <= Burst
      /\ g > 0 => g * Cost + f - Rate * req[r].now <= Burst - Rate * window.from
  BY <1>2, <1>3, FoundTokens
<1>5. g * Cost \in Nat /\ Rate * req[r].now \in Int
  BY <1>2, CostAssumption, RateAssumption
<1>6. /\ f - Cost \in Int /\ f - Cost >= 0 /\ (f - Cost) + Cost <= Burst
      /\ g > 0 => g * Cost + (f - Cost) + Cost - Rate * req[r].now <= Burst - Rate * window.from
  BY <1>1, <1>4, <1>5, CostAssumption
<1> HIDE DEF f
<1>7. LET h == IF InWindow(req[r].now) THEN g + 1 ELSE g
      IN  LiveBucket([tokens |-> f - Cost, last |-> req[r].now], h) /\ Bound(h)
  BY <1>2, <1>3, <1>6, AllowedAccount
<1> QED
  BY <1>1, <1>6, <1>7, AnswerKeepsOthers

(* A refusal leaves what it found, which may be less than nothing.         *)
LEMMA RefuseAccounts ==
    ASSUME TypeOK, ReadingsAreRecent, Accounts, WindowBound,
           NEW r \in Requests, Refuse(r)
    PROVE  Accounts' /\ WindowBound'
<1> DEFINE g == granted[req[r].key]
           f == Refilled(buckets[req[r].key], req[r].now)
<1>1. req[r] # None /\ buckets[req[r].key] # None /\ Answer(r, f, FALSE)
  BY DEF Refuse
<1>2. /\ req[r].key \in Keys /\ req[r].now \in Nat /\ Recent(req[r].now) /\ g \in Nat
      /\ buckets[req[r].key] \in Bucket
  BY <1>1, RequestFacts
<1>3. LiveBucket(buckets[req[r].key], g) /\ Bound(g)
  BY <1>1, <1>2 DEF Accounts, WindowBound, Bound
<1>4. /\ f \in Int /\ f <= Burst
      /\ f + (Rate * latest - Rate * req[r].now) >= 0
      /\ f + Rate * MaxLag >= 0
      /\ g > 0 => g * Cost + f - Rate * req[r].now <= Burst - Rate * window.from
  BY <1>2, <1>3, FoundTokens
<1> HIDE DEF f
<1>5. LiveBucket([tokens |-> f, last |-> req[r].now], g)
  BY <1>2, <1>4 DEF LiveBucket, Recent
<1> QED
  BY <1>1, <1>3, <1>4, <1>5, AnswerKeepsOthers

-----------------------------------------------------------------------------
(* The clock moves: nothing flows into a bucket before it is asked.        *)
LEMMA ClockKeepsAccounts ==
    ASSUME TypeOK, Accounts, WindowBound, TypeOK', latest' >= latest,
           UNCHANGED <<buckets, window, granted>>
    PROVE  Accounts' /\ WindowBound'
<1>1. latest \in Nat /\ latest' \in Nat
  BY DEF TypeOK
<1>2. Rate * latest <= Rate * latest' /\ Rate * latest \in Int /\ Rate * latest' \in Int
  <2> DEFINE was == latest
             is == latest'
  <2>1. was \in Int /\ is \in Int /\ was <= is
    BY <1>1
  <2> HIDE DEF was, is
  <2>2. Rate * was <= Rate * is /\ Rate * was \in Int /\ Rate * is \in Int
    BY <2>1, Monotone, RateAssumption
  <2> QED
    BY <2>2 DEF was, is
<1>3. WindowBound'
  BY DEF WindowBound
<1>4. ASSUME NEW k \in Keys, buckets[k] = None PROVE NoBucket(granted[k])'
  <2>1. granted[k] * Cost \in Int
    BY CostAssumption DEF TypeOK
  <2> QED
    BY <1>2, <1>4, <2>1, Numbers DEF Accounts, NoBucket
<1>5. ASSUME NEW k \in Keys, buckets[k] # None PROVE LiveBucket(buckets[k], granted[k])'
  <2>1. buckets[k].tokens \in Int /\ buckets[k].last \in Nat /\ Rate * buckets[k].last \in Int
    BY <1>5, RateAssumption DEF TypeOK, Bucket
  <2> QED
    BY <1>1, <1>2, <1>5, <2>1, Numbers DEF Accounts, LiveBucket
<1> QED
  BY <1>3, <1>4, <1>5 DEF Accounts

(* A bucket that Cleanup forgets was full, even at the oldest reading that *)
(* may still be used.                                                      *)
LEMMA ForgottenWasFull ==
    ASSUME TypeOK, ReadingsAreRecent, sweep # None,
           NEW b \in Bucket, NEW g \in Nat, Expired(b), LiveBucket(b, g)
    PROVE  NoBucket(g)
<1>1. b.tokens \in Int /\ b.last \in Nat /\ Rate * b.last \in Int /\ Ttl \in Nat
  BY RateAssumption, TtlAssumption DEF Bucket
<1>2. sweep \in Nat /\ Recent(sweep)
  BY DEF TypeOK, ReadingsAreRecent
<1>3. Rate * (b.last + Ttl) <= Rate * sweep
  BY <1>1, <1>2, Monotone DEF Expired
<1>4. Rate * (b.last + Ttl) = Rate * b.last + Rate * Ttl /\ Rate * Ttl \in Int
  BY <1>1, RateAssumption
<1>5. g * Cost \in Nat
  BY CostAssumption
<1>6. Rate * sweep <= Rate * latest /\ Rate * sweep \in Int
  BY <1>2, RecentScaled
<1>7. Rate * b.last + Burst + 2 * (Rate * MaxLag) <= Rate * latest
  BY <1>1, <1>3, <1>4, <1>6, Numbers, TtlAssumption, BurstAssumption
<1> QED
  BY <1>1, <1>5, <1>7, Numbers, BurstAssumption DEF LiveBucket, NoBucket

LEMMA CleanupAccounts ==
    ASSUME TypeOK, ReadingsAreRecent, Accounts, WindowBound, Cleanup
    PROVE  Accounts' /\ WindowBound'
<1>1. sweep # None /\ UNCHANGED <<latest, window, granted>>
  BY DEF Cleanup
<1>2. WindowBound'
  BY <1>1 DEF WindowBound
<1>3. ASSUME NEW k \in Keys
      PROVE  IF buckets'[k] = None THEN NoBucket(granted[k])'
             ELSE LiveBucket(buckets[k], granted[k])'
  <2>1. granted[k] \in Nat /\ (buckets[k] # None => buckets[k] \in Bucket)
    BY DEF TypeOK
  <2>2. CASE buckets[k] # None /\ Expired(buckets[k])
    <3>1. NoBucket(granted[k])
      BY <1>1, <2>1, <2>2, ForgottenWasFull DEF Accounts
    <3> QED
      BY <1>1, <2>2, <3>1 DEF Cleanup, NoBucket
  <2>3. CASE ~(buckets[k] # None /\ Expired(buckets[k]))
    <3>1. buckets'[k] = buckets[k]
      BY <2>3 DEF Cleanup
    <3> QED
      BY <1>1, <3>1 DEF Accounts, NoBucket, LiveBucket
  <2> QED
    BY <2>2, <2>3
<1> QED
  BY <1>2, <1>3 DEF Accounts

-----------------------------------------------------------------------------
(* An answer leaves the bucket no deeper in debt than its reading was late.*)
LEMMA AnswerKeepsBacking ==
    ASSUME TypeOK, ReadingsAreRecent, DebtsAreBacked,
           NEW r \in Requests, req[r] # None, NEW t \in Int, NEW allowed \in BOOLEAN,
           Answer(r, t, allowed),
           t >= 0 \/ /\ buckets[req[r].key] # None
                     /\ LET b == buckets[req[r].key]
                        IN  t = b.tokens + Rate * req[r].now - Rate * b.last
    PROVE  DebtsAreBacked'
<1> DEFINE key == req[r].key
           now == req[r].now
           top == IF buckets[key] = None THEN now ELSE Later(reached[key], now)
<1>1. key \in Keys /\ now \in Nat /\ reached[key] \in Nat
  BY RequestFacts DEF TypeOK
<1>2. /\ buckets' = [buckets EXCEPT ![key] = [tokens |-> t, last |-> now]]
      /\ reached' = [reached EXCEPT ![key] = top]
  BY DEF Answer
<1>3. top \in Nat /\ now <= top /\ (buckets[key] # None => reached[key] <= top)
  BY <1>1 DEF Later
<1>4. /\ Rate * now <= Rate * top /\ Rate * now \in Int /\ Rate * top \in Int
      /\ Rate * reached[key] \in Int
      /\ buckets[key] # None => Rate * reached[key] <= Rate * top
  BY <1>1, <1>3, Monotone, RateAssumption
<1>5. Backed([tokens |-> t, last |-> now], top)
  <2>1. CASE t >= 0
    BY <1>3, <1>4, <2>1 DEF Backed
  <2>2. CASE ~(t >= 0)
    <3> DEFINE b == buckets[key]
    <3>1. b # None /\ b \in Bucket /\ t = b.tokens + Rate * now - Rate * b.last
      BY <1>1, <2>2, RequestFacts
    <3>2. b.tokens \in Int /\ Rate * b.last \in Int
      BY <3>1, RateAssumption DEF Bucket
    <3>3. b.tokens + (Rate * reached[key] - Rate * b.last) >= 0
      BY <1>1, <3>1 DEF DebtsAreBacked, Backed
    <3> QED
      BY <1>3, <1>4, <3>1, <3>2, <3>3 DEF Backed
  <2> QED
    BY <2>1, <2>2
<1> HIDE DEF top
<1>6. ASSUME NEW k \in Keys, buckets'[k] # None PROVE Backed(buckets[k], reached[k])'
  <2>1. CASE k = key
    <3>1. buckets'[k] = [tokens |-> t, last |-> now] /\ reached'[k] = top
      BY <1>1, <1>2, <2>1 DEF TypeOK
    <3> QED
      BY <1>5, <3>1 DEF Backed
  <2>2. CASE k # key
    <3>1. buckets'[k] = buckets[k] /\ reached'[k] = reached[k]
      BY <1>1, <1>2, <2>2 DEF TypeOK
    <3> QED
      BY <1>6, <3>1 DEF DebtsAreBacked, Backed
  <2> QED
    BY <2>1, <2>2
<1> QED
  BY <1>6 DEF DebtsAreBacked

LEMMA NextBacking ==
    TypeOK /\ ReadingsAreRecent /\ DebtsAreBacked /\ [Next]_vars => DebtsAreBacked'
<1> SUFFICES ASSUME TypeOK, ReadingsAreRecent, DebtsAreBacked, [Next]_vars
             PROVE  DebtsAreBacked'
  OBVIOUS
<1>1. CASE UNCHANGED <<buckets, reached>>
  BY <1>1 DEF DebtsAreBacked, Backed
<1>2. ASSUME NEW r \in Requests, NewBucket(r) PROVE DebtsAreBacked'
  <2>1. Burst - Cost \in Int /\ Burst - Cost >= 0
    BY BurstAssumption, CostAssumption
  <2> QED
    BY <1>2, <2>1, AnswerKeepsBacking DEF NewBucket
<1>3. ASSUME NEW r \in Requests, Take(r) \/ Refuse(r) PROVE DebtsAreBacked'
  <2> DEFINE b == buckets[req[r].key]
             f == Refilled(b, req[r].now)
  <2>1. /\ req[r] # None /\ b # None
        /\ \/ f >= Cost /\ Answer(r, f - Cost, TRUE)
           \/ Answer(r, f, FALSE)
    BY <1>3 DEF Take, Refuse, Suffices
  <2>2. b \in Bucket /\ req[r].now \in Nat
    BY <2>1, RequestFacts
  <2>3. f \in Int /\ (f = Burst \/ f = b.tokens + Rate * req[r].now - Rate * b.last)
    BY <2>2, RefilledFacts
  <2> HIDE DEF f
  <2>4. f - Cost \in Int /\ (f >= Cost => f - Cost >= 0) /\ (f = Burst => f >= 0)
    BY <2>3, CostAssumption, BurstAssumption
  <2> QED
    BY <2>1, <2>3, <2>4, AnswerKeepsBacking
<1>4. CASE Cleanup
  <2>1. ASSUME NEW k \in Keys, buckets'[k] # None
        PROVE  buckets'[k] = buckets[k] /\ reached'[k] = reached[k]
    BY <1>4, <2>1 DEF Cleanup
  <2> QED
    BY <2>1 DEF DebtsAreBacked, Backed
<1> QED
  BY <1>1, <1>2, <1>3, <1>4 DEF Next, Tick, SetBack, ReadClock, StartCleanup, vars

-----------------------------------------------------------------------------
LEMMA InitIInv == Init => IInv
<1> SUFFICES ASSUME Init PROVE IInv
  OBVIOUS
<1>1. TypeOK
  BY InitTypeOK
<1>2. ReadingsAreRecent
  BY LagAssumption DEF Init, ReadingsAreRecent, Recent
<1>3. ASSUME NEW k \in Keys PROVE buckets[k] = None /\ granted[k] = 0
  BY DEF Init
<1>4. Accounts
  <2>1. NoBucket(0)
    BY DEF NoBucket
  <2> QED
    BY <1>3, <2>1 DEF Accounts
<1>5. WindowBound
  <2>1. 0 * Cost = 0
    BY CostAssumption
  <2>2. Rate * window.from <= Rate * window.to
    BY <1>1, Numbers, Monotone
  <2>3. 0 * Cost <= Burst + Rate * (window.to - window.from)
    BY <1>1, <2>1, <2>2, Numbers, BurstAssumption
  <2> QED
    BY <1>3, <2>3 DEF WindowBound
<1>6. DebtsAreBacked
  BY <1>3 DEF DebtsAreBacked
<1> QED
  BY <1>1, <1>2, <1>4, <1>5, <1>6 DEF IInv

LEMMA NextIInv == IInv /\ [Next]_vars => IInv'
<1> SUFFICES ASSUME IInv, [Next]_vars PROVE IInv'
  OBVIOUS
<1>1. TypeOK /\ ReadingsAreRecent /\ Accounts /\ WindowBound /\ DebtsAreBacked
  BY DEF IInv
<1>2. TypeOK' /\ ReadingsAreRecent' /\ DebtsAreBacked'
  BY <1>1, NextTypeOK, NextReadings, NextBacking
<1>3. ASSUME Tick \/ \E t \in 0..Horizon : SetBack(t) PROVE IInv'
  <2>1. latest' >= latest /\ UNCHANGED <<buckets, window, granted>>
    BY <1>1, <1>3 DEF Tick, SetBack, Later, TypeOK
  <2> QED
    BY <1>1, <1>2, <2>1, ClockKeepsAccounts DEF IInv
<1>4. ASSUME NEW r \in Requests, NEW k \in Keys, ReadClock(r, k) PROVE IInv'
  BY <1>1, <1>2, <1>4 DEF ReadClock, IInv, Accounts, NoBucket, LiveBucket, WindowBound
<1>5. ASSUME NEW r \in Requests, NewBucket(r) PROVE IInv'
  BY <1>1, <1>2, <1>5, NewBucketAccounts DEF IInv
<1>6. ASSUME NEW r \in Requests, Take(r) PROVE IInv'
  BY <1>1, <1>2, <1>6, TakeAccounts DEF IInv
<1>7. ASSUME NEW r \in Requests, Refuse(r) PROVE IInv'
  BY <1>1, <1>2, <1>7, RefuseAccounts DEF IInv
<1>8. CASE StartCleanup
  BY <1>1, <1>2, <1>8 DEF StartCleanup, IInv, Accounts, NoBucket, LiveBucket, WindowBound
<1>9. CASE Cleanup
  BY <1>1, <1>2, <1>9, CleanupAccounts DEF IInv
<1>10. CASE UNCHANGED vars
  BY <1>1, <1>2, <1>10 DEF vars, IInv, Accounts, NoBucket, LiveBucket, WindowBound
<1> QED
  BY <1>3, <1>4, <1>5, <1>6, <1>7, <1>8, <1>9, <1>10 DEF Next

(* The inductive invariant, and in it the typing of every state and the    *)
(* ceiling of every interval, for every rate, capacity and idle time that  *)
(* satisfies TtlAssumption.                                                *)
THEOREM Invariance == Spec => []IInv
<1> QED
  BY InitIInv, NextIInv, PTL DEF Spec

(* The limiter's state is well typed in every behaviour.                   *)
THEOREM LimiterTyping == Spec => []TypeOK
<1>1. IInv => TypeOK
  BY DEF IInv
<1> QED
  BY <1>1, Invariance, PTL

(* No interval lets more requests through than a full bucket and what      *)
(* flows in during it.                                                     *)
THEOREM CeilingHolds == Spec => []WindowBound
<1>1. IInv => WindowBound
  BY DEF IInv
<1> QED
  BY <1>1, Invariance, PTL

(* A refused request's reading is not a token's refill past those that its *)
(* bucket has met.                                                         *)
LEMMA RefusedHadNotRested ==
    ASSUME IInv, NEW r \in Requests, Refuse(r)
    PROVE  Rate * (req[r].now - reached[req[r].key]) < Cost
<1> DEFINE b == buckets[req[r].key]
           now == req[r].now
           top == reached[req[r].key]
<1>1. TypeOK /\ ReadingsAreRecent /\ DebtsAreBacked
  BY DEF IInv
<1>2. req[r] # None /\ b # None /\ ~(Refilled(b, now) >= Cost)
  BY DEF Refuse, Suffices
<1>3. b \in Bucket /\ now \in Nat /\ req[r].key \in Keys /\ top \in Nat
  BY <1>1, <1>2, RequestFacts DEF TypeOK
<1>4. b.tokens + (Rate * top - Rate * b.last) >= 0
  BY <1>1, <1>2, <1>3 DEF DebtsAreBacked, Backed
<1>5. Refilled(b, now) = b.tokens + Rate * now - Rate * b.last
  BY <1>2, <1>3, RefilledFacts, BurstAssumption, CostAssumption
<1>6. /\ b.tokens \in Int /\ Rate * b.last \in Int /\ Rate * now \in Int /\ Rate * top \in Int
      /\ Rate * (now - top) = Rate * now - Rate * top
  BY <1>3, RateAssumption DEF Bucket
<1> HIDE DEF b, now, top
<1>7. Rate * (now - top) < Cost
  BY <1>2, <1>4, <1>5, <1>6, CostAssumption
<1> QED
  BY <1>7 DEF now, top

(* Whatever the clock does and however readings are reordered, an address  *)
(* is served again once its reading is a token's refill past every reading *)
(* its bucket has met.                                                     *)
THEOREM RestIsRewarded == Spec => RestedKeyIsServed
<1>1. IInv /\ [Next]_vars =>
        [\A r \in Requests :
           Refuse(r) => Rate * (req[r].now - reached[req[r].key]) < Cost]_vars
  BY RefusedHadNotRested
<1> QED
  BY <1>1, Invariance, PTL DEF Spec, RestedKeyIsServed

=============================================================================
