------------------------- MODULE RequestRateLimiter -------------------------
(***************************************************************************)
(* Admission of /v1 requests: requireAPIKey (router.go) charges the        *)
(* caller's token bucket through RequestRateLimiter.Allow, and a WebSocket *)
(* upgrade charges it again through AllowConnect and takes one of the      *)
(* key's connection slots (ratelimit.go, websocket.go).  Handlers run      *)
(* concurrently: each reads the clock BEFORE it takes the limiter's mutex, *)
(* so buckets are charged with times that are out of order.  The limiter   *)
(* is Enabled; a disabled one admits everything and keeps no state.        *)
(*                                                                         *)
(* Time is counted in ticks of 1/Scale seconds and tokens in units of      *)
(* 1/Scale tokens, so one tick refills Rate units, exactly.                *)
(***************************************************************************)
EXTENDS Integers, FiniteSets

CONSTANTS
    Keys,             \* API keys (principalBucketKey)
    Requests,         \* handlers running at the same time
    Rate,             \* TokensPerSecond
    Burst,            \* Burst, in tokens
    EpisodesCost,     \* cost of any request with ?episodes=true
    BulkDivisor,      \* identifiers per token in /v1/ratings/bulk
    BulkSizes,        \* identifier counts of bulk requests
    MaxSockets,       \* maxConcurrentSocketsPerKey
    Scale,            \* ticks per second
    MaxTime           \* bound on the clock

\* envPositiveInt (config.go) replaces values that are not positive.
ASSUME ConfigAssumption ==
    /\ Rate \in Nat \ {0} /\ Burst \in Nat \ {0}
    /\ EpisodesCost \in Nat \ {0} /\ BulkDivisor \in Nat \ {0}
    /\ MaxSockets \in Nat \ {0} /\ Scale \in Nat \ {0}
ASSUME RequestsAssumption == IsFiniteSet(Requests)
ASSUME BoundAssumption == MaxTime \in Nat /\ BulkSizes \subseteq Nat

VARIABLES
    clock,            \* now(), in ticks
    bucket,           \* l.buckets: [known, tokens, lastRefill] per key
    counts,           \* ConnectionCounter.counts
    step,             \* where each handler is
    key,              \* its principal
    kind,             \* what it asks for
    now,              \* the time it has read
    retryAt,          \* denied: when its Retry-After has elapsed
    granted,          \* history: units ever granted to a key
    born,             \* history: when the key's bucket was created
    seen              \* history: granted[key] when the handler was denied

vars == <<clock, bucket, counts, step, key, kind, now, retryAt, granted, born,
          seen>>

\* What a request asks for: its route, ?episodes=true in its query, and the
\* identifier count of a bulk request.
Kinds == [what : {"plain", "upgrade"}, episodes : BOOLEAN, size : {0}]
           \cup [what : {"bulk"}, episodes : BOOLEAN, size : BulkSizes]
Plain == [what |-> "plain", episodes |-> FALSE, size |-> 0]

\* requestCost, in units.
ceilDiv(a, b) == (a + b - 1) \div b
requestCost(k) ==
    Scale * (IF k.episodes THEN EpisodesCost
             ELSE IF k.what = "bulk" /\ k.size > 0
             THEN ceilDiv(k.size, BulkDivisor)
             ELSE 1)

BurstUnits == Burst * Scale
NoBucket == [known |-> FALSE, tokens |-> 0, lastRefill |-> 0]

Init ==
    /\ clock = 0
    /\ bucket = [k \in Keys |-> NoBucket]
    /\ counts = [k \in Keys |-> 0]
    /\ step = [r \in Requests |-> "idle"]
    /\ key \in [Requests -> Keys]
    /\ kind = [r \in Requests |-> Plain]
    /\ now = [r \in Requests |-> 0]
    /\ retryAt = [r \in Requests |-> 0]
    /\ granted = [k \in Keys |-> 0]
    /\ born = [k \in Keys |-> 0]
    /\ seen = [r \in Requests |-> 0]

Tick ==
    /\ clock < MaxTime
    /\ clock' = clock + 1
    /\ UNCHANGED <<bucket, counts, step, key, kind, now, retryAt, granted,
                   born, seen>>

\* A request arrives and Authenticate succeeds.
Arrive(r) ==
    /\ step[r] = "idle"
    /\ \E k \in Keys, what \in Kinds :
         /\ key' = [key EXCEPT ![r] = k]
         /\ kind' = [kind EXCEPT ![r] = what]
    /\ step' = [step EXCEPT ![r] = "allow"]
    /\ UNCHANGED <<clock, bucket, counts, now, retryAt, granted, born, seen>>

\* requestCost cannot read the body of a bulk request: answered 500 before
\* anything is charged.
BodyUnreadable(r) ==
    /\ step[r] = "allow"
    /\ kind[r].what = "bulk" /\ ~kind[r].episodes
    /\ step' = [step EXCEPT ![r] = "served"]
    /\ UNCHANGED <<clock, bucket, counts, key, kind, now, retryAt, granted,
                   born, seen>>

\* now := l.now(), before l.mu.Lock().
ReadClock(r, from, to) ==
    /\ step[r] = from
    /\ now' = [now EXCEPT ![r] = clock]
    /\ step' = [step EXCEPT ![r] = to]
    /\ UNCHANGED <<clock, bucket, counts, key, kind, retryAt, granted, born,
                   seen>>

MinOf(a, b) == IF a <= b THEN a ELSE b

\* Mutant: lastRefill is also set when the clock reading is an older one.
RefilledBackwards(b, t) ==
    IF ~b.known
    THEN [known |-> TRUE, tokens |-> BurstUnits, lastRefill |-> t]
    ELSE IF t > b.lastRefill
    THEN [b EXCEPT !.tokens = MinOf(BurstUnits,
                                    b.tokens + Rate * (t - b.lastRefill)),
                   !.lastRefill = t]
    ELSE [b EXCEPT !.lastRefill = t]

\* The bucket as the critical section finds it at time t: created full, and
\* refilled when t is later than the last refill.
Refilled(b, t) ==
    IF ~b.known
    THEN [known |-> TRUE, tokens |-> BurstUnits, lastRefill |-> t]
    ELSE IF t > b.lastRefill
    THEN [b EXCEPT !.tokens = MinOf(BurstUnits,
                                    b.tokens + Rate * (t - b.lastRefill)),
                   !.lastRefill = t]
    ELSE b

\* Mutant: the quotient is truncated, not rounded up.
RetryAfterTruncated(deficit) ==
    LET seconds == deficit \div (Rate * Scale)
    IN  Scale * (IF seconds < 1 THEN 1 ELSE seconds)

\* int(math.Ceil(deficit / refillRate)), at least one second; in ticks.
RetryAfter(deficit) ==
    LET seconds == ceilDiv(deficit, Rate * Scale)
    IN  Scale * (IF seconds < 1 THEN 1 ELSE seconds)

\* Mutant: a bucket that is not empty admits any cost.
NotEmpty(b, cost) == b.tokens > 0
Enough(b, cost) == b.tokens >= cost

\* The critical section of Allow and AllowConnect.
Charge(r, from, cost, accepted) ==
    LET k == key[r]
        b == Refilled(bucket[k], now[r])
    IN
    /\ step[r] = from
    /\ born' = IF bucket[k].known THEN born
               ELSE [born EXCEPT ![k] = now[r]]
    /\ IF Enough(b, cost)
       THEN /\ bucket' = [bucket EXCEPT ![k] =
                            [b EXCEPT !.tokens = b.tokens - cost]]
            /\ granted' = [granted EXCEPT ![k] = granted[k] + cost]
            /\ step' = [step EXCEPT ![r] = accepted]
            /\ UNCHANGED <<retryAt, seen>>
       ELSE /\ bucket' = [bucket EXCEPT ![k] = b]
            /\ step' = [step EXCEPT ![r] = "denied"]
            /\ retryAt' = [retryAt EXCEPT ![r] =
                             clock + RetryAfter(cost - b.tokens)]
            /\ seen' = [seen EXCEPT ![r] = granted[k]]
            /\ UNCHANGED granted
    /\ UNCHANGED <<clock, counts, key, kind, now>>

Allow(r) ==
    Charge(r, "allowLock", requestCost(kind[r]),
           IF kind[r].what = "upgrade" THEN "connect" ELSE "served")

AllowConnect(r) == Charge(r, "connectLock", Scale, "acquire")

\* Mutant: off by one.
Overfull(k) == counts[k] > MaxSockets
Full(k) == counts[k] >= MaxSockets

\* ConnectionCounter.Acquire: a full key is answered 429 without Retry-After.
Acquire(r) ==
    /\ step[r] = "acquire"
    /\ IF Full(key[r])
       THEN /\ step' = [step EXCEPT ![r] = "served"]
            /\ UNCHANGED counts
       ELSE /\ step' = [step EXCEPT ![r] = "open"]
            /\ counts' = [counts EXCEPT ![key[r]] = @ + 1]
    /\ UNCHANGED <<clock, bucket, key, kind, now, retryAt, granted, born,
                   seen>>

\* The upgrade fails or the socket ends: the deferred Release.
Release(r) ==
    /\ step[r] = "open"
    /\ step' = [step EXCEPT ![r] = "served"]
    /\ counts' = IF counts[key[r]] > 0
                 THEN [counts EXCEPT ![key[r]] = @ - 1] ELSE counts
    /\ UNCHANGED <<clock, bucket, key, kind, now, retryAt, granted, born,
                   seen>>

\* The handler has answered; the slot can serve another request.
Finish(r) ==
    /\ step[r] \in {"served", "denied"}
    /\ step' = [step EXCEPT ![r] = "idle"]
    /\ retryAt' = [retryAt EXCEPT ![r] = 0]
    /\ seen' = [seen EXCEPT ![r] = 0]
    /\ now' = [now EXCEPT ![r] = 0]
    /\ kind' = [kind EXCEPT ![r] = Plain]
    /\ UNCHANGED <<clock, bucket, counts, key, granted, born>>

Handle(r) ==
    \/ Arrive(r)
    \/ BodyUnreadable(r)
    \/ ReadClock(r, "allow", "allowLock")
    \/ Allow(r)
    \/ ReadClock(r, "connect", "connectLock")
    \/ AllowConnect(r)
    \/ Acquire(r)
    \/ Release(r)
    \/ Finish(r)

Next == Tick \/ \E r \in Requests : Handle(r)

Spec == Init /\ [][Next]_vars

-----------------------------------------------------------------------------
(* Properties *)

Steps == {"idle", "allow", "allowLock", "connect", "connectLock", "acquire",
          "open", "served", "denied"}
Bucket == [known : BOOLEAN, tokens : Nat, lastRefill : Nat]

\* Buckets hold a natural number of units, handlers are at known steps.
TypeOK ==
    /\ clock \in Nat
    /\ bucket \in [Keys -> Bucket]
    /\ counts \in [Keys -> Nat]
    /\ step \in [Requests -> Steps]
    /\ key \in [Requests -> Keys]
    /\ kind \in [Requests -> Kinds]
    /\ now \in [Requests -> Nat]
    /\ retryAt \in [Requests -> Nat]
    /\ granted \in [Keys -> Nat]
    /\ born \in [Keys -> Nat]
    /\ seen \in [Requests -> Nat]

\* Since its bucket exists, a key has been granted at most the burst and what
\* the elapsed time refills, and what it can still be granted at once is at
\* most the burst, however the clock readings and critical sections of its
\* requests interleave.
RateBound ==
    \A k \in Keys : bucket[k].known =>
        /\ granted[k] <= BurstUnits + Rate * (clock - born[k])
        /\ bucket[k].tokens <= BurstUnits

\* Units available to the key if it asks at time t.
Available(k, t) == Refilled(bucket[k], t).tokens

\* Units a repetition of the handler's request pays: an upgrade is charged by
\* requireAPIKey and then once more by AllowConnect.
RetryCost(r) ==
    requestCost(kind[r]) + (IF kind[r].what = "upgrade" THEN Scale ELSE 0)

\* Requests whose Retry-After promises anything: all that the bucket can ever
\* hold, but of the upgrades only those whose two charges fit into one
\* second's refill.
Promised(r) ==
    /\ RetryCost(r) <= BurstUnits
    /\ kind[r].what = "upgrade" => RetryCost(r) <= Rate * Scale

\* Retry-After is honest: once it has elapsed, and unless the key has spent
\* tokens meanwhile, the bucket holds everything that a repetition pays, both
\* charges of an upgrade included, whichever of the two was denied.  The code
\* does not promise this to an upgrade whose two charges are more than one
\* second's refill: Retry-After is the deficit of the denied charge alone, the
\* repetition spends what the wait refilled on the first charge, and it may be
\* denied at the second again and again.
RetryAfterSuffices ==
    \A r \in Requests :
        LET k == key[r] IN
        (/\ step[r] = "denied" /\ clock >= retryAt[r]
         /\ granted[k] = seen[r] /\ Promised(r))
            => Available(k, clock) >= RetryCost(r)

\* The counter of a key is the number of its open sockets, and never exceeds
\* the documented maximum: no path loses or returns a slot twice.
OpenSockets(k) == {r \in Requests : step[r] = "open" /\ key[r] = k}
SlotsAccounted ==
    \A k \in Keys : /\ counts[k] = Cardinality(OpenSockets(k))
                    /\ counts[k] <= MaxSockets

-----------------------------------------------------------------------------
(* Inductive invariants: what the proofs need *)

\* lastRefill is the latest clock reading charged so far, and what was granted
\* and what is left never exceed the burst and the refill until then.
BucketInv ==
    \A k \in Keys :
        LET b == bucket[k] IN
        IF b.known
        THEN /\ b.tokens <= BurstUnits
             /\ born[k] <= b.lastRefill /\ b.lastRefill <= clock
             /\ granted[k] + b.tokens
                  <= BurstUnits + Rate * (b.lastRefill - born[k])
        ELSE granted[k] = 0

\* Clock readings are of the past, only an upgrade is charged twice, and a
\* denied handler asked an existing bucket.
HandlerInv ==
    \A r \in Requests :
        /\ now[r] <= clock
        /\ step[r] \in {"connect", "connectLock"} => kind[r].what = "upgrade"
        /\ step[r] = "denied" => /\ bucket[key[r]].known
                                /\ seen[r] <= granted[key[r]]

\* What the bucket holds, and what it gains until Retry-After has elapsed,
\* covers all that a repetition pays.
RetryInv ==
    \A r \in Requests :
        LET b == bucket[key[r]] IN
        (step[r] = "denied" /\ granted[key[r]] = seen[r] /\ Promised(r))
            => \/ b.tokens >= RetryCost(r)
               \/ b.tokens + Rate * (retryAt[r] - b.lastRefill)
                    >= RetryCost(r)

LimiterInv == TypeOK /\ BucketInv /\ HandlerInv /\ RetryInv

=============================================================================
