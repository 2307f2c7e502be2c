---------------------- MODULE RequestRateLimiterProofs ----------------------
(***************************************************************************)
(* Proofs about RequestRateLimiter: for every number of keys and handlers, *)
(* every rate, burst and cost, and an unbounded clock.                     *)
(***************************************************************************)
EXTENDS RequestRateLimiter, FiniteSetTheorems, TLAPS

-----------------------------------------------------------------------------
(* Arithmetic *)

LEMMA CeilDiv ==
    ASSUME NEW a \in Nat, NEW b \in Nat \ {0}
    PROVE  ceilDiv(a, b) \in Nat /\ b * ceilDiv(a, b) >= a
  <1> DEFINE c == a + b - 1
  <1>1. c \in Nat
    OBVIOUS
  <1> HIDE DEF c
  <1>2. c \div b \in Nat /\ b * (c \div b) > c - b
    BY <1>1
  <1>3. b * (c \div b) \in Int
    BY <1>2
  <1>4. c - b = a - 1
    BY DEF c
  <1>5. ceilDiv(a, b) = c \div b
    BY DEF ceilDiv, c
  <1> QED
    BY <1>2, <1>3, <1>4, <1>5

LEMMA ScaleMonotone ==
    ASSUME NEW m \in Nat, NEW x \in Int, NEW y \in Int, x <= y
    PROVE  m * x \in Int /\ m * y \in Int /\ m * x <= m * y
  OBVIOUS

LEMMA ScaleSum ==
    ASSUME NEW m \in Nat, NEW x \in Int, NEW y \in Int
    PROVE  m * (x + y) = m * x + m * y /\ m * x \in Int /\ m * y \in Int
  OBVIOUS

LEMMA Units ==
    /\ BurstUnits \in Nat
    /\ Rate \in Nat \ {0} /\ Scale \in Nat \ {0}
  BY ConfigAssumption DEF BurstUnits

LEMMA CostPositive ==
    ASSUME NEW k \in Kinds
    PROVE  requestCost(k) \in Nat \ {0}
  <1>1. k.size \in Nat
    <2>1. CASE k \in [what : {"bulk"}, episodes : BOOLEAN, size : BulkSizes]
      BY <2>1, BoundAssumption
    <2>2. CASE k \in [what : {"plain", "upgrade"}, episodes : BOOLEAN,
                  size : {0}]
      BY <2>2
    <2> QED
      BY <2>1, <2>2 DEF Kinds
  <1>2. CASE k.episodes
    BY <1>2, ConfigAssumption DEF requestCost
  <1>3. CASE ~k.episodes /\ k.what = "bulk" /\ k.size > 0
    <2>1. ceilDiv(k.size, BulkDivisor) \in Nat
          /\ BulkDivisor * ceilDiv(k.size, BulkDivisor) >= k.size
      BY <1>1, CeilDiv, ConfigAssumption
    <2>2. ceilDiv(k.size, BulkDivisor) # 0
      BY <1>1, <1>3, <2>1, ConfigAssumption
    <2> QED
      BY <1>3, <2>1, <2>2, ConfigAssumption DEF requestCost
  <1>4. CASE ~k.episodes /\ ~(k.what = "bulk" /\ k.size > 0)
    BY <1>4, ConfigAssumption DEF requestCost
  <1> QED
    BY <1>2, <1>3, <1>4

LEMMA RetryCostPositive ==
    ASSUME NEW r \in Requests, kind[r] \in Kinds
    PROVE  RetryCost(r) \in Nat
  BY CostPositive, Units DEF RetryCost

\* A refill never lowers the tokens, never exceeds the burst, and adds no more
\* than Rate units per tick.
LEMMA Refill ==
    ASSUME NEW b \in Bucket, NEW t \in Nat, b.known, b.tokens <= BurstUnits
    PROVE  LET n == Refilled(b, t) IN
           /\ n \in Bucket
           /\ n.known
           /\ n.tokens <= BurstUnits
           /\ b.tokens <= n.tokens
           /\ n.lastRefill >= b.lastRefill
           /\ n.lastRefill = b.lastRefill \/ n.lastRefill = t
           /\ n.tokens <= b.tokens + Rate * (n.lastRefill - b.lastRefill)
           /\ n.tokens = BurstUnits
              \/ n.tokens = b.tokens + Rate * (n.lastRefill - b.lastRefill)
  <1>1. CASE t > b.lastRefill
    <2> DEFINE gain == Rate * (t - b.lastRefill)
    <2>1. gain \in Nat
      BY <1>1, Units DEF Bucket
    <2>2. Refilled(b, t) =
            [b EXCEPT !.tokens = MinOf(BurstUnits, b.tokens + gain),
                      !.lastRefill = t]
      BY <1>1 DEF Refilled
    <2> HIDE DEF gain
    <2>3. /\ Refilled(b, t) \in Bucket
          /\ Refilled(b, t).known
          /\ Refilled(b, t).lastRefill = t
          /\ Refilled(b, t).tokens = MinOf(BurstUnits, b.tokens + gain)
      <3> DEFINE n == MinOf(BurstUnits, b.tokens + gain)
      <3>1. n \in Nat
        BY <2>1, Units DEF Bucket, MinOf
      <3> HIDE DEF n
      <3> QED
        BY <2>2, <3>1 DEF Bucket, n
    <2>4. b.tokens \in Nat /\ b.lastRefill \in Nat
      BY DEF Bucket
    <2> QED
      BY <1>1, <2>1, <2>3, <2>4, Units DEF MinOf, gain
  <1>2. CASE ~(t > b.lastRefill)
    <2>1. Refilled(b, t) = b
      BY <1>2 DEF Refilled
    <2>2. b.lastRefill - b.lastRefill = 0 /\ b.tokens \in Nat /\ b.lastRefill \in Nat
      BY DEF Bucket
    <2>3. Rate * 0 = 0
      BY Units
    <2> QED
      BY <2>1, <2>2, <2>3 DEF Bucket
  <1> QED
    BY <1>1, <1>2

\* A bucket that did not exist is created full.
LEMMA Created ==
    ASSUME NEW b \in Bucket, NEW t \in Nat, ~b.known
    PROVE  LET n == Refilled(b, t) IN
           n \in Bucket /\ n.known /\ n.tokens = BurstUnits /\ n.lastRefill = t
  BY Units DEF Refilled, Bucket

\* Retry-After is at least the time that refills the deficit, and one second.
LEMMA RetryAfterCovers ==
    ASSUME NEW deficit \in Nat
    PROVE  /\ RetryAfter(deficit) \in Nat
           /\ Rate * RetryAfter(deficit) >= deficit
           /\ RetryAfter(deficit) >= Scale
  <1> DEFINE s == ceilDiv(deficit, Rate * Scale)
             m == IF s < 1 THEN 1 ELSE s
  <1>1. Rate * Scale \in Nat \ {0}
    BY Units
  <1>2. s \in Nat /\ (Rate * Scale) * s >= deficit
    BY <1>1, CeilDiv
  <1>3. RetryAfter(deficit) = Scale * m
    BY DEF RetryAfter
  <1> HIDE DEF s
  <1>4. m \in Nat /\ s <= m /\ 1 <= m
    BY <1>2
  <1>5. (Rate * Scale) * s <= (Rate * Scale) * m
    BY <1>1, <1>2, <1>4, ScaleMonotone
  <1> HIDE DEF m
  <1>6. Rate * (Scale * m) = (Rate * Scale) * m /\ Scale * m \in Nat
    BY <1>4, Units
  <1>7. (Rate * Scale) * m \in Int /\ (Rate * Scale) * s \in Int
    BY <1>1, <1>2, <1>4
  <1>8. Scale * 1 <= Scale * m /\ Scale * 1 = Scale
    BY <1>4, Units, ScaleMonotone
  <1> QED
    BY <1>2, <1>3, <1>5, <1>6, <1>7, <1>8

-----------------------------------------------------------------------------
(* The critical section *)

\* The bucket a critical section works on, before it takes the cost.
LEMMA ChargedBucket ==
    ASSUME TypeOK, BucketInv, HandlerInv, NEW r \in Requests,
           NEW n, n = Refilled(bucket[key[r]], now[r]),
           NEW birth,
           birth = IF bucket[key[r]].known THEN born[key[r]] ELSE now[r]
    PROVE  /\ n \in Bucket /\ n.known
           /\ birth \in Nat
           /\ n.tokens <= BurstUnits
           /\ birth <= n.lastRefill /\ n.lastRefill <= clock
           /\ granted[key[r]] + n.tokens
                <= BurstUnits + Rate * (n.lastRefill - birth)
  <1> DEFINE k == key[r]
             b == bucket[k]
  <1>1. /\ k \in Keys /\ b \in Bucket /\ now[r] \in Nat /\ clock \in Nat
        /\ granted[k] \in Nat /\ born[k] \in Nat /\ now[r] <= clock
    BY DEF TypeOK, HandlerInv
  <1>2. CASE b.known
    <2>1. /\ b.tokens <= BurstUnits
          /\ born[k] <= b.lastRefill /\ b.lastRefill <= clock
          /\ granted[k] + b.tokens
               <= BurstUnits + Rate * (b.lastRefill - born[k])
      BY <1>1, <1>2 DEF BucketInv
    <2> DEFINE gain == n.lastRefill - b.lastRefill
               age  == b.lastRefill - born[k]
    <2>2. /\ n \in Bucket /\ n.known /\ n.tokens <= BurstUnits
          /\ n.lastRefill >= b.lastRefill
          /\ n.lastRefill = b.lastRefill \/ n.lastRefill = now[r]
          /\ n.tokens <= b.tokens + Rate * gain
      BY <1>1, <1>2, <2>1, Refill
    <2>3. /\ b.tokens \in Nat /\ b.lastRefill \in Nat
          /\ n.tokens \in Nat /\ n.lastRefill \in Nat
      BY <1>1, <2>2 DEF Bucket
    <2>4. gain \in Int /\ age \in Int /\ gain + age = n.lastRefill - born[k]
      BY <1>1, <2>3
    <2>5. birth = born[k]
      BY <1>2
    <2> HIDE DEF gain, age
    <2>6. Rate * (gain + age) = Rate * gain + Rate * age
          /\ Rate * gain \in Int /\ Rate * age \in Int
      BY <2>4, Units, ScaleSum
    <2>7. granted[k] + b.tokens <= BurstUnits + Rate * age
      BY <2>1 DEF age
    <2>8. granted[k] + n.tokens <= BurstUnits + Rate * (gain + age)
      BY <1>1, <2>2, <2>3, <2>6, <2>7, Units
    <2>9. born[k] <= n.lastRefill /\ n.lastRefill <= clock
      BY <1>1, <2>1, <2>2, <2>3
    <2> QED
      BY <1>1, <2>2, <2>4, <2>5, <2>8, <2>9
  <1>3. CASE ~b.known
    <2>1. /\ n \in Bucket /\ n.known /\ n.tokens = BurstUnits
          /\ n.lastRefill = now[r] /\ birth = now[r]
      BY <1>1, <1>3, Created
    <2>2. granted[k] = 0
      BY <1>1, <1>3 DEF BucketInv
    <2>3. Rate * (now[r] - now[r]) = 0
      BY <1>1, Units
    <2> QED
      BY <1>1, <2>1, <2>2, <2>3, Units
  <1> QED
    BY <1>2, <1>3

\* Refilling keeps the promise made to a handler that was denied.
LEMMA RefillKeepsPromise ==
    ASSUME NEW b \in Bucket, b.known, b.tokens <= BurstUnits,
           NEW t \in Nat, NEW deadline \in Nat, NEW cost \in Nat,
           cost <= BurstUnits,
           b.tokens >= cost
             \/ b.tokens + Rate * (deadline - b.lastRefill) >= cost
    PROVE  LET n == Refilled(b, t) IN
           n.tokens >= cost
             \/ n.tokens + Rate * (deadline - n.lastRefill) >= cost
  <1> DEFINE n == Refilled(b, t)
             gain == n.lastRefill - b.lastRefill
             rest == deadline - n.lastRefill
  <1>1. /\ n \in Bucket /\ b.tokens <= n.tokens
        /\ n.tokens = BurstUnits \/ n.tokens = b.tokens + Rate * gain
    BY Refill
  <1>2. /\ b.tokens \in Nat /\ b.lastRefill \in Nat
        /\ n.tokens \in Nat /\ n.lastRefill \in Nat
    BY <1>1 DEF Bucket
  <1>3. gain \in Int /\ rest \in Int /\ gain + rest = deadline - b.lastRefill
    BY <1>2
  <1> HIDE DEF n, gain, rest
  <1>4. Rate * (gain + rest) = Rate * gain + Rate * rest
        /\ Rate * gain \in Int /\ Rate * rest \in Int
    BY <1>3, Units, ScaleSum
  <1>5. CASE b.tokens >= cost
    BY <1>1, <1>2, <1>5 DEF n
  <1>6. CASE b.tokens + Rate * (deadline - b.lastRefill) >= cost
    <2>1. b.tokens + (Rate * gain + Rate * rest) >= cost
      BY <1>3, <1>4, <1>6
    <2>2. CASE n.tokens = BurstUnits
      BY <2>2 DEF n
    <2>3. CASE n.tokens = b.tokens + Rate * gain
      <3>1. n.tokens + Rate * rest >= cost
        BY <1>2, <1>4, <2>1, <2>3
      <3> QED
        BY <3>1 DEF rest, n
    <2> QED
      BY <1>1, <2>2, <2>3
  <1> QED
    BY <1>5, <1>6

-----------------------------------------------------------------------------
(* Charge preserves the invariant *)

\* How the two callers of the critical section are set up.
ChargeCase(r, cost, accepted) ==
    \/ /\ step[r] = "allowLock" /\ cost = requestCost(kind[r])
       /\ accepted = IF kind[r].what = "upgrade" THEN "connect" ELSE "served"
    \/ step[r] = "connectLock" /\ cost = Scale /\ accepted = "acquire"

LEMMA ChargePreserves ==
    ASSUME LimiterInv, NEW r \in Requests, NEW cost, NEW from, NEW accepted,
           ChargeCase(r, cost, accepted), Charge(r, from, cost, accepted)
    PROVE  LimiterInv'
  <1> DEFINE k == key[r]
             n == Refilled(bucket[k], now[r])
             birth == IF bucket[k].known THEN born[k] ELSE now[r]
             left == [n EXCEPT !.tokens = n.tokens - cost]
  <1>1. /\ TypeOK /\ BucketInv /\ HandlerInv /\ RetryInv
        /\ k \in Keys /\ bucket[k] \in Bucket /\ kind[r] \in Kinds
        /\ now[r] \in Nat /\ clock \in Nat
        /\ granted[k] \in Nat
        /\ accepted \in Steps
    BY DEF LimiterInv, TypeOK, ChargeCase, Steps
  <1>2. cost \in Nat \ {0}
    BY <1>1, CostPositive, Units DEF ChargeCase
  <1>3. /\ n \in Bucket /\ n.known /\ birth \in Nat
        /\ n.tokens <= BurstUnits
        /\ birth <= n.lastRefill /\ n.lastRefill <= clock
        /\ granted[k] + n.tokens <= BurstUnits + Rate * (n.lastRefill - birth)
    BY <1>1, ChargedBucket
  <1>4. /\ n.tokens \in Nat /\ n.lastRefill \in Nat
        /\ Rate * (n.lastRefill - birth) \in Int
    BY <1>3, Units DEF Bucket
  <1>5. /\ UNCHANGED <<clock, counts, key, kind, now>>
        /\ born' = [born EXCEPT ![k] = birth]
    BY <1>1 DEF Charge, TypeOK
  <1>6. RetryCost(r) \in Nat
        /\ (kind[r].what # "upgrade" => RetryCost(r) = cost)
    <2>1. RetryCost(r) \in Nat
      BY <1>1, RetryCostPositive
    <2>2. requestCost(kind[r]) \in Nat
      BY <1>1, CostPositive
    <2> QED
      BY <1>1, <2>1, <2>2 DEF RetryCost, ChargeCase, HandlerInv
  <1>7. CASE n.tokens >= cost
    <2>1. /\ bucket' = [bucket EXCEPT ![k] = left]
          /\ granted' = [granted EXCEPT ![k] = granted[k] + cost]
          /\ step' = [step EXCEPT ![r] = accepted]
          /\ UNCHANGED <<retryAt, seen>>
      BY <1>7 DEF Charge, Enough
    <2>2. /\ left \in Bucket /\ left.known /\ left.tokens = n.tokens - cost
          /\ left.lastRefill = n.lastRefill
      <3>1. n.tokens - cost \in Nat
        BY <1>2, <1>4, <1>7
      <3> QED
        BY <1>3, <3>1 DEF Bucket
    <2> HIDE DEF n, left, birth
    <2>3. TypeOK'
      BY <1>1, <1>2, <1>3, <1>5, <2>1, <2>2 DEF TypeOK
    <2>4. BucketInv'
      <3> SUFFICES ASSUME NEW j \in Keys
                   PROVE  BucketInv!(j)'
        BY DEF BucketInv
      <3>1. CASE j = k
        <4>1. /\ bucket'[j] = left /\ born'[j] = birth /\ clock' = clock
              /\ granted'[j] = granted[k] + cost
          BY <1>1, <1>5, <2>1, <3>1 DEF TypeOK
        <4>2. granted'[j] + left.tokens = granted[k] + n.tokens
          BY <1>1, <1>2, <1>4, <2>2, <4>1
        <4>3. left.tokens <= BurstUnits
          BY <1>2, <1>3, <1>4, <2>2, Units
        <4> QED
          BY <1>3, <2>2, <4>1, <4>2, <4>3
      <3>2. CASE j # k
        BY <1>1, <1>5, <2>1, <3>2 DEF BucketInv, TypeOK
      <3> QED
        BY <3>1, <3>2
    <2>5. HandlerInv'
      <3> SUFFICES ASSUME NEW s \in Requests
                   PROVE  HandlerInv!(s)'
        BY DEF HandlerInv
      <3>1. CASE s = r
        <4>1. /\ step'[s] = accepted /\ kind'[s] = kind[r]
              /\ now'[s] = now[r] /\ clock' = clock
          BY <1>1, <1>5, <2>1, <3>1 DEF TypeOK
        <4>2. /\ step'[s] \in {"connect", "served", "acquire"}
              /\ step'[s] = "connect" => kind'[s].what = "upgrade"
          BY <4>1 DEF ChargeCase
        <4> QED
          BY <1>1, <4>1, <4>2 DEF HandlerInv
      <3>2. CASE s # r
        <4>1. /\ step'[s] = step[s] /\ kind'[s] = kind[s]
              /\ now'[s] = now[s] /\ clock' = clock
              /\ key'[s] = key[s] /\ seen'[s] = seen[s]
          BY <1>1, <1>5, <2>1, <3>2 DEF TypeOK
        <4>2. /\ key[s] \in Keys /\ seen[s] \in Nat /\ granted[key[s]] \in Nat
          BY <1>1 DEF TypeOK
        <4>3. granted'[key[s]] >= granted[key[s]]
          BY <1>1, <1>2, <2>1, <4>2 DEF TypeOK
        <4>4. granted'[key[s]] \in Nat
          BY <2>3, <4>2 DEF TypeOK
        <4>5. bucket[key[s]].known => bucket'[key[s]].known
          BY <1>1, <2>1, <2>2, <4>2 DEF TypeOK
        <4> QED
          BY <1>1, <4>1, <4>2, <4>3, <4>4, <4>5 DEF HandlerInv
      <3> QED
        BY <3>1, <3>2
    <2>6. RetryInv'
      <3> SUFFICES ASSUME NEW s \in Requests,
                          step'[s] = "denied",
                          granted'[key'[s]] = seen'[s],
                          Promised(s)'
                   PROVE  RetryInv!(s)'
        BY DEF RetryInv
      <3>1. s # r
        BY <1>1, <2>1 DEF TypeOK, ChargeCase
      <3>2. /\ step[s] = "denied" /\ seen'[s] = seen[s] /\ key'[s] = key[s]
            /\ kind' = kind /\ retryAt' = retryAt
            /\ key[s] \in Keys /\ granted[key[s]] \in Nat /\ seen[s] \in Nat
        BY <1>1, <1>5, <2>1, <3>1 DEF TypeOK
      <3>3. seen[s] <= granted[key[s]]
        BY <1>1, <3>2 DEF HandlerInv
      <3>4. key[s] # k
        BY <1>1, <1>2, <2>1, <3>2, <3>3 DEF TypeOK
      <3>5. bucket'[key[s]] = bucket[key[s]] /\ granted'[key[s]] = granted[key[s]]
        BY <1>1, <2>1, <3>2, <3>4 DEF TypeOK
      <3>6. RetryCost(s)' = RetryCost(s) /\ Promised(s)
        BY <3>2 DEF RetryCost, Promised, BurstUnits
      <3> QED
        BY <1>1, <3>2, <3>5, <3>6 DEF RetryInv
    <2> QED
      BY <2>3, <2>4, <2>5, <2>6 DEF LimiterInv
  <1>8. CASE ~(n.tokens >= cost)
    <2> DEFINE deadline == clock + RetryAfter(cost - n.tokens)
    <2>1. /\ bucket' = [bucket EXCEPT ![k] = n]
          /\ step' = [step EXCEPT ![r] = "denied"]
          /\ retryAt' = [retryAt EXCEPT ![r] = deadline]
          /\ seen' = [seen EXCEPT ![r] = granted[k]]
          /\ UNCHANGED granted
      BY <1>8 DEF Charge, Enough
    <2>2. /\ RetryAfter(cost - n.tokens) \in Nat
          /\ Rate * RetryAfter(cost - n.tokens) >= cost - n.tokens
          /\ RetryAfter(cost - n.tokens) >= Scale
      <3>1. cost - n.tokens \in Nat
        BY <1>2, <1>4, <1>8
      <3> QED
        BY <3>1, RetryAfterCovers
    <2>3. deadline \in Nat
      BY <1>1, <2>2
    <2>4. Promised(r)
            => n.tokens + Rate * (deadline - n.lastRefill) >= RetryCost(r)
      <3> SUFFICES ASSUME Promised(r)
                   PROVE  n.tokens + Rate * (deadline - n.lastRefill)
                            >= RetryCost(r)
        OBVIOUS
      <3> DEFINE wait == RetryAfter(cost - n.tokens)
                 span == deadline - n.lastRefill
      <3>1. span \in Int /\ wait \in Nat /\ wait <= span /\ Scale <= wait
        BY <1>1, <1>3, <1>4, <2>2
      <3>2. Rate * wait >= cost - n.tokens
        BY <2>2 DEF wait
      <3> HIDE DEF wait, span
      <3>3. /\ Rate * wait \in Int /\ Rate * span \in Int
            /\ Rate * wait <= Rate * span
        BY <3>1, Units, ScaleMonotone
      \* A single charge: the deficit is refilled.
      <3>4. CASE kind[r].what # "upgrade"
        <4>1. n.tokens + Rate * span >= cost
          BY <1>2, <1>4, <3>2, <3>3
        <4> QED
          BY <1>6, <3>4, <4>1 DEF span
      \* Two charges: a whole second's refill covers both.
      <3>5. CASE kind[r].what = "upgrade"
        <4>1. Rate * Scale \in Int /\ Rate * Scale <= Rate * wait
          BY <3>1, Units, ScaleMonotone
        <4>2. RetryCost(r) <= Rate * Scale
          BY <3>5 DEF Promised
        <4>3. n.tokens + Rate * span >= RetryCost(r)
          BY <1>4, <1>6, <3>3, <4>1, <4>2
        <4> QED
          BY <4>3 DEF span
      <3> QED
        BY <3>4, <3>5
    <2> HIDE DEF n, birth, deadline
    <2>5. TypeOK'
      <3>1. "denied" \in Steps
        BY DEF Steps
      <3> QED
        BY <1>1, <1>3, <1>5, <2>1, <2>3, <3>1 DEF TypeOK
    <2>6. BucketInv'
      <3> SUFFICES ASSUME NEW j \in Keys
                   PROVE  BucketInv!(j)'
        BY DEF BucketInv
      <3>1. CASE j = k
        <4>1. /\ bucket'[j] = n /\ born'[j] = birth /\ clock' = clock
              /\ granted'[j] = granted[k]
          BY <1>1, <1>5, <2>1, <3>1 DEF TypeOK
        <4> QED
          BY <1>3, <4>1
      <3>2. CASE j # k
        BY <1>1, <1>5, <2>1, <3>2 DEF BucketInv, TypeOK
      <3> QED
        BY <3>1, <3>2
    <2>7. HandlerInv'
      <3> SUFFICES ASSUME NEW s \in Requests
                   PROVE  HandlerInv!(s)'
        BY DEF HandlerInv
      <3>1. CASE s = r
        <4>1. /\ step'[s] = "denied" /\ key'[s] = k /\ seen'[s] = granted[k]
              /\ now'[s] = now[r] /\ clock' = clock /\ bucket'[k] = n
              /\ granted'[k] = granted[k]
          BY <1>1, <1>5, <2>1, <3>1 DEF TypeOK
        <4> QED
          BY <1>1, <1>3, <4>1 DEF HandlerInv
      <3>2. CASE s # r
        <4>1. /\ step'[s] = step[s] /\ kind'[s] = kind[s]
              /\ now'[s] = now[s] /\ clock' = clock /\ granted' = granted
              /\ key'[s] = key[s] /\ seen'[s] = seen[s] /\ key[s] \in Keys
          BY <1>1, <1>5, <2>1, <3>2 DEF TypeOK
        <4>2. bucket[key[s]].known => bucket'[key[s]].known
          BY <1>1, <1>3, <2>1, <4>1 DEF TypeOK
        <4> QED
          BY <1>1, <4>1, <4>2 DEF HandlerInv
      <3> QED
        BY <3>1, <3>2
    <2>8. RetryInv'
      <3> SUFFICES ASSUME NEW s \in Requests,
                          step'[s] = "denied",
                          granted'[key'[s]] = seen'[s],
                          Promised(s)'
                   PROVE  RetryInv!(s)'
        BY DEF RetryInv
      <3>1. RetryCost(s)' = RetryCost(s) /\ Promised(s)
        BY <1>5, <2>1 DEF RetryCost, Promised, BurstUnits
      <3>2. CASE s = r
        <4>1. bucket'[key'[s]] = n /\ retryAt'[s] = deadline
          BY <1>1, <1>5, <2>1, <3>2 DEF TypeOK
        <4> QED
          BY <1>6, <2>4, <3>1, <3>2, <4>1
      <3>3. CASE s # r
        <4>1. /\ step[s] = "denied" /\ seen'[s] = seen[s] /\ key'[s] = key[s]
              /\ retryAt'[s] = retryAt[s] /\ granted' = granted
              /\ key[s] \in Keys /\ retryAt[s] \in Nat
          BY <1>1, <1>5, <2>1, <3>3 DEF TypeOK
        <4> DEFINE b == bucket[key[s]]
        <4>2. \/ b.tokens >= RetryCost(s)
              \/ b.tokens + Rate * (retryAt[s] - b.lastRefill) >= RetryCost(s)
          BY <1>1, <3>1, <4>1 DEF RetryInv
        <4>3. CASE key[s] = k
          <5>1. b \in Bucket /\ b.known /\ b.tokens <= BurstUnits
            BY <1>1, <4>1, <4>3 DEF HandlerInv, BucketInv
          <5>2. RetryCost(s) \in Nat /\ RetryCost(s) <= BurstUnits
            BY <1>1, <3>1, RetryCostPositive DEF Promised, TypeOK
          <5>3. /\ b.tokens \in Nat /\ n = Refilled(b, now[r])
            BY <4>3, <5>1 DEF n, Bucket
          <5>4. \/ n.tokens >= RetryCost(s)
                \/ n.tokens + Rate * (retryAt[s] - n.lastRefill) >= RetryCost(s)
            BY <1>1, <3>1, <4>1, <4>2, <5>1, <5>2, <5>3, RefillKeepsPromise
          <5>5. bucket'[key'[s]] = n
            BY <1>1, <2>1, <4>1, <4>3 DEF TypeOK
          <5> QED
            BY <3>1, <4>1, <5>4, <5>5
        <4>4. CASE key[s] # k
          <5>1. bucket'[key'[s]] = b
            BY <1>1, <2>1, <4>1, <4>4 DEF TypeOK
          <5> QED
            BY <3>1, <4>1, <4>2, <5>1
        <4> QED
          BY <4>3, <4>4
      <3> QED
        BY <3>2, <3>3
    <2> QED
      BY <2>5, <2>6, <2>7, <2>8 DEF LimiterInv
  <1> QED
    BY <1>7, <1>8

-----------------------------------------------------------------------------
(* The invariant of the specification *)

LEMMA InitEstablishes == Init => LimiterInv
  <1> SUFFICES ASSUME Init PROVE LimiterInv
    OBVIOUS
  <1>1. Plain \in Kinds
    BY DEF Plain, Kinds
  <1>2. TypeOK
    BY <1>1 DEF Init, TypeOK, NoBucket, Bucket, Steps
  <1>3. BucketInv
    BY DEF Init, BucketInv, NoBucket
  <1>4. HandlerInv
    BY DEF Init, HandlerInv
  <1>5. RetryInv
    BY DEF Init, RetryInv
  <1> QED
    BY <1>2, <1>3, <1>4, <1>5 DEF LimiterInv

\* A step of a handler that leaves the buckets alone and does not end denied.
LEMMA QuietStep ==
    ASSUME LimiterInv, TypeOK', NEW r \in Requests,
           UNCHANGED <<clock, bucket, granted, born>>,
           \A s \in Requests \ {r} :
               /\ step'[s] = step[s] /\ key'[s] = key[s] /\ kind'[s] = kind[s]
               /\ now'[s] = now[s] /\ retryAt'[s] = retryAt[s]
               /\ seen'[s] = seen[s],
           now'[r] <= clock,
           step'[r] # "denied",
           step'[r] \in {"connect", "connectLock"} => kind'[r].what = "upgrade"
    PROVE  LimiterInv'
  <1>1. BucketInv'
    BY DEF LimiterInv, BucketInv, BurstUnits
  <1>2. HandlerInv'
    <2> SUFFICES ASSUME NEW s \in Requests
                 PROVE  HandlerInv!(s)'
      BY DEF HandlerInv
    <2>1. CASE s = r
      BY <2>1
    <2>2. CASE s # r
      BY <2>2 DEF LimiterInv, HandlerInv
    <2> QED
      BY <2>1, <2>2
  <1>3. RetryInv'
    <2> SUFFICES ASSUME NEW s \in Requests, step'[s] = "denied",
                        granted'[key'[s]] = seen'[s],
                        Promised(s)'
                 PROVE  RetryInv!(s)'
      BY DEF RetryInv
    <2>1. s \in Requests \ {r}
      OBVIOUS
    <2>2. RetryCost(s)' = RetryCost(s) /\ Promised(s)
      BY <2>1 DEF RetryCost, Promised, BurstUnits
    <2>3. RetryInv
      BY DEF LimiterInv
    <2> QED
      BY <2>1, <2>2, <2>3 DEF RetryInv
  <1> QED
    BY <1>1, <1>2, <1>3 DEF LimiterInv

LEMMA NextPreserves == LimiterInv /\ [Next]_vars => LimiterInv'
  <1> SUFFICES ASSUME LimiterInv, [Next]_vars PROVE LimiterInv'
    OBVIOUS
  <1>1. TypeOK /\ BucketInv /\ HandlerInv /\ RetryInv
    BY DEF LimiterInv
  <1>2. CASE Tick
    <2>1. TypeOK'
      BY <1>1, <1>2 DEF Tick, TypeOK
    <2>2. clock \in Nat /\ clock' = clock + 1
      BY <1>1, <1>2 DEF Tick, TypeOK
    <2>3. BucketInv'
      <3> SUFFICES ASSUME NEW k \in Keys PROVE BucketInv!(k)'
        BY DEF BucketInv
      <3>1. bucket[k] \in Bucket
        BY <1>1 DEF TypeOK
      <3>2. bucket[k].lastRefill <= clock => bucket[k].lastRefill <= clock'
        BY <2>2, <3>1 DEF Bucket
      <3> QED
        BY <1>1, <1>2, <3>2 DEF Tick, BucketInv, BurstUnits
    <2>4. HandlerInv'
      BY <1>1, <1>2, <2>2 DEF Tick, HandlerInv, TypeOK
    <2>5. RetryInv'
      BY <1>1, <1>2 DEF Tick, RetryInv, RetryCost, Promised, BurstUnits
    <2> QED
      BY <2>1, <2>3, <2>4, <2>5 DEF LimiterInv
  <1>3. ASSUME NEW r \in Requests, Handle(r)
        PROVE  LimiterInv'
    <2>1. CASE Arrive(r)
      <3>1. TypeOK'
        BY <1>1, <2>1 DEF Arrive, TypeOK, Steps
      <3> QED
        BY <1>1, <2>1, <3>1, QuietStep DEF Arrive, TypeOK, HandlerInv
    <2>2. CASE ReadClock(r, "allow", "allowLock")
      <3>1. TypeOK'
        BY <1>1, <2>2 DEF ReadClock, TypeOK, Steps
      <3> QED
        BY <1>1, <2>2, <3>1, QuietStep DEF ReadClock, TypeOK, HandlerInv
    <2>3. CASE ReadClock(r, "connect", "connectLock")
      <3>1. TypeOK'
        BY <1>1, <2>3 DEF ReadClock, TypeOK, Steps
      <3> QED
        BY <1>1, <2>3, <3>1, QuietStep DEF ReadClock, TypeOK, HandlerInv
    <2>4. CASE Allow(r)
      <3> DEFINE accepted == IF kind[r].what = "upgrade" THEN "connect"
                             ELSE "served"
      <3>1. Charge(r, "allowLock", requestCost(kind[r]), accepted)
            /\ step[r] = "allowLock"
        BY <2>4 DEF Allow, Charge
      <3>2. ChargeCase(r, requestCost(kind[r]), accepted)
        BY <3>1 DEF ChargeCase
      <3> QED
        BY <3>1, <3>2, ChargePreserves
    <2>5. CASE AllowConnect(r)
      <3>1. Charge(r, "connectLock", Scale, "acquire")
            /\ step[r] = "connectLock"
        BY <2>5 DEF AllowConnect, Charge
      <3>2. ChargeCase(r, Scale, "acquire")
        BY <3>1 DEF ChargeCase
      <3> QED
        BY <3>1, <3>2, ChargePreserves
    <2>6. CASE Acquire(r)
      <3>1. TypeOK'
        BY <1>1, <2>6 DEF Acquire, TypeOK, Steps
      <3> QED
        BY <1>1, <2>6, <3>1, QuietStep DEF Acquire, TypeOK, HandlerInv
    <2>7. CASE Release(r)
      <3>1. counts' \in [Keys -> Nat]
        BY <1>1, <2>7 DEF Release, TypeOK
      <3>2. TypeOK'
        BY <1>1, <2>7, <3>1 DEF Release, TypeOK, Steps
      <3> QED
        BY <1>1, <2>7, <3>2, QuietStep DEF Release, TypeOK, HandlerInv
    <2>8. CASE Finish(r)
      <3>1. Plain \in Kinds
        BY DEF Plain, Kinds
      <3>2. TypeOK'
        BY <1>1, <2>8, <3>1 DEF Finish, TypeOK, Steps
      <3> QED
        BY <1>1, <2>8, <3>2, QuietStep DEF Finish, TypeOK, HandlerInv
    <2>9. CASE BodyUnreadable(r)
      <3>1. TypeOK'
        BY <1>1, <2>9 DEF BodyUnreadable, TypeOK, Steps
      <3> QED
        BY <1>1, <2>9, <3>1, QuietStep DEF BodyUnreadable, TypeOK, HandlerInv
    <2> QED
      BY <1>3, <2>1, <2>2, <2>3, <2>4, <2>5, <2>6, <2>7, <2>8, <2>9 DEF Handle
  <1>4. CASE UNCHANGED vars
    BY <1>4 DEF vars, LimiterInv, TypeOK, BucketInv, HandlerInv, RetryInv,
                RetryCost, Promised, BurstUnits
  <1> QED
    BY <1>2, <1>3, <1>4 DEF Next

THEOREM LimiterInvariant == Spec => []LimiterInv
  BY InitEstablishes, NextPreserves, PTL DEF Spec

\* Buckets, counters and handlers always hold values of their types; tokens in
\* particular never become negative, however requests interleave.
THEOREM LimiterTypeCorrect == Spec => []TypeOK
  <1>1. LimiterInv => TypeOK
    BY DEF LimiterInv
  <1> QED
    BY <1>1, LimiterInvariant, PTL

\* RateBound: no interleaving of clock readings and critical sections of Allow
\* and AllowConnect grants a key more than the burst and the elapsed refill.
THEOREM GrantsAreBounded == Spec => []RateBound
  <1>1. LimiterInv => RateBound
    <2> SUFFICES ASSUME LimiterInv, NEW k \in Keys, bucket[k].known
                 PROVE  /\ granted[k] <= BurstUnits + Rate * (clock - born[k])
                        /\ bucket[k].tokens <= BurstUnits
      BY DEF RateBound
    <2> DEFINE then == bucket[k].lastRefill - born[k]
               upto == clock - born[k]
    <2>1. /\ clock \in Nat /\ born[k] \in Nat /\ granted[k] \in Nat
          /\ bucket[k].lastRefill \in Nat /\ bucket[k].tokens \in Nat
      BY DEF LimiterInv, TypeOK, Bucket
    <2>2. /\ granted[k] + bucket[k].tokens <= BurstUnits + Rate * then
          /\ bucket[k].lastRefill <= clock /\ bucket[k].tokens <= BurstUnits
      BY DEF LimiterInv, BucketInv
    <2>3. then \in Int /\ upto \in Int /\ then <= upto
      BY <2>1, <2>2
    <2> HIDE DEF then, upto
    <2>4. /\ Rate * then \in Int /\ Rate * upto \in Int
          /\ Rate * then <= Rate * upto
      BY <2>3, Units, ScaleMonotone
    <2>5. granted[k] <= BurstUnits + Rate * upto
      BY <2>1, <2>2, <2>4, Units
    <2> QED
      BY <2>2, <2>5 DEF upto
  <1> QED
    BY <1>1, LimiterInvariant, PTL

\* RetryAfterSuffices: a client that waits for Retry-After, while its key spends
\* nothing, finds tokens for all that its repetition pays, if that fits in the
\* bucket and, for the two charges of an upgrade, into one second's refill.
THEOREM RetryAfterIsHonest == Spec => []RetryAfterSuffices
  <1>1. LimiterInv => RetryAfterSuffices
    <2> SUFFICES ASSUME LimiterInv, NEW r \in Requests,
                        step[r] = "denied", clock >= retryAt[r],
                        granted[key[r]] = seen[r], Promised(r)
                 PROVE  Available(key[r], clock) >= RetryCost(r)
      BY DEF RetryAfterSuffices
    <2> DEFINE b == bucket[key[r]]
               n == Refilled(b, clock)
               C == RetryCost(r)
    <2>1. /\ clock \in Nat /\ retryAt[r] \in Nat /\ key[r] \in Keys
          /\ kind[r] \in Kinds /\ b \in Bucket /\ b.lastRefill \in Nat
      BY DEF LimiterInv, TypeOK, Bucket
    <2>2. b.known /\ b.tokens <= BurstUnits /\ b.lastRefill <= clock
      BY <2>1 DEF LimiterInv, HandlerInv, BucketInv
    <2>3. C \in Nat /\ C <= BurstUnits
      BY <2>1, RetryCostPositive DEF Promised
    <2>4. \/ b.tokens >= C
          \/ b.tokens + Rate * (retryAt[r] - b.lastRefill) >= C
      BY DEF LimiterInv, RetryInv
    <2>5. \/ n.tokens >= C
          \/ n.tokens + Rate * (retryAt[r] - n.lastRefill) >= C
      <3> HIDE DEF b, C
      <3> QED
        BY <2>1, <2>2, <2>3, <2>4, RefillKeepsPromise DEF C
    <2>6. n.lastRefill = clock /\ n.tokens \in Nat
      <3>1. n \in Bucket
        BY <2>1, <2>2, Refill
      <3>2. CASE clock > b.lastRefill
        BY <2>1, <3>1, <3>2, <2>2 DEF Refilled, Bucket
      <3>3. CASE clock = b.lastRefill
        BY <2>1, <2>2, <3>1, <3>3 DEF Refilled, Bucket
      <3> QED
        BY <2>1, <2>2, <3>2, <3>3
    <2>7. /\ Rate * (retryAt[r] - clock) \in Int
          /\ Rate * (retryAt[r] - clock) <= 0
      <3>1. retryAt[r] - clock \in Int /\ retryAt[r] - clock <= 0
        BY <2>1
      <3>2. Rate * 0 = 0
        BY Units
      <3> QED
        BY <3>1, <3>2, Units, ScaleMonotone
    <2>8. n.tokens >= C
      <3> HIDE DEF n, C
      <3> QED
        BY <2>3, <2>5, <2>6, <2>7
    <2> QED
      BY <2>8 DEF Available
  <1> QED
    BY <1>1, LimiterInvariant, PTL

-----------------------------------------------------------------------------
(* Connection slots *)

LEMMA SlotsPreserved ==
    LimiterInv /\ SlotsAccounted /\ [Next]_vars => SlotsAccounted'
  <1> SUFFICES ASSUME LimiterInv, SlotsAccounted, [Next]_vars, NEW k \in Keys
               PROVE  /\ counts'[k] = Cardinality(OpenSockets(k)')
                      /\ counts'[k] <= MaxSockets
    BY DEF SlotsAccounted
  <1>1. /\ TypeOK /\ counts[k] \in Nat /\ IsFiniteSet(OpenSockets(k))
        /\ counts[k] = Cardinality(OpenSockets(k)) /\ counts[k] <= MaxSockets
        /\ MaxSockets \in Nat \ {0}
    <2>1. IsFiniteSet(OpenSockets(k))
      BY RequestsAssumption, FS_Subset DEF OpenSockets
    <2> QED
      BY <2>1, ConfigAssumption DEF LimiterInv, TypeOK, SlotsAccounted
  <1>2. ASSUME OpenSockets(k)' = OpenSockets(k), counts'[k] = counts[k]
        PROVE  /\ counts'[k] = Cardinality(OpenSockets(k)')
               /\ counts'[k] <= MaxSockets
    BY <1>1, <1>2
  \* Handlers that do not pass Acquire or Release.
  <1>3. ASSUME NEW r \in Requests, step[r] # "open", step'[r] # "open",
               \A s \in Requests \ {r} : step'[s] = step[s] /\ key'[s] = key[s]
        PROVE  OpenSockets(k)' = OpenSockets(k)
    BY <1>3 DEF OpenSockets
  <1>4. CASE Tick
    BY <1>2, <1>4 DEF Tick, OpenSockets
  <1>5. ASSUME NEW r \in Requests, Handle(r)
        PROVE  /\ counts'[k] = Cardinality(OpenSockets(k)')
               /\ counts'[k] <= MaxSockets
    <2>1. CASE Arrive(r)
      BY <1>1, <1>2, <1>3, <2>1 DEF Arrive, TypeOK
    <2>2. CASE ReadClock(r, "allow", "allowLock")
      BY <1>1, <1>2, <1>3, <2>2 DEF ReadClock, TypeOK
    <2>3. CASE ReadClock(r, "connect", "connectLock")
      BY <1>1, <1>2, <1>3, <2>3 DEF ReadClock, TypeOK
    <2>4. ASSUME NEW cost, NEW from, NEW accepted,
                 Charge(r, from, cost, accepted),
                 from # "open", accepted # "open"
          PROVE  /\ counts'[k] = Cardinality(OpenSockets(k)')
                 /\ counts'[k] <= MaxSockets
      <3>1. /\ step[r] # "open" /\ UNCHANGED <<counts, key>>
            /\ step' = [step EXCEPT ![r] = accepted]
               \/ step' = [step EXCEPT ![r] = "denied"]
        BY <2>4 DEF Charge
      <3> QED
        BY <1>1, <1>2, <1>3, <2>4, <3>1 DEF TypeOK
    <2>5. CASE Allow(r)
      BY <2>4, <2>5 DEF Allow
    <2>6. CASE AllowConnect(r)
      BY <2>4, <2>6 DEF AllowConnect
    <2>7. CASE Acquire(r)
      <3>1. CASE Full(key[r])
        BY <1>1, <1>2, <1>3, <2>7, <3>1 DEF Acquire, TypeOK
      <3>2. CASE ~Full(key[r])
        <4>1. /\ step[r] = "acquire" /\ step' = [step EXCEPT ![r] = "open"]
              /\ counts' = [counts EXCEPT ![key[r]] = @ + 1] /\ key' = key
          BY <2>7, <3>2 DEF Acquire
        <4>2. CASE key[r] = k
          <5>1. OpenSockets(k)' = OpenSockets(k) \cup {r}
                /\ r \notin OpenSockets(k)
            BY <1>1, <4>1, <4>2 DEF OpenSockets, TypeOK
          <5>2. Cardinality(OpenSockets(k)') = Cardinality(OpenSockets(k)) + 1
            BY <1>1, <5>1, FS_AddElement
          <5> QED
            BY <1>1, <3>2, <4>1, <4>2, <5>2 DEF TypeOK, Full
        <4>3. CASE key[r] # k
          <5>1. OpenSockets(k)' = OpenSockets(k)
            BY <1>1, <4>1, <4>3 DEF OpenSockets, TypeOK
          <5> QED
            BY <1>1, <1>2, <4>1, <4>3, <5>1 DEF TypeOK
        <4> QED
          BY <4>2, <4>3
      <3> QED
        BY <3>1, <3>2
    <2>8. CASE Release(r)
      <3>1. /\ step[r] = "open" /\ step' = [step EXCEPT ![r] = "served"]
            /\ key' = key
            /\ counts' = IF counts[key[r]] > 0
                         THEN [counts EXCEPT ![key[r]] = @ - 1] ELSE counts
        BY <2>8 DEF Release
      <3>2. CASE key[r] = k
        <4>1. OpenSockets(k)' = OpenSockets(k) \ {r} /\ r \in OpenSockets(k)
          BY <1>1, <3>1, <3>2 DEF OpenSockets, TypeOK
        <4>2. Cardinality(OpenSockets(k)') = Cardinality(OpenSockets(k)) - 1
          BY <1>1, <4>1, FS_RemoveElement
        <4>3. counts[k] > 0
          <5>1. OpenSockets(k) # {}
            BY <4>1
          <5>2. Cardinality(OpenSockets(k)) # 0
            BY <1>1, <5>1, FS_EmptySet
          <5> QED
            BY <1>1, <5>2
        <4> QED
          BY <1>1, <3>1, <3>2, <4>2, <4>3 DEF TypeOK
      <3>3. CASE key[r] # k
        <4>1. OpenSockets(k)' = OpenSockets(k)
          BY <1>1, <3>1, <3>3 DEF OpenSockets, TypeOK
        <4> QED
          BY <1>1, <1>2, <3>1, <3>3, <4>1 DEF TypeOK
      <3> QED
        BY <3>2, <3>3
    <2>9. CASE Finish(r)
      BY <1>1, <1>2, <1>3, <2>9 DEF Finish, TypeOK
    <2>10. CASE BodyUnreadable(r)
      BY <1>1, <1>2, <1>3, <2>10 DEF BodyUnreadable, TypeOK
    <2> QED
      BY <1>5, <2>1, <2>2, <2>3, <2>5, <2>6, <2>7, <2>8, <2>9, <2>10 DEF Handle
  <1>6. CASE UNCHANGED vars
    BY <1>2, <1>6 DEF vars, OpenSockets
  <1> QED
    BY <1>4, <1>5, <1>6 DEF Next

\* SlotsAccounted: the connection counter of a key equals the number of its
\* open sockets, so no interleaving leaks a slot or opens more than the cap.
THEOREM SlotsAreAccounted == Spec => []SlotsAccounted
  <1>1. Init => SlotsAccounted
    <2> SUFFICES ASSUME Init, NEW k \in Keys
                 PROVE  /\ counts[k] = Cardinality(OpenSockets(k))
                        /\ counts[k] <= MaxSockets
      BY DEF SlotsAccounted
    <2>1. OpenSockets(k) = {}
      BY DEF Init, OpenSockets
    <2> QED
      BY <2>1, FS_EmptySet, ConfigAssumption DEF Init
  <1> QED
    BY <1>1, SlotsPreserved, LimiterInvariant, PTL DEF Spec

=============================================================================
