-------------------------- MODULE EdgeSessionProofs --------------------------
(***************************************************************************)
(* Proofs about EdgeSession: for any rate, burst, limit of sockets and     *)
(* number of searches, any set of sockets, and every interleaving of       *)
(* requests, queries, hibernations and restarts.                           *)
(*                                                                         *)
(* The object's parts are proved one on top of another: the token bucket   *)
(* by itself, then the sockets, then the searches, then what holds of the  *)
(* searches as long as the key uses one socket.                            *)
(***************************************************************************)
EXTENDS EdgeSession, FiniteSetTheorems, TLAPS

-----------------------------------------------------------------------------
(* The inductive invariants *)

\* The bucket that counts is the stored one: memory holds it or nothing.  What
\* it still has, with what was granted, is covered by the burst and the refill
\* up to the last refill.
RateInv ==
    /\ clock \in 0..MaxTime
    /\ granted \in Nat
    /\ born \in 0..clock
    /\ restBucket \in {NoBucket, stored}
    /\ \/ stored = NoBucket /\ granted = 0
       \/ /\ stored \in [tokens : 0..Burst, last : born..clock]
          /\ stored.tokens + granted <= Burst + Rate * (stored.last - born)

\* A socket is open only if it was opened since the object was started.
SocketsInv ==
    /\ conn \in [Sockets -> {"none", "open", "closed"}]
    /\ used \subseteq Sockets /\ IsFiniteSet(used)
    /\ Open \subseteq used
    /\ \A s \in used : conn[s] # "none"
    /\ Cardinality(Open) <= MaxSockets

\* Searches belong to sockets that were accepted, those that can still act to
\* sockets opened since the object was started.
SearchInv ==
    /\ latest \in [Sockets -> 0..MaxSearches]
    /\ query \in [Searches -> {"none", "running", "done"}]
    /\ aborted \subseteq Searches /\ inflight \subseteq Searches
    /\ frames \in [Searches -> SUBSET Frames]
    /\ \A x \in Searches :
         /\ query[x] # "none" \/ x \in aborted => conn[SocketOf(x)] # "none"
         /\ query[x] # "none" => SeqOf(x) <= latest[SocketOf(x)]
         /\ conn[SocketOf(x)] = "none" => latest[SocketOf(x)] = 0
         /\ query[x] = "running" \/ x \in inflight => SocketOf(x) \in used

\* On a socket that is still open, a search that was refused or has ended has
\* been answered, one that is aborted has been reported, and one that runs
\* unaborted is the newest that was accepted and the next one will abort it.
Settled(x) ==
    /\ SeqOf(x) <= latest[SocketOf(x)] /\ query[x] # "running"
          => frames[x] # {}
    /\ x \in aborted => frames[x] # {}
    /\ query[x] = "running" /\ x \notin aborted =>
          x \in inflight /\ ~Superseded(x)

\* The key uses one socket, said without counting.
OneSocket == \A s \in used, t \in used : s = t

SoleInv == OneSocket => \A x \in Searches : conn[SocketOf(x)] = "open" => Settled(x)

EdgeInv == RateInv /\ SocketsInv /\ SearchInv /\ SoleInv

-----------------------------------------------------------------------------
(* Facts about the operators *)

LEMMA SearchIsPair ==
    /\ \A x \in Searches : /\ SocketOf(x) \in Sockets /\ SeqOf(x) \in Seqs
                           /\ x = <<SocketOf(x), SeqOf(x)>>
    /\ \A s \in Sockets, n \in Seqs :
          /\ <<s, n>> \in Searches
          /\ SocketOf(<<s, n>>) = s /\ SeqOf(<<s, n>>) = n
  BY DEF Searches, SocketOf, SeqOf

\* Two searches of one socket with the same seq are one.
LEMMA SameSearch ==
    ASSUME NEW x \in Searches, NEW y \in Searches,
           SocketOf(x) = SocketOf(y), SeqOf(x) = SeqOf(y)
    PROVE  x = y
  BY SearchIsPair

LEMMA SoleIsOneSocket ==
    ASSUME SocketsInv
    PROVE  Sole => OneSocket
<1> SUFFICES ASSUME Sole, NEW s \in used, NEW t \in used PROVE s = t
  BY DEF OneSocket
<1> SUFFICES ASSUME s # t PROVE FALSE
  OBVIOUS
<1>1. IsFiniteSet({s}) /\ Cardinality({s}) = 1
  BY FS_Singleton
<1>2. IsFiniteSet({s} \cup {t}) /\ Cardinality({s} \cup {t}) = 2
  BY <1>1, FS_AddElement
<1>3. Cardinality({s} \cup {t}) <= Cardinality(used)
  BY FS_Subset DEF SocketsInv
<1>4. Cardinality(used) \in Nat
  BY FS_CardinalityType DEF SocketsInv
<1> QED BY <1>2, <1>3, <1>4 DEF Sole

LEMMA RateDistributes ==
    ASSUME NEW a \in Int, NEW b \in Int, NEW c \in Int
    PROVE  /\ Rate * (b - a) \in Int /\ Rate * (c - b) \in Int
           /\ Rate * (c - a) = Rate * (b - a) + Rate * (c - b)
  BY EdgeAssumption

LEMMA RateMonotone ==
    ASSUME NEW m \in Nat
    PROVE  Rate * m \in Nat
  BY EdgeAssumption

-----------------------------------------------------------------------------
(* The token bucket *)

LEMMA InitRate == Init => RateInv
  BY EdgeAssumption DEF Init, RateInv

LEMMA NoBucketIsNone ==
    ASSUME NEW b \in [tokens : 0..Burst, last : born..clock]
    PROVE  b # NoBucket
  BY DEF NoBucket

\* A bucket at hand, loaded from memory or storage or created, and refilled.
LEMMA RefilledBucket ==
    ASSUME RateInv
    PROVE  LET b == refill(Loaded)
               since == IF restBucket = NoBucket /\ stored = NoBucket
                        THEN clock ELSE born
           IN  /\ since \in 0..clock
               /\ b \in [tokens : 0..Burst, last : since..clock]
               /\ b.tokens + granted <= Burst + Rate * (b.last - since)
<1> DEFINE since == IF restBucket = NoBucket /\ stored = NoBucket
                    THEN clock ELSE born
           b == Loaded
           earned == Rate * (clock - b.last)
           sum == b.tokens + earned
<1>1. /\ clock \in Nat /\ born \in Nat /\ born <= clock
      /\ Burst \in Nat \ {0} /\ granted \in Nat
  BY EdgeAssumption DEF RateInv
<1>2. /\ since \in 0..clock
      /\ b \in [tokens : 0..Burst, last : since..clock]
      /\ b.tokens + granted <= Burst + Rate * (b.last - since)
  <2>1. CASE stored = NoBucket
    <3>1. /\ restBucket = NoBucket /\ granted = 0 /\ since = clock
          /\ b = [tokens |-> Burst, last |-> clock]
      BY <2>1, <1>1, NoBucketIsNone DEF RateInv, Loaded
    <3>2. Rate * (clock - clock) = 0
      BY <1>1, EdgeAssumption
    <3> QED BY <1>1, <3>1, <3>2
  <2>2. CASE stored # NoBucket
    <3>1. b = stored /\ since = born
      BY <2>2 DEF RateInv, Loaded
    <3> QED BY <2>2, <3>1, <1>1 DEF RateInv
  <2> QED BY <2>1, <2>2
<1> HIDE DEF b, since
<1>3. /\ b.tokens \in 0..Burst /\ b.last \in Nat /\ since \in Nat
      /\ since <= b.last /\ b.last <= clock
  BY <1>2, <1>1
<1>4. earned \in Nat
  BY <1>1, <1>3, RateMonotone
<1>5. Rate * (clock - since) = Rate * (b.last - since) + earned
      /\ Rate * (b.last - since) \in Int
  <2>1. since \in Int /\ b.last \in Int /\ clock \in Int
    BY <1>1, <1>3
  <2> QED BY <2>1, RateDistributes, ZenonT(60)
<1>6. refill(b) = IF clock > b.last
                  THEN [tokens |-> IF sum < Burst THEN sum ELSE Burst,
                        last |-> clock]
                  ELSE b
  BY DEF refill
<1>7. /\ since \in 0..clock
      /\ refill(b) \in [tokens : 0..Burst, last : since..clock]
      /\ refill(b).tokens + granted <= Burst + Rate * (refill(b).last - since)
  <2>1. CASE clock > b.last
    <3> DEFINE t == IF sum < Burst THEN sum ELSE Burst
    <3>1. t \in 0..Burst /\ t <= b.tokens + earned
      BY <1>1, <1>3, <1>4
    <3>2. refill(b) = [tokens |-> t, last |-> clock]
      BY <1>6, <2>1
    <3>3. t + granted <= Burst + Rate * (clock - since)
      <4> HIDE DEF t, earned
      <4> QED BY <1>1, <1>2, <1>3, <1>4, <1>5, <3>1
    <3> HIDE DEF t
    <3> QED BY <1>1, <1>2, <3>1, <3>2, <3>3
  <2>2. CASE ~(clock > b.last)
    BY <1>2, <1>6, <2>2
  <2> QED BY <2>1, <2>2
<1> QED BY <1>7 DEF b, since

\* /rate/allow: what is taken from the bucket is granted, and what remains is
\* persisted, whether the request is allowed or not.
LEMMA RateAllowStep ==
    ASSUME RateInv, NEW cost \in Nat \ {0}, NEW allowed \in BOOLEAN,
           rateAllow(cost, allowed)
    PROVE  RateInv'
<1> DEFINE b == refill(Loaded)
           rest == IF allowed THEN [b EXCEPT !.tokens = @ - cost] ELSE b
<1>1. /\ born' \in 0..clock
      /\ b \in [tokens : 0..Burst, last : born'..clock]
      /\ b.tokens + granted <= Burst + Rate * (b.last - born')
  BY RefilledBucket DEF rateAllow
<1>2. /\ allowed <=> b.tokens >= cost
      /\ restBucket' = rest /\ stored' = rest /\ clock' = clock
      /\ granted' = IF allowed THEN granted + cost ELSE granted
  BY DEF rateAllow, persistRestBucket
<1>3. clock \in 0..MaxTime /\ granted \in Nat /\ Burst \in Nat
  BY EdgeAssumption DEF RateInv
<1> HIDE DEF b
<1>4. /\ rest \in [tokens : 0..Burst, last : born'..clock]
      /\ rest.last = b.last /\ rest.tokens + granted' = b.tokens + granted
      /\ granted' \in Nat
  BY <1>1, <1>2, <1>3
<1> HIDE DEF rest
<1> QED BY <1>1, <1>2, <1>3, <1>4 DEF RateInv

\* Only a grant, the clock and the loss of memory touch the bucket.
LEMMA NextRate == RateInv /\ [Next]_vars => RateInv'
<1> SUFFICES ASSUME RateInv, [Next]_vars PROVE RateInv'
  OBVIOUS
<1>1. CASE Tick
  BY <1>1, EdgeAssumption DEF Tick, RateInv
<1>2. CASE RestRequest
  BY <1>2, RateAllowStep, EdgeAssumption DEF RestRequest
<1>3. ASSUME NEW s \in Sockets, AcceptWebSocket(s) PROVE RateInv'
  BY <1>3, RateAllowStep DEF AcceptWebSocket
<1>4. CASE Hibernate \/ Restart
  BY <1>4 DEF Hibernate, Restart, RateInv
<1>5. ASSUME UNCHANGED rateVars PROVE RateInv'
  BY <1>5 DEF rateVars, RateInv
<1> QED
  BY <1>1, <1>2, <1>3, <1>4, <1>5
     DEF Next, RefuseSearch, StartSearch, WebSocketClose, WebSocketError,
         QueryEnds, vars

-----------------------------------------------------------------------------
(* The sockets *)

LEMMA InitSockets == Init => SocketsInv
<1> SUFFICES ASSUME Init PROVE SocketsInv
  OBVIOUS
<1>1. Open = {}
  BY DEF Init, Open
<1>2. Cardinality(Open) <= MaxSockets
  BY <1>1, FS_EmptySet, EdgeAssumption
<1> QED BY <1>1, <1>2, FS_EmptySet DEF Init, SocketsInv

\* Fewer open sockets are no more than allowed.
LEMMA FewerOpen ==
    ASSUME SocketsInv, Open' \subseteq Open
    PROVE  Cardinality(Open') <= MaxSockets
<1>1. IsFiniteSet(Open)
  BY FS_Subset DEF SocketsInv
<1>2. IsFiniteSet(Open') /\ Cardinality(Open') <= Cardinality(Open)
  BY <1>1, FS_Subset
<1>3. Cardinality(Open) \in Nat /\ Cardinality(Open') \in Nat
  BY <1>1, <1>2, FS_CardinalityType
<1> QED BY <1>2, <1>3, EdgeAssumption DEF SocketsInv

\* A socket is accepted only while there is room for it.
LEMMA AcceptSockets ==
    ASSUME SocketsInv, NEW s \in Sockets, AcceptWebSocket(s)
    PROVE  SocketsInv'
<1> USE DEF SocketsInv
<1>1. CASE UNCHANGED <<conn, used>>
  BY <1>1 DEF Open
<1>2. CASE /\ ~Full
           /\ conn' = [conn EXCEPT ![s] = "open"]
           /\ used' = used \cup {s}
  <2>1. Open' = Open \cup {s}
    BY <1>2 DEF Open
  <2>2. IsFiniteSet(Open) /\ Cardinality(Open) \in Nat
    BY FS_Subset, FS_CardinalityType
  <2>3. Cardinality(Open) + 1 <= MaxSockets
    BY <1>2, <2>2, EdgeAssumption DEF Full
  <2>4. Cardinality(Open') \in {Cardinality(Open), Cardinality(Open) + 1}
    BY <2>1, <2>2, FS_AddElement
  <2>5. IsFiniteSet(Open') /\ Cardinality(Open') \in Nat
    BY <2>1, <2>2, FS_AddElement, FS_CardinalityType
  <2>6. Cardinality(Open') <= MaxSockets
    BY <2>2, <2>3, <2>4, <2>5, EdgeAssumption
  <2>7. IsFiniteSet(used')
    BY <1>2, FS_AddElement
  <2>8. /\ conn' \in [Sockets -> {"none", "open", "closed"}]
        /\ used' \subseteq Sockets /\ Open' \subseteq used'
        /\ \A t \in used' : conn'[t] # "none"
    BY <1>2, <2>1
  <2> QED BY <2>6, <2>7, <2>8
<1> QED BY <1>1, <1>2 DEF AcceptWebSocket

LEMMA NextSockets == SocketsInv /\ [Next]_vars => SocketsInv'
<1> SUFFICES ASSUME SocketsInv, [Next]_vars PROVE SocketsInv'
  OBVIOUS
<1>1. ASSUME NEW s \in Sockets, AcceptWebSocket(s) PROVE SocketsInv'
  BY <1>1, AcceptSockets
<1>2. ASSUME NEW s \in Sockets, conn' = [conn EXCEPT ![s] = "closed"],
             used' = used
      PROVE  SocketsInv'
  <2>1. Open' \subseteq Open
    BY <1>2 DEF Open, SocketsInv
  <2>2. Cardinality(Open') <= MaxSockets
    BY <2>1, FewerOpen
  <2> QED BY <1>2, <2>1, <2>2 DEF SocketsInv
<1>3. CASE Restart
  <2>1. Open' = {} /\ used' = {}
    BY <1>3 DEF Restart, Open
  <2>2. Cardinality(Open') <= MaxSockets
    BY <2>1, FewerOpen
  <2> QED BY <1>3, <2>1, <2>2, FS_EmptySet DEF Restart, SocketsInv
<1>4. CASE UNCHANGED <<conn, used>>
  BY <1>4 DEF SocketsInv, Open
<1> QED
  BY <1>1, <1>2, <1>3, <1>4
     DEF Next, Tick, RestRequest, RefuseSearch, StartSearch, WebSocketClose,
         WebSocketError, QueryEnds, Hibernate, vars

-----------------------------------------------------------------------------
(* The searches *)

LEMMA InitSearch == Init => SearchInv /\ SoleInv
<1> SUFFICES ASSUME Init PROVE SearchInv /\ SoleInv
  OBVIOUS
<1>1. /\ latest \in [Sockets -> 0..MaxSearches]
      /\ query \in [Searches -> {"none", "running", "done"}]
      /\ frames \in [Searches -> SUBSET Frames]
  BY EdgeAssumption DEF Init
<1>2. /\ aborted = {} /\ inflight = {}
      /\ \A x \in Searches : query[x] = "none"
  BY DEF Init
<1>3. \A x \in Searches : /\ conn[SocketOf(x)] = "none"
                           /\ latest[SocketOf(x)] = 0
  BY SearchIsPair DEF Init
<1> QED BY <1>1, <1>2, <1>3 DEF SearchInv, SoleInv

\* The search a socket starts, and what it does to the others.
LEMMA StartedSearch ==
    ASSUME SocketsInv, SearchInv, NEW s \in Sockets, StartSearch(s)
    PROVE  \E x \in Searches :
             /\ x = <<s, latest[s] + 1>>
             /\ SocketOf(x) = s /\ s \in used
             /\ SeqOf(x) = latest'[s] /\ SeqOf(x) > latest[s]
             /\ SeqOf(x) = latest[s] + 1
             /\ latest' = [latest EXCEPT ![s] = SeqOf(x)]
             /\ latest' \in [Sockets -> 0..MaxSearches]
             /\ query' = [query EXCEPT ![x] = "running"]
             /\ aborted' = aborted \cup inflight
             /\ inflight' = {x}
             /\ frames' \in [Searches -> SUBSET Frames]
             /\ \A y \in Searches : frames[y] \subseteq frames'[y]
<1> DEFINE x == <<s, latest[s] + 1>>
<1>1. latest[s] + 1 \in Seqs
  BY EdgeAssumption DEF StartSearch, SearchInv, Seqs
<1>2. x \in Searches /\ SocketOf(x) = s /\ SeqOf(x) = latest[s] + 1
  BY <1>1, SearchIsPair
<1>3. s \in used
  BY DEF StartSearch, SocketsInv, Open
<1>4. /\ latest' \in [Sockets -> 0..MaxSearches] /\ latest'[s] = latest[s] + 1
      /\ latest' = [latest EXCEPT ![s] = latest[s] + 1] /\ latest[s] \in Nat
  BY <1>1, EdgeAssumption DEF StartSearch, SearchInv, Seqs
<1>5. /\ query' = [query EXCEPT ![x] = "running"]
      /\ aborted' = aborted \cup inflight /\ inflight' = {x}
  BY DEF StartSearch, Replace
<1>6. /\ frames' \in [Searches -> SUBSET Frames]
      /\ \A y \in Searches : frames[y] \subseteq frames'[y]
  BY DEF StartSearch, SearchInv, Frames
<1>7. x = <<s, latest[s] + 1>>
  OBVIOUS
<1> HIDE DEF x
<1>8. /\ SeqOf(x) = latest'[s] /\ SeqOf(x) > latest[s]
      /\ latest' = [latest EXCEPT ![s] = SeqOf(x)]
  BY <1>2, <1>4
<1> QED BY <1>2, <1>3, <1>4, <1>5, <1>6, <1>7, <1>8

LEMMA StartSearchKeeps ==
    ASSUME SocketsInv, SearchInv, NEW s \in Sockets, StartSearch(s)
    PROVE  SearchInv'
<1> PICK x \in Searches :
      /\ SocketOf(x) = s /\ s \in used
      /\ SeqOf(x) = latest'[s] /\ SeqOf(x) > latest[s]
      /\ latest' = [latest EXCEPT ![s] = SeqOf(x)]
      /\ latest' \in [Sockets -> 0..MaxSearches]
      /\ query' = [query EXCEPT ![x] = "running"]
      /\ aborted' = aborted \cup inflight
      /\ inflight' = {x}
      /\ frames' \in [Searches -> SUBSET Frames]
  BY StartedSearch
<1>1. conn' = conn /\ used' = used
  BY DEF StartSearch
<1>2. \A y \in Searches : y \in inflight => conn[SocketOf(y)] # "none"
  BY DEF SearchInv, SocketsInv
<1>3. conn[s] # "none"
  BY DEF SocketsInv
<1>4. \A y \in Searches : query'[y] # "none" => SeqOf(y) <= latest'[SocketOf(y)]
  <2> SUFFICES ASSUME NEW y \in Searches, query'[y] # "none"
               PROVE  SeqOf(y) <= latest'[SocketOf(y)]
    OBVIOUS
  <2>1. SocketOf(y) \in Sockets /\ SeqOf(y) \in Nat /\ SeqOf(x) \in Nat
        /\ latest[s] \in Nat /\ latest \in [Sockets -> 0..MaxSearches]
    BY SearchIsPair DEF SearchInv, Seqs
  <2>2. CASE y = x
    BY <2>1, <2>2
  <2>3. CASE y # x
    <3>1. SeqOf(y) <= latest[SocketOf(y)]
      BY <2>3 DEF SearchInv
    <3> QED BY <2>1, <3>1
  <2> QED BY <2>2, <2>3
<1>5. \A y \in Searches :
         conn'[SocketOf(y)] = "none" => latest'[SocketOf(y)] = 0
  BY <1>1, <1>3 DEF SearchInv
<1> QED BY <1>1, <1>2, <1>3, <1>4, <1>5 DEF SearchInv

\* A search that is refused concerns no other search.
LEMMA RefuseSearchKeeps ==
    ASSUME SocketsInv, SearchInv, SoleInv, NEW s \in Sockets, RefuseSearch(s)
    PROVE  SearchInv' /\ SoleInv'
<1> DEFINE x == <<s, latest[s] + 1>>
<1>1. /\ conn[s] = "open" /\ latest[s] < MaxSearches
      /\ latest' = [latest EXCEPT ![s] = latest[s] + 1]
      /\ frames' = Sent(x, "error")
      /\ UNCHANGED <<conn, query, aborted, inflight, used>>
  BY DEF RefuseSearch
<1>2. latest \in [Sockets -> 0..MaxSearches] /\ latest[s] \in Nat
  BY DEF SearchInv
<1>3. latest[s] + 1 \in Seqs
  BY <1>1, <1>2, EdgeAssumption DEF Seqs
<1>4. x \in Searches /\ SocketOf(x) = s /\ SeqOf(x) = latest[s] + 1
  BY <1>3, SearchIsPair
<1> HIDE DEF x
<1>5. frames' = [frames EXCEPT ![x] = @ \cup {"error"}]
  BY <1>1, <1>4 DEF Sent
<1>6. latest' \in [Sockets -> 0..MaxSearches] /\ frames' \in [Searches -> SUBSET Frames]
  BY <1>1, <1>2, <1>3, <1>5 DEF SearchInv, Frames, Seqs
<1>7. \A y \in Searches : latest[SocketOf(y)] <= latest'[SocketOf(y)]
  BY <1>1, <1>2, SearchIsPair
<1>8. SearchInv'
  <2>1. \A y \in Searches :
          query[y] # "none" => SeqOf(y) <= latest'[SocketOf(y)]
    <3> SUFFICES ASSUME NEW y \in Searches, query[y] # "none"
                 PROVE  SeqOf(y) <= latest'[SocketOf(y)]
      OBVIOUS
    <3>1. SeqOf(y) <= latest[SocketOf(y)] /\ SeqOf(y) \in Nat
      BY SearchIsPair DEF SearchInv, Seqs
    <3> QED BY <1>2, <1>6, <1>7, <3>1, SearchIsPair
  <2>2. \A y \in Searches :
          conn[SocketOf(y)] = "none" => latest'[SocketOf(y)] = 0
    BY <1>1, <1>2 DEF SearchInv
  <2> QED BY <1>1, <1>6, <2>1, <2>2 DEF SearchInv
<1>9. SoleInv'
  <2> SUFFICES ASSUME OneSocket', NEW y \in Searches, conn'[SocketOf(y)] = "open"
               PROVE  Settled(y)'
    BY DEF SoleInv
  <2>1. Settled(y)
    BY <1>1 DEF SoleInv, OneSocket
  <2>2. frames[y] \subseteq frames'[y] /\ (y = x => frames'[y] # {})
    BY <1>5 DEF SearchInv
  <2>3. SeqOf(y) <= latest'[SocketOf(y)] /\ y # x => SeqOf(y) <= latest[SocketOf(y)]
    <3>1. CASE SocketOf(y) = s
      <4>1. y # x => SeqOf(y) # latest[s] + 1
        BY <1>4, <3>1, SameSearch
      <4>2. latest'[s] = latest[s] + 1 /\ SeqOf(y) \in Nat
        BY <1>1, <1>2, SearchIsPair DEF Seqs
      <4> QED BY <1>2, <3>1, <4>1, <4>2
    <3>2. CASE SocketOf(y) # s
      BY <1>1, <1>2, <3>2, SearchIsPair
    <3> QED BY <3>1, <3>2
  <2>4. Superseded(y)' = Superseded(y)
    BY <1>1 DEF Superseded
  <2> QED BY <1>1, <2>1, <2>2, <2>3, <2>4 DEF Settled
<1> QED BY <1>8, <1>9

\* Every search that is aborted is on the one socket, and has been told.
LEMMA StartSearchSettles ==
    ASSUME SocketsInv, SearchInv, SoleInv, NEW s \in Sockets, StartSearch(s)
    PROVE  SoleInv'
<1> PICK x \in Searches :
      /\ SocketOf(x) = s /\ s \in used
      /\ SeqOf(x) = latest'[s] /\ latest' = [latest EXCEPT ![s] = SeqOf(x)]
      /\ SeqOf(x) = latest[s] + 1
      /\ query' = [query EXCEPT ![x] = "running"]
      /\ aborted' = aborted \cup inflight
      /\ inflight' = {x}
      /\ \A y \in Searches : frames[y] \subseteq frames'[y]
  BY StartedSearch
<1> SUFFICES ASSUME OneSocket', NEW y \in Searches, conn'[SocketOf(y)] = "open"
             PROVE  Settled(y)'
  BY DEF SoleInv
<1>1. conn' = conn /\ used' = used /\ OneSocket
  BY DEF StartSearch, OneSocket
<1>2. Settled(y) /\ SocketOf(y) = s
  <2>1. SocketOf(y) \in used
    BY <1>1, SearchIsPair DEF SocketsInv, Open
  <2> QED BY <1>1, <2>1 DEF SoleInv, OneSocket
<1>3. y \in inflight => "cancelled" \in frames'[y]
  <2> SUFFICES ASSUME y \in inflight PROVE "cancelled" \in frames'[y]
    OBVIOUS
  <2>1. y = <<s, SeqOf(y)>>
    BY <1>2, SearchIsPair
  <2>2. y \in CancelledSeqs(s)
    BY <2>1 DEF CancelledSeqs
  <2> QED BY <2>2 DEF StartSearch
<1>4. query'[y] = IF y = x THEN "running" ELSE query[y]
  BY DEF SearchInv
<1>5. SeqOf(y) <= latest'[SocketOf(y)] /\ query'[y] # "running"
        => frames'[y] # {}
  <2> SUFFICES ASSUME SeqOf(y) <= latest'[s], query'[y] # "running"
               PROVE  frames'[y] # {}
    BY <1>2
  <2>1. y # x /\ query[y] # "running"
    BY <1>4
  <2>2. SeqOf(y) # SeqOf(x)
    BY <1>2, <2>1, SameSearch
  <2>3. SeqOf(y) \in Nat /\ latest[s] \in Nat
    BY SearchIsPair DEF SearchInv, Seqs
  <2>4. SeqOf(y) <= latest[s]
    BY <2>2, <2>3
  <2> QED BY <1>2, <2>1, <2>4 DEF Settled
<1>6. y \in aborted' => frames'[y] # {}
  BY <1>2, <1>3 DEF Settled
<1>7. query'[y] = "running" /\ y \notin aborted' => y = x
  BY <1>2, <1>4 DEF Settled
<1>8. ~Superseded(x)'
  <2>1. \A z \in Searches : query'[z] # "none" => SeqOf(z) <= latest'[SocketOf(z)]
    BY StartSearchKeeps DEF SearchInv
  <2>2. SeqOf(x) \in Nat /\ latest'[SocketOf(x)] = SeqOf(x)
    BY SearchIsPair DEF Seqs
  <2> SUFFICES ASSUME NEW n \in Seqs, n > SeqOf(x),
                      query'[<<SocketOf(x), n>>] # "none"
               PROVE  FALSE
    BY DEF Superseded
  <2>3. <<s, n>> \in Searches /\ SocketOf(<<s, n>>) = s /\ SeqOf(<<s, n>>) = n
    BY SearchIsPair
  <2>4. n <= SeqOf(x) /\ n \in Nat
    BY <2>1, <2>2, <2>3 DEF Seqs
  <2> QED BY <2>2, <2>4
<1> QED BY <1>5, <1>6, <1>7, <1>8 DEF Settled

\* The end of a query.
LEMMA QueryEndsKeeps ==
    ASSUME SocketsInv, SearchInv, NEW x \in Searches, QueryEnds(x)
    PROVE  SearchInv'
<1> PICK kind \in {OnSuccess(x), OnError(x)} : frames' = Sent(x, kind)
  BY DEF QueryEnds
<1>1. kind \in Frames \cup {"nothing"}
  BY DEF OnSuccess, OnError, Frames
<1>2. frames' \in [Searches -> SUBSET Frames]
  BY <1>1 DEF Sent, SearchInv
<1>3. /\ query' = [query EXCEPT ![x] = "done"] /\ query[x] = "running"
      /\ inflight' \subseteq inflight
      /\ UNCHANGED <<conn, latest, aborted, used>>
  BY DEF QueryEnds
<1>4. \A y \in Searches : query'[y] # "none" => query[y] # "none"
  BY <1>3 DEF SearchInv
<1> QED BY <1>2, <1>3, <1>4 DEF SearchInv

\* On the one socket a seq names one search, so that the end of a query takes
\* no other search's controller away.
LEMMA QueryEndsSettles ==
    ASSUME SocketsInv, SearchInv, SoleInv, NEW x \in Searches, QueryEnds(x)
    PROVE  SoleInv'
<1> SUFFICES ASSUME OneSocket', NEW y \in Searches, conn'[SocketOf(y)] = "open"
             PROVE  Settled(y)'
  BY DEF SoleInv
<1>1. /\ UNCHANGED <<conn, latest, aborted, used>> /\ OneSocket
      /\ query[x] = "running" /\ query' = [query EXCEPT ![x] = "done"]
      /\ inflight' = {z \in inflight : SeqOf(z) # SeqOf(x)}
  BY DEF QueryEnds, OneSocket
<1> PICK kind \in {OnSuccess(x), OnError(x)} : frames' = Sent(x, kind)
  BY DEF QueryEnds
<1>2. SocketOf(y) \in used /\ SocketOf(x) = SocketOf(y)
  <2>1. SocketOf(y) \in used /\ SocketOf(x) \in used
    BY <1>1, SearchIsPair DEF SocketsInv, Open, SearchInv
  <2> QED BY <1>1, <2>1 DEF OneSocket
<1>3. Settled(y) /\ conn[SocketOf(y)] = "open"
  BY <1>1 DEF SoleInv
<1>6. Superseded(y)' => Superseded(y)
  BY <1>1, SearchIsPair DEF Superseded, SearchInv
<1>4. CASE y = x
  <2>1. conn[SocketOf(x)] = "open" /\ query'[y] = "done"
    BY <1>1, <1>3, <1>4 DEF SearchInv
  <2>2. frames'[x] # {}
    <3>1. kind = "nothing" => x \in aborted
      BY DEF OnSuccess, OnError
    <3>2. kind = "nothing" => frames' = frames /\ frames[x] # {}
      BY <1>3, <1>4, <3>1 DEF Sent, Settled
    <3>3. kind # "nothing" => kind \in frames'[x]
      BY <2>1 DEF Sent, SearchInv
    <3> QED BY <3>2, <3>3
  <2> QED BY <1>4, <2>1, <2>2 DEF Settled
<1>5. CASE y # x
  <2>1. SeqOf(y) # SeqOf(x)
    BY <1>2, <1>5, SameSearch
  <2>2. frames'[y] = frames[y] /\ query'[y] = query[y]
    BY <1>1, <1>5 DEF Sent, SearchInv
  <2> QED BY <1>1, <1>3, <1>6, <2>1, <2>2 DEF Settled
<1> QED BY <1>4, <1>5

-----------------------------------------------------------------------------
(* Sockets that come and go, and the object's life *)

\* A new socket has no searches.
LEMMA AcceptKeeps ==
    ASSUME SocketsInv, SearchInv, SoleInv, NEW s \in Sockets, AcceptWebSocket(s)
    PROVE  SearchInv' /\ SoleInv'
<1>1. UNCHANGED <<latest, query, aborted, inflight, frames>>
  BY DEF AcceptWebSocket, searchVars
<1>2. CASE UNCHANGED <<conn, used>>
  BY <1>1, <1>2 DEF SearchInv, SoleInv, OneSocket, Settled, Superseded
<1>3. CASE conn' = [conn EXCEPT ![s] = "open"] /\ used' = used \cup {s}
  <2>1. SearchInv'
    BY <1>1, <1>3 DEF SearchInv, SocketsInv
  <2>2. SoleInv'
    <3> SUFFICES ASSUME OneSocket', NEW y \in Searches, conn'[SocketOf(y)] = "open"
                 PROVE  Settled(y)
      BY <1>1 DEF SoleInv, Settled, Superseded
    <3>1. OneSocket
      BY <1>3 DEF OneSocket
    <3>2. CASE SocketOf(y) = s
      <4>1. conn[SocketOf(y)] = "none"
        BY <3>2 DEF AcceptWebSocket
      <4>2. /\ query[y] = "none" /\ y \notin aborted
            /\ latest[SocketOf(y)] = 0 /\ SeqOf(y) > 0
        BY <4>1, SearchIsPair DEF SearchInv, Seqs
      <4> QED BY <4>2, SearchIsPair DEF Settled, Seqs
    <3>3. CASE SocketOf(y) # s
      <4>1. conn[SocketOf(y)] = "open"
        BY <1>3, <3>3, SearchIsPair DEF SocketsInv
      <4> QED BY <3>1, <4>1 DEF SoleInv
    <3> QED BY <3>2, <3>3
  <2> QED BY <2>1, <2>2
<1> QED BY <1>2, <1>3 DEF AcceptWebSocket

\* After the one socket has closed no socket is open.
LEMMA CloseKeeps ==
    ASSUME SocketsInv, SearchInv, SoleInv, NEW s \in Sockets,
           WebSocketClose(s) \/ WebSocketError(s)
    PROVE  SearchInv' /\ SoleInv'
<1>1. /\ conn[s] = "open" /\ conn' = [conn EXCEPT ![s] = "closed"]
      /\ UNCHANGED <<latest, query, frames, used>>
      /\ aborted' \in {aborted, aborted \cup inflight}
      /\ inflight' \in {inflight, {}}
  BY DEF WebSocketClose, WebSocketError, searchVars
<1>2. \A y \in Searches : y \in inflight => conn[SocketOf(y)] # "none"
  BY DEF SearchInv, SocketsInv
<1>3. SearchInv'
  <2>1. \A t \in Sockets : conn[t] # "none" => conn'[t] # "none"
    BY <1>1 DEF SocketsInv
  <2>2. aborted' \subseteq Searches /\ inflight' \subseteq inflight
        /\ aborted' \subseteq aborted \cup inflight
    BY <1>1 DEF SearchInv
  <2> QED BY <1>1, <1>2, <2>1, <2>2, SearchIsPair DEF SearchInv
<1>4. SoleInv'
  <2> SUFFICES ASSUME OneSocket', NEW y \in Searches, conn'[SocketOf(y)] = "open"
               PROVE  FALSE
    BY DEF SoleInv
  <2>1. SocketOf(y) # s /\ conn[SocketOf(y)] = "open"
    BY <1>1, SearchIsPair DEF SocketsInv
  <2>2. s \in used /\ SocketOf(y) \in used
    BY <1>1, <2>1, SearchIsPair DEF SocketsInv, Open
  <2> QED BY <1>1, <2>1, <2>2 DEF OneSocket
<1> QED BY <1>3, <1>4

LEMMA LifeKeeps ==
    ASSUME SocketsInv, SearchInv, SoleInv, Hibernate \/ Restart
    PROVE  SearchInv' /\ SoleInv'
<1>1. CASE Hibernate
  <2>1. /\ UNCHANGED <<conn, latest, query, aborted, frames, used>>
        /\ inflight' = {} /\ \A x \in Searches : query[x] # "running"
    BY <1>1 DEF Hibernate
  <2> QED BY <2>1 DEF SearchInv, SoleInv, OneSocket, Settled, Superseded
<1>2. CASE Restart
  <2>1. /\ UNCHANGED <<latest, aborted, frames>> /\ inflight' = {} /\ used' = {}
        /\ query' = [x \in Searches |->
                       IF query[x] = "running" THEN "done" ELSE query[x]]
        /\ conn' = [s \in Sockets |->
                      IF conn[s] = "open" THEN "closed" ELSE conn[s]]
    BY <1>2 DEF Restart
  <2>2. \A s \in Sockets : conn'[s] # "open" /\ (conn[s] # "none" => conn'[s] # "none")
    BY <2>1
  <2>3. /\ query' \in [Searches -> {"none", "running", "done"}]
        /\ \A x \in Searches : /\ query'[x] # "running"
                               /\ query'[x] # "none" => query[x] # "none"
    BY <2>1 DEF SearchInv
  <2> QED BY <2>1, <2>2, <2>3, SearchIsPair DEF SearchInv, SoleInv
<1> QED BY <1>1, <1>2

-----------------------------------------------------------------------------
(* Every step *)

LEMMA InitEdge == Init => EdgeInv
  BY InitRate, InitSockets, InitSearch DEF EdgeInv

LEMMA NextEdge == EdgeInv /\ [Next]_vars => EdgeInv'
<1> SUFFICES ASSUME EdgeInv, [Next]_vars PROVE EdgeInv'
  OBVIOUS
<1> USE DEF EdgeInv
<1>1. RateInv' /\ SocketsInv'
  BY NextRate, NextSockets
<1>2. SearchInv' /\ SoleInv'
  <2>1. ASSUME NEW s \in Sockets, AcceptWebSocket(s) PROVE SearchInv' /\ SoleInv'
    BY <2>1, AcceptKeeps
  <2>2. ASSUME NEW s \in Sockets, StartSearch(s) PROVE SearchInv' /\ SoleInv'
    BY <2>2, StartSearchKeeps, StartSearchSettles
  <2>7. ASSUME NEW s \in Sockets, RefuseSearch(s) PROVE SearchInv' /\ SoleInv'
    BY <2>7, RefuseSearchKeeps
  <2>3. ASSUME NEW s \in Sockets, WebSocketClose(s) \/ WebSocketError(s)
        PROVE SearchInv' /\ SoleInv'
    BY <2>3, CloseKeeps
  <2>4. ASSUME NEW x \in Searches, QueryEnds(x) PROVE SearchInv' /\ SoleInv'
    BY <2>4, QueryEndsKeeps, QueryEndsSettles
  <2>5. CASE Hibernate \/ Restart
    BY <2>5, LifeKeeps
  <2>6. CASE Tick \/ RestRequest \/ UNCHANGED vars
    <3>1. UNCHANGED <<conn, latest, query, aborted, inflight, frames, used>>
      BY <2>6 DEF Tick, RestRequest, vars, searchVars
    <3> QED BY <3>1 DEF SearchInv, SoleInv, OneSocket, Settled, Superseded
  <2> QED BY <2>1, <2>2, <2>3, <2>4, <2>5, <2>6, <2>7 DEF Next
<1> QED BY <1>1, <1>2

-----------------------------------------------------------------------------
(* Theorems *)

\* The invariant of the object, from which the theorems below are read off.
THEOREM EdgeInvariant == Spec => []EdgeInv
<1> QED BY InitEdge, NextEdge, PTL DEF Spec

\* acceptWebSocket: across closes, errors, hibernations and restarts, a key
\* never has more than MAX_CONCURRENT_SOCKETS_PER_KEY sockets.
THEOREM EdgeTypeCorrect == Spec => []EdgeTypeOK
<1>1. EdgeInv => EdgeTypeOK
  <2> SUFFICES ASSUME EdgeInv PROVE EdgeTypeOK
    OBVIOUS
  <2>1. stored \in Bucket /\ restBucket \in Bucket /\ born \in 0..MaxTime
    BY EdgeAssumption DEF EdgeInv, RateInv, Bucket
  <2> QED BY <2>1 DEF EdgeInv, RateInv, SocketsInv, SearchInv, EdgeTypeOK
<1> QED BY <1>1, EdgeInvariant, PTL

\* loadRestBucket and persistRestBucket: however often the object loses its
\* memory, the key is granted no more than the burst and the refill since.
THEOREM RateIsKept == Spec => []RateSurvivesEviction
<1>1. EdgeInv => RateSurvivesEviction
  <2> SUFFICES ASSUME RateInv PROVE RateSurvivesEviction
    BY DEF EdgeInv
  <2>1. clock \in Nat /\ born \in Nat /\ born <= clock /\ Burst \in Nat
    BY EdgeAssumption DEF RateInv
  <2>2. Rate * (clock - born) \in Nat
    BY <2>1, RateMonotone
  <2>3. CASE stored = NoBucket
    BY <2>1, <2>2, <2>3, NoBucketIsNone DEF RateInv, RateSurvivesEviction
  <2>4. CASE stored # NoBucket
    <3>1. /\ stored.tokens \in Nat /\ stored.last \in Nat /\ granted \in Nat
          /\ stored.last <= clock
          /\ stored.tokens + granted <= Burst + Rate * (stored.last - born)
      BY <2>1, <2>4 DEF RateInv
    <3>2. Rate * (clock - born) = Rate * (stored.last - born)
                                    + Rate * (clock - stored.last)
          /\ Rate * (stored.last - born) \in Int
      <4>1. clock \in Int /\ stored.last \in Int /\ born \in Int
        BY <2>1, <3>1
      <4> QED BY <4>1, RateDistributes, Zenon
    <3>3. Rate * (clock - stored.last) \in Nat
      BY <2>1, <3>1, RateMonotone
    <3> DEFINE p == Rate * (clock - born)
               q == Rate * (stored.last - born)
               r == Rate * (clock - stored.last)
    <3>4. p \in Nat /\ q \in Int /\ r \in Nat /\ p = q + r
          /\ stored.tokens + granted <= Burst + q
      BY <2>2, <3>1, <3>2, <3>3
    <3> HIDE DEF p, q, r
    <3>5. granted <= Burst + p
      BY <2>1, <3>1, <3>4
    <3> QED BY <3>5 DEF p, RateSurvivesEviction
  <2> QED BY <2>3, <2>4
<1> QED BY <1>1, EdgeInvariant, PTL

\* webSocketMessage and handleSearch: as long as the key uses one socket since
\* the object started, each search it sent there that is not running has been
\* answered, refused ones included.
THEOREM SoleSocketAnswered == Spec => []SoleAnswered
<1>1. EdgeInv => SoleAnswered
  BY SoleIsOneSocket DEF EdgeInv, SoleInv, SoleAnswered, Settled
<1> QED BY <1>1, EdgeInvariant, PTL

\* handleSearch: and none is sent its result after a newer one was accepted,
\* although the query of a replaced search runs on.  A newer one that was
\* refused replaces nothing.
THEOREM SoleSocketNotStale == Spec => SoleNoStaleResult
<1> DEFINE Fresh == Sole => \A x \in Searches :
             ("result" \in frames'[x] /\ "result" \notin frames[x])
                 => ~Superseded(x)
<1>1. ASSUME EdgeInv, [Next]_vars PROVE Fresh
  <2> SUFFICES ASSUME Sole, NEW x \in Searches,
                      "result" \in frames'[x], "result" \notin frames[x]
               PROVE  ~Superseded(x)
    OBVIOUS
  <2> USE DEF EdgeInv
  <2>1. ASSUME NEW s \in Sockets, StartSearch(s) PROVE FALSE
    BY <2>1 DEF StartSearch
  <2>2. ASSUME NEW y \in Searches, QueryEnds(y)
        PROVE  ~Superseded(x)
    <3> PICK kind \in {OnSuccess(y), OnError(y)} : frames' = Sent(y, kind)
      BY <2>2 DEF QueryEnds
    <3>1. y = x /\ kind = "result" /\ conn[SocketOf(y)] = "open"
      BY <2>2 DEF Sent, SearchInv
    <3>2. y \notin aborted
      BY <3>1 DEF OnSuccess, OnError
    <3>3. OneSocket /\ conn[SocketOf(x)] = "open"
      BY <1>1, <3>1, SoleIsOneSocket
    <3>4. Settled(x)
      BY <1>1, <3>3 DEF SoleInv
    <3> QED BY <2>2, <3>1, <3>2, <3>4 DEF Settled, QueryEnds
  <2>3. ASSUME UNCHANGED frames PROVE FALSE
    BY <2>3
  <2>4. ASSUME NEW s \in Sockets, RefuseSearch(s) PROVE FALSE
    BY <2>4 DEF RefuseSearch, Sent, SearchInv
  <2> QED
    BY <1>1, <2>1, <2>2, <2>3, <2>4
       DEF Next, Tick, RestRequest, AcceptWebSocket, WebSocketClose,
           WebSocketError, Hibernate, Restart, vars, searchVars
<1>2. ASSUME EdgeInv, [Next]_vars PROVE [Fresh]_vars
  BY <1>1, <1>2
<1> QED BY <1>2, EdgeInvariant, PTL DEF Spec, SoleNoStaleResult

=============================================================================
