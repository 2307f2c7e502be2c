---------------------------- MODULE EdgeSession ----------------------------
(***************************************************************************)
(* The Durable Object ApiKeySession of apps/edge-api (durable/session.ts):  *)
(* one object per API key, holding the key's token bucket and all its      *)
(* WebSockets.  Its code runs on one thread, but while a search awaits     *)
(* Postgres other events are handled.  Storage operations are different:   *)
(* the runtime delivers no event until they complete, and no response      *)
(* leaves before what was put is durable, so a request to the bucket is    *)
(* one step.  Memory is lost when the object hibernates (which it does     *)
(* only when idle, and keeps its sockets) or is restarted (which closes    *)
(* them).                                                                  *)
(*                                                                         *)
(* The client numbers the searches of a socket 1, 2, ...; a search is its  *)
(* socket and its seq.  Frames are well formed; that one is refused, by    *)
(* the socket's own message bucket or for what it asks, may always happen. *)
(* Time is in seconds, with whole tokens.                                  *)
(***************************************************************************)
EXTENDS Integers, FiniteSets

CONSTANTS
    Sockets,          \* WebSockets the clients of the key ever ask for
    MaxSearches,      \* bound on searches per socket
    MaxSockets,       \* MAX_CONCURRENT_SOCKETS_PER_KEY
    Rate,             \* tokensPerSecond
    Burst,            \* burst
    Costs,            \* costs of REST requests
    MaxTime           \* bound on the clock

ASSUME EdgeAssumption ==
    /\ MaxSearches \in Nat \ {0} /\ MaxSockets \in Nat \ {0}
    /\ Rate \in Nat \ {0} /\ Burst \in Nat \ {0}
    /\ Costs \subseteq Nat \ {0} /\ MaxTime \in Nat

Seqs == 1..MaxSearches
Searches == Sockets \X Seqs
SocketOf(x) == x[1]
SeqOf(x) == x[2]

VARIABLES
    clock,            \* Date.now()
    restBucket,       \* in memory: [tokens, last], or NoBucket
    stored,           \* the same in the object's storage
    conn,             \* conn[s]: none, open or closed
    latest,           \* latest[s]: seq of the last search sent on s
    query,            \* query[x]: none, running or done; none: not accepted
    aborted,          \* searches whose AbortController is aborted
    inflight,         \* searches whose controller is in this.inflight
    frames,           \* frames[x]: kinds of frames sent on x's socket with x's seq
    granted,          \* history: tokens ever granted
    born,             \* history: when the bucket was created
    used              \* history: sockets opened since the object was started

rateVars   == <<clock, restBucket, stored, granted, born>>
searchVars == <<latest, query, aborted, inflight, frames>>
vars       == <<rateVars, conn, searchVars, used>>

NoBucket == [tokens |-> -1, last |-> -1]

Init ==
    /\ clock = 0
    /\ restBucket = NoBucket
    /\ stored = NoBucket
    /\ conn = [s \in Sockets |-> "none"]
    /\ latest = [s \in Sockets |-> 0]
    /\ query = [x \in Searches |-> "none"]
    /\ aborted = {}
    /\ inflight = {}
    /\ frames = [x \in Searches |-> {}]
    /\ granted = 0
    /\ born = 0
    /\ used = {}

Tick ==
    /\ clock < MaxTime
    /\ clock' = clock + 1
    /\ UNCHANGED <<restBucket, stored, granted, born, conn, searchVars, used>>

-----------------------------------------------------------------------------
(* The token bucket *)

\* loadRestBucket.
Loaded ==
    IF restBucket # NoBucket THEN restBucket
    ELSE IF stored # NoBucket THEN stored
    ELSE [tokens |-> Burst, last |-> clock]

refill(b) ==
    LET sum == b.tokens + Rate * (clock - b.last)
    IN  IF clock > b.last
        THEN [tokens |-> IF sum < Burst THEN sum ELSE Burst, last |-> clock]
        ELSE b

\* Mutant: only a denial is persisted.
PersistDenial(b, allowed) == IF allowed THEN stored ELSE b

\* persistRestBucket, called on both paths of rateAllow.
persistRestBucket(b, allowed) == b

\* rateAllow: `allowed` says how it is answered.
rateAllow(cost, allowed) ==
    LET b == refill(Loaded)
        rest == IF allowed THEN [b EXCEPT !.tokens = @ - cost] ELSE b
    IN
    /\ allowed <=> b.tokens >= cost
    /\ restBucket' = rest
    /\ stored' = persistRestBucket(rest, allowed)
    /\ granted' = IF allowed THEN granted + cost ELSE granted
    /\ born' = IF restBucket = NoBucket /\ stored = NoBucket
               THEN clock ELSE born
    /\ UNCHANGED clock

\* A REST request: the middleware calls /rate/allow.  The limiter is enabled
\* and the object reachable: otherwise the middleware admits everything.
RestRequest ==
    /\ \E cost \in Costs, allowed \in BOOLEAN : rateAllow(cost, allowed)
    /\ UNCHANGED <<conn, searchVars, used>>

-----------------------------------------------------------------------------
(* Sockets *)

Open == {s \in Sockets : conn[s] = "open"}

\* Mutant: off by one.
Overfull == Cardinality(Open) > MaxSockets

\* state.getWebSockets().length >= MAX_CONCURRENT_SOCKETS_PER_KEY
Full == Cardinality(Open) >= MaxSockets

\* acceptWebSocket: the handshake is charged first; a full key is refused
\* without getting the token back.
AcceptWebSocket(s) ==
    /\ conn[s] = "none"
    /\ \E allowed \in BOOLEAN :
         /\ rateAllow(1, allowed)
         /\ IF allowed /\ ~Full
            THEN /\ conn' = [conn EXCEPT ![s] = "open"]
                 /\ used' = used \cup {s}
            ELSE UNCHANGED <<conn, used>>
    /\ UNCHANGED searchVars

\* webSocketClose: aborts whatever is in flight, on any socket.
WebSocketClose(s) ==
    /\ conn[s] = "open"
    /\ conn' = [conn EXCEPT ![s] = "closed"]
    /\ aborted' = aborted \cup inflight
    /\ inflight' = {}
    /\ UNCHANGED <<rateVars, latest, query, frames, used>>

\* webSocketError closes the socket and leaves its search alone.
WebSocketError(s) ==
    /\ conn[s] = "open"
    /\ conn' = [conn EXCEPT ![s] = "closed"]
    /\ UNCHANGED <<rateVars, searchVars, used>>

-----------------------------------------------------------------------------
(* Searches *)

\* sendFrame on x's socket; an error of ws.send is only logged.
Sent(x, kind) ==
    IF conn[SocketOf(x)] = "open" /\ kind # "nothing"
    THEN [frames EXCEPT ![x] = @ \cup {kind}] ELSE frames

\* Every controller in the map is aborted, and x's takes their place.
Replace(x) ==
    /\ aborted' = aborted \cup inflight
    /\ inflight' = {x}

\* Mutant: the client is not told.
CancelledUntold(s) == {}

\* The seqs reported as cancelled, on the socket of the NEW search.
CancelledSeqs(s) == {<<s, SeqOf(y)>> : y \in inflight}

\* A search that is refused is answered at once and changes nothing else, so
\* an older search of the socket goes on: rate_limited, a q of less than two
\* characters, or a title type that is not allowed.
RefuseSearch(s) ==
    LET x == <<s, latest[s] + 1>> IN
    /\ conn[s] = "open"
    /\ latest[s] < MaxSearches
    /\ latest' = [latest EXCEPT ![s] = @ + 1]
    /\ frames' = Sent(x, "error")
    /\ UNCHANGED <<rateVars, conn, query, aborted, inflight, used>>

\* A search that is accepted, up to the await of the query.
StartSearch(s) ==
    LET x == <<s, latest[s] + 1>> IN
    /\ conn[s] = "open"
    /\ latest[s] < MaxSearches
    /\ latest' = [latest EXCEPT ![s] = @ + 1]
    /\ query' = [query EXCEPT ![x] = "running"]
    /\ frames' = [y \in Searches |->
                    IF y \in CancelledSeqs(s) THEN frames[y] \cup {"cancelled"}
                    ELSE frames[y]]
    /\ Replace(x)
    /\ UNCHANGED <<rateVars, conn, used>>

\* Mutant: the result is sent although the search is aborted.
ResultRegardless(x) == "result"

\* What follows the await: an aborted search that succeeded says nothing.
OnSuccess(x) == IF x \in aborted THEN "nothing" ELSE "result"
OnError(x) == IF x \in aborted THEN "cancelled" ELSE "error"

\* The query ends: the frame, if any, and the finally block, which deletes
\* whatever controller is stored under x's seq.
QueryEnds(x) ==
    /\ query[x] = "running"
    /\ \E kind \in {OnSuccess(x), OnError(x)} : frames' = Sent(x, kind)
    /\ query' = [query EXCEPT ![x] = "done"]
    /\ inflight' = {y \in inflight : SeqOf(y) # SeqOf(x)}
    /\ UNCHANGED <<rateVars, conn, latest, aborted, used>>

-----------------------------------------------------------------------------
(* The life of the object *)

\* Idle: memory is lost, hibernatable sockets stay open.
Hibernate ==
    /\ \A x \in Searches : query[x] # "running"
    /\ restBucket' = NoBucket
    /\ inflight' = {}
    /\ UNCHANGED <<clock, stored, granted, born, conn, latest, query, aborted,
                   frames, used>>

\* A crash or a deployment: sockets and running queries are gone as well.
Restart ==
    /\ used # {}
    /\ restBucket' = NoBucket
    /\ inflight' = {}
    /\ conn' = [s \in Sockets |-> IF conn[s] = "open" THEN "closed" ELSE conn[s]]
    /\ query' = [x \in Searches |->
                   IF query[x] = "running" THEN "done" ELSE query[x]]
    /\ used' = {}
    /\ UNCHANGED <<clock, stored, granted, born, latest, aborted, frames>>

Next ==
    \/ Tick \/ RestRequest
    \/ \E s \in Sockets :
         AcceptWebSocket(s) \/ RefuseSearch(s) \/ StartSearch(s)
           \/ WebSocketClose(s) \/ WebSocketError(s)
    \/ \E x \in Searches : QueryEnds(x)
    \/ Hibernate \/ Restart

Spec == Init /\ [][Next]_vars

-----------------------------------------------------------------------------
(* Properties *)

Bucket == [tokens : 0..Burst, last : 0..MaxTime] \cup {NoBucket}
Frames == {"result", "cancelled", "error"}

\* Every variable is in its domain, and a key never has more sockets than
\* allowed, across hibernations and restarts.
EdgeTypeOK ==
    /\ clock \in 0..MaxTime
    /\ restBucket \in Bucket /\ stored \in Bucket
    /\ conn \in [Sockets -> {"none", "open", "closed"}]
    /\ latest \in [Sockets -> 0..MaxSearches]
    /\ query \in [Searches -> {"none", "running", "done"}]
    /\ aborted \subseteq Searches /\ inflight \subseteq Searches
    /\ frames \in [Searches -> SUBSET Frames]
    /\ granted \in Nat /\ born \in 0..MaxTime
    /\ used \subseteq Sockets
    /\ Cardinality(Open) <= MaxSockets

\* However often the object loses its memory, the key is granted no more than
\* the burst and the refill of the time since its bucket was created.
RateSurvivesEviction == granted <= Burst + Rate * (clock - born)

\* The key has used a single socket since the object was started.
Sole == Cardinality(used) <= 1

\* No search that was sent stays without a reply on a socket that is still
\* open, whether it was refused, has ended by itself or has been replaced.
SoleAnswered ==
    Sole => \A x \in Searches :
        (/\ SeqOf(x) <= latest[SocketOf(x)] /\ query[x] # "running"
         /\ conn[SocketOf(x)] = "open")
            => frames[x] # {}

\* A newer search of x's socket has been accepted.
Superseded(x) ==
    \E n \in Seqs : n > SeqOf(x) /\ query[<<SocketOf(x), n>>] # "none"

\* A client never gets the result of a search after a newer one has been
\* accepted, although the query of the replaced search is not stopped, and
\* although the end of a query deletes the controller that is stored under its
\* seq, whichever search that is.  A newer search that was refused replaces
\* nothing: the older one's result still comes, and is the client's to drop.
SoleNoStaleResult ==
    [][Sole => \A x \in Searches :
          ("result" \in frames'[x] /\ "result" \notin frames[x])
              => ~Superseded(x)]_vars

\* "Cancel any prior in-flight searches for this socket": a search is reported
\* cancelled only after its own socket has sent a newer one.
CancelledBySameSocket ==
    \A x \in Searches :
        "cancelled" \in frames[x] => SeqOf(x) < latest[SocketOf(x)]

=============================================================================
