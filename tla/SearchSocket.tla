---------------------------- MODULE SearchSocket ----------------------------
(***************************************************************************)
(* One WebSocket of GET /v1/ws (websocketSearch, handleSearchFrame and     *)
(* cancelStore in apps/api/internal/api/websocket.go): the goroutine that  *)
(* reads frames, one goroutine per search, the ping goroutine, the mutex   *)
(* that serializes writes, and the context connCtx they all hang on.       *)
(*                                                                         *)
(* Searches are numbered in the order the read loop accepts them; the      *)
(* client's seq is that number ("client-supplied monotonic counter").  A   *)
(* frame the read loop answers by itself (ping, invalid JSON, invalid or   *)
(* rate limited search) is an "other" frame.                               *)
(***************************************************************************)
EXTENDS Integers, Sequences, FiniteSets

CONSTANTS
    MaxSearches,      \* bound on accepted search frames
    MaxOthers         \* bound on other frames

ASSUME SearchesAssumption == MaxSearches \in Nat \ {0} /\ MaxOthers \in Nat

Searches == 1..MaxSearches
ReadLoop == 0                         \* the writer that is not a search
Writers  == Searches \cup {ReadLoop}
Free     == -1                        \* nobody holds writeMu

VARIABLES
    peer,             \* the client: reading, silent (vanished) or closed
    accepted,         \* searches accepted so far
    others,           \* other frames answered so far
    at,               \* at[a]: where the read loop and each search are
    frame,            \* frame[n]: the reply search n has composed
    superseded,       \* searches cancelled by replaceAll
    cancels,          \* cancelStore.cancels, by seq
    writeMu,          \* who holds the write mutex
    ctxDone,          \* connCtx is done
    expired,          \* ... because the request's deadline passed
    ping,             \* the ping goroutine
    sent              \* replies to searches, in the order they were written

vars == <<peer, accepted, others, at, frame, superseded, cancels, writeMu,
          ctxDone, expired, ping, sent>>

Init ==
    /\ peer = "reading"
    /\ accepted = 0
    /\ others = 0
    /\ at = [a \in Writers |-> IF a = ReadLoop THEN "read" ELSE "none"]
    /\ frame = [n \in Searches |-> "none"]
    /\ superseded = {}
    /\ cancels = {}
    /\ writeMu = Free
    /\ ctxDone = FALSE
    /\ expired = FALSE
    /\ ping = "waiting"
    /\ sent = << >>

Goto(a, place) == at' = [at EXCEPT ![a] = place]

-----------------------------------------------------------------------------
(* The read loop *)

\* Mutant: the replaced entries are deleted, but not cancelled.
ReplaceWithoutCancel(n) ==
    /\ superseded' = superseded
    /\ cancels' = {n}

\* cancelStore.replaceAll: cancel and delete every entry, store the new one.
replaceAll(n) ==
    /\ superseded' = superseded \cup cancels
    /\ cancels' = {n}

\* handleSearchFrame accepts a search: replaceAll, then the goroutine starts.
ReceiveSearch ==
    LET n == accepted + 1 IN
    /\ at[ReadLoop] = "read" /\ ~ctxDone
    /\ accepted < MaxSearches
    /\ accepted' = n
    /\ replaceAll(n)
    /\ Goto(n, "query")
    /\ UNCHANGED <<peer, others, frame, writeMu, ctxDone, expired, ping, sent>>

\* A frame the read loop answers itself.
ReceiveOther ==
    /\ at[ReadLoop] = "read" /\ ~ctxDone
    /\ others < MaxOthers
    /\ others' = others + 1
    /\ Goto(ReadLoop, "lock")
    /\ UNCHANGED <<peer, accepted, frame, superseded, cancels, writeMu, ctxDone,
                   expired, ping, sent>>

\* conn.Read fails: the handler closes and returns, running its deferred calls
\* (connCancel, CloseNow, the release of the key's connection slot).
ReadFails ==
    /\ at[ReadLoop] = "read"
    /\ ctxDone \/ peer = "closed"
    /\ Goto(ReadLoop, "returned")
    /\ ctxDone' = TRUE
    /\ UNCHANGED <<peer, accepted, others, frame, superseded, cancels, writeMu,
                   expired, ping, sent>>

-----------------------------------------------------------------------------
(* A search *)

\* Mutant: a cancelled search ends without a reply.
QueryReturnsSilently(n) ==
    /\ at[n] = "query"
    /\ \/ /\ frame' = [frame EXCEPT ![n] = "result"]
          /\ Goto(n, "lock")
       \/ /\ n \in superseded
          /\ Goto(n, "remove")
          /\ UNCHANGED frame
    /\ UNCHANGED <<peer, accepted, others, superseded, cancels, writeMu,
                   ctxDone, expired, ping, sent>>

\* SearchTitles returns, and the goroutine composes its reply.  It may finish
\* although its context is cancelled, and the database may fail any time; a
\* context that ended by its deadline is not errors.Is(err, context.Canceled).
QueryReturns(n) ==
    /\ at[n] = "query"
    /\ \E kind \in {"result", "cancelled", "error"} :
         /\ kind = "cancelled" => n \in superseded \/ (ctxDone /\ ~expired)
         /\ frame' = [frame EXCEPT ![n] = kind]
    /\ Goto(n, "lock")
    /\ UNCHANGED <<peer, accepted, others, superseded, cancels, writeMu,
                   ctxDone, expired, ping, sent>>

\* The deferred cs.remove(seq).
Remove(n) ==
    /\ at[n] = "remove"
    /\ cancels' = cancels \ {n}
    /\ Goto(n, "gone")
    /\ UNCHANGED <<peer, accepted, others, frame, superseded, writeMu, ctxDone,
                   expired, ping, sent>>

-----------------------------------------------------------------------------
(* writeFrame *)

AfterWrite(a) == IF a = ReadLoop THEN "read" ELSE "remove"

\* Mutant: writeMu is not taken exclusively.
LockBusy(a) ==
    /\ at[a] = "lock"
    /\ writeMu' = a
    /\ Goto(a, "write")
    /\ UNCHANGED <<peer, accepted, others, frame, superseded, cancels, ctxDone,
                   expired, ping, sent>>

Lock(a) ==
    /\ at[a] = "lock"
    /\ writeMu = Free
    /\ writeMu' = a
    /\ Goto(a, "write")
    /\ UNCHANGED <<peer, accepted, others, frame, superseded, cancels, ctxDone,
                   expired, ping, sent>>

Log(a) == IF a = ReadLoop THEN sent
          ELSE Append(sent, [seq |-> a, kind |-> frame[a]])

\* The goroutine's reply is out of its hands.
FrameDone(a) ==
    frame' = [n \in Searches |-> IF n = a THEN "none" ELSE frame[n]]

\* Mutant: a frame is written although the context is done.
WriteRegardless(a) ==
    /\ at[a] = "write"
    /\ sent' = Log(a)
    /\ writeMu' = Free
    /\ Goto(a, AfterWrite(a))
    /\ FrameDone(a)
    /\ UNCHANGED <<peer, accepted, others, superseded, cancels, ctxDone,
                   expired, ping>>

\* conn.Write succeeds: the client reads, or the kernel buffers for one that
\* has vanished.
Write(a) ==
    /\ at[a] = "write"
    /\ ~ctxDone
    /\ sent' = Log(a)
    /\ writeMu' = Free
    /\ Goto(a, AfterWrite(a))
    /\ FrameDone(a)
    /\ UNCHANGED <<peer, accepted, others, superseded, cancels, ctxDone,
                   expired, ping>>

\* conn.Write fails or exceeds writeTimeout: connCancel().
WriteFails(a) ==
    /\ at[a] = "write"
    /\ ctxDone \/ peer # "reading"
    /\ ctxDone' = TRUE
    /\ writeMu' = Free
    /\ Goto(a, AfterWrite(a))
    /\ FrameDone(a)
    /\ UNCHANGED <<peer, accepted, others, superseded, cancels, expired,
                   ping, sent>>

-----------------------------------------------------------------------------
(* The ping goroutine *)

\* The ticker fires.  (select may pick it although connCtx is done.)
StartPing ==
    /\ ping = "waiting"
    /\ ping' = "pinging"
    /\ UNCHANGED <<peer, accepted, others, at, frame, superseded, cancels,
                   writeMu, ctxDone, expired, sent>>

\* The pong arrives, through the read loop.
PongReceived ==
    /\ ping = "pinging"
    /\ peer = "reading" /\ ~ctxDone /\ at[ReadLoop] = "read"
    /\ ping' = "waiting"
    /\ UNCHANGED <<peer, accepted, others, at, frame, superseded, cancels,
                   writeMu, ctxDone, expired, sent>>

\* Mutant: a failed ping is only logged.
PingErrorIgnored ==
    /\ ping = "pinging"
    /\ ctxDone \/ peer # "reading"
    /\ ping' = "waiting"
    /\ UNCHANGED <<peer, accepted, others, at, frame, superseded, cancels,
                   writeMu, ctxDone, expired, sent>>

\* pingTimeout, or a dead connection: conn.Close, connCancel, return.
PingFails ==
    /\ ping = "pinging"
    /\ ctxDone \/ peer # "reading"
    /\ ping' = "gone"
    /\ ctxDone' = TRUE
    /\ UNCHANGED <<peer, accepted, others, at, frame, superseded, cancels,
                   writeMu, expired, sent>>

\* case <-connCtx.Done().
PingEnds ==
    /\ ping = "waiting" /\ ctxDone
    /\ ping' = "gone"
    /\ UNCHANGED <<peer, accepted, others, at, frame, superseded, cancels,
                   writeMu, ctxDone, expired, sent>>

-----------------------------------------------------------------------------
(* Environment *)

\* The client closes the connection, or vanishes without a word.
PeerLeaves ==
    /\ peer = "reading"
    /\ peer' \in {"silent", "closed"}
    /\ UNCHANGED <<accepted, others, at, frame, superseded, cancels, writeMu,
                   ctxDone, expired, ping, sent>>

\* middleware.Timeout(30 * time.Second) of NewRouter: connCtx is derived from
\* the request's context, which has that deadline.
RequestTimeout ==
    /\ ~ctxDone
    /\ ctxDone' = TRUE
    /\ expired' = TRUE
    /\ UNCHANGED <<peer, accepted, others, at, frame, superseded, cancels,
                   writeMu, ping, sent>>

-----------------------------------------------------------------------------

Receive == ReceiveSearch \/ ReceiveOther
WriteFrame(a) == Lock(a) \/ Write(a) \/ WriteFails(a)
Search(n) == QueryReturns(n) \/ Remove(n)
Ping == StartPing \/ PongReceived \/ PingFails \/ PingEnds

Next ==
    \/ Receive \/ ReadFails
    \/ \E n \in Searches : Search(n)
    \/ \E a \in Writers : WriteFrame(a)
    \/ Ping
    \/ PeerLeaves \/ RequestTimeout

Spec == Init /\ [][Next]_vars

\* Goroutines are scheduled, queries return, writes end within writeTimeout,
\* the ticker ticks, and sync.Mutex hands over to a waiter that starves (with
\* finitely many frames, weak fairness of Lock is enough).  The client need not
\* send or leave, and the deadline is given no fairness, so that what is
\* promised does not rest on it.
FairSpec ==
    /\ Spec
    /\ WF_vars(ReadFails)
    /\ \A n \in Searches : WF_vars(Search(n))
    /\ \A a \in Writers : WF_vars(WriteFrame(a))
    /\ WF_vars(StartPing) /\ WF_vars(PongReceived \/ PingFails)

-----------------------------------------------------------------------------
(* Properties *)

Places == {"none", "query", "lock", "write", "remove", "gone"}
Reply == [seq : Searches, kind : {"result", "cancelled", "error"}]

\* Every variable is in its domain, and the mutex is held by the one goroutine
\* that writes.
TypeOK ==
    /\ peer \in {"reading", "silent", "closed"}
    /\ accepted \in 0..MaxSearches /\ others \in 0..MaxOthers
    /\ at \in [Writers -> Places \cup {"read", "returned"}]
    /\ frame \in [Searches -> {"none", "result", "cancelled", "error"}]
    /\ superseded \subseteq Searches /\ cancels \subseteq Searches
    /\ writeMu \in Writers \cup {Free}
    /\ ctxDone \in BOOLEAN /\ expired \in BOOLEAN
    /\ ping \in {"waiting", "pinging", "gone"}
    /\ sent \in Seq(Reply)
    /\ \A a \in Writers : at[a] = "write" <=> writeMu = a

\* "At most one" of websocket.go: every search that still runs uncancelled is
\* the latest one and can be cancelled by the next, and the store holds no
\* other search and none that has ended.
OneInFlight ==
    /\ \A n \in Searches :
         at[n] = "query" /\ n \notin superseded => n = accepted /\ n \in cancels
    /\ \A n \in cancels : n = accepted /\ at[n] # "gone"

\* The client is told "cancelled" only of a search it has itself replaced:
\* never of the latest one, although that one's context is also cancelled when
\* the connection ends.
LatestNotCancelled ==
    \A i \in DOMAIN sent :
        sent[i].kind = "cancelled" => sent[i].seq < accepted

\* Every accepted search is answered, superseded or not, unless the connection
\* has ended.
Answered(n) == \E i \in DOMAIN sent : sent[i].seq = n
SearchAnswered ==
    \A n \in Searches : at[n] = "query" ~> (Answered(n) \/ ctxDone)

\* A client that has left, silently or not, does not keep its connection slot,
\* and when the connection has ended no goroutine of it stays behind.
Dissolved ==
    /\ at[ReadLoop] = "returned" /\ ping = "gone"
    /\ \A n \in Searches : at[n] \in {"none", "gone"}
SocketReleased == (peer # "reading" \/ ctxDone) ~> Dissolved

\* "The connection is persistent": as long as the client reads and answers,
\* the server does not end it.
Persistent == peer = "reading" => ~ctxDone

=============================================================================
