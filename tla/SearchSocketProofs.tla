------------------------- MODULE SearchSocketProofs -------------------------
(***************************************************************************)
(* Proofs about SearchSocket: for any number of searches and other frames, *)
(* and every interleaving of the goroutines of one socket.                 *)
(***************************************************************************)
EXTENDS SearchSocket, SequenceTheorems, TLAPS

-----------------------------------------------------------------------------
(* The inductive invariant *)

\* A search that has not been accepted has no goroutine.
NotYetStarted == \A n \in Searches : n > accepted => at[n] = "none"

\* A goroutine that waits for the mutex, or writes, has composed a reply.
FrameHeld ==
    \A n \in Searches : at[n] \in {"lock", "write"} => frame[n] # "none"

\* A search is superseded by a newer one.
SupersededOlder == \A n \in superseded : n < accepted

\* A reply says "cancelled" because its search was superseded, or after the
\* context has ended, when it can no longer be written.
CancelledForCause ==
    \A n \in Searches : frame[n] = "cancelled" => n \in superseded \/ ctxDone

SocketInv ==
    /\ TypeOK /\ NotYetStarted /\ FrameHeld
    /\ OneInFlight /\ SupersededOlder /\ CancelledForCause
    /\ LatestNotCancelled

-----------------------------------------------------------------------------
(* Initially *)

LEMMA InitSocket == Init => SocketInv
<1> SUFFICES ASSUME Init PROVE SocketInv
  OBVIOUS
<1> USE SearchesAssumption DEF Init
<1>1. TypeOK
  <2>1. Free \notin Writers /\ ReadLoop \in Writers /\ << >> \in Seq(Reply)
    BY DEF Free, Writers, Searches, ReadLoop
  <2>2. accepted \in 0..MaxSearches /\ others \in 0..MaxOthers
    OBVIOUS
  <2>3. /\ at \in [Writers -> Places \cup {"read", "returned"}]
        /\ \A a \in Writers : at[a] = "write" <=> writeMu = a
    BY <2>1 DEF Places
  <2>4. /\ frame \in [Searches -> {"none", "result", "cancelled", "error"}]
        /\ superseded \subseteq Searches /\ cancels \subseteq Searches
    OBVIOUS
  <2> QED BY <2>1, <2>2, <2>3, <2>4 DEF TypeOK
<1>2. NotYetStarted /\ FrameHeld /\ OneInFlight /\ SupersededOlder /\ CancelledForCause
  BY DEF NotYetStarted, FrameHeld, OneInFlight, SupersededOlder,
         CancelledForCause, Writers, Searches, ReadLoop
<1>3. LatestNotCancelled
  BY DEF LatestNotCancelled
<1> QED BY <1>1, <1>2, <1>3 DEF SocketInv

-----------------------------------------------------------------------------
(* The read loop *)

\* A new search supersedes the one in the store, which is the latest.
LEMMA ReceiveSearchStep ==
    ASSUME SocketInv, ReceiveSearch
    PROVE  SocketInv'
<1> DEFINE n == accepted + 1
<1> USE DEF SocketInv
<1>1. /\ n \in Searches /\ n \in Writers /\ n # ReadLoop /\ n # Free
      /\ accepted \in Nat /\ n = accepted + 1 /\ accepted < MaxSearches
      /\ accepted' = n
      /\ superseded' = superseded \cup cancels /\ cancels' = {n}
      /\ at' = [at EXCEPT ![n] = "query"]
      /\ UNCHANGED <<peer, others, frame, writeMu, ctxDone, expired, ping, sent>>
  BY SearchesAssumption
     DEF ReceiveSearch, replaceAll, Goto, TypeOK, Writers, Searches, ReadLoop, Free
<1> HIDE DEF n
<1>2. at[n] = "none"
  BY <1>1 DEF NotYetStarted, Searches
<1>3. TypeOK'
  BY <1>1, <1>2 DEF TypeOK, Places, Searches
<1>4. OneInFlight'
  BY <1>1 DEF OneInFlight, TypeOK, Writers
<1>5. NotYetStarted' /\ FrameHeld' /\ SupersededOlder'
  BY <1>1 DEF NotYetStarted, FrameHeld, SupersededOlder, OneInFlight,
              TypeOK, Writers, Searches
<1>6. CancelledForCause'
  BY <1>1 DEF CancelledForCause
<1>7. LatestNotCancelled'
  <2>1. \A i \in DOMAIN sent : sent[i] \in Reply
    BY DEF TypeOK
  <2>2. \A i \in DOMAIN sent : sent[i].seq \in Int
    BY <2>1 DEF Reply, Searches
  <2> QED BY <1>1, <2>2 DEF LatestNotCancelled
<1> QED BY <1>3, <1>4, <1>5, <1>6, <1>7

\* Steps of the read loop by itself, which leave the searches alone.
LEMMA ReadLoopStep ==
    ASSUME SocketInv, ReceiveOther \/ ReadFails
    PROVE  SocketInv'
<1> USE DEF SocketInv
<1>1. /\ UNCHANGED <<accepted, frame, superseded, cancels, writeMu, sent>>
      /\ \A n \in Searches : at'[n] = at[n]
      /\ ctxDone => ctxDone'
  BY DEF ReceiveOther, ReadFails, Goto, TypeOK, Writers, Searches, ReadLoop
<1>2. TypeOK'
  <2>1. ReadLoop \in Writers /\ at[ReadLoop] = "read"
    BY DEF ReceiveOther, ReadFails, Writers
  <2>2. PICK place \in {"lock", "returned"} : at' = [at EXCEPT ![ReadLoop] = place]
    BY DEF ReceiveOther, ReadFails, Goto
  <2>3. at' \in [Writers -> Places \cup {"read", "returned"}]
    BY <2>2 DEF TypeOK, Places
  <2>4. \A a \in Writers : at'[a] = "write" <=> writeMu' = a
    BY <1>1, <2>1, <2>2 DEF TypeOK
  <2>5. others' \in 0..MaxOthers
    BY SearchesAssumption DEF ReceiveOther, ReadFails, TypeOK
  <2>6. peer' = peer /\ ping' = ping /\ expired' = expired /\ ctxDone' \in BOOLEAN
    BY DEF ReceiveOther, ReadFails, TypeOK
  <2> QED BY <1>1, <2>3, <2>4, <2>5, <2>6 DEF TypeOK
<1>3. NotYetStarted' /\ FrameHeld' /\ OneInFlight' /\ SupersededOlder'
  BY <1>1 DEF NotYetStarted, FrameHeld, OneInFlight, SupersededOlder, TypeOK
<1>4. CancelledForCause' /\ LatestNotCancelled'
  BY <1>1 DEF CancelledForCause, LatestNotCancelled
<1> QED BY <1>2, <1>3, <1>4

-----------------------------------------------------------------------------
(* A search *)

LEMMA QueryReturnsStep ==
    ASSUME SocketInv, NEW n \in Searches, QueryReturns(n)
    PROVE  SocketInv'
<1> USE DEF SocketInv
<1> PICK kind \in {"result", "cancelled", "error"} :
      /\ kind = "cancelled" => n \in superseded \/ (ctxDone /\ ~expired)
      /\ frame' = [frame EXCEPT ![n] = kind]
  BY DEF QueryReturns
<1>1. /\ n \in Writers /\ at[n] = "query"
      /\ at' = [at EXCEPT ![n] = "lock"]
      /\ UNCHANGED <<peer, accepted, others, superseded, cancels, writeMu,
                     ctxDone, expired, ping, sent>>
  BY DEF QueryReturns, Goto, Writers
<1>2. TypeOK'
  BY <1>1 DEF TypeOK, Places
<1>3. NotYetStarted' /\ FrameHeld' /\ OneInFlight' /\ SupersededOlder'
  BY <1>1 DEF NotYetStarted, FrameHeld, OneInFlight, SupersededOlder, TypeOK,
              Writers
<1>4. CancelledForCause' /\ LatestNotCancelled'
  BY <1>1 DEF CancelledForCause, LatestNotCancelled, TypeOK
<1> QED BY <1>2, <1>3, <1>4

LEMMA RemoveStep ==
    ASSUME SocketInv, NEW n \in Searches, Remove(n)
    PROVE  SocketInv'
<1> USE DEF SocketInv
<1>1. /\ n \in Writers /\ at[n] = "remove"
      /\ at' = [at EXCEPT ![n] = "gone"] /\ cancels' = cancels \ {n}
      /\ UNCHANGED <<peer, accepted, others, frame, superseded, writeMu,
                     ctxDone, expired, ping, sent>>
  BY DEF Remove, Goto, Writers
<1>2. TypeOK'
  BY <1>1 DEF TypeOK, Places
<1>3. NotYetStarted' /\ FrameHeld' /\ OneInFlight' /\ SupersededOlder'
  BY <1>1 DEF NotYetStarted, FrameHeld, OneInFlight, SupersededOlder, TypeOK,
              Writers
<1>4. CancelledForCause' /\ LatestNotCancelled'
  BY <1>1 DEF CancelledForCause, LatestNotCancelled
<1> QED BY <1>2, <1>3, <1>4

-----------------------------------------------------------------------------
(* writeFrame *)

LEMMA LockStep ==
    ASSUME SocketInv, NEW a \in Writers, Lock(a)
    PROVE  SocketInv'
<1> USE DEF SocketInv
<1>1. /\ at[a] = "lock" /\ writeMu = Free /\ writeMu' = a
      /\ at' = [at EXCEPT ![a] = "write"]
      /\ UNCHANGED <<peer, accepted, others, frame, superseded, cancels,
                     ctxDone, expired, ping, sent>>
  BY DEF Lock, Goto
<1>2. Free \notin Writers /\ Searches \subseteq Writers
  BY DEF Free, Writers, Searches, ReadLoop
<1>3. TypeOK'
  BY <1>1, <1>2 DEF TypeOK, Places
<1>4. NotYetStarted' /\ FrameHeld' /\ OneInFlight' /\ SupersededOlder'
  BY <1>1, <1>2 DEF NotYetStarted, FrameHeld, OneInFlight, SupersededOlder, TypeOK
<1>5. CancelledForCause' /\ LatestNotCancelled'
  BY <1>1 DEF CancelledForCause, LatestNotCancelled
<1> QED BY <1>3, <1>4, <1>5

\* What a write that succeeds and one that fails do to everything but the log.
LEMMA FrameLeaves ==
    ASSUME SocketInv, NEW a \in Writers, Write(a) \/ WriteFails(a),
           sent' \in Seq(Reply)
    PROVE  /\ TypeOK' /\ NotYetStarted' /\ FrameHeld'
           /\ OneInFlight' /\ SupersededOlder' /\ CancelledForCause'
<1> USE DEF SocketInv
<1>1. /\ at[a] = "write" /\ writeMu = a /\ writeMu' = Free
      /\ at' = [at EXCEPT ![a] = AfterWrite(a)]
      /\ FrameDone(a) /\ ctxDone' \in BOOLEAN /\ (ctxDone => ctxDone')
      /\ UNCHANGED <<peer, accepted, others, superseded, cancels, expired, ping>>
  BY DEF Write, WriteFails, Goto, TypeOK
<1>2. Free \notin Writers /\ Searches \subseteq Writers
  BY DEF Free, Writers, Searches, ReadLoop
<1>3. AfterWrite(a) \in {"read", "remove"}
  BY DEF AfterWrite
<1>4. /\ frame' \in [Searches -> {"none", "result", "cancelled", "error"}]
      /\ \A n \in Searches : n # a => frame'[n] = frame[n]
      /\ \A n \in Searches : frame'[n] \in {"none", frame[n]}
  BY <1>1 DEF FrameDone, TypeOK
<1>5. TypeOK'
  BY <1>1, <1>2, <1>3, <1>4 DEF TypeOK, Places
<1>6. NotYetStarted' /\ OneInFlight' /\ SupersededOlder'
  BY <1>1, <1>2, <1>3 DEF NotYetStarted, OneInFlight, SupersededOlder, TypeOK
<1>7. FrameHeld' /\ CancelledForCause'
  BY <1>1, <1>2, <1>3, <1>4 DEF FrameHeld, CancelledForCause, TypeOK
<1> QED BY <1>5, <1>6, <1>7

\* A reply that says "cancelled" is only written while the context lives, so
\* its search was superseded.
LEMMA WriteStep ==
    ASSUME SocketInv, NEW a \in Writers, Write(a)
    PROVE  SocketInv'
<1> USE DEF SocketInv
<1>1. at[a] = "write" /\ ~ctxDone /\ sent' = Log(a) /\ accepted' = accepted
  BY DEF Write
<1>2. sent' \in Seq(Reply) /\ LatestNotCancelled'
  <2>1. CASE a = ReadLoop
    BY <1>1, <2>1 DEF Log, TypeOK, LatestNotCancelled
  <2>2. CASE a # ReadLoop
    <3> DEFINE r == [seq |-> a, kind |-> frame[a]]
    <3>1. a \in Searches
      BY <2>2 DEF Writers
    <3>2. frame[a] \in {"result", "cancelled", "error"}
      BY <1>1, <3>1 DEF FrameHeld, TypeOK
    <3>3. r \in Reply /\ sent' = Append(sent, r)
      BY <1>1, <2>2, <3>1, <3>2 DEF Log, Reply
    <3>4. r.kind = "cancelled" => r.seq < accepted
      BY <1>1, <3>1 DEF CancelledForCause, SupersededOlder
    <3> HIDE DEF r
    <3>5. /\ sent' \in Seq(Reply) /\ Len(sent') = Len(sent) + 1
          /\ \A i \in DOMAIN sent' :
               \/ i \in DOMAIN sent /\ sent'[i] = sent[i]
               \/ sent'[i] = r
      BY <3>3 DEF TypeOK
    <3> QED BY <1>1, <3>4, <3>5 DEF LatestNotCancelled
  <2> QED BY <2>1, <2>2
<1> QED BY <1>2, FrameLeaves

LEMMA WriteFailsStep ==
    ASSUME SocketInv, NEW a \in Writers, WriteFails(a)
    PROVE  SocketInv'
<1> USE DEF SocketInv
<1>1. sent' = sent /\ accepted' = accepted /\ sent' \in Seq(Reply)
  BY DEF WriteFails, TypeOK
<1>2. LatestNotCancelled'
  BY <1>1 DEF LatestNotCancelled
<1> QED BY <1>1, <1>2, FrameLeaves

-----------------------------------------------------------------------------
(* The ping goroutine and the environment *)

LEMMA QuietStep ==
    ASSUME SocketInv, Ping \/ PeerLeaves \/ RequestTimeout \/ UNCHANGED vars
    PROVE  SocketInv'
<1> USE DEF SocketInv
<1>1. /\ UNCHANGED <<accepted, others, at, frame, superseded, cancels, writeMu, sent>>
      /\ ctxDone => ctxDone'
      /\ peer' \in {"reading", "silent", "closed"}
      /\ ping' \in {"waiting", "pinging", "gone"}
      /\ ctxDone' \in BOOLEAN /\ expired' \in BOOLEAN
  BY DEF Ping, StartPing, PongReceived, PingFails, PingEnds, PeerLeaves,
         RequestTimeout, vars, TypeOK
<1>2. TypeOK'
  BY <1>1 DEF TypeOK
<1>3. NotYetStarted' /\ FrameHeld' /\ OneInFlight' /\ SupersededOlder'
  BY <1>1 DEF NotYetStarted, FrameHeld, OneInFlight, SupersededOlder
<1>4. CancelledForCause' /\ LatestNotCancelled'
  BY <1>1 DEF CancelledForCause, LatestNotCancelled
<1> QED BY <1>2, <1>3, <1>4

-----------------------------------------------------------------------------
(* Every step *)

LEMMA NextSocket == SocketInv /\ [Next]_vars => SocketInv'
<1> SUFFICES ASSUME SocketInv, [Next]_vars PROVE SocketInv'
  OBVIOUS
<1>1. CASE ReceiveSearch
  BY <1>1, ReceiveSearchStep
<1>2. CASE ReceiveOther \/ ReadFails
  BY <1>2, ReadLoopStep
<1>3. ASSUME NEW n \in Searches, Search(n) PROVE SocketInv'
  BY <1>3, QueryReturnsStep, RemoveStep DEF Search
<1>4. ASSUME NEW a \in Writers, WriteFrame(a) PROVE SocketInv'
  BY <1>4, LockStep, WriteStep, WriteFailsStep DEF WriteFrame
<1>5. CASE Ping \/ PeerLeaves \/ RequestTimeout \/ UNCHANGED vars
  BY <1>5, QuietStep
<1> QED BY <1>1, <1>2, <1>3, <1>4, <1>5 DEF Next, Receive

-----------------------------------------------------------------------------
(* Theorems *)

\* The invariant of a socket, from which the theorems below are read off.
THEOREM SocketInvariant == Spec => []SocketInv
<1> QED BY InitSocket, NextSocket, PTL DEF Spec

\* writeFrame: replies of racing goroutines are written one at a time, each by
\* the one goroutine that holds writeMu.
THEOREM SocketTypeCorrect == Spec => []TypeOK
<1>1. SocketInv => TypeOK
  BY DEF SocketInv
<1> QED BY <1>1, SocketInvariant, PTL

\* replaceAll and the deferred remove: of all searches that still run, only the
\* latest is not cancelled, and the store can cancel it.
THEOREM AtMostOneInFlight == Spec => []OneInFlight
<1>1. SocketInv => OneInFlight
  BY DEF SocketInv
<1> QED BY <1>1, SocketInvariant, PTL

\* handleSearchFrame: "cancelled" reaches the client only for a search it has
\* replaced, however the end of the connection races with the replies.
THEOREM CancelledOnlyWhenReplaced == Spec => []LatestNotCancelled
<1>1. SocketInv => LatestNotCancelled
  BY DEF SocketInv
<1> QED BY <1>1, SocketInvariant, PTL

=============================================================================
