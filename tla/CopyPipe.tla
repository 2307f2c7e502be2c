------------------------------ MODULE CopyPipe ------------------------------
(***************************************************************************)
(* copyDataset of apps/api/internal/ingest/runner.go: one download streams *)
(* through a goroutine that turns its lines into records, an io.Pipe, and  *)
(* the goroutine of pgx's CopyFrom that sends them to Postgres, while      *)
(* CopyFrom itself waits for the end of the stream or an answer of the     *)
(* server.                                                                 *)
(*                                                                         *)
(* Data abstraction: a line is a record or Malformed (another number of    *)
(* columns, or longer than the scanner's buffer), the header is not        *)
(* counted, and the writer's buffer holds whole records.                   *)
(***************************************************************************)
EXTENDS Integers, Sequences

CONSTANTS
    Records,          \* what a well-formed line may hold
    Malformed,        \* a line the scanner or the column count refuses
    BufferRecords     \* records the csv writer's buffer holds

ASSUME MalformedAssumption == Malformed \notin Records
ASSUME BufferAssumption == BufferRecords \in Nat \ {0}

VARIABLES
    lines,            \* the file being downloaded
    body,             \* response body: "open", "failed" or "closed"
    feeder,           \* goroutine of transformTSVForCopy
    scanned,          \* lines it has turned into records
    buffered,         \* records in its csv writer
    chunk,            \* what its pipeWriter.Write is offering
    pipe,             \* what a reader finds behind the chunk: "open" (nothing
                      \* yet), "eof" or "error"
    sender,           \* goroutine of CopyFrom
    held,             \* the chunk it is sending
    copyErr,          \* what it has reported
    call,             \* CopyFrom, and copyDataset around it
    server,           \* "copying", "refused" (an ErrorResponse) or "lost"
    staged            \* rows of the staging table, in this transaction

feedVars == <<lines, body, feeder, scanned, buffered, chunk, pipe>>
sendVars == <<sender, held, copyErr>>
copyVars == <<feedVars, sendVars, call, server, staged>>

CopyInit ==
    /\ lines = << >> /\ body = "closed"
    /\ feeder = "done" /\ scanned = 0 /\ buffered = << >>
    /\ chunk = << >> /\ pipe = "eof"
    /\ sender = "ended" /\ held = << >> /\ copyErr = "none"
    /\ call = "idle" /\ server = "copying" /\ staged = << >>

\* GET was answered with a gzip stream; CopyFrom has sent COPY ... FROM STDIN.
StartCopy(file) ==
    /\ call = "idle" /\ feeder = "done"
    /\ lines' = file /\ body' = "open"
    /\ feeder' = "scan" /\ scanned' = 0 /\ buffered' = << >>
    /\ chunk' = << >> /\ pipe' = "open"
    /\ sender' = "read" /\ held' = << >> /\ copyErr' = "none"
    /\ call' = "waiting" /\ server' = "copying" /\ staged' = << >>

\* No GET, no answer, a status other than 2xx or no gzip header: nothing runs.
CopyRefused ==
    /\ call = "idle"
    /\ call' = "error"
    /\ UNCHANGED <<feedVars, sendVars, server, staged>>

-----------------------------------------------------------------------------
(* The download *)

\* Mutant: a client without a timeout.
NoTimeout == FALSE

\* http.Client.Timeout covers reading the body, so a stalled download ends.
ClientTimeout ==
    /\ body = "open"
    /\ body' = "failed"
    /\ UNCHANGED <<lines, feeder, scanned, buffered, chunk, pipe, sendVars, call,
                   server, staged>>

\* The connection breaks, or the stream is cut short.
DownloadBreaks ==
    /\ body = "open"
    /\ body' = "failed"
    /\ UNCHANGED <<lines, feeder, scanned, buffered, chunk, pipe, sendVars, call,
                   server, staged>>

-----------------------------------------------------------------------------
(* The goroutine that feeds the pipe *)

\* Mutant: the pipe is closed without the error of transformTSVToCopyCSV.
CloseQuietly == pipe' = "eof"
\* CloseWithError; the deferred Close comes second and changes nothing.
CloseWithError == pipe' = "error"

\* Mutant: the error is passed on, but the goroutine does not return.
FeedGoesOn == CloseWithError /\ UNCHANGED <<lines, body, feeder, buffered, chunk>>

FeedFails ==
    /\ feeder' = "done"
    /\ CloseWithError
    /\ UNCHANGED <<lines, body, buffered, chunk>>

\* A line is scanned and its record written; a full buffer goes to the pipe.
\* Lines the scanner has already read come even if the body has failed since.
ScanLine ==
    /\ feeder = "scan" /\ scanned < Len(lines)
    /\ LET line == lines[scanned + 1]
           records == Append(buffered, line)
       IN  IF line = Malformed THEN FeedFails /\ UNCHANGED scanned
           ELSE /\ scanned' = scanned + 1
                /\ IF Len(records) < BufferRecords
                   THEN buffered' = records /\ UNCHANGED <<chunk, feeder>>
                   ELSE /\ buffered' = << >> /\ chunk' = records
                        /\ feeder' = "write"
                /\ UNCHANGED <<lines, body, pipe>>
    /\ UNCHANGED <<sendVars, call, server, staged>>

ScanFails ==
    /\ feeder = "scan" /\ body # "open"
    /\ FeedFails
    /\ UNCHANGED <<scanned, sendVars, call, server, staged>>

\* writer.Flush at the end of the file.
Flush == chunk' = buffered /\ buffered' = << >>

\* The scanner reads the end of the file from a body that has not failed: in one
\* step, so what breaks between the read and the flush counts as a failure.
ScanEnds ==
    /\ feeder = "scan" /\ scanned = Len(lines) /\ body = "open"
    /\ Flush
    /\ feeder' = "flush"
    /\ UNCHANGED <<lines, body, scanned, pipe, sendVars, call, server, staged>>

\* Write returns when the reader has taken everything; nobody closes the reader.
WriteReturns ==
    /\ feeder \in {"write", "flush"} /\ chunk = << >>
    /\ IF feeder = "write"
       THEN feeder' = "scan" /\ UNCHANGED pipe
       ELSE feeder' = "done" /\ pipe' = "eof"           \* deferred Close
    /\ UNCHANGED <<lines, body, scanned, buffered, chunk, sendVars, call, server,
                   staged>>

-----------------------------------------------------------------------------
(* CopyFrom of pgx *)

ReadChunk ==
    /\ sender = "read" /\ chunk # << >>
    /\ held' = chunk /\ chunk' = << >> /\ sender' = "send"
    /\ UNCHANGED <<lines, body, feeder, scanned, buffered, pipe, copyErr, call,
                   server, staged>>

ReadEnds ==
    /\ sender = "read" /\ chunk = << >> /\ pipe # "open"
    /\ copyErr' = pipe /\ sender' = "ended"
    /\ UNCHANGED <<feedVars, held, call, server, staged>>

\* abortCopyChan is closed when CopyFrom has stopped waiting; the goroutine looks
\* at it between a chunk sent and the next Read.
SendChunk ==
    /\ sender = "send"
    /\ held' = << >>
    /\ staged' = IF server = "copying" THEN staged \o held ELSE staged
    /\ IF server = "lost"
       THEN copyErr' = "error" /\ sender' = "ended"
       ELSE /\ UNCHANGED copyErr
            /\ sender' = IF call = "waiting" THEN "read" ELSE "ended"
    /\ UNCHANGED <<feedVars, call, server>>

\* A statement error (disk full, cancelled), or the end of the connection: a
\* crash of Postgres, or the context of the worker cancelled by a signal.
ServerStops ==
    /\ server = "copying" /\ call \in {"waiting", "joining", "finishing"}
    /\ server' \in {"refused", "lost"}
    /\ UNCHANGED <<feedVars, sendVars, call, staged>>

\* copyDataset returns: its defers close the gzip reader and the body.
Returns(result) ==
    /\ call' = result
    /\ body' = "closed"
    /\ UNCHANGED <<lines, feeder, scanned, buffered, chunk, pipe, sendVars, server,
                   staged>>

\* CopyFrom learns that the stream has ended, or that the server has refused it.
StopsWaiting ==
    /\ call = "waiting"
    /\ copyErr # "none" \/ server = "refused"
    /\ call' = "joining"
    /\ UNCHANGED <<feedVars, sendVars, server, staged>>

\* A lost connection ends the call without waiting for the goroutine.
ConnectionLost ==
    /\ call \in {"waiting", "finishing"} /\ server = "lost"
    /\ Returns("error")

\* wg.Wait, then CopyDone or CopyFail.
Joined ==
    /\ call = "joining" /\ sender = "ended"
    /\ call' = "finishing"
    /\ UNCHANGED <<feedVars, sendVars, server, staged>>

\* The server's answer to CopyDone or CopyFail.
Finished ==
    /\ call = "finishing" /\ server # "lost"
    /\ Returns(IF copyErr = "eof" /\ server = "copying" THEN "ok" ELSE "error")

\* Goroutines run, and a client that waits for a body gives up in the end; a
\* line of a stalled download need not come.
Feed == WriteReturns \/ ScanFails
Send == ReadChunk \/ ReadEnds \/ SendChunk
CopyFrom == StopsWaiting \/ ConnectionLost \/ Joined \/ Finished

CopyNext ==
    \/ ClientTimeout \/ DownloadBreaks
    \/ ScanLine \/ ScanEnds \/ Feed
    \/ Send \/ ServerStops \/ CopyFrom

-----------------------------------------------------------------------------
(* Properties *)

CopyTypeOK ==
    /\ lines \in Seq(Records \cup {Malformed})
    /\ body \in {"open", "failed", "closed"}
    /\ feeder \in {"scan", "write", "flush", "done"}
    /\ scanned \in 0..Len(lines)
    /\ buffered \in Seq(Records) /\ Len(buffered) < BufferRecords
    /\ chunk \in Seq(Records) /\ held \in Seq(Records) /\ staged \in Seq(Records)
    /\ pipe \in {"open", "eof", "error"}
    /\ sender \in {"read", "send", "ended"}
    /\ copyErr \in {"none", "eof", "error"}
    /\ call \in {"idle", "waiting", "joining", "finishing", "ok", "error"}
    /\ server \in {"copying", "refused", "lost"}

\* A COPY that reports success has staged every record of a file without a
\* malformed line, in order, whatever broke and however the three goroutines
\* were scheduled: a download cut short is never imported as if it were whole.
CopiedIsWhole ==
    call = "ok" => staged = lines /\ \A i \in DOMAIN lines : lines[i] # Malformed

\* The feeding goroutine ends unless the server ended the COPY first.
FeederEnds == feeder # "done" ~> (feeder = "done" \/ server # "copying")

=============================================================================
