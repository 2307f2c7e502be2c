------------------------ MODULE DatasetImportProofs ------------------------
(***************************************************************************)
(* Proofs about CopyPipe and DatasetImport: for files of any length, any   *)
(* buffer, set of titles and batch size, both modes of an import, and      *)
(* every interleaving of the three goroutines of a COPY.                   *)
(*                                                                         *)
(* First the stream: what has reached the staging table, what is on its    *)
(* way and what the writer still buffers are together what was scanned.    *)
(* Then the tables: what each statement of an import has achieved.         *)
(***************************************************************************)
EXTENDS DatasetImport, FiniteSetTheorems, SequenceTheorems,
        WellFoundedInduction, TLAPS

-----------------------------------------------------------------------------
(* The invariant of a COPY *)

\* The records scanned so far are staged, held by the sender, offered by the
\* pipe or buffered, in this order; the stream has an end only when all are,
\* and a COPY succeeds only on that end.
Stream ==
    /\ server = "copying"
          => ((staged \o held) \o chunk) \o buffered = SubSeq(lines, 1, scanned)
    /\ \A i \in 1..scanned : lines[i] # Malformed
    /\ feeder # "done" => pipe = "open"
    /\ feeder = "scan" => chunk = << >>
    /\ feeder = "flush" => scanned = Len(lines) /\ buffered = << >>
    /\ pipe = "eof" => scanned = Len(lines) /\ buffered = << >> /\ chunk = << >>
    /\ pipe = "eof" => feeder = "done"
    /\ sender # "send" => held = << >>
    /\ copyErr = "eof" => pipe = "eof" /\ sender = "ended"
    /\ call = "ok" => copyErr = "eof" /\ server = "copying"

CopyInv == CopyTypeOK /\ Stream

-----------------------------------------------------------------------------
(* Sequences *)

Lines == Seq(Records \cup {Malformed})

LEMMA RecordsAreLines ==
    ASSUME NEW s \in Seq(Records)
    PROVE  s \in Lines
  BY SeqMonotonic DEF Lines

\* One more line scanned is one more record in the stream.
LEMMA OneMore ==
    ASSUME NEW s \in Lines, NEW n \in Nat, n < Len(s)
    PROVE  SubSeq(s, 1, n + 1) = SubSeq(s, 1, n) \o << s[n + 1] >>
<1>1. 1 \in 1..Len(s) /\ n + 1 \in 1..Len(s)
  BY LenProperties DEF Lines
<1>2. (n + 1) - 1 = n
  OBVIOUS
<1> QED BY <1>1, <1>2, SubSeqRecursiveSecond DEF Lines

\* A record passes from one end of the stream to the next.
LEMMA Handover ==
    ASSUME NEW s \in Seq(Records), NEW t \in Seq(Records), NEW u \in Seq(Records)
    PROVE  /\ (s \o t) \o << >> = s \o t
           /\ (s \o << >>) \o t = s \o t
           /\ s \o t \in Seq(Records)
           /\ (s \o t) \o u = s \o (t \o u)
  BY ConcatEmptySeq, ConcatProperties, ConcatAssociative

-----------------------------------------------------------------------------
(* The steps of a COPY *)

LEMMA InitCopy == CopyInit => CopyInv
<1> SUFFICES ASSUME CopyInit PROVE CopyInv
  OBVIOUS
<1>1. << >> \in Seq(Records) /\ lines \in Lines /\ Len(lines) = 0 /\ Len(buffered) = 0
  BY EmptySeq DEF CopyInit, Lines
<1>2. CopyTypeOK
  BY <1>1, BufferAssumption DEF CopyInit, CopyTypeOK, Lines
<1>3. SubSeq(lines, 1, 0) = << >> /\ ((<< >> \o << >>) \o << >>) \o << >> = << >>
  BY SubSeqEmpty, <1>1, ConcatEmptySeq
<1>4. Stream
  BY <1>1, <1>3 DEF CopyInit, Stream
<1> QED BY <1>2, <1>4 DEF CopyInv

LEMMA StartCopyStep ==
    ASSUME NEW file \in Lines, StartCopy(file)
    PROVE  CopyInv'
<1>1. << >> \in Seq(Records) /\ Len(<< >>) = 0 /\ Len(file) \in Nat
  BY EmptySeq, LenProperties DEF Lines
<1>2. CopyTypeOK'
  BY <1>1, BufferAssumption DEF StartCopy, CopyTypeOK, Lines
<1>3. SubSeq(file, 1, 0) = << >> /\ ((<< >> \o << >>) \o << >>) \o << >> = << >>
  BY SubSeqEmpty, <1>1, ConcatEmptySeq
<1>4. Stream'
  BY <1>1, <1>3 DEF StartCopy, Stream
<1> QED BY <1>2, <1>4 DEF CopyInv

\* Steps that do not move the stream.
LEMMA CopyControlStep ==
    ASSUME CopyInv,
           \/ ClientTimeout \/ DownloadBreaks \/ ScanFails \/ WriteReturns
           \/ ReadEnds \/ ServerStops \/ CopyFrom \/ CopyRefused
    PROVE  CopyInv'
<1> USE DEF CopyInv
<1>1. /\ UNCHANGED <<lines, scanned, buffered, chunk, held, staged>>
      /\ server' = "copying" => server = "copying"
  BY DEF ClientTimeout, DownloadBreaks, ScanFails, FeedFails, WriteReturns, ReadEnds,
         ServerStops, CopyFrom, StopsWaiting, ConnectionLost, Joined, Finished,
         Returns, CopyRefused, feedVars, sendVars
<1>2. CASE ClientTimeout \/ DownloadBreaks
  <2>1. body' = "failed" /\ UNCHANGED <<feeder, pipe, sender, copyErr, call, server>>
    BY <1>2 DEF ClientTimeout, DownloadBreaks, sendVars
  <2> QED BY <1>1, <2>1 DEF CopyTypeOK, Stream
<1>3. CASE ScanFails
  <2>1. /\ feeder = "scan" /\ feeder' = "done" /\ pipe' = "error"
        /\ UNCHANGED <<body, sender, copyErr, call, server>>
    BY <1>3 DEF ScanFails, FeedFails, CloseWithError, sendVars
  <2> QED BY <1>1, <2>1 DEF CopyTypeOK, Stream
<1>4. CASE WriteReturns
  <2>1. /\ UNCHANGED <<body, sender, copyErr, call, server>>
        /\ chunk = << >>
        /\ \/ feeder = "write" /\ feeder' = "scan" /\ pipe' = pipe
           \/ feeder = "flush" /\ feeder' = "done" /\ pipe' = "eof"
    BY <1>4 DEF WriteReturns, sendVars
  <2> QED BY <1>1, <2>1 DEF CopyTypeOK, Stream
<1>5. CASE ReadEnds
  <2>1. /\ UNCHANGED <<body, feeder, pipe, call, server>>
        /\ sender = "read" /\ sender' = "ended" /\ copyErr' = pipe /\ pipe # "open"
    BY <1>5 DEF ReadEnds, feedVars
  <2> QED BY <1>1, <2>1 DEF CopyTypeOK, Stream
<1>6. CASE ServerStops \/ CopyFrom \/ CopyRefused
  <2>1. /\ UNCHANGED <<feeder, pipe, sender, copyErr>>
        /\ body' \in {body, "closed"}
        /\ \/ /\ server' \in {"refused", "lost"} /\ call' = call
              /\ call \in {"waiting", "joining", "finishing"}
           \/ /\ server' = server
              /\ call' \in {"joining", "finishing", "error"}
           \/ /\ server' = server /\ call' = "ok"
              /\ copyErr = "eof" /\ server = "copying"
    BY <1>6 DEF ServerStops, CopyFrom, StopsWaiting, ConnectionLost, Joined,
                Finished, Returns, CopyRefused, feedVars, sendVars
  <2> QED BY <1>1, <2>1 DEF CopyTypeOK, Stream
<1> QED BY <1>2, <1>3, <1>4, <1>5, <1>6

\* A line becomes a record in the buffer or, with the others there, in the pipe.
LEMMA ScanLineStep ==
    ASSUME CopyInv, ScanLine
    PROVE  CopyInv'
<1> DEFINE line == lines[scanned + 1]
           records == Append(buffered, line)
<1> USE DEF CopyInv
<1>1. /\ feeder = "scan" /\ scanned < Len(lines) /\ chunk = << >> /\ pipe = "open"
      /\ UNCHANGED <<lines, body, sender, held, copyErr, call, server, staged>>
  BY DEF ScanLine, FeedFails, sendVars, Stream
<1>2. CASE line = Malformed
  <2>1. /\ feeder' = "done" /\ pipe' = "error"
        /\ UNCHANGED <<scanned, buffered, chunk>>
    BY <1>2 DEF ScanLine, FeedFails, CloseWithError
  <2> QED BY <1>1, <2>1 DEF CopyTypeOK, Stream
<1>3. CASE line # Malformed
  <2>1. /\ lines \in Lines /\ Len(lines) \in Nat /\ scanned \in Nat
        /\ scanned + 1 \in 1..Len(lines)
    BY <1>1, LenProperties DEF CopyTypeOK, Lines
  <2>2. line \in Records
    BY <1>3, <2>1, ElementOfSeq DEF Lines
  <2>3. /\ scanned' = scanned + 1 /\ pipe' = pipe
        /\ IF Len(records) < BufferRecords
           THEN buffered' = records /\ chunk' = chunk /\ feeder' = feeder
           ELSE buffered' = << >> /\ chunk' = records /\ feeder' = "write"
    BY <1>3 DEF ScanLine
  <2>4. /\ buffered \in Seq(Records) /\ staged \in Seq(Records)
        /\ held \in Seq(Records) /\ << >> \in Seq(Records) /\ Len(<< >>) = 0
    BY EmptySeq DEF CopyTypeOK
  <2>5. records \in Seq(Records) /\ records = buffered \o << line >>
    BY <2>2, <2>4, AppendProperties, AppendIsConcat
  <2> DEFINE front == staged \o held
  <2>6. front \in Seq(Records)
    BY <2>4, ConcatProperties
  <2>7. << line >> \in Seq(Records)
    BY <2>2
  <2> HIDE DEF line, records, front
  <2>8. /\ (front \o << >>) \o records = front \o records
        /\ (front \o records) \o << >> = front \o records
        /\ (front \o << >>) \o buffered = front \o buffered
        /\ front \o records = (front \o buffered) \o << line >>
    BY <2>4, <2>5, <2>6, <2>7, Handover
  <2>9. SubSeq(lines, 1, scanned') = SubSeq(lines, 1, scanned) \o << line >>
    BY <1>1, <2>1, <2>3, OneMore DEF line
  <2>10. server' = "copying"
           => ((staged' \o held') \o chunk') \o buffered' = SubSeq(lines', 1, scanned')
    BY <1>1, <2>3, <2>8, <2>9 DEF Stream, front
  <2>11. \A i \in 1..scanned' : lines'[i] # Malformed
    BY <1>1, <1>3, <2>1, <2>3 DEF Stream, line
  <2>12. feeder' = "scan" => chunk' = << >>
    BY <1>1, <2>3
  <2>13. Stream'
    BY <1>1, <2>3, <2>10, <2>11, <2>12 DEF Stream
  <2>14. CopyTypeOK'
    <3>1. /\ buffered' \in Seq(Records) /\ Len(buffered') < BufferRecords
          /\ chunk' \in Seq(Records)
      <4>1. CASE Len(records) < BufferRecords
        BY <2>3, <2>4, <2>5, <4>1, <1>1
      <4>2. CASE ~(Len(records) < BufferRecords)
        <5>1. buffered' = << >> /\ chunk' = records
          BY <2>3, <4>2
        <5>2. Len(buffered') = 0 /\ BufferRecords > 0
          BY <2>4, <5>1, BufferAssumption
        <5> QED BY <2>4, <2>5, <5>1, <5>2
      <4> QED BY <4>1, <4>2
    <3>2. scanned' \in 0..Len(lines') /\ feeder' \in {"scan", "write", "flush", "done"}
      BY <1>1, <2>1, <2>3
    <3> QED BY <1>1, <2>3, <3>1, <3>2 DEF CopyTypeOK
  <2> QED BY <2>13, <2>14
<1> QED BY <1>2, <1>3

LEMMA ScanEndsStep ==
    ASSUME CopyInv, ScanEnds
    PROVE  CopyInv'
<1> USE DEF CopyInv
<1>1. /\ feeder = "scan" /\ scanned = Len(lines) /\ chunk = << >> /\ pipe = "open"
      /\ chunk' = buffered /\ buffered' = << >> /\ feeder' = "flush"
      /\ UNCHANGED <<lines, body, scanned, pipe, sender, held, copyErr, call, server, staged>>
  BY DEF ScanEnds, Flush, sendVars, Stream
<1>2. /\ buffered \in Seq(Records) /\ staged \in Seq(Records)
      /\ held \in Seq(Records) /\ << >> \in Seq(Records) /\ Len(<< >>) = 0
  BY EmptySeq DEF CopyTypeOK
<1>3. CopyTypeOK'
  BY <1>1, <1>2, BufferAssumption DEF CopyTypeOK
<1>4. ((staged \o held) \o buffered) \o << >> = ((staged \o held) \o << >>) \o buffered
  BY <1>2, ConcatProperties, Handover
<1> QED BY <1>1, <1>3, <1>4 DEF Stream

LEMMA ReadChunkStep ==
    ASSUME CopyInv, ReadChunk
    PROVE  CopyInv'
<1> USE DEF CopyInv
<1>1. /\ sender = "read" /\ sender' = "send" /\ held = << >>
      /\ held' = chunk /\ chunk' = << >>
      /\ UNCHANGED <<lines, body, feeder, scanned, buffered, pipe, copyErr, call, server, staged>>
  BY DEF ReadChunk, Stream
<1>2. chunk \in Seq(Records) /\ staged \in Seq(Records) /\ << >> \in Seq(Records)
  BY EmptySeq DEF CopyTypeOK
<1>3. (staged \o chunk) \o << >> = (staged \o << >>) \o chunk
  BY <1>2, Handover
<1>4. CopyTypeOK'
  BY <1>1, <1>2 DEF CopyTypeOK
<1> QED BY <1>1, <1>3, <1>4 DEF Stream

LEMMA SendChunkStep ==
    ASSUME CopyInv, SendChunk
    PROVE  CopyInv'
<1> USE DEF CopyInv
<1>1. /\ sender = "send" /\ sender' \in {"read", "ended"} /\ held' = << >>
      /\ staged' = IF server = "copying" THEN staged \o held ELSE staged
      /\ copyErr' \in {copyErr, "error"}
      /\ UNCHANGED <<lines, body, feeder, scanned, buffered, chunk, pipe, call, server>>
  BY DEF SendChunk, feedVars
<1>2. held \in Seq(Records) /\ staged \in Seq(Records) /\ << >> \in Seq(Records)
  BY EmptySeq DEF CopyTypeOK
<1>3. staged \o held \in Seq(Records) /\ (staged \o held) \o << >> = staged \o held
  BY <1>2, Handover
<1>4. CopyTypeOK'
  BY <1>1, <1>2, <1>3 DEF CopyTypeOK
<1> QED BY <1>1, <1>3, <1>4 DEF Stream

LEMMA NextCopy ==
    ASSUME CopyInv, CopyNext
    PROVE  CopyInv'
  BY CopyControlStep, ScanLineStep, ScanEndsStep, ReadChunkStep, SendChunkStep
     DEF CopyNext, Feed, Send

\* A COPY that succeeds has moved the whole file, which has no malformed line.
LEMMA CopiedFile ==
    ASSUME CopyInv, call = "ok"
    PROVE  staged = lines /\ \A i \in DOMAIN lines : lines[i] # Malformed
<1>1. /\ server = "copying" /\ chunk = << >> /\ buffered = << >> /\ held = << >>
      /\ scanned = Len(lines)
  BY DEF CopyInv, Stream
<1>2. staged \in Seq(Records) /\ lines \in Lines /\ << >> \in Seq(Records)
  BY EmptySeq DEF CopyInv, CopyTypeOK, Lines
<1>3. ((staged \o << >>) \o << >>) \o << >> = staged
  BY <1>2, ConcatEmptySeq
<1>4. SubSeq(lines, 1, Len(lines)) = lines /\ DOMAIN lines = 1..Len(lines)
  BY <1>2, SubSeqFull, LenProperties DEF Lines
<1> QED BY <1>1, <1>3, <1>4 DEF CopyInv, Stream

-----------------------------------------------------------------------------
(* Tables *)

LEMMA TableMember ==
    /\ \A f \in Table : /\ DOMAIN f \subseteq Titles
                        /\ f \in [DOMAIN f -> Values \cup {0}]
    /\ \A S \in SUBSET Titles : \A f \in [S -> Values \cup {0}] : f \in Table
  BY DEF Table

\* Tables are equal when their rows are.
LEMMA TablesEqual ==
    ASSUME NEW f \in Table, NEW g \in Table, DOMAIN f = DOMAIN g,
           \A k \in DOMAIN f : f[k] = g[k]
    PROVE  f = g
<1>1. f \in [DOMAIN f -> Values \cup {0}] /\ g \in [DOMAIN f -> Values \cup {0}]
  BY TableMember
<1> QED BY <1>1

LEMMA EmptyTable == Empty \in Table /\ Range(Empty) = {}
<1>1. DOMAIN << >> = {} /\ Empty = << >>
  BY EmptySeq, LenProperties DEF Empty
<1>2. Empty \in [{} -> Values \cup {0}]
  <2>1. << >> = [i \in {} |-> i]
    BY <1>1
  <2> QED BY <1>1, <2>1
<1> QED BY <1>1, <1>2, TableMember DEF Range

\* A load fills a table with keys and values that are not NULL.
LEMMA LoadedTable ==
    ASSUME NEW d \in Datasets, NEW rows \in Seq(Records)
    PROVE  /\ Loaded(d, rows) \in Table
           /\ d # Basics => 0 \notin Range(Loaded(d, rows))
<1> DEFINE K == {rows[i].key : i \in Kept(rows)}
           row(k) == CHOOSE r \in ToSet(rows) : r.key = k /\ r.value # 0
<1>1. \A i \in DOMAIN rows : rows[i] \in Records
  BY LenProperties
<1>2. \A i \in Kept(rows) : /\ i \in DOMAIN rows
                            /\ rows[i].key \in Titles
                            /\ rows[i].value # 0
  BY <1>1, RecordsAssumption DEF Kept
<1>3. K \subseteq Titles
  BY <1>2
<1>4. ASSUME NEW k \in K PROVE row(k).value \in Values
  <2>1. \E r \in ToSet(rows) : r.key = k /\ r.value # 0
    BY <1>2 DEF ToSet
  <2>2. row(k) \in ToSet(rows) /\ row(k).value # 0
    BY <2>1
  <2>3. row(k) \in Records
    BY <1>1, <2>2 DEF ToSet
  <2> HIDE DEF row
  <2> QED BY <2>2, <2>3, RecordsAssumption
<1>5. Loaded(d, rows) = [k \in K |-> IF d = Basics THEN 0 ELSE row(k).value]
  BY DEF Loaded
<1> HIDE DEF K, row
<1>6. Loaded(d, rows) \in [K -> Values \cup {0}]
  BY <1>4, <1>5
<1>7. d # Basics => 0 \notin Range(Loaded(d, rows))
  BY <1>4, <1>5, TitlesAssumption DEF Range
<1> QED BY <1>3, <1>6, <1>7, TableMember

LEMMA VotesTable ==
    ASSUME NEW b \in Table, NEW r \in Table
    PROVE  WithVotes(b, r) \in Table
<1>1. /\ DOMAIN b \subseteq Titles /\ b \in [DOMAIN b -> Values \cup {0}]
      /\ r \in [DOMAIN r -> Values \cup {0}]
  BY TableMember
<1>2. WithVotes(b, r) \in [DOMAIN b -> Values \cup {0}]
  BY <1>1 DEF WithVotes
<1> QED BY <1>1, <1>2, TableMember

\* A file without a malformed line is a sequence of records.
LEMMA SoundLines ==
    ASSUME NEW file \in Lines, \A i \in DOMAIN file : file[i] # Malformed
    PROVE  file \in Seq(Records)
<1>1. \A i \in DOMAIN file : file[i] \in Records
  BY LenProperties DEF Lines
<1>2. Len(file) \in Nat /\ DOMAIN file = 1..Len(file)
      /\ file \in [1..Len(file) -> Records \cup {Malformed}]
  BY LenProperties DEF Lines
<1> QED BY <1>1, <1>2

LEMMA LeastOf ==
    ASSUME NEW S, S \subseteq Nat, S # {}
    PROVE  \E x \in S : \A y \in S : x <= y
<1>1. \E x \in S : \A y \in S : ~(<<y, x>> \in OpToRel(<, Nat))
  BY NatLessThanWellFounded, WFMin
<1>2. ASSUME NEW x \in Nat, NEW y \in Nat, ~(<<y, x>> \in OpToRel(<, Nat))
      PROVE  x <= y
  BY <1>2 DEF OpToRel
<1> QED BY <1>1, <1>2

LEMMA MinDataset ==
    ASSUME NEW S, S \subseteq Datasets, S # {}
    PROVE  Min(S) \in S /\ \A d \in S : Min(S) <= d
<1>1. S \subseteq Nat
  BY DEF Datasets
<1>2. \E x \in S : \A y \in S : x <= y
  BY <1>1, LeastOf
<1> QED BY <1>2 DEF Min

\* A batch is taken as long as there are keys: the size is never zero.
LEMMA BatchNonEmpty ==
    ASSUME NEW keys, keys \subseteq Titles, configured \in Int
    PROVE  Batch(keys) = {} => keys = {}
<1> SUFFICES ASSUME keys # {} PROVE Batch(keys) # {}
  OBVIOUS
<1>1. keys \subseteq Nat
  BY TitlesAssumption
<1> PICK k \in keys : \A j \in keys : k <= j
  BY <1>1, LeastOf
<1>2. {j \in keys : j < k} = {}
  <2>1. \A j \in keys : j \in Nat /\ ~(j < k)
    BY <1>1
  <2> QED BY <2>1
<1>3. Cardinality({j \in keys : j < k}) = 0
  BY <1>2, FS_EmptySet
<1>4. deltaBatchSize > 0
  BY FS_CardinalityType, TitlesFinite DEF deltaBatchSize
<1> QED BY <1>3, <1>4 DEF Batch

-----------------------------------------------------------------------------
(* The invariant of an import *)

ImportDomains ==
    /\ mode \in {"full", "delta"} /\ configured \in BatchSizes
    /\ files \in [Datasets -> Lines]
    /\ changed \subseteq Datasets
    /\ tables \in [Datasets -> Table] /\ work \in [Datasets -> Table]
    /\ delta \in Table
    /\ raw \in [Datasets -> Seq(Records)]
    /\ dataset \in Datasets

\* The columns of ratings and episodes, and of their delta tables, that may
\* not be NULL.
NothingNull ==
    /\ \A d \in {Ratings, Episodes} :
          0 \notin Range(tables[d]) /\ 0 \notin Range(work[d])
    /\ pc \in {"insert", "update", "delete"} => 0 \notin Range(delta)

\* A COPY that may still succeed streams the file of the dataset.
StreamsFile ==
    pc = "copy" /\ call \in {"waiting", "joining", "finishing", "ok"}
        => lines = files[dataset]

\* What the load of a dataset's file gives.
FileLoaded(d) == Loaded(d, files[d])

\* What each statement of a full refresh has achieved.
FullInv ==
    mode = "full" =>
    /\ pc \in {"begin", "get", "copy", "load", "votes", "commit", "finish",
               "done", "failed"}
    /\ pc \in {"begin", "get", "copy"}
          => \A d \in Datasets : d < dataset => raw[d] = files[d]
    /\ pc = "load" => /\ \A d \in Datasets : raw[d] = files[d]
                      /\ \A d \in Datasets : d < dataset => work[d] = FileLoaded(d)
    /\ pc = "votes" => \A d \in Datasets : work[d] = FileLoaded(d)
    /\ pc = "commit" => \A d \in Datasets : work[d] = Imported(files)[d]
    /\ pc \in {"finish", "done"} => \A d \in Datasets : tables[d] = Imported(files)[d]

\* A dataset's live table is to be what the files say: its file has been
\* imported or has not changed, nor have the votes copied into it.
Current(d) ==
    /\ d \in changed => d < dataset \/ pc \in {"finish", "done"}
    /\ d = Basics /\ Ratings \in changed => Basics \in changed

\* What each statement of a delta has achieved.
DeltaInv ==
    mode = "delta" =>
    /\ pc \in {"begin", "get", "copy", "normalize", "insert", "update", "delete",
               "truncate", "reload", "votes", "commit", "finish", "done", "failed"}
    /\ dataset \in changed
    /\ pc \in {"normalize", "insert", "update", "delete"} => dataset # Basics
    /\ pc \in {"truncate", "reload", "votes"} => dataset = Basics
    /\ \A d \in Datasets : Current(d) => tables[d] = Imported(files)[d]
    /\ pc \notin {"begin", "finish", "done", "failed"}
          => \A d \in Datasets \ {dataset} : work[d] = tables[d]
    /\ pc \in {"normalize", "truncate", "reload"} => raw[dataset] = files[dataset]
    /\ pc \in {"insert", "update", "delete"} => delta = FileLoaded(dataset)
    /\ pc \in {"update", "delete"} => DOMAIN delta \subseteq DOMAIN work[dataset]
    /\ pc = "delete" => \A k \in DOMAIN delta : work[dataset][k] = delta[k]
    /\ pc = "votes" => work[Basics] = FileLoaded(Basics)
    /\ pc = "commit" => work[dataset] = Imported(files)[dataset]

ImportInv ==
    /\ CopyInv /\ ImportDomains /\ NothingNull /\ StreamsFile
    /\ FullInv /\ DeltaInv

LEMMA ImportedAt ==
    ASSUME NEW fs, NEW d \in Datasets
    PROVE  /\ d # Basics => Imported(fs)[d] = Loaded(d, fs[d])
           /\ d = Basics => Imported(fs)[d] = WithVotes(Loaded(Basics, fs[Basics]),
                                                        Loaded(Ratings, fs[Ratings]))
  BY DEF Imported

LEMMA FilesAreLines ==
    ASSUME NEW fs, NEW d \in Datasets, fs[d] \in FilesOf[d]
    PROVE  fs[d] \in Lines
  BY FilesAssumption DEF Lines

LEMMA ThreeDatasets ==
    /\ Datasets = {Ratings, Episodes, Basics}
    /\ Ratings \in Datasets /\ Episodes \in Datasets /\ Basics \in Datasets
    /\ Ratings = 1 /\ Episodes = 2 /\ Basics = 3
  BY DEF Datasets, Ratings, Episodes, Basics

-----------------------------------------------------------------------------
(* Initially *)

LEMMA ImportedTables ==
    ASSUME NEW fs, \A d \in Datasets : fs[d] \in Seq(Records)
    PROVE  /\ Imported(fs) \in [Datasets -> Table]
           /\ \A d \in {Ratings, Episodes} : 0 \notin Range(Imported(fs)[d])
<1>1. \A d \in Datasets : Imported(fs)[d] \in Table
  BY ImportedAt, LoadedTable, VotesTable, ThreeDatasets
<1>2. Imported(fs) = [d \in Datasets |-> Imported(fs)[d]]
  BY DEF Imported
<1>3. \A d \in {Ratings, Episodes} : 0 \notin Range(Imported(fs)[d])
  BY ImportedAt, LoadedTable, ThreeDatasets
<1> QED BY <1>1, <1>2, <1>3

LEMMA InitImport == Init => ImportInv
<1> SUFFICES ASSUME Init PROVE ImportInv
  OBVIOUS
<1>1. CopyInv
  BY InitCopy DEF Init
<1>2. PICK old \in [Datasets -> UNION {FilesOf[d] : d \in Datasets}] :
         /\ \A d \in Datasets : old[d] \in FilesOf[d] /\ Sound(old[d])
         /\ tables = Imported(old)
         /\ changed = {d \in Datasets : files[d] # old[d]}
  BY DEF Init
<1>3. \A d \in Datasets : old[d] \in Seq(Records)
  <2> SUFFICES ASSUME NEW d \in Datasets PROVE old[d] \in Seq(Records)
    OBVIOUS
  <2>1. old[d] \in Lines
    BY <1>2, FilesAreLines
  <2>2. \A i \in DOMAIN old[d] : old[d][i] # Malformed
    BY <1>2 DEF Sound, ToSet
  <2> QED BY <2>1, <2>2, SoundLines
<1>4. /\ tables \in [Datasets -> Table]
      /\ \A d \in {Ratings, Episodes} : 0 \notin Range(tables[d])
  BY <1>2, <1>3, ImportedTables
<1>5. files \in [Datasets -> Lines]
  BY FilesAreLines DEF Init
<1>6. changed \subseteq Datasets /\ changed # {}
  BY <1>2 DEF Init
<1>7. /\ mode = "delta" => dataset \in changed /\ \A d \in changed : dataset <= d
      /\ mode = "full" => dataset = Ratings
      /\ dataset \in Datasets
  BY <1>6, MinDataset, ThreeDatasets DEF Init
<1>8. /\ work = [d \in Datasets |-> Empty] /\ raw = [d \in Datasets |-> Empty]
      /\ delta = Empty /\ pc = "begin" /\ call = "idle"
      /\ mode \in {"full", "delta"} /\ configured \in BatchSizes
  BY DEF Init, CopyInit
<1>9. Empty \in Seq(Records)
  BY EmptySeq DEF Empty
<1>10. ImportDomains
  BY <1>4, <1>5, <1>6, <1>7, <1>8, <1>9, EmptyTable DEF ImportDomains
<1>11. NothingNull
  BY <1>4, <1>8, EmptyTable, ThreeDatasets DEF NothingNull
<1>12. StreamsFile
  BY <1>8 DEF StreamsFile
<1>13. FullInv
  BY <1>7, <1>8, ThreeDatasets DEF FullInv
<1>14. DeltaInv
  <2> SUFFICES ASSUME mode = "delta" PROVE DeltaInv
    BY DEF DeltaInv
  <2>1. ASSUME NEW d \in Datasets, Current(d)
        PROVE  tables[d] = Imported(files)[d]
    <3>1. d \notin changed
      <4>1. d \in changed => dataset <= d /\ d < dataset
        BY <1>7, <1>8, <2>1 DEF Current
      <4> QED BY <1>7, <4>1, ThreeDatasets
    <3>2. files[d] = old[d] /\ (d = Basics => files[Ratings] = old[Ratings])
      BY <1>2, <2>1, <3>1, ThreeDatasets DEF Current
    <3>3. Imported(old)[d] = Imported(files)[d]
      BY <3>2, ImportedAt, ThreeDatasets
    <3> QED BY <1>2, <3>3
  <2> QED BY <1>7, <1>8, <2>1 DEF DeltaInv
<1> QED BY <1>1, <1>10, <1>11, <1>12, <1>13, <1>14 DEF ImportInv

-----------------------------------------------------------------------------
(* Staging *)

LEMMA CopyStepKeeps ==
    ASSUME ImportInv, CopyStep
    PROVE  ImportInv'
<1>1. CopyInv'
  BY NextCopy DEF CopyStep, ImportInv
<1>2. UNCHANGED <<mode, configured, files, changed, tables, work, delta, raw, dataset, pc>>
  BY DEF CopyStep, importVars
<1>3. StreamsFile'
  <2>1. lines' = lines
    BY DEF CopyStep, CopyNext, ClientTimeout, DownloadBreaks, ScanLine, FeedFails,
           ScanFails, ScanEnds, WriteReturns, Feed, Send, ReadChunk, ReadEnds,
           SendChunk, ServerStops, CopyFrom, StopsWaiting, ConnectionLost, Joined,
           Finished, Returns, feedVars
  <2>2. call' \in {"waiting", "joining", "finishing", "ok"}
          => call \in {"waiting", "joining", "finishing", "ok"}
    BY DEF CopyStep, CopyNext, ClientTimeout, DownloadBreaks, ScanLine, ScanFails,
           ScanEnds, WriteReturns, Feed, Send, ReadChunk, ReadEnds,
           SendChunk, ServerStops, CopyFrom, StopsWaiting, ConnectionLost, Joined,
           Finished, Returns
  <2> QED BY <1>2, <2>1, <2>2 DEF StreamsFile, ImportInv
<1>4. /\ ImportDomains' /\ NothingNull' /\ FullInv' /\ DeltaInv'
  BY <1>2 DEF ImportInv, ImportDomains, NothingNull, FullInv, DeltaInv, Current, FileLoaded
<1> QED BY <1>1, <1>3, <1>4 DEF ImportInv

LEMMA CopyAlone ==
    ASSUME CopyInv, UNCHANGED copyVars
    PROVE  CopyInv'
  BY DEF CopyInv, CopyTypeOK, Stream, copyVars, feedVars, sendVars

LEMMA BeginStep ==
    ASSUME ImportInv, Begin
    PROVE  ImportInv'
<1> USE DEF ImportInv
<1>1. /\ pc = "begin" /\ pc' = "get" /\ UNCHANGED copyVars
      /\ work' = IF mode = "delta" THEN tables ELSE work
      /\ UNCHANGED <<mode, configured, files, changed, tables, delta, raw, dataset>>
  BY DEF Begin, Goto
<1>2. CopyInv'
  BY <1>1, CopyAlone
<1>3. ImportDomains' /\ NothingNull'
  BY <1>1 DEF ImportDomains, NothingNull
<1>4. StreamsFile'
  BY <1>1 DEF StreamsFile
<1>5. FullInv'
  BY <1>1 DEF FullInv
<1>6. DeltaInv'
  BY <1>1 DEF DeltaInv, Current
<1> QED BY <1>2, <1>3, <1>4, <1>5, <1>6

LEMMA GetStep ==
    ASSUME ImportInv, Get
    PROVE  ImportInv'
<1> USE DEF ImportInv
<1>1. /\ pc = "get" /\ pc' = "copy"
      /\ UNCHANGED <<mode, configured, files, changed, tables, work, delta, raw, dataset>>
      /\ StartCopy(files[dataset]) \/ CopyRefused
  BY DEF Get, Goto
<1>2. files[dataset] \in Lines
  BY DEF ImportDomains
<1>3. CopyInv'
  BY <1>1, <1>2, StartCopyStep, CopyControlStep
<1>4. ImportDomains' /\ NothingNull'
  BY <1>1 DEF ImportDomains, NothingNull
<1>5. StreamsFile'
  BY <1>1 DEF StreamsFile, StartCopy, CopyRefused
<1>6. FullInv' /\ DeltaInv'
  BY <1>1 DEF FullInv, DeltaInv, Current
<1> QED BY <1>3, <1>4, <1>5, <1>6

\* The staging table holds the file, and the next dataset's turn has come.
LEMMA StagedStep ==
    ASSUME ImportInv, Staged
    PROVE  ImportInv'
<1> USE DEF ImportInv
<1>1. /\ pc = "copy" /\ call = "ok" /\ call' = "idle"
      /\ raw' = [raw EXCEPT ![dataset] = staged]
      /\ UNCHANGED <<feedVars, sendVars, server, staged, mode, configured, files,
                     changed, tables, work, delta>>
      /\ mode = "full" /\ Later # {} => dataset' = Min(Later) /\ pc' = "begin"
      /\ mode = "full" /\ Later = {} => dataset' = Ratings /\ pc' = "load"
      /\ mode # "full" =>
            /\ dataset' = dataset
            /\ pc' = IF dataset = Basics THEN "truncate" ELSE "normalize"
  BY DEF Staged, Goto
<1>2. staged = files[dataset] /\ staged \in Seq(Records)
  BY <1>1, CopiedFile DEF StreamsFile, CopyInv, CopyTypeOK
<1>3. CopyInv'
  BY <1>1 DEF CopyInv, CopyTypeOK, Stream, feedVars, sendVars
<1>4. dataset' \in Datasets
  <2>1. Later \subseteq Datasets
    BY DEF Later, ImportDomains
  <2>2. Later # {} => Min(Later) \in Datasets
    BY <2>1, MinDataset
  <2> QED BY <1>1, <2>2, ThreeDatasets DEF ImportDomains
<1>5. ImportDomains' /\ NothingNull'
  BY <1>1, <1>2, <1>4 DEF ImportDomains, NothingNull
<1>6. StreamsFile'
  BY <1>1 DEF StreamsFile, ImportDomains
<1>7. raw'[dataset] = files[dataset]
      /\ \A d \in Datasets \ {dataset} : raw'[d] = raw[d]
  BY <1>1, <1>2 DEF ImportDomains
<1>8. FullInv'
  <2> SUFFICES ASSUME mode = "full" PROVE FullInv'
    BY <1>1 DEF FullInv
  <2>1. Later = {d \in Datasets : d > dataset}
    BY DEF Later
  <2>2. \A d \in Datasets : d <= dataset => raw'[d] = files[d]
    BY <1>1, <1>7, ThreeDatasets DEF FullInv, ImportDomains
  <2>3. CASE Later # {}
    <3>1. \A d \in Datasets : d < dataset' => d <= dataset
      <4>1. dataset' = Min(Later) /\ Later \subseteq Datasets
        BY <1>1, <2>1, <2>3
      <4>2. \A d \in Later : dataset' <= d
        BY <2>3, <4>1, MinDataset
      <4>3. dataset \in Int /\ dataset' \in Int /\ Datasets \subseteq Int
        BY <1>4, ThreeDatasets DEF ImportDomains
      <4> QED BY <2>1, <4>2, <4>3
    <3> QED BY <1>1, <2>2, <2>3, <3>1 DEF FullInv
  <2>4. CASE Later = {}
    <3>1. \A d \in Datasets : d <= dataset
      BY <2>1, <2>4, ThreeDatasets DEF ImportDomains
    <3>2. \A d \in Datasets : ~(d < dataset')
      BY <1>1, <2>4, ThreeDatasets
    <3> QED BY <1>1, <2>2, <2>4, <3>1, <3>2 DEF FullInv
  <2> QED BY <2>3, <2>4
<1>9. DeltaInv'
  BY <1>1, <1>7 DEF DeltaInv, Current
<1> QED BY <1>3, <1>5, <1>6, <1>8, <1>9

LEMMA FailStep ==
    ASSUME ImportInv, Fail, UNCHANGED copyVars
    PROVE  ImportInv'
<1> USE DEF ImportInv
<1>1. /\ pc' = "failed"
      /\ UNCHANGED <<mode, configured, files, changed, tables, work, delta, raw, dataset>>
  BY DEF Fail
<1>2. CopyInv'
  BY CopyAlone
<1>3. ImportDomains' /\ NothingNull' /\ StreamsFile'
  BY <1>1 DEF ImportDomains, NothingNull, StreamsFile
<1>4. FullInv' /\ DeltaInv'
  BY <1>1 DEF FullInv, DeltaInv, Current
<1> QED BY <1>2, <1>3, <1>4

-----------------------------------------------------------------------------
(* The full refresh *)

LEMMA LoadStep ==
    ASSUME ImportInv, Load
    PROVE  ImportInv'
<1> USE DEF ImportInv
<1>1. CASE Fail
  BY <1>1, FailStep DEF Load
<1>2. CASE /\ work' = [work EXCEPT ![dataset] = Loaded(dataset, raw[dataset])]
           /\ dataset' = IF dataset = Basics THEN dataset ELSE dataset + 1
           /\ pc' = AfterLoad(dataset)
           /\ UNCHANGED <<mode, configured, files, changed, tables, delta, raw>>
  <2>1. pc = "load" /\ UNCHANGED copyVars
    BY DEF Load
  <2>2. mode = "full" /\ raw[dataset] = files[dataset] /\ dataset \in Datasets
    BY <2>1 DEF ImportDomains, FullInv, DeltaInv
  <2>3. /\ Loaded(dataset, raw[dataset]) \in Table
        /\ dataset # Basics => 0 \notin Range(Loaded(dataset, raw[dataset]))
    BY <2>2, LoadedTable DEF ImportDomains
  <2>4. /\ work'[dataset] = FileLoaded(dataset)
        /\ \A d \in Datasets \ {dataset} : work'[d] = work[d]
    BY <1>2, <2>2 DEF ImportDomains, FileLoaded
  <2>5. dataset' \in Datasets
    BY <1>2, <2>2, ThreeDatasets
  <2>6. CopyInv'
    BY <2>1, CopyAlone
  <2>7. ImportDomains'
    BY <1>2, <2>2, <2>3, <2>5 DEF ImportDomains
  <2>8. NothingNull'
    BY <1>2, <2>2, <2>3, <2>4, ThreeDatasets
       DEF NothingNull, ImportDomains, FileLoaded, AfterLoad
  <2>9. StreamsFile'
    BY <1>2 DEF StreamsFile, AfterLoad
  <2>10. FullInv'
    <3>1. \A d \in Datasets : d <= dataset => work'[d] = FileLoaded(d)
      BY <2>1, <2>2, <2>4, ThreeDatasets DEF FullInv
    <3>2. CASE dataset = Basics
      <4>1. \A d \in Datasets : d <= dataset
        BY <3>2, ThreeDatasets
      <4> QED BY <1>2, <2>2, <3>1, <3>2, <4>1 DEF FullInv, FileLoaded, AfterLoad
    <3>3. CASE dataset # Basics
      <4>1. \A d \in Datasets : d < dataset' => d <= dataset
        BY <1>2, <2>2, <3>3, ThreeDatasets
      <4> QED BY <1>2, <2>1, <2>2, <3>1, <3>3, <4>1 DEF FullInv, FileLoaded, AfterLoad
    <3> QED BY <3>2, <3>3
  <2>11. DeltaInv'
    BY <1>2, <2>2 DEF DeltaInv
  <2> QED BY <2>6, <2>7, <2>8, <2>9, <2>10, <2>11
<1> QED BY <1>1, <1>2 DEF Load, Goto

\* The votes come from the ratings loaded in this refresh, or from those that
\* are live, which a delta has brought up to date before title_basics.
LEMMA VotesStep ==
    ASSUME ImportInv, DenormalizeVotes
    PROVE  ImportInv'
<1> USE DEF ImportInv
<1>1. /\ pc = "votes" /\ pc' = "commit" /\ UNCHANGED copyVars
      /\ work' = [work EXCEPT ![Basics] = WithVotes(work[Basics], work[Ratings])]
      /\ UNCHANGED <<mode, configured, files, changed, tables, delta, raw, dataset>>
  BY DEF DenormalizeVotes, Goto
<1>2. /\ work[Basics] \in Table /\ work[Ratings] \in Table
      /\ work'[Basics] = WithVotes(work[Basics], work[Ratings])
      /\ \A d \in Datasets \ {Basics} : work'[d] = work[d]
  BY <1>1, ThreeDatasets DEF ImportDomains
<1>3. WithVotes(work[Basics], work[Ratings]) \in Table
  BY <1>2, VotesTable
<1>4. CopyInv'
  BY <1>1, CopyAlone
<1>5. ImportDomains'
  BY <1>1, <1>3 DEF ImportDomains
<1>6. NothingNull' /\ StreamsFile'
  BY <1>1, <1>2, ThreeDatasets DEF NothingNull, StreamsFile
<1>7. work[Basics] = FileLoaded(Basics) /\ work[Ratings] = FileLoaded(Ratings)
  <2>1. CASE mode = "full"
    BY <1>1, <2>1, ThreeDatasets DEF FullInv
  <2>2. CASE mode = "delta"
    <3>1. dataset = Basics /\ work[Basics] = FileLoaded(Basics)
          /\ work[Ratings] = tables[Ratings]
      BY <1>1, <2>2, ThreeDatasets DEF DeltaInv
    <3>2. Current(Ratings)
      BY <3>1, ThreeDatasets DEF Current
    <3>3. tables[Ratings] = Imported(files)[Ratings]
      BY <2>2, <3>2, ThreeDatasets DEF DeltaInv
    <3> QED BY <3>1, <3>3, ImportedAt, ThreeDatasets DEF FileLoaded
  <2> QED BY <2>1, <2>2 DEF ImportDomains
<1>8. work'[Basics] = Imported(files)[Basics]
  BY <1>2, <1>7, ImportedAt, ThreeDatasets DEF FileLoaded
<1>9. FullInv'
  <2> SUFFICES ASSUME mode = "full" PROVE FullInv'
    BY <1>1 DEF FullInv
  <2>1. \A d \in Datasets \ {Basics} : work'[d] = Imported(files)[d]
    BY <1>1, <1>2, ImportedAt DEF FullInv, FileLoaded
  <2> QED BY <1>1, <1>8, <2>1 DEF FullInv
<1>10. DeltaInv'
  <2> SUFFICES ASSUME mode = "delta" PROVE DeltaInv'
    BY <1>1 DEF DeltaInv
  <2>1. dataset = Basics /\ \A d \in Datasets \ {Basics} : work'[d] = tables[d]
    BY <1>1, <1>2 DEF DeltaInv
  <2> QED BY <1>1, <1>8, <2>1 DEF DeltaInv, Current
<1> QED BY <1>4, <1>5, <1>6, <1>9, <1>10

-----------------------------------------------------------------------------
(* The delta *)

LEMMA TruncateStep ==
    ASSUME ImportInv, Truncate
    PROVE  ImportInv'
<1> USE DEF ImportInv
<1>1. /\ pc = "truncate" /\ pc' = "reload" /\ UNCHANGED copyVars
      /\ work' = [work EXCEPT ![Basics] = Empty]
      /\ UNCHANGED <<mode, configured, files, changed, tables, delta, raw, dataset>>
  BY DEF Truncate, Goto
<1>2. \A d \in Datasets \ {Basics} : work'[d] = work[d]
  BY <1>1 DEF ImportDomains
<1>3. CopyInv' /\ ImportDomains'
  BY <1>1, CopyAlone, EmptyTable DEF ImportDomains
<1>4. NothingNull' /\ StreamsFile'
  BY <1>1, <1>2, ThreeDatasets DEF NothingNull, StreamsFile
<1>5. FullInv' /\ DeltaInv'
  BY <1>1, <1>2 DEF FullInv, DeltaInv, Current
<1> QED BY <1>3, <1>4, <1>5

LEMMA ReloadStep ==
    ASSUME ImportInv, Reload
    PROVE  ImportInv'
<1> USE DEF ImportInv
<1>1. CASE Fail
  BY <1>1, FailStep DEF Reload
<1>2. CASE /\ work' = [work EXCEPT ![Basics] = Loaded(Basics, raw[Basics])]
           /\ pc' = "votes"
           /\ UNCHANGED <<mode, configured, files, changed, tables, delta, raw, dataset>>
  <2>1. pc = "reload" /\ UNCHANGED copyVars
    BY DEF Reload
  <2>2. mode = "delta" /\ dataset = Basics /\ raw[Basics] = files[Basics]
    BY <2>1 DEF ImportDomains, FullInv, DeltaInv
  <2>3. Loaded(Basics, raw[Basics]) \in Table
    BY LoadedTable, ThreeDatasets DEF ImportDomains
  <2>4. /\ work'[Basics] = FileLoaded(Basics)
        /\ \A d \in Datasets \ {Basics} : work'[d] = work[d]
    BY <1>2, <2>2, ThreeDatasets DEF ImportDomains, FileLoaded
  <2>5. CopyInv' /\ ImportDomains'
    BY <1>2, <2>1, <2>3, CopyAlone DEF ImportDomains
  <2>6. NothingNull' /\ StreamsFile'
    BY <1>2, <2>4, ThreeDatasets DEF NothingNull, StreamsFile
  <2>7. FullInv' /\ DeltaInv'
    BY <1>2, <2>1, <2>2, <2>4 DEF FullInv, DeltaInv, Current, FileLoaded
  <2> QED BY <2>5, <2>6, <2>7
<1> QED BY <1>1, <1>2 DEF Reload, Goto

LEMMA NormalizeStep ==
    ASSUME ImportInv, Normalize
    PROVE  ImportInv'
<1> USE DEF ImportInv
<1>1. CASE Fail
  BY <1>1, FailStep DEF Normalize
<1>2. CASE /\ delta' = Loaded(dataset, raw[dataset])
           /\ pc' = "insert"
           /\ UNCHANGED <<mode, configured, files, changed, tables, work, raw, dataset>>
  <2>1. pc = "normalize" /\ UNCHANGED copyVars
    BY DEF Normalize
  <2>2. mode = "delta" /\ raw[dataset] = files[dataset]
    BY <2>1 DEF ImportDomains, FullInv, DeltaInv
  <2>3. /\ delta' \in Table /\ delta' = FileLoaded(dataset)
        /\ 0 \notin Range(delta')
    BY <1>2, <2>1, <2>2, LoadedTable DEF ImportDomains, DeltaInv, FileLoaded
  <2>4. CopyInv' /\ ImportDomains'
    BY <1>2, <2>1, <2>3, CopyAlone DEF ImportDomains
  <2>5. NothingNull' /\ StreamsFile'
    BY <1>2, <2>3 DEF NothingNull, StreamsFile
  <2>6. FullInv' /\ DeltaInv'
    BY <1>2, <2>1, <2>2, <2>3 DEF FullInv, DeltaInv, Current, FileLoaded
  <2> QED BY <2>4, <2>5, <2>6
<1> QED BY <1>1, <1>2 DEF Normalize, Goto

\* A delta's loops work on the ratings or the episodes, with the delta table
\* that was filled from the file.
LEMMA Merging ==
    ASSUME ImportInv, pc \in {"insert", "update", "delete"}
    PROVE  /\ mode = "delta" /\ dataset \in Datasets /\ dataset # Basics
           /\ delta = FileLoaded(dataset) /\ delta \in Table
           /\ work[dataset] \in Table /\ configured \in Int
           /\ DOMAIN delta \subseteq Titles /\ DOMAIN work[dataset] \subseteq Titles
           /\ 0 \notin Range(work[dataset]) /\ 0 \notin Range(delta)
<1> USE DEF ImportInv
<1>1. /\ mode = "delta" /\ dataset \in Datasets /\ dataset # Basics
      /\ delta = FileLoaded(dataset) /\ delta \in Table
      /\ work[dataset] \in Table
  BY DEF ImportDomains, FullInv, DeltaInv
<1>2. configured \in Int
  BY BatchAssumption DEF ImportDomains
<1>3. DOMAIN delta \subseteq Titles /\ DOMAIN work[dataset] \subseteq Titles
  BY <1>1, TableMember
<1>4. 0 \notin Range(work[dataset]) /\ 0 \notin Range(delta)
  BY <1>1, ThreeDatasets DEF NothingNull
<1> QED BY <1>1, <1>2, <1>3, <1>4

\* What is common to the statements of the loops: they put a table t in the
\* place of the one they work on, or leave it (t is that table then), and the
\* invariant asks no more of t than where the next statement stands.
LEMMA MergeStep ==
    ASSUME ImportInv, pc \in {"insert", "update", "delete"},
           NEW t \in Table, 0 \notin Range(t),
           work' = [work EXCEPT ![dataset] = t],
           pc' \in {"insert", "update", "delete", "commit"},
           UNCHANGED <<copyVars, mode, configured, files, changed, tables, delta,
                       raw, dataset>>,
           pc' \in {"update", "delete"} => DOMAIN delta \subseteq DOMAIN t,
           pc' = "delete" => \A k \in DOMAIN delta : t[k] = delta[k],
           pc' = "commit" => t = delta
    PROVE  ImportInv'
<1>1. /\ mode = "delta" /\ dataset \in Datasets /\ dataset # Basics
      /\ delta = FileLoaded(dataset) /\ 0 \notin Range(delta)
  BY Merging
<1> USE DEF ImportInv
<1>2. /\ work'[dataset] = t
      /\ \A d \in Datasets \ {dataset} : work'[d] = work[d]
  BY <1>1 DEF ImportDomains
<1>3. CopyInv' /\ ImportDomains'
  BY <1>1, CopyAlone DEF ImportDomains
<1>4. NothingNull' /\ StreamsFile'
  BY <1>1, <1>2, ThreeDatasets DEF NothingNull, StreamsFile
<1>5. FullInv'
  BY <1>1 DEF FullInv
<1>6. pc' = "commit" => work'[dataset] = Imported(files)[dataset]
  BY <1>1, <1>2, ImportedAt DEF FileLoaded
<1>7. DeltaInv'
  BY <1>1, <1>2, <1>6 DEF DeltaInv, Current, FileLoaded
<1> QED BY <1>3, <1>4, <1>5, <1>7

\* A statement that affects no row leaves the table: an update by itself.
LEMMA NoRowAffected ==
    ASSUME ImportInv, UNCHANGED work
    PROVE  work' = [work EXCEPT ![dataset] = work[dataset]]
  BY DEF ImportInv, ImportDomains

LEMMA InsertBatchStep ==
    ASSUME ImportInv, InsertBatch
    PROVE  ImportInv'
<1>1. /\ pc = "insert"
      /\ UNCHANGED <<copyVars, mode, configured, files, changed, tables, delta,
                     raw, dataset>>
  BY DEF InsertBatch, Repeat
<1>2. /\ work[dataset] \in Table /\ delta \in Table /\ configured \in Int
      /\ DOMAIN delta \subseteq Titles /\ DOMAIN work[dataset] \subseteq Titles
      /\ 0 \notin Range(work[dataset]) /\ 0 \notin Range(delta)
  BY <1>1, Merging
<1>3. CASE Batch(Missing) = {} /\ pc' = "update" /\ UNCHANGED work
  <2>1. Missing = {}
    BY <1>2, <1>3, BatchNonEmpty DEF Missing
  <2>2. DOMAIN delta \subseteq DOMAIN work[dataset]
    BY <2>1 DEF Missing
  <2> QED BY <1>1, <1>2, <1>3, <2>2, NoRowAffected, MergeStep
<1>4. ASSUME NEW t,
             t = [k \in DOMAIN work[dataset] \cup Batch(Missing) |->
                     IF k \in Batch(Missing) THEN delta[k] ELSE work[dataset][k]],
             work' = [work EXCEPT ![dataset] = t], UNCHANGED pc
      PROVE  ImportInv'
  <2>1. Batch(Missing) \subseteq DOMAIN delta
    BY DEF Batch, Missing
  <2>2. /\ \A k \in DOMAIN delta : delta[k] \in (Values \cup {0}) \ {0}
        /\ \A k \in DOMAIN work[dataset] : work[dataset][k] \in (Values \cup {0}) \ {0}
    BY <1>2, TableMember DEF Range
  <2>3. /\ t \in [DOMAIN t -> Values \cup {0}] /\ 0 \notin Range(t)
        /\ DOMAIN t \subseteq Titles
    BY <1>2, <1>4, <2>1, <2>2 DEF Range
  <2>4. t \in Table
    BY <2>3, TableMember
  <2> QED BY <1>1, <1>4, <2>3, <2>4, MergeStep
<1> QED BY <1>3, <1>4 DEF InsertBatch, Repeat, Goto

LEMMA UpdateBatchStep ==
    ASSUME ImportInv, UpdateBatch
    PROVE  ImportInv'
<1>1. /\ pc = "update"
      /\ UNCHANGED <<copyVars, mode, configured, files, changed, tables, delta,
                     raw, dataset>>
  BY DEF UpdateBatch, Repeat
<1>2. /\ mode = "delta"
      /\ work[dataset] \in Table /\ delta \in Table /\ configured \in Int
      /\ DOMAIN delta \subseteq Titles /\ DOMAIN work[dataset] \subseteq Titles
      /\ 0 \notin Range(work[dataset]) /\ 0 \notin Range(delta)
  BY <1>1, Merging
<1>3. DOMAIN delta \subseteq DOMAIN work[dataset]
  BY <1>1, <1>2 DEF ImportInv, DeltaInv
<1>4. CASE Batch(Differing) = {} /\ pc' = "delete" /\ UNCHANGED work
  <2>1. Differing \subseteq Titles
    BY <1>2 DEF Differing
  <2>2. Differing = {}
    BY <1>2, <1>4, <2>1, BatchNonEmpty
  <2>3. \A k \in DOMAIN delta : work[dataset][k] = delta[k]
    BY <1>3, <2>2 DEF Differing
  <2> QED BY <1>1, <1>2, <1>3, <1>4, <2>3, NoRowAffected, MergeStep
<1>5. ASSUME NEW t,
             t = [k \in DOMAIN work[dataset] |->
                     IF k \in Batch(Differing) THEN delta[k] ELSE work[dataset][k]],
             work' = [work EXCEPT ![dataset] = t], UNCHANGED pc
      PROVE  ImportInv'
  <2>1. Batch(Differing) \subseteq DOMAIN delta
    BY DEF Batch, Differing
  <2>2. /\ \A k \in DOMAIN delta : delta[k] \in (Values \cup {0}) \ {0}
        /\ \A k \in DOMAIN work[dataset] : work[dataset][k] \in (Values \cup {0}) \ {0}
    BY <1>2, TableMember DEF Range
  <2>3. /\ t \in [DOMAIN t -> Values \cup {0}] /\ 0 \notin Range(t)
        /\ DOMAIN t = DOMAIN work[dataset]
    BY <1>2, <1>5, <2>1, <2>2 DEF Range
  <2>4. t \in Table
    BY <1>2, <2>3, TableMember
  <2> QED BY <1>1, <1>3, <1>5, <2>3, <2>4, MergeStep
<1> QED BY <1>4, <1>5 DEF UpdateBatch, Repeat, Goto

LEMMA DeleteBatchStep ==
    ASSUME ImportInv, DeleteBatch
    PROVE  ImportInv'
<1>1. /\ pc = "delete"
      /\ UNCHANGED <<copyVars, mode, configured, files, changed, tables, delta,
                     raw, dataset>>
  BY DEF DeleteBatch, Repeat
<1>2. /\ mode = "delta"
      /\ work[dataset] \in Table /\ delta \in Table /\ configured \in Int
      /\ DOMAIN delta \subseteq Titles /\ DOMAIN work[dataset] \subseteq Titles
      /\ 0 \notin Range(work[dataset])
  BY <1>1, Merging
<1>3. /\ DOMAIN delta \subseteq DOMAIN work[dataset]
      /\ \A k \in DOMAIN delta : work[dataset][k] = delta[k]
  BY <1>1, <1>2 DEF ImportInv, DeltaInv
<1>4. CASE Batch(Surplus) = {} /\ pc' = "commit" /\ UNCHANGED work
  <2>1. Surplus = {}
    BY <1>2, <1>4, BatchNonEmpty DEF Surplus
  <2>2. DOMAIN work[dataset] = DOMAIN delta
    BY <1>3, <2>1 DEF Surplus
  <2>3. work[dataset] = delta
    BY <1>2, <1>3, <2>2, TablesEqual
  <2> QED BY <1>1, <1>2, <1>4, <2>3, NoRowAffected, MergeStep
<1>5. ASSUME NEW t,
             t = Restrict(work[dataset], DOMAIN work[dataset] \ Batch(Surplus)),
             work' = [work EXCEPT ![dataset] = t], UNCHANGED pc
      PROVE  ImportInv'
  <2>1. t = [k \in DOMAIN work[dataset] \ Batch(Surplus) |-> work[dataset][k]]
    BY <1>5 DEF Restrict
  <2>2. \A k \in DOMAIN work[dataset] : work[dataset][k] \in (Values \cup {0}) \ {0}
    BY <1>2, TableMember DEF Range
  <2>3. /\ t \in [DOMAIN t -> Values \cup {0}] /\ 0 \notin Range(t)
        /\ DOMAIN t \subseteq Titles
    BY <1>2, <2>1, <2>2 DEF Range
  <2>4. t \in Table
    BY <2>3, TableMember
  <2>5. DOMAIN delta \subseteq DOMAIN t
    BY <1>3, <2>1 DEF Batch, Surplus
  <2>6. \A k \in DOMAIN delta : t[k] = delta[k]
    BY <1>3, <2>1, <2>5
  <2> QED BY <1>1, <1>5, <2>3, <2>4, <2>5, <2>6, MergeStep
<1> QED BY <1>4, <1>5 DEF DeleteBatch, Repeat, Goto

\* COMMIT: a dataset that no later one of the delta will write is current.
LEMMA CommitStep ==
    ASSUME ImportInv, Commit
    PROVE  ImportInv'
<1> USE DEF ImportInv
<1>1. /\ pc = "commit" /\ tables' = work
      /\ mode = "delta" /\ Later # {} => dataset' = Min(Later) /\ pc' = "begin"
      /\ ~(mode = "delta" /\ Later # {}) => dataset' = dataset /\ pc' = "finish"
      /\ UNCHANGED <<copyVars, mode, configured, files, changed, work, delta, raw>>
  BY DEF Commit, Goto
<1>2. Later \subseteq Datasets /\ changed \subseteq Datasets
  BY DEF Later, ImportDomains
<1>3. Later # {} => Min(Later) \in Later /\ \A d \in Later : Min(Later) <= d
  BY <1>2, MinDataset
<1>4. CopyInv'
  BY <1>1, CopyAlone
<1>5. ImportDomains'
  BY <1>1, <1>2, <1>3 DEF ImportDomains
<1>6. NothingNull' /\ StreamsFile'
  BY <1>1 DEF NothingNull, StreamsFile
<1>7. FullInv'
  BY <1>1 DEF FullInv
<1>8. DeltaInv'
  <2> SUFFICES ASSUME mode = "delta" PROVE DeltaInv'
    BY <1>1 DEF DeltaInv
  <2>1. Later = {d \in changed : d > dataset}
    BY DEF Later
  <2>2. dataset' \in changed
    BY <1>1, <1>3, <2>1 DEF DeltaInv
  <2>3. /\ work[dataset] = Imported(files)[dataset]
        /\ \A d \in Datasets \ {dataset} : work[d] = tables[d]
    BY <1>1 DEF DeltaInv
  <2>4. ASSUME NEW d \in Datasets, d \in changed => d <= dataset,
               d = Basics /\ Ratings \in changed => Basics \in changed
        PROVE  work[d] = Imported(files)[d]
    <3>1. d # dataset => Current(d)
      BY <2>4, ThreeDatasets DEF Current, ImportDomains
    <3> QED BY <2>3, <3>1 DEF DeltaInv
  <2>5. ASSUME NEW d \in changed, d < dataset' \/ pc' \in {"finish", "done"}
        PROVE  d <= dataset
    <3>1. d \in Int /\ dataset \in Int /\ \A e \in Later : e \in Int
      BY <1>2, ThreeDatasets DEF ImportDomains
    <3>2. d > dataset => d \in Later
      BY <2>1
    <3> QED BY <1>1, <1>3, <2>5, <3>1, <3>2
  <2>6. \A d \in Datasets : Current(d)' => tables'[d] = Imported(files)[d]
    BY <1>1, <2>4, <2>5 DEF Current
  <2> QED BY <1>1, <2>2, <2>6 DEF DeltaInv, Current
<1> QED BY <1>4, <1>5, <1>6, <1>7, <1>8

LEMMA FinishStep ==
    ASSUME ImportInv, Finish
    PROVE  ImportInv'
<1> USE DEF ImportInv
<1>1. /\ pc = "finish" /\ pc' = "done" /\ UNCHANGED copyVars
      /\ UNCHANGED <<mode, configured, files, changed, tables, work, delta, raw, dataset>>
  BY DEF Finish, Goto
<1>2. CopyInv'
  BY <1>1, CopyAlone
<1>3. ImportDomains' /\ NothingNull' /\ StreamsFile'
  BY <1>1 DEF ImportDomains, NothingNull, StreamsFile
<1>4. FullInv' /\ DeltaInv'
  BY <1>1 DEF FullInv, DeltaInv, Current
<1> QED BY <1>2, <1>3, <1>4

-----------------------------------------------------------------------------
(* The theorems *)

LEMMA NextImport == ImportInv /\ [Next]_allVars => ImportInv'
<1> SUFFICES ASSUME ImportInv, [Next]_allVars PROVE ImportInv'
  OBVIOUS
<1>1. CASE CopyStep
  BY <1>1, CopyStepKeeps
<1>2. CASE Statement
  <2>1. CASE CopyFailed
    BY <2>1, FailStep DEF CopyFailed
  <2> QED BY <1>2, <2>1, BeginStep, GetStep, StagedStep, LoadStep, VotesStep,
             TruncateStep, ReloadStep, NormalizeStep, InsertBatchStep,
             UpdateBatchStep, DeleteBatchStep, CommitStep, FinishStep
          DEF Statement
<1>3. CASE StatementFails
  BY <1>3, FailStep DEF StatementFails
<1>4. CASE UNCHANGED allVars
  <2>1. CopyInv'
    BY <1>4, CopyAlone DEF ImportInv, allVars
  <2> QED BY <1>4, <2>1 DEF ImportInv, allVars, copyVars, feedVars, sendVars, importVars,
             ImportDomains, NothingNull, StreamsFile, FullInv, DeltaInv, Current, FileLoaded
<1> QED BY <1>1, <1>2, <1>3, <1>4 DEF Next

\* At every statement of an import, in either mode, the tables are as far as
\* the files and the statements already executed make them.
THEOREM ImportInvariant == Spec => []ImportInv
<1>1. Spec => Init /\ [][Next]_allVars
  BY PTL DEF Spec
<1> QED BY <1>1, InitImport, NextImport, PTL

\* Variables are in their domains; a table is a function from titles, so no
\* title has two rows, and no rating or episode has a NULL.
THEOREM ImportTypeCorrect == Spec => []ImportTypeOK
<1>1. ImportInv => ImportTypeOK
  BY DEF ImportInv, CopyInv, ImportDomains, NothingNull, ImportTypeOK
<1> QED BY <1>1, ImportInvariant, PTL

\* A COPY that returns without an error has put every record of the file into
\* the staging table, in order, for every file and every interleaving of the
\* scanner, the connection and the caller.
THEOREM CopyIsWhole == Spec => []CopiedIsWhole
<1>1. ImportInv => CopiedIsWhole
  BY CopiedFile DEF ImportInv, CopiedIsWhole
<1> QED BY <1>1, ImportInvariant, PTL

\* An import that reports success has made the live tables what the files say:
\* by new tables or row by row, for every batch size and every set of files
\* that has changed.
THEOREM ImportGivesTheFiles == Spec => []ImportedIsFile
<1>1. ImportInv => ImportedIsFile
  <2> SUFFICES ASSUME ImportInv, pc = "done" PROVE ImportedIsFile
    BY DEF ImportedIsFile
  <2>1. CASE mode = "full"
    BY <2>1, ThreeDatasets DEF ImportInv, FullInv, ImportedIsFile
  <2>2. CASE mode = "delta"
    BY <2>2, ThreeDatasets DEF ImportInv, DeltaInv, Current, ImportedIsFile
  <2> QED BY <2>1, <2>2 DEF ImportInv, ImportDomains
<1> QED BY <1>1, ImportInvariant, PTL

\* Tables are changed by COMMIT alone, each to what the files say.
NeverInBetween ==
    [][\A d \in Datasets : tables'[d] # tables[d] => tables'[d] = Imported(files)[d]]_tables

\* An import that fails, in either mode and at any statement, has left each live
\* table as it was or as the files say, never in between: a refresh commits once
\* and a delta when a dataset is done.
THEOREM FailuresLeaveWholeTables == Spec => NeverInBetween
<1>1. ASSUME ImportInv, [Next]_allVars, tables' # tables
      PROVE  \A d \in Datasets : tables'[d] # tables[d] => tables'[d] = Imported(files)[d]
  <2>1. Commit
    BY <1>1 DEF Next, CopyStep, Statement, StatementFails, Fail, Begin, Get, Staged,
       CopyFailed, Load, DenormalizeVotes, Truncate, Reload, Normalize, InsertBatch,
       UpdateBatch, DeleteBatch, Repeat, Finish, importVars, allVars
  <2>2. pc = "commit" /\ tables' = work
    BY <2>1 DEF Commit
  <2>3. CASE mode = "full"
    BY <1>1, <2>2, <2>3 DEF ImportInv, FullInv
  <2>4. CASE mode = "delta"
    BY <1>1, <2>2, <2>4 DEF ImportInv, DeltaInv
  <2> QED BY <1>1, <2>3, <2>4 DEF ImportInv, ImportDomains
<1>2. ImportInv /\ [Next]_allVars
         => [\A d \in Datasets : tables'[d] # tables[d]
                                     => tables'[d] = Imported(files)[d]]_tables
  BY <1>1
<1>3. Spec => [][Next]_allVars
  BY PTL DEF Spec
<1> QED BY <1>2, <1>3, ImportInvariant, PTL DEF NeverInBetween

=============================================================================
