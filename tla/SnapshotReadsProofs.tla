------------------------- MODULE SnapshotReadsProofs -------------------------
(***************************************************************************)
(* What SnapshotReads guarantees for every number of readers, and of       *)
(* workers where a theorem does not ask for one: a table that a statement  *)
(* has locked stays the live table until the statement has read it.        *)
(***************************************************************************)
EXTENDS SnapshotReads, SnapshotPublicationProofs

-----------------------------------------------------------------------------
(* The invariant of the readers *)

\* A lock keeps promotions away from the table it is on: what the name meant
\* when the lock was granted is still live, and no transaction has renamed it.
LocksHold ==
    \A r \in Readers : \A d \in Locked(r) :
        bound[r][d] = live[d] /\ \A w \in Workers : d \notin tx[w].moved

\* A request that executes a statement has a title left to resolve.
TitlesLeft == \A r \in Readers : stage[r] \in Stages => remaining[r] > 0

ReadsInv == SyncInv /\ OneSnapshot /\ ReadsTypeOK /\ TitlesLeft /\ LocksHold

-----------------------------------------------------------------------------
(* Statements and the tables they lock *)

LEMMA ThreeTables ==
    Datasets = {1, 2, 3} /\ Ratings = 1 /\ Episodes = 2 /\ Basics = 3
  BY ReadersAssumption DEF Datasets, Ratings, Episodes, Basics

LEMMA StatementTables ==
    ASSUME NEW s \in Stages
    PROVE  /\ DOMAIN TablesOf(s) \subseteq {1, 2}
           /\ \A i \in DOMAIN TablesOf(s) : TablesOf(s)[i] \in Datasets
<1>1. TablesOf(s) \in {<<1>>, <<2>>, <<2, 1>>, << >>, <<3>>}
  BY ThreeTables DEF Stages, TablesOf
<1> QED BY <1>1, ThreeTables

\* The table whose lock is asked for next is one the statement has not locked.
LEMMA NextTableType ==
    ASSUME NEW r \in Readers, Wanted(r) # {}
    PROVE  stage[r] \in Stages /\ NextTable(r) \in Datasets \ Locked(r)
<1>1. stage[r] \in Stages
  BY DEF Wanted
<1>2. Wanted(r) \subseteq {1, 2}
  BY <1>1, StatementTables DEF Wanted
<1>3. \E i \in Wanted(r) : \A j \in Wanted(r) : i <= j
  BY <1>2
<1>4. PICK i \in Wanted(r) : NextTable(r) = TablesOf(stage[r])[i]
  BY <1>3 DEF NextTable
<1> QED BY <1>1, <1>4, StatementTables DEF Wanted

LEMMA UnboundIsNoTable == Unbound \notin Tables
  BY BoundsAssumption DEF Unbound, Tables, Ids, NoTable

LEMMA NothingLocked ==
    /\ NoLocks \in [Datasets -> Tables \cup {Unbound}]
    /\ \A d \in Datasets : NoLocks[d] = Unbound
  BY DEF NoLocks

\* At most one row is active: the one whose tables are live.
LEMMA LatestActiveIs ==
    ASSUME ActiveIsLive
    PROVE  LatestActive \in {0} \cup {live[1]} /\ LatestActive \in Ids \cup {0}
<1>1. \A i \in ActiveRows : i = live[1] /\ i \in Ids
  BY DatasetFacts DEF ActiveIsLive, ActiveRows
<1>2. \A i \in Ids : i \in Nat /\ i > 0
  BY BoundsAssumption DEF Ids
<1>3. \E i \in ActiveRows \cup {0} : \A j \in ActiveRows : j <= i
  <2>1. CASE ActiveRows = {}
    BY <2>1
  <2>2. CASE ActiveRows # {}
    <3> PICK i \in ActiveRows : TRUE
      BY <2>2
    <3>1. \A j \in ActiveRows : j = i
      BY <1>1
    <3> QED BY <1>1, <1>2, <3>1
  <2> QED BY <2>1, <2>2
<1>4. LatestActive \in ActiveRows \cup {0}
  BY <1>3 DEF LatestActive
<1> QED BY <1>1, <1>4

LEMMA InitReads == ReadsInit => ReadsInv
<1> SUFFICES ASSUME ReadsInit PROVE ReadsInv
  OBVIOUS
<1>1. SyncInv
  BY InitSync DEF ReadsInit
<1>2. OneSnapshot
  BY DEF ReadsInit, Init, OneSnapshot, LiveUniform, SyncedSnapshotIsLive, Blank,
         NoSync, NoTable
<1>3. \A r \in Readers : Locked(r) = {} /\ stage[r] = "idle"
  BY NothingLocked DEF ReadsInit, Locked
<1>4. ReadsTypeOK
  BY <1>3, NothingLocked, ValueFacts, ReadersAssumption DEF ReadsInit, ReadsTypeOK
<1>5. TitlesLeft /\ LocksHold
  BY <1>3 DEF TitlesLeft, LocksHold, Stages
<1> QED BY <1>1, <1>2, <1>4, <1>5 DEF ReadsInv

-----------------------------------------------------------------------------
(* Steps of the worker *)

\* A live table that no transaction has renamed stays where it is; the step may
\* at most begin to rename it.
LEMMA WorkerMoves ==
    ASSUME TypeOK, LockInv, NEW w \in Workers, Step(w) \/ Failure(w),
           NEW d \in Datasets, \A v \in Workers : d \notin tx[v].moved
    PROVE  /\ live'[d] = live[d]
           /\ \/ \A v \in Workers : d \notin tx'[v].moved
              \/ pc[w] = "renameLive" /\ d = next[w]
<1>1. CASE Commit(w) \/ CommitReplyLost(w)
  <2>1. tx[w].moved = Datasets
    BY <1>1 DEF Commit, CommitReplyLost, LockInv, LoopShape, Promoting
  <2> QED BY <2>1
<1>2. CASE RenameLive(w)
  <2>1. pc[w] = "renameLive" /\ live' = live
    BY <1>2 DEF RenameLive, dbVars
  <2>2. /\ tx'[w].moved = tx[w].moved \cup {next[w]}
        /\ \A v \in Workers \ {w} : tx'[v] = tx[v]
    BY <1>2 DEF RenameLive, SetTx, TypeOK, TxType, Tx
  <2> QED BY <2>1, <2>2
<1>3. CASE DropPrevious(w) \/ PromoteShadow(w) \/ Deactivate(w) \/ Finalize(w)
             \/ RecordSync(w)
  <2>1. live' = live
    BY <1>3 DEF DropPrevious, PromoteShadow, Deactivate, Finalize, RecordSync, dbVars
  <2>2. /\ tx'[w].moved = tx[w].moved
        /\ \A v \in Workers \ {w} : tx'[v] = tx[v]
    BY <1>3 DEF DropPrevious, PromoteShadow, Deactivate, Finalize, RecordSync, SetTx,
                TypeOK, TxType, Tx
  <2> QED BY <2>1, <2>2
<1>4. CASE RenameConflict(w) \/ ImportFails(w) \/ Crash(w)
  <2>1. live' = live /\ tx' = [tx EXCEPT ![w] = NoTx]
    BY <1>4 DEF RenameConflict, ImportFails, Crash, Rollback, dbVars
  <2> QED BY <2>1, EmptyTx DEF TypeOK, TxType
<1>5. CASE live' = live /\ tx' = tx
  BY <1>5
<1>6. \/ Commit(w) \/ CommitReplyLost(w) \/ RenameLive(w) \/ DropPrevious(w)
      \/ PromoteShadow(w) \/ Deactivate(w) \/ Finalize(w) \/ RecordSync(w)
      \/ RenameConflict(w) \/ ImportFails(w) \/ Crash(w)
      \/ live' = live /\ tx' = tx
  BY DEF Step, Decide, Import, Finish, StartSync, FetchMetadata, Compare, Touch,
         LoadActive, CreateSnapshot, CopyDataset, CleanupPrevious, AnalyzeTable,
         MarkFailed, Failure, FetchMetadataBare, CleanupFails, AnalyzeFails,
         PassFails, dbVars
<1> QED BY <1>1, <1>2, <1>3, <1>4, <1>5, <1>6

LEMMA DatabaseSide ==
    ASSUME SyncInv, OneSnapshot, [Next]_vars
    PROVE  SyncInv' /\ OneSnapshot'
  BY NextType, NextLocks, NextRows, NextPublished DEF SyncInv

\* A step that leaves the readers alone asks nothing but that their locks hold.
LEMMA ReadersWait ==
    ASSUME ReadsInv, UNCHANGED readVars, SyncInv', OneSnapshot',
           \A r \in Readers : \A d \in Locked(r) :
               live'[d] = live[d] /\ \A v \in Workers : d \notin tx'[v].moved
    PROVE  ReadsInv'
<1>1. UNCHANGED <<stage, bound, remaining, latest, requests>>
  BY DEF readVars
<1>2. \A r \in Readers : Locked(r)' = Locked(r)
  BY <1>1 DEF Locked
<1>3. ReadsTypeOK' /\ TitlesLeft'
  BY <1>1, <1>2 DEF ReadsInv, ReadsTypeOK, TitlesLeft
<1>4. LocksHold'
  BY <1>1, <1>2 DEF ReadsInv, LocksHold
<1> QED BY <1>3, <1>4 DEF ReadsInv

LEMMA WorkerReads ==
    ASSUME ReadsInv, NEW w \in Workers, WorkerStep(w) \/ WorkerFailure(w)
    PROVE  ReadsInv'
<1>1. (Step(w) /\ Unread(w)) \/ Failure(w)
  BY DEF WorkerStep, WorkerFailure
<1>2. UNCHANGED readVars
  BY DEF WorkerStep, WorkerFailure
<1>3. SyncInv' /\ OneSnapshot'
  BY <1>1, DatabaseSide DEF Next, ReadsInv
<1>4. ASSUME NEW r \in Readers, NEW d \in Locked(r)
      PROVE  live'[d] = live[d] /\ \A v \in Workers : d \notin tx'[v].moved
  <2>1. d \in Datasets /\ \A v \in Workers : d \notin tx[v].moved
    BY DEF Locked, ReadsInv, LocksHold
  <2>2. CASE Failure(w)
    <3>1. live' = live /\ \A v \in Workers : tx'[v].moved \subseteq tx[v].moved
      <4>1. CASE CommitReplyLost(w)
        BY <2>1, <4>1 DEF CommitReplyLost, ReadsInv, SyncInv, LockInv, LoopShape, Promoting
      <4>2. CASE ImportFails(w) \/ Crash(w)
        BY <4>2, EmptyTx DEF ImportFails, Crash, Rollback, dbVars, ReadsInv, SyncInv,
                             TypeOK, TxType
      <4> QED BY <2>2, <4>1, <4>2 DEF Failure, FetchMetadataBare, CleanupFails,
                 AnalyzeFails, PassFails, dbVars
    <3> QED BY <2>1, <3>1
  <2>3. CASE Step(w) /\ Unread(w)
    <3>1. ~(pc[w] = "renameLive" /\ d = next[w])
      BY <2>3 DEF Unread
    <3> QED BY <2>1, <2>3, <3>1, WorkerMoves DEF ReadsInv, SyncInv
  <2> QED BY <1>1, <2>2, <2>3
<1> QED BY <1>2, <1>3, <1>4, ReadersWait

LEMMA UpstreamReads ==
    ASSUME ReadsInv, UpstreamStep \/ UNCHANGED allVars
    PROVE  ReadsInv'
<1>1. UNCHANGED readVars /\ UNCHANGED <<tx, live>> /\ [Next]_vars
  BY ReadersAssumption
     DEF UpstreamStep, Publish, allVars, vars, dbVars, workerVars, Next
<1>2. SyncInv' /\ OneSnapshot'
  BY <1>1, DatabaseSide DEF ReadsInv
<1>3. \A r \in Readers : \A d \in Locked(r) :
         live'[d] = live[d] /\ \A v \in Workers : d \notin tx'[v].moved
  BY <1>1 DEF ReadsInv, LocksHold
<1> QED BY <1>1, <1>2, <1>3, ReadersWait

-----------------------------------------------------------------------------
(* Steps of a reader *)

\* What a reader's step does to the other readers, and to the database: nothing.
LEMMA OneReader ==
    ASSUME ReadsInv, NEW r \in Readers, UNCHANGED vars,
           \A o \in Readers \ {r} :
               /\ stage'[o] = stage[o] /\ bound'[o] = bound[o]
               /\ remaining'[o] = remaining[o],
           ReadsTypeOK',
           stage'[r] \in Stages => remaining'[r] > 0,
           \A d \in Datasets : bound'[r][d] # Unbound =>
               bound'[r][d] = live[d] /\ \A w \in Workers : d \notin tx[w].moved
    PROVE  ReadsInv'
<1>1. SyncInv' /\ OneSnapshot'
  BY DatabaseSide DEF ReadsInv
<1>2. live' = live /\ tx' = tx
  BY DEF vars, dbVars, workerVars
<1>3. TitlesLeft'
  BY DEF TitlesLeft, ReadsInv
<1>4. LocksHold'
  BY <1>2 DEF LocksHold, Locked, ReadsInv
<1> QED BY <1>1, <1>3, <1>4 DEF ReadsInv

LEMMA StartRequestReads ==
    ASSUME ReadsInv, NEW r \in Readers, StartRequest(r)
    PROVE  ReadsInv'
<1>1. PICK s \in {"active", "plain", "rating"}, n \in 1..MaxIdentifiers :
         stage' = [stage EXCEPT ![r] = s] /\ remaining' = [remaining EXCEPT ![r] = n]
  BY DEF StartRequest
<1>2. /\ UNCHANGED <<vars, bound, latest>> /\ requests[r] < MaxRequests
      /\ requests' = [requests EXCEPT ![r] = @ + 1] /\ stage[r] = "idle"
  BY DEF StartRequest
<1>3. s \in Stages /\ n \in 0..MaxIdentifiers /\ n > 0
  BY ReadersAssumption DEF Stages
<1>4. requests[r] + 1 \in 0..MaxRequests
  BY <1>2, ReadersAssumption DEF ReadsInv, ReadsTypeOK
<1>5. ReadsTypeOK'
  <2>1. \A o \in Readers : Locked(o)' = Locked(o)
    BY <1>2 DEF Locked
  <2>2. \A o \in Readers : stage'[o] = stage[o] \/ stage'[o] \in Stages
    BY <1>1, <1>3 DEF ReadsInv, ReadsTypeOK
  <2> QED BY <1>1, <1>2, <1>3, <1>4, <2>1, <2>2 DEF ReadsInv, ReadsTypeOK
<1>6. \A d \in Datasets : bound'[r][d] = Unbound
  BY <1>2 DEF ReadsInv, ReadsTypeOK, Locked, Stages
<1> QED BY <1>1, <1>2, <1>3, <1>5, <1>6, OneReader DEF ReadsInv, ReadsTypeOK

LEMMA LockTableReads ==
    ASSUME ReadsInv, NEW r \in Readers, LockTable(r)
    PROVE  ReadsInv'
<1> DEFINE t == NextTable(r)
<1>1. stage[r] \in Stages /\ t \in Datasets
  BY NextTableType DEF LockTable
<1>2. /\ \A w \in Workers : t \notin tx[w].moved
      /\ bound' = [bound EXCEPT ![r][t] = live[t]]
      /\ UNCHANGED <<vars, stage, remaining, latest, requests>>
  BY DEF LockTable
<1>3. live[t] \in Tables
  BY <1>1 DEF ReadsInv, SyncInv, TypeOK, DbType
<1> HIDE DEF t
<1>4. /\ bound'[r] = [bound[r] EXCEPT ![t] = live[t]]
      /\ \A o \in Readers \ {r} : bound'[o] = bound[o]
      /\ bound' \in [Readers -> [Datasets -> Tables \cup {Unbound}]]
  BY <1>1, <1>2, <1>3 DEF ReadsInv, ReadsTypeOK
<1>5. ReadsTypeOK'
  <2>1. \A o \in Readers \ {r} : Locked(o)' = Locked(o)
    BY <1>4 DEF Locked
  <2> QED BY <1>1, <1>2, <1>4, <2>1 DEF ReadsInv, ReadsTypeOK
<1>6. \A d \in Datasets \ {t} : bound'[r][d] = bound[r][d]
  BY <1>4 DEF ReadsInv, ReadsTypeOK
<1>7. bound'[r][t] = live[t]
  BY <1>1, <1>4 DEF ReadsInv, ReadsTypeOK
<1>8. \A d \in Datasets : bound'[r][d] # Unbound =>
         bound'[r][d] = live[d] /\ \A w \in Workers : d \notin tx[w].moved
  BY <1>2, <1>6, <1>7 DEF ReadsInv, LocksHold, Locked
<1> QED BY <1>2, <1>4, <1>5, <1>8, OneReader DEF ReadsInv, TitlesLeft

\* A reader that releases its locks, and stands at a statement only with a title
\* left to resolve.
LEMMA ReleasingReads ==
    ASSUME ReadsInv, NEW r \in Readers, ReleaseLocks(r), UNCHANGED <<vars, requests>>,
           NEW s \in Stages \cup {"answered", "failed"},
           stage' = [stage EXCEPT ![r] = s],
           NEW n \in 0..MaxIdentifiers, remaining' = [remaining EXCEPT ![r] = n],
           s \in Stages => n > 0,
           NEW id \in Tables, latest' = [latest EXCEPT ![r] = id]
    PROVE  ReadsInv'
<1>1. /\ bound'[r] = NoLocks /\ \A o \in Readers \ {r} : bound'[o] = bound[o]
      /\ bound' \in [Readers -> [Datasets -> Tables \cup {Unbound}]]
  BY NothingLocked DEF ReleaseLocks, ReadsInv, ReadsTypeOK
<1>2. ReadsTypeOK'
  <2>1. /\ Locked(r)' = {}
        /\ \A o \in Readers \ {r} : Locked(o)' = Locked(o)
    BY <1>1, NothingLocked DEF Locked
  <2>2. /\ stage' \in [Readers -> Stages \cup {"idle", "answered", "failed"}]
        /\ remaining' \in [Readers -> 0..MaxIdentifiers]
        /\ latest' \in [Readers -> Tables]
        /\ requests' \in [Readers -> 0..MaxRequests]
        /\ \A o \in Readers \ {r} : stage'[o] = stage[o]
    BY DEF ReadsInv, ReadsTypeOK
  <2> QED BY <1>1, <2>1, <2>2 DEF ReadsInv, ReadsTypeOK
<1>3. \A d \in Datasets : bound'[r][d] = Unbound
  BY <1>1, NothingLocked
<1> QED BY <1>1, <1>2, <1>3, OneReader DEF ReadsInv, ReadsTypeOK

\* What a statement reads is a snapshot's id, or the empty table's.
LEMMA ReadsTables ==
    ASSUME ReadsInv, NEW r \in Readers, NEW id \in Reads(r)
    PROVE  id \in Tables
<1>1. CASE stage[r] = "active"
  BY <1>1, LatestActiveIs, ValueFacts DEF Reads, ReadsInv, SyncInv, RowInv
<1>2. CASE stage[r] # "active"
  BY <1>2 DEF Reads, Locked, ReadsInv, ReadsTypeOK
<1> QED BY <1>1, <1>2

LEMMA RunStatementReads ==
    ASSUME ReadsInv, NEW r \in Readers, RunStatement(r)
    PROVE  ReadsInv'
<1>1. /\ stage[r] \in Stages /\ remaining[r] \in 0..MaxIdentifiers /\ remaining[r] > 0
      /\ ReleaseLocks(r) /\ UNCHANGED <<vars, requests>>
  BY DEF RunStatement, ReadsInv, ReadsTypeOK, TitlesLeft
<1>2. PICK id \in Reads(r) : latest' = [latest EXCEPT ![r] = id]
  BY DEF RunStatement
<1>3. id \in Tables
  BY ReadsTables
<1>4. UNCHANGED remaining => remaining' = [remaining EXCEPT ![r] = remaining[r]]
  BY DEF ReadsInv, ReadsTypeOK
<1>5. PICK c \in Continuations(stage[r]) :
         IF c = "answered"
         THEN NextTitle(r, IF stage[r] = "plain" THEN "plain" ELSE "rating")
         ELSE stage' = [stage EXCEPT ![r] = c] /\ UNCHANGED remaining
  BY DEF RunStatement
<1>6. c \in Stages \cup {"answered"}
  BY <1>1, <1>5 DEF Continuations, Stages
<1>7. CASE c # "answered"
  BY <1>1, <1>2, <1>3, <1>4, <1>5, <1>6, <1>7, ReleasingReads
<1>8. CASE c = "answered" /\ remaining[r] = 1
  <2>1. stage' = [stage EXCEPT ![r] = "answered"] /\ UNCHANGED remaining
    BY <1>5, <1>8 DEF NextTitle
  <2>2. "answered" \notin Stages
    BY DEF Stages
  <2> QED BY <1>1, <1>2, <1>3, <1>4, <2>1, <2>2, ReleasingReads
<1>9. CASE c = "answered" /\ remaining[r] # 1
  <2>1. PICK s \in {"plain", "rating"} : stage' = [stage EXCEPT ![r] = s]
    BY <1>5, <1>9 DEF NextTitle
  <2>2. remaining' = [remaining EXCEPT ![r] = remaining[r] - 1]
    BY <1>5, <1>9 DEF NextTitle
  <2>3. remaining[r] - 1 \in 0..MaxIdentifiers /\ remaining[r] - 1 > 0 /\ s \in Stages
    BY <1>1, <1>9, ReadersAssumption DEF Stages
  <2> QED BY <1>1, <1>2, <1>3, <2>1, <2>2, <2>3, ReleasingReads
<1> QED BY <1>7, <1>8, <1>9

LEMMA RespondReads ==
    ASSUME ReadsInv, NEW r \in Readers, Respond(r)
    PROVE  ReadsInv'
<1>1. /\ stage[r] \notin Stages /\ "idle" \notin Stages
      /\ stage' = [stage EXCEPT ![r] = "idle"]
      /\ remaining' = [remaining EXCEPT ![r] = 0]
      /\ latest' = [latest EXCEPT ![r] = 0]
      /\ UNCHANGED <<vars, bound, requests>>
  BY DEF Respond, Stages
<1>2. ReadsTypeOK'
  <2>1. \A o \in Readers : Locked(o)' = Locked(o)
    BY <1>1 DEF Locked
  <2>2. \A o \in Readers : stage'[o] \notin Stages => stage[o] \notin Stages
    BY <1>1 DEF ReadsInv, ReadsTypeOK
  <2>3. 0 \in 0..MaxIdentifiers /\ 0 \in Tables
    BY ReadersAssumption, ValueFacts
  <2> QED BY <1>1, <2>1, <2>2, <2>3 DEF ReadsInv, ReadsTypeOK
<1>3. \A d \in Datasets : bound'[r][d] = Unbound
  BY <1>1 DEF ReadsInv, ReadsTypeOK, Locked
<1>4. stage'[r] = "idle"
  BY <1>1 DEF ReadsInv, ReadsTypeOK
<1> QED BY <1>1, <1>2, <1>3, <1>4, OneReader DEF ReadsInv, ReadsTypeOK

-----------------------------------------------------------------------------
(* The deadlock detector *)

LEMMA GiveUpReads ==
    ASSUME ReadsInv, NEW r \in Readers, GiveUp(r)
    PROVE  ReadsInv'
<1>1. /\ stage' = [stage EXCEPT ![r] = "failed"] /\ ReleaseLocks(r)
      /\ UNCHANGED <<vars, remaining, latest, requests>> /\ "failed" \notin Stages
  BY DEF GiveUp, Stages
<1>2. /\ remaining' = [remaining EXCEPT ![r] = remaining[r]]
      /\ latest' = [latest EXCEPT ![r] = latest[r]]
      /\ remaining[r] \in 0..MaxIdentifiers /\ latest[r] \in Tables
  BY <1>1 DEF ReadsInv, ReadsTypeOK
<1> QED BY <1>1, <1>2, ReleasingReads

\* For the tables and rows, a promotion chosen as the victim is one that fails.
LEMMA RolledBack ==
    ASSUME SyncInv, OneSnapshot, NEW w \in Workers, pc[w] = "renameLive", Rollback(w),
           UNCHANGED <<envVars, dbVars, remote, snap, baseline, fetched>>
    PROVE  SyncInv' /\ OneSnapshot'
<1>1. TypeOK /\ LockInv /\ RowInv
  BY DEF SyncInv
<1>2. tx' = [tx EXCEPT ![w] = NoTx] /\ Goto(w, "markFailed")
  BY DEF Rollback
<1>3. TypeOK'
  <2>1. EnvType' BY <1>1 DEF TypeOK, EnvType, envVars
  <2>2. DbType' BY <1>1 DEF TypeOK, DbType, dbVars
  <2>3. ControlType' BY <1>1, <1>2, GotoType, LabelNames DEF TypeOK
  <2>4. LocalType' BY <1>1 DEF TypeOK, LocalType
  <2>5. TxType' BY <1>1, <1>2, ValueFacts DEF TypeOK, TxType
  <2>6. SnapKnown'
    BY <1>1, <1>2 DEF TypeOK, SnapKnown, ControlType, Goto, InTx, Filling
  <2> QED BY <2>1, <2>2, <2>3, <2>4, <2>5, <2>6 DEF TypeOK
<1>4. /\ pc'[w] = "markFailed" /\ "markFailed" \in Loose
      /\ \A o \in Workers \ {w} : pc'[o] = pc[o] /\ next'[o] = next[o]
      /\ \A o \in Workers \ {w} : tx'[o] = tx[o]
  BY <1>1, <1>2, LooseLabels DEF Goto, TypeOK, ControlType, TxType
<1>5. LockInv'
  BY <1>1, <1>2, <1>4, RollbackShape
<1>6. RowsKept /\ DeactivationKept
  BY <1>1, <1>4 DEF RowsKept, DeactivationKept, Final, dbVars
<1>7. RowInv'
  BY <1>1, <1>6, QuietRows
<1>8. OneSnapshot'
  BY DEF OneSnapshot, LiveUniform, SyncedSnapshotIsLive, dbVars
<1> QED BY <1>3, <1>5, <1>7, <1>8 DEF SyncInv

\* The readers that were queued behind the victim get the table it had renamed,
\* which nobody else can have renamed.
LEMMA AbortPromotionReads ==
    ASSUME ReadsInv, NEW w \in Workers, AbortPromotion(w)
    PROVE  ReadsInv'
<1>1. /\ Rollback(w) /\ pc[w] = "renameLive"
      /\ UNCHANGED <<envVars, dbVars, remote, snap, baseline, fetched, stage,
                     remaining, latest, requests>>
      /\ bound' = [r \in Readers |->
            IF Deadlocked(w, r)
            THEN [bound[r] EXCEPT ![NextTable(r)] = live[NextTable(r)]]
            ELSE bound[r]]
  BY DEF AbortPromotion, Deadlocked
<1>2. SyncInv' /\ OneSnapshot'
  BY <1>1, RolledBack DEF ReadsInv
<1>3. /\ live' = live /\ tx'[w].moved = {}
      /\ \A o \in Workers \ {w} : tx'[o] = tx[o]
  BY <1>1, EmptyTx DEF Rollback, dbVars, ReadsInv, SyncInv, TypeOK, TxType
<1>4. ASSUME NEW r \in Readers, Deadlocked(w, r)
      PROVE  /\ stage[r] \in Stages /\ bound'[r] \in [Datasets -> Tables \cup {Unbound}]
             /\ \A d \in Locked(r)' :
                   bound'[r][d] = live[d] /\ \A o \in Workers : d \notin tx'[o].moved
  <2>1. /\ Wanted(r) # {} /\ NextTable(r) \in tx[w].moved
    BY <1>4 DEF Deadlocked
  <2>2. stage[r] \in Stages /\ NextTable(r) \in Datasets
    BY <2>1, NextTableType
  <2> PICK t \in Datasets : t = NextTable(r)
    BY <2>2
  <2>3. bound'[r] = [bound[r] EXCEPT ![t] = live[t]] /\ live[t] \in Tables
    BY <1>1, <1>4 DEF ReadsInv, SyncInv, TypeOK, DbType
  <2>4. /\ bound[r] \in [Datasets -> Tables \cup {Unbound}]
        /\ \A d \in Locked(r) :
               bound[r][d] = live[d] /\ \A o \in Workers : d \notin tx[o].moved
    BY DEF ReadsInv, ReadsTypeOK, LocksHold
  <2>5. /\ bound'[r][t] = live[t]
        /\ \A d \in Datasets \ {t} : bound'[r][d] = bound[r][d]
    BY <2>3, <2>4
  <2>6. \A o \in Workers : t \notin tx'[o].moved
    BY <1>3, <2>1 DEF ReadsInv, SyncInv, LockInv, LocksDisjoint
  <2>7. ASSUME NEW d \in Locked(r)', d # t
        PROVE  bound'[r][d] = live[d] /\ \A o \in Workers : d \notin tx'[o].moved
    <3>1. d \in Locked(r)
      BY <2>5, <2>7 DEF Locked
    <3> QED BY <1>3, <2>4, <2>5, <2>7, <3>1 DEF Locked
  <2> QED BY <2>2, <2>3, <2>4, <2>5, <2>6, <2>7
<1>5. ASSUME NEW r \in Readers, ~Deadlocked(w, r)
      PROVE  /\ bound'[r] = bound[r] /\ Locked(r)' = Locked(r)
             /\ \A d \in Locked(r)' :
                   bound'[r][d] = live[d] /\ \A o \in Workers : d \notin tx'[o].moved
  <2>1. bound'[r] = bound[r]
    BY <1>1, <1>5
  <2>2. Locked(r)' = Locked(r)
    BY <2>1 DEF Locked
  <2>3. \A d \in Locked(r) :
           bound[r][d] = live[d] /\ \A o \in Workers : d \notin tx[o].moved
    BY DEF ReadsInv, LocksHold
  <2>4. \A o \in Workers : tx'[o].moved \subseteq tx[o].moved
    BY <1>3
  <2> QED BY <2>1, <2>2, <2>3, <2>4
<1>6. ReadsTypeOK'
  <2>1. bound' \in [Readers -> [Datasets -> Tables \cup {Unbound}]]
    <3>1. \A r \in Readers : bound'[r] \in [Datasets -> Tables \cup {Unbound}]
      BY <1>4, <1>5 DEF ReadsInv, ReadsTypeOK
    <3> QED BY <1>1, <3>1
  <2>2. \A r \in Readers : stage[r] \notin Stages => Locked(r)' = {}
    BY <1>4, <1>5 DEF ReadsInv, ReadsTypeOK
  <2> QED BY <1>1, <2>1, <2>2 DEF ReadsInv, ReadsTypeOK
<1>7. TitlesLeft'
  BY <1>1 DEF ReadsInv, TitlesLeft
<1>8. LocksHold'
  BY <1>3, <1>4, <1>5 DEF LocksHold
<1> QED BY <1>2, <1>6, <1>7, <1>8 DEF ReadsInv

-----------------------------------------------------------------------------
(* The theorems *)

LEMMA NextReads == ReadsInv /\ [ReadsNext]_allVars => ReadsInv'
<1> SUFFICES ASSUME ReadsInv, [ReadsNext]_allVars PROVE ReadsInv'
  OBVIOUS
<1> QED BY WorkerReads, UpstreamReads, StartRequestReads, LockTableReads,
           RunStatementReads, RespondReads, GiveUpReads, AbortPromotionReads
        DEF ReadsNext, ReaderStep, StatementFails, AbortReader, DeadlockDetector

\* Whatever the interleaving of the queries, the promotions and the deadlock
\* detector, a table a statement has locked is still the live one.
THEOREM ReadsInvariant == ReadsSpec => []ReadsInv
<1>1. ReadsSpec => ReadsInit /\ [][ReadsNext]_allVars
  BY PTL DEF ReadsSpec
<1> QED BY <1>1, InitReads, NextReads, PTL

\* Readers are at known statements, and hold locks only while they execute one.
THEOREM ReadsTypeCorrect == ReadsSpec => []ReadsTypeOK
<1>1. ReadsInv => ReadsTypeOK BY DEF ReadsInv
<1> QED BY <1>1, ReadsInvariant, PTL

\* A statement that joins two tables never combines two snapshots, for any
\* number of readers and of workers that promote.
THEOREM JoinsAreUniform == ReadsSpec => []JoinIsUniform
<1>1. ReadsInv => JoinIsUniform
  BY DEF ReadsInv, LocksHold, Locked, OneSnapshot, LiveUniform, JoinIsUniform
<1> QED BY <1>1, ReadsInvariant, PTL

-----------------------------------------------------------------------------
(* Publication beside readers *)

\* The deadlock detector's rollback is the one step of the database that
\* SnapshotSync does not have.
LEMMA DatabaseSteps ==
    ASSUME [ReadsNext]_allVars
    PROVE  [Next]_vars \/ \E w \in Workers : AbortPromotion(w)
<1>1. ASSUME NEW w \in Workers, WorkerStep(w) \/ WorkerFailure(w) PROVE Next
  BY <1>1 DEF WorkerStep, WorkerFailure, Next
<1>2. UpstreamStep => Next
  BY ReadersAssumption DEF UpstreamStep, Next
<1>3. (\E r \in Readers : ReaderStep(r) \/ GiveUp(r)) \/ UNCHANGED allVars
         => UNCHANGED vars
  BY DEF ReaderStep, StartRequest, LockTable, RunStatement, Respond, GiveUp, allVars
<1> QED BY <1>1, <1>2, <1>3 DEF ReadsNext, StatementFails, AbortReader, DeadlockDetector

LEMMA AbortPromotionUnseen ==
    ASSUME ReadsInv, RowLife, NEW w \in Workers, AbortPromotion(w)
    PROVE  RowLife' /\ UNCHANGED Publication!pubVars
<1>1. UNCHANGED <<rows, nextId, live, sync, snap>> /\ Goto(w, "markFailed")
  BY DEF AbortPromotion, Rollback, dbVars
<1>2. \A v \in Workers : pc'[v] \in InTx => pc[v] \in InTx /\ v # w
  BY <1>1 DEF Goto, InTx, Filling, ReadsInv, SyncInv, TypeOK, ControlType
<1>3. LifeQuiet
  BY <1>1, <1>2 DEF LifeQuiet
<1> QED BY <1>1, <1>3, QuietLife, SamePublication DEF ReadsInv, SyncInv

\* Beside any number of readers, whose locks delay the promotions and whose
\* deadlocks abort them, the passes still implement the atomic replacement of
\* one served snapshot by the next.
THEOREM PublicationBesideReaders == ReadsSpec => PublicationSpec
<1>1. ReadsSpec => ReadsInit /\ [][ReadsNext]_allVars
  BY PTL DEF ReadsSpec
<1>2. ReadsInit => RowLife /\ Publication!Init
  BY InitPubInv, InitPublication DEF ReadsInit, PubInv
<1>3. ReadsInv /\ RowLife /\ [ReadsNext]_allVars => RowLife'
  BY DatabaseSteps, AbortPromotionUnseen, NextLife DEF ReadsInv, SyncInv
<1>4. ReadsInv /\ ReadsInv' /\ RowLife /\ RowLife' /\ [ReadsNext]_allVars
         => [Publication!Next]_(Publication!pubVars)
  BY DatabaseSteps, AbortPromotionUnseen, NextPublication
     DEF ReadsInv, PubInv, OneSnapshot
<1> QED BY <1>1, <1>2, <1>3, <1>4, ReadsInvariant, PTL
        DEF PublicationSpec, Publication!Spec

-----------------------------------------------------------------------------
(* One worker: what is read later is not older *)

\* What a pass is about to publish is newer than everything published before.
Ahead ==
    /\ \A d \in Datasets : live[d] < nextId
    /\ \A w \in Workers : pc[w] \in InTx =>
          snap[w] < nextId /\ \A d \in Datasets : live[d] < snap[w]

\* A request has read nothing newer than what is live, and nothing at all
\* before its first statement.
NotBeyondLive ==
    \A r \in Readers : /\ latest[r] <= live[1]
                       /\ stage[r] \in {"idle", "active"} => latest[r] = 0

LEMMA IdsAreNumbers ==
    ASSUME SyncInv
    PROVE  /\ \A d \in Datasets : live[d] \in Int
           /\ nextId \in Int /\ \A w \in Workers : snap[w] \in Int
  BY BoundsAssumption DEF SyncInv, TypeOK, DbType, LocalType, Tables, Ids, NoTable

\* Steps of the worker that publish nothing and get no row.
LEMMA AheadKept ==
    ASSUME Ahead, UNCHANGED <<live, nextId>>,
           \A w \in Workers : pc'[w] \in InTx => pc[w] \in InTx /\ snap'[w] = snap[w]
    PROVE  Ahead'
  BY DEF Ahead

LEMMA AheadStep ==
    ASSUME SyncInv, Ahead, NEW w, Workers = {w}, Step(w) \/ Failure(w)
    PROVE  Ahead' /\ \A d \in Datasets : live[d] <= live'[d]
<1>1. \A d \in Datasets : live[d] \in Int /\ live[d] <= live[d]
  BY IdsAreNumbers
<1>2. CASE CreateSnapshot(w)
  <2>1. /\ live' = live /\ nextId' = nextId + 1 /\ snap'[w] = nextId
    BY <1>2 DEF CreateSnapshot, SyncInv, TypeOK, LocalType
  <2> QED BY <1>1, <2>1, IdsAreNumbers DEF Ahead
<1>3. CASE Commit(w) \/ CommitReplyLost(w)
  <2>1. /\ pc[w] = "commit" /\ ApplyTx(w) /\ snap' = snap /\ pc'[w] \notin InTx
    BY <1>3 DEF Commit, CommitReplyLost, Goto, SyncInv, TypeOK, ControlType, InTx, Filling
  <2>2. \A d \in Datasets : live'[d] = snap[w] /\ nextId' = nextId
    BY <2>1 DEF ApplyTx, SyncInv, LockInv, LoopShape, Placed
  <2>3. snap[w] < nextId /\ \A d \in Datasets : live[d] < snap[w]
    BY <2>1 DEF Ahead, InTx
  <2> QED BY <2>1, <2>2, <2>3, IdsAreNumbers DEF Ahead
<1>4. CASE StartSync(w) \/ FetchMetadata(w) \/ Compare(w) \/ Touch(w) \/ LoadActive(w)
            \/ CleanupPrevious(w) \/ AnalyzeTable(w) \/ MarkFailed(w)
            \/ RenameConflict(w) \/ FetchMetadataBare(w) \/ CleanupFails(w)
            \/ AnalyzeFails(w) \/ PassFails(w) \/ ImportFails(w) \/ Crash(w)
  <2> USE DEF StartSync, FetchMetadata, Compare, Touch, LoadActive, CleanupPrevious,
              AnalyzeTable, MarkFailed, RenameConflict, FetchMetadataBare,
              CleanupFails, AnalyzeFails, PassFails, ImportFails, Crash
  <2>1. UNCHANGED <<live, nextId>>
    BY <1>4 DEF dbVars
  <2>2. pc'[w] \notin InTx
    BY <1>4 DEF Goto, Advance, Return, Rollback, SyncInv, TypeOK, ControlType, InTx, Filling
  <2> QED BY <1>1, <2>1, <2>2, AheadKept
<1>5. CASE CopyDataset(w) \/ DropPrevious(w) \/ RenameLive(w) \/ PromoteShadow(w)
            \/ Deactivate(w) \/ Finalize(w) \/ RecordSync(w)
  <2>1. UNCHANGED <<live, nextId, snap>> /\ pc[w] \in InTx
    BY <1>5 DEF CopyDataset, DropPrevious, RenameLive, PromoteShadow, Deactivate,
                Finalize, RecordSync, dbVars, InTx, Filling
  <2> QED BY <1>1, <2>1, AheadKept
<1> QED BY <1>2, <1>3, <1>4, <1>5 DEF Step, Decide, Import, Finish, Failure

\* Every step keeps the worker ahead and the live tables no older.
LEMMA NextAhead ==
    ASSUME ReadsInv, Ahead, [ReadsNext]_allVars, NEW w, Workers = {w}
    PROVE  Ahead' /\ \A d \in Datasets : live[d] <= live'[d]
<1>1. SyncInv /\ \A d \in Datasets : live[d] <= live[d]
  BY IdsAreNumbers DEF ReadsInv
<1>2. CASE WorkerStep(w) \/ WorkerFailure(w)
  BY <1>1, <1>2, AheadStep DEF WorkerStep, WorkerFailure
<1>3. CASE AbortPromotion(w)
  <2>1. UNCHANGED <<live, nextId>> /\ pc'[w] \notin InTx
    BY <1>1, <1>3 DEF AbortPromotion, Rollback, Goto, dbVars, SyncInv, TypeOK,
                      ControlType, InTx, Filling
  <2> QED BY <1>1, <2>1, AheadKept
<1>4. CASE UNCHANGED <<live, nextId, pc, snap>>
  BY <1>1, <1>4, AheadKept
<1>5. UpstreamStep \/ UNCHANGED allVars \/ (\E r \in Readers : ReaderStep(r) \/ GiveUp(r))
         => UNCHANGED <<live, nextId, pc, snap>>
  BY DEF UpstreamStep, Publish, ReaderStep, StartRequest, LockTable, RunStatement,
         Respond, GiveUp, allVars, vars, dbVars, workerVars
<1> QED BY <1>2, <1>3, <1>4, <1>5
        DEF ReadsNext, StatementFails, AbortReader, DeadlockDetector

\* What a statement reads is live, or the id of the active row, which is.
LEMMA StatementReads ==
    ASSUME ReadsInv, NotBeyondLive, NEW r \in Readers, NEW id \in Reads(r)
    PROVE  id <= live[1] /\ latest[r] <= id
<1>1. live[1] \in Int /\ live[1] >= 0
  <2>1. live[1] \in Tables /\ live[1] # NoTable
    BY DatasetFacts DEF ReadsInv, SyncInv, TypeOK, DbType, OneSnapshot, LiveUniform
  <2> QED BY <2>1, BoundsAssumption DEF Tables, Ids
<1>2. CASE stage[r] = "active"
  <2>1. id \in {0} \cup {live[1]}
    BY <1>2, LatestActiveIs DEF Reads, ReadsInv, SyncInv, RowInv
  <2>2. latest[r] = 0
    BY <1>2 DEF NotBeyondLive
  <2> QED BY <1>1, <2>1, <2>2
<1>3. CASE stage[r] # "active"
  <2>1. PICK d \in Locked(r) : id = bound[r][d]
    BY <1>3 DEF Reads
  <2>2. bound[r][d] = live[d] /\ d \in Datasets
    BY DEF ReadsInv, LocksHold, Locked
  <2>3. live[d] = live[1]
    BY <2>2, DatasetFacts DEF ReadsInv, OneSnapshot, LiveUniform
  <2> QED BY <1>1, <2>1, <2>2, <2>3 DEF NotBeyondLive
<1> QED BY <1>2, <1>3

\* A step of a reader or of the database keeps NotBeyondLive, and what a request
\* that goes on has read is no older than before.
LEMMA NextReadIsNewer ==
    ASSUME ReadsInv, ReadsInv', Ahead, NotBeyondLive, [ReadsNext]_allVars,
           NEW w, Workers = {w}
    PROVE  /\ NotBeyondLive'
           /\ \A r \in Readers : stage'[r] # "idle" => latest'[r] >= latest[r]
<1>1. live[1] \in Int /\ live'[1] \in Int /\ live[1] <= live'[1] /\ live'[1] >= 0
  <2>1. /\ 1 \in Datasets /\ live'[1] \in Tables /\ live'[1] # NoTable
    BY DatasetFacts DEF ReadsInv, SyncInv, TypeOK, DbType, OneSnapshot, LiveUniform
  <2>2. live'[1] \in Int /\ live'[1] >= 0
    BY <2>1, BoundsAssumption DEF Tables, Ids
  <2> QED BY <2>1, <2>2, NextAhead, IdsAreNumbers DEF ReadsInv
<1>2. \A r \in Readers : latest[r] \in Int /\ latest[r] >= latest[r]
  BY BoundsAssumption DEF ReadsInv, ReadsTypeOK, Tables, Ids, NoTable
<1>3. ASSUME NEW r \in Readers, StartRequest(r) \/ LockTable(r)
      PROVE  /\ UNCHANGED latest
             /\ \A o \in Readers : stage'[o] \in {"idle", "active"}
                                      => stage[o] \in {"idle", "active"}
  BY <1>3 DEF StartRequest, LockTable, ReadsInv, ReadsTypeOK
<1>4. ASSUME NEW r \in Readers, RunStatement(r)
      PROVE  /\ \A o \in Readers \ {r} : latest'[o] = latest[o] /\ stage'[o] = stage[o]
             /\ stage'[r] \notin {"idle", "active"}
             /\ latest'[r] \in Reads(r)
  <2>1. PICK id \in Reads(r) : latest' = [latest EXCEPT ![r] = id]
    BY <1>4 DEF RunStatement
  <2>2. PICK s : stage' = [stage EXCEPT ![r] = s] /\ s \notin {"idle", "active"}
    BY <1>4 DEF RunStatement, NextTitle, Continuations, Stages
  <2> QED BY <2>1, <2>2 DEF ReadsInv, ReadsTypeOK
<1>5. ASSUME NEW r \in Readers, Respond(r)
      PROVE  /\ \A o \in Readers \ {r} : latest'[o] = latest[o] /\ stage'[o] = stage[o]
             /\ stage'[r] = "idle" /\ latest'[r] = 0
  BY <1>5 DEF Respond, ReadsInv, ReadsTypeOK
<1>6. ASSUME NEW r \in Readers, GiveUp(r)
      PROVE  /\ UNCHANGED latest
             /\ \A o \in Readers : stage'[o] \in {"idle", "active"}
                                      => stage[o] \in {"idle", "active"}
  BY <1>6 DEF GiveUp, ReadsInv, ReadsTypeOK
<1>7. (\E v \in Workers : WorkerStep(v) \/ WorkerFailure(v) \/ AbortPromotion(v))
        \/ UpstreamStep \/ UNCHANGED allVars
         => UNCHANGED <<stage, latest>>
  BY DEF WorkerStep, WorkerFailure, AbortPromotion, UpstreamStep, allVars, readVars
<1>8. CASE /\ UNCHANGED latest
           /\ \A o \in Readers : stage'[o] \in {"idle", "active"}
                                    => stage[o] \in {"idle", "active"}
  BY <1>1, <1>2, <1>8 DEF NotBeyondLive
<1>9. CASE \E r \in Readers : RunStatement(r)
  <2> PICK r \in Readers : RunStatement(r)
    BY <1>9
  <2>1. /\ latest'[r] <= live[1] /\ latest[r] <= latest'[r]
    BY <1>4, StatementReads
  <2>2. latest'[r] \in Int
    BY BoundsAssumption DEF ReadsInv, ReadsTypeOK, Tables, Ids, NoTable
  <2> QED BY <1>1, <1>2, <1>4, <2>1, <2>2 DEF NotBeyondLive
<1>10. CASE \E r \in Readers : Respond(r)
  BY <1>1, <1>2, <1>5, <1>10 DEF NotBeyondLive
<1> QED BY <1>3, <1>6, <1>7, <1>8, <1>9, <1>10
        DEF ReadsNext, ReaderStep, StatementFails, AbortReader, DeadlockDetector

LEMMA InitAhead == ReadsInit => Ahead /\ NotBeyondLive
  BY DatasetFacts DEF ReadsInit, Init, Ahead, NotBeyondLive, Blank, InTx, Filling

\* With one worker, a request never reads rows older than those its earlier
\* statements have read, although no transaction spans the statements.
THEOREM ReadsGoForward ==
    ASSUME NEW w, Workers = {w}
    PROVE  ReadsSpec => ReadsNeverGoBack
<1>1. ReadsSpec => ReadsInit /\ [][ReadsNext]_allVars
  BY PTL DEF ReadsSpec
<1>2. ReadsInv /\ ReadsInv' /\ Ahead /\ NotBeyondLive /\ [ReadsNext]_allVars
         => Ahead' /\ NotBeyondLive'
  BY NextAhead, NextReadIsNewer
<1>3. ReadsInv /\ ReadsInv' /\ Ahead /\ NotBeyondLive /\ [ReadsNext]_allVars
         => [\A r \in Readers : stage'[r] # "idle" => latest'[r] >= latest[r]]_readVars
  BY NextReadIsNewer
<1> QED BY <1>1, <1>2, <1>3, InitAhead, ReadsInvariant, PTL DEF ReadsNeverGoBack

\* A promotion the deadlock detector aborts has published and recorded nothing.
LEMMA AbortPromotionFresh ==
    ASSUME SyncInv, SyncInv', FreshInv, NEW w, Workers = {w}, AbortPromotion(w)
    PROVE  FreshInv' /\ data' = data
<1>1. UNCHANGED <<upstream, data, sync, remote, fetched>> /\ Goto(w, "markFailed")
  BY DEF AbortPromotion, Rollback, dbVars, envVars
<1>2. pc'[w] = "markFailed" /\ "markFailed" \notin InTx
  BY <1>1 DEF Goto, SyncInv, TypeOK, ControlType, InTx, Filling
<1>3. \A d \in Datasets : upstream[d] <= upstream'[d]
  BY <1>1 DEF SyncInv, TypeOK, EnvType, Versions
<1>4. Steady(w)
  BY <1>1, <1>2, <1>3 DEF Steady, Copied
<1> QED BY <1>1, <1>4, SteadyFresh DEF SyncInv

\* What NoUpdateIsMissed and ServedDataNeverOlder say of the worker, it keeps when
\* queries delay its promotions and deadlocks abort them.
THEOREM UpdatesBesideReaders ==
    ASSUME NEW w, Workers = {w}, MaxDbCrashes = 0
    PROVE  ReadsSpec => []NoMissedUpdate /\ NeverOlder
<1>1. ReadsSpec => ReadsInit /\ [][ReadsNext]_allVars
  BY PTL DEF ReadsSpec
<1>2. ReadsInit => FreshInv
  BY InitFresh DEF ReadsInit
<1>3. ASSUME ReadsInv, ReadsInv', FreshInv, [ReadsNext]_allVars
      PROVE  FreshInv' /\ \A d \in Datasets : data'[d] >= data[d]
  <2>1. \A d \in Datasets : data[d] \in Int /\ data'[d] \in Int
    BY <1>3 DEF ReadsInv, SyncInv, TypeOK, DbType, Versions
  <2>2. CASE [Next]_vars
    BY <1>3, <2>1, <2>2, NextFresh DEF ReadsInv, SyncInv
  <2>3. CASE AbortPromotion(w)
    BY <1>3, <2>1, <2>3, AbortPromotionFresh DEF ReadsInv
  <2> QED BY <1>3, <2>2, <2>3, DatabaseSteps
<1>4. ReadsInv /\ ReadsInv' /\ FreshInv /\ [ReadsNext]_allVars
         => FreshInv' /\ [\A d \in Datasets : data'[d] >= data[d]]_vars
  BY <1>3
<1>5. FreshInv => NoMissedUpdate
  BY DEF FreshInv
<1> QED BY <1>1, <1>2, <1>4, <1>5, ReadsInvariant, PTL DEF NeverOlder

=============================================================================
