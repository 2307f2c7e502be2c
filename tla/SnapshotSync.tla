---------------------------- MODULE SnapshotSync ----------------------------
(***************************************************************************)
(* The ingest worker of apps/api/internal/ingest/runner.go and the part of *)
(* the Postgres schema it maintains.  A pass (SyncOnce) asks the upstream  *)
(* site for the validators of every dataset, compares them with            *)
(* dataset_sync_state and, when one differs, copies ALL datasets into      *)
(* shadow tables inside one transaction, promotes the shadow tables to the *)
(* live names by renaming, and records snapshot row and validators in the  *)
(* same transaction.  Bookkeeping before and after that transaction is     *)
(* autocommitted, one statement at a time.                                 *)
(*                                                                         *)
(* Data abstraction: a dataset is its upstream version, and the validators *)
(* (ETag, Last-Modified) of a version are that version's number; 0 stands  *)
(* for "no validator", and for the contents of an empty table.  A table is *)
(* the id of the snapshot that created it; 0 is the table the migrations   *)
(* created.                                                                *)
(***************************************************************************)
EXTENDS Integers, FiniteSets

CONSTANTS
    Workers,          \* processes running the worker loop
    NumDatasets,      \* r.datasets, in slice order (3 in the source)
    MaxVersion,       \* bound on upstream publications
    MaxSnapshots,     \* bound on rows of imdb_snapshots
    MaxFaults,        \* bound on failures of calls and processes
    MaxDbCrashes      \* bound on unclean Postgres restarts

ASSUME WorkersAssumption == Workers # {}
ASSUME BoundsAssumption ==
    /\ NumDatasets \in Nat \ {0}
    /\ MaxVersion \in Nat \ {0}
    /\ MaxSnapshots \in Nat \ {0}
    /\ MaxFaults \in Nat
    /\ MaxDbCrashes \in Nat

Datasets == 1..NumDatasets
Versions == 0..MaxVersion
Ids == 1..MaxSnapshots
NoTable == -1                     \* no relation has this name
Tables == Ids \cup {0, NoTable}

VARIABLES
    upstream,     \* upstream[d]: the version the dataset site serves
    faults,       \* failures so far
    dbCrashes,    \* unclean Postgres restarts so far
    rows,         \* imdb_snapshots: [status, active, counts]
    nextId,       \* the identity sequence of imdb_snapshots
    sync,         \* dataset_sync_state: [validator, snapshot]
    live,         \* live[d]: the table behind the live name
    previous,     \* previous[d]: the table behind the *_previous name
    data,         \* data[d]: the version held by live[d]
    pc,           \* the next step of each worker
    next,         \* loop index of each worker
    remote,       \* remote[w][d]: validators read by HEAD
    snap,         \* snapshotID of the pass
    baseline,     \* active.Counts of the pass
    fetched,      \* fetched[w][d]: version read by GET into the shadow table
    tx            \* uncommitted effects of the import transaction

envVars    == <<upstream, faults, dbCrashes>>
dbVars     == <<rows, nextId, sync, live, previous, data>>
workerVars == <<pc, next, remote, snap, baseline, fetched, tx>>
vars       == <<envVars, dbVars, workerVars>>

NoRow  == [status |-> "none", active |-> FALSE, counts |-> 0]
NoSync == [validator |-> 0, snapshot |-> 0]
Blank  == [d \in Datasets |-> 0]

\* The relations a transaction has renamed, the rows it has updated.  They are
\* also the locks it holds: ALTER TABLE and DROP TABLE keep ACCESS EXCLUSIVE
\* on the relation, UPDATE and ON CONFLICT DO UPDATE keep the row.
NoTx == [dropped     |-> FALSE,   \* *_previous tables existed and were dropped
         moved       |-> {},      \* live tables renamed to *_previous
         placed      |-> {},      \* shadow tables renamed to live names
         deactivated |-> {},      \* rows the deactivation statement updated
         finalized   |-> FALSE,   \* own row set to ready and active
         recorded    |-> {}]      \* datasets upserted into dataset_sync_state

Outside == {"idle", "head", "compare", "touch", "loadActive", "create",
            "cleanup", "analyze", "markFailed"}
\* Work on staging and shadow tables (download, COPY, normalization, indexes),
\* which nobody else can name.
Filling == {"copy", "dropPrevious"}
InTx    == Filling \cup {"renameLive", "promote", "deactivate", "finalize",
                         "record", "commit"}
Labels  == Outside \cup InTx

Init ==
    /\ upstream = [d \in Datasets |-> 1]
    /\ faults = 0
    /\ dbCrashes = 0
    /\ rows = [i \in Ids |-> NoRow]
    /\ nextId = 1
    /\ sync = [d \in Datasets |-> NoSync]
    /\ live = Blank
    /\ previous = [d \in Datasets |-> NoTable]
    /\ data = Blank
    /\ pc = [w \in Workers |-> "idle"]
    /\ next = [w \in Workers |-> 1]
    /\ remote = [w \in Workers |-> Blank]
    /\ snap = [w \in Workers |-> 0]
    /\ baseline = [w \in Workers |-> 0]
    /\ fetched = [w \in Workers |-> Blank]
    /\ tx = [w \in Workers |-> NoTx]

-----------------------------------------------------------------------------
(* Control of a worker *)

Goto(w, label) ==
    /\ pc' = [pc EXCEPT ![w] = label]
    /\ next' = [next EXCEPT ![w] = 1]

\* Mutant: the loop runs one iteration too many.
AdvancePastEnd(w, after) ==
    IF next[w] > NumDatasets
    THEN Goto(w, after)
    ELSE /\ next' = [next EXCEPT ![w] = @ + 1]
         /\ UNCHANGED pc

\* End of the loop body for dataset next[w]: the next dataset, or `after`.
Advance(w, after) ==
    IF next[w] = NumDatasets
    THEN Goto(w, after)
    ELSE /\ next' = [next EXCEPT ![w] = @ + 1]
         /\ UNCHANGED pc

\* SyncOnce returns: its locals are gone.
Return(w) ==
    /\ Goto(w, "idle")
    /\ remote' = [remote EXCEPT ![w] = Blank]
    /\ fetched' = [fetched EXCEPT ![w] = Blank]
    /\ snap' = [snap EXCEPT ![w] = 0]
    /\ baseline' = [baseline EXCEPT ![w] = 0]

\* A failure the environment may inject.
Fault == faults < MaxFaults /\ faults' = faults + 1

Others(w) == Workers \ {w}
SetTx(w, field, value) == tx' = [tx EXCEPT ![w][field] = value]

-----------------------------------------------------------------------------
(* The upstream site *)

Publish(d) ==
    /\ upstream[d] < MaxVersion
    /\ upstream' = [upstream EXCEPT ![d] = @ + 1]
    /\ UNCHANGED <<faults, dbCrashes, dbVars, workerVars>>

-----------------------------------------------------------------------------
(* Deciding whether to import *)

\* The ticker fires, or the process starts with RunOnStartup.
StartSync(w) ==
    /\ pc[w] = "idle"
    /\ Goto(w, "head")
    /\ UNCHANGED <<envVars, dbVars, remote, snap, baseline, fetched, tx>>

\* One HEAD request of fetchRemoteMetadata.
FetchMetadata(w) ==
    /\ pc[w] = "head"
    /\ remote' = [remote EXCEPT ![w][next[w]] = upstream[next[w]]]
    /\ Advance(w, "compare")
    /\ UNCHANGED <<envVars, dbVars, snap, baseline, fetched, tx>>

\* The response carries neither ETag nor Last-Modified.
FetchMetadataBare(w) ==
    /\ pc[w] = "head"
    /\ Fault
    /\ remote' = [remote EXCEPT ![w][next[w]] = 0]
    /\ Advance(w, "compare")
    /\ UNCHANGED <<upstream, dbCrashes, dbVars, snap, baseline, fetched, tx>>

\* Mutant: differing validators are not compared.
RefreshOnlyMissing(recorded, current) == recorded = 0 \/ current = 0

\* A missing validator on either side always asks for a refresh.
datasetRequiresRefresh(recorded, current) ==
    recorded = 0 \/ current = 0 \/ recorded # current

Changed(w) ==
    {d \in Datasets : datasetRequiresRefresh(sync[d].validator, remote[w][d])}

\* changedDatasets reads all of dataset_sync_state in one statement.
Compare(w) ==
    /\ pc[w] = "compare"
    /\ Goto(w, IF Changed(w) = {} THEN "touch" ELSE "loadActive")
    /\ UNCHANGED <<envVars, dbVars, remote, snap, baseline, fetched, tx>>

\* Nothing changed: the autocommitted upsert of one dataset, which writes back
\* the validators just read and sets snapshot_id to NULL.
Touch(w) ==
    LET d == next[w] IN
    /\ pc[w] = "touch"
    /\ \A o \in Others(w) : d \notin tx[o].recorded
    /\ sync' = [sync EXCEPT ![d] = [validator |-> remote[w][d], snapshot |-> 0]]
    /\ IF d = NumDatasets
       THEN Return(w)
       ELSE /\ Advance(w, "idle")
            /\ UNCHANGED <<remote, snap, baseline, fetched>>
    /\ UNCHANGED <<envVars, rows, nextId, live, previous, data, tx>>

-----------------------------------------------------------------------------
(* The import transaction *)

ActiveRows == {i \in Ids : rows[i].active}

\* Mutant: WHERE is_active is missing.
LatestRow == nextId - 1

\* mostRecentActiveSnapshotID of the query store: no active row is id 0.
LatestActive ==
    CHOOSE i \in ActiveRows \cup {0} : \A j \in ActiveRows : j <= i

\* activeSnapshotState: the latest active row, or none.
LoadActive(w) ==
    /\ pc[w] = "loadActive"
    /\ \E i \in ActiveRows \cup {0} :
        /\ \A j \in ActiveRows : j <= i
        /\ baseline' =
             [baseline EXCEPT ![w] = IF i = 0 THEN 0 ELSE rows[i].counts]
    /\ Goto(w, "create")
    /\ UNCHANGED <<envVars, dbVars, remote, snap, fetched, tx>>

\* createSnapshot inserts and commits the row before the transaction begins.
CreateSnapshot(w) ==
    /\ pc[w] = "create"
    /\ nextId <= MaxSnapshots
    /\ rows' = [rows EXCEPT ![nextId] = [status |-> "importing",
                                         active |-> FALSE,
                                         counts |-> baseline[w]]]
    /\ nextId' = nextId + 1
    /\ snap' = [snap EXCEPT ![w] = nextId]
    /\ Goto(w, "copy")
    /\ UNCHANGED <<envVars, sync, live, previous, data, remote, baseline,
                   fetched, tx>>

\* Mutant: unchanged datasets are not downloaded, and their tables stay empty.
CopyChangedOnly(w) ==
    /\ pc[w] = "copy"
    /\ fetched' = [fetched EXCEPT ![w][next[w]] =
                     IF next[w] \in Changed(w) THEN upstream[next[w]] ELSE 0]
    /\ Advance(w, "dropPrevious")
    /\ UNCHANGED <<envVars, dbVars, remote, snap, baseline, tx>>

\* copyDataset: the GET may be answered with a later version than the HEAD.
CopyDataset(w) ==
    /\ pc[w] = "copy"
    /\ fetched' = [fetched EXCEPT ![w][next[w]] = upstream[next[w]]]
    /\ Advance(w, "dropPrevious")
    /\ UNCHANGED <<envVars, dbVars, remote, snap, baseline, tx>>

BackupExists == \E d \in Datasets : previous[d] # NoTable

\* Mutant: leftover backups are not dropped first.
SkipDropPrevious(w) ==
    /\ pc[w] = "dropPrevious"
    /\ Goto(w, "renameLive")
    /\ UNCHANGED <<envVars, dbVars, remote, snap, baseline, fetched, tx>>

\* normalizeSnapshot and the index builds touch only tables nobody else can
\* name; then DROP TABLE IF EXISTS of the backups, which waits for another
\* transaction that is dropping them.
DropPrevious(w) ==
    /\ pc[w] = "dropPrevious"
    /\ BackupExists => \A o \in Others(w) : ~tx[o].dropped
    /\ SetTx(w, "dropped", BackupExists)
    /\ Goto(w, "renameLive")
    /\ UNCHANGED <<envVars, dbVars, remote, snap, baseline, fetched>>

LiveUnlocked(w, d) == \A o \in Others(w) : d \notin tx[o].moved
BackupInTheWay(w, d) == previous[d] # NoTable /\ ~tx[w].dropped

\* ALTER TABLE <live> RENAME TO <previous>: waits for the exclusive lock.
RenameLive(w) ==
    LET d == next[w] IN
    /\ pc[w] = "renameLive"
    /\ LiveUnlocked(w, d)
    /\ ~BackupInTheWay(w, d)
    /\ SetTx(w, "moved", tx[w].moved \cup {d})
    /\ Advance(w, "promote")
    /\ UNCHANGED <<envVars, dbVars, remote, snap, baseline, fetched>>

\* The deferred Rollback, and the error taken to markSnapshotFailed.
Rollback(w) ==
    /\ tx' = [tx EXCEPT ![w] = NoTx]
    /\ Goto(w, "markFailed")

\* A backup committed after our DROP: "relation already exists".
RenameConflict(w) ==
    /\ pc[w] = "renameLive"
    /\ LiveUnlocked(w, next[w])
    /\ BackupInTheWay(w, next[w])
    /\ Rollback(w)
    /\ UNCHANGED <<envVars, dbVars, remote, snap, baseline, fetched>>

\* Mutant: only the first shadow table is promoted.
PromoteFirst(w) ==
    /\ pc[w] = "promote"
    /\ SetTx(w, "placed", {next[w]})
    /\ Goto(w, "deactivate")
    /\ UNCHANGED <<envVars, dbVars, remote, snap, baseline, fetched>>

\* ALTER TABLE <shadow> RENAME TO <live>.
PromoteShadow(w) ==
    /\ pc[w] = "promote"
    /\ SetTx(w, "placed", tx[w].placed \cup {next[w]})
    /\ Advance(w, "deactivate")
    /\ UNCHANGED <<envVars, dbVars, remote, snap, baseline, fetched>>

RowUnlocked(w, i) ==
    \A o \in Others(w) :
        /\ i \notin tx[o].deactivated
        /\ ~(tx[o].finalized /\ snap[o] = i)

\* Mutant: the other rows are not deactivated.
SkipDeactivate(w) ==
    /\ pc[w] = "deactivate"
    /\ Goto(w, "finalize")
    /\ UNCHANGED <<envVars, dbVars, remote, snap, baseline, fetched, tx>>

\* Mutant: only older rows are deactivated (WHERE id < $1).
DeactivateOlder(w) ==
    /\ pc[w] = "deactivate"
    /\ SetTx(w, "deactivated", {i \in Ids : rows[i].status # "none" /\ i < snap[w]})
    /\ Goto(w, "finalize")
    /\ UNCHANGED <<envVars, dbVars, remote, snap, baseline, fetched>>

\* UPDATE ... WHERE id <> $1 updates the rows committed when it runs.
Deactivate(w) ==
    LET others == {i \in Ids : rows[i].status # "none" /\ i # snap[w]} IN
    /\ pc[w] = "deactivate"
    /\ \A i \in others : RowUnlocked(w, i)
    /\ SetTx(w, "deactivated", others)
    /\ Goto(w, "finalize")
    /\ UNCHANGED <<envVars, dbVars, remote, snap, baseline, fetched>>

Finalize(w) ==
    /\ pc[w] = "finalize"
    /\ RowUnlocked(w, snap[w])
    /\ SetTx(w, "finalized", TRUE)
    /\ Goto(w, "record")
    /\ UNCHANGED <<envVars, dbVars, remote, snap, baseline, fetched>>

\* Mutant: the upsert goes through the pool, outside the transaction.
RecordSyncAutocommitted(w) ==
    /\ pc[w] = "record"
    /\ sync' = [sync EXCEPT ![next[w]] =
                   [validator |-> remote[w][next[w]], snapshot |-> snap[w]]]
    /\ Advance(w, "commit")
    /\ UNCHANGED <<envVars, rows, nextId, live, previous, data, remote, snap,
                   baseline, fetched, tx>>

\* upsertSyncStateWithExecutor inside the transaction, one dataset.
RecordSync(w) ==
    /\ pc[w] = "record"
    /\ \A o \in Others(w) : next[w] \notin tx[o].recorded
    /\ SetTx(w, "recorded", tx[w].recorded \cup {next[w]})
    /\ Advance(w, "commit")
    /\ UNCHANGED <<envVars, dbVars, remote, snap, baseline, fetched>>

\* What COMMIT makes visible, statement by statement.
ApplyTx(w) ==
    /\ previous' = [d \in Datasets |->
          IF d \in tx[w].moved THEN live[d]
          ELSE IF tx[w].dropped THEN NoTable ELSE previous[d]]
    /\ live' = [d \in Datasets |->
          IF d \in tx[w].placed THEN snap[w]
          ELSE IF d \in tx[w].moved THEN NoTable ELSE live[d]]
    /\ data' = [d \in Datasets |->
          IF d \in tx[w].placed THEN fetched[w][d] ELSE data[d]]
    /\ rows' = [i \in Ids |->
          IF i = snap[w] /\ tx[w].finalized
          THEN [status |-> "ready", active |-> TRUE, counts |-> i]
          ELSE IF i \in tx[w].deactivated
          THEN [rows[i] EXCEPT !.active = FALSE]
          ELSE rows[i]]
    /\ sync' = [d \in Datasets |->
          IF d \in tx[w].recorded
          THEN [validator |-> remote[w][d], snapshot |-> snap[w]]
          ELSE sync[d]]
    /\ tx' = [tx EXCEPT ![w] = NoTx]
    /\ UNCHANGED nextId

Commit(w) ==
    /\ pc[w] = "commit"
    /\ ApplyTx(w)
    /\ Goto(w, "cleanup")
    /\ UNCHANGED <<envVars, remote, snap, baseline, fetched>>

\* Postgres commits but the reply is lost: tx.Commit returns an error.
CommitReplyLost(w) ==
    /\ pc[w] = "commit"
    /\ Fault
    /\ ApplyTx(w)
    /\ Goto(w, "markFailed")
    /\ UNCHANGED <<upstream, dbCrashes, remote, snap, baseline, fetched>>

-----------------------------------------------------------------------------
(* After the transaction *)

\* dropPreviousTables, autocommitted.
CleanupPrevious(w) ==
    /\ pc[w] = "cleanup"
    /\ BackupExists => \A o \in Others(w) : ~tx[o].dropped
    /\ previous' = [d \in Datasets |-> NoTable]
    /\ Goto(w, "analyze")
    /\ UNCHANGED <<envVars, rows, nextId, sync, live, data, remote, snap,
                   baseline, fetched, tx>>

\* Its error is only logged.
CleanupFails(w) ==
    /\ pc[w] = "cleanup"
    /\ Fault
    /\ Goto(w, "analyze")
    /\ UNCHANGED <<upstream, dbCrashes, dbVars, remote, snap, baseline,
                   fetched, tx>>

\* ANALYZE of one live table; it waits for a promotion that is renaming it.
AnalyzeTable(w) ==
    /\ pc[w] = "analyze"
    /\ LiveUnlocked(w, next[w])
    /\ IF next[w] = NumDatasets
       THEN Return(w)
       ELSE /\ Advance(w, "idle")
            /\ UNCHANGED <<remote, snap, baseline, fetched>>
    /\ UNCHANGED <<envVars, dbVars, tx>>

\* An ANALYZE error makes importSnapshot fail although it has committed.
AnalyzeFails(w) ==
    /\ pc[w] = "analyze"
    /\ Fault
    /\ Goto(w, "markFailed")
    /\ UNCHANGED <<upstream, dbCrashes, dbVars, remote, snap, baseline,
                   fetched, tx>>

\* markSnapshotFailed, autocommitted: it clears is_active whatever the row is.
MarkFailed(w) ==
    /\ pc[w] = "markFailed"
    /\ RowUnlocked(w, snap[w])
    /\ rows' = [rows EXCEPT ![snap[w]].status = "failed",
                            ![snap[w]].active = FALSE]
    /\ Return(w)
    /\ UNCHANGED <<envVars, nextId, sync, live, previous, data, tx>>

-----------------------------------------------------------------------------
(* Failures *)

\* An error of a call made before the snapshot row exists, or of
\* markSnapshotFailed itself (ignored by SyncOnce): the pass ends.
PassFails(w) ==
    /\ pc[w] \in {"head", "compare", "touch", "loadActive", "create",
                  "markFailed"}
    /\ Fault
    /\ Return(w)
    /\ UNCHANGED <<upstream, dbCrashes, dbVars, tx>>

\* An error of a statement, a download or COMMIT inside the transaction.
ImportFails(w) ==
    /\ pc[w] \in InTx
    /\ Fault
    /\ Rollback(w)
    /\ UNCHANGED <<upstream, dbCrashes, dbVars, remote, snap, baseline,
                   fetched>>

\* The process is killed or stopped.  After SIGTERM the context is cancelled,
\* so markSnapshotFailed cannot run either and the row stays "importing".
\* The supervisor starts the process again: StartSync is then enabled.
Crash(w) ==
    /\ pc[w] # "idle"
    /\ Fault
    /\ tx' = [tx EXCEPT ![w] = NoTx]
    /\ Return(w)
    /\ UNCHANGED <<upstream, dbCrashes, dbVars>>

\* Postgres restarts uncleanly: transactions abort, and crash recovery
\* truncates UNLOGGED tables, which all promoted tables are.
DatabaseCrash ==
    /\ dbCrashes < MaxDbCrashes
    /\ dbCrashes' = dbCrashes + 1
    /\ data' = Blank
    /\ tx' = [w \in Workers |-> NoTx]
    /\ pc' = [w \in Workers |->
                IF pc[w] \in InTx THEN "markFailed" ELSE pc[w]]
    /\ next' = [w \in Workers |-> IF pc[w] \in InTx THEN 1 ELSE next[w]]
    /\ UNCHANGED <<upstream, faults, rows, nextId, sync, live, previous,
                   remote, snap, baseline, fetched>>

-----------------------------------------------------------------------------

Decide(w) == StartSync(w) \/ FetchMetadata(w) \/ Compare(w) \/ Touch(w)
Import(w) ==
    \/ LoadActive(w) \/ CreateSnapshot(w) \/ CopyDataset(w)
    \/ DropPrevious(w) \/ RenameLive(w) \/ RenameConflict(w)
    \/ PromoteShadow(w) \/ Deactivate(w) \/ Finalize(w) \/ RecordSync(w)
    \/ Commit(w)
Finish(w) == CleanupPrevious(w) \/ AnalyzeTable(w) \/ MarkFailed(w)
Step(w) == Decide(w) \/ Import(w) \/ Finish(w)

Failure(w) ==
    \/ FetchMetadataBare(w) \/ CommitReplyLost(w) \/ CleanupFails(w)
    \/ AnalyzeFails(w) \/ PassFails(w) \/ ImportFails(w) \/ Crash(w)

Next ==
    \/ \E d \in Datasets : Publish(d)
    \/ \E w \in Workers : Step(w) \/ Failure(w)
    \/ DatabaseCrash

Spec == Init /\ [][Next]_vars

\* A running worker keeps taking steps, and a stopped one is restarted
\* (restart: unless-stopped, Restart=always).  Nothing forces a failure or a
\* publication to happen.
FairSpec == Spec /\ \A w \in Workers : WF_vars(Step(w))

-----------------------------------------------------------------------------
(* Type invariant *)

Row  == [status : {"none", "importing", "ready", "failed"},
         active : BOOLEAN, counts : 0..MaxSnapshots]
Sync == [validator : Versions, snapshot : 0..MaxSnapshots]
Tx   == [dropped : BOOLEAN, moved : SUBSET Datasets, placed : SUBSET Datasets,
         deactivated : SUBSET Ids, finalized : BOOLEAN,
         recorded : SUBSET Datasets]

EnvType ==
    /\ upstream \in [Datasets -> Versions]
    /\ faults \in 0..MaxFaults
    /\ dbCrashes \in 0..MaxDbCrashes

DbType ==
    /\ rows \in [Ids -> Row]
    /\ nextId \in 1..(MaxSnapshots + 1)
    /\ sync \in [Datasets -> Sync]
    /\ live \in [Datasets -> Tables]
    /\ previous \in [Datasets -> Tables]
    /\ data \in [Datasets -> Versions]

ControlType ==
    /\ pc \in [Workers -> Labels]
    /\ next \in [Workers -> Datasets]

LocalType ==
    /\ remote \in [Workers -> [Datasets -> Versions]]
    /\ snap \in [Workers -> 0..MaxSnapshots]
    /\ baseline \in [Workers -> 0..MaxSnapshots]
    /\ fetched \in [Workers -> [Datasets -> Versions]]

TxType == tx \in [Workers -> Tx]

\* From the insertion of its row on, a pass knows the row's id.
SnapKnown ==
    \A w \in Workers :
        pc[w] \in InTx \cup {"cleanup", "analyze", "markFailed"}
            => snap[w] \in Ids

\* Every variable is in its domain, and markSnapshotFailed and the promotion
\* always have the id of a row.
TypeOK ==
    EnvType /\ DbType /\ ControlType /\ LocalType /\ TxType /\ SnapKnown

-----------------------------------------------------------------------------
(* Safety *)

\* Whatever the interleaving, failures and restarts, a row that says it is
\* active is the only one, is ready, carries its own counts (GetStats serves
\* them), and every live table is that snapshot's (SearchTitles reports it).
ActiveIsLive ==
    \A i \in ActiveRows :
        /\ rows[i].status = "ready"
        /\ rows[i].counts = i
        /\ \A d \in Datasets : live[d] = i

\* No reader ever finds ratings of one snapshot beside episodes or basics of
\* another, or a live name without a table: promotion is all or nothing.
LiveUniform ==
    \A d, e \in Datasets : live[d] = live[e] /\ live[d] # NoTable

\* dataset_sync_state never names a snapshot that is not the one being served.
SyncedSnapshotIsLive ==
    \A d \in Datasets : sync[d].snapshot # 0 => live[d] = sync[d].snapshot

\* The recorded validators are never ahead of the data being served, although
\* HEAD and GET are separate requests and any step may fail: otherwise the
\* missing data would not be fetched until upstream changes again.
NoMissedUpdate ==
    \A d \in Datasets : sync[d].validator <= data[d]

\* A single worker is never stopped by backup tables an earlier promotion
\* left behind, however that promotion ended.
LeftoverBackupHarmless ==
    \A w \in Workers : pc[w] = "renameLive" => ~BackupInTheWay(w, next[w])

\* The served version of a dataset never goes back: a pass does not publish
\* data older than what an earlier pass has published.
NeverOlder == [][\A d \in Datasets : data'[d] >= data[d]]_vars

\* Once upstream is quiet and calls stop failing, the live tables hold what
\* upstream publishes, and the recorded validators say so.
Convergence ==
    <>[](\A d \in Datasets : data[d] = upstream[d]
                               /\ sync[d].validator = upstream[d])

\* What the API documents: "ID of the active dataset snapshot used" accompanies
\* search results, so the snapshot that is being served is the active one.
ServedSnapshotIsActive ==
    \A d \in Datasets : live[d] \in Ids => rows[live[d]].active

-----------------------------------------------------------------------------
(* What all of this is for: SnapshotSync implements SnapshotPublication *)

Unserved == [none      |-> "none",
             importing |-> "building",   \* for good, if its worker was killed
             ready     |-> "over",
             failed    |-> "over"]

\* What the tables and rows say about snapshot i.
StageOf(i) == IF \E d \in Datasets : live[d] = i
              THEN "served" ELSE Unserved[rows[i].status]

Publication == INSTANCE SnapshotPublication WITH
    None      <- 0,
    stage     <- [i \in Ids |-> StageOf(i)],
    serving   <- live,
    announced <- LatestActive,
    named     <- [d \in Datasets |-> sync[d].snapshot]

\* Whatever the number of workers, their interleaving, failures and restarts,
\* the statements of the passes amount to atomic steps from one snapshot to the
\* next: importSnapshot never shows a part of its work, markSnapshotFailed
\* never brings an older snapshot back, and no row, sync state or announced id
\* refers to tables that are not served.
PublicationSpec == Publication!Spec

-----------------------------------------------------------------------------
(* Inductive invariants: what the proofs need *)

Promoting == {"promote", "deactivate", "finalize", "record", "commit"}
Placed    == {"deactivate", "finalize", "record", "commit"}

\* The loops of promoteShadowTables and upsertSyncStateWithExecutor have done
\* exactly the datasets before the loop index.
LoopShape(w) ==
    /\ tx[w].moved = IF pc[w] = "renameLive"
                     THEN {d \in Datasets : d < next[w]}
                     ELSE IF pc[w] \in Promoting THEN Datasets ELSE {}
    /\ tx[w].placed = IF pc[w] = "promote"
                      THEN {d \in Datasets : d < next[w]}
                      ELSE IF pc[w] \in Placed THEN Datasets ELSE {}
    /\ tx[w].recorded = IF pc[w] = "record"
                        THEN {d \in Datasets : d < next[w]}
                        ELSE IF pc[w] = "commit" THEN Datasets ELSE {}
    /\ tx[w].finalized <=> pc[w] \in {"record", "commit"}

\* ACCESS EXCLUSIVE locks exclude each other.
LocksDisjoint ==
    \A w, o \in Workers : w # o => tx[w].moved \cap tx[o].moved = {}

LockInv == (\A w \in Workers : LoopShape(w)) /\ LocksDisjoint

\* The deactivation statement ran under the locks on the live tables, so no
\* row can have become active behind its back.
DeactivationComplete ==
    \A w \in Workers : pc[w] \in {"finalize", "record", "commit"} =>
        \A i \in ActiveRows : i \in tx[w].deactivated \/ i = snap[w]

RowInv == DeactivationComplete /\ ActiveIsLive

\* The two-worker argument: promotion is serialized by the locks on the live
\* tables, whatever reads and statements precede it.
SyncInv == TypeOK /\ LockInv /\ RowInv

\* The life of a row: inserted once, known to one pass only, "importing" as long
\* as that pass is in its transaction and never "importing" while it is served.
RowLife ==
    /\ \A i \in Ids : rows[i].status = "none" <=> i >= nextId
    /\ \A w \in Workers : snap[w] < nextId
    /\ \A w, o \in Workers : w # o /\ snap[w] # 0 => snap[w] # snap[o]
    /\ \A w \in Workers : pc[w] \in InTx => rows[snap[w]].status = "importing"
    /\ \A d \in Datasets :
          live[d] \in Ids => rows[live[d]].status \in {"ready", "failed"}

\* All of it together is what the refinement of SnapshotPublication needs.
PubInv == SyncInv /\ LiveUniform /\ SyncedSnapshotIsLive /\ RowLife

Copied(w, d) == pc[w] \in InTx /\ (pc[w] = "copy" => d < next[w])

\* The one-worker argument: what HEAD reported is no newer than what GET
\* returns later, and nothing is recorded or published but by this pass.
FreshInv ==
    /\ NoMissedUpdate
    /\ \A d \in Datasets : data[d] <= upstream[d]
    /\ \A w \in Workers, d \in Datasets :
          /\ remote[w][d] <= upstream[d]
          /\ pc[w] = "touch" => remote[w][d] = sync[d].validator
          /\ Copied(w, d) => /\ remote[w][d] <= fetched[w][d]
                             /\ data[d] <= fetched[w][d]
                             /\ fetched[w][d] <= upstream[d]

=============================================================================
