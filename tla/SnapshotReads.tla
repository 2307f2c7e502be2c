---------------------------- MODULE SnapshotReads ----------------------------
(***************************************************************************)
(* The queries of apps/api/internal/postgres/store.go running beside the   *)
(* ingest worker.  Every query method is a sequence of autocommitted       *)
(* statements; a statement locks its tables one after the other in FROM    *)
(* order (ACCESS SHARE), resolving each name when its lock is granted, and *)
(* reads them when it holds them all.  The promotion renames the same      *)
(* tables under ACCESS EXCLUSIVE locks, in another order.                  *)
(***************************************************************************)
EXTENDS SnapshotSync, Sequences

CONSTANTS
    Readers,          \* requests being served at the same time
    MaxRequests,      \* bound on requests per reader
    MaxIdentifiers,   \* bound on the titles of a bulk request
    Published         \* bound: datasets that change while requests are served

ASSUME ReadersAssumption ==
    /\ NumDatasets = 3 /\ Published \subseteq Datasets
    /\ MaxRequests \in Nat /\ MaxIdentifiers \in Nat \ {0}

\* r.datasets in the order NewRunner lists them.
Ratings  == 1
Episodes == 2
Basics   == 3

VARIABLES
    stage,            \* the statement each reader is executing
    bound,            \* bound[r][d]: table locked for the statement
    remaining,        \* titles of the request not yet resolved
    latest,           \* snapshot the last statement of the request read
    requests          \* requests started

readVars == <<stage, bound, remaining, latest, requests>>
allVars  == <<vars, readVars>>

Unbound == -2
NoLocks == [d \in Datasets |-> Unbound]

\* The tables of each statement, in the order it locks them.
TablesOf(s) ==
    CASE s = "plain"    -> <<Ratings>>             \* GetRating
      [] s = "rating"   -> <<Ratings>>             \* the same, with episodes
      [] s = "parent"   -> <<Episodes>>            \* getEpisodeParentTconst
      [] s = "children" -> <<Episodes>>            \* hasEpisodesParent
      [] s = "list"     -> <<Episodes, Ratings>>   \* listEpisodeRatings
      [] s = "active"   -> << >>                   \* imdb_snapshots only
      [] s = "basics"   -> <<Basics>>              \* SearchTitles

Stages == {"plain", "rating", "parent", "children", "list", "active", "basics"}

Locked(r) == {d \in Datasets : bound[r][d] # Unbound}
Wanted(r) ==
    IF stage[r] \in Stages
    THEN {i \in DOMAIN TablesOf(stage[r]) : TablesOf(stage[r])[i] \notin Locked(r)}
    ELSE {}
\* The table whose lock the statement asks for next.
NextTable(r) == TablesOf(stage[r])[CHOOSE i \in Wanted(r) :
                                      \A j \in Wanted(r) : i <= j]

ReadsInit ==
    /\ Init
    /\ stage = [r \in Readers |-> "idle"]
    /\ bound = [r \in Readers |-> NoLocks]
    /\ remaining = [r \in Readers |-> 0]
    /\ latest = [r \in Readers |-> 0]
    /\ requests = [r \in Readers |-> 0]

\* SearchTitles, or GetRating or GetRatingWithEpisodes for one title or, in
\* bulkGetRatings, for several in turn.
StartRequest(r) ==
    /\ stage[r] = "idle"
    /\ requests[r] < MaxRequests
    /\ requests' = [requests EXCEPT ![r] = @ + 1]
    /\ \E s \in {"active", "plain", "rating"}, n \in 1..MaxIdentifiers :
          /\ s = "active" => n = 1
          /\ stage' = [stage EXCEPT ![r] = s]
          /\ remaining' = [remaining EXCEPT ![r] = n]
    /\ UNCHANGED <<vars, bound, latest>>

LockTable(r) ==
    /\ Wanted(r) # {}
    /\ \A w \in Workers : NextTable(r) \notin tx[w].moved
    /\ bound' = [bound EXCEPT ![r][NextTable(r)] = live[NextTable(r)]]
    /\ UNCHANGED <<vars, stage, remaining, latest, requests>>

\* Mutant: an episode that is its own parent is resolved again and again.
ContinuationsForever(s) ==
    CASE s = "rating"   -> {"parent"}
      [] s = "parent"   -> {"rating", "children"}
      [] s = "children" -> {"list", "answered"}
      [] s = "active"   -> {"basics"}
      [] OTHER          -> {"answered"}

\* The statements that may follow for a title, by what the rows say.
Continuations(s) ==
    CASE s = "rating"   -> {"parent"}
      [] s = "parent"   -> {"list", "children"}  \* an episode, or not
      [] s = "children" -> {"list", "answered"}  \* a series, or not
      [] s = "active"   -> {"basics"}
      [] OTHER          -> {"answered"}

\* bulkGetRatings goes on with the next title, also when this one is missing.
NextTitle(r, s) ==
    IF remaining[r] = 1
    THEN stage' = [stage EXCEPT ![r] = "answered"] /\ UNCHANGED remaining
    ELSE /\ stage' = [stage EXCEPT ![r] = s]
         /\ remaining' = [remaining EXCEPT ![r] = @ - 1]

\* Mutant: the rows are not closed, and the connection keeps its locks.
KeepLocks(r) == UNCHANGED bound
ReleaseLocks(r) == bound' = [bound EXCEPT ![r] = NoLocks]

\* The snapshots a statement reads: those of its tables, or the id it selects.
Reads(r) ==
    IF stage[r] = "active" THEN {LatestActive}
    ELSE {bound[r][d] : d \in Locked(r)}

\* All locks held: the statement runs and its locks are released.
RunStatement(r) ==
    /\ stage[r] \in Stages
    /\ Wanted(r) = {}
    /\ \E s \in Continuations(stage[r]) :
          IF s = "answered"
          THEN NextTitle(r, IF stage[r] = "plain" THEN "plain" ELSE "rating")
          ELSE stage' = [stage EXCEPT ![r] = s] /\ UNCHANGED remaining
    /\ \E id \in Reads(r) : latest' = [latest EXCEPT ![r] = id]
    /\ ReleaseLocks(r)
    /\ UNCHANGED <<vars, requests>>

\* The store returns an error: the request is answered 500, its locks are gone.
GiveUp(r) ==
    /\ stage' = [stage EXCEPT ![r] = "failed"]
    /\ ReleaseLocks(r)
    /\ UNCHANGED <<vars, remaining, latest, requests>>

\* A statement fails, or the request's 30 s are over.
StatementFails(r) == stage[r] \in Stages /\ GiveUp(r)

\* The handler returns its answer.
Respond(r) ==
    /\ stage[r] \in {"answered", "failed"}
    /\ stage' = [stage EXCEPT ![r] = "idle"]
    /\ remaining' = [remaining EXCEPT ![r] = 0]
    /\ latest' = [latest EXCEPT ![r] = 0]
    /\ UNCHANGED <<vars, bound, requests>>

\* Mutant: the deadlock goes unnoticed.
DeadlockUnnoticed(w, r) == FALSE

\* A reader holds a table the promotion is about to rename, and asks for one
\* the promotion has renamed already.
Deadlocked(w, r) ==
    /\ pc[w] = "renameLive"
    /\ next[w] \in Locked(r)
    /\ Wanted(r) # {}
    /\ NextTable(r) \in tx[w].moved

\* The deadlock detector of Postgres aborts one of the two.
AbortReader(r) ==
    /\ \E w \in Workers : Deadlocked(w, r)
    /\ GiveUp(r)

\* Rolling back hands the tables to the readers queued for them.
AbortPromotion(w) ==
    /\ \E r \in Readers : Deadlocked(w, r)
    /\ Rollback(w)
    /\ bound' = [r \in Readers |->
          IF Deadlocked(w, r)
          THEN [bound[r] EXCEPT ![NextTable(r)] = live[NextTable(r)]]
          ELSE bound[r]]
    /\ UNCHANGED <<envVars, dbVars, remote, snap, baseline, fetched, stage,
                   remaining, latest, requests>>

\* Mutant: renaming takes no exclusive lock.
RenameDoesNotWait(w) == TRUE

\* A step of the worker or its environment; a rename waits for the readers of
\* the table.
Unread(w) == pc[w] = "renameLive" => \A r \in Readers : next[w] \notin Locked(r)
WorkerStep(w) ==
    /\ Step(w)
    /\ Unread(w)
    /\ UNCHANGED readVars
WorkerFailure(w) == Failure(w) /\ UNCHANGED readVars
UpstreamStep == (\E d \in Published : Publish(d)) /\ UNCHANGED readVars

ReaderStep(r) ==
    StartRequest(r) \/ LockTable(r) \/ RunStatement(r) \/ Respond(r)
DeadlockDetector ==
    (\E r \in Readers : AbortReader(r)) \/ (\E w \in Workers : AbortPromotion(w))

ReadsNext ==
    \/ \E w \in Workers : WorkerStep(w) \/ WorkerFailure(w)
    \/ UpstreamStep
    \/ \E r \in Readers : ReaderStep(r) \/ StatementFails(r)
    \/ DeadlockDetector

\* Postgres runs statements and its deadlock detector; the worker as in
\* SnapshotSync.  No request is forced to arrive, so StartRequest is not fair.
ReadsSpec ==
    /\ ReadsInit
    /\ [][ReadsNext]_allVars
    /\ \A w \in Workers : WF_allVars(WorkerStep(w))
    /\ \A r \in Readers :
          WF_allVars(LockTable(r) \/ RunStatement(r) \/ Respond(r))
    /\ WF_allVars(DeadlockDetector)

-----------------------------------------------------------------------------
(* Properties *)

\* Readers are at known statements and bind known tables, and one that is not
\* executing a statement holds no lock that could delay a promotion.
ReadsTypeOK ==
    /\ stage \in [Readers -> Stages \cup {"idle", "answered", "failed"}]
    /\ bound \in [Readers -> [Datasets -> Tables \cup {Unbound}]]
    /\ remaining \in [Readers -> 0..MaxIdentifiers]
    /\ latest \in [Readers -> Tables]
    /\ requests \in [Readers -> 0..MaxRequests]
    /\ \A r \in Readers : stage[r] \notin Stages => Locked(r) = {}

\* listEpisodeRatings joins episodes and ratings of one snapshot: although it
\* locks the two tables separately and a promotion may come in between, the
\* join never combines tables of two snapshots.
JoinIsUniform ==
    \A r \in Readers : \A d, e \in Locked(r) : bound[r][d] = bound[r][e]

\* Every request gets its answer, lock conflicts and deadlocks included.
RequestsAnswered ==
    \A r \in Readers : stage[r] # "idle" ~> stage[r] = "idle"

\* The import still converges when readers make promotions the deadlock victim.
ConvergenceDespiteReaders == Convergence

\* A request reads in several statements, without a transaction, and promotions
\* may commit between them: the id and the rows of a search, the rating of a
\* title and its episodes, the titles of a bulk request.  Rows may then be newer
\* than what was read before them, but with one worker they are never older, so
\* a search never returns rows that precede the snapshot it reports.
ReadsNeverGoBack ==
    [][\A r \in Readers : stage'[r] # "idle" => latest'[r] >= latest[r]]_readVars

=============================================================================
