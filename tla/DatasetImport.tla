--------------------------- MODULE DatasetImport ---------------------------
(***************************************************************************)
(* What an import does to the rows: staging by CopyPipe, then either the   *)
(* full refresh of importSnapshot (normalizeSnapshot fills new tables) or  *)
(* the delta of importDeltaSnapshot (mergeRatingsDelta and its siblings    *)
(* change the live tables in batches), each in its transactions.           *)
(* selectSyncMode always chooses the full refresh; the delta functions are *)
(* complete, and modelled as they would run if it did not.                 *)
(*                                                                         *)
(* Data abstraction: a row is a key (tconst; 0 is NULL) and the value its  *)
(* load filters on (0 is NULL, empty, or a title type that is not kept):   *)
(* a rating with its votes taken as one, the parent of an episode, the     *)
(* type of a title.                                                        *)
(* A normalized table maps keys to values; title_basics maps them to the   *)
(* denormalized num_votes.  row_hash is equal exactly when the values are. *)
(***************************************************************************)
EXTENDS CopyPipe, FiniteSets, FiniteSetsExt, Functions, SequencesExt

CONSTANTS
    Titles,           \* tconst values, ordered
    Values,           \* values other than NULL
    FilesOf,          \* FilesOf[d]: versions of a file upstream may publish
    BatchSizes        \* what DELTA_BATCH_SIZE may be

ASSUME TitlesAssumption == Titles \subseteq Nat \ {0} /\ Values \subseteq Nat \ {0}
ASSUME TitlesFinite == IsFiniteSet(Titles)
ASSUME RecordsAssumption ==
    Records = [key : Titles \cup {0}, value : Values \cup {0}]

\* The datasets, in the order of NewRunner.
Ratings  == 1
Episodes == 2
Basics   == 3
Datasets == 1..3

ASSUME FilesAssumption ==
    \A d \in Datasets : FilesOf[d] \subseteq Seq(Records \cup {Malformed})
ASSUME BatchAssumption == BatchSizes \subseteq Int

VARIABLES
    mode,             \* "full" or "delta"
    configured,       \* the configured batch size
    files,            \* files[d]: what upstream serves
    changed,          \* datasets whose file is another than the imported one
    tables,           \* the live tables, as committed
    work,             \* the tables as the transaction sees them: shadow tables
                      \* in a full refresh, the live ones in a delta
    delta,            \* the delta table
    raw,              \* raw[d]: staging tables that have been filled
    dataset,          \* the dataset being imported
    pc                \* the next statement

importVars == <<mode, configured, files, changed, tables, work, delta, raw, dataset, pc>>
allVars == <<copyVars, importVars>>

Empty == << >>
\* Mutant: tconst IS NOT NULL is forgotten.
KeptNull(rows) == {i \in DOMAIN rows : rows[i].value # 0}
\* The WHERE clause of the load.
Kept(rows) == {i \in DOMAIN rows : rows[i].key # 0 /\ rows[i].value # 0}
\* Two rows of the load have one tconst, which is the PRIMARY KEY.
Duplicated(rows) ==
    \E i \in Kept(rows) : \E j \in Kept(rows) \ {i} : rows[i].key = rows[j].key

\* INSERT ... SELECT of the load; num_votes of title_basics is 0 at first.
Loaded(d, rows) ==
    [k \in {rows[i].key : i \in Kept(rows)} |->
        IF d = Basics THEN 0
        ELSE (CHOOSE r \in ToSet(rows) : r.key = k /\ r.value # 0).value]

\* UPDATE title_basics SET num_votes FROM title_ratings.
WithVotes(basics, ratings) ==
    [k \in DOMAIN basics |->
        IF k \in DOMAIN ratings THEN ratings[k] ELSE basics[k]]

Sound(file) == Malformed \notin ToSet(file) /\ ~Duplicated(file)
\* What the three files say.
Imported(fs) ==
    [d \in Datasets |->
        IF d = Basics
        THEN WithVotes(Loaded(Basics, fs[Basics]), Loaded(Ratings, fs[Ratings]))
        ELSE Loaded(d, fs[d])]

\* Mutant: the batch size is taken as configured.
BatchAsConfigured == configured
\* NewRunner replaces a size that is not positive (by 50000, more than any
\* number of titles here).
deltaBatchSize == IF configured > 0 THEN configured
                  ELSE 1 + Cardinality(Titles)

\* LIMIT deltaBatchSize of the keys, in order.
Batch(keys) == {k \in keys : Cardinality({j \in keys : j < k}) < deltaBatchSize}

Init ==
    /\ CopyInit
    /\ mode \in {"full", "delta"} /\ configured \in BatchSizes
    /\ files \in [Datasets -> UNION {FilesOf[d] : d \in Datasets}]
    /\ \A d \in Datasets : files[d] \in FilesOf[d]
    /\ \E old \in [Datasets -> UNION {FilesOf[d] : d \in Datasets}] :
          /\ \A d \in Datasets : old[d] \in FilesOf[d] /\ Sound(old[d])
          /\ tables = Imported(old)
          /\ changed = {d \in Datasets : files[d] # old[d]}
    /\ changed # {}
    /\ work = [d \in Datasets |-> Empty]
    /\ delta = Empty
    /\ raw = [d \in Datasets |-> Empty]
    /\ dataset = IF mode = "full" THEN Ratings ELSE Min(changed)
    /\ pc = "begin"

Goto(label) == pc' = label
Fail ==
    /\ pc' = "failed"
    /\ UNCHANGED <<mode, configured, files, changed, tables, work, delta, raw, dataset>>

\* Datasets still to stage: all of them, or those that have changed.
Later == {d \in (IF mode = "full" THEN Datasets ELSE changed) : d > dataset}

-----------------------------------------------------------------------------
(* Staging *)

\* BEGIN (for each dataset of a delta) and CREATE TABLE of the staging table.
Begin ==
    /\ pc = "begin"
    /\ work' = IF mode = "delta" THEN tables ELSE work
    /\ Goto("get")
    /\ UNCHANGED <<copyVars, mode, configured, files, changed, tables, delta, raw, dataset>>

Get ==
    /\ pc = "get"
    /\ \/ StartCopy(files[dataset]) /\ Goto("copy")
       \/ CopyRefused /\ Goto("copy")
    /\ UNCHANGED <<mode, configured, files, changed, tables, work, delta, raw, dataset>>

CopyStep == CopyNext /\ UNCHANGED importVars

\* copyDataset has returned without an error.
Staged ==
    /\ pc = "copy" /\ call = "ok"
    /\ raw' = [raw EXCEPT ![dataset] = staged]
    /\ call' = "idle"
    /\ IF mode = "full"
       THEN IF Later # {}
            THEN dataset' = Min(Later) /\ Goto("begin")
            ELSE dataset' = Ratings /\ Goto("load")
       ELSE /\ UNCHANGED dataset
            /\ Goto(IF dataset = Basics THEN "truncate" ELSE "normalize")
    /\ UNCHANGED <<feedVars, sendVars, server, staged, mode, configured, files, changed,
                   tables, work, delta>>

CopyFailed ==
    /\ pc = "copy" /\ call = "error"
    /\ Fail
    /\ UNCHANGED copyVars

-----------------------------------------------------------------------------
(* The full refresh: normalizeSnapshot and the promotion *)

\* The statement after the load of a dataset.
AfterLoad(d) == IF d = Basics THEN "votes" ELSE "load"

Load ==
    /\ pc = "load"
    /\ IF Duplicated(raw[dataset]) THEN Fail
       ELSE /\ work' = [work EXCEPT ![dataset] = Loaded(dataset, raw[dataset])]
            /\ dataset' = IF dataset = Basics THEN dataset ELSE dataset + 1
            /\ Goto(AfterLoad(dataset))
            /\ UNCHANGED <<mode, configured, files, changed, tables, delta, raw>>
    /\ UNCHANGED copyVars

DenormalizeVotes ==
    /\ pc = "votes"
    /\ work' = [work EXCEPT ![Basics] = WithVotes(@, work[Ratings])]
    /\ Goto("commit")
    /\ UNCHANGED <<copyVars, mode, configured, files, changed, tables, delta, raw, dataset>>

-----------------------------------------------------------------------------
(* The delta *)

\* mergeBasicsDelta empties and reloads the table.
Truncate ==
    /\ pc = "truncate"
    /\ work' = [work EXCEPT ![Basics] = Empty]
    /\ Goto("reload")
    /\ UNCHANGED <<copyVars, mode, configured, files, changed, tables, delta, raw, dataset>>

Reload ==
    /\ pc = "reload"
    /\ IF Duplicated(raw[Basics]) THEN Fail
       ELSE /\ work' = [work EXCEPT ![Basics] = Loaded(Basics, raw[Basics])]
            /\ Goto("votes")
            /\ UNCHANGED <<mode, configured, files, changed, tables, delta, raw, dataset>>
    /\ UNCHANGED copyVars

\* mergeRatingsDelta and mergeEpisodesDelta: the delta table is filled.
Normalize ==
    /\ pc = "normalize"
    /\ IF Duplicated(raw[dataset]) THEN Fail
       ELSE /\ delta' = Loaded(dataset, raw[dataset])
            /\ Goto("insert")
            /\ UNCHANGED <<mode, configured, files, changed, tables, work, raw, dataset>>
    /\ UNCHANGED copyVars

\* execBatchedStatement repeats a statement until it affects no row.
Repeat(keys, label, next, table) ==
    /\ pc = label
    /\ IF Batch(keys) = {} THEN Goto(next) /\ UNCHANGED work
       ELSE UNCHANGED pc /\ work' = [work EXCEPT ![dataset] = table]
    /\ UNCHANGED <<copyVars, mode, configured, files, changed, tables, delta, raw, dataset>>

Missing == DOMAIN delta \ DOMAIN work[dataset]
InsertBatch ==
    Repeat(Missing, "insert", "update",
           [k \in DOMAIN work[dataset] \cup Batch(Missing) |->
               IF k \in Batch(Missing) THEN delta[k] ELSE work[dataset][k]])

\* row_hash IS DISTINCT FROM
Differing == {k \in DOMAIN delta \cap DOMAIN work[dataset] :
                delta[k] # work[dataset][k]}
UpdateBatch ==
    Repeat(Differing, "update", "delete",
           [k \in DOMAIN work[dataset] |->
               IF k \in Batch(Differing) THEN delta[k] ELSE work[dataset][k]])

Surplus == DOMAIN work[dataset] \ DOMAIN delta
DeleteBatch ==
    Repeat(Surplus, "delete", "commit",
           Restrict(work[dataset], DOMAIN work[dataset] \ Batch(Surplus)))

-----------------------------------------------------------------------------

\* COMMIT: of everything (with the promotion), or of one dataset of a delta.
Commit ==
    /\ pc = "commit"
    /\ tables' = work
    /\ IF mode = "delta" /\ Later # {}
       THEN dataset' = Min(Later) /\ Goto("begin")
       ELSE UNCHANGED dataset /\ Goto("finish")
    /\ UNCHANGED <<copyVars, mode, configured, files, changed, work, delta, raw>>

\* What follows the last COMMIT, ANALYZE or finalizeDeltaSnapshot, writes nothing
\* to the tables, but the import has failed if it does.
Finish ==
    /\ pc = "finish"
    /\ Goto("done")
    /\ UNCHANGED <<copyVars, mode, configured, files, changed, tables, work, delta, raw, dataset>>

\* A statement, COMMIT, or the bookkeeping between two datasets fails.
StatementFails ==
    /\ pc \notin {"copy", "done", "failed"}
    /\ Fail
    /\ UNCHANGED copyVars

Statement ==
    \/ Begin \/ Get \/ Staged \/ CopyFailed
    \/ Load \/ DenormalizeVotes
    \/ Truncate \/ Reload
    \/ Normalize \/ InsertBatch \/ UpdateBatch \/ DeleteBatch
    \/ Commit \/ Finish

Next == CopyStep \/ Statement \/ StatementFails

\* No fairness for ScanLine: a download may stall.  The client's timeout then
\* ends it.
Spec ==
    /\ Init
    /\ [][Next]_allVars
    /\ WF_allVars(ClientTimeout /\ UNCHANGED importVars)
    /\ WF_allVars(Feed /\ UNCHANGED importVars)
    /\ WF_allVars(Send /\ UNCHANGED importVars)
    /\ WF_allVars(CopyFrom /\ UNCHANGED importVars)
    /\ WF_allVars(Statement)

-----------------------------------------------------------------------------
(* Properties *)

Table == UNION {[S -> Values \cup {0}] : S \in SUBSET Titles}

\* Variables are in their domains, and tables hold no NULL where their columns
\* forbid it.
ImportTypeOK ==
    /\ CopyTypeOK
    /\ mode \in {"full", "delta"} /\ configured \in BatchSizes
    /\ changed \subseteq Datasets
    /\ tables \in [Datasets -> Table] /\ work \in [Datasets -> Table]
    /\ delta \in Table
    /\ raw \in [Datasets -> Seq(Records)]
    /\ dataset \in Datasets
    /\ \A d \in {Ratings, Episodes} : 0 \notin Range(tables[d])

\* An import that reports success has made the tables exactly what the files
\* say, whether it filled new ones or changed the old ones row by row, whatever
\* the size of its batches.  The votes copied into title_basics agree with the
\* ratings whenever title_basics was written.
ImportedIsFile ==
    pc = "done" =>
        /\ \A d \in {Ratings, Episodes} : tables[d] = Imported(files)[d]
        /\ mode = "full" \/ Basics \in changed \/ Ratings \notin changed
              => tables[Basics] = Imported(files)[Basics]

\* Every import ends: downloads that stall, servers that refuse, and batches
\* repeated until nothing is left included.
ImportEnds == <>(pc \in {"done", "failed"})

=============================================================================
