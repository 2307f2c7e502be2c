--------------------- MODULE SnapshotPublicationProofs ---------------------
(* SnapshotSync implements SnapshotPublication, for any number of workers,  *)
(* datasets, snapshots, failures and restarts.                              *)
EXTENDS SnapshotSyncProofs

-----------------------------------------------------------------------------
(* The life of a row *)

\* Rows, identities and live tables stay, a pass keeps or forgets its row, and
\* none enters its transaction.
LifeQuiet ==
    /\ UNCHANGED <<rows, nextId, live>>
    /\ \A v \in Workers :
          /\ snap'[v] \in {snap[v], 0}
          /\ pc'[v] \in InTx => pc[v] \in InTx /\ snap'[v] = snap[v]

LEMMA QuietLife == ASSUME TypeOK, RowLife, LifeQuiet PROVE RowLife'
<1>1. nextId \in Nat /\ nextId > 0 BY BoundsAssumption DEF TypeOK, DbType
<1>2. \A v \in Workers : snap[v] \in Nat BY DEF TypeOK, LocalType
<1>3. \A v \in Workers : snap'[v] < nextId'
  BY <1>1, <1>2 DEF RowLife, LifeQuiet
<1>4. \A v, o \in Workers : v # o /\ snap'[v] # 0 => snap'[v] # snap'[o]
  BY DEF RowLife, LifeQuiet
<1>5. \A v \in Workers :
        pc'[v] \in InTx => rows'[snap'[v]].status = "importing"
  BY DEF RowLife, LifeQuiet
<1> QED BY <1>3, <1>4, <1>5 DEF RowLife, LifeQuiet

\* All steps of a worker but the four that write rows.
LEMMA LifeQuietStep ==
    ASSUME TypeOK, NEW w \in Workers,
           \/ StartSync(w) \/ FetchMetadata(w) \/ Compare(w) \/ Touch(w)
           \/ LoadActive(w) \/ CopyDataset(w) \/ DropPrevious(w)
           \/ RenameLive(w) \/ RenameConflict(w) \/ PromoteShadow(w)
           \/ Deactivate(w) \/ Finalize(w) \/ RecordSync(w)
           \/ CleanupPrevious(w) \/ AnalyzeTable(w) \/ FetchMetadataBare(w)
           \/ CleanupFails(w) \/ AnalyzeFails(w) \/ PassFails(w)
           \/ ImportFails(w) \/ Crash(w)
    PROVE  LifeQuiet
<1> USE DEF StartSync, FetchMetadata, Compare, Touch, LoadActive, CopyDataset,
            DropPrevious, RenameLive, RenameConflict, PromoteShadow,
            Deactivate, Finalize, RecordSync, CleanupPrevious, AnalyzeTable,
            FetchMetadataBare, CleanupFails, AnalyzeFails, PassFails,
            ImportFails, Crash
<1>1. UNCHANGED <<rows, nextId, live>> BY DEF dbVars
<1>2. \A v \in Workers \ {w} : pc'[v] = pc[v] /\ snap'[v] = snap[v]
  BY DEF Goto, Advance, Return, Rollback, TypeOK, ControlType, LocalType
<1>3. snap' = snap \/ (snap' = [snap EXCEPT ![w] = 0] /\ pc'[w] = "idle")
  BY DEF Goto, Return, TypeOK, ControlType
<1>4. pc'[w] \in InTx => pc[w] \in InTx
  BY DEF Goto, Advance, Return, Rollback, InTx, Filling, TypeOK, ControlType
<1>5. "idle" \notin InTx BY DEF InTx, Filling
<1> QED BY <1>1, <1>2, <1>3, <1>4, <1>5 DEF LifeQuiet, TypeOK, LocalType

LEMMA CreateLife ==
    ASSUME TypeOK, RowLife, NEW w \in Workers, CreateSnapshot(w)
    PROVE  RowLife'
<1>1. nextId \in Ids /\ nextId' = nextId + 1
  BY DEF CreateSnapshot, TypeOK, DbType, Ids
<1>2. /\ rows'[nextId].status = "importing"
      /\ \A i \in Ids \ {nextId} : rows'[i] = rows[i]
  BY <1>1 DEF CreateSnapshot, TypeOK, DbType
<1>3. snap'[w] = nextId /\ \A v \in Workers \ {w} : snap'[v] = snap[v]
  BY DEF CreateSnapshot, TypeOK, LocalType
<1>4. \A v \in Workers \ {w} : pc'[v] = pc[v]
  BY DEF CreateSnapshot, Goto, TypeOK, ControlType
<1>5. \A v \in Workers : snap[v] \in Nat /\ snap[v] < nextId
  BY DEF TypeOK, LocalType, RowLife
<1>6. \A i \in Ids : i \in Nat BY DEF Ids
<1>7. \A i \in Ids : rows'[i].status = "none" <=> i >= nextId'
  BY <1>1, <1>2, <1>6 DEF RowLife
<1>8. \A v \in Workers : snap'[v] < nextId' BY <1>1, <1>3, <1>5, <1>6
<1>9. \A v, o \in Workers : v # o /\ snap'[v] # 0 => snap'[v] # snap'[o]
  BY <1>1, <1>3, <1>5, <1>6 DEF RowLife
<1>10. \A v \in Workers :
         pc'[v] \in InTx => rows'[snap'[v]].status = "importing"
  <2> SUFFICES ASSUME NEW v \in Workers \ {w}, pc[v] \in InTx
               PROVE  rows'[snap[v]].status = "importing"
    BY <1>2, <1>3, <1>4
  <2>1. snap[v] \in Ids BY DEF TypeOK, SnapKnown
  <2> QED BY <2>1, <1>2, <1>5, <1>6 DEF RowLife
<1>11. live' = live BY DEF CreateSnapshot
<1>12. \A d \in Datasets :
         live'[d] \in Ids => rows'[live'[d]].status \in {"ready", "failed"}
  <2> SUFFICES ASSUME NEW d \in Datasets, live[d] \in Ids
               PROVE  rows'[live[d]].status \in {"ready", "failed"}
    BY <1>11
  <2>1. rows[live[d]].status \in {"ready", "failed"} BY DEF RowLife
  <2>2. rows[nextId].status = "none" BY <1>1, <1>6 DEF RowLife
  <2> QED BY <2>1, <2>2, <1>2
<1> QED BY <1>7, <1>8, <1>9, <1>10, <1>12 DEF RowLife

\* The row of a pass leaves "importing" for good, and the pass its transaction.
LEMMA OwnRowEnds ==
    ASSUME TypeOK, RowLife, NEW w \in Workers, snap[w] \in Ids,
           \A i \in Ids : rows'[i].status =
               IF i = snap[w] THEN rows'[snap[w]].status ELSE rows[i].status,
           rows'[snap[w]].status \in {"ready", "failed"},
           nextId' = nextId,
           \A d \in Datasets : live'[d] \in {live[d], snap[w]},
           snap'[w] \in {snap[w], 0}, pc'[w] \notin InTx,
           \A v \in Workers \ {w} : pc'[v] = pc[v] /\ snap'[v] = snap[v]
    PROVE  RowLife'
<1>1. snap[w] \in Nat \ {0} /\ snap[w] < nextId /\ nextId \in Nat
  BY DEF TypeOK, DbType, RowLife, Ids
<1>2. \A i \in Ids : rows'[i].status = "none" <=> i >= nextId'
  BY <1>1 DEF RowLife
<1>3. \A v \in Workers : snap'[v] < nextId'
  BY <1>1 DEF RowLife
<1>4. \A v, o \in Workers : v # o /\ snap'[v] # 0 => snap'[v] # snap'[o]
  BY <1>1 DEF RowLife
<1>5. \A v \in Workers :
        pc'[v] \in InTx => rows'[snap'[v]].status = "importing"
  <2> SUFFICES ASSUME NEW v \in Workers \ {w}, pc[v] \in InTx
               PROVE  rows'[snap[v]].status = "importing"
    OBVIOUS
  <2>1. snap[v] \in Ids /\ snap[v] # snap[w]
    BY <1>1 DEF TypeOK, SnapKnown, RowLife
  <2> QED BY <2>1 DEF RowLife
<1>6. \A d \in Datasets :
        live'[d] \in Ids => rows'[live'[d]].status \in {"ready", "failed"}
  BY DEF RowLife
<1> QED BY <1>2, <1>3, <1>4, <1>5, <1>6 DEF RowLife

LEMMA MarkFailedLife ==
    ASSUME TypeOK, RowLife, NEW w \in Workers, MarkFailed(w)
    PROVE  RowLife'
<1>1. snap[w] \in Ids BY DEF MarkFailed, TypeOK, SnapKnown
<1>2. /\ rows'[snap[w]].status = "failed"
      /\ \A i \in Ids \ {snap[w]} : rows'[i] = rows[i]
  BY <1>1 DEF MarkFailed, TypeOK, DbType, Row
<1>3. nextId' = nextId /\ live' = live BY DEF MarkFailed
<1>4. /\ snap'[w] = 0 /\ pc'[w] = "idle"
      /\ \A v \in Workers \ {w} : pc'[v] = pc[v] /\ snap'[v] = snap[v]
  BY DEF MarkFailed, Return, Goto, TypeOK, ControlType, LocalType
<1>5. "idle" \notin InTx BY DEF InTx, Filling
<1> QED BY <1>1, <1>2, <1>3, <1>4, <1>5, OwnRowEnds

\* What a COMMIT leaves, whether its reply arrives or not.
Committed(w) ==
    /\ snap[w] \in Ids
    /\ \A d \in Datasets :
          live'[d] = snap[w] /\ sync'[d].snapshot = snap[w]
    /\ rows'[snap[w]] = [status |-> "ready", active |-> TRUE,
                         counts |-> snap[w]]
    /\ \A i \in Ids \ {snap[w]} : rows'[i].status = rows[i].status

LEMMA CommitShape ==
    ASSUME TypeOK, LockInv, NEW w \in Workers, Commit(w) \/ CommitReplyLost(w)
    PROVE  /\ Committed(w) /\ pc[w] = "commit" /\ pc'[w] \notin InTx
           /\ nextId' = nextId /\ snap' = snap
           /\ \A v \in Workers \ {w} : pc'[v] = pc[v]
<1>1. pc[w] = "commit" /\ ApplyTx(w) BY DEF Commit, CommitReplyLost
<1>2. snap[w] \in Ids BY <1>1 DEF TypeOK, SnapKnown, InTx
<1>3. /\ tx[w].placed = Datasets /\ tx[w].recorded = Datasets
      /\ tx[w].finalized
  BY <1>1 DEF LockInv, LoopShape, Placed
<1>4. \A d \in Datasets : live'[d] = snap[w] /\ sync'[d].snapshot = snap[w]
  BY <1>1, <1>3 DEF ApplyTx
<1>5. rows'[snap[w]] = [status |-> "ready", active |-> TRUE,
                        counts |-> snap[w]]
  BY <1>1, <1>2, <1>3 DEF ApplyTx
<1>6. \A i \in Ids \ {snap[w]} : rows'[i].status = rows[i].status
  BY <1>1 DEF ApplyTx, TypeOK, DbType, Row
<1>7. nextId' = nextId /\ snap' = snap
  BY <1>1 DEF ApplyTx, Commit, CommitReplyLost
<1>8. pc'[w] \notin InTx /\ \A v \in Workers \ {w} : pc'[v] = pc[v]
  BY DEF Commit, CommitReplyLost, Goto, InTx, Filling, TypeOK, ControlType
<1> QED BY <1>1, <1>2, <1>4, <1>5, <1>6, <1>7, <1>8 DEF Committed

LEMMA NextLife ==
    TypeOK /\ LockInv /\ RowLife /\ [Next]_vars => RowLife'
<1> SUFFICES ASSUME TypeOK, LockInv, RowLife, [Next]_vars PROVE RowLife'
  OBVIOUS
<1>1. ASSUME NEW w \in Workers, Commit(w) \/ CommitReplyLost(w)
      PROVE  RowLife'
  <2>1. /\ Committed(w) /\ pc'[w] \notin InTx
        /\ nextId' = nextId /\ snap' = snap
        /\ \A v \in Workers \ {w} : pc'[v] = pc[v]
    BY <1>1, CommitShape
  <2> QED BY <2>1, OwnRowEnds DEF Committed
<1>2. ASSUME NEW w \in Workers, Step(w) PROVE RowLife'
  BY <1>1, <1>2, LifeQuietStep, QuietLife, CreateLife, MarkFailedLife
     DEF Step, Decide, Import, Finish
<1>3. ASSUME NEW w \in Workers, Failure(w) PROVE RowLife'
  BY <1>1, <1>3, LifeQuietStep, QuietLife DEF Failure
<1>4. CASE DatabaseCrash
  BY <1>4, QuietLife DEF DatabaseCrash, LifeQuiet, InTx, Filling
<1>5. CASE (\E d \in Datasets : Publish(d)) \/ UNCHANGED vars
  BY <1>5, QuietLife
     DEF Publish, LifeQuiet, vars, dbVars, workerVars
<1> QED BY <1>2, <1>3, <1>4, <1>5 DEF Next

-----------------------------------------------------------------------------
(* The refinement mapping, step by step *)

LEMMA StageIs ==
    ASSUME NEW i \in Ids
    PROVE  /\ (\E d \in Datasets : live[d] = i) => StageOf(i) = "served"
           /\ (\A d \in Datasets : live[d] # i) =>
                 /\ rows[i].status = "none" => StageOf(i) = "none"
                 /\ rows[i].status = "importing" => StageOf(i) = "building"
                 /\ rows[i].status \in {"ready", "failed"} =>
                       StageOf(i) = "over"
BY DEF StageOf, Unserved

\* An active row is the only one, so LatestActive has no choice.
LEMMA OnlyLatest ==
    ASSUME NEW A \in SUBSET Ids, NEW i \in A, A = {i}
    PROVE  (CHOOSE k \in A \cup {0} : \A j \in A : j <= k) = i
<1>1. i \in Nat \ {0} BY DEF Ids
<1>2. \A k \in A \cup {0} : (\A j \in A : j <= k) <=> k = i BY <1>1
<1> QED BY <1>2

LEMMA InitPublication == Init => Publication!Init
<1> SUFFICES ASSUME Init PROVE Publication!Init OBVIOUS
<1>1. \A d \in Datasets : live[d] = 0 /\ sync[d].snapshot = 0
  BY DEF Init, Blank, NoSync
<1>2. \A i \in Ids : rows[i].status = "none" /\ ~rows[i].active
  BY DEF Init, NoRow
<1>3. \A i \in Ids : i # 0 BY DEF Ids
<1>4. \A i \in Ids : StageOf(i) = "none" BY <1>1, <1>2, <1>3, StageIs
<1>5. ActiveRows = {} BY <1>2 DEF ActiveRows
<1>6. LatestActive = 0 BY <1>5 DEF LatestActive
<1>7. live = [d \in Datasets |-> 0] BY DEF Init, Blank
<1> QED BY <1>1, <1>4, <1>6, <1>7 DEF Publication!Init

\* Rows, live tables and sync state are all the mapping looks at.
LEMMA SamePublication ==
    ASSUME UNCHANGED <<rows, live, sync>>
    PROVE  UNCHANGED Publication!pubVars
BY DEF Publication!pubVars, StageOf, LatestActive, ActiveRows

LEMMA CreateBegins ==
    ASSUME PubInv, NEW w \in Workers, CreateSnapshot(w)
    PROVE  \E i \in Ids : Publication!Begin(i)
<1> USE DEF PubInv, SyncInv, TypeOK
<1>1. PICK k \in Ids : k = nextId BY DEF CreateSnapshot, DbType, Ids
<1>2. live' = live /\ sync' = sync BY DEF CreateSnapshot
<1>3. /\ rows'[k].status = "importing" /\ ~rows'[k].active
      /\ \A i \in Ids \ {k} : rows'[i] = rows[i]
  BY <1>1 DEF CreateSnapshot, DbType
<1>4. rows[k].status = "none" BY <1>1 DEF RowLife, Ids
<1>5. \A d \in Datasets : live[d] # k BY <1>4 DEF RowLife
<1>6. StageOf(k) = "none" BY <1>4, <1>5 DEF StageOf, Unserved
<1>7. StageOf(k)' = "building" BY <1>2, <1>3, <1>5 DEF StageOf, Unserved
<1>8. \A i \in Ids \ {k} : StageOf(i)' = StageOf(i)
  BY <1>2, <1>3 DEF StageOf
<1>9. ActiveRows' = ActiveRows
  <2>1. ~rows[k].active BY <1>4 DEF RowInv, ActiveIsLive, ActiveRows
  <2> QED BY <2>1, <1>3 DEF ActiveRows
<1>10. LatestActive' = LatestActive BY <1>9 DEF LatestActive
<1> QED BY <1>2, <1>6, <1>7, <1>8, <1>10 DEF Publication!Begin

LEMMA CommitServes ==
    ASSUME PubInv, PubInv', NEW w \in Workers, Commit(w) \/ CommitReplyLost(w)
    PROVE  \E i \in Ids : Publication!Serve(i)
<1> USE DEF PubInv, SyncInv
<1>1. Committed(w) /\ pc[w] = "commit" BY CommitShape
<1>2. PICK k \in Ids : k = snap[w] BY <1>1 DEF Committed
<1>3. /\ \A d \in Datasets : live'[d] = k /\ sync'[d].snapshot = k
      /\ rows'[k].active
      /\ \A i \in Ids \ {k} : rows'[i].status = rows[i].status
  BY <1>1, <1>2 DEF Committed
<1>4. rows[k].status = "importing" BY <1>1, <1>2 DEF RowLife, InTx
<1>5. \A d \in Datasets : live[d] # k BY <1>4 DEF RowLife
<1>6. StageOf(k) = "building" BY <1>4, <1>5 DEF StageOf, Unserved
<1>7. StageOf(k)' = "served" BY <1>3, DatasetFacts DEF StageOf
<1>8. ASSUME NEW i \in Ids \ {k}
      PROVE  StageOf(i)' = IF StageOf(i) = "served" THEN "over" ELSE StageOf(i)
  <2>1. rows'[i].status = rows[i].status BY <1>3
  <2>2. \A d \in Datasets : live'[d] # i BY <1>3
  <2>3. StageOf(i)' = Unserved[rows[i].status] BY <2>1, <2>2 DEF StageOf
  <2>4. CASE \E d \in Datasets : live[d] = i
    <3>1. rows[i].status \in {"ready", "failed"} BY <2>4 DEF RowLife
    <3> QED BY <2>3, <2>4, <3>1 DEF StageOf, Unserved
  <2>5. CASE \A d \in Datasets : live[d] # i
    <3>1. StageOf(i)' = StageOf(i) BY <2>3, <2>5 DEF StageOf
    <3>2. rows[i].status \in {"none", "importing", "ready", "failed"}
      BY DEF TypeOK, DbType, Row
    <3>3. StageOf(i) # "served" BY <2>5, <3>2 DEF StageOf, Unserved
    <3> QED BY <3>1, <3>3
  <2> QED BY <2>4, <2>5
<1>9. LatestActive' = k
  <2>1. k \in ActiveRows' BY <1>3 DEF ActiveRows
  <2>2. ASSUME NEW i \in ActiveRows' PROVE i = k
    <3>1. \A d \in Datasets : live'[d] = i BY <2>2 DEF RowInv, ActiveIsLive
    <3> QED BY <3>1, <1>3, DatasetFacts
  <2>3. ActiveRows' = {k} BY <2>1, <2>2
  <2> QED BY <2>3, OnlyLatest DEF LatestActive
<1>10. live' = [d \in Datasets |-> k]
  BY <1>3 DEF TypeOK, DbType
<1>11. [d \in Datasets |-> sync[d].snapshot]' = [d \in Datasets |-> k]
  BY <1>3
<1> HIDE DEF PubInv, SyncInv
<1>12. [i \in Ids |-> StageOf(i)]' =
          [j \in Ids |-> IF j = k THEN "served"
                         ELSE IF StageOf(j) = "served" THEN "over"
                         ELSE StageOf(j)]
  BY <1>7, <1>8
<1> QED BY <1>6, <1>9, <1>10, <1>11, <1>12 DEF Publication!Serve

\* Steps that do not write what the mapping looks at.
LEMMA UnseenStep ==
    ASSUME NEW w \in Workers, Step(w) \/ Failure(w), ~Touch(w),
           ~CreateSnapshot(w), ~Commit(w), ~CommitReplyLost(w), ~MarkFailed(w)
    PROVE  UNCHANGED <<rows, live, sync>>
BY DEF Step, Decide, Import, Finish, Failure, StartSync, FetchMetadata,
       Compare, LoadActive, CopyDataset, DropPrevious, RenameLive,
       RenameConflict, PromoteShadow, Deactivate, Finalize, RecordSync,
       CleanupPrevious, AnalyzeTable, FetchMetadataBare, CleanupFails,
       AnalyzeFails, PassFails, ImportFails, Crash, dbVars

LEMMA TouchForgets ==
    ASSUME PubInv, NEW w \in Workers, Touch(w)
    PROVE  \E d \in Datasets : Publication!Forget(d)
<1>1. PICK d \in Datasets : d = next[w]
  BY DEF PubInv, SyncInv, TypeOK, ControlType
<1>2. UNCHANGED <<rows, live>> BY DEF Touch
<1>3. \A e \in Datasets :
        sync'[e].snapshot = IF e = d THEN 0 ELSE sync[e].snapshot
  BY <1>1 DEF Touch, PubInv, SyncInv, TypeOK, DbType
<1>4. \A i \in Ids : StageOf(i)' = StageOf(i) BY <1>2 DEF StageOf
<1>5. LatestActive' = LatestActive BY <1>2 DEF LatestActive, ActiveRows
<1> QED BY <1>2, <1>3, <1>4, <1>5 DEF Publication!Forget

\* A row marked failed was being built, or is served and loses its
\* announcement, or was over already.
LEMMA MarkFailedEnds ==
    ASSUME PubInv, PubInv', NEW w \in Workers, MarkFailed(w)
    PROVE  \/ \E i \in Ids : Publication!Abandon(i)
           \/ Publication!Withdraw
           \/ UNCHANGED Publication!pubVars
<1> USE DEF PubInv, SyncInv
<1>1. PICK k \in Ids : k = snap[w] BY DEF MarkFailed, TypeOK, SnapKnown
<1>2. /\ live' = live /\ sync' = sync
      /\ rows'[k].status = "failed" /\ ~rows'[k].active
      /\ \A i \in Ids \ {k} : rows'[i] = rows[i]
  BY <1>1 DEF MarkFailed, TypeOK, DbType, Row
<1>3. \A i \in Ids \ {k} : StageOf(i)' = StageOf(i) BY <1>2 DEF StageOf
<1>4. ActiveRows' = ActiveRows \ {k} BY <1>2 DEF ActiveRows
<1>5. CASE \E d \in Datasets : live[d] = k
  <2>1. StageOf(k)' = StageOf(k) BY <1>2, <1>5 DEF StageOf
  <2>2. \A i \in ActiveRows : i = k
    BY <1>5, DatasetFacts DEF RowInv, ActiveIsLive
  <2>3. LatestActive' = 0
    <3>1. ActiveRows' = {} BY <1>4, <2>2
    <3> QED BY <3>1 DEF LatestActive
  <2>4. \A i \in Ids : StageOf(i)' = StageOf(i) BY <1>3, <2>1
  <2> QED BY <1>2, <2>3, <2>4 DEF Publication!Withdraw
<1>6. CASE \A d \in Datasets : live[d] # k
  <2>1. k \notin ActiveRows
    BY <1>6, DatasetFacts DEF RowInv, ActiveIsLive
  <2>2. LatestActive' = LatestActive
    <3>1. ActiveRows' = ActiveRows BY <1>4, <2>1
    <3> QED BY <3>1 DEF LatestActive
  <2>3. StageOf(k)' = "over" BY <1>2, <1>6 DEF StageOf, Unserved
  <2>4. rows[k].status # "none"
    BY <1>1 DEF RowLife, TypeOK, DbType, LocalType, Ids
  <2>5. StageOf(k) \in {"building", "over"}
    BY <1>6, <2>4 DEF StageOf, Unserved, TypeOK, DbType, Row
  <2>6. CASE StageOf(k) = "building"
    BY <1>2, <1>3, <2>2, <2>3, <2>6 DEF Publication!Abandon
  <2>7. CASE StageOf(k) = "over"
    <3>1. \A i \in Ids : StageOf(i)' = StageOf(i) BY <1>3, <2>3, <2>7
    <3> QED BY <1>2, <2>2, <3>1 DEF Publication!pubVars
  <2> QED BY <2>5, <2>6, <2>7
<1> QED BY <1>5, <1>6

LEMMA NextPublication ==
    PubInv /\ PubInv' /\ [Next]_vars =>
        [Publication!Next]_(Publication!pubVars)
<1> SUFFICES ASSUME PubInv, PubInv', [Next]_vars
             PROVE  Publication!Next \/ UNCHANGED Publication!pubVars
  OBVIOUS
<1>1. ASSUME NEW w \in Workers, Step(w) \/ Failure(w)
      PROVE  Publication!Next \/ UNCHANGED Publication!pubVars
  <2>1. CASE Touch(w) BY <2>1, TouchForgets DEF Publication!Next
  <2>2. CASE CreateSnapshot(w) BY <2>2, CreateBegins DEF Publication!Next
  <2>3. CASE Commit(w) \/ CommitReplyLost(w)
    BY <2>3, CommitServes DEF Publication!Next
  <2>4. CASE MarkFailed(w) BY <2>4, MarkFailedEnds DEF Publication!Next
  <2> QED BY <1>1, <2>1, <2>2, <2>3, <2>4, UnseenStep, SamePublication
<1>2. CASE DatabaseCrash \/ (\E d \in Datasets : Publish(d)) \/ UNCHANGED vars
  <2>1. UNCHANGED <<rows, live, sync>>
    BY <1>2 DEF DatabaseCrash, Publish, vars, dbVars
  <2> QED BY <2>1, SamePublication
<1> QED BY <1>1, <1>2 DEF Next

LEMMA InitPubInv == Init => PubInv
<1> SUFFICES ASSUME Init PROVE PubInv OBVIOUS
<1>1. RowLife
  BY BoundsAssumption DEF Init, RowLife, NoRow, InTx, Filling, Blank, Ids
<1>2. LiveUniform /\ SyncedSnapshotIsLive
  BY DEF Init, LiveUniform, SyncedSnapshotIsLive, Blank, NoSync, NoTable
<1> QED BY <1>1, <1>2, InitSync DEF PubInv

LEMMA NextPubInv == PubInv /\ [Next]_vars => PubInv'
BY NextType, NextLocks, NextRows, NextPublished, NextLife
   DEF PubInv, SyncInv, OneSnapshot

\* The inductive invariant of publication, for any number of workers, datasets,
\* failures and restarts: promotions are serialized, tables and sync state name
\* one snapshot, and a row is known to one pass only.
THEOREM PublicationInvariant == Spec => []PubInv
BY InitPubInv, NextPubInv, PTL DEF Spec

\* The passes of any number of workers, with all their failures, implement the
\* atomic replacement of one served snapshot by the next.
THEOREM SyncImplementsPublication == Spec => PublicationSpec
<1>1. PubInv /\ PubInv' /\ [Next]_vars =>
          [Publication!Next]_(Publication!pubVars)
  BY NextPublication
<1> QED BY <1>1, InitPublication, PublicationInvariant, PTL
        DEF Spec, PublicationSpec, Publication!Spec

=============================================================================
