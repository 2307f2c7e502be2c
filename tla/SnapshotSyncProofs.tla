------------------------- MODULE SnapshotSyncProofs -------------------------
(* What SnapshotSync guarantees for every number of workers and datasets. *)
EXTENDS SnapshotSync, TLAPS

-----------------------------------------------------------------------------
(* Type correctness *)

LEMMA DatasetFacts ==
    /\ Datasets # {}
    /\ 1 \in Datasets
    /\ NumDatasets \in Datasets
    /\ \A d \in Datasets : d \in Nat /\ d <= NumDatasets
    /\ \A d \in Datasets : d # NumDatasets => d + 1 \in Datasets
<1>1. NumDatasets \in Nat /\ 1 <= NumDatasets BY BoundsAssumption
<1>2. 1 \in Datasets /\ NumDatasets \in Datasets BY <1>1 DEF Datasets
<1> QED BY <1>1, <1>2 DEF Datasets

LEMMA ValueFacts ==
    /\ Blank \in [Datasets -> Versions]
    /\ NoTx \in Tx
    /\ 0 \in Versions /\ 1 \in Versions
    /\ 0 \in 0..MaxSnapshots
    /\ Ids \subseteq 0..MaxSnapshots
    /\ {0, NoTable} \subseteq Tables
    /\ Ids \subseteq Tables
BY BoundsAssumption DEF Blank, Versions, NoTx, Tx, Ids, Tables

LEMMA LabelNames ==
    /\ {"idle", "head", "compare", "touch", "loadActive", "create", "copy",
        "dropPrevious", "renameLive", "promote", "deactivate", "finalize",
        "record", "commit", "cleanup", "analyze", "markFailed"} = Labels
    /\ InTx \subseteq Labels
BY DEF Labels, Outside, InTx, Filling

\* Control: a jump and the end of a loop body keep pc and next in their types.
LEMMA GotoType ==
    ASSUME ControlType, NEW w \in Workers, NEW l \in Labels, Goto(w, l)
    PROVE  ControlType' /\ pc' = [pc EXCEPT ![w] = l]
BY DatasetFacts DEF ControlType, Goto

LEMMA AdvanceType ==
    ASSUME ControlType, NEW w \in Workers, NEW l \in Labels, Advance(w, l)
    PROVE  ControlType' /\ pc' \in {pc, [pc EXCEPT ![w] = l]}
BY DatasetFacts DEF ControlType, Advance, Goto

LEMMA ReturnType ==
    ASSUME ControlType, LocalType, NEW w \in Workers, Return(w)
    PROVE  /\ ControlType' /\ LocalType'
           /\ pc' = [pc EXCEPT ![w] = "idle"]
           /\ \A o \in Workers \ {w} : snap'[o] = snap[o]
BY DatasetFacts, ValueFacts, LabelNames
   DEF ControlType, LocalType, Return, Goto

\* A pass in the last loop of a branch goes on or returns.
LEMMA LoopsOrReturns ==
    ASSUME ControlType, LocalType, SnapKnown, NEW w \in Workers,
           \/ Return(w)
           \/ pc' = pc /\ UNCHANGED snap
           \/ Goto(w, "idle") /\ UNCHANGED snap
    PROVE  SnapKnown'
<1>1. \A o \in Workers : \/ pc'[o] = pc[o] /\ snap'[o] = snap[o]
                       \/ pc'[o] = "idle"
  <2>1. CASE Return(w)
    BY <2>1 DEF Return, Goto, ControlType, LocalType
  <2>2. CASE pc' = pc /\ UNCHANGED snap
    BY <2>2
  <2>3. CASE Goto(w, "idle") /\ UNCHANGED snap
    BY <2>3 DEF Goto, ControlType
  <2> QED BY <2>1, <2>2, <2>3
<1>2. "idle" \notin InTx \cup {"cleanup", "analyze", "markFailed"}
  BY DEF InTx, Filling
<1> QED BY <1>1, <1>2 DEF SnapKnown

\* A statement of the transaction leaves its trace in tx.
LEMMA TxWritten ==
    ASSUME TxType, NEW w \in Workers
    PROVE  /\ \A b \in BOOLEAN : [tx[w] EXCEPT !.dropped = b] \in Tx
           /\ \A d \in Datasets :
                [tx[w] EXCEPT !.recorded = tx[w].recorded \cup {d}] \in Tx
           /\ \A t \in Tx : [tx EXCEPT ![w] = t] \in [Workers -> Tx]
<1>1. tx[w] \in Tx
  BY DEF TxType
<1>2. \A b \in BOOLEAN : [tx[w] EXCEPT !.dropped = b] \in Tx
  BY <1>1 DEF Tx
<1>3. \A d \in Datasets : [tx[w] EXCEPT !.recorded = tx[w].recorded \cup {d}] \in Tx
  BY <1>1 DEF Tx
<1>4. \A t \in Tx : [tx EXCEPT ![w] = t] \in [Workers -> Tx]
  BY DEF TxType
<1> QED BY <1>2, <1>3, <1>4

LEMMA InitType == Init => TypeOK
<1> SUFFICES ASSUME Init PROVE TypeOK OBVIOUS
<1> USE DatasetFacts, ValueFacts, LabelNames, BoundsAssumption DEF Init
<1>1. EnvType BY DEF EnvType
<1>2. DbType
  <2>1. NoRow \in Row /\ NoSync \in Sync BY DEF NoRow, NoSync, Row, Sync
  <2>2. Blank \in [Datasets -> Tables] BY DEF Blank
  <2> QED BY <2>1, <2>2 DEF DbType
<1>3. ControlType BY DEF ControlType
<1>4. LocalType BY DEF LocalType
<1>5. TxType BY DEF TxType
<1>6. SnapKnown BY DEF SnapKnown, InTx, Filling
<1> QED BY <1>1, <1>2, <1>3, <1>4, <1>5, <1>6 DEF TypeOK

LEMMA ApplyType ==
    ASSUME TypeOK, NEW w \in Workers, pc[w] = "commit", ApplyTx(w)
    PROVE  DbType' /\ TxType'
<1> USE DatasetFacts, ValueFacts, BoundsAssumption
<1>1. snap[w] \in Ids BY DEF TypeOK, SnapKnown, InTx
<1>2. live' \in [Datasets -> Tables] /\ previous' \in [Datasets -> Tables]
  BY <1>1 DEF ApplyTx, TypeOK, DbType
<1>3. data' \in [Datasets -> Versions]
  BY DEF ApplyTx, TypeOK, DbType, LocalType
<1>4. rows' \in [Ids -> Row]
  <2>1. \A i \in Ids :
            [status |-> "ready", active |-> TRUE, counts |-> i] \in Row
    BY DEF Row
  <2>2. \A i \in Ids : [rows[i] EXCEPT !.active = FALSE] \in Row
    BY DEF TypeOK, DbType, Row
  <2> QED BY <2>1, <2>2 DEF ApplyTx, TypeOK, DbType
<1>5. sync' \in [Datasets -> Sync]
  <2>1. \A d \in Datasets :
            [validator |-> remote[w][d], snapshot |-> snap[w]] \in Sync
    BY <1>1 DEF TypeOK, LocalType, Sync
  <2> QED BY <2>1 DEF ApplyTx, TypeOK, DbType
<1>6. nextId' \in 1..(MaxSnapshots + 1) BY DEF ApplyTx, TypeOK, DbType
<1>7. TxType' BY DEF ApplyTx, TypeOK, TxType
<1> QED BY <1>2, <1>3, <1>4, <1>5, <1>6, <1>7 DEF DbType

LEMMA StepType == ASSUME TypeOK, NEW w \in Workers, Step(w) PROVE TypeOK'
<1> USE DatasetFacts, ValueFacts, BoundsAssumption DEF envVars, dbVars
<1>1. CASE StartSync(w)
  <2>1. EnvType' BY <1>1 DEF StartSync, TypeOK, EnvType
  <2>2. DbType' BY <1>1 DEF StartSync, TypeOK, DbType
  <2>3. ControlType' BY <1>1, GotoType, LabelNames DEF StartSync, TypeOK
  <2>4. LocalType' BY <1>1 DEF StartSync, TypeOK, LocalType
  <2>5. TxType' BY <1>1 DEF StartSync, TypeOK, TxType
  <2>6. SnapKnown' BY <1>1 DEF StartSync, TypeOK, SnapKnown, ControlType,
      DbType, LocalType, Goto, InTx, Filling
  <2> QED BY <2>1, <2>2, <2>3, <2>4, <2>5, <2>6 DEF TypeOK
<1>2. CASE FetchMetadata(w)
  <2>1. EnvType' BY <1>2 DEF FetchMetadata, TypeOK, EnvType
  <2>2. DbType' BY <1>2 DEF FetchMetadata, TypeOK, DbType
  <2>3. ControlType' BY <1>2, AdvanceType, LabelNames DEF FetchMetadata,
      TypeOK
  <2>4. LocalType' BY <1>2 DEF FetchMetadata, TypeOK, LocalType, EnvType,
      ControlType
  <2>5. TxType' BY <1>2 DEF FetchMetadata, TypeOK, TxType
  <2>6. SnapKnown' BY <1>2 DEF FetchMetadata, TypeOK, SnapKnown, ControlType,
      DbType, LocalType, Advance, Goto, InTx, Filling
  <2> QED BY <2>1, <2>2, <2>3, <2>4, <2>5, <2>6 DEF TypeOK
<1>3. CASE Compare(w)
  <2>1. EnvType' BY <1>3 DEF Compare, TypeOK, EnvType
  <2>2. DbType' BY <1>3 DEF Compare, TypeOK, DbType
  <2>3. ControlType' BY <1>3, GotoType, LabelNames DEF Compare, TypeOK
  <2>4. LocalType' BY <1>3 DEF Compare, TypeOK, LocalType
  <2>5. TxType' BY <1>3 DEF Compare, TypeOK, TxType
  <2>6. SnapKnown' BY <1>3 DEF Compare, TypeOK, SnapKnown, ControlType,
      DbType, LocalType, Goto, InTx, Filling
  <2> QED BY <2>1, <2>2, <2>3, <2>4, <2>5, <2>6 DEF TypeOK
<1>4. CASE Touch(w)
  <2>1. EnvType' BY <1>4 DEF Touch, TypeOK, EnvType
  <2>2. DbType'
    <3>1. [validator |-> remote[w][next[w]], snapshot |-> 0] \in Sync
      <4>1. next[w] \in Datasets /\ remote[w] \in [Datasets -> Versions]
        BY DEF TypeOK, LocalType, ControlType
      <4>2. remote[w][next[w]] \in Versions BY <4>1
      <4> QED BY <4>2 DEF Sync
    <3> QED BY <1>4, <3>1 DEF Touch, TypeOK, DbType
  <2>3. ControlType' /\ LocalType' BY <1>4, ReturnType, AdvanceType,
      LabelNames DEF Touch, TypeOK, LocalType
  <2>5. TxType' BY <1>4 DEF Touch, TypeOK, TxType
  <2>6. SnapKnown' BY <1>4, LoopsOrReturns DEF Touch, TypeOK, Advance
  <2> QED BY <2>1, <2>2, <2>3, <2>5, <2>6 DEF TypeOK
<1>5. CASE LoadActive(w)
  <2>1. EnvType' BY <1>5 DEF LoadActive, TypeOK, EnvType
  <2>2. DbType' BY <1>5 DEF LoadActive, TypeOK, DbType
  <2>3. ControlType' BY <1>5, GotoType, LabelNames DEF LoadActive, TypeOK
  <2>4. LocalType' BY <1>5 DEF LoadActive, TypeOK, LocalType, DbType, Row,
      ActiveRows
  <2>5. TxType' BY <1>5 DEF LoadActive, TypeOK, TxType
  <2>6. SnapKnown' BY <1>5 DEF LoadActive, TypeOK, SnapKnown, ControlType,
      DbType, LocalType, Goto, InTx, Filling
  <2> QED BY <2>1, <2>2, <2>3, <2>4, <2>5, <2>6 DEF TypeOK
<1>6. CASE CreateSnapshot(w)
  <2>1. EnvType' BY <1>6 DEF CreateSnapshot, TypeOK, EnvType
  <2>2. DbType' BY <1>6 DEF CreateSnapshot, TypeOK, DbType, Row, Ids,
      LocalType
  <2>3. ControlType' BY <1>6, GotoType, LabelNames DEF CreateSnapshot, TypeOK
  <2>4. LocalType' BY <1>6 DEF CreateSnapshot, TypeOK, LocalType, DbType, Ids
  <2>5. TxType' BY <1>6 DEF CreateSnapshot, TypeOK, TxType
  <2>6. SnapKnown' BY <1>6 DEF CreateSnapshot, TypeOK, SnapKnown,
      ControlType, DbType, LocalType, Goto, InTx, Filling, Ids
  <2> QED BY <2>1, <2>2, <2>3, <2>4, <2>5, <2>6 DEF TypeOK
<1>7. CASE CopyDataset(w)
  <2>1. EnvType' BY <1>7 DEF CopyDataset, TypeOK, EnvType
  <2>2. DbType' BY <1>7 DEF CopyDataset, TypeOK, DbType
  <2>3. ControlType' BY <1>7, AdvanceType, LabelNames DEF CopyDataset, TypeOK
  <2>4. LocalType' BY <1>7 DEF CopyDataset, TypeOK, LocalType, EnvType,
      ControlType
  <2>5. TxType' BY <1>7 DEF CopyDataset, TypeOK, TxType
  <2>6. SnapKnown' BY <1>7 DEF CopyDataset, TypeOK, SnapKnown, ControlType,
      DbType, LocalType, Advance, Goto, InTx, Filling
  <2> QED BY <2>1, <2>2, <2>3, <2>4, <2>5, <2>6 DEF TypeOK
<1>8. CASE DropPrevious(w)
  <2>1. EnvType' BY <1>8 DEF DropPrevious, TypeOK, EnvType
  <2>2. DbType' BY <1>8 DEF DropPrevious, TypeOK, DbType
  <2>3. ControlType' BY <1>8, GotoType, LabelNames DEF DropPrevious, TypeOK
  <2>4. LocalType' BY <1>8 DEF DropPrevious, TypeOK, LocalType
  <2>5. TxType'
    <3>1. BackupExists \in BOOLEAN BY DEF BackupExists
    <3>2. tx' = [tx EXCEPT ![w] = [tx[w] EXCEPT !.dropped = BackupExists]]
      BY <1>8 DEF DropPrevious, SetTx
    <3> QED BY <3>1, <3>2, TxWritten DEF TypeOK, TxType
  <2>6. SnapKnown' BY <1>8 DEF DropPrevious, TypeOK, SnapKnown, ControlType,
      DbType, LocalType, Goto, InTx, Filling
  <2> QED BY <2>1, <2>2, <2>3, <2>4, <2>5, <2>6 DEF TypeOK
<1>9. CASE RenameLive(w)
  <2>1. EnvType' BY <1>9 DEF RenameLive, TypeOK, EnvType
  <2>2. DbType' BY <1>9 DEF RenameLive, TypeOK, DbType
  <2>3. ControlType' BY <1>9, AdvanceType, LabelNames DEF RenameLive, TypeOK
  <2>4. LocalType' BY <1>9 DEF RenameLive, TypeOK, LocalType
  <2>5. TxType' BY <1>9 DEF RenameLive, TypeOK, TxType, SetTx, Tx, ControlType
  <2>6. SnapKnown' BY <1>9 DEF RenameLive, TypeOK, SnapKnown, ControlType,
      DbType, LocalType, Advance, Goto, InTx, Filling
  <2> QED BY <2>1, <2>2, <2>3, <2>4, <2>5, <2>6 DEF TypeOK
<1>10. CASE RenameConflict(w)
  <2>1. EnvType' BY <1>10 DEF RenameConflict, TypeOK, EnvType
  <2>2. DbType' BY <1>10 DEF RenameConflict, TypeOK, DbType
  <2>3. ControlType' BY <1>10, GotoType, LabelNames DEF RenameConflict,
      TypeOK, Rollback
  <2>4. LocalType' BY <1>10 DEF RenameConflict, TypeOK, LocalType
  <2>5. TxType' BY <1>10 DEF RenameConflict, TypeOK, TxType, Rollback
  <2>6. SnapKnown' BY <1>10 DEF RenameConflict, TypeOK, SnapKnown,
      ControlType, DbType, LocalType, Goto, Rollback, InTx, Filling
  <2> QED BY <2>1, <2>2, <2>3, <2>4, <2>5, <2>6 DEF TypeOK
<1>11. CASE PromoteShadow(w)
  <2>1. EnvType' BY <1>11 DEF PromoteShadow, TypeOK, EnvType
  <2>2. DbType' BY <1>11 DEF PromoteShadow, TypeOK, DbType
  <2>3. ControlType' BY <1>11, AdvanceType, LabelNames DEF PromoteShadow,
      TypeOK
  <2>4. LocalType' BY <1>11 DEF PromoteShadow, TypeOK, LocalType
  <2>5. TxType' BY <1>11 DEF PromoteShadow, TypeOK, TxType, SetTx, Tx,
      ControlType
  <2>6. SnapKnown' BY <1>11 DEF PromoteShadow, TypeOK, SnapKnown,
      ControlType, DbType, LocalType, Advance, Goto, InTx, Filling
  <2> QED BY <2>1, <2>2, <2>3, <2>4, <2>5, <2>6 DEF TypeOK
<1>12. CASE Deactivate(w)
  <2>1. EnvType' BY <1>12 DEF Deactivate, TypeOK, EnvType
  <2>2. DbType' BY <1>12 DEF Deactivate, TypeOK, DbType
  <2>3. ControlType' BY <1>12, GotoType, LabelNames DEF Deactivate, TypeOK
  <2>4. LocalType' BY <1>12 DEF Deactivate, TypeOK, LocalType
  <2>5. TxType' BY <1>12 DEF Deactivate, TypeOK, TxType, SetTx, Tx
  <2>6. SnapKnown' BY <1>12 DEF Deactivate, TypeOK, SnapKnown, ControlType,
      DbType, LocalType, Goto, InTx, Filling
  <2> QED BY <2>1, <2>2, <2>3, <2>4, <2>5, <2>6 DEF TypeOK
<1>13. CASE Finalize(w)
  <2>1. EnvType' BY <1>13 DEF Finalize, TypeOK, EnvType
  <2>2. DbType' BY <1>13 DEF Finalize, TypeOK, DbType
  <2>3. ControlType' BY <1>13, GotoType, LabelNames DEF Finalize, TypeOK
  <2>4. LocalType' BY <1>13 DEF Finalize, TypeOK, LocalType
  <2>5. TxType' BY <1>13 DEF Finalize, TypeOK, TxType, SetTx, Tx
  <2>6. SnapKnown' BY <1>13 DEF Finalize, TypeOK, SnapKnown, ControlType,
      DbType, LocalType, Goto, InTx, Filling
  <2> QED BY <2>1, <2>2, <2>3, <2>4, <2>5, <2>6 DEF TypeOK
<1>14. CASE RecordSync(w)
  <2>1. EnvType' BY <1>14 DEF RecordSync, TypeOK, EnvType
  <2>2. DbType' BY <1>14 DEF RecordSync, TypeOK, DbType
  <2>3. ControlType' BY <1>14, AdvanceType, LabelNames DEF RecordSync, TypeOK
  <2>4. LocalType' BY <1>14 DEF RecordSync, TypeOK, LocalType
  <2>5. TxType'
    <3>1. next[w] \in Datasets BY DEF TypeOK, ControlType
    <3>2. tx' = [tx EXCEPT ![w] = [tx[w] EXCEPT
                   !.recorded = tx[w].recorded \cup {next[w]}]]
      BY <1>14 DEF RecordSync, SetTx
    <3> QED BY <3>1, <3>2, TxWritten DEF TypeOK, TxType
  <2>6. SnapKnown' BY <1>14 DEF RecordSync, TypeOK, SnapKnown, ControlType,
      DbType, LocalType, Advance, Goto, InTx, Filling
  <2> QED BY <2>1, <2>2, <2>3, <2>4, <2>5, <2>6 DEF TypeOK
<1>15. CASE Commit(w)
  <2>1. EnvType' BY <1>15 DEF Commit, TypeOK, EnvType
  <2>2. DbType' BY <1>15, ApplyType DEF Commit
  <2>3. ControlType' BY <1>15, GotoType, LabelNames DEF Commit, TypeOK
  <2>4. LocalType' BY <1>15 DEF Commit, TypeOK, LocalType
  <2>5. TxType' BY <1>15, ApplyType DEF Commit
  <2>6. SnapKnown' BY <1>15 DEF Commit, TypeOK, SnapKnown, ControlType,
      DbType, LocalType, Goto, InTx, Filling
  <2> QED BY <2>1, <2>2, <2>3, <2>4, <2>5, <2>6 DEF TypeOK
<1>16. CASE CleanupPrevious(w)
  <2>1. EnvType' BY <1>16 DEF CleanupPrevious, TypeOK, EnvType
  <2>2. DbType' BY <1>16 DEF CleanupPrevious, TypeOK, DbType
  <2>3. ControlType' BY <1>16, GotoType, LabelNames DEF CleanupPrevious,
      TypeOK
  <2>4. LocalType' BY <1>16 DEF CleanupPrevious, TypeOK, LocalType
  <2>5. TxType' BY <1>16 DEF CleanupPrevious, TypeOK, TxType
  <2>6. SnapKnown' BY <1>16 DEF CleanupPrevious, TypeOK, SnapKnown,
      ControlType, DbType, LocalType, Goto, InTx, Filling
  <2> QED BY <2>1, <2>2, <2>3, <2>4, <2>5, <2>6 DEF TypeOK
<1>17. CASE AnalyzeTable(w)
  <2>1. EnvType' BY <1>17 DEF AnalyzeTable, TypeOK, EnvType
  <2>2. DbType' BY <1>17 DEF AnalyzeTable, TypeOK, DbType
  <2>3. ControlType' /\ LocalType' BY <1>17, ReturnType, AdvanceType,
      LabelNames DEF AnalyzeTable, TypeOK, LocalType
  <2>5. TxType' BY <1>17 DEF AnalyzeTable, TypeOK, TxType
  <2>6. SnapKnown' BY <1>17, LoopsOrReturns DEF AnalyzeTable, TypeOK, Advance
  <2> QED BY <2>1, <2>2, <2>3, <2>5, <2>6 DEF TypeOK
<1>18. CASE MarkFailed(w)
  <2>1. EnvType' BY <1>18 DEF MarkFailed, TypeOK, EnvType
  <2>2. DbType' BY <1>18 DEF MarkFailed, TypeOK, DbType, Row, SnapKnown
  <2>3. ControlType' /\ LocalType' BY <1>18, ReturnType DEF MarkFailed, TypeOK
  <2>5. TxType' BY <1>18 DEF MarkFailed, TypeOK, TxType
  <2>6. SnapKnown' BY <1>18 DEF MarkFailed, TypeOK, SnapKnown, ControlType,
      DbType, LocalType, Return, Goto, InTx, Filling
  <2> QED BY <2>1, <2>2, <2>3, <2>5, <2>6 DEF TypeOK
<1> QED
  BY <1>1, <1>2, <1>3, <1>4, <1>5, <1>6, <1>7, <1>8, <1>9, <1>10, <1>11,
      <1>12, <1>13, <1>14, <1>15, <1>16, <1>17, <1>18
     DEF Step, Decide, Import, Finish

LEMMA FailureType == ASSUME TypeOK, NEW w \in Workers, Failure(w) PROVE
    TypeOK'
<1> USE DatasetFacts, ValueFacts, BoundsAssumption DEF envVars, dbVars
<1>1. CASE FetchMetadataBare(w)
  <2>1. EnvType' BY <1>1 DEF FetchMetadataBare, TypeOK, EnvType, Fault
  <2>2. DbType' BY <1>1 DEF FetchMetadataBare, TypeOK, DbType
  <2>3. ControlType' BY <1>1, AdvanceType, LabelNames DEF FetchMetadataBare,
      TypeOK
  <2>4. LocalType' BY <1>1 DEF FetchMetadataBare, TypeOK, LocalType,
      ControlType
  <2>5. TxType' BY <1>1 DEF FetchMetadataBare, TypeOK, TxType
  <2>6. SnapKnown' BY <1>1 DEF FetchMetadataBare, TypeOK, SnapKnown,
      ControlType, DbType, LocalType, Advance, Goto, InTx, Filling
  <2> QED BY <2>1, <2>2, <2>3, <2>4, <2>5, <2>6 DEF TypeOK
<1>2. CASE CommitReplyLost(w)
  <2>1. EnvType' BY <1>2 DEF CommitReplyLost, TypeOK, EnvType, Fault
  <2>2. DbType' BY <1>2, ApplyType DEF CommitReplyLost
  <2>3. ControlType' BY <1>2, GotoType, LabelNames DEF CommitReplyLost, TypeOK
  <2>4. LocalType' BY <1>2 DEF CommitReplyLost, TypeOK, LocalType
  <2>5. TxType' BY <1>2, ApplyType DEF CommitReplyLost
  <2>6. SnapKnown' BY <1>2 DEF CommitReplyLost, TypeOK, SnapKnown,
      ControlType, DbType, LocalType, Goto, InTx, Filling
  <2> QED BY <2>1, <2>2, <2>3, <2>4, <2>5, <2>6 DEF TypeOK
<1>3. CASE CleanupFails(w)
  <2>1. EnvType' BY <1>3 DEF CleanupFails, TypeOK, EnvType, Fault
  <2>2. DbType' BY <1>3 DEF CleanupFails, TypeOK, DbType
  <2>3. ControlType' BY <1>3, GotoType, LabelNames DEF CleanupFails, TypeOK
  <2>4. LocalType' BY <1>3 DEF CleanupFails, TypeOK, LocalType
  <2>5. TxType' BY <1>3 DEF CleanupFails, TypeOK, TxType
  <2>6. SnapKnown' BY <1>3 DEF CleanupFails, TypeOK, SnapKnown, ControlType,
      DbType, LocalType, Goto, InTx, Filling
  <2> QED BY <2>1, <2>2, <2>3, <2>4, <2>5, <2>6 DEF TypeOK
<1>4. CASE AnalyzeFails(w)
  <2>1. EnvType' BY <1>4 DEF AnalyzeFails, TypeOK, EnvType, Fault
  <2>2. DbType' BY <1>4 DEF AnalyzeFails, TypeOK, DbType
  <2>3. ControlType' BY <1>4, GotoType, LabelNames DEF AnalyzeFails, TypeOK
  <2>4. LocalType' BY <1>4 DEF AnalyzeFails, TypeOK, LocalType
  <2>5. TxType' BY <1>4 DEF AnalyzeFails, TypeOK, TxType
  <2>6. SnapKnown' BY <1>4 DEF AnalyzeFails, TypeOK, SnapKnown, ControlType,
      DbType, LocalType, Goto, InTx, Filling
  <2> QED BY <2>1, <2>2, <2>3, <2>4, <2>5, <2>6 DEF TypeOK
<1>5. CASE PassFails(w)
  <2>1. EnvType' BY <1>5 DEF PassFails, TypeOK, EnvType, Fault
  <2>2. DbType' BY <1>5 DEF PassFails, TypeOK, DbType
  <2>3. ControlType' /\ LocalType' BY <1>5, ReturnType DEF PassFails, TypeOK
  <2>5. TxType' BY <1>5 DEF PassFails, TypeOK, TxType
  <2>6. SnapKnown' BY <1>5 DEF PassFails, TypeOK, SnapKnown, ControlType,
      DbType, LocalType, Return, Goto, InTx, Filling
  <2> QED BY <2>1, <2>2, <2>3, <2>5, <2>6 DEF TypeOK
<1>6. CASE ImportFails(w)
  <2>1. EnvType' BY <1>6 DEF ImportFails, TypeOK, EnvType, Fault
  <2>2. DbType' BY <1>6 DEF ImportFails, TypeOK, DbType
  <2>3. ControlType' BY <1>6, GotoType, LabelNames DEF ImportFails, TypeOK,
      Rollback
  <2>4. LocalType' BY <1>6 DEF ImportFails, TypeOK, LocalType
  <2>5. TxType' BY <1>6 DEF ImportFails, TypeOK, TxType, Rollback
  <2>6. SnapKnown' BY <1>6 DEF ImportFails, TypeOK, SnapKnown, ControlType,
      DbType, LocalType, Goto, Rollback, InTx, Filling
  <2> QED BY <2>1, <2>2, <2>3, <2>4, <2>5, <2>6 DEF TypeOK
<1>7. CASE Crash(w)
  <2>1. EnvType' BY <1>7 DEF Crash, TypeOK, EnvType, Fault
  <2>2. DbType' BY <1>7 DEF Crash, TypeOK, DbType
  <2>3. ControlType' /\ LocalType' BY <1>7, ReturnType DEF Crash, TypeOK
  <2>5. TxType' BY <1>7 DEF Crash, TypeOK, TxType
  <2>6. SnapKnown' BY <1>7 DEF Crash, TypeOK, SnapKnown, ControlType, DbType,
      LocalType, Return, Goto, InTx, Filling
  <2> QED BY <2>1, <2>2, <2>3, <2>5, <2>6 DEF TypeOK
<1> QED
  BY <1>1, <1>2, <1>3, <1>4, <1>5, <1>6, <1>7
     DEF Failure

LEMMA EnvironmentType ==
    ASSUME TypeOK, DatabaseCrash \/ \E d \in Datasets : Publish(d)
    PROVE  TypeOK'
<1> USE DatasetFacts, ValueFacts, BoundsAssumption
<1>1. CASE DatabaseCrash
  <2>1. EnvType' BY <1>1 DEF DatabaseCrash, TypeOK, EnvType
  <2>2. DbType' BY <1>1 DEF DatabaseCrash, TypeOK, DbType
  <2>3. ControlType' BY <1>1, LabelNames DEF DatabaseCrash, TypeOK,
      ControlType
  <2>4. LocalType' BY <1>1 DEF DatabaseCrash, TypeOK, LocalType
  <2>5. TxType' BY <1>1 DEF DatabaseCrash, TypeOK, TxType
  <2>6. SnapKnown' BY <1>1 DEF DatabaseCrash, TypeOK, SnapKnown, ControlType
  <2> QED BY <2>1, <2>2, <2>3, <2>4, <2>5, <2>6 DEF TypeOK
<1>2. CASE \E d \in Datasets : Publish(d)
  BY <1>2 DEF Publish, TypeOK, EnvType, DbType, ControlType, LocalType,
              TxType, SnapKnown, Versions, dbVars, workerVars
<1> QED BY <1>1, <1>2

LEMMA NextType == TypeOK /\ [Next]_vars => TypeOK'
<1> SUFFICES ASSUME TypeOK, [Next]_vars PROVE TypeOK'
  OBVIOUS
<1>1. CASE UNCHANGED vars
  BY <1>1 DEF TypeOK, EnvType, DbType, ControlType, LocalType, TxType,
              SnapKnown, vars, envVars, dbVars, workerVars
<1>2. CASE Next
  BY <1>2, StepType, FailureType, EnvironmentType DEF Next
<1> QED BY <1>1, <1>2

\* Every variable of the worker and of the schema keeps its type, and a pass
\* that has created its row knows the row's id.
THEOREM TypeCorrect == Spec => []TypeOK
<1>1. Init => TypeOK BY InitType
<1>2. TypeOK /\ [Next]_vars => TypeOK' BY NextType
<1> QED BY <1>1, <1>2, PTL DEF Spec

-----------------------------------------------------------------------------
(* Locks and loops of the import transaction *)

\* The labels between which a pass holds no effect of its transaction that
\* LoopShape mentions.
Loose == Labels \ (Promoting \cup {"renameLive"})

LEMMA OneWorkerShape ==
    ASSUME LockInv, TypeOK, NEW w \in Workers, LoopShape(w)',
           \A o \in Workers \ {w} :
               /\ pc'[o] = pc[o] /\ next'[o] = next[o] /\ tx'[o] = tx[o]
               /\ tx'[w].moved \cap tx[o].moved = {}
    PROVE  LockInv'
<1>1. \A o \in Workers \ {w} : LoopShape(o)' BY DEF LockInv, LoopShape
<1>2. LocksDisjoint' BY DEF LockInv, LocksDisjoint
<1> QED BY <1>1, <1>2 DEF LockInv

LEMMA LooseShape ==
    ASSUME LockInv, TypeOK, NEW w \in Workers,
           pc[w] \in Loose, tx' = tx, NEW l \in Loose, pc'[w] = l,
           \A o \in Workers \ {w} : pc'[o] = pc[o] /\ next'[o] = next[o]
    PROVE  LockInv'
<1>1. LoopShape(w) BY DEF LockInv
<1>2. LoopShape(w)'
  BY <1>1 DEF LoopShape, Loose, Promoting, Placed
<1>3. \A o \in Workers \ {w} : tx'[w].moved \cap tx[o].moved = {}
  BY DEF LockInv, LocksDisjoint
<1> QED BY <1>2, <1>3, OneWorkerShape

LEMMA EmptyTx ==
    /\ NoTx.moved = {} /\ NoTx.placed = {} /\ NoTx.recorded = {}
    /\ ~NoTx.finalized
BY DEF NoTx

\* Rolling back gives up every lock.
LEMMA RollbackShape ==
    ASSUME LockInv, TypeOK, NEW w \in Workers,
           tx' = [tx EXCEPT ![w] = NoTx], NEW l \in Loose, pc'[w] = l,
           \A o \in Workers \ {w} : pc'[o] = pc[o] /\ next'[o] = next[o]
    PROVE  LockInv'
<1>1. tx'[w] = NoTx /\ \A o \in Workers \ {w} : tx'[o] = tx[o]
  BY DEF TypeOK, TxType
<1>2. LoopShape(w)' BY <1>1, EmptyTx DEF LoopShape, Loose, Promoting, Placed
<1>3. \A o \in Workers \ {w} : tx'[w].moved \cap tx[o].moved = {}
  BY <1>1 DEF NoTx
<1> QED BY <1>1, <1>2, <1>3, OneWorkerShape

LEMMA LooseLabels ==
    {"idle", "head", "compare", "touch", "loadActive", "create", "copy",
     "dropPrevious", "cleanup", "analyze", "markFailed"} = Loose
BY DEF Loose, Labels, Outside, InTx, Filling, Promoting

\* Actions that move one worker between loose labels.
LEMMA LooseStep ==
    ASSUME LockInv, TypeOK, NEW w \in Workers,
           \/ StartSync(w) \/ FetchMetadata(w) \/ Compare(w) \/ Touch(w)
           \/ LoadActive(w) \/ CreateSnapshot(w) \/ CopyDataset(w)
           \/ CleanupPrevious(w) \/ AnalyzeTable(w) \/ MarkFailed(w)
           \/ FetchMetadataBare(w) \/ CleanupFails(w) \/ AnalyzeFails(w)
           \/ PassFails(w)
    PROVE  LockInv'
<1>1. tx' = tx
  BY DEF StartSync, FetchMetadata, Compare, Touch, LoadActive, CreateSnapshot,
         CopyDataset, CleanupPrevious, AnalyzeTable, MarkFailed,
         FetchMetadataBare, CleanupFails, AnalyzeFails, PassFails
<1>2. pc[w] \in Loose
  BY LooseLabels
     DEF StartSync, FetchMetadata, Compare, Touch, LoadActive, CreateSnapshot,
         CopyDataset, CleanupPrevious, AnalyzeTable, MarkFailed,
         FetchMetadataBare, CleanupFails, AnalyzeFails, PassFails
<1>3. PICK l \in Loose :
        \/ Goto(w, l)
        \/ Advance(w, l)
        \/ Return(w)
  BY LooseLabels
     DEF StartSync, FetchMetadata, Compare, Touch, LoadActive, CreateSnapshot,
         CopyDataset, CleanupPrevious, AnalyzeTable, MarkFailed,
         FetchMetadataBare, CleanupFails, AnalyzeFails, PassFails
<1>4. /\ pc'[w] \in Loose
      /\ \A o \in Workers \ {w} : pc'[o] = pc[o] /\ next'[o] = next[o]
  BY <1>2, <1>3, LooseLabels
     DEF Goto, Advance, Return, TypeOK, ControlType
<1> QED BY <1>1, <1>2, <1>4, LooseShape

LEMMA DropPreviousLocks ==
    ASSUME LockInv, TypeOK, NEW w \in Workers, DropPrevious(w)
    PROVE  LockInv'
<1>1. /\ pc'[w] = "renameLive" /\ next'[w] = 1
      /\ tx'[w] = [tx[w] EXCEPT !.dropped = BackupExists]
      /\ \A o \in Workers \ {w} :
            pc'[o] = pc[o] /\ next'[o] = next[o] /\ tx'[o] = tx[o]
  BY DEF DropPrevious, SetTx, Goto, TypeOK, ControlType, TxType
<1>2. pc[w] = "dropPrevious" /\ LoopShape(w) BY DEF DropPrevious, LockInv
<1>3. {d \in Datasets : d < 1} = {} BY DEF Datasets
<1>4. LoopShape(w)'
  BY <1>1, <1>2, <1>3 DEF LoopShape, Promoting, Placed, TypeOK, TxType, Tx
<1>5. tx'[w].moved = {}
  BY <1>1, <1>2 DEF LoopShape, Promoting, TypeOK, TxType, Tx
<1> QED BY <1>1, <1>4, <1>5, OneWorkerShape

\* The set of datasets a loop has done, before and after one round of it.
LEMMA LoopRound ==
    ASSUME NEW k \in Datasets
    PROVE  /\ k = NumDatasets =>
                {d \in Datasets : d < k} \cup {k} = Datasets
           /\ {d \in Datasets : d < k} \cup {k}
                = {d \in Datasets : d < k + 1}
           /\ {d \in Datasets : d < 1} = {}
<1> USE BoundsAssumption DEF Datasets
<1>1. k = NumDatasets => {d \in Datasets : d < k} \cup {k} = Datasets OBVIOUS
<1>2. {d \in Datasets : d < k} \cup {k} = {d \in Datasets : d < k + 1} OBVIOUS
<1>3. {d \in Datasets : d < 1} = {} OBVIOUS
<1> QED BY <1>1, <1>2, <1>3

LEMMA RenameLiveLocks ==
    ASSUME LockInv, TypeOK, NEW w \in Workers, RenameLive(w)
    PROVE  LockInv'
<1> DEFINE d == next[w]
<1>1. d \in Datasets /\ pc[w] = "renameLive" /\ LoopShape(w)
  BY DEF RenameLive, TypeOK, ControlType, LockInv
<1>2. /\ tx'[w] = [tx[w] EXCEPT !.moved = tx[w].moved \cup {d}]
      /\ \A o \in Workers \ {w} :
            pc'[o] = pc[o] /\ next'[o] = next[o] /\ tx'[o] = tx[o]
  BY DEF RenameLive, SetTx, Advance, Goto, TypeOK, ControlType, TxType
<1>3. \/ d = NumDatasets /\ pc'[w] = "promote" /\ next'[w] = 1
      \/ pc'[w] = "renameLive" /\ next'[w] = d + 1
  BY <1>1 DEF RenameLive, Advance, Goto, TypeOK, ControlType
<1>4. /\ tx'[w].moved = tx[w].moved \cup {d}
      /\ tx'[w].placed = tx[w].placed
      /\ tx'[w].recorded = tx[w].recorded
      /\ tx'[w].finalized = tx[w].finalized
  BY <1>2 DEF TypeOK, TxType, Tx
<1>5. LoopShape(w)'
  BY <1>1, <1>3, <1>4, LoopRound DEF LoopShape, Promoting, Placed
<1>6. \A o \in Workers \ {w} : tx'[w].moved \cap tx[o].moved = {}
  BY <1>4 DEF LockInv, LocksDisjoint, RenameLive, LiveUnlocked, Others
<1> QED BY <1>2, <1>5, <1>6, OneWorkerShape

LEMMA PromoteShadowLocks ==
    ASSUME LockInv, TypeOK, NEW w \in Workers, PromoteShadow(w)
    PROVE  LockInv'
<1> DEFINE d == next[w]
<1>1. d \in Datasets /\ pc[w] = "promote" /\ LoopShape(w)
  BY DEF PromoteShadow, TypeOK, ControlType, LockInv
<1>2. /\ tx'[w] = [tx[w] EXCEPT !.placed = tx[w].placed \cup {d}]
      /\ \A o \in Workers \ {w} :
            pc'[o] = pc[o] /\ next'[o] = next[o] /\ tx'[o] = tx[o]
  BY DEF PromoteShadow, SetTx, Advance, Goto, TypeOK, ControlType, TxType
<1>3. \/ d = NumDatasets /\ pc'[w] = "deactivate" /\ next'[w] = 1
      \/ pc'[w] = "promote" /\ next'[w] = d + 1
  BY <1>1 DEF PromoteShadow, Advance, Goto, TypeOK, ControlType
<1>4. /\ tx'[w].moved = tx[w].moved
      /\ tx'[w].placed = tx[w].placed \cup {d}
      /\ tx'[w].recorded = tx[w].recorded
      /\ tx'[w].finalized = tx[w].finalized
  BY <1>2 DEF TypeOK, TxType, Tx
<1>5. LoopShape(w)'
  BY <1>1, <1>3, <1>4, LoopRound DEF LoopShape, Promoting, Placed
<1>6. \A o \in Workers \ {w} : tx'[w].moved \cap tx[o].moved = {}
  BY <1>4 DEF LockInv, LocksDisjoint
<1> QED BY <1>2, <1>5, <1>6, OneWorkerShape

LEMMA RecordSyncLocks ==
    ASSUME LockInv, TypeOK, NEW w \in Workers, RecordSync(w)
    PROVE  LockInv'
<1> DEFINE d == next[w]
<1>1. d \in Datasets /\ pc[w] = "record" /\ LoopShape(w)
  BY DEF RecordSync, TypeOK, ControlType, LockInv
<1>2. /\ tx'[w] = [tx[w] EXCEPT !.recorded = tx[w].recorded \cup {d}]
      /\ \A o \in Workers \ {w} :
            pc'[o] = pc[o] /\ next'[o] = next[o] /\ tx'[o] = tx[o]
  BY DEF RecordSync, SetTx, Advance, Goto, TypeOK, ControlType, TxType
<1>3. \/ d = NumDatasets /\ pc'[w] = "commit" /\ next'[w] = 1
      \/ pc'[w] = "record" /\ next'[w] = d + 1
  BY <1>1 DEF RecordSync, Advance, Goto, TypeOK, ControlType
<1>4. /\ tx'[w].moved = tx[w].moved
      /\ tx'[w].placed = tx[w].placed
      /\ tx'[w].recorded = tx[w].recorded \cup {d}
      /\ tx'[w].finalized = tx[w].finalized
  BY <1>2 DEF TypeOK, TxType, Tx
<1>5. LoopShape(w)'
  BY <1>1, <1>3, <1>4, LoopRound DEF LoopShape, Promoting, Placed
<1>6. \A o \in Workers \ {w} : tx'[w].moved \cap tx[o].moved = {}
  BY <1>4 DEF LockInv, LocksDisjoint
<1> QED BY <1>2, <1>5, <1>6, OneWorkerShape

LEMMA DeactivateLocks ==
    ASSUME LockInv, TypeOK, NEW w \in Workers, Deactivate(w)
    PROVE  LockInv'
<1>1. PICK S : tx' = [tx EXCEPT ![w]["deactivated"] = S]
  BY DEF Deactivate, SetTx
<1>2. /\ tx'[w].moved = tx[w].moved
      /\ tx'[w].placed = tx[w].placed
      /\ tx'[w].recorded = tx[w].recorded
      /\ tx'[w].finalized = tx[w].finalized
  BY <1>1 DEF TypeOK, TxType, Tx
<1>3. /\ pc[w] = "deactivate" /\ pc'[w] = "finalize" /\ next'[w] = 1
      /\ \A o \in Workers \ {w} :
            pc'[o] = pc[o] /\ next'[o] = next[o] /\ tx'[o] = tx[o]
  BY <1>1 DEF Deactivate, Goto, TypeOK, ControlType, TxType
<1>4. LoopShape(w) BY DEF LockInv
<1>5. LoopShape(w)' BY <1>2, <1>3, <1>4 DEF LoopShape, Promoting, Placed
<1>6. \A o \in Workers \ {w} : tx'[w].moved \cap tx[o].moved = {}
  BY <1>2 DEF LockInv, LocksDisjoint
<1> QED BY <1>3, <1>5, <1>6, OneWorkerShape

LEMMA FinalizeLocks ==
    ASSUME LockInv, TypeOK, NEW w \in Workers, Finalize(w)
    PROVE  LockInv'
<1>1. tx' = [tx EXCEPT ![w]["finalized"] = TRUE]
  BY DEF Finalize, SetTx
<1>2. /\ tx'[w].moved = tx[w].moved
      /\ tx'[w].placed = tx[w].placed
      /\ tx'[w].recorded = tx[w].recorded
      /\ tx'[w].finalized
  BY <1>1 DEF TypeOK, TxType, Tx
<1>3. /\ pc[w] = "finalize" /\ pc'[w] = "record" /\ next'[w] = 1
      /\ \A o \in Workers \ {w} :
            pc'[o] = pc[o] /\ next'[o] = next[o] /\ tx'[o] = tx[o]
  BY <1>1 DEF Finalize, Goto, TypeOK, ControlType, TxType
<1>4. LoopShape(w) BY DEF LockInv
<1>5. {d \in Datasets : d < 1} = {} BY DEF Datasets
<1>6. LoopShape(w)'
  BY <1>2, <1>3, <1>4, <1>5 DEF LoopShape, Promoting, Placed
<1>7. \A o \in Workers \ {w} : tx'[w].moved \cap tx[o].moved = {}
  BY <1>2 DEF LockInv, LocksDisjoint
<1> QED BY <1>3, <1>6, <1>7, OneWorkerShape

\* COMMIT, ROLLBACK and the death of the process all end the transaction.
LEMMA EndOfTxLocks ==
    ASSUME LockInv, TypeOK, NEW w \in Workers,
           \/ Commit(w) \/ CommitReplyLost(w) \/ RenameConflict(w)
           \/ ImportFails(w) \/ Crash(w)
    PROVE  LockInv'
<1>1. tx' = [tx EXCEPT ![w] = NoTx]
  BY DEF Commit, CommitReplyLost, RenameConflict, ImportFails, Crash,
         ApplyTx, Rollback
<1>2. /\ pc'[w] \in Loose
      /\ \A o \in Workers \ {w} : pc'[o] = pc[o] /\ next'[o] = next[o]
  BY LooseLabels
     DEF Commit, CommitReplyLost, RenameConflict, ImportFails, Crash,
         Rollback, Return, Goto, TypeOK, ControlType
<1> QED BY <1>1, <1>2, RollbackShape

LEMMA EnvironmentLocks ==
    ASSUME LockInv, TypeOK, DatabaseCrash \/ \E d \in Datasets : Publish(d)
    PROVE  LockInv'
<1>1. CASE DatabaseCrash
  <2>1. \A v \in Workers : tx'[v] = NoTx /\ pc'[v] \in Loose
    BY <1>1, LooseLabels
       DEF DatabaseCrash, TypeOK, ControlType, Labels, Outside
  <2>2. \A v \in Workers : LoopShape(v)'
    BY <2>1, EmptyTx DEF LoopShape, Loose, Promoting, Placed
  <2>3. LocksDisjoint' BY <2>1 DEF LocksDisjoint, NoTx
  <2> QED BY <2>2, <2>3 DEF LockInv
<1>2. CASE \E d \in Datasets : Publish(d)
  BY <1>2 DEF Publish, LockInv, LoopShape, LocksDisjoint, workerVars
<1> QED BY <1>1, <1>2

LEMMA NextLocks == TypeOK /\ LockInv /\ [Next]_vars => LockInv'
<1> SUFFICES ASSUME TypeOK, LockInv, [Next]_vars PROVE LockInv' OBVIOUS
<1>1. CASE UNCHANGED vars
  BY <1>1 DEF LockInv, LoopShape, LocksDisjoint, vars, workerVars
<1>2. ASSUME NEW w \in Workers, Step(w) PROVE LockInv'
  BY <1>2, LooseStep, DropPreviousLocks, RenameLiveLocks, PromoteShadowLocks,
     RecordSyncLocks, DeactivateLocks, FinalizeLocks, EndOfTxLocks
     DEF Step, Decide, Import, Finish
<1>3. ASSUME NEW w \in Workers, Failure(w) PROVE LockInv'
  BY <1>3, LooseStep, EndOfTxLocks DEF Failure
<1> QED BY <1>1, <1>2, <1>3, EnvironmentLocks DEF Next

-----------------------------------------------------------------------------
(* Snapshot rows and live tables *)

Final == {"finalize", "record", "commit"}

\* No row becomes active, no live table changes.
RowsKept ==
    /\ live' = live
    /\ \A i \in Ids : rows'[i].active => rows'[i] = rows[i]

\* No transaction gets past its deactivation statement.
DeactivationKept ==
    \A v \in Workers : pc'[v] \in Final =>
        /\ pc[v] \in Final
        /\ tx'[v].deactivated = tx[v].deactivated
        /\ snap'[v] = snap[v]

LEMMA QuietRows == ASSUME RowInv, RowsKept, DeactivationKept PROVE RowInv'
<1>1. \A i \in ActiveRows' : i \in ActiveRows /\ rows'[i] = rows[i]
  BY DEF ActiveRows, RowsKept
<1>2. ActiveIsLive' BY <1>1 DEF RowInv, ActiveIsLive, RowsKept
<1>3. DeactivationComplete'
  BY <1>1 DEF RowInv, DeactivationComplete, DeactivationKept, Final
<1> QED BY <1>2, <1>3 DEF RowInv

\* Actions that leave imdb_snapshots and the live tables alone.
LEMMA NoRowStep ==
    ASSUME TypeOK, NEW w \in Workers,
           \/ StartSync(w) \/ FetchMetadata(w) \/ Compare(w) \/ Touch(w)
           \/ LoadActive(w) \/ CopyDataset(w) \/ CleanupPrevious(w)
           \/ AnalyzeTable(w) \/ FetchMetadataBare(w) \/ CleanupFails(w)
           \/ AnalyzeFails(w) \/ PassFails(w)
    PROVE  RowsKept /\ DeactivationKept
<1> USE DEF StartSync, FetchMetadata, Compare, Touch, LoadActive, CopyDataset,
            CleanupPrevious, AnalyzeTable, FetchMetadataBare, CleanupFails,
            AnalyzeFails, PassFails
<1>1. rows' = rows /\ live' = live /\ tx' = tx BY DEF dbVars
<1>2. /\ pc'[w] \notin Final
      /\ \A v \in Workers \ {w} : pc'[v] = pc[v] /\ snap'[v] = snap[v]
  BY DEF Goto, Advance, Return, Final, TypeOK, ControlType, LocalType
<1> QED BY <1>1, <1>2 DEF RowsKept, DeactivationKept

\* Statements of the transaction before and after the deactivation, and every
\* way to abandon it.
LEMMA TxRowStep ==
    ASSUME TypeOK, NEW w \in Workers,
           \/ DropPrevious(w) \/ RenameLive(w) \/ RenameConflict(w)
           \/ PromoteShadow(w) \/ Finalize(w) \/ RecordSync(w)
           \/ ImportFails(w) \/ Crash(w)
    PROVE  RowsKept /\ DeactivationKept
<1> USE DEF DropPrevious, RenameLive, RenameConflict, PromoteShadow, Finalize,
            RecordSync, ImportFails, Crash
<1>1. rows' = rows /\ live' = live BY DEF dbVars
<1>2. \A v \in Workers \ {w} :
          pc'[v] = pc[v] /\ snap'[v] = snap[v] /\ tx'[v] = tx[v]
  BY DEF Goto, Advance, Return, Rollback, SetTx, TypeOK, ControlType,
         LocalType, TxType
<1>3. pc'[w] \in Final =>
        (Finalize(w) \/ RecordSync(w)) /\ pc[w] \in Final /\ snap'[w] = snap[w]
  BY DEF Goto, Advance, Return, Rollback, Final, TypeOK, ControlType
<1>4. Finalize(w) \/ RecordSync(w) =>
        tx'[w].deactivated = tx[w].deactivated
  BY DEF SetTx, TypeOK, TxType, Tx
<1> QED BY <1>1, <1>2, <1>3, <1>4 DEF RowsKept, DeactivationKept

\* A new row is inactive and markSnapshotFailed deactivates its row.
LEMMA RowStatement ==
    ASSUME TypeOK, NEW w \in Workers, CreateSnapshot(w) \/ MarkFailed(w)
    PROVE  RowsKept /\ DeactivationKept
<1>1. \A i \in Ids : rows'[i].active => rows'[i] = rows[i]
  BY DEF CreateSnapshot, MarkFailed, TypeOK, DbType, SnapKnown, Row
<1>2. /\ live' = live /\ tx' = tx /\ pc'[w] \notin Final
      /\ \A v \in Workers \ {w} : pc'[v] = pc[v] /\ snap'[v] = snap[v]
  BY DEF CreateSnapshot, MarkFailed, Goto, Return, Final, TypeOK, ControlType,
         LocalType
<1> QED BY <1>1, <1>2 DEF RowsKept, DeactivationKept

LEMMA DeactivateRows ==
    ASSUME TypeOK, RowInv, NEW w \in Workers, Deactivate(w)
    PROVE  RowInv'
<1> DEFINE others == {i \in Ids : rows[i].status # "none" /\ i # snap[w]}
<1>1. rows' = rows /\ live' = live /\ snap' = snap
  BY DEF Deactivate, dbVars
<1>2. tx'[w].deactivated = others
  BY DEF Deactivate, SetTx, TypeOK, TxType, Tx
<1>3. \A v \in Workers \ {w} : pc'[v] = pc[v] /\ tx'[v] = tx[v]
  BY DEF Deactivate, SetTx, Goto, TypeOK, ControlType, TxType
<1>4. ActiveIsLive' BY <1>1 DEF RowInv, ActiveIsLive, ActiveRows
<1>5. \A i \in ActiveRows : i \in others \/ i = snap[w]
  BY DEF RowInv, ActiveIsLive, ActiveRows
<1>6. DeactivationComplete'
  BY <1>1, <1>2, <1>3, <1>5
     DEF RowInv, DeactivationComplete, ActiveRows
<1> QED BY <1>4, <1>6 DEF RowInv

\* The heart of the argument: at COMMIT every live table becomes the new
\* snapshot's, every active row but its own is switched off, and no other
\* transaction is past its deactivation statement, because this one still
\* holds the locks on the live tables.
LEMMA CommitRows ==
    ASSUME TypeOK, LockInv, RowInv, NEW w \in Workers, pc[w] = "commit",
           ApplyTx(w), UNCHANGED snap, pc'[w] \notin Final,
           \A v \in Workers \ {w} : pc'[v] = pc[v]
    PROVE  RowInv'
<1>1. /\ tx[w].moved = Datasets /\ tx[w].placed = Datasets
      /\ tx[w].finalized
  BY DEF LockInv, LoopShape, Promoting, Placed
<1>2. snap[w] \in Ids BY DEF TypeOK, SnapKnown, InTx
<1>3. \A d \in Datasets : live'[d] = snap[w] BY <1>1 DEF ApplyTx
<1>4. rows'[snap[w]] = [status |-> "ready", active |-> TRUE,
                        counts |-> snap[w]]
  BY <1>1, <1>2 DEF ApplyTx
<1>5. \A i \in Ids \ {snap[w]} : ~rows'[i].active
  <2> SUFFICES ASSUME NEW i \in Ids \ {snap[w]} PROVE ~rows'[i].active
    OBVIOUS
  <2>1. CASE i \in tx[w].deactivated
    BY <2>1, <1>2 DEF ApplyTx, TypeOK, DbType, Row
  <2>2. CASE i \notin tx[w].deactivated
    <3>1. ~rows[i].active
      BY <2>2 DEF RowInv, DeactivationComplete, ActiveRows
    <3> QED BY <2>2, <3>1, <1>2 DEF ApplyTx
  <2> QED BY <2>1, <2>2
<1>6. ActiveIsLive' BY <1>3, <1>4, <1>5 DEF ActiveIsLive, ActiveRows
<1>7. \A v \in Workers : pc'[v] \notin Final
  <2> SUFFICES ASSUME NEW v \in Workers \ {w}, pc[v] \in Final PROVE FALSE
    OBVIOUS
  <2>1. tx[v].moved = Datasets
    BY DEF LockInv, LoopShape, Final, Promoting
  <2>2. tx[w].moved \cap tx[v].moved = {} BY DEF LockInv, LocksDisjoint
  <2> QED BY <1>1, <2>1, <2>2, DatasetFacts
<1> QED BY <1>6, <1>7 DEF RowInv, DeactivationComplete, Final

LEMMA EnvironmentRows ==
    ASSUME TypeOK, RowInv, DatabaseCrash \/ \E d \in Datasets : Publish(d)
    PROVE  RowInv'
<1>1. RowsKept
  BY DEF DatabaseCrash, Publish, RowsKept, dbVars
<1>2. DeactivationKept
  <2>1. CASE DatabaseCrash
    BY <2>1 DEF DatabaseCrash, DeactivationKept, Final, InTx
  <2>2. CASE \E d \in Datasets : Publish(d)
    BY <2>2 DEF Publish, DeactivationKept, workerVars
  <2> QED BY <2>1, <2>2
<1> QED BY <1>1, <1>2, QuietRows

LEMMA NextRows == TypeOK /\ LockInv /\ RowInv /\ [Next]_vars => RowInv'
<1> SUFFICES ASSUME TypeOK, LockInv, RowInv, [Next]_vars PROVE RowInv'
  OBVIOUS
<1>1. CASE UNCHANGED vars
  BY <1>1 DEF RowInv, DeactivationComplete, ActiveIsLive, ActiveRows, vars,
              dbVars, workerVars
<1>2. ASSUME NEW w \in Workers, Commit(w) \/ CommitReplyLost(w)
      PROVE  RowInv'
  <2>1. /\ pc[w] = "commit" /\ ApplyTx(w) /\ UNCHANGED snap
        /\ pc'[w] \notin Final
        /\ \A v \in Workers \ {w} : pc'[v] = pc[v]
    BY <1>2 DEF Commit, CommitReplyLost, Goto, Final, TypeOK, ControlType
  <2> QED BY <2>1, CommitRows
<1>3. ASSUME NEW w \in Workers, Step(w) PROVE RowInv'
  BY <1>2, <1>3, NoRowStep, TxRowStep, RowStatement, QuietRows,
     DeactivateRows DEF Step, Decide, Import, Finish
<1>4. ASSUME NEW w \in Workers, Failure(w) PROVE RowInv'
  BY <1>2, <1>4, NoRowStep, TxRowStep, QuietRows DEF Failure
<1> QED BY <1>1, <1>3, <1>4, EnvironmentRows DEF Next

LEMMA InitSync == Init => SyncInv
<1> SUFFICES ASSUME Init PROVE SyncInv OBVIOUS
<1>1. TypeOK BY InitType
<1>2. LockInv
  BY EmptyTx DEF Init, LockInv, LoopShape, LocksDisjoint, Promoting, Placed
<1>3. RowInv
  BY DEF Init, RowInv, DeactivationComplete, ActiveIsLive, ActiveRows, NoRow
<1> QED BY <1>1, <1>2, <1>3 DEF SyncInv

\* The inductive invariant of promotion, for any number of workers, datasets,
\* failures and restarts of workers and of Postgres.
THEOREM SyncInvariant == Spec => []SyncInv
<1>1. SyncInv /\ [Next]_vars => SyncInv'
  BY NextType, NextLocks, NextRows DEF SyncInv
<1> QED BY <1>1, InitSync, PTL DEF Spec

\* An active row is the only one, is ready with its own counts, and every
\* live table is that snapshot's.
THEOREM ActiveSnapshotIsLive == Spec => []ActiveIsLive
<1>1. SyncInv => ActiveIsLive BY DEF SyncInv, RowInv
<1> QED BY <1>1, SyncInvariant, PTL

-----------------------------------------------------------------------------
(* All tables of one snapshot, and what dataset_sync_state says of them *)

OneSnapshot == LiveUniform /\ SyncedSnapshotIsLive

LEMMA CommitPublishes ==
    ASSUME TypeOK, LockInv, NEW w \in Workers, pc[w] = "commit", ApplyTx(w)
    PROVE  OneSnapshot'
<1>1. tx[w].placed = Datasets /\ tx[w].recorded = Datasets
  BY DEF LockInv, LoopShape, Placed
<1>2. snap[w] \in Ids BY DEF TypeOK, SnapKnown, InTx
<1>3. \A d \in Datasets : live'[d] = snap[w] /\ sync'[d].snapshot = snap[w]
  BY <1>1 DEF ApplyTx
<1>4. snap[w] # NoTable BY <1>2 DEF Ids, NoTable
<1> QED BY <1>3, <1>4 DEF OneSnapshot, LiveUniform, SyncedSnapshotIsLive

LEMMA NextPublished ==
    TypeOK /\ LockInv /\ OneSnapshot /\ [Next]_vars => OneSnapshot'
<1> SUFFICES ASSUME TypeOK, LockInv, OneSnapshot, [Next]_vars
             PROVE  OneSnapshot'
  OBVIOUS
<1> USE DEF OneSnapshot, LiveUniform, SyncedSnapshotIsLive
<1>1. CASE live' = live /\ sync' = sync BY <1>1
<1>2. ASSUME NEW w \in Workers, Touch(w) PROVE OneSnapshot'
  BY <1>2 DEF Touch, TypeOK, DbType
<1>3. ASSUME NEW w \in Workers, Commit(w) \/ CommitReplyLost(w)
      PROVE  OneSnapshot'
  BY <1>3, CommitPublishes DEF Commit, CommitReplyLost
<1>4. ASSUME NEW w \in Workers, Step(w) PROVE OneSnapshot'
  <2>1. Touch(w) \/ Commit(w) \/ (live' = live /\ sync' = sync)
    BY <1>4 DEF Step, Decide, Import, Finish, StartSync, FetchMetadata,
       Compare, LoadActive, CreateSnapshot, CopyDataset, DropPrevious,
       RenameLive, RenameConflict, PromoteShadow, Deactivate, Finalize,
       RecordSync, CleanupPrevious, AnalyzeTable, MarkFailed, dbVars
  <2> QED BY <2>1, <1>1, <1>2, <1>3
<1>5. ASSUME NEW w \in Workers, Failure(w) PROVE OneSnapshot'
  <2>1. CommitReplyLost(w) \/ (live' = live /\ sync' = sync)
    BY <1>5 DEF Failure, FetchMetadataBare, CleanupFails, AnalyzeFails,
       PassFails, ImportFails, Crash, dbVars
  <2> QED BY <2>1, <1>1, <1>3
<1>6. CASE DatabaseCrash \/ (\E d \in Datasets : Publish(d)) \/ UNCHANGED vars
  BY <1>1, <1>6 DEF DatabaseCrash, Publish, vars, dbVars
<1> QED BY <1>4, <1>5, <1>6 DEF Next

\* The live tables always belong to one snapshot, and dataset_sync_state names
\* no other.
THEOREM PromotionIsAtomic == Spec => [](LiveUniform /\ SyncedSnapshotIsLive)
<1>1. Init => OneSnapshot
  BY DEF Init, OneSnapshot, LiveUniform, SyncedSnapshotIsLive, Blank, NoSync,
         NoTable
<1>2. SyncInv /\ OneSnapshot /\ [Next]_vars => OneSnapshot'
  BY NextPublished DEF SyncInv
<1>3. OneSnapshot => LiveUniform /\ SyncedSnapshotIsLive BY DEF OneSnapshot
<1> QED BY <1>1, <1>2, <1>3, SyncInvariant, PTL DEF Spec

\* dataset_sync_state names the snapshot being served, or none.
THEOREM SyncedSnapshotAgrees == Spec => []SyncedSnapshotIsLive
BY PromotionIsAtomic, PTL

-----------------------------------------------------------------------------
(* One worker: backup tables *)

\* From DROP TABLE IF EXISTS to the last rename, this transaction has dropped
\* every backup there is.
BackupsDropped ==
    \A w \in Workers : pc[w] = "renameLive" => tx[w].dropped \/ ~BackupExists

LEMMA NextBackups ==
    ASSUME TypeOK, BackupsDropped, [Next]_vars, NEW w, Workers = {w}
    PROVE  BackupsDropped'
<1> SUFFICES ASSUME pc'[w] = "renameLive"
             PROVE  tx'[w].dropped \/ ~BackupExists'
  BY DEF BackupsDropped
<1>1. CASE DropPrevious(w)
  <2>1. tx'[w].dropped = BackupExists
    BY <1>1 DEF DropPrevious, SetTx, TypeOK, TxType, Tx
  <2>2. previous' = previous
    BY <1>1 DEF DropPrevious, dbVars
  <2> QED BY <2>1, <2>2 DEF BackupExists
<1>2. CASE RenameLive(w)
  <2>1. tx'[w].dropped = tx[w].dropped /\ pc[w] = "renameLive"
    BY <1>2 DEF RenameLive, SetTx, TypeOK, TxType, Tx
  <2>2. previous' = previous
    BY <1>2 DEF RenameLive, dbVars
  <2> QED BY <2>1, <2>2 DEF BackupExists, BackupsDropped
<1>3. CASE UNCHANGED <<pc, tx, previous>>
  BY <1>3 DEF BackupExists, BackupsDropped
<1>4. ASSUME Step(w) PROVE DropPrevious(w) \/ RenameLive(w)
  BY <1>4 DEF Step, Decide, Import, Finish, StartSync, FetchMetadata, Compare,
     Touch, LoadActive, CreateSnapshot, CopyDataset, RenameConflict,
     PromoteShadow, Deactivate, Finalize, RecordSync, Commit, CleanupPrevious,
     AnalyzeTable, MarkFailed, Goto, Advance, Return, Rollback, TypeOK, ControlType
<1>5. ~Failure(w)
  BY DEF Failure, FetchMetadataBare, CommitReplyLost, CleanupFails,
     AnalyzeFails, PassFails, ImportFails, Crash, Goto, Advance, Return,
     Rollback, TypeOK, ControlType
<1>6. ~DatabaseCrash
  BY DEF DatabaseCrash, InTx, TypeOK, ControlType
<1>7. (\E d \in Datasets : Publish(d)) \/ UNCHANGED vars
         => UNCHANGED <<pc, tx, previous>>
  BY DEF Publish, vars, dbVars, workerVars
<1> QED BY <1>1, <1>2, <1>3, <1>4, <1>5, <1>6, <1>7 DEF Next

\* A single worker is never stopped by backup tables an earlier promotion left
\* behind, whatever failed then and however Postgres was restarted.
THEOREM LeftoversAreHarmless ==
    ASSUME NEW w, Workers = {w}
    PROVE  Spec => []LeftoverBackupHarmless
<1>1. Init => BackupsDropped
  BY DEF Init, BackupsDropped
<1>2. SyncInv /\ BackupsDropped /\ [Next]_vars => BackupsDropped'
  BY NextBackups DEF SyncInv
<1>3. SyncInv /\ BackupsDropped => LeftoverBackupHarmless
  BY DEF SyncInv, TypeOK, ControlType, BackupsDropped, LeftoverBackupHarmless,
         BackupInTheWay, BackupExists
<1> QED BY <1>1, <1>2, <1>3, SyncInvariant, PTL DEF Spec

-----------------------------------------------------------------------------
(* One worker: recorded validators and served versions *)

LEMMA InitFresh == Init => FreshInv
<1> SUFFICES ASSUME Init PROVE FreshInv OBVIOUS
<1>1. \A w \in Workers : pc[w] = "idle" BY DEF Init
<1>2. \A w \in Workers, d \in Datasets : ~Copied(w, d)
  BY <1>1 DEF Copied, InTx, Filling
<1>3. \A w \in Workers, d \in Datasets :
        /\ remote[w][d] = 0 /\ data[d] = 0 /\ upstream[d] = 1
        /\ sync[d].validator = 0
  BY DEF Init, Blank, NoSync
<1> QED BY <1>1, <1>2, <1>3, WorkersAssumption DEF FreshInv, NoMissedUpdate

\* Nothing FreshInv mentions changes but upstream, which grows, and control,
\* which enters neither the touch loop nor the copied part of a transaction.
Steady(w) ==
    /\ \A d \in Datasets : upstream[d] <= upstream'[d]
    /\ data' = data /\ sync' = sync
    /\ \A d \in Datasets :
          /\ remote'[w][d] = remote[w][d] \/ remote'[w][d] = 0
          /\ pc'[w] = "touch" => pc[w] = "touch" /\ remote'[w] = remote[w]
          /\ Copied(w, d)' => /\ Copied(w, d)
                              /\ remote'[w][d] = remote[w][d]
                              /\ fetched'[w][d] = fetched[w][d]

LEMMA SteadyFresh ==
    ASSUME TypeOK, TypeOK', FreshInv, NEW w, Workers = {w}, Steady(w)
    PROVE  FreshInv'
<1> USE DEF FreshInv, NoMissedUpdate, Steady
<1>1. \A d \in Datasets :
        /\ upstream[d] \in Int /\ upstream'[d] \in Int /\ data[d] \in Int
        /\ remote[w][d] \in Int /\ fetched[w][d] \in Int
  BY DEF TypeOK, EnvType, DbType, LocalType, Versions
<1>2. NoMissedUpdate' OBVIOUS
<1>3. \A d \in Datasets : data'[d] <= upstream'[d] BY <1>1
<1>4. \A d \in Datasets : remote'[w][d] <= upstream'[d]
  <2>1. \A d \in Datasets : upstream'[d] >= 0
    BY DEF TypeOK, EnvType, Versions
  <2> QED BY <1>1, <2>1
<1>5. \A d \in Datasets :
        pc'[w] = "touch" => remote'[w][d] = sync'[d].validator
  OBVIOUS
<1>6. \A d \in Datasets :
        Copied(w, d)' => /\ remote'[w][d] <= fetched'[w][d]
                         /\ data'[d] <= fetched'[w][d]
                         /\ fetched'[w][d] <= upstream'[d]
  BY <1>1
<1> QED BY <1>2, <1>3, <1>4, <1>5, <1>6

\* The steps of the only worker that are steady.
LEMMA SteadyStep ==
    ASSUME TypeOK, NEW w, Workers = {w},
           \/ StartSync(w) \/ LoadActive(w) \/ CreateSnapshot(w)
           \/ DropPrevious(w) \/ RenameLive(w) \/ RenameConflict(w)
           \/ PromoteShadow(w) \/ Deactivate(w) \/ Finalize(w)
           \/ RecordSync(w) \/ CleanupPrevious(w) \/ AnalyzeTable(w)
           \/ MarkFailed(w) \/ CleanupFails(w) \/ AnalyzeFails(w)
           \/ PassFails(w) \/ ImportFails(w) \/ Crash(w)
    PROVE  Steady(w)
<1> USE DEF StartSync, LoadActive, CreateSnapshot, DropPrevious, RenameLive,
            RenameConflict, PromoteShadow, Deactivate, Finalize, RecordSync,
            CleanupPrevious, AnalyzeTable, MarkFailed, CleanupFails,
            AnalyzeFails, PassFails, ImportFails, Crash
<1>1. upstream' = upstream /\ data' = data /\ sync' = sync
  BY DEF envVars, dbVars
<1>2. \A d \in Datasets : upstream[d] <= upstream'[d]
  BY <1>1 DEF TypeOK, EnvType, Versions
<1>3. pc'[w] # "touch"
  <2>1. PICK l \in Labels \ {"touch"} :
          pc' = [pc EXCEPT ![w] = l] \/ (pc' = pc /\ pc[w] = l)
    BY LabelNames DEF Goto, Advance, Return, Rollback
  <2> QED BY <2>1 DEF TypeOK, ControlType
<1>4. remote' = remote \/ remote' = [remote EXCEPT ![w] = Blank]
  BY DEF Return
<1>5. \A d \in Datasets : remote'[w][d] = remote[w][d] \/ remote'[w][d] = 0
  BY <1>4 DEF Blank, TypeOK, LocalType
<1>6. ASSUME NEW d \in Datasets, Copied(w, d)'
      PROVE  Copied(w, d) /\ remote' = remote /\ fetched' = fetched
  <2>1. pc'[w] \in InTx /\ (pc'[w] = "copy" => d < next'[w])
    BY <1>6 DEF Copied
  <2>2. ~CreateSnapshot(w)
    BY <2>1 DEF Goto, TypeOK, ControlType, Datasets
  <2>3. /\ DropPrevious(w) \/ RenameLive(w) \/ PromoteShadow(w)
           \/ Deactivate(w) \/ Finalize(w) \/ RecordSync(w)
    BY <2>1, <2>2
       DEF Goto, Advance, Return, Rollback, TypeOK, ControlType, InTx, Filling
  <2>4. pc[w] \in InTx \ {"copy"} /\ remote' = remote /\ fetched' = fetched
    BY <2>3 DEF InTx, Filling
  <2> QED BY <2>4 DEF Copied
<1> QED BY <1>1, <1>2, <1>3, <1>5, <1>6 DEF Steady

LEMMA FetchFresh ==
    ASSUME TypeOK, TypeOK', FreshInv, NEW w, Workers = {w},
           FetchMetadata(w) \/ FetchMetadataBare(w)
    PROVE  FreshInv'
<1>1. upstream' = upstream /\ data' = data /\ sync' = sync
  BY DEF FetchMetadata, FetchMetadataBare, envVars, dbVars
<1>2. pc'[w] \notin InTx \cup {"touch"}
  BY DEF FetchMetadata, FetchMetadataBare, Advance, Goto, InTx, Filling,
         TypeOK, ControlType
<1>3. \A d \in Datasets : \/ remote'[w][d] = remote[w][d]
                          \/ remote'[w][d] = upstream[d]
                          \/ remote'[w][d] = 0
  BY DEF FetchMetadata, FetchMetadataBare, TypeOK, LocalType
<1>4. \A d \in Datasets : upstream[d] \in Int /\ 0 <= upstream[d]
  BY DEF TypeOK, EnvType, Versions
<1>5. \A d \in Datasets : remote'[w][d] <= upstream'[d]
  BY <1>1, <1>3, <1>4 DEF FreshInv
<1>6. NoMissedUpdate' BY <1>1 DEF FreshInv, NoMissedUpdate
<1> QED BY <1>1, <1>2, <1>5, <1>6 DEF FreshInv, Copied

LEMMA CompareFresh ==
    ASSUME TypeOK, FreshInv, NEW w, Workers = {w}, Compare(w)
    PROVE  FreshInv'
<1>1. /\ upstream' = upstream /\ data' = data /\ sync' = sync
      /\ remote' = remote
  BY DEF Compare, envVars, dbVars
<1>2. pc'[w] \notin InTx
  BY DEF Compare, Goto, InTx, Filling, TypeOK, ControlType
<1>3. pc'[w] = "touch" => Changed(w) = {}
  BY DEF Compare, Goto, TypeOK, ControlType
<1>4. Changed(w) = {} => \A d \in Datasets : remote[w][d] = sync[d].validator
  BY DEF Changed, datasetRequiresRefresh
<1>5. NoMissedUpdate' BY <1>1 DEF FreshInv, NoMissedUpdate
<1> QED BY <1>1, <1>2, <1>3, <1>4, <1>5 DEF FreshInv, Copied

\* The touch loop writes back what it has read.
LEMMA TouchFresh ==
    ASSUME TypeOK, TypeOK', FreshInv, NEW w, Workers = {w}, Touch(w)
    PROVE  FreshInv'
<1>1. upstream' = upstream /\ data' = data BY DEF Touch, envVars
<1>2. \A d \in Datasets : sync'[d].validator = sync[d].validator
  BY DEF Touch, TypeOK, DbType, FreshInv
<1>3. pc'[w] = "idle" \/ (pc'[w] = "touch" /\ remote' = remote)
  BY DEF Touch, Return, Advance, Goto, TypeOK, ControlType
<1>4. remote' = remote \/ remote' = [remote EXCEPT ![w] = Blank]
  BY DEF Touch, Return
<1>5. \A d \in Datasets : remote'[w][d] <= upstream'[d]
  <2>1. \A d \in Datasets : 0 <= upstream[d] /\ Blank[d] = 0
    BY DEF TypeOK, EnvType, Versions, Blank
  <2> QED BY <1>1, <1>4, <2>1 DEF FreshInv, TypeOK, LocalType
<1>6. pc[w] = "touch" BY DEF Touch
<1>7. NoMissedUpdate' BY <1>1, <1>2 DEF FreshInv, NoMissedUpdate
<1> QED
  BY <1>1, <1>2, <1>3, <1>5, <1>6, <1>7 DEF FreshInv, Copied, InTx, Filling

\* GET answers with what upstream serves now: no older than HEAD's answer.
LEMMA CopyFresh ==
    ASSUME TypeOK, FreshInv, NEW w, Workers = {w}, CopyDataset(w)
    PROVE  FreshInv'
<1> DEFINE k == next[w]
<1>1. /\ upstream' = upstream /\ data' = data /\ sync' = sync
      /\ remote' = remote
  BY DEF CopyDataset, envVars, dbVars
<1>2. k \in Datasets /\ pc[w] = "copy"
  BY DEF CopyDataset, TypeOK, ControlType
<1>3. \A d \in Datasets :
        fetched'[w][d] = IF d = k THEN upstream[k] ELSE fetched[w][d]
  BY DEF CopyDataset, TypeOK, LocalType
<1>4. pc'[w] # "touch"
  BY DEF CopyDataset, Advance, Goto, TypeOK, ControlType
<1>5. \A d \in Datasets : Copied(w, d)' => d = k \/ Copied(w, d)
  <2>1. CASE k = NumDatasets
    <3>1. \A d \in Datasets : d = k \/ d < k
      BY <2>1, DatasetFacts, BoundsAssumption
    <3> QED BY <1>2, <3>1 DEF Copied, InTx, Filling
  <2>2. CASE k # NumDatasets
    <3>1. pc'[w] = "copy" /\ next'[w] = k + 1
      BY <1>2, <2>2 DEF CopyDataset, Advance, TypeOK, ControlType
    <3> QED BY <1>2, <3>1, DatasetFacts DEF Copied
  <2> QED BY <2>1, <2>2
<1>6. \A d \in Datasets : upstream[d] \in Int
  BY DEF TypeOK, EnvType, Versions
<1>7. \A d \in Datasets :
        Copied(w, d)' => /\ remote'[w][d] <= fetched'[w][d]
                         /\ data'[d] <= fetched'[w][d]
                         /\ fetched'[w][d] <= upstream'[d]
  BY <1>1, <1>3, <1>5, <1>6 DEF FreshInv
<1>8. NoMissedUpdate' BY <1>1 DEF FreshInv, NoMissedUpdate
<1> QED BY <1>1, <1>4, <1>7, <1>8 DEF FreshInv

LEMMA CommitFresh ==
    ASSUME TypeOK, LockInv, FreshInv, NEW w, Workers = {w},
           Commit(w) \/ CommitReplyLost(w)
    PROVE  FreshInv' /\ \A d \in Datasets : data[d] <= data'[d]
<1>1. pc[w] = "commit" /\ ApplyTx(w) BY DEF Commit, CommitReplyLost
<1>2. upstream' = upstream /\ remote' = remote
  BY DEF Commit, CommitReplyLost, envVars
<1>3. tx[w].placed = Datasets /\ tx[w].recorded = Datasets
  BY <1>1 DEF LockInv, LoopShape, Placed
<1>4. \A d \in Datasets : /\ data'[d] = fetched[w][d]
                          /\ sync'[d].validator = remote[w][d]
  BY <1>1, <1>3 DEF ApplyTx
<1>5. \A d \in Datasets : Copied(w, d) BY <1>1 DEF Copied, InTx
<1>6. pc'[w] \notin InTx \cup {"touch"}
  BY DEF Commit, CommitReplyLost, Goto, InTx, Filling, TypeOK, ControlType
<1>7. NoMissedUpdate' BY <1>4, <1>5 DEF FreshInv, NoMissedUpdate
<1> QED BY <1>2, <1>4, <1>5, <1>6, <1>7 DEF FreshInv, Copied

LEMMA PublishSteady ==
    ASSUME TypeOK, NEW w \in Workers, NEW d \in Datasets, Publish(d)
    PROVE  Steady(w)
<1>1. \A e \in Datasets : upstream[e] <= upstream'[e]
  BY DEF Publish, TypeOK, EnvType, Versions
<1> QED BY <1>1 DEF Publish, Steady, Copied, dbVars, workerVars

LEMMA NextFresh ==
    ASSUME TypeOK, TypeOK', LockInv, FreshInv, [Next]_vars,
           NEW w, Workers = {w}, MaxDbCrashes = 0
    PROVE  FreshInv' /\ \A d \in Datasets : data[d] <= data'[d]
<1> USE SteadyStep, FetchFresh, CompareFresh, TouchFresh, CopyFresh,
        CommitFresh, SteadyFresh
<1>1. \A d \in Datasets : data[d] <= data[d] BY DEF TypeOK, DbType, Versions
<1>2. CASE Step(w)
  <2>1. \/ Steady(w) \/ FetchMetadata(w) \/ Compare(w) \/ Touch(w)
        \/ CopyDataset(w) \/ Commit(w)
    BY <1>2 DEF Step, Decide, Import, Finish
  <2>2. Commit(w) \/ data' = data
    BY <2>1 DEF Steady, FetchMetadata, Compare, Touch, CopyDataset, dbVars
  <2> QED BY <1>1, <2>1, <2>2
<1>3. CASE Failure(w)
  <2>1. Steady(w) \/ FetchMetadataBare(w) \/ CommitReplyLost(w)
    BY <1>3 DEF Failure
  <2>2. CommitReplyLost(w) \/ data' = data
    BY <2>1 DEF Steady, FetchMetadataBare, dbVars
  <2> QED BY <1>1, <2>1, <2>2
<1>4. CASE \E d \in Datasets : Publish(d)
  BY <1>1, <1>4, PublishSteady DEF Steady
<1>5. CASE UNCHANGED vars
  <2>1. Steady(w)
    BY <1>5 DEF vars, envVars, dbVars, workerVars, Steady, Copied, TypeOK,
                EnvType, Versions
  <2> QED BY <1>1, <2>1 DEF Steady
<1>6. ~DatabaseCrash BY DEF DatabaseCrash, TypeOK, EnvType
<1> QED BY <1>2, <1>3, <1>4, <1>5, <1>6 DEF Next

\* With one worker and no unclean restart of Postgres, the recorded validators
\* are never ahead of the data being served.
THEOREM NoUpdateIsMissed ==
    ASSUME NEW w, Workers = {w}, MaxDbCrashes = 0
    PROVE  Spec => []NoMissedUpdate
<1>1. SyncInv /\ SyncInv' /\ FreshInv /\ [Next]_vars => FreshInv'
  BY NextFresh DEF SyncInv
<1>2. FreshInv => NoMissedUpdate BY DEF FreshInv
<1> QED BY <1>1, <1>2, InitFresh, SyncInvariant, PTL DEF Spec

\* Under the same assumptions the served version of a dataset never goes back.
THEOREM ServedDataNeverOlder ==
    ASSUME NEW w, Workers = {w}, MaxDbCrashes = 0
    PROVE  Spec => NeverOlder
<1>1. SyncInv /\ SyncInv' /\ FreshInv /\ [Next]_vars => FreshInv'
  BY NextFresh DEF SyncInv
<1>2. SyncInv /\ SyncInv' /\ FreshInv /\ [Next]_vars
        => [\A d \in Datasets : data'[d] >= data[d]]_vars
  <2>1. TypeOK /\ TypeOK' => \A d \in Datasets : data[d] \in Int /\ data'[d] \in Int
    BY DEF TypeOK, DbType, Versions
  <2> QED BY <2>1, NextFresh DEF SyncInv
<1> QED BY <1>1, <1>2, InitFresh, SyncInvariant, PTL DEF Spec, NeverOlder

=============================================================================
