--------------------------- MODULE MCSnapshotSync ---------------------------
(* SnapshotSync on small instances. *)
EXTENDS SnapshotSync, TLC

\* Workers differ only in their name.
WorkerSymmetry == Permutations(Workers)

=============================================================================
