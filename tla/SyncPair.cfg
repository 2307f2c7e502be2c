\* Two workers: an overlapping restart, or a second deployment.
SPECIFICATION Spec
CONSTANTS
    Workers = {w1, w2}
    NumDatasets = 2
    MaxVersion = 1
    MaxSnapshots = 8
    MaxFaults = 1
    MaxDbCrashes = 1
SYMMETRY WorkerSymmetry
INVARIANTS ActiveIsLive LiveUniform SyncedSnapshotIsLive
PROPERTIES PublicationSpec
