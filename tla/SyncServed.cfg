SPECIFICATION Spec
CONSTANTS
    Workers = {w1}
    NumDatasets = 3
    MaxVersion = 1
    MaxSnapshots = 4
    MaxFaults = 1
    MaxDbCrashes = 0
INVARIANTS ServedSnapshotIsActive
