\* The deployed configuration: one worker, the three datasets of NewRunner.
SPECIFICATION FairSpec
CONSTANTS
    Workers = {w1}
    NumDatasets = 3
    MaxVersion = 2
    MaxSnapshots = 8
    MaxFaults = 2
    MaxDbCrashes = 0
INVARIANTS TypeOK NoMissedUpdate LeftoverBackupHarmless
PROPERTIES NeverOlder Convergence
