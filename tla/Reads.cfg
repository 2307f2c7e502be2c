\* One worker, one request at a time, upstream publishing meanwhile.
SPECIFICATION ReadsSpec
CONSTANTS
    Workers = {w1}
    NumDatasets = 3
    MaxVersion = 2
    MaxSnapshots = 6
    MaxFaults = 1
    MaxDbCrashes = 0
    Readers = {r1}
    MaxRequests = 1
    MaxIdentifiers = 2
    Published = {1}
INVARIANTS ReadsTypeOK JoinIsUniform
PROPERTIES ReadsNeverGoBack RequestsAnswered ConvergenceDespiteReaders
