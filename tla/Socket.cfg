\* One socket, up to three searches and one other frame.
SPECIFICATION FairSpec
CONSTANTS
    MaxSearches = 3
    MaxOthers = 1
INVARIANTS TypeOK OneInFlight LatestNotCancelled
PROPERTIES SearchAnswered SocketReleased
CHECK_DEADLOCK FALSE
