\* One socket, up to three searches and one other frame.
SPECIFICATION Spec
CONSTANTS
    MaxSearches = 3
    MaxOthers = 1
INVARIANTS Persistent
CHECK_DEADLOCK FALSE
