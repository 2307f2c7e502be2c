\* Three titles, three to four versions of a file, both modes of an import.
SPECIFICATION Spec
CONSTANTS
    Titles = {1, 2, 3}
    Values = {1, 2}
    Records <- AllRecords
    Malformed = malformed
    BufferRecords = 2
    FilesOf <- MCFilesOf
    BatchSizes = {0, 1}
INVARIANTS ImportTypeOK CopiedIsWhole ImportedIsFile
PROPERTIES ImportEnds FeederEnds
CHECK_DEADLOCK FALSE
