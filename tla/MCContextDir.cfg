CONSTANTS
    IndexFiles = {"broken"}
    Corrupted = {"broken"}
    Metadata <- MCMetadata
    Entries <- MCEntries
    Ids <- MCIds
    Names <- MCNames
    NoRecord = NoRecord
    RootId = "zero"
    MaxLevel = 2
    MaxIndexes = 3
SPECIFICATION Spec
INVARIANT DirReportsFailure
