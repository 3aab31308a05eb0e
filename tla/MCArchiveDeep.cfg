CONSTANTS
    IndexFiles = {"base"}
    Corrupted = {}
    Metadata <- MCMetadata
    Entries <- MCEntries
    Ids <- MCIds
    Names <- MCNames
    NoRecord = NoRecord
    RootId = "zero"
    MaxLevel = 2
    MaxIndexes = 1
    Sep = Sep
    NoInode = NoInode
    MaxDirs = 1
    MaxPath = 6
    Paths <- MCPaths
    Patterns <- MCPatterns
    ReaddirChunk = 1
    SearchChunk = 2
    MaxAsked = 2
SPECIFICATION ArchiveSpec
INVARIANT ExistingPathFound
