SPECIFICATION ArchiveSpec
INVARIANTS
    TypeOK
    TreeShape
    Resolvable
    TreeComplete
    PkgConsistent
    LookupExact
    ResultsResolve
    ListedResolve
    PrintedResolve
    AnswersFit
CONSTANTS
    IndexFiles = {"base", "patch", "broken", "partial", "clash", "tangled"}
    Corrupted = {"broken"}
    Metadata <- MCMetadata
    Entries <- MCEntries
    Ids <- MCIds
    Names <- MCNames
    NoRecord = NoRecord
    RootId = "zero"
    MaxLevel = 2
    MaxIndexes = 3
    Sep = Sep
    NoInode = NoInode
    MaxDirs = 2
    Paths <- MCPaths
    MaxPath = 6
    Patterns <- MCPatterns
    ReaddirChunk = 1
    SearchChunk = 2
    MaxAsked = 2
