SPECIFICATION FairSpec
INVARIANTS
    TypeOK
    DirComplete
    StoredIsCopied
PROPERTIES
    OthersUntouched
    CallsEnd
    CallsReturn
CONSTANTS
    Sep = Sep
    NoInode = NoInode
    MaxDirs = 10
    Names <- MCNames
    Here = "."
    Up = ".."
    Split <- MCSplit
    Place <- MCPlace
    Tree <- MCTree
    Package <- MCPackage
    Stored <- MCStored
    FileMaps <- MCFileMaps
    Blocks <- MCBlocks
    Strings <- MCStrings
    OutDir <- MCOutDir
    OutFiles <- MCOutFiles
    OldOutputs <- MCOldOutputs
    MaxCalls = 1
CHECK_DEADLOCK FALSE
