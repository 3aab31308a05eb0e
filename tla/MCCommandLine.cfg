SPECIFICATION Spec
INVARIANTS TypeOK LatestWins ExitHonest MissingIdxReported
CONSTANTS
    Entries = {"v1", "v2", "v2b", "res"}
    Build <- MCBuild
    Disks <- MCDisks
    Options <- MCOptions
    None = None
CHECK_DEADLOCK FALSE
