SPECIFICATION Spec
INVARIANTS
    TypeOK
    ReadsInside
    AcceptedWhole
    FreedWhole
CONSTANTS
    W = 10
    MappedFiles <- MCMappedFiles
    Counts = {0, 1, 2, 3}
    NameSizes = {0, 1, 2}
    HeaderSize = 1
    MetadataSize = 1
    DataSize = 2
    FooterSize = 1
    SectionOffset = 1
    PathMax = 1
    MaxEntries = 2
    MaxLength = 5
CHECK_DEADLOCK FALSE
