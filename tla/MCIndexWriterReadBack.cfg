SPECIFICATION Spec
INVARIANT ReadBack
CONSTANTS
    Source <- MCSource
    Bytes <- MCBytes
    NameSize <- MCNameSize
    PathSize <- MCPathSize
    PathRoom = 10
    Cut <- MCCut
    Nowhere = Nowhere
    MaxOpen = 3
    SizeMod = 3
    Marker = Marker
    Chunk = 2
    HeaderSize = 56
    MetadataSize = 40
    DataSize = 56
    ReadMetadataSize = 32
    ReadDataSize = 48
    MagicOffset = 16
CHECK_DEADLOCK FALSE
