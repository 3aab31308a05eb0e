CONSTANTS
    name1 = name1
    name2 = name2
    name3 = name3
    name4 = name4
    name5 = name5
    None = None
    Keys <- NameKeys
    Vals = {v1, v2}
    Hash <- NameHash
    Matches <- NameMatches
    Sizes = {4, 8}
    ShrinkDiv = 4
    DibMod = 65536
SPECIFICATION FairSpec
INVARIANTS TypeOK CountExact RoomLeft RobinHood
PROPERTIES ImplementsKeyMap LoopsEnd CallsReturn
