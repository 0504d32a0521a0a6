SPECIFICATION Spec
CONSTANTS
    NoName = "none"
    Names <- TwoNames
    gen_id_from_str <- TwoIds
    Requests <- AllRequests
    MaxMmaps = 2
    MaxMmapobjs = 2
    MaxChunks = 1
INVARIANTS
    TypeOK
    Structure
    VmaIdsUnique
    TreeReady
PROPERTIES
    OldMmapobjsFrozen
