SPECIFICATION Spec
CONSTANTS
    NoName = "none"
    Names <- TwoNames
    gen_id_from_str <- TwoIds
    Requests <- AllRequests
    MaxMmaps = 1
    MaxMmapobjs = 1
    MaxChunks = 2
INVARIANTS
    DeletesOldChunk
