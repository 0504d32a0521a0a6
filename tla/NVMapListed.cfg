SPECIFICATION Spec
CONSTANTS
    NoName = "none"
    Names <- TwoNames
    gen_id_from_str <- TwoIds
    Requests <- PlainRequests
    MaxMmaps = 4
    MaxMmapobjs = 4
    MaxChunks = 1
INVARIANTS
    ListIsComplete
