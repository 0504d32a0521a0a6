SPECIFICATION Spec
CONSTANTS
    NoName = "none"
    Names <- TwoNames
    gen_id_from_str <- TwoIds
    Requests <- PlainRequests
    MaxMmaps = 2
    MaxMmapobjs = 2
    MaxChunks = 1
INVARIANTS
    AllMmapobjsLoaded
