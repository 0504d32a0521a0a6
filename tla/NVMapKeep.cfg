SPECIFICATION Spec
CONSTANTS
    NoName = "none"
    Names <- TwoNames
    gen_id_from_str <- TwoIds
    Requests <- KeepRequests
    MaxMmaps = 2
    MaxMmapobjs = 2
    MaxChunks = 2
INVARIANTS
    LoadedSlotsFilled
    FreshSlots
