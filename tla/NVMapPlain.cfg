SPECIFICATION Spec
CONSTANTS
    NoName = "none"
    Names <- TwoNames
    gen_id_from_str <- TwoIds
    Requests <- PlainRequests
    MaxMmaps = 3
    MaxMmapobjs = 3
    MaxChunks = 2
INVARIANTS
    Plain
    RestartTransparent
    KeysLive
    ListedIsReadable
    DeletedHasNoCommit
