SPECIFICATION AudioSpec
CONSTANTS
    Phones = {p1}
    Sessions = {s1, s2}
    Tracks = {t1, t2}
    audio = audio
    audio2 = audio2
    dj = dj
    Calls = {audio, audio2}
    Ops <- OneAtATime
    Alone <- OpNames
    NoTrack = NoTrack
    NoSession = NoSession
    NoPhone = NoPhone
    Events = {e1, e2}
    Audios = {x1, x2}
    Editors = {d1, d2}
    MaxTracks = 2
    Nothing = Nothing
    Parties = {v1, v2, v3}
    Matchers = {g1, g2}
    Shared = g1
    MaxTrackHashes = 3
    MaxIndexed = 2
    MaxCached = 2
    Sizes = {3, 5}
    MaxRows = 1
    ReadBytes = 4
    Window = 2
    MaxBuffer = 5
    Neighbours = 4
    MaxDelta = 3
    Batch = 2
    MaxHashes = 5
    Lengths = {6, 9, 13}
    Frames = {1, 2, 3}
    Scales = {1, 2}
    Peaks = {0, 1, 2}
    LiveChunks = {1, 3, 7}
    MaxLive = 10
    Titles = {t1, t2}
    Marks = {1, 2}
    Times = {0, 1, 2}
    Common = {1}
    MinScore = 1
    StrongFactor = 2
    MaxAccumulated = 5
    MaxRowsOf = 3
    MaxChunk = 1
    MaxSample = 3
SYMMETRY Symmetric
INVARIANTS AudioTypesOK LocksAreTold  StrayNeedsRace CacheStaysNearCap  AnswerIsHeard
PROPERTIES LockKeepsTrack LockedAfterHold ReleaseFreesGuard LocksFollowQueue
