SPECIFICATION Spec
CONSTANTS
    Phones = {p1}
    Sessions = {s1}
    Tracks = {t1, t2}
    audio = audio
    audio2 = audio2
    dj = dj
    Calls = {audio, dj}
    Ops <- StreamAndDJ
    Alone <- None
    NoTrack = NoTrack
    NoSession = NoSession
    NoPhone = NoPhone
SYMMETRY Symmetric
PROPERTIES LockKeepsTrack
