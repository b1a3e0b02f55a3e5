SPECIFICATION FairSpec
CONSTANTS
    Songs = {s1, s2}
    Attendees = {p1}
    dj = dj
    dj2 = dj2
    guest = guest
    anyone = anyone
    Requests = {dj, dj2}
    Ops <- TwoDJs
    Faulty = {}
    SettingsChoices <- ShortLadder
    NoSong = NoSong
    NoOne = NoOne

INVARIANT AtMostOnePlaying

