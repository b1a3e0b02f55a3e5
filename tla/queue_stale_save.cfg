SPECIFICATION FairSpec
CONSTANTS
    Songs = {s1}
    Attendees = {p1}
    dj = dj
    dj2 = dj2
    guest = guest
    anyone = anyone
    Requests = {dj, guest}
    Ops <- DJAndGuest
    Faulty = {}
    SettingsChoices <- ShortLadder
    NoSong = NoSong
    NoOne = NoOne

PROPERTY TerminalIsFinal

