SPECIFICATION FairSpec
CONSTANTS
    Songs = {s1}
    Attendees = {p1, p2, p3}
    dj = dj
    dj2 = dj2
    guest = guest
    anyone = anyone
    Requests = {anyone}
    Ops <- VotesOnly
    Faulty = {}
    SettingsChoices <- OpenOrClosed
    NoSong = NoSong
    NoOne = NoOne

INVARIANTS VerdictsInForce

PROPERTY OutvotedIsRejected
