SPECIFICATION Spec
CONSTANTS
    Songs = {s1, s2}
    Attendees = {p1}
    dj = dj
    dj2 = dj2
    guest = guest
    anyone = anyone
    Requests = {dj, guest}
    Ops <- DJAndGuest
    Faulty = {dj}
    SettingsChoices <- ShortLadder
    NoSong = NoSong
    NoOne = NoOne
SYMMETRY Symmetric
INVARIANTS TypeOK PlayedHadTrack AtMostOnePlaying CurrentWasSent CreditedOnce TallyInStep
PROPERTIES NeverBackToPending
