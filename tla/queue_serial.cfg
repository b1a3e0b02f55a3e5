SPECIFICATION Spec
CONSTANTS
    Songs = {s1, s2}
    Attendees = {p1}
    dj = dj
    dj2 = dj2
    guest = guest
    anyone = anyone
    Requests = {anyone}
    Ops <- OneAtATime
    Faulty = {}
    SettingsChoices <- FullOrPlain
    NoSong = NoSong
    NoOne = NoOne

INVARIANTS TallyInStep

PROPERTY LifecycleSpec
