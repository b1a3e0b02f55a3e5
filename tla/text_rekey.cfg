SPECIFICATION TextSpec
CONSTANTS
    Songs = {s1}
    Workers = {w1, w2}
    Clients = {c1, c2}
    Sockets = {k1}
    MaxVersion = 2
    MaxSecond = 1
    NoKey = NoKey
    NoSong = NoSong
INVARIANT CurrentVersionIsReadable
