SPECIFICATION Spec
CONSTANTS
    Songs = {s1}
    Workers = {w1, w2}
    Clients = {c1, c2}
    Sockets = {k1}
    MaxVersion = 2
    MaxSecond = 1
    NoKey = NoKey
    NoSong = NoSong
    Callers = {a1, a2}
    Matches = {m1, m2}
    Summaries = {r1}
    Interval = 2
    Backoff = 3
    MaxCache = 2
    MaxAttempts = 2
    NoLookup = NoLookup
    Users = {u1, u2}
    Handlers = {h1, h2}
    MaxRequests = 2
    MaxInvites = 1
    NoUser = NoUser
    Requests = {q1, q2}
    MaxMails = 2
    Day = 3
    LinkIds = {1, 2, 3, 4}
    NoAccount = NoAccount
INVARIANTS ServiceTypesOK StoredTextIsWhole FriendshipIsMutual FriendsHaveAgreed MailsAreLimited OwnerIsVerified
PROPERTIES SongStaysReadable  RequestsSpaced BackoffHonoured 
CHECK_DEADLOCK FALSE
