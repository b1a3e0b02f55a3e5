------------------------------ MODULE TextKeys ------------------------------
(***************************************************************************)
(* Titles and artists at rest (text-crypto.js), the songs that carry them  *)
(* (the load and save helpers of songs.service.js), and what decides which *)
(* key is used: the owner's authTokenVersion, which logins and logouts     *)
(* raise (auth.service.js), and the key cache of the process, which is     *)
(* emptied when an owner's socket disconnects (socket/room.js).            *)
(*                                                                         *)
(* A key is derived from a token minted on the spot.  Two tokens of one    *)
(* version are equal only if they were signed in the same second, so a key *)
(* is named by its version and the second it was derived in.  One event    *)
(* and its owner; a song's recognition match is left out.                  *)
(***************************************************************************)
EXTENDS Naturals

CONSTANTS
    Songs,
    Workers,     \* handlers that suggest or moderate, in flight together
    Clients,     \* browsers of the owner
    Sockets,     \* sockets they open
    MaxVersion,  \* bound: logins and logouts
    MaxSecond,   \* bound: seconds that pass
    NoKey, NoSong

ASSUME TextKeysAssumption ==
    /\ MaxVersion \in Nat
    /\ MaxSecond \in Nat
    /\ NoKey \notin 0 .. MaxSecond
    /\ NoSong \notin Songs

VARIABLES
    version,   \* the owner's authTokenVersion
    token,     \* the version in each browser's token, 0 for none
    joined,    \* the owner's sockets in the event room
    second,    \* the clock that stamps tokens
    keys,      \* keyCache: the second the key of each version was derived in
    song,      \* the songs collection: status and the two texts
    work       \* the suggestions and moderations in flight

login == <<version, token>>
textVars == <<version, token, joined, second, keys, song, work>>

Versions == 0 .. MaxVersion
Seconds == 0 .. MaxSecond

Plain == [text |-> "own", v |-> 0, k |-> 0]
Lost == [text |-> "null", v |-> 0, k |-> 0]
Sealed(v, k) == [text |-> "sealed", v |-> v, k |-> k]

NoDocument == [status |-> "none", title |-> Lost, artist |-> Lost]
NoWork == [pc |-> "idle", song |-> NoSong, title |-> Lost, artist |-> Lost]

-----------------------------------------------------------------------------
(* text-crypto.js.                                                         *)

\* resolveKey: the cached key of the current version, or one derived now.
AlwaysDerived == second                                            \* mutant
Resolved == IF keys[version] # NoKey THEN keys[version] ELSE second

\* Resolving leaves the key in the cache.
Cached == keys' = [keys EXCEPT ![version] = Resolved]

\* encryptText leaves null, and what is sealed already, as it is.
Encrypted(field) == IF field.text = "own" THEN Sealed(version, Resolved) ELSE field

\* decryptWithEntry: null unless version and key are the right ones.
Decrypted(field) ==
    IF field.text = "sealed"
    THEN IF field.v = version /\ field.k = Resolved THEN Plain ELSE Lost
    ELSE field

-----------------------------------------------------------------------------
(* The owner's account, one request at a time.  (Two that overlap may save  *)
(* the same version.)                                                      *)

\* Both raise the version and save it.
RaisedOnce == IF version = 0 THEN 1 ELSE version                   \* mutant
Raised == version + 1

\* A login answers with a token of the new version.
Issued == Raised

Login(c) ==
    /\ version < MaxVersion
    /\ version' = Raised
    /\ token' = [token EXCEPT ![c] = Issued]
    /\ UNCHANGED <<joined, second, keys, song, work>>

\* validateDefaultToken: the token has the version of the account.
SignedIn(c) == token[c] # 0 /\ token[c] = version

Logout(c) ==
    /\ SignedIn(c)
    /\ version < MaxVersion
    /\ version' = Raised
    /\ UNCHANGED <<token, joined, second, keys, song, work>>

-----------------------------------------------------------------------------
(* The owner's sockets.                                                    *)

\* The handshake wanted a valid token, perhaps one that is retired by now.
JoinRoom(k) ==
    /\ version # 0
    /\ k \notin joined
    /\ joined' = joined \cup {k}
    /\ UNCHANGED <<second, keys, song, work, login>>

\* evictOwnerTextKey, whoever else is in the room.  (It reads the event first;
\* a key that goes later is what CrowdedOut allows anyway.)
Disconnect(k) ==
    /\ k \in joined
    /\ joined' = joined \ {k}
    /\ keys' = [v \in Versions |-> NoKey]
    /\ UNCHANGED <<second, song, work, login>>

\* Other events' keys push the oldest out.
CrowdedOut(v) ==
    /\ keys[v] # NoKey
    /\ keys' = [keys EXCEPT ![v] = NoKey]
    /\ UNCHANGED <<second, song, work, login, joined>>

Restart ==
    /\ keys' = [v \in Versions |-> NoKey]
    /\ work' = [w \in Workers |-> NoWork]
    /\ joined' = {}
    /\ UNCHANGED <<version, token, second, song>>

SecondPasses ==
    /\ second < MaxSecond
    /\ second' = second + 1
    /\ UNCHANGED <<keys, song, work, login, joined>>

-----------------------------------------------------------------------------
(* Songs.  Every step that resolves a key follows an await of its own.     *)

Now(w, new) == work' = [work EXCEPT ![w] = new]

\* suggestSong has its texts in the clear.
Suggest(w, s) ==
    /\ work[w].pc = "idle"
    /\ song[s].status = "none"
    /\ \A x \in Workers : work[x].song # s
    /\ Now(w, [pc |-> "clear", song |-> s, title |-> Plain, artist |-> Plain])
    /\ UNCHANGED <<second, keys, song, login, joined>>

\* Moderation loads the document, ...
Load(w, s) ==
    /\ work[w].pc = "idle"
    /\ song[s].status = "PENDING"
    /\ Now(w, [pc |-> "loaded", song |-> s, title |-> song[s].title,
               artist |-> song[s].artist])
    /\ UNCHANGED <<second, keys, song, login, joined>>

\* ... decrypts it in place with one key, ...
Decrypt(w) ==
    /\ work[w].pc = "loaded"
    /\ Now(w, [work[w] EXCEPT !.pc = "clear", !.title = Decrypted(@),
                              !.artist = Decrypted(work[w].artist)])
    /\ Cached
    /\ UNCHANGED <<second, song, login, joined>>

\* ... and encrypts each text anew, resolving the key for each.
EncryptTitle(w) ==
    /\ work[w].pc = "clear"
    /\ Now(w, [work[w] EXCEPT !.pc = "titled", !.title = Encrypted(@)])
    /\ IF work[w].title.text = "own" THEN Cached ELSE UNCHANGED keys
    /\ UNCHANGED <<second, song, login, joined>>

EncryptArtist(w) ==
    /\ work[w].pc = "titled"
    /\ Now(w, [work[w] EXCEPT !.pc = "sealed", !.artist = Encrypted(@)])
    /\ IF work[w].artist.text = "own" THEN Cached ELSE UNCHANGED keys
    /\ UNCHANGED <<second, song, login, joined>>

\* The schema requires both texts.
AnyText(w) == TRUE                                                 \* mutant
Valid(w) == work[w].title.text # "null" /\ work[w].artist.text # "null"

SaveSong(w) ==
    /\ work[w].pc = "sealed"
    /\ Valid(w)
    /\ song' = [song EXCEPT ![work[w].song] =
                  [status |-> IF @.status = "none" THEN "PENDING" ELSE "APPROVED",
                   title |-> work[w].title, artist |-> work[w].artist]]
    /\ Now(w, NoWork)
    /\ UNCHANGED <<second, keys, login, joined>>

\* Validation refuses the document, or the database does.
SaveFails(w) ==
    /\ work[w].pc = "sealed"
    /\ Now(w, NoWork)
    /\ UNCHANGED <<second, keys, song, login, joined>>

\* The queue and the pending list decrypt what they show, and save nothing.
Show ==
    /\ Cached
    /\ UNCHANGED <<second, song, work, login, joined>>

-----------------------------------------------------------------------------
TextInit ==
    /\ version = 0
    /\ token = [c \in Clients |-> 0]
    /\ joined = {}
    /\ second = 0
    /\ keys = [v \in Versions |-> NoKey]
    /\ song = [s \in Songs |-> NoDocument]
    /\ work = [w \in Workers |-> NoWork]

TextNext ==
    \/ \E c \in Clients : Login(c) \/ Logout(c)
    \/ \E k \in Sockets : JoinRoom(k) \/ Disconnect(k)
    \/ \E v \in Versions : CrowdedOut(v)
    \/ Restart
    \/ SecondPasses
    \/ \E w \in Workers :
         \/ \E s \in Songs : Suggest(w, s) \/ Load(w, s)
         \/ Decrypt(w)
         \/ EncryptTitle(w)
         \/ EncryptArtist(w)
         \/ SaveSong(w)
         \/ SaveFails(w)
    \/ Show

TextSpec == TextInit /\ [][TextNext]_textVars

-----------------------------------------------------------------------------
Fields == [text : {"own", "null", "sealed"}, v : Versions, k : Seconds]

\* The variables have their types; no browser's token is ahead of the account.
TextTypeOK ==
    /\ version \in Versions
    /\ token \in [Clients -> 0 .. version]
    /\ joined \subseteq Sockets
    /\ second \in Seconds
    /\ keys \in [Versions -> Seconds \cup {NoKey}]
    /\ song \in [Songs -> [status : {"none", "PENDING", "APPROVED"},
                           title : Fields, artist : Fields]]
    /\ \A w \in Workers : work[w] \in
         [pc : {"idle", "loaded", "clear", "titled", "sealed"},
          song : Songs \cup {NoSong}, title : Fields, artist : Fields]

\* No save ever replaces a stored text by null or stores one in the clear, even
\* when the document was loaded with a key that has since been lost
\* (decryptMetadataInPlace nulls what it cannot read, and the document is saved
\* afterwards).
StoredTextIsWhole ==
    \A s \in Songs : song[s].status # "none"
        => song[s].title.text = "sealed" /\ song[s].artist.text = "sealed"

Readable(s) ==
    /\ song[s].status # "none"
    /\ \A f \in {song[s].title, song[s].artist} : f.v = version /\ f.k = keys[version]

\* A handler holds texts sealed before the key or the version changed.
Stale(s) ==
    \E w \in Workers : work[w].song = s /\ \E f \in {work[w].title, work[w].artist} :
        f.text = "sealed" /\ <<f.v, f.k>> # <<version, keys[version]>>

\* A song that can be read stays readable until the key is dropped, the owner
\* logs in or out, or a handler saves what it sealed before that: handlers that
\* derive a key at the same time do not end up with different ones (resolveKey
\* looks at the cache after its last await).
SongStaysReadable ==
    [][\A s \in Songs : Readable(s) /\ ~Stale(s) /\ UNCHANGED version /\ keys'[version] # NoKey
         => Readable(s)']_textVars

\* A login leaves no other browser signed in, whatever tokens logins and logouts
\* before it handed out: "Update last login and invalidate older auth tokens"
\* (auth.service.js, login).
LoginRetiresOthers ==
    [][\A c \in Clients : token'[c] # token[c]
         => \A d \in Clients \ {c} : token'[d] # version']_textVars

\* The key of a version is derived again after an eviction: what was written
\* under the version the owner still has can still be read.
CurrentVersionIsReadable ==
    \A s \in Songs :
        song[s].status # "none" /\ song[s].title.v = version /\ keys[version] # NoKey
            => song[s].title.k = keys[version]

=============================================================================
