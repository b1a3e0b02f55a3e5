---------------------------- MODULE Services_proofs ----------------------------
(***************************************************************************)
(* Proofs about the components of MCServices: the texts at rest            *)
(* (TextKeys), the users' friends and invites (Friends), the account of    *)
(* one address (Accounts), for any numbers of songs, users and handlers in *)
(* flight and any bounds, and their composition with Lookups.  They share  *)
(* no state; each has its own specification and inductive invariant.       *)
(***************************************************************************)
EXTENDS MCServices, Lookups_proofs, FiniteSetTheorems

-----------------------------------------------------------------------------
(* Texts at rest.                                                          *)

Jobs == [pc : {"idle", "loaded", "clear", "titled", "sealed"},
         song : Songs \cup {NoSong}, title : Fields, artist : Fields]

\* What a handler holds on its way to a save: the song it works on, and no text
\* in the clear once it has been through encryptText.
WorkIsSealed ==
    /\ work \in [Workers -> Jobs]
    /\ \A w \in Workers :
        /\ work[w].pc # "idle" => work[w].song \in Songs
        /\ work[w].pc \in {"titled", "sealed"} => work[w].title.text # "own"
        /\ work[w].pc = "sealed" => work[w].artist.text # "own"

\* The inductive invariant.
TextInv == TextTypeOK /\ WorkIsSealed /\ StoredTextIsWhole

-----------------------------------------------------------------------------
(* What the operators return. *)

\* The constant fields and records are well typed.
LEMMA FixedFields ==
    /\ Plain \in Fields /\ Lost \in Fields
    /\ NoWork \in Jobs
    /\ 0 \in Versions /\ 0 \in Seconds
BY TextKeysAssumption DEF Plain, Lost, Fields, NoWork, Jobs, Versions, Seconds

\* The key in use was derived in some second.
LEMMA ResolvedIsSecond ==
    ASSUME TextTypeOK
    PROVE  Resolved \in Seconds
BY DEF TextTypeOK, Resolved

\* Encrypting and decrypting give fields, and encrypting leaves nothing in the clear.
LEMMA CryptedFields ==
    ASSUME TextTypeOK, NEW f \in Fields
    PROVE  /\ Encrypted(f) \in Fields /\ Encrypted(f).text # "own"
           /\ Decrypted(f) \in Fields
<1>1. Sealed(version, Resolved) \in Fields
    BY ResolvedIsSecond DEF TextTypeOK, Sealed, Fields
<1> QED BY <1>1, FixedFields DEF Encrypted, Decrypted, Sealed, Fields

\* Resolving a key keeps the cache well typed.
LEMMA CachedOK ==
    ASSUME TextTypeOK, Cached
    PROVE  keys' \in [Versions -> Seconds \cup {NoKey}]
BY ResolvedIsSecond DEF TextTypeOK, Cached

\* A resolved key that was in the cache stays the one in the cache.
LEMMA CachedKeepsKey ==
    ASSUME TextTypeOK, Cached, keys[version] # NoKey
    PROVE  keys'[version] = keys[version]
BY DEF TextTypeOK, Cached, Resolved

\* A handler that moves on leaves sealed work, if what it holds then is.
LEMMA NowSealed ==
    ASSUME TextInv, NEW w \in Workers, NEW job \in Jobs, Now(w, job),
           job.pc # "idle" => job.song \in Songs,
           job.pc \in {"titled", "sealed"} => job.title.text # "own",
           job.pc = "sealed" => job.artist.text # "own"
    PROVE  WorkIsSealed'
BY DEF TextInv, WorkIsSealed, Now

-----------------------------------------------------------------------------
(* The invariant, one step per action. *)

LEMMA TextInitInv == TextInit => TextInv
<1> SUFFICES ASSUME TextInit PROVE TextInv
    OBVIOUS
<1>1. TextTypeOK
    BY FixedFields, TextKeysAssumption
       DEF TextInit, TextTypeOK, NoDocument, Jobs, Versions
<1>2. WorkIsSealed
    BY FixedFields DEF TextInit, WorkIsSealed, NoWork
<1>3. StoredTextIsWhole
    BY DEF TextInit, StoredTextIsWhole, NoDocument
<1> QED BY <1>1, <1>2, <1>3 DEF TextInv

\* The owner, the sockets, the cache and the clock leave songs and handlers alone
\* (a restart forgets the handlers).
LEMMA SurroundingsInv ==
    ASSUME TextInv,
           \/ \E c \in Clients : Login(c) \/ Logout(c)
           \/ \E k \in Sockets : JoinRoom(k) \/ Disconnect(k)
           \/ \E v \in Versions : CrowdedOut(v)
           \/ Restart \/ SecondPasses \/ Show
    PROVE  TextInv'
<1> USE TextKeysAssumption DEF login
<1>1. ASSUME NEW c \in Clients, Login(c) \/ Logout(c) PROVE TextInv'
    <2>1. version' = version + 1 /\ version' \in Versions /\ version < version'
        BY <1>1 DEF Login, Logout, Raised, TextInv, TextTypeOK, Versions
    <2>2. UNCHANGED <<joined, second, keys, song, work>>
        BY <1>1 DEF Login, Logout
    <2>3. token' \in [Clients -> 0 .. version']
        BY <1>1, <2>1 DEF Login, Logout, Issued, Raised, TextInv, TextTypeOK, Versions
    <2> QED BY <2>1, <2>2, <2>3
            DEF TextInv, TextTypeOK, WorkIsSealed, StoredTextIsWhole
<1>2. ASSUME NEW k \in Sockets, JoinRoom(k) \/ Disconnect(k) PROVE TextInv'
    BY <1>2 DEF JoinRoom, Disconnect, TextInv, TextTypeOK, WorkIsSealed,
                StoredTextIsWhole
<1>3. ASSUME NEW v \in Versions, CrowdedOut(v) PROVE TextInv'
    BY <1>3 DEF CrowdedOut, TextInv, TextTypeOK, WorkIsSealed, StoredTextIsWhole
<1>4. CASE Restart
    BY <1>4, FixedFields DEF Restart, TextInv, TextTypeOK, WorkIsSealed,
                             StoredTextIsWhole, NoWork, Jobs
<1>5. CASE SecondPasses
    BY <1>5 DEF SecondPasses, TextInv, TextTypeOK, WorkIsSealed,
                StoredTextIsWhole, Seconds
<1>6. CASE Show
    BY <1>6, CachedOK DEF Show, TextInv, TextTypeOK, WorkIsSealed,
                          StoredTextIsWhole
<1> QED BY <1>1, <1>2, <1>3, <1>4, <1>5, <1>6

\* A handler that saves nothing yet.
LEMMA WorkInv ==
    ASSUME TextInv, NEW w \in Workers,
           \/ \E s \in Songs : Suggest(w, s) \/ Load(w, s)
           \/ Decrypt(w) \/ EncryptTitle(w) \/ EncryptArtist(w) \/ SaveFails(w)
    PROVE  TextInv'
<1> USE DEF login
<1>1. UNCHANGED <<version, token, joined, second, song>>
    BY DEF Suggest, Load, Decrypt, EncryptTitle, EncryptArtist, SaveFails
<1>2. keys' \in [Versions -> Seconds \cup {NoKey}]
    BY CachedOK DEF Suggest, Load, Decrypt, EncryptTitle, EncryptArtist,
                    SaveFails, TextInv, TextTypeOK
<1>3. work[w] \in Jobs /\ work[w].title \in Fields /\ work[w].artist \in Fields
    BY DEF TextInv, WorkIsSealed, Jobs
<1>4. WorkIsSealed'
    <2>1. ASSUME NEW s \in Songs, Suggest(w, s) PROVE WorkIsSealed'
        BY <2>1, NowSealed, FixedFields DEF Suggest, Jobs
    <2>2. ASSUME NEW s \in Songs, Load(w, s) PROVE WorkIsSealed'
        <3>1. song[s].title \in Fields /\ song[s].artist \in Fields
            BY DEF TextInv, TextTypeOK
        <3> QED BY <2>2, <3>1, NowSealed DEF Load, Jobs
    <2>3. CASE Decrypt(w)
        <3> DEFINE job == [work[w] EXCEPT !.pc = "clear", !.title = Decrypted(@),
                                          !.artist = Decrypted(work[w].artist)]
        <3>1. job \in Jobs /\ job.pc = "clear" /\ job.song = work[w].song
            BY <1>3, CryptedFields DEF Jobs, TextInv
        <3>2. job.song \in Songs
            BY <2>3, <3>1 DEF Decrypt, TextInv, WorkIsSealed
        <3>3. Now(w, job)
            BY <2>3 DEF Decrypt
        <3> QED BY <3>1, <3>2, <3>3, NowSealed
    <2>4. CASE EncryptTitle(w)
        <3> DEFINE job == [work[w] EXCEPT !.pc = "titled", !.title = Encrypted(@)]
        <3>1. /\ job \in Jobs /\ job.pc = "titled" /\ job.song = work[w].song
              /\ job.title.text # "own"
            BY <1>3, CryptedFields DEF Jobs, TextInv
        <3>2. job.song \in Songs
            BY <2>4, <3>1 DEF EncryptTitle, TextInv, WorkIsSealed
        <3>3. Now(w, job)
            BY <2>4 DEF EncryptTitle
        <3> QED BY <3>1, <3>2, <3>3, NowSealed
    <2>5. CASE EncryptArtist(w)
        <3> DEFINE job == [work[w] EXCEPT !.pc = "sealed", !.artist = Encrypted(@)]
        <3>1. /\ job \in Jobs /\ job.pc = "sealed" /\ job.song = work[w].song
              /\ job.artist.text # "own" /\ job.title = work[w].title
            BY <1>3, CryptedFields DEF Jobs, TextInv
        <3>2. job.song \in Songs /\ job.title.text # "own"
            BY <2>5, <3>1 DEF EncryptArtist, TextInv, WorkIsSealed
        <3>3. Now(w, job)
            BY <2>5 DEF EncryptArtist
        <3> QED BY <3>1, <3>2, <3>3, NowSealed
    <2>6. CASE SaveFails(w)
        BY <2>6, NowSealed, FixedFields DEF SaveFails, NoWork
    <2> QED BY <2>1, <2>2, <2>3, <2>4, <2>5, <2>6
<1> QED BY <1>1, <1>2, <1>4 DEF TextInv, TextTypeOK, WorkIsSealed, Jobs,
                                StoredTextIsWhole

\* A save writes two texts that are sealed: it was refused a null, and nothing
\* in the clear gets this far.
LEMMA SaveSongInv ==
    ASSUME TextInv, NEW w \in Workers, SaveSong(w)
    PROVE  TextInv'
<1>1. /\ work[w] \in Jobs /\ work[w].song \in Songs
      /\ work[w].title.text = "sealed" /\ work[w].artist.text = "sealed"
    BY DEF SaveSong, Valid, TextInv, WorkIsSealed, Jobs, Fields
<1>2. WorkIsSealed'
    BY NowSealed, FixedFields DEF SaveSong, NoWork
<1>3. song' \in [Songs -> [status : {"none", "PENDING", "APPROVED"},
                           title : Fields, artist : Fields]]
    BY <1>1 DEF SaveSong, TextInv, TextTypeOK, Jobs
<1>4. StoredTextIsWhole'
    BY <1>1 DEF SaveSong, TextInv, TextTypeOK, StoredTextIsWhole
<1> QED BY <1>2, <1>3, <1>4 DEF SaveSong, TextInv, TextTypeOK, WorkIsSealed,
                                Jobs, login

LEMMA TextStepInv ==
    ASSUME TextInv, [TextNext]_textVars
    PROVE  TextInv'
<1>1. CASE UNCHANGED textVars
    BY <1>1 DEF textVars, TextInv, TextTypeOK, WorkIsSealed, StoredTextIsWhole
<1>2. CASE TextNext
    BY <1>2, SurroundingsInv, WorkInv, SaveSongInv DEF TextNext
<1> QED BY <1>1, <1>2

\* The inductive invariant of the texts: what a handler has encrypted so far is
\* whole, whatever key it was sealed with (text-crypto.js, songs.service.js).
THEOREM TextInvariant == TextSpec => []TextInv
<1>1. TextInv /\ [TextNext]_textVars => TextInv'
    BY TextStepInv
<1> QED BY <1>1, TextInitInv, PTL DEF TextSpec

-----------------------------------------------------------------------------
(* What follows. *)

\* Stored texts are never nulled and never in the clear, whatever keys are lost
\* between the load and the save of a song.
THEOREM StoredTextIsWholeAlways == TextSpec => []StoredTextIsWhole
<1>1. TextInv => StoredTextIsWhole
    BY DEF TextInv
<1> QED BY <1>1, TextInvariant, PTL

\* A readable song stays readable while the key and the version stay.
THEOREM SongStaysReadableAlways == TextSpec => SongStaysReadable
<1>1. TextInv /\ [TextNext]_textVars =>
        [\A s \in Songs :
            Readable(s) /\ ~Stale(s) /\ UNCHANGED version /\ keys'[version] # NoKey
                => Readable(s)']_textVars
    <2> SUFFICES ASSUME TextInv, TextNext, NEW s \in Songs, Readable(s), ~Stale(s),
                        UNCHANGED version, keys'[version] # NoKey
                 PROVE  Readable(s)'
        OBVIOUS
    \* What can be read was sealed in the second of the cached key: there is one.
    <2>1. keys[version] # NoKey /\ version \in Versions
        BY TextKeysAssumption DEF TextInv, TextTypeOK, Readable, Fields, Seconds
    <2>2. keys'[version] = keys[version]
        <3>1. ASSUME NEW c \in Clients, Login(c) \/ Logout(c)
              PROVE keys'[version] = keys[version]
            BY <3>1 DEF Login, Logout
        <3>2. ASSUME NEW k \in Sockets, JoinRoom(k) \/ Disconnect(k)
              PROVE keys'[version] = keys[version]
            BY <3>2, <2>1 DEF JoinRoom, Disconnect
        <3>3. ASSUME NEW v \in Versions, CrowdedOut(v)
              PROVE keys'[version] = keys[version]
            BY <3>3, <2>1 DEF CrowdedOut, TextInv, TextTypeOK
        <3>4. CASE Restart \/ SecondPasses
            BY <3>4, <2>1 DEF Restart, SecondPasses
        <3>5. CASE Show
            BY <3>5, <2>1, CachedKeepsKey DEF Show, TextInv
        <3>6. ASSUME NEW w \in Workers,
                     \/ \E t \in Songs : Suggest(w, t) \/ Load(w, t)
                     \/ Decrypt(w) \/ EncryptTitle(w) \/ EncryptArtist(w)
                     \/ SaveSong(w) \/ SaveFails(w)
              PROVE keys'[version] = keys[version]
            BY <3>6, <2>1, CachedKeepsKey
               DEF Suggest, Load, Decrypt, EncryptTitle, EncryptArtist, SaveSong,
                   SaveFails, TextInv
        <3> QED BY <3>1, <3>2, <3>3, <3>4, <3>5, <3>6 DEF TextNext
    <2>3. CASE UNCHANGED song
        BY <2>2, <2>3 DEF Readable
    <2>4. ASSUME NEW w \in Workers, SaveSong(w) PROVE Readable(s)'
        <3>1. CASE work[w].song # s
            BY <3>1, <2>2, <2>4 DEF SaveSong, Readable, TextInv, TextTypeOK
        <3>2. CASE work[w].song = s
            <4>1. work[w].title.text = "sealed" /\ work[w].artist.text = "sealed"
                BY <2>4 DEF SaveSong, Valid, TextInv, WorkIsSealed, Jobs, Fields
            <4>2. \A f \in {work[w].title, work[w].artist} :
                    f.v = version /\ f.k = keys[version]
                BY <4>1, <3>2 DEF Stale
            <4> QED BY <4>2, <3>2, <2>2, <2>4
                    DEF SaveSong, Readable, TextInv, TextTypeOK
        <3> QED BY <3>1, <3>2
    <2>5. UNCHANGED song \/ \E w \in Workers : SaveSong(w)
        BY DEF TextNext, Login, Logout, JoinRoom, Disconnect, CrowdedOut, Restart,
               SecondPasses, Show, Suggest, Load, Decrypt, EncryptTitle,
               EncryptArtist, SaveFails
    <2> QED BY <2>3, <2>4, <2>5
<1> QED BY <1>1, TextInvariant, PTL DEF TextSpec, SongStaysReadable

\* A login leaves no other browser signed in.
THEOREM LoginRetiresOthersAlways == TextSpec => LoginRetiresOthers
<1>1. TextInv /\ [TextNext]_textVars =>
        [\A c \in Clients : token'[c] # token[c]
            => \A d \in Clients \ {c} : token'[d] # version']_textVars
    <2> SUFFICES ASSUME TextInv, TextNext, NEW c \in Clients, token'[c] # token[c],
                        NEW d \in Clients \ {c}
                 PROVE  token'[d] # version'
        OBVIOUS
    <2>1. PICK b \in Clients : Login(b)
        BY DEF TextNext, Logout, JoinRoom, Disconnect, CrowdedOut, Restart,
               SecondPasses, Show, Suggest, Load, Decrypt, EncryptTitle,
               EncryptArtist, SaveSong, SaveFails, login
    <2>2. b = c /\ token'[d] = token[d]
        BY <2>1 DEF Login, TextInv, TextTypeOK
    <2>3. token[d] <= version /\ version' = version + 1 /\ version \in Nat
          /\ token[d] \in Nat
        BY <2>1 DEF Login, Raised, TextInv, TextTypeOK, Versions
    <2> QED BY <2>2, <2>3
<1> QED BY <1>1, TextInvariant, PTL DEF TextSpec, LoginRetiresOthers

-----------------------------------------------------------------------------
(* Friends and invites.                                                    *)

Tasks == [pc : {"idle", "reverse", "own", "create", "cancel", "deny", "accept",
                "rows", "invite"},
          from : Users \cup {NoUser}, to : Users \cup {NoUser},
          doc : Nat, todo : SUBSET (Users \X Users)]

RequestType == [from : Users, to : Users, status : Statuses]
InviteType == [from : Users, to : Users, status : {"sent", "accepted", "dismissed"}]

\* What a handler knows from its reads and is still true when it writes: that an
\* acceptance is the recipient's, what it has still to write, and that an
\* invitation goes to somebody who was a friend.
TaskOK(h) ==
    LET t == task[h]
    IN  /\ t.pc # "idle" => t.from \in Users /\ t.to \in Users
        /\ t.pc \in {"cancel", "deny", "accept", "rows"} => t.doc \in DOMAIN requests
        /\ t.pc = "accept" => t.from = requests[t.doc].to /\ t.to = requests[t.doc].from
        /\ IF t.pc = "rows"
           THEN /\ t.todo # {} /\ t.todo \subseteq Both(t.from, t.to)
                /\ Both(t.from, t.to) \subseteq t.todo \cup rows
                /\ <<t.to, t.from>> \in agreed
           ELSE t.todo = {}
        /\ t.pc = "invite" => Both(t.from, t.to) \cap agreed # {}

\* A half that stands alone was torn off, or the other half is on its way.
HalvesAreAwaited ==
    \A u, v \in Users :
        <<u, v>> \in rows /\ <<v, u>> \notin rows /\ <<u, v>> \notin torn
            => \E h \in Handlers : task[h].pc = "rows" /\ <<v, u>> \in task[h].todo

\* The inductive invariant.
FriendsInv ==
    /\ FriendsTypeOK
    /\ task \in [Handlers -> Tasks]
    /\ \A h \in Handlers : TaskOK(h)
    /\ HalvesAreAwaited
    /\ FriendsHaveAgreed

-----------------------------------------------------------------------------
(* Steps of one handler. *)

\* The requests that are there.
LEMMA RequestsTyped ==
    ASSUME FriendsTypeOK
    PROVE  /\ requests \in Seq(RequestType)
           /\ DOMAIN requests = 1 .. Len(requests) /\ Len(requests) \in Nat
           /\ \A i \in DOMAIN requests :
                /\ i \in Nat /\ requests[i] \in RequestType
                /\ requests[i].from \in Users /\ requests[i].to \in Users
<1>1. requests \in Seq(RequestType)
    BY DEF FriendsTypeOK, RequestType
<1>2. DOMAIN requests = 1 .. Len(requests) /\ Len(requests) \in Nat
    BY <1>1, LenProperties
<1>3. \A i \in DOMAIN requests : requests[i] \in RequestType
    BY <1>1, <1>2, ElementOfSeq
<1> QED BY <1>1, <1>2, <1>3 DEF RequestType

\* Requests keep their two sides.
RequestsKept ==
    /\ DOMAIN requests \subseteq DOMAIN requests'
    /\ \A i \in DOMAIN requests :
         requests'[i].from = requests[i].from /\ requests'[i].to = requests[i].to

\* What the other handlers know stays true.
LEMMA OthersStayOK ==
    ASSUME FriendsInv, NEW h \in Handlers, NEW t \in Tasks, Becomes(h, t), TaskOK(h)',
           RequestsKept, rows \subseteq rows', agreed \subseteq agreed'
    PROVE  task' \in [Handlers -> Tasks] /\ \A g \in Handlers : TaskOK(g)'
<1>1. task' \in [Handlers -> Tasks]
    BY DEF FriendsInv, Becomes
<1>2. ASSUME NEW g \in Handlers, g # h PROVE TaskOK(g)'
    <2>1. task'[g] = task[g]
        BY <1>2 DEF FriendsInv, Becomes
    <2>2. TaskOK(g)
        BY DEF FriendsInv
    <2> QED BY <2>1, <2>2 DEF TaskOK, RequestsKept
<1> QED BY <1>1, <1>2

\* A task that is not writing rows.
LEMMA PlainTaskOK ==
    ASSUME NEW h \in Handlers, NEW t \in Tasks, t.pc # "rows", t.todo = {},
           task \in [Handlers -> Tasks], Becomes(h, t),
           t.pc # "idle" => t.from \in Users /\ t.to \in Users,
           t.pc \in {"cancel", "deny", "accept"} => t.doc \in DOMAIN requests',
           t.pc = "accept" => t.from = requests'[t.doc].to /\ t.to = requests'[t.doc].from,
           t.pc = "invite" => Both(t.from, t.to) \cap agreed' # {}
    PROVE  TaskOK(h)'
<1>1. task'[h] = t
    BY DEF Becomes
<1> QED BY <1>1 DEF TaskOK

LEMMA IdleOK == NoTask \in Tasks /\ NoTask.pc = "idle" /\ NoTask.todo = {}
BY DEF NoTask, Tasks

\* A handler that was writing no rows goes on to something else that writes none.
LEMMA HandlerMoves ==
    ASSUME FriendsInv, NEW h \in Handlers, NEW t \in Tasks, Becomes(h, t),
           task[h].pc # "rows", t.pc # "rows", t.todo = {},
           t.pc # "idle" => t.from \in Users /\ t.to \in Users,
           t.pc \in {"cancel", "deny", "accept"} => t.doc \in DOMAIN requests',
           t.pc = "accept" => t.from = requests'[t.doc].to /\ t.to = requests'[t.doc].from,
           t.pc = "invite" => Both(t.from, t.to) \cap agreed' # {},
           RequestsKept, UNCHANGED <<rows, agreed, torn>>
    PROVE  /\ task' \in [Handlers -> Tasks]
           /\ \A g \in Handlers : TaskOK(g)'
           /\ HalvesAreAwaited'
           /\ \A g \in Handlers :
                /\ task'[g].pc \in {"cancel", "deny", "accept", "rows"}
                     => task'[g].doc \in DOMAIN requests'
                /\ task'[g].todo # {} => task'[g].pc = "rows"
<1>1. TaskOK(h)'
    BY PlainTaskOK DEF FriendsInv
<1>2. task' \in [Handlers -> Tasks] /\ \A g \in Handlers : TaskOK(g)'
    BY <1>1, OthersStayOK
<1>3. HalvesAreAwaited'
    <2>1. \A g \in Handlers : task[g].pc = "rows" => task'[g] = task[g]
        BY DEF Becomes, FriendsInv
    <2> QED BY <2>1 DEF FriendsInv, HalvesAreAwaited
<1>4. ASSUME NEW g \in Handlers
      PROVE  /\ task'[g].pc \in {"cancel", "deny", "accept", "rows"}
                  => task'[g].doc \in DOMAIN requests'
             /\ task'[g].todo # {} => task'[g].pc = "rows"
    <2>1. TaskOK(g)'
        BY <1>2
    <2> QED BY <2>1 DEF TaskOK
<1> QED BY <1>2, <1>3, <1>4

\* The same, when it changes its own state only.
LEMMA HandlerThinks ==
    ASSUME FriendsInv, NEW h \in Handlers, NEW t \in Tasks, Becomes(h, t),
           task[h].pc # "rows", t.pc # "rows", t.todo = {},
           t.pc # "idle" => t.from \in Users /\ t.to \in Users,
           t.pc \in {"cancel", "deny", "accept"} => t.doc \in DOMAIN requests,
           t.pc = "accept" => t.from = requests[t.doc].to /\ t.to = requests[t.doc].from,
           t.pc = "invite" => Both(t.from, t.to) \cap agreed # {},
           UNCHANGED <<requests, rows, invites, agreed, torn>>
    PROVE  FriendsInv'
<1>1. RequestsKept
    BY DEF RequestsKept
<1> HIDE DEF RequestsKept
<1> QED BY <1>1, HandlerMoves DEF FriendsInv, FriendsTypeOK, FriendsHaveAgreed

-----------------------------------------------------------------------------
(* The invariant, one step per action. *)

LEMMA FriendsInitInv == FriendsInit => FriendsInv
<1> SUFFICES ASSUME FriendsInit PROVE FriendsInv
    OBVIOUS
<1>1. \A h \in Handlers : task[h].pc = "idle" /\ task[h].todo = {}
    BY DEF FriendsInit, NoTask
<1>2. requests \in Seq(RequestType) /\ invites \in Seq(InviteType)
    BY EmptySeq DEF FriendsInit
<1>3. FriendsTypeOK
    BY <1>1, <1>2 DEF FriendsInit, FriendsTypeOK, RequestType, InviteType
<1>4. task \in [Handlers -> Tasks]
    BY IdleOK DEF FriendsInit
<1>5. (\A h \in Handlers : TaskOK(h)) /\ HalvesAreAwaited /\ FriendsHaveAgreed
    BY <1>1, <1>2 DEF FriendsInit, TaskOK, HalvesAreAwaited, FriendsHaveAgreed
<1> QED BY <1>3, <1>4, <1>5 DEF FriendsInv

\* Handlers that look.
LEMMA LookingInv ==
    ASSUME FriendsInv, NEW h \in Handlers,
           \/ \E u, v \in Users : SendRequest(h, u, v) \/ Invite(h, u, v)
           \/ FindReverse(h) \/ FindOwn(h)
           \/ \E i \in DOMAIN requests :
                Cancel(h, i) \/ \E answer \in {"accept", "deny"} : Respond(h, i, answer)
    PROVE  FriendsInv'
<1>0. /\ task[h] \in Tasks /\ TaskOK(h)
      /\ \A i \in DOMAIN requests :
            i \in Nat /\ requests[i].from \in Users /\ requests[i].to \in Users
    BY RequestsTyped DEF FriendsInv
<1>1. ASSUME NEW u \in Users, NEW v \in Users, SendRequest(h, u, v)
      PROVE  FriendsInv'
    <2> DEFINE t == [NoTask EXCEPT !.pc = "reverse", !.from = u, !.to = v]
    <2>1. t \in Tasks /\ t.pc = "reverse" /\ t.todo = {} /\ t.from = u /\ t.to = v
        BY DEF NoTask, Tasks
    <2>2. Becomes(h, t) /\ UNCHANGED <<requests, rows, invites, agreed, torn>>
          /\ task[h].pc # "rows"
        BY <1>1, IdleOK DEF SendRequest
    <2> HIDE DEF t
    <2> QED BY <2>1, <2>2, HandlerThinks
<1>2. ASSUME NEW u \in Users, NEW v \in Users, Invite(h, u, v)
      PROVE  FriendsInv'
    <2> DEFINE t == [NoTask EXCEPT !.pc = "invite", !.from = u, !.to = v]
    <2>1. t \in Tasks /\ t.pc = "invite" /\ t.todo = {} /\ t.from = u /\ t.to = v
        BY DEF NoTask, Tasks
    <2>2. Becomes(h, t) /\ UNCHANGED <<requests, rows, invites, agreed, torn>>
          /\ task[h].pc # "rows"
        BY <1>2, IdleOK DEF Invite
    <2>3. Both(u, v) \cap agreed # {}
        BY <1>2 DEF Invite, FriendsInv, FriendsHaveAgreed
    <2> HIDE DEF t
    <2> QED BY <2>1, <2>2, <2>3, HandlerThinks
<1>3. CASE FindReverse(h)
    <2>1. task[h].pc = "reverse" /\ task[h].from \in Users /\ task[h].to \in Users
          /\ task[h].todo = {}
        BY <1>0, <1>3 DEF FindReverse, TaskOK
    <2>2. CASE PendingReverse(task[h].from, task[h].to) = {}
        <3> DEFINE t == [task[h] EXCEPT !.pc = "own"]
        <3>1. t \in Tasks /\ t.pc = "own" /\ t.todo = {}
              /\ t.from = task[h].from /\ t.to = task[h].to
            BY <1>0, <2>1 DEF Tasks
        <3>2. Becomes(h, t) /\ UNCHANGED <<requests, rows, invites, agreed, torn>>
            BY <1>3, <2>2 DEF FindReverse, Goes
        <3> HIDE DEF t
        <3> QED BY <2>1, <3>1, <3>2, HandlerThinks
    <2>3. CASE PendingReverse(task[h].from, task[h].to) # {}
        <3>1. PICK i \in PendingReverse(task[h].from, task[h].to) :
                Becomes(h, [NoTask EXCEPT !.pc = "accept", !.doc = i,
                                          !.from = task[h].from, !.to = task[h].to])
            BY <1>3, <2>3 DEF FindReverse
        <3> DEFINE t == [NoTask EXCEPT !.pc = "accept", !.doc = i,
                                       !.from = task[h].from, !.to = task[h].to]
        <3>2. /\ i \in DOMAIN requests
              /\ requests[i].to = task[h].from /\ requests[i].from = task[h].to
            BY <3>1 DEF PendingReverse, Pending, IsPending
        <3>3. /\ t \in Tasks /\ t.pc = "accept" /\ t.todo = {} /\ t.doc = i
              /\ t.from = task[h].from /\ t.to = task[h].to
            BY <1>0, <2>1, <3>2 DEF NoTask, Tasks
        <3>4. Becomes(h, t) /\ UNCHANGED <<requests, rows, invites, agreed, torn>>
            BY <1>3, <3>1 DEF FindReverse
        <3> HIDE DEF t
        <3> QED BY <2>1, <3>2, <3>3, <3>4, HandlerThinks
    <2> QED BY <2>2, <2>3
<1>4. CASE FindOwn(h)
    <2>1. task[h].pc = "own" /\ task[h].from \in Users /\ task[h].to \in Users
          /\ task[h].todo = {}
        BY <1>0, <1>4 DEF FindOwn, TaskOK
    <2> DEFINE t == [task[h] EXCEPT !.pc = "create"]
    <2>2. t \in Tasks /\ t.pc = "create" /\ t.todo = {}
          /\ t.from = task[h].from /\ t.to = task[h].to
        BY <1>0, <2>1 DEF Tasks
    <2>3. (Becomes(h, t) \/ Becomes(h, NoTask))
          /\ UNCHANGED <<requests, rows, invites, agreed, torn>>
        BY <1>4 DEF FindOwn, Goes, Ends
    <2> HIDE DEF t
    <2> QED BY <2>1, <2>2, <2>3, IdleOK, HandlerThinks
<1>5. ASSUME NEW i \in DOMAIN requests, Cancel(h, i) PROVE FriendsInv'
    <2> DEFINE t == [NoTask EXCEPT !.pc = "cancel", !.doc = i,
                                   !.from = requests[i].from, !.to = requests[i].to]
    <2>1. t \in Tasks /\ t.pc = "cancel" /\ t.todo = {} /\ t.doc = i
          /\ t.from \in Users /\ t.to \in Users
        BY <1>0 DEF NoTask, Tasks
    <2>2. Becomes(h, t) /\ UNCHANGED <<requests, rows, invites, agreed, torn>>
          /\ task[h].pc # "rows"
        BY <1>5, IdleOK DEF Cancel
    <2> HIDE DEF t
    <2> QED BY <2>1, <2>2, HandlerThinks
<1>6. ASSUME NEW i \in DOMAIN requests, NEW answer \in {"accept", "deny"},
             Respond(h, i, answer)
      PROVE  FriendsInv'
    <2> DEFINE t == [NoTask EXCEPT !.pc = answer, !.doc = i,
                                   !.from = requests[i].to, !.to = requests[i].from]
    <2>1. t \in Tasks /\ t.pc = answer /\ t.todo = {} /\ t.doc = i
          /\ t.from = requests[i].to /\ t.to = requests[i].from
          /\ t.from \in Users /\ t.to \in Users
        BY <1>0 DEF NoTask, Tasks
    <2>2. Becomes(h, t) /\ UNCHANGED <<requests, rows, invites, agreed, torn>>
          /\ task[h].pc # "rows"
        BY <1>6, IdleOK DEF Respond
    <2> HIDE DEF t
    <2> QED BY <2>1, <2>2, HandlerThinks
<1> QED BY <1>1, <1>2, <1>3, <1>4, <1>5, <1>6

\* A request is made, unless the index refuses it.
LEMMA CreateInv ==
    ASSUME FriendsInv, NEW h \in Handlers, Create(h)
    PROVE  FriendsInv'
<1> DEFINE r == [from |-> task[h].from, to |-> task[h].to, status |-> "pending"]
<1>1. /\ task[h].pc = "create" /\ task[h].from \in Users /\ task[h].to \in Users
      /\ r \in RequestType /\ requests \in Seq(RequestType)
    BY DEF Create, FriendsInv, FriendsTypeOK, TaskOK, RequestType, Statuses
<1>2. Becomes(h, NoTask) /\ UNCHANGED <<rows, invites, agreed, torn>>
    BY DEF Create, Ends
<1>3. CASE requests' = requests
    BY <1>1, <1>2, <1>3, IdleOK, HandlerThinks
<1>4. CASE UniquePending(r.from, r.to) /\ requests' = Append(requests, r)
    <2>1. /\ requests' \in Seq(RequestType)
          /\ DOMAIN requests = 1 .. Len(requests) /\ Len(requests) \in Nat
          /\ DOMAIN requests' = 1 .. Len(requests) + 1
          /\ \A i \in DOMAIN requests : requests'[i] = requests[i]
          /\ requests'[Len(requests) + 1] = r
        BY <1>1, <1>4, AppendProperties, LenProperties
    <2>2. RequestsKept
        BY <2>1 DEF RequestsKept
    <2>3. \A i, j \in DOMAIN requests' :
            requests'[i] = requests'[j] /\ requests'[i].status = "pending" => i = j
        <3>1. \A i \in DOMAIN requests : requests[i] # r
            BY <1>4 DEF UniquePending, Pending, IsPending
        <3> QED BY <2>1, <3>1 DEF FriendsInv, FriendsTypeOK
    <2> HIDE DEF r
    <2>4. /\ task' \in [Handlers -> Tasks] /\ \A g \in Handlers : TaskOK(g)'
          /\ HalvesAreAwaited'
          /\ \A g \in Handlers :
                /\ task'[g].pc \in {"cancel", "deny", "accept", "rows"}
                     => task'[g].doc \in DOMAIN requests'
                /\ task'[g].todo # {} => task'[g].pc = "rows"
        BY <1>1, <1>2, <2>2, IdleOK, HandlerMoves
    <2> QED BY <1>2, <2>1, <2>3, <2>4
            DEF FriendsInv, FriendsTypeOK, FriendsHaveAgreed, RequestType
<1> QED BY <1>3, <1>4 DEF Create

\* Saves what was decided: refused, cancelled or accepted, whatever the request
\* has become since.
LEMMA SaveStatusInv ==
    ASSUME FriendsInv, NEW h \in Handlers, SaveStatus(h)
    PROVE  FriendsInv'
<1> DEFINE t == task[h]
           r == [requests[t.doc] EXCEPT !.status = Outcome(t.pc)]
<1>1. /\ t \in Tasks /\ TaskOK(h) /\ t.pc \in {"cancel", "deny", "accept"}
      /\ t.doc \in DOMAIN requests /\ t.from \in Users /\ t.to \in Users
    BY DEF FriendsInv, TaskOK, SaveStatus
<1>2. /\ r \in RequestType /\ r.status # "pending"
      /\ r.from = requests[t.doc].from /\ r.to = requests[t.doc].to
    BY <1>1, RequestsTyped DEF FriendsInv, Outcome, RequestType, Statuses
<1>3. requests' = [requests EXCEPT ![t.doc] = r] /\ UNCHANGED <<rows, invites, torn>>
    BY DEF SaveStatus
<1> HIDE DEF r
<1>4. /\ requests' \in Seq(RequestType) /\ DOMAIN requests' = DOMAIN requests
      /\ requests'[t.doc] = r
      /\ \A i \in DOMAIN requests : i # t.doc => requests'[i] = requests[i]
    BY <1>1, <1>2, <1>3, RequestsTyped, ExceptSeq, LenProperties DEF FriendsInv
<1>5. RequestsKept
    BY <1>2, <1>4 DEF RequestsKept
<1>6. \A i, j \in DOMAIN requests' :
        requests'[i] = requests'[j] /\ requests'[i].status = "pending" => i = j
    BY <1>2, <1>4 DEF FriendsInv, FriendsTypeOK
<1>7. CASE t.pc # "accept"
    <2>1. Becomes(h, NoTask) /\ UNCHANGED agreed
        BY <1>7 DEF SaveStatus, Ends
    <2>2. /\ task' \in [Handlers -> Tasks] /\ \A g \in Handlers : TaskOK(g)'
          /\ HalvesAreAwaited'
          /\ \A g \in Handlers :
                /\ task'[g].pc \in {"cancel", "deny", "accept", "rows"}
                     => task'[g].doc \in DOMAIN requests'
                /\ task'[g].todo # {} => task'[g].pc = "rows"
        BY <1>1, <1>3, <1>5, <2>1, IdleOK, HandlerMoves
    <2> QED BY <1>3, <1>4, <1>6, <2>1, <2>2
            DEF FriendsInv, FriendsTypeOK, FriendsHaveAgreed, RequestType
<1>8. CASE t.pc = "accept"
    <2> DEFINE n == [t EXCEPT !.pc = "rows", !.todo = Both(t.from, t.to)]
    <2>1. /\ n \in Tasks /\ n.pc = "rows" /\ n.todo = Both(t.from, t.to)
          /\ n.from = t.from /\ n.to = t.to /\ n.doc = t.doc
        <3>1. Both(t.from, t.to) \in SUBSET (Users \X Users)
            BY <1>1 DEF Both
        <3> QED BY <1>1, <3>1 DEF Tasks
    <2>2. Becomes(h, n) /\ agreed' = agreed \cup {<<t.to, t.from>>}
        BY <1>1, <1>8 DEF SaveStatus, TaskOK
    <2> HIDE DEF n
    <2>3. task'[h] = n
        BY <2>2 DEF Becomes, FriendsInv
    <2>4. TaskOK(h)'
        BY <1>1, <1>4, <2>1, <2>2, <2>3 DEF TaskOK, Both
    <2>5. task' \in [Handlers -> Tasks] /\ \A g \in Handlers : TaskOK(g)'
        BY <1>3, <1>5, <2>1, <2>2, <2>4, OthersStayOK
    <2>6. HalvesAreAwaited'
        <3>1. \A g \in Handlers : task[g].pc = "rows" => task'[g] = task[g]
            BY <1>8, <2>2 DEF Becomes, FriendsInv
        <3> QED BY <1>3, <3>1 DEF FriendsInv, HalvesAreAwaited
    <2>7. FriendsHaveAgreed'
        BY <1>3, <2>2 DEF FriendsInv, FriendsHaveAgreed
    <2>8. \A g \in Handlers :
            /\ task'[g].pc \in {"cancel", "deny", "accept", "rows"}
                 => task'[g].doc \in DOMAIN requests'
            /\ task'[g].todo # {} => task'[g].pc = "rows"
        BY <2>5 DEF TaskOK
    <2>9. agreed' \subseteq Users \X Users
        BY <1>1, <2>2 DEF FriendsInv, FriendsTypeOK
    <2> QED BY <1>3, <1>4, <1>6, <2>5, <2>6, <2>7, <2>8, <2>9
            DEF FriendsInv, FriendsTypeOK, RequestType
<1> QED BY <1>1, <1>7, <1>8

\* One row of a friendship is written; when it was the last one, the other is there.
LEMMA UpsertInv ==
    ASSUME FriendsInv, NEW h \in Handlers, Upsert(h)
    PROVE  FriendsInv'
<1> DEFINE t == task[h]
<1>1. /\ t \in Tasks /\ TaskOK(h) /\ t.pc = "rows" /\ t.todo # {}
      /\ t.from \in Users /\ t.to \in Users /\ t.doc \in DOMAIN requests
      /\ t.todo \subseteq Both(t.from, t.to)
      /\ Both(t.from, t.to) \subseteq t.todo \cup rows
      /\ <<t.to, t.from>> \in agreed
    BY DEF FriendsInv, TaskOK, Upsert
<1>2. PICK row \in t.todo :
        /\ rows' = rows \cup {row}
        /\ IF t.todo = {row} THEN Ends(h)
           ELSE Becomes(h, [t EXCEPT !.todo = @ \ {row}])
    BY DEF Upsert
<1> DEFINE n == IF t.todo = {row} THEN NoTask ELSE [t EXCEPT !.todo = @ \ {row}]
<1>3. /\ n \in Tasks
      /\ t.todo = {row} => n = NoTask
      /\ t.todo # {row} => /\ n.pc = "rows" /\ n.todo = t.todo \ {row} /\ n.doc = t.doc
                           /\ n.from = t.from /\ n.to = t.to
    BY <1>1, IdleOK DEF Tasks
<1>4. Becomes(h, n) /\ UNCHANGED <<requests, invites, agreed, torn>>
    BY <1>2 DEF Upsert, Ends
<1> HIDE DEF n
<1>5. task'[h] = n /\ \A g \in Handlers : g # h => task'[g] = task[g]
    BY <1>4 DEF Becomes, FriendsInv
<1>6. TaskOK(h)'
    BY <1>1, <1>2, <1>3, <1>4, <1>5, IdleOK DEF TaskOK
<1>7. RequestsKept
    BY <1>4 DEF RequestsKept
<1>8. task' \in [Handlers -> Tasks] /\ \A g \in Handlers : TaskOK(g)'
    BY <1>2, <1>3, <1>4, <1>6, <1>7, OthersStayOK
<1>9. HalvesAreAwaited'
    <2> SUFFICES ASSUME NEW u \in Users, NEW v \in Users, <<u, v>> \in rows',
                        <<v, u>> \notin rows', <<u, v>> \notin torn
                 PROVE  \E g \in Handlers :
                            task'[g].pc = "rows" /\ <<v, u>> \in task'[g].todo
        BY <1>4 DEF HalvesAreAwaited
    <2>1. CASE <<u, v>> \in rows
        <3>1. PICK g \in Handlers : task[g].pc = "rows" /\ <<v, u>> \in task[g].todo
            BY <1>2, <2>1 DEF FriendsInv, HalvesAreAwaited
        <3>2. <<v, u>> # row
            BY <1>2
        <3> QED BY <1>3, <1>5, <3>1, <3>2
    <2>2. CASE <<u, v>> = row
        <3>1. <<v, u>> \in Both(t.from, t.to)
            BY <1>1, <2>2 DEF Both
        <3>2. <<v, u>> \in t.todo /\ <<v, u>> # row
            BY <1>1, <1>2, <3>1
        <3> QED BY <1>3, <1>5, <3>2
    <2> QED BY <1>2, <2>1, <2>2
<1>10. rows' \subseteq Users \X Users /\ FriendsHaveAgreed'
    <2>1. row \in Both(t.from, t.to)
        BY <1>1
    <2>2. row \in Users \X Users /\ Both(row[1], row[2]) \cap agreed # {}
        BY <1>1, <2>1 DEF Both
    <2> QED BY <1>2, <1>4, <2>2 DEF FriendsInv, FriendsTypeOK, FriendsHaveAgreed
<1>11. \A g \in Handlers :
        /\ task'[g].pc \in {"cancel", "deny", "accept", "rows"}
             => task'[g].doc \in DOMAIN requests'
        /\ task'[g].todo # {} => task'[g].pc = "rows"
    BY <1>8 DEF TaskOK
<1> QED BY <1>4, <1>8, <1>9, <1>10, <1>11 DEF FriendsInv, FriendsTypeOK

\* A handler that fails between the two rows leaves its pair torn.
LEMMA HandlerFailsInv ==
    ASSUME FriendsInv, NEW h \in Handlers, HandlerFails(h)
    PROVE  FriendsInv'
<1> DEFINE t == task[h]
<1>1. CASE t.pc # "rows"
    BY <1>1, IdleOK, HandlerThinks DEF HandlerFails, Ends
<1>2. CASE t.pc = "rows"
    <2>1. /\ torn' = torn \cup Both(t.from, t.to) /\ t.from \in Users /\ t.to \in Users
          /\ t.todo \subseteq Both(t.from, t.to) /\ UNCHANGED <<requests, rows, invites, agreed>>
          /\ Becomes(h, NoTask)
        BY <1>2 DEF HandlerFails, Ends, FriendsInv, TaskOK
    <2>2. task'[h] = NoTask /\ \A g \in Handlers : g # h => task'[g] = task[g]
        BY <2>1 DEF Becomes, FriendsInv
    <2>3. RequestsKept
        BY <2>1 DEF RequestsKept
    <2>4. TaskOK(h)'
        BY <2>2 DEF TaskOK, NoTask
    <2>5. task' \in [Handlers -> Tasks] /\ \A g \in Handlers : TaskOK(g)'
        BY <2>1, <2>3, <2>4, IdleOK, OthersStayOK
    <2>6. HalvesAreAwaited'
        <3> SUFFICES ASSUME NEW u \in Users, NEW v \in Users, <<u, v>> \in rows,
                            <<v, u>> \notin rows, <<u, v>> \notin torn'
                     PROVE  \E g \in Handlers :
                                task'[g].pc = "rows" /\ <<v, u>> \in task'[g].todo
            BY <2>1 DEF HalvesAreAwaited
        <3>1. PICK g \in Handlers : task[g].pc = "rows" /\ <<v, u>> \in task[g].todo
            BY <2>1 DEF FriendsInv, HalvesAreAwaited
        <3>2. g # h
            BY <2>1, <3>1 DEF Both
        <3> QED BY <2>2, <3>1, <3>2
    <2>7. torn' \subseteq Users \X Users
        BY <2>1 DEF Both, FriendsInv, FriendsTypeOK
    <2>8. \A g \in Handlers :
            /\ task'[g].pc \in {"cancel", "deny", "accept", "rows"}
                 => task'[g].doc \in DOMAIN requests'
            /\ task'[g].todo # {} => task'[g].pc = "rows"
        BY <2>5 DEF TaskOK
    <2> QED BY <2>1, <2>5, <2>6, <2>7, <2>8
            DEF FriendsInv, FriendsTypeOK, FriendsHaveAgreed
<1> QED BY <1>1, <1>2

\* Both rows go together.
LEMMA UnfriendInv ==
    ASSUME FriendsInv, NEW u \in Users, NEW v \in Users, Unfriend(u, v)
    PROVE  FriendsInv'
<1>1. /\ rows' = rows \ Both(u, v) /\ torn' = torn \ Both(u, v)
      /\ UNCHANGED <<requests, invites, task, agreed>> /\ Settled(u, v)
    BY DEF Unfriend, Unfriended
<1>2. ASSUME NEW h \in Handlers PROVE TaskOK(h)'
    <2> DEFINE t == task[h]
    <2>1. TaskOK(h)
        BY DEF FriendsInv
    <2>2. CASE t.pc # "rows"
        BY <1>1, <2>1, <2>2 DEF TaskOK
    <2>3. CASE t.pc = "rows"
        <3>1. /\ t.todo # {} /\ t.todo \subseteq Both(t.from, t.to)
              /\ t.todo \cap Both(u, v) = {}
            BY <1>1, <2>1, <2>3 DEF TaskOK, Settled
        <3>2. Both(t.from, t.to) \cap Both(u, v) = {}
            BY <3>1 DEF Both
        <3> QED BY <1>1, <2>1, <2>3, <3>2 DEF TaskOK
    <2> QED BY <2>2, <2>3
<1>3. HalvesAreAwaited'
    <2> SUFFICES ASSUME NEW a \in Users, NEW b \in Users, <<a, b>> \in rows',
                        <<b, a>> \notin rows', <<a, b>> \notin torn'
                 PROVE  \E g \in Handlers : task[g].pc = "rows" /\ <<b, a>> \in task[g].todo
        BY <1>1 DEF HalvesAreAwaited
    <2>1. <<a, b>> \notin Both(u, v) /\ <<b, a>> \notin Both(u, v)
        BY <1>1 DEF Both
    <2> QED BY <1>1, <2>1 DEF FriendsInv, HalvesAreAwaited
<1> QED BY <1>1, <1>2, <1>3 DEF FriendsInv, FriendsTypeOK, FriendsHaveAgreed

\* Invites: whoever was a friend when the handler looked has agreed since.
LEMMA InvitesInv ==
    ASSUME FriendsInv,
           \/ \E h \in Handlers : SaveInvite(h)
           \/ \E i \in DOMAIN invites : \E answer \in {"accepted", "dismissed"} :
                RespondInvite(i, answer)
    PROVE  FriendsInv'
<1>0. invites \in Seq(InviteType)
    BY DEF FriendsInv, FriendsTypeOK, InviteType
<1>1. ASSUME NEW h \in Handlers, SaveInvite(h) PROVE FriendsInv'
    <2> DEFINE n == [from |-> task[h].from, to |-> task[h].to, status |-> "sent"]
    <2>1. /\ task[h].pc = "invite" /\ n \in InviteType
          /\ Both(n.from, n.to) \cap agreed # {}
        BY <1>1 DEF SaveInvite, FriendsInv, TaskOK, InviteType
    <2>2. /\ invites' = Append(invites, n) /\ Becomes(h, NoTask)
          /\ UNCHANGED <<requests, rows, agreed, torn>>
        BY <1>1 DEF SaveInvite, Ends
    <2> HIDE DEF n
    <2>3. /\ invites' \in Seq(InviteType)
          /\ \A i \in DOMAIN invites' :
                \/ invites'[i] = n
                \/ i \in DOMAIN invites /\ invites'[i] = invites[i]
        BY <1>0, <2>1, <2>2, AppendProperties, LenProperties
    <2>4. RequestsKept
        BY <2>2 DEF RequestsKept
    <2>5. /\ task' \in [Handlers -> Tasks] /\ \A g \in Handlers : TaskOK(g)'
          /\ HalvesAreAwaited'
          /\ \A g \in Handlers :
                /\ task'[g].pc \in {"cancel", "deny", "accept", "rows"}
                     => task'[g].doc \in DOMAIN requests'
                /\ task'[g].todo # {} => task'[g].pc = "rows"
        BY <2>1, <2>2, <2>4, IdleOK, HandlerMoves
    <2>6. FriendsHaveAgreed'
        BY <2>1, <2>2, <2>3 DEF FriendsInv, FriendsHaveAgreed
    <2> QED BY <2>2, <2>3, <2>5, <2>6 DEF FriendsInv, FriendsTypeOK, InviteType
<1>2. ASSUME NEW i \in DOMAIN invites, NEW answer \in {"accepted", "dismissed"},
             RespondInvite(i, answer)
      PROVE  FriendsInv'
    <2> DEFINE n == [invites[i] EXCEPT !.status = answer]
    <2>1. invites[i] \in InviteType /\ i \in 1 .. Len(invites)
        BY <1>0, LenProperties, ElementOfSeq
    <2>2. n \in InviteType /\ n.from = invites[i].from /\ n.to = invites[i].to
        BY <2>1 DEF InviteType
    <2>3. invites' = [invites EXCEPT ![i] = n]
          /\ UNCHANGED <<requests, rows, task, agreed, torn>>
        BY <1>2 DEF RespondInvite
    <2> HIDE DEF n
    <2>4. /\ invites' \in Seq(InviteType)
          /\ DOMAIN invites' = DOMAIN invites
          /\ \A j \in DOMAIN invites : invites'[j].from = invites[j].from
                                     /\ invites'[j].to = invites[j].to
        BY <1>0, <2>1, <2>2, <2>3, ExceptSeq, LenProperties
    <2>5. FriendsHaveAgreed'
        BY <2>3, <2>4 DEF FriendsInv, FriendsHaveAgreed
    <2>6. (\A h \in Handlers : TaskOK(h)') /\ HalvesAreAwaited'
        BY <2>3 DEF FriendsInv, TaskOK, HalvesAreAwaited
    <2> QED BY <2>3, <2>4, <2>5, <2>6 DEF FriendsInv, FriendsTypeOK, InviteType
<1> QED BY <1>1, <1>2

LEMMA FriendsStepInv ==
    ASSUME FriendsInv, [FriendsNext]_friendVars
    PROVE  FriendsInv'
<1>1. CASE UNCHANGED friendVars
    BY <1>1 DEF friendVars, FriendsInv, FriendsTypeOK, TaskOK, HalvesAreAwaited,
                FriendsHaveAgreed
<1>2. CASE FriendsNext
    BY <1>2, LookingInv, CreateInv, SaveStatusInv, UpsertInv, HandlerFailsInv,
       UnfriendInv, InvitesInv DEF FriendsNext
<1> QED BY <1>1, <1>2

-----------------------------------------------------------------------------
(* What follows. *)

\* The inductive invariant of friends.service.js.  FriendsHaveAgreed needs what each
\* handler knows of the request it loaded, FriendshipIsMutual that a half written
\* alone has an acceptance under way that writes the other.
THEOREM FriendsInvariant == FriendsSpec => []FriendsInv
<1>1. FriendsInv /\ [FriendsNext]_friendVars => FriendsInv'
    BY FriendsStepInv
<1> QED BY <1>1, FriendsInitInv, PTL DEF FriendsSpec

\* Types, and at most one pending request from one user to another, however many
\* handlers look for one before either creates it.
THEOREM FriendsTypeCorrect == FriendsSpec => []FriendsTypeOK
<1>1. FriendsInv => FriendsTypeOK
    BY DEF FriendsInv
<1> QED BY <1>1, FriendsInvariant, PTL

\* Nobody is a friend, or invited as one, without an acceptance.
THEOREM FriendsHaveAgreedAlways == FriendsSpec => []FriendsHaveAgreed
<1>1. FriendsInv => FriendsHaveAgreed
    BY DEF FriendsInv
<1> QED BY <1>1, FriendsInvariant, PTL

\* Friendships that are settled and were not torn count for both.
THEOREM FriendshipIsMutualAlways == FriendsSpec => []FriendshipIsMutual
<1>1. FriendsInv => FriendshipIsMutual
    BY DEF FriendsInv, HalvesAreAwaited, FriendshipIsMutual, Settled, Both
<1> QED BY <1>1, FriendsInvariant, PTL

-----------------------------------------------------------------------------
(* The account of one address.                                             *)

Paths == {"registered", "link", "attempts", "sentAt"}
Mailings ==
    [pc : {"idle", "register", "welcome", "mail", "send", "save", "event", "member"},
     doc : Documents \cup {NoAccount}, paths : SUBSET Paths]

Verified == account \in Documents /\ account.role = "DJ" /\ account.registered

\* What a handler holds.  It never sends the role, nor a document that takes a
\* verification back, and past the check of createEvent the DJ stays verified.
HandlerOK(h) ==
    /\ handler[h].pc = "register" => handler[h].doc \in Documents
    /\ handler[h].pc \in {"welcome", "mail", "send", "save", "event", "member"} =>
         account \in Documents
    /\ handler[h].pc \in {"mail", "send", "save"} =>
         /\ handler[h].doc \in Documents
         /\ "registered" \in handler[h].paths => handler[h].doc.registered
    /\ handler[h].pc \in {"mail", "send"} => handler[h].doc.link \in LinkIds
    /\ handler[h].pc \in {"event", "member"} => Verified

AccountsInv ==
    /\ AccountTypeOK
    /\ handler \in [Requests -> Mailings]
    /\ \A h \in Requests : HandlerOK(h)
    /\ event # "none" => Verified

-----------------------------------------------------------------------------
(* Documents.                                                              *)

LEMMA QuietType == Quiet \in Mailings /\ Quiet.pc = "idle"
BY DEF Quiet, Mailings

LEMMA NewUserType ==
    ASSUME NEW role \in {"ATTENDEE", "DJ"}
    PROVE  NewUser(role) \in Documents
<1>1. MaxMails \in Nat /\ Day \in Nat
    BY AccountsAssumption
<1> QED BY <1>1 DEF NewUser, Documents

\* The smaller of two counts.
LEMMA MinOfTwoIs ==
    ASSUME NEW a \in Nat, NEW b \in Nat
    PROVE  Min({a, b}) = IF a <= b THEN a ELSE b
<1>1. \E x \in {a, b} : \A y \in {a, b} : x =< y
    OBVIOUS
<1> DEFINE m == Min({a, b})
<1>2. m \in {a, b} /\ \A y \in {a, b} : m =< y
    BY <1>1 DEF Min
<1> HIDE DEF m
<1>3. m = IF a <= b THEN a ELSE b
    BY <1>2
<1> QED BY <1>3 DEF m

LEMMA MinOfTwo ==
    ASSUME NEW a \in Nat, NEW b \in Nat
    PROVE  Min({a, b}) \in 0 .. b
BY MinOfTwoIs

\* What save leaves: the role, and a verification once it is there.
LEMMA SavedPathsType ==
    ASSUME account \in Documents, NEW doc \in Documents, NEW paths \in SUBSET Paths
    PROVE  /\ SavedPaths(doc, paths) \in Documents
           /\ SavedPaths(doc, paths).role = account.role
           /\ SavedPaths(doc, paths).registered =
                IF "registered" \in paths THEN doc.registered ELSE account.registered
<1>1. DOMAIN account = {"role", "registered", "link", "attempts", "sentAt"}
    BY DEF Documents
<1>2. \A f \in DOMAIN account :
        SavedPaths(doc, paths)[f] = IF f \in paths THEN doc[f] ELSE account[f]
    BY DEF SavedPaths
<1>3. SavedPaths(doc, paths) \in Documents
    BY <1>1 DEF SavedPaths, Documents
<1>4. "role" \notin paths
    BY DEF Paths
<1> QED BY <1>1, <1>2, <1>3, <1>4

\* What sendWelcomeEmail hands to its save.
LEMMA MailedType ==
    ASSUME NEW doc \in Documents, NEW link \in LinkIds, NEW m,
           m = [doc EXCEPT !.attempts = Min({@ + 1, MaxMails + 1}), !.sentAt = 0, !.link = link]
    PROVE  m \in Documents /\ m.link = link
<1>1. MaxMails \in Nat /\ Day \in Nat /\ doc.attempts \in Nat
    BY AccountsAssumption DEF Documents
<1> DEFINE a == doc.attempts + 1
           b == MaxMails + 1
           n == Min({a, b})
<1>2. a \in Nat /\ b \in Nat /\ 0 \in 0 .. Day
    BY <1>1
<1>3. m = [doc EXCEPT !.attempts = n, !.sentAt = 0, !.link = link]
    OBVIOUS
<1> HIDE DEF a
<1>4. n \in 0 .. b
    BY <1>2, MinOfTwo
<1> HIDE DEF n
<1>5. n \in 0 .. MaxMails + 1
    BY <1>4
<1> QED BY <1>2, <1>3, <1>5 DEF Documents

-----------------------------------------------------------------------------
(* Every step keeps the invariant.                                         *)

LEMMA AccountsInvInit == AccountsInit => AccountsInv
<1>1. MaxMails \in Nat /\ Day \in Nat
    BY AccountsAssumption
<1> QED BY <1>1, QuietType DEF AccountsInit, AccountsInv, AccountTypeOK, HandlerOK

\* A handler moves on, and the account stays as it is.
LEMMA HandlerStep ==
    ASSUME AccountsInv, NEW h \in Requests, NEW n \in Mailings,
           handler' = [handler EXCEPT ![h] = n], account' = account,
           n.pc = "register" => n.doc \in Documents,
           n.pc \in {"welcome", "mail", "send", "save", "event", "member"} => account \in Documents,
           n.pc \in {"mail", "send", "save"} =>
             n.doc \in Documents /\ ("registered" \in n.paths => n.doc.registered),
           n.pc \in {"mail", "send"} => n.doc.link \in LinkIds,
           n.pc \in {"event", "member"} => Verified,
           links' \subseteq LinkIds, event' \in {"none", "made", "owned"},
           event' # "none" => Verified
    PROVE  AccountsInv'
<1>1. /\ handler' \in [Requests -> Mailings] /\ handler'[h] = n
      /\ \A g \in Requests : g # h => handler'[g] = handler[g]
    BY DEF AccountsInv
<1>2. \A g \in Requests : HandlerOK(g)'
    BY <1>1 DEF AccountsInv, HandlerOK, Verified
<1> QED BY <1>1, <1>2 DEF AccountsInv, AccountTypeOK, Verified

\* A handler begins or goes on with a document of its own.
LEMMA BeginsStep ==
    ASSUME AccountsInv, NEW h \in Requests, NEW pc, NEW doc, NEW paths \in SUBSET Paths,
           Begins(h, pc, doc, paths), UNCHANGED <<account, links>>,
           pc \in {"register", "welcome", "mail", "save", "event", "member"},
           doc \in Documents \cup {NoAccount},
           pc = "register" => doc \in Documents,
           pc # "register" => account \in Documents,
           pc \in {"mail", "save"} => doc \in Documents /\ ("registered" \in paths => doc.registered),
           pc = "mail" => doc.link \in LinkIds,
           pc \in {"event", "member"} => Verified,
           event' = event \/ (event' \in {"made", "owned"} /\ Verified)
    PROVE  AccountsInv'
<1> DEFINE n == [pc |-> pc, doc |-> doc, paths |-> paths]
<1>1. n \in Mailings /\ n.pc = pc /\ n.doc = doc /\ n.paths = paths
    BY DEF Mailings
<1>2. handler' = [handler EXCEPT ![h] = n]
    BY DEF Begins
<1> HIDE DEF n
<1>3. /\ links' \subseteq LinkIds /\ event' \in {"none", "made", "owned"}
      /\ event' # "none" => Verified
    BY DEF AccountsInv, AccountTypeOK
<1> QED BY <1>1, <1>2, <1>3, HandlerStep

LEMMA FinishesStep ==
    ASSUME AccountsInv, NEW h \in Requests, Finishes(h), account' = account,
           links' \subseteq LinkIds,
           event' = event \/ (event' \in {"made", "owned"} /\ Verified)
    PROVE  AccountsInv'
<1>1. event' \in {"none", "made", "owned"} /\ (event' # "none" => Verified)
    BY DEF AccountsInv, AccountTypeOK
<1>2. handler' = [handler EXCEPT ![h] = Quiet]
    BY DEF Finishes
<1> QED BY <1>1, <1>2, QuietType, HandlerStep

LEMMA MailStep ==
    ASSUME AccountsInv, NEW h \in Requests, NEW doc \in Documents, Mail(h, doc),
           account \in Documents, UNCHANGED <<account, links, event>>
    PROVE  AccountsInv'
<1>1. CASE MayMail(doc)
    <2> DEFINE link == CHOOSE l \in FreshLinks : TRUE
               m == [doc EXCEPT !.attempts = Min({@ + 1, MaxMails + 1}), !.sentAt = 0, !.link = link]
    <2>1. link \in LinkIds
        BY <1>1 DEF Mail, FreshLinks
    <2>2. Begins(h, "mail", m, {"attempts", "sentAt", "link"})
        BY <1>1 DEF Mail
    <2>a. m = [doc EXCEPT !.attempts = Min({@ + 1, MaxMails + 1}), !.sentAt = 0, !.link = link]
        OBVIOUS
    <2> HIDE DEF m, link
    <2>3. m \in Documents /\ m.link = link
        BY <2>1, <2>a, MailedType
    <2>4. {"attempts", "sentAt", "link"} \in SUBSET Paths
          /\ "registered" \notin {"attempts", "sentAt", "link"}
        BY DEF Paths
    <2> QED BY <2>1, <2>2, <2>3, <2>4, BeginsStep
<1>2. CASE ~MayMail(doc)
    <2>1. Finishes(h) /\ links' \subseteq LinkIds
        BY <1>2 DEF Mail, AccountsInv, AccountTypeOK
    <2> QED BY <2>1, FinishesStep
<1> QED BY <1>1, <1>2

\* The document is saved: whoever was verified still is.
LEMMA SavingStep ==
    ASSUME AccountsInv, NEW h \in Requests, handler[h].pc \in {"mail", "save"},
           account' = SavedPaths(handler[h].doc, handler[h].paths),
           UNCHANGED <<links, event>>,
           \/ handler' = [handler EXCEPT ![h] = Quiet]
           \/ handler[h].pc = "mail" /\ handler' = [handler EXCEPT ![h].pc = "send"]
    PROVE  AccountsInv'
<1> DEFINE mailing == handler[h]
           doc == mailing.doc
           paths == mailing.paths
<1>1. /\ account \in Documents /\ mailing \in Mailings /\ doc \in Documents /\ paths \in SUBSET Paths
      /\ "registered" \in paths => doc.registered
    BY DEF AccountsInv, HandlerOK, Mailings
<1>2. account' \in Documents /\ (Verified => Verified')
    <2>1. /\ account' \in Documents /\ account'.role = account.role
          /\ account'.registered = IF "registered" \in paths THEN doc.registered ELSE account.registered
        BY <1>1, SavedPathsType
    <2> QED BY <1>1, <2>1 DEF Verified
<1>3. /\ handler' \in [Requests -> Mailings]
      /\ \A g \in Requests : g # h => handler'[g] = handler[g]
      /\ \/ handler'[h].pc = "idle"
         \/ handler'[h].pc = "send" /\ mailing.pc = "mail" /\ handler'[h].doc = doc
            /\ handler'[h].paths = paths
    <2>1. handler \in [Requests -> Mailings]
        BY DEF AccountsInv
    <2>2. CASE handler' = [handler EXCEPT ![h] = Quiet]
        BY <2>1, <2>2, QuietType
    <2>3. CASE mailing.pc = "mail" /\ handler' = [handler EXCEPT ![h].pc = "send"]
        BY <1>1, <2>1, <2>3 DEF Mailings
    <2> QED BY <2>2, <2>3
<1>4. \A g \in Requests : HandlerOK(g)'
    <2> SUFFICES ASSUME NEW g \in Requests PROVE HandlerOK(g)'
        OBVIOUS
    <2>1. CASE g # h
        BY <1>2, <1>3, <2>1 DEF AccountsInv, HandlerOK
    <2>2. CASE g = h
        BY <1>1, <1>2, <1>3, <2>2 DEF AccountsInv, HandlerOK
    <2> QED BY <2>1, <2>2
<1> QED BY <1>2, <1>3, <1>4 DEF AccountsInv, AccountTypeOK

LEMMA SaveUserStep ==
    ASSUME AccountsInv, NEW h \in Requests, SaveUser(h)
    PROVE  AccountsInv'
<1>1. CASE account # NoAccount
    <2>1. Finishes(h) /\ UNCHANGED <<account, links, event>> /\ links \subseteq LinkIds
        BY <1>1 DEF SaveUser, AccountsInv, AccountTypeOK
    <2> QED BY <2>1, FinishesStep
<1>2. CASE account = NoAccount
    <2>1. /\ account' = handler[h].doc /\ handler[h].doc \in Documents
          /\ \E pc \in {"welcome", "idle"} : Begins(h, pc, NoAccount, {})
          /\ UNCHANGED <<links, event>>
        BY <1>2 DEF SaveUser, Holds, AccountsInv, HandlerOK
    <2>2. PICK pc \in {"welcome", "idle"} : Begins(h, pc, NoAccount, {})
        BY <2>1
    <2> DEFINE n == [pc |-> pc, doc |-> NoAccount, paths |-> {}]
    <2>3. n \in Mailings /\ n.pc \in {"welcome", "idle"}
        BY DEF Mailings
    <2>4. handler' = [handler EXCEPT ![h] = n]
        BY <2>2 DEF Begins
    <2> HIDE DEF n
    <2>5. /\ handler' \in [Requests -> Mailings] /\ handler'[h] = n
          /\ \A g \in Requests : g # h => handler'[g] = handler[g]
        BY <2>3, <2>4 DEF AccountsInv
    <2>6. event = "none" /\ \A g \in Requests : handler[g].pc \in {"idle", "register"}
        <3>1. account \notin Documents
            BY <1>2, AccountsAssumption
        <3> QED BY <3>1 DEF AccountsInv, HandlerOK, Verified, Mailings
    <2>7. \A g \in Requests : HandlerOK(g)'
        BY <2>1, <2>3, <2>5, <2>6 DEF AccountsInv, HandlerOK
    <2> QED BY <2>1, <2>5, <2>6, <2>7 DEF AccountsInv, AccountTypeOK
<1> QED BY <1>1, <1>2

\* Time passes: the mail ages, and nothing else of the account.
LEMMA FiveMinutesStep ==
    ASSUME AccountsInv, FiveMinutes
    PROVE  AccountsInv'
<1>1. UNCHANGED <<handler, event>> /\ links' = {}
    BY DEF FiveMinutes
<1>2. CASE account = NoAccount
    <2>1. account' = account
        BY <1>2 DEF FiveMinutes
    <2> QED BY <1>1, <2>1 DEF AccountsInv, AccountTypeOK, HandlerOK, Verified
<1>3. CASE account # NoAccount
    <2> DEFINE age == Min({account.sentAt + 1, Day})
    <2>1. account \in Documents /\ Day \in Nat /\ account.sentAt \in Nat
        BY <1>3, AccountsAssumption DEF AccountsInv, AccountTypeOK, Documents
    <2>2. age \in 0 .. Day
        BY <2>1, MinOfTwo
    <2>3. account' = [account EXCEPT !.sentAt = age]
        BY <1>3 DEF FiveMinutes
    <2> HIDE DEF age
    <2>4. /\ account' \in Documents /\ account'.role = account.role
          /\ account'.registered = account.registered
        BY <2>1, <2>2, <2>3 DEF Documents
    <2> QED BY <1>1, <2>1, <2>4 DEF AccountsInv, AccountTypeOK, HandlerOK, Verified
<1> QED BY <1>2, <1>3

LEMMA AccountsInvStep == AccountsInv /\ [AccountsNext]_accountVars => AccountsInv'
<1> SUFFICES ASSUME AccountsInv, [AccountsNext]_accountVars PROVE AccountsInv'
    OBVIOUS
<1>0. links \subseteq LinkIds /\ account \in Documents \cup {NoAccount}
    BY DEF AccountsInv, AccountTypeOK
<1>1. CASE UNCHANGED accountVars
    BY <1>1 DEF accountVars, AccountsInv, AccountTypeOK, HandlerOK, Verified
<1>2. CASE FiveMinutes
    BY <1>2, FiveMinutesStep
<1>3. ASSUME NEW h \in Requests, Register(h) PROVE AccountsInv'
    <2>1. PICK role \in {"ATTENDEE", "DJ"} : Begins(h, "register", NewUser(role), {})
        BY <1>3 DEF Register
    <2>2. NewUser(role) \in Documents /\ UNCHANGED <<account, links, event>>
        BY <1>3, NewUserType DEF Register
    <2> QED BY <2>1, <2>2, BeginsStep
<1>4. ASSUME NEW h \in Requests, SaveUser(h) PROVE AccountsInv'
    BY <1>4, SaveUserStep
<1>5. ASSUME NEW h \in Requests, Welcome(h) PROVE AccountsInv'
    <2>1. account \in Documents /\ NewUser("DJ") \in Documents
        BY <1>5, NewUserType DEF Welcome, Holds, AccountsInv, HandlerOK
    <2> QED BY <1>5, <2>1, MailStep DEF Welcome
<1>6. ASSUME NEW h \in Requests, Resend(h) PROVE AccountsInv'
    BY <1>0, <1>6, MailStep DEF Resend
<1>7. ASSUME NEW h \in Requests, SaveMail(h) \/ SaveEdit(h) PROVE AccountsInv'
    BY <1>7, SavingStep DEF SaveMail, SaveEdit, Holds, Finishes
<1>8. ASSUME NEW h \in Requests, SendMail(h) PROVE AccountsInv'
    <2>1. handler[h].doc.link \in LinkIds
        BY <1>8 DEF SendMail, Holds, AccountsInv, HandlerOK
    <2>2. links' \subseteq LinkIds
        BY <1>0, <1>8, <2>1 DEF SendMail
    <2> QED BY <1>8, <2>2, FinishesStep DEF SendMail
<1>9. ASSUME NEW h \in Requests, VerifyToken(h) PROVE AccountsInv'
    <2> DEFINE doc == [account EXCEPT !.registered = TRUE, !.link = NoLink]
    <2>1. Begins(h, "save", doc, {"registered", "link"}) /\ UNCHANGED <<account, links, event>>
          /\ account \in Documents
        BY <1>0, <1>9 DEF VerifyToken
    <2>2. doc \in Documents /\ doc.registered /\ {"registered", "link"} \in SUBSET Paths
        BY <2>1 DEF Documents, Paths
    <2> HIDE DEF doc
    <2> QED BY <2>1, <2>2, BeginsStep
<1>10. ASSUME NEW h \in Requests, EditUser(h) PROVE AccountsInv'
    <2>1. Begins(h, "save", account, {}) /\ UNCHANGED <<account, links, event>>
          /\ account \in Documents
        BY <1>0, <1>10 DEF EditUser
    <2> QED BY <2>1, BeginsStep
<1>11. ASSUME NEW h \in Requests, AssertCanCreate(h) PROVE AccountsInv'
    <2>1. Begins(h, "event", NoAccount, {}) /\ UNCHANGED <<account, links, event>> /\ Verified
        BY <1>0, <1>11 DEF AssertCanCreate, Verified
    <2> QED BY <2>1, BeginsStep DEF Verified
<1>12. ASSUME NEW h \in Requests, SaveEvent(h) PROVE AccountsInv'
    <2>1. Verified /\ UNCHANGED <<account, links>>
        BY <1>12 DEF SaveEvent, Holds, AccountsInv, HandlerOK
    <2>2. CASE event = "none"
        BY <1>12, <2>1, <2>2, BeginsStep DEF SaveEvent, Verified
    <2>3. CASE event # "none"
        BY <1>0, <1>12, <2>1, <2>3, FinishesStep DEF SaveEvent
    <2> QED BY <2>2, <2>3
<1>13. ASSUME NEW h \in Requests, SaveMember(h) PROVE AccountsInv'
    <2>1. Verified
        BY <1>13 DEF SaveMember, Holds, AccountsInv, HandlerOK
    <2> QED BY <1>0, <1>13, <2>1, FinishesStep DEF SaveMember
<1>14. ASSUME NEW h \in Requests, UserSaveFails(h) PROVE AccountsInv'
    BY <1>0, <1>14, FinishesStep DEF UserSaveFails
<1> QED BY <1>1, <1>2, <1>3, <1>4, <1>5, <1>6, <1>7, <1>8, <1>9, <1>10, <1>11, <1>12, <1>13,
           <1>14 DEF AccountsNext

\* The inductive invariant of the account: it never loses a verification, since
\* no handler sends one back as it read it (document.save sends the paths it set).
THEOREM AccountsInvariant == AccountsSpec => []AccountsInv
<1> QED BY AccountsInvInit, AccountsInvStep, PTL DEF AccountsSpec

\* The account's document is well formed, however the handlers that save it
\* overlap (auth.service.js, email.service.js).
THEOREM AccountTypeCorrect == AccountsSpec => []AccountTypeOK
<1>1. AccountsInv => AccountTypeOK
    BY DEF AccountsInv
<1> QED BY <1>1, AccountsInvariant, PTL

\* An event has an owner who is a verified DJ, long after the check and although
\* other handlers of the account save what they read before the verification
\* (_assertCanCreateEvent against verifyEmailToken, sendWelcomeEmail, updateProfile).
THEOREM OwnerIsVerifiedAlways == AccountsSpec => []OwnerIsVerified
<1>1. AccountsInv => OwnerIsVerified
    BY AccountsAssumption DEF AccountsInv, OwnerIsVerified, Verified
<1> QED BY <1>1, AccountsInvariant, PTL

-----------------------------------------------------------------------------
(* How many mails a day sees.                                              *)

Mailers == {h \in Requests : handler[h].pc \in {"welcome", "mail", "send"}}

\* The rounds of mails the account has counted.
Counted == IF account.attempts < MaxMails THEN account.attempts ELSE MaxMails

\* What a handler sends to a save.
MailHandlerOK(h) ==
    /\ handler[h].pc = "mail" =>
         handler[h].paths = {"attempts", "sentAt", "link"} /\ handler[h].doc.sentAt = 0
    /\ handler[h].pc = "save" => handler[h].paths \subseteq {"registered", "link"}
    /\ handler[h].pc = "register" => handler[h].doc.attempts = 0 /\ handler[h].doc.sentAt = Day

\* A round has begun: whoever still mails read the account before it began, and
\* is within the round that it counted.
RoundOpen ==
    /\ Cardinality(mailed) + Cardinality(Mailers) <= Cardinality(Requests) * Counted
    /\ \A h \in Requests :
         /\ handler[h].pc = "mail" => handler[h].doc.attempts = account.attempts
         /\ handler[h].pc = "welcome" => account.attempts = 1

\* No round has begun in this tick: whoever mails will begin one, and was allowed to.
RoundClosed ==
    /\ Cardinality(mailed) <= Cardinality(Requests) * Counted
    /\ \A h \in Requests :
         /\ handler[h].pc = "mail" =>
              /\ handler[h].doc.attempts =
                   IF account.attempts <= MaxMails THEN account.attempts + 1 ELSE MaxMails + 1
              /\ account.sentAt < Day => account.attempts < MaxMails
         /\ handler[h].pc = "welcome" => account.sentAt = Day /\ account.attempts = 0
         /\ handler[h].pc # "send"

MailsInv ==
    /\ AccountsInv
    /\ IsFiniteSet(mailed)
    /\ \A m \in mailed : m[1] \in Nat /\ m[1] < Day
    /\ \A h \in Requests : MailHandlerOK(h)
    /\ account = NoAccount => mailed = {}
    /\ account # NoAccount =>
         /\ \A m \in mailed : m[1] >= account.sentAt
         /\ IF account.sentAt = 0 THEN RoundOpen ELSE RoundClosed

LEMMA Rounds ==
    ASSUME NEW r \in Nat, NEW k \in Nat
    PROVE  /\ r * k \in Nat /\ r * (k + 1) = r * k + r /\ r * 0 = 0
           /\ \A m \in Nat : k <= m => r * k <= r * m
<1>1. r * k \in Nat /\ r * (k + 1) = r * k + r /\ r * 0 = 0
    BY SMT
<1>2. ASSUME NEW m \in Nat, k <= m PROVE r * k <= r * m
    <2>1. PICK d \in Nat : m = k + d
        <3>1. m - k \in Nat /\ m = k + (m - k)
            BY <1>2
        <3> QED BY <3>1
    <2>2. r * m = r * k + r * d
        BY <2>1, SMT
    <2>3. r * d \in Nat
        BY SMT
    <2> QED BY <1>1, <2>2, <2>3
<1> QED BY <1>1, <1>2

\* Numbers of the account.
LEMMA Numbers ==
    /\ MaxMails \in Nat /\ MaxMails # 0 /\ Day \in Nat /\ Day # 0
    /\ IsFiniteSet(Requests) /\ Cardinality(Requests) \in Nat
    /\ \A doc \in Documents :
         doc.attempts \in Nat /\ doc.sentAt \in Nat /\ doc.attempts <= MaxMails + 1 /\ doc.sentAt <= Day
<1>1. MaxMails \in Nat /\ MaxMails # 0 /\ Day \in Nat /\ Day # 0 /\ IsFiniteSet(Requests)
    BY AccountsAssumption
<1> QED BY <1>1, FS_CardinalityType DEF Documents

LEMMA MailersFinite ==
    IsFiniteSet(Mailers) /\ Cardinality(Mailers) \in Nat /\ Cardinality(Mailers) <= Cardinality(Requests)
<1>1. Mailers \subseteq Requests
    BY DEF Mailers
<1> QED BY <1>1, Numbers, FS_Subset, FS_CardinalityType

\* Cardinalities when handlers stop mailing.
LEMMA FewerMailers ==
    ASSUME Mailers' \subseteq Mailers
    PROVE  Cardinality(Mailers') \in Nat /\ Cardinality(Mailers') <= Cardinality(Mailers)
BY MailersFinite, FS_Subset, FS_CardinalityType

LEMMA MailsInvInit == AccountsInit => MailsInv
<1> SUFFICES ASSUME AccountsInit PROVE MailsInv
    OBVIOUS
<1>1. AccountsInv
    BY AccountsInvInit
<1>2. IsFiniteSet(mailed) /\ mailed = {} /\ account = NoAccount
    BY FS_EmptySet DEF AccountsInit
<1>3. \A h \in Requests : handler[h].pc = "idle"
    BY DEF AccountsInit, Quiet
<1> QED BY <1>1, <1>2, <1>3 DEF MailsInv, MailHandlerOK

\* The counters of the account.
SameCount ==
    /\ account = NoAccount <=> account' = NoAccount
    /\ account # NoAccount => account'.attempts = account.attempts /\ account'.sentAt = account.sentAt

\* A handler that neither mails now nor then.
LEMMA OtherStep ==
    ASSUME MailsInv, AccountsInv', NEW h \in Requests, NEW n \in Mailings, SameCount,
           handler' = [handler EXCEPT ![h] = n], mailed' = mailed,
           n.pc \notin {"welcome", "mail", "send"},
           n.pc = "save" => n.paths \subseteq {"registered", "link"},
           n.pc = "register" => n.doc.attempts = 0 /\ n.doc.sentAt = Day
    PROVE  MailsInv'
<1>1. handler'[h] = n /\ \A g \in Requests : g # h => handler'[g] = handler[g]
    BY DEF MailsInv, AccountsInv
<1>2. \A g \in Requests : MailHandlerOK(g)'
    BY <1>1 DEF MailsInv, MailHandlerOK
<1>3. Mailers' \subseteq Mailers
    BY <1>1 DEF Mailers
<1>4. ASSUME account # NoAccount, account.sentAt = 0 PROVE RoundOpen'
    <2>1. RoundOpen /\ Counted' = Counted
        BY <1>4 DEF MailsInv, SameCount, Counted
    <2>2. /\ Cardinality(mailed) + Cardinality(Mailers) <= Cardinality(Requests) * Counted
          /\ Cardinality(mailed) \in Nat /\ Cardinality(Mailers) \in Nat
          /\ Cardinality(Mailers') \in Nat /\ Cardinality(Mailers') <= Cardinality(Mailers)
        BY <1>3, <2>1, FewerMailers, MailersFinite, FS_CardinalityType DEF RoundOpen, MailsInv
    <2>3. Counted \in Nat /\ Cardinality(Requests) \in Nat /\ Cardinality(Requests) * Counted \in Nat
        <3>1. account \in Documents
            BY <1>4 DEF MailsInv, AccountsInv, AccountTypeOK
        <3>2. Counted \in Nat
            BY <3>1, Numbers DEF Counted
        <3> QED BY <3>2, Numbers, Rounds
    <2>4. Cardinality(mailed') + Cardinality(Mailers') <= Cardinality(Requests) * Counted'
        <3> DEFINE bound == Cardinality(Requests) * Counted
        <3>1. bound \in Nat /\ Cardinality(Requests) * Counted' = bound
            BY <2>1, <2>3
        <3>2. Cardinality(mailed) + Cardinality(Mailers) <= bound /\ Cardinality(mailed') = Cardinality(mailed)
            BY <2>2
        <3> HIDE DEF bound
        <3> QED BY <2>2, <3>1, <3>2
    <2> QED BY <1>1, <1>4, <2>1, <2>4 DEF RoundOpen, SameCount
<1>5. ASSUME account # NoAccount, account.sentAt # 0 PROVE RoundClosed'
    <2>1. RoundClosed /\ Counted' = Counted
        BY <1>5 DEF MailsInv, SameCount, Counted
    <2> QED BY <1>1, <1>5, <2>1 DEF RoundClosed, SameCount
<1> QED BY <1>2, <1>4, <1>5 DEF MailsInv, SameCount

\* The counts of the account and of the mails.
LEMMA Counts ==
    ASSUME MailsInv, account # NoAccount
    PROVE  /\ account \in Documents /\ account.attempts \in Nat /\ account.sentAt \in Nat
           /\ account.attempts <= MaxMails + 1 /\ account.sentAt <= Day
           /\ Counted \in Nat /\ Counted <= MaxMails
           /\ Cardinality(mailed) \in Nat
           /\ Cardinality(Requests) * Counted \in Nat
<1>1. account \in Documents
    BY DEF MailsInv, AccountsInv, AccountTypeOK
<1>2. Counted \in Nat /\ Counted <= MaxMails
    BY <1>1, Numbers DEF Counted
<1> QED BY <1>1, <1>2, Numbers, Rounds, FS_CardinalityType DEF MailsInv

\* The account is saved for the first time: no mail has gone out.
LEMMA SaveUserMails ==
    ASSUME MailsInv, AccountsInv', NEW h \in Requests, SaveUser(h)
    PROVE  MailsInv'
<1>1. CASE account # NoAccount
    <2>1. handler' = [handler EXCEPT ![h] = Quiet] /\ SameCount /\ mailed' = mailed
        BY <1>1 DEF SaveUser, Finishes, SameCount
    <2> QED BY <2>1, QuietType, OtherStep
<1>2. CASE account = NoAccount
    <2>1. /\ account' = handler[h].doc /\ handler[h].doc \in Documents /\ mailed' = mailed
          /\ account'.attempts = 0 /\ account'.sentAt = Day /\ account' # NoAccount
          /\ \E pc \in {"welcome", "idle"} : Begins(h, pc, NoAccount, {})
        BY <1>2, AccountsAssumption
        DEF SaveUser, Holds, MailsInv, MailHandlerOK, AccountsInv, HandlerOK
    <2>2. PICK pc \in {"welcome", "idle"} : Begins(h, pc, NoAccount, {})
        BY <2>1
    <2>3. handler'[h].pc \in {"welcome", "idle"} /\ \A g \in Requests : g # h => handler'[g] = handler[g]
        BY <2>2 DEF Begins, MailsInv, AccountsInv
    <2>4. \A g \in Requests : handler[g].pc \notin {"welcome", "mail", "send"}
        <3>1. account \notin Documents
            BY <1>2, AccountsAssumption
        <3> QED BY <3>1 DEF MailsInv, AccountsInv, HandlerOK
    <2>5. \A g \in Requests : MailHandlerOK(g)'
        BY <2>3 DEF MailsInv, MailHandlerOK
    <2>6. mailed = {} /\ Cardinality(mailed) = 0 /\ Counted' = 0
        BY <1>2, <2>1, Numbers, FS_EmptySet DEF MailsInv, Counted
    <2>7. Cardinality(Requests) * Counted' = 0 /\ Cardinality(mailed') = 0
        BY <2>1, <2>6, Numbers, Rounds
    <2>8. \A g \in Requests : handler'[g].pc \notin {"mail", "send"}
        BY <2>3, <2>4
    <2>9. RoundClosed'
        BY <2>1, <2>7, <2>8 DEF RoundClosed
    <2>10. \A m \in mailed' : FALSE
        BY <2>1, <2>6
    <2>11. account'.sentAt # 0 /\ IsFiniteSet(mailed')
        BY <2>1, Numbers DEF MailsInv
    <2> QED BY <2>1, <2>5, <2>9, <2>10, <2>11 DEF MailsInv
<1> QED BY <1>1, <1>2

\* A handler that may mail takes its turn: register's welcome, or verifyEmail's
\* with the account as it is.
LEMMA MailMails ==
    ASSUME MailsInv, AccountsInv', NEW h \in Requests, NEW doc \in Documents, Mail(h, doc),
           account \in Documents, UNCHANGED <<account, mailed>>,
           \/ handler[h].pc = "welcome" /\ doc.attempts = 0 /\ doc.sentAt = Day
           \/ handler[h].pc = "idle" /\ doc = account
    PROVE  MailsInv'
<1>0. account # NoAccount /\ SameCount
    BY AccountsAssumption DEF SameCount
<1>1. CASE ~MayMail(doc)
    <2>1. handler' = [handler EXCEPT ![h] = Quiet]
        BY <1>1 DEF Mail, Finishes
    <2> QED BY <1>0, <2>1, QuietType, OtherStep
<1>2. CASE MayMail(doc)
    <2> DEFINE n == handler'[h]
    <2>1. /\ n.pc = "mail" /\ n.paths = {"attempts", "sentAt", "link"} /\ n.doc.sentAt = 0
          /\ n.doc.attempts = Min({doc.attempts + 1, MaxMails + 1})
          /\ \A g \in Requests : g # h => handler'[g] = handler[g]
        <3> DEFINE link == CHOOSE l \in FreshLinks : TRUE
                   m == [doc EXCEPT !.attempts = Min({@ + 1, MaxMails + 1}), !.sentAt = 0, !.link = link]
        <3>1. m.sentAt = 0 /\ m.attempts = Min({doc.attempts + 1, MaxMails + 1})
            BY DEF Documents
        <3>2. handler' = [handler EXCEPT ![h] = [pc |-> "mail", doc |-> m,
                                                 paths |-> {"attempts", "sentAt", "link"}]]
            BY <1>2 DEF Mail, Begins
        <3> HIDE DEF m
        <3> QED BY <3>1, <3>2 DEF MailsInv, AccountsInv
    <2>2. n.doc.attempts = IF doc.attempts <= MaxMails THEN doc.attempts + 1 ELSE MaxMails + 1
        <3>1. doc.attempts + 1 \in Nat /\ MaxMails + 1 \in Nat /\ doc.attempts \in Nat /\ MaxMails \in Nat
            BY Numbers
        <3> DEFINE a == doc.attempts + 1
                   b == MaxMails + 1
        <3>2. Min({a, b}) = IF a <= b THEN a ELSE b
            <4> HIDE DEF a, b
            <4>1. a \in Nat /\ b \in Nat
                BY <3>1 DEF a, b
            <4> QED BY <4>1, MinOfTwoIs
        <3> QED BY <2>1, <3>1, <3>2
    <2>3. \A g \in Requests : MailHandlerOK(g)'
        BY <2>1 DEF MailsInv, MailHandlerOK
    <2>4. CASE account.sentAt = 0
        <3>1. handler[h].pc = "welcome" /\ RoundOpen
            BY <1>2, <2>4, <1>0 DEF MayMail, MailsInv
        <3>2. account.attempts = 1 /\ n.doc.attempts = 1
            BY <2>2, <3>1, Numbers DEF RoundOpen
        <3>3. Mailers' = Mailers /\ Counted' = Counted
            BY <2>1, <3>1 DEF Mailers, Counted
        <3>4. RoundOpen'
            BY <2>1, <3>1, <3>2, <3>3 DEF RoundOpen
        <3> QED BY <1>0, <2>3, <2>4, <3>4 DEF MailsInv
    <2>5. CASE account.sentAt # 0
        <3>1. RoundClosed /\ Counted' = Counted
            BY <2>5, <1>0 DEF MailsInv, Counted
        <3>2. /\ n.doc.attempts = IF account.attempts <= MaxMails THEN account.attempts + 1 ELSE MaxMails + 1
              /\ account.sentAt < Day => account.attempts < MaxMails
            BY <1>2, <2>2, <3>1, Numbers DEF MayMail, RoundClosed
        <3>3. RoundClosed'
            BY <2>1, <3>1, <3>2 DEF RoundClosed
        <3> QED BY <1>0, <2>3, <2>5, <3>3 DEF MailsInv
    <2> QED BY <2>4, <2>5
<1> QED BY <1>1, <1>2

\* sendWelcomeEmail's save: it begins a round, or comes after the one that did.
LEMMA SaveMailMails ==
    ASSUME MailsInv, AccountsInv', NEW h \in Requests, SaveMail(h)
    PROVE  MailsInv'
<1> DEFINE doc == handler[h].doc
<1>1. /\ handler[h].pc = "mail" /\ account \in Documents /\ account # NoAccount /\ doc \in Documents
      /\ handler[h].paths = {"attempts", "sentAt", "link"} /\ doc.sentAt = 0
      /\ mailed' = mailed
    BY AccountsAssumption DEF SaveMail, Holds, MailsInv, AccountsInv, HandlerOK, MailHandlerOK
<1>2. account'.attempts = doc.attempts /\ account'.sentAt = 0 /\ account' # NoAccount
    <2>1. DOMAIN account = {"role", "registered", "link", "attempts", "sentAt"}
        BY <1>1 DEF Documents
    <2>2. account' = [f \in DOMAIN account |-> IF f \in handler[h].paths THEN doc[f] ELSE account[f]]
        BY DEF SaveMail, SavedPaths
    <2>3. account' \in Documents
        BY <1>1, <2>1, <2>2 DEF Documents
    <2> QED BY <1>1, <2>1, <2>2, <2>3, AccountsAssumption
<1>3. /\ handler'[h].pc = "send"
      /\ \A g \in Requests : g # h => handler'[g] = handler[g]
    <2>1. handler \in [Requests -> Mailings]
        BY DEF MailsInv, AccountsInv
    <2>2. handler' = [handler EXCEPT ![h] = [handler[h] EXCEPT !.pc = "send"]]
        BY DEF SaveMail
    <2>3. [handler[h] EXCEPT !.pc = "send"].pc = "send"
        BY <2>1 DEF Mailings
    <2> QED BY <2>1, <2>2, <2>3
<1>4. \A g \in Requests : MailHandlerOK(g)'
    BY <1>3 DEF MailsInv, MailHandlerOK
<1>5. Mailers' = Mailers
    BY <1>1, <1>3 DEF Mailers
<1>6. CASE account.sentAt = 0
    <2>1. RoundOpen /\ doc.attempts = account.attempts
        BY <1>1, <1>6 DEF MailsInv, RoundOpen
    <2>2. Counted' = Counted /\ account'.attempts = account.attempts
        BY <1>2, <2>1 DEF Counted
    <2>3. RoundOpen'
        BY <1>1, <1>3, <1>5, <2>1, <2>2 DEF RoundOpen
    <2>4. \A m \in mailed' : m[1] >= account'.sentAt
        BY <1>1, <1>2, <1>6 DEF MailsInv
    <2> QED BY <1>1, <1>2, <1>4, <2>3, <2>4 DEF MailsInv
<1>7. CASE account.sentAt # 0
    <2>1. RoundClosed
        BY <1>1, <1>7 DEF MailsInv
    <2>2. /\ doc.attempts = IF account.attempts <= MaxMails THEN account.attempts + 1 ELSE MaxMails + 1
          /\ account.sentAt < Day => account.attempts < MaxMails
        BY <1>1, <2>1 DEF RoundClosed
    <2> DEFINE r == Cardinality(Requests)
               k == Counted
               c == Cardinality(mailed)
               w == Cardinality(Mailers)
    <2>3. r \in Nat /\ k \in Nat /\ c \in Nat /\ w \in Nat /\ w <= r /\ c <= r * k /\ r * k \in Nat
        BY <1>1, <2>1, Counts, Numbers, MailersFinite DEF RoundClosed
    <2>4. c + w <= r * Counted'
        <3>1. CASE account.attempts < MaxMails
            <4>1. Counted' = k + 1
                BY <1>2, <2>2, <3>1, Counts, Numbers, <1>1 DEF Counted
            <4>2. r * (k + 1) = r * k + r
                BY <2>3, Rounds
            <4> HIDE DEF r, k, c, w
            <4> QED BY <2>3, <4>1, <4>2
        <3>2. CASE account.attempts >= MaxMails
            <4>1. account.sentAt = Day
                <5>1. /\ account.attempts \in Nat /\ account.sentAt \in Nat /\ MaxMails \in Nat
                      /\ Day \in Nat /\ account.sentAt <= Day
                    BY <1>1, Counts, Numbers
                <5> QED BY <2>2, <3>2, <5>1
            <4>2. mailed = {}
                BY <1>1, <4>1, Numbers DEF MailsInv
            <4>3. c = 0
                BY <4>2, FS_EmptySet
            <4>4. Counted' = MaxMails
                BY <1>1, <1>2, <2>2, <3>2, Counts, Numbers DEF Counted
            <4>5. MaxMails - 1 \in Nat /\ MaxMails = (MaxMails - 1) + 1
                BY Numbers
            <4> HIDE DEF r, k, c, w
            <4>6. r * MaxMails = r * (MaxMails - 1) + r /\ r * (MaxMails - 1) \in Nat
                BY <2>3, <4>5, Rounds
            <4> QED BY <2>3, <4>3, <4>4, <4>6
        <3> QED BY <3>1, <3>2, <1>1, Counts, Numbers
    <2>5. \A g \in Requests :
            /\ handler'[g].pc = "mail" => handler'[g].doc.attempts = account'.attempts
            /\ handler'[g].pc = "welcome" => account'.attempts = 1
        <3>1. \A g \in Requests : g # h /\ handler[g].pc = "mail" => handler[g].doc.attempts = account'.attempts
            BY <1>2, <2>1, <2>2 DEF RoundClosed
        <3>2. \A g \in Requests : handler[g].pc = "welcome" => account'.attempts = 1
            BY <1>2, <2>1, <2>2, Numbers DEF RoundClosed
        <3> QED BY <1>3, <3>1, <3>2
    <2>6. RoundOpen'
        BY <1>1, <1>5, <2>4, <2>5 DEF RoundOpen
    <2>7. \A m \in mailed' : m[1] >= account'.sentAt
        BY <1>1, <1>2 DEF MailsInv
    <2> QED BY <1>1, <1>2, <1>4, <2>6, <2>7 DEF MailsInv
<1> QED BY <1>6, <1>7

\* The mail goes out or is lost: one mail more at most, one handler that mails less.
LEMMA SendMailMails ==
    ASSUME MailsInv, AccountsInv', NEW h \in Requests, SendMail(h)
    PROVE  MailsInv'
<1>1. /\ handler[h].pc = "send" /\ account' = account /\ account # NoAccount
      /\ handler' = [handler EXCEPT ![h] = Quiet]
      /\ mailed' = mailed \/ mailed' = mailed \cup {NextMail}
    BY AccountsAssumption DEF SendMail, Holds, Finishes, MailsInv, AccountsInv, HandlerOK
<1>2. RoundOpen /\ account.sentAt = 0
    BY <1>1 DEF MailsInv, RoundClosed
<1>3. handler'[h].pc = "idle" /\ \A g \in Requests : g # h => handler'[g] = handler[g]
    BY <1>1, QuietType DEF MailsInv, AccountsInv
<1>4. \A g \in Requests : MailHandlerOK(g)'
    BY <1>3 DEF MailsInv, MailHandlerOK
<1>5. Cardinality(Mailers') = Cardinality(Mailers) - 1
    <2>1. Mailers' = Mailers \ {h} /\ h \in Mailers
        BY <1>1, <1>3 DEF Mailers
    <2> QED BY <2>1, MailersFinite, FS_RemoveElement
<1>6. NextMail[1] = 0
    BY DEF NextMail
<1>7. /\ IsFiniteSet(mailed') /\ Cardinality(mailed') \in Nat
      /\ Cardinality(mailed') <= Cardinality(mailed) + 1
      /\ \A m \in mailed' : m[1] \in Nat /\ m[1] < Day /\ m[1] >= account'.sentAt
    <2>1. IsFiniteSet(mailed) /\ Cardinality(mailed) \in Nat
        BY FS_CardinalityType DEF MailsInv
    <2>2. /\ IsFiniteSet(mailed \cup {NextMail})
          /\ Cardinality(mailed \cup {NextMail}) \in {Cardinality(mailed), Cardinality(mailed) + 1}
        BY <2>1, FS_AddElement
    <2>3. \A m \in mailed : m[1] \in Nat /\ m[1] < Day
        BY DEF MailsInv
    <2>4. \A m \in mailed' : m[1] \in Nat /\ m[1] < Day
        BY <1>1, <1>6, <2>3, Numbers
    <2>5. /\ IsFiniteSet(mailed') /\ Cardinality(mailed') \in Nat
          /\ Cardinality(mailed') <= Cardinality(mailed) + 1
        <3>1. CASE mailed' = mailed
            BY <2>1, <3>1
        <3>2. CASE mailed' = mailed \cup {NextMail}
            <4> DEFINE c == Cardinality(mailed)
                       d == Cardinality(mailed')
            <4>1. IsFiniteSet(mailed') /\ c \in Nat /\ d \in {c, c + 1}
                BY <2>1, <2>2, <3>2
            <4> HIDE DEF c, d
            <4>2. d \in Nat /\ d <= c + 1
                BY <4>1
            <4> QED BY <4>1, <4>2 DEF c, d
        <3> QED BY <1>1, <3>1, <3>2
    <2>6. \A m \in mailed' : m[1] >= account'.sentAt
        BY <1>1, <1>2, <2>4
    <2> QED BY <2>4, <2>5, <2>6
<1>8. RoundOpen'
    <2> DEFINE bound == Cardinality(Requests) * Counted
               c == Cardinality(mailed)
               d == Cardinality(mailed')
               w == Cardinality(Mailers)
               v == Cardinality(Mailers')
    <2>1. /\ bound \in Nat /\ c \in Nat /\ d \in Nat /\ w \in Nat
          /\ c + w <= bound /\ d <= c + 1 /\ v = w - 1
        BY <1>1, <1>2, <1>5, <1>7, Counts, MailersFinite DEF RoundOpen
    <2>2. d + v <= bound
        <3> HIDE DEF bound, c, d, w, v
        <3> QED BY <2>1
    <2>3. Counted' = Counted
        BY <1>1 DEF Counted
    <2> QED BY <1>1, <1>2, <1>3, <2>2, <2>3 DEF RoundOpen
<1> QED BY <1>1, <1>2, <1>4, <1>7, <1>8 DEF MailsInv

\* A tick, when nobody mails: every mail is older, and so is the last one.
LEMMA FiveMinutesMails ==
    ASSUME MailsInv, AccountsInv', FiveMinutes
    PROVE  MailsInv'
<1>1. /\ handler' = handler /\ \A h \in Requests : handler[h].pc = "idle"
      /\ mailed' = {<<m[1] + 1, m[2]>> : m \in {n \in mailed : n[1] + 1 < Day}}
    BY DEF FiveMinutes, Holds
<1> DEFINE kept == {n \in mailed : n[1] + 1 < Day}
<1>2. /\ IsFiniteSet(mailed) /\ IsFiniteSet(kept)
      /\ Cardinality(kept) \in Nat /\ Cardinality(mailed) \in Nat
      /\ Cardinality(kept) <= Cardinality(mailed)
    <2>1. kept \subseteq mailed
        OBVIOUS
    <2> HIDE DEF kept
    <2> QED BY <2>1, FS_Subset, FS_CardinalityType DEF MailsInv
<1>3. IsFiniteSet(mailed') /\ Cardinality(mailed') \in Nat /\ Cardinality(mailed') <= Cardinality(mailed)
    <2> DEFINE Older == [m \in kept |-> <<m[1] + 1, m[2]>>]
    <2>1. Older \in Surjection(kept, mailed')
        <3>1. Older \in [kept -> mailed']
            BY <1>1
        <3>2. \A m \in mailed' : \E n \in kept : Older[n] = m
            BY <1>1
        <3> HIDE DEF kept, Older
        <3> QED BY <3>1, <3>2 DEF Surjection
    <2> HIDE DEF kept, Older
    <2>2. IsFiniteSet(mailed') /\ Cardinality(mailed') <= Cardinality(kept)
        BY <1>2, <2>1, FS_Surjection
    <2> QED BY <1>2, <2>2, FS_CardinalityType
<1>4. \A m \in mailed : m[1] \in Nat /\ m[1] < Day
    BY DEF MailsInv
<1>5. \A m \in mailed' : \E n \in mailed : m[1] = n[1] + 1 /\ n[1] + 1 < Day
    BY <1>1
<1>6. \A m \in mailed' : m[1] \in Nat /\ m[1] < Day
    BY <1>4, <1>5, Numbers
<1>7. \A h \in Requests : MailHandlerOK(h)'
    BY <1>1 DEF MailHandlerOK
<1>8. CASE account = NoAccount
    BY <1>1, <1>3, <1>6, <1>7, <1>8 DEF FiveMinutes, MailsInv
<1>9. CASE account # NoAccount
    <2> DEFINE age == Min({account.sentAt + 1, Day})
    <2>1. /\ account \in Documents /\ account.sentAt \in Nat /\ account.sentAt <= Day /\ Day \in Nat /\ Day # 0
          /\ account.sentAt + 1 \in Nat
        BY <1>9, Counts, Numbers
    <2>2. age = IF account.sentAt + 1 <= Day THEN account.sentAt + 1 ELSE Day
        <3> DEFINE a == account.sentAt + 1
        <3> HIDE DEF a
        <3> QED BY <2>1, MinOfTwoIs DEF a
    <2>3. account' = [account EXCEPT !.sentAt = age]
        BY <1>9 DEF FiveMinutes
    <2> HIDE DEF age
    <2>4. age # 0 /\ age \in Nat /\ age <= Day
        BY <2>1, <2>2
    <2>5. account' # NoAccount /\ account'.sentAt = age /\ account'.attempts = account.attempts
        <3>1. account' \in Documents
            BY <2>1, <2>3, <2>4 DEF Documents
        <3> QED BY <2>1, <2>3, <3>1, AccountsAssumption DEF Documents
    <2>6. \A m \in mailed' : m[1] >= age
        <3>1. \A m \in mailed : m[1] >= account.sentAt
            BY <1>9 DEF MailsInv
        <3>2. ASSUME NEW m \in mailed' PROVE m[1] >= age
            <4>1. PICK n \in mailed : m[1] = n[1] + 1 /\ n[1] + 1 < Day
                BY <1>5
            <4>2. n[1] \in Nat /\ n[1] >= account.sentAt
                BY <1>4, <3>1
            <4> QED BY <2>1, <2>2, <4>1, <4>2
        <3> QED BY <3>2
    <2>7. RoundClosed'
        <3>1. Cardinality(mailed) <= Cardinality(Requests) * Counted
            <4>1. CASE account.sentAt = 0
                <5> DEFINE bound == Cardinality(Requests) * Counted
                <5>1. /\ Cardinality(mailed) + Cardinality(Mailers) <= bound /\ bound \in Nat
                      /\ Cardinality(mailed) \in Nat /\ Cardinality(Mailers) \in Nat
                    BY <1>9, <4>1, Counts, MailersFinite DEF MailsInv, RoundOpen
                <5> HIDE DEF bound
                <5>2. Cardinality(mailed) <= bound
                    BY <5>1
                <5> QED BY <5>2 DEF bound
            <4>2. CASE account.sentAt # 0
                BY <1>9, <4>2 DEF MailsInv, RoundClosed
            <4> QED BY <4>1, <4>2
        <3>2. Cardinality(Requests) * Counted' = Cardinality(Requests) * Counted
            BY <2>5 DEF Counted
        <3>3. Cardinality(mailed') <= Cardinality(Requests) * Counted'
            <4> DEFINE bound == Cardinality(Requests) * Counted
            <4>1. /\ bound \in Nat /\ Cardinality(mailed) <= bound
                  /\ Cardinality(Requests) * Counted' = bound
                BY <1>9, <3>1, <3>2, Counts
            <4> HIDE DEF bound
            <4> QED BY <1>2, <1>3, <4>1
        <3> QED BY <1>1, <3>3 DEF RoundClosed
    <2> QED BY <1>3, <1>6, <1>7, <2>4, <2>5, <2>6, <2>7 DEF MailsInv
<1> QED BY <1>8, <1>9

LEMMA MailsInvStep == MailsInv /\ [AccountsNext]_accountVars => MailsInv'
<1> SUFFICES ASSUME MailsInv, [AccountsNext]_accountVars PROVE MailsInv'
    OBVIOUS
<1>0. AccountsInv /\ AccountsInv'
    BY AccountsInvStep DEF MailsInv
<1>a. account = NoAccount \/ account \in Documents
    BY <1>0 DEF AccountsInv, AccountTypeOK
<1>b. \A n \in Mailings : n.doc \in Documents \cup {NoAccount}
    BY DEF Mailings
<1>1. CASE UNCHANGED accountVars
    BY <1>0, <1>1 DEF accountVars, MailsInv, MailHandlerOK, RoundOpen, RoundClosed, Counted, Mailers
<1>2. CASE FiveMinutes
    BY <1>0, <1>2, FiveMinutesMails
<1>3. ASSUME NEW h \in Requests, Register(h) PROVE MailsInv'
    <2>1. PICK role \in {"ATTENDEE", "DJ"} : Begins(h, "register", NewUser(role), {})
        BY <1>3 DEF Register
    <2> DEFINE n == [pc |-> "register", doc |-> NewUser(role), paths |-> {}]
    <2>2. n \in Mailings /\ n.pc = "register" /\ n.doc.attempts = 0 /\ n.doc.sentAt = Day
        BY NewUserType DEF Mailings, NewUser
    <2>3. handler' = [handler EXCEPT ![h] = n] /\ SameCount /\ mailed' = mailed
        BY <1>3, <2>1 DEF Register, Begins, SameCount
    <2> HIDE DEF n
    <2> QED BY <1>0, <2>2, <2>3, OtherStep
<1>4. ASSUME NEW h \in Requests, SaveUser(h) PROVE MailsInv'
    BY <1>0, <1>4, SaveUserMails
<1>5. ASSUME NEW h \in Requests, Welcome(h) PROVE MailsInv'
    <2>1. account \in Documents /\ NewUser("DJ") \in Documents
        BY <1>0, <1>5, NewUserType DEF Welcome, Holds, AccountsInv, HandlerOK
    <2>2. NewUser("DJ").attempts = 0 /\ NewUser("DJ").sentAt = Day
        BY DEF NewUser
    <2> QED BY <1>0, <1>5, <2>1, <2>2, MailMails DEF Welcome, Holds
<1>6. ASSUME NEW h \in Requests, Resend(h) PROVE MailsInv'
    BY <1>0, <1>a, <1>6, MailMails DEF Resend, Holds
<1>7. ASSUME NEW h \in Requests, SaveMail(h) PROVE MailsInv'
    BY <1>0, <1>7, SaveMailMails
<1>8. ASSUME NEW h \in Requests, SaveEdit(h) PROVE MailsInv'
    <2>1. /\ handler[h].pc = "save" /\ handler[h].paths \subseteq {"registered", "link"}
          /\ account \in Documents /\ account # NoAccount
        BY <1>0, <1>8, AccountsAssumption
        DEF SaveEdit, Holds, MailsInv, MailHandlerOK, AccountsInv, HandlerOK
    <2>2. account' = [f \in DOMAIN account |-> IF f \in handler[h].paths THEN handler[h].doc[f] ELSE account[f]]
          /\ handler' = [handler EXCEPT ![h] = Quiet] /\ mailed' = mailed
        BY <1>8 DEF SaveEdit, SavedPaths, Finishes
    <2>3. SameCount
        <3>1. DOMAIN account = {"role", "registered", "link", "attempts", "sentAt"}
            BY <2>1 DEF Documents
        <3>2. account'.attempts = account.attempts /\ account'.sentAt = account.sentAt
            BY <2>1, <2>2, <3>1
        <3>3. account' # NoAccount
            <4>1. account' \in Documents
                BY <2>1, <2>2, SavedPathsType, <1>0, <1>8
                DEF SaveEdit, Holds, AccountsInv, HandlerOK, Mailings
            <4> QED BY <4>1, AccountsAssumption
        <3> QED BY <2>1, <3>2, <3>3 DEF SameCount
    <2> QED BY <1>0, <2>2, <2>3, QuietType, OtherStep
<1>9. ASSUME NEW h \in Requests, SendMail(h) PROVE MailsInv'
    BY <1>0, <1>9, SendMailMails
<1>10. ASSUME NEW h \in Requests, NEW pc \in {"save", "event", "member"},
             NEW doc \in Documents \cup {NoAccount}, NEW paths \in SUBSET {"registered", "link"},
             Begins(h, pc, doc, paths), UNCHANGED <<account, mailed>>
      PROVE  MailsInv'
    <2> DEFINE n == [pc |-> pc, doc |-> doc, paths |-> paths]
    <2>1. n \in Mailings /\ n.pc = pc /\ n.paths \subseteq {"registered", "link"}
        BY DEF Mailings, Paths
    <2>2. handler' = [handler EXCEPT ![h] = n] /\ SameCount /\ mailed' = mailed
        BY <1>10 DEF Begins, SameCount
    <2> HIDE DEF n
    <2> QED BY <1>0, <2>1, <2>2, OtherStep
<1>11. ASSUME NEW h \in Requests, Finishes(h), UNCHANGED <<account, mailed>> PROVE MailsInv'
    <2>1. handler' = [handler EXCEPT ![h] = Quiet] /\ SameCount /\ mailed' = mailed
        BY <1>11 DEF Finishes, SameCount
    <2> QED BY <1>0, <2>1, QuietType, OtherStep
<1>12. ASSUME NEW h \in Requests, VerifyToken(h) PROVE MailsInv'
    <2> DEFINE doc == [account EXCEPT !.registered = TRUE, !.link = NoLink]
    <2>1. Begins(h, "save", doc, {"registered", "link"}) /\ UNCHANGED <<account, mailed>>
          /\ account \in Documents
        BY <1>a, <1>12 DEF VerifyToken
    <2>2. doc \in Documents
        BY <2>1 DEF Documents
    <2> HIDE DEF doc
    <2> QED BY <2>1, <2>2, <1>10
<1>13. ASSUME NEW h \in Requests, EditUser(h) PROVE MailsInv'
    BY <1>a, <1>10, <1>13 DEF EditUser
<1>14. ASSUME NEW h \in Requests, AssertCanCreate(h) PROVE MailsInv'
    BY <1>10, <1>14 DEF AssertCanCreate
<1>15. ASSUME NEW h \in Requests, SaveEvent(h) PROVE MailsInv'
    BY <1>10, <1>11, <1>15 DEF SaveEvent
<1>16. ASSUME NEW h \in Requests, SaveMember(h) \/ UserSaveFails(h) PROVE MailsInv'
    BY <1>11, <1>16 DEF SaveMember, UserSaveFails
<1> QED BY <1>1, <1>2, <1>3, <1>4, <1>5, <1>6, <1>7, <1>8, <1>9, <1>12, <1>13, <1>14, <1>15,
           <1>16 DEF AccountsNext

\* The inductive invariant of the mails: what the account has counted bounds what
\* went out and what is on its way, and a round begins only when the account may
\* count one more (sendWelcomeEmail between its check, its save and its mail).
THEOREM MailsInvariant == AccountsSpec => []MailsInv
<1> QED BY MailsInvInit, MailsInvStep, PTL DEF AccountsSpec

\* However many requests for a mail overlap, each having read the account before
\* another counted its own, no day sees more mails than MaxMails for each
\* request in flight (sendWelcomeEmail against the documents verifyEmail and
\* register hand it).
THEOREM MailsAreLimitedAlways == AccountsSpec => []MailsAreLimited
<1>1. MailsInv => MailsAreLimited
    <2> SUFFICES ASSUME MailsInv PROVE MailsAreLimited
        OBVIOUS
    <2> DEFINE r == Cardinality(Requests)
               c == Cardinality(mailed)
    <2>1. r \in Nat /\ MaxMails \in Nat /\ r * MaxMails \in Nat
        BY Numbers, Rounds
    <2>2. CASE account = NoAccount
        <3>1. c = 0
            BY <2>2, FS_EmptySet DEF MailsInv
        <3>2. r * MaxMails = MaxMails * r
            BY <2>1
        <3> HIDE DEF r, c
        <3>3. c <= MaxMails * r
            BY <2>1, <3>1, <3>2
        <3> QED BY <3>3 DEF MailsAreLimited, r, c
    <2>3. CASE account # NoAccount
        <3> DEFINE k == Counted
                   w == Cardinality(Mailers)
        <3>1. k \in Nat /\ k <= MaxMails /\ c \in Nat /\ w \in Nat /\ r * k \in Nat
            BY <2>3, Counts, MailersFinite
        <3>2. c + w <= r * k \/ c <= r * k
            BY <2>3 DEF MailsInv, RoundOpen, RoundClosed
        <3> HIDE DEF r, c, k, w
        <3>3. r * k <= r * MaxMails /\ r * MaxMails = MaxMails * r
            BY <2>1, <3>1, Rounds
        <3>4. c <= MaxMails * r
            BY <2>1, <3>1, <3>2, <3>3
        <3> QED BY <3>4 DEF MailsAreLimited, r, c
    <2> QED BY <2>2, <2>3
<1> QED BY <1>1, MailsInvariant, PTL

-----------------------------------------------------------------------------
(* The components together.                                                *)

\* Whatever part of the composition works, every component takes its own steps:
\* what is proved of each holds of them together.
THEOREM ServicesCompose ==
    Spec => TextSpec /\ FriendsSpec /\ AccountsSpec /\ LookupSpec
<1>1. Init => TextInit /\ FriendsInit /\ AccountsInit /\ LookupInit
    BY DEF Init
<1> DEFINE all == <<part, textVars, lookupVars, friendVars, accountVars>>
<1>2. [Next]_all => [TextNext]_textVars
    BY DEF Next, Rest
<1>3. [Next]_all => [FriendsNext]_friendVars
    BY DEF Next, Rest
<1>4. [Next]_all => [AccountsNext]_accountVars
    BY DEF Next, Rest
<1>5. [Next]_all => [LookupNext]_lookupVars
    BY DEF Next, Rest
<1> QED BY <1>1, <1>2, <1>3, <1>4, <1>5, PTL
        DEF Spec, TextSpec, FriendsSpec, AccountsSpec, LookupSpec

\* Types of all the components, as the composition runs them.
THEOREM ServiceTypesCorrect == Spec => []ServiceTypesOK
<1>1. TextTypeOK /\ LookupTypeOK /\ FriendsTypeOK /\ AccountTypeOK => ServiceTypesOK
    BY DEF ServiceTypesOK
<1>2. TextInv => TextTypeOK
    BY DEF TextInv
<1> QED BY <1>1, <1>2, ServicesCompose, TextInvariant, LookupTypeCorrect, FriendsTypeCorrect,
           AccountTypeCorrect, PTL

=============================================================================
