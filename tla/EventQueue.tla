----------------------------- MODULE EventQueue -----------------------------
(***************************************************************************)
(* The song queue of one event: songs.service.js, votes.service.js and the *)
(* part of participants.service.js and events.service.js that they read.   *)
(*                                                                         *)
(* The server is one Node process over MongoDB.  A handler runs without    *)
(* interruption between two awaits and several handlers are in flight at   *)
(* once, so one action is the stretch of a handler up to its next await    *)
(* that touches shared data.  A handler loads a song document, works on    *)
(* its copy and saves it; Mongoose sends only the fields whose value       *)
(* differs from the loaded one, with no version check.                     *)
(*                                                                         *)
(* Requests are the in-flight handlers.  Ops says which handlers each of   *)
(* them may run, so a configuration can say "one DJ and one voter".        *)
(***************************************************************************)
EXTENDS Integers, FiniteSets

CONSTANTS
    Songs,            \* song documents that may be suggested
    Attendees,        \* participants of the event, its owner excluded
    Requests,         \* handlers that can be in flight at the same time
    Ops,              \* the operations each request may run
    Faulty,           \* requests whose handler may throw or die half way
    SettingsChoices,  \* the event settings the owner may choose
    NoSong, NoOne

DJOps == {"approve", "reject", "skip", "played", "sendNow"}
OpNames == DJOps \cup {"suggest", "playNext", "bind", "vote", "unvote",
                       "join", "socketJoin", "leave", "ban",
                       "setPremium", "settings"}

SettingsType == [voting: BOOLEAN, downvotes: BOOLEAN, premiumVotes: BOOLEAN,
                 ladder: Nat]

ASSUME ConstantsAssumption ==
    /\ NoSong \notin Songs
    /\ NoOne \notin Attendees
    /\ IsFiniteSet(Attendees)
    /\ Ops \in [Requests -> SUBSET OpNames]
    /\ Faulty \subseteq Requests
    /\ SettingsChoices \subseteq SettingsType

VARIABLES
    song,         \* songs collection: status, voteScore, downvoteCount
    matched,      \* song.recognitionMatch.trackId is set
    vote,         \* votes collection, unique on (songId, participantId)
    roster,       \* leftAt / isBanned of each participant
    premium,      \* participant.isPremium
    settings,     \* event.settings
    currentSong,  \* event.currentSongId
    credited,     \* increments of approvalCount that each song has caused
    req,          \* control state of each in-flight handler
    local,        \* its local variables
    seen,         \* the documents it loaded
    doc           \* its copy of the document it is working on

queue == <<song, matched>>
people == <<roster, premium, settings>>
flight == <<req, local, seen, doc>>
vars == <<song, matched, vote, roster, premium, settings, currentSong,
          credited, req, local, seen, doc>>

-----------------------------------------------------------------------------
(* Documents and the song state machine. *)

Status == {"ABSENT", "PENDING", "APPROVED", "PLAYING", "PLAYED", "SKIPPED",
           "REJECTED"}
Active == {"PENDING", "APPROVED", "PLAYING"}
Terminal == {"PLAYED", "SKIPPED", "REJECTED"}

CanApproveTwice(status) ==                                         \* mutant
    CASE status = "PENDING"  -> {"APPROVED", "REJECTED"}
      [] status = "APPROVED" -> {"APPROVED", "PLAYING", "REJECTED"}
      [] status = "PLAYING"  -> {"PLAYED", "SKIPPED", "REJECTED"}
      [] OTHER               -> {}
CanReplay(status) ==                                               \* mutant
    CASE status = "PENDING"  -> {"APPROVED", "REJECTED"}
      [] status = "APPROVED" -> {"PLAYING", "REJECTED"}
      [] status = "PLAYING"  -> {"PLAYED", "SKIPPED", "REJECTED"}
      [] status = "PLAYED"   -> {"PLAYING"}
      [] OTHER               -> {}
CanTransitionTo(status) ==
    CASE status = "PENDING"  -> {"APPROVED", "REJECTED"}
      [] status = "APPROVED" -> {"PLAYING", "REJECTED"}
      [] status = "PLAYING"  -> {"PLAYED", "SKIPPED", "REJECTED"}
      [] OTHER               -> {}

Doc == [status: Status, score: Nat, downs: Nat]
NoDoc == [status |-> "ABSENT", score |-> 0, downs |-> 0]

SavedWhole(stored, old, new) == new                                \* mutant

\* What the collection holds after a save of the copy "new" of a document
\* that was loaded as "old": only the fields that differ are written.
Saved(stored, old, new) ==
    [status |-> IF new.status = old.status THEN stored.status ELSE new.status,
     score  |-> IF new.score = old.score THEN stored.score ELSE new.score,
     downs  |-> IF new.downs = old.downs THEN stored.downs ELSE new.downs]

DemotedNone(kept) == song                                          \* mutant

\* updateMany({status: PLAYING, ...}, {status: PLAYED}), sparing "kept".
Demoted(kept) ==
    [s \in Songs |-> IF s # kept /\ song[s].status = "PLAYING"
                     THEN [song[s] EXCEPT !.status = "PLAYED"]
                     ELSE song[s]]

-----------------------------------------------------------------------------
(* Votes. *)

Ballot == [value: {-1, 0, 1}, premium: BOOLEAN]   \* value 0: no vote row
NoBallot == [value |-> 0, premium |-> FALSE]

Voters(s, value) == {p \in Attendees : vote[s][p].value = value}
PremiumVoters(s, value) == {p \in Voters(s, value) : vote[s][p].premium}

WeightedNet(s, value, rules) ==                                    \* mutant
    Cardinality(Voters(s, value)) - Cardinality(Voters(s, -value))

\* The sum of _voteWeight over the votes with that value: a premium vote
\* counts 2, unless premium votes are switched off.
Weighted(s, value, rules) ==
    Cardinality(Voters(s, value))
      + IF rules.premiumVotes THEN Cardinality(PremiumVoters(s, value)) ELSE 0

ActiveAttendees == {p \in Attendees : roster[p] = "in"}

\* _getAutoRejectThreshold: max(1, ceil(active / 2)).
AutoRejectThreshold ==
    LET n == Cardinality(ActiveAttendees) IN
    IF n < 2 THEN 1 ELSE (n + 1) \div 2

JudgedAbove(d, rules) ==                                           \* mutant
    IF d.status \in Active /\ d.downs > AutoRejectThreshold THEN "REJECTED"
    ELSE IF d.status = "PENDING" /\ d.score >= rules.ladder THEN "APPROVED"
    ELSE d.status

\* _applyLadderEffects followed by _applyAutoReject on a recounted copy.
Judged(d, rules) ==
    IF d.status \in Active /\ d.downs >= AutoRejectThreshold THEN "REJECTED"
    ELSE IF d.status = "PENDING" /\ d.score >= rules.ladder THEN "APPROVED"
    ELSE d.status

-----------------------------------------------------------------------------
(* In-flight handlers. *)

Pc == {"idle", "insert", "save", "credit", "demote", "current", "promote",
       "check", "write", "delete", "load", "rules", "tally", "judge", "store"}
Request == [op: OpNames \cup {"none"}, pc: Pc, song: Songs \cup {NoSong}]
Idle == [op |-> "none", pc |-> "idle", song |-> NoSong]

NoRules == [voting |-> TRUE, downvotes |-> TRUE, premiumVotes |-> TRUE,
            ladder |-> 3]
Locals == [who: Attendees \cup {NoOne}, value: {-1, 0, 1}, premium: BOOLEAN,
           had: BOOLEAN, rules: SettingsType, todo: SUBSET Songs]
Blank == [who |-> NoOne, value |-> 0, premium |-> FALSE, had |-> FALSE,
          rules |-> NoRules, todo |-> {}]
NothingSeen == [s \in Songs |-> NoDoc]

Free(r, op) == req[r].pc = "idle" /\ op \in Ops[r]
At(r, pc) == req[r].pc = pc
Start(r, op, pc, s) == req' = [req EXCEPT ![r] = [op |-> op, pc |-> pc, song |-> s]]
Goto(r, pc) == req' = [req EXCEPT ![r].pc = pc]
SetLocal(r, l) == local' = [local EXCEPT ![r] = l]
Load(r, docs, copy) ==
    /\ seen' = [seen EXCEPT ![r] = docs]
    /\ doc' = [doc EXCEPT ![r] = copy]
Finish(r) ==
    /\ req' = [req EXCEPT ![r] = Idle]
    /\ local' = [local EXCEPT ![r] = Blank]
    /\ seen' = [seen EXCEPT ![r] = NothingSeen]
    /\ doc' = [doc EXCEPT ![r] = NoDoc]

Init ==
    /\ song = [s \in Songs |-> NoDoc]
    /\ matched = [s \in Songs |-> FALSE]
    /\ vote = [s \in Songs |-> [p \in Attendees |-> NoBallot]]
    /\ roster = [p \in Attendees |-> "out"]
    /\ premium = [p \in Attendees |-> FALSE]
    /\ settings \in SettingsChoices
    /\ currentSong = NoSong
    /\ credited = [s \in Songs |-> 0]
    /\ req = [r \in Requests |-> Idle]
    /\ local = [r \in Requests |-> Blank]
    /\ seen = [r \in Requests |-> NothingSeen]
    /\ doc = [r \in Requests |-> NoDoc]

-----------------------------------------------------------------------------
(* Suggestions and matches (suggestSong, assignFingerprintToSong). *)

Fresh(s) == song[s].status = "ABSENT" /\ \A q \in Requests : req[q].song # s

\* suggestSong up to its first save: the attendee's session is checked once,
\* and new SongModel() takes an identifier nobody else has.
SuggestCheck(r) ==
    \E p \in Attendees, s \in Songs :
        /\ Free(r, "suggest")
        /\ roster[p] = "in"
        /\ Fresh(s)
        /\ Start(r, "suggest", "insert", s)
        /\ UNCHANGED <<queue, people, vote, currentSong, credited, local, seen, doc>>

\* The insert; a suggestion found in the library carries its trackId already.
SuggestInsert(r) ==
    \E found \in BOOLEAN :
        /\ At(r, "insert")
        /\ song' = [song EXCEPT ![req[r].song].status = "PENDING"]
        /\ matched' = [matched EXCEPT ![req[r].song] = found]
        /\ Finish(r)
        /\ UNCHANGED <<vote, people, currentSong, credited>>

\* assignFingerprintToSong saves recognitionMatch only, and nothing it read
\* before decides what it writes.
BindTrack(r) ==
    \E s \in Songs :
        /\ Free(r, "bind")
        /\ song[s].status # "ABSENT"
        /\ matched' = [matched EXCEPT ![s] = TRUE]
        /\ UNCHANGED <<song, vote, people, currentSong, credited, flight>>

-----------------------------------------------------------------------------
(* Moderation by the DJ, and by the audio pipeline through sendNow. *)

Target == [approve |-> "APPROVED", reject |-> "REJECTED", skip |-> "SKIPPED",
           played |-> "PLAYED", sendNow |-> "PLAYING"]

\* _getSongForEvent, then the checks.  approveSong of an APPROVED song returns
\* early and a failed check throws: neither changes anything.
ModerateLoad(r) ==
    \E op \in DJOps, s \in Songs :
        /\ Free(r, op)
        /\ op = "sendNow" => matched[s]
        /\ Target[op] \in CanTransitionTo(song[s].status)
        /\ Start(r, op, IF op = "sendNow" THEN "demote" ELSE "save", s)
        /\ Load(r, [NothingSeen EXCEPT ![s] = song[s]],
                   [song[s] EXCEPT !.status = Target[op]])
        /\ UNCHANGED <<queue, people, vote, currentSong, credited, local>>

\* sendNow's updateMany of every other PLAYING song.
SendDemote(r) ==
    /\ At(r, "demote")
    /\ song' = Demoted(req[r].song)
    /\ Goto(r, "save")
    /\ UNCHANGED <<matched, vote, people, currentSong, credited, local, seen, doc>>

\* song.save() of the moderated copy, whatever the song has become meanwhile.
ModerateSave(r) ==
    LET s == req[r].song IN
    /\ At(r, "save")
    /\ song' = [song EXCEPT ![s] = Saved(song[s], seen[r][s], doc[r])]
    /\ \/ /\ req[r].op = "approve"
          /\ Goto(r, "credit")
          /\ UNCHANGED <<local, seen, doc>>
       \/ /\ req[r].op = "sendNow"
          /\ Goto(r, "current")
          /\ UNCHANGED <<local, seen, doc>>
       \/ /\ req[r].op \notin {"approve", "sendNow"}
          /\ Finish(r)
    /\ UNCHANGED <<matched, vote, people, currentSong, credited>>

\* $inc approvalCount of the participant who suggested the song.
ApproveCredit(r) ==
    /\ At(r, "credit")
    /\ credited' = [credited EXCEPT ![req[r].song] = @ + 1]
    /\ Finish(r)
    /\ UNCHANGED <<queue, vote, people, currentSong>>

\* sendNow's last write: event.currentSongId.
SendCurrent(r) ==
    /\ At(r, "current")
    /\ currentSong' = req[r].song
    /\ Finish(r)
    /\ UNCHANGED <<queue, vote, people, credited>>

\* playNextSong starts by demoting whatever is PLAYING.
PlayNextDemote(r) ==
    /\ Free(r, "playNext")
    /\ song' = Demoted(NoSong)
    /\ Start(r, "playNext", "promote", NoSong)
    /\ UNCHANGED <<matched, vote, people, currentSong, credited, local, seen, doc>>

PlayableUnmatched == {s \in Songs : song[s].status = "APPROVED"}    \* mutant
Playable == {s \in Songs : song[s].status = "APPROVED" /\ matched[s]}

\* One findOneAndUpdate takes the playable song with the highest voteScore;
\* the tie-break (isPremiumSuggestion, sortKey) is left open.
PlayNextPromote(r) ==
    /\ At(r, "promote")
    /\ \/ /\ Playable = {}
          /\ UNCHANGED song
       \/ \E s \in Playable :
             /\ \A t \in Playable : song[t].score <= song[s].score
             /\ song' = [song EXCEPT ![s].status = "PLAYING"]
    /\ Finish(r)
    /\ UNCHANGED <<matched, vote, people, currentSong, credited>>

-----------------------------------------------------------------------------
(* Participants and event settings. *)

\* The handlers that call recomputeActiveSongsForEvent once the roster changed;
\* a nickname joining through the socket's join_event does not.
RecountingWithoutLeave == {"join", "ban"}                          \* mutant
Recounting == {"join", "leave", "ban"}

\* joinEvent, leaveEvent, kickParticipant and banParticipant: a ban lasts,
\* leaving and being kicked (both "leave") do not.  None of them minds whether
\* the participant is there already (a protected nickname resumes) or is gone.
RosterChange(r) ==
    \E p \in Attendees, op \in {"join", "socketJoin", "leave", "ban"} :
        /\ Free(r, op)
        /\ op \in {"join", "socketJoin"} => roster[p] # "banned"
        /\ roster' = [roster EXCEPT ![p] =
                        IF op = "ban" \/ @ = "banned" THEN "banned"
                        ELSE IF op = "leave" THEN "out" ELSE "in"]
        /\ IF op \in Recounting THEN Start(r, op, "load", NoSong) ELSE UNCHANGED req
        /\ UNCHANGED <<queue, vote, premium, settings, currentSong, credited,
                       local, seen, doc>>

\* setPremium changes the weight of later votes only, and recounts nothing.
SetPremium(r) ==
    \E p \in Attendees :
        /\ Free(r, "setPremium")
        /\ premium' = [premium EXCEPT ![p] = ~@]
        /\ UNCHANGED <<queue, vote, roster, settings, currentSong, credited, flight>>

UpdateSettingsOnly(r) ==                                           \* mutant
    \E new \in SettingsChoices :
        /\ Free(r, "settings")
        /\ settings' = new
        /\ UNCHANGED <<queue, vote, roster, premium, currentSong, credited, flight>>

\* updateEvent: the songs are recounted when the payload names
\* premiumVotesEnabled, which it must to change it.
UpdateSettings(r) ==
    \E new \in SettingsChoices, named \in BOOLEAN :
        /\ Free(r, "settings")
        /\ named \/ new.premiumVotes = settings.premiumVotes
        /\ settings' = new
        /\ IF named THEN Start(r, "settings", "load", NoSong) ELSE UNCHANGED req
        /\ UNCHANGED <<queue, vote, roster, premium, currentSong, credited,
                       local, seen, doc>>

-----------------------------------------------------------------------------
(* Votes (castVote, removeVote, recomputeActiveSongsForEvent). *)

\* castVote and removeVote load the song first; neither looks at its status.
VoteLoad(r) ==
    \E op \in {"vote", "unvote"}, s \in Songs, p \in Attendees, v \in {-1, 1} :
        /\ Free(r, op)
        /\ song[s].status # "ABSENT"
        /\ op = "unvote" => v = 1
        /\ Start(r, op, "check", s)
        /\ SetLocal(r, [Blank EXCEPT !.who = p, !.value = IF op = "vote" THEN v ELSE 0])
        /\ Load(r, [NothingSeen EXCEPT ![s] = song[s]], song[s])
        /\ UNCHANGED <<queue, people, vote, currentSong, credited>>

\* The settings, the participant's right to act, isPremium and, for a cast,
\* whether a row exists: all read before the row is written.
VoteCheck(r) ==
    LET who == local[r].who IN
    /\ At(r, "check")
    /\ \/ /\ req[r].op = "vote"
          /\ settings.voting
          /\ local[r].value = -1 => settings.downvotes
          /\ roster[who] = "in"
          /\ Goto(r, "write")
          /\ SetLocal(r, [local[r] EXCEPT
                !.premium = premium[who],
                !.had = vote[req[r].song][who].value # 0,
                !.rules = settings])
          /\ UNCHANGED <<seen, doc>>
       \/ /\ req[r].op = "unvote"
          /\ roster[who] = "in"
          /\ Goto(r, "delete")
          /\ UNCHANGED <<local, seen, doc>>
       \/ /\ \/ roster[who] # "in"
             \/ req[r].op = "vote" /\ ~settings.voting
             \/ local[r].value = -1 /\ ~settings.downvotes
          /\ Finish(r)
    /\ UNCHANGED <<queue, people, vote, currentSong, credited>>

\* vote.save(): an insert fails on the unique index when another request of
\* the attendee inserted first, an update fails when the row is gone.
VoteWrite(r) ==
    LET s == req[r].song
        who == local[r].who
        exists == vote[s][who].value # 0
    IN
    /\ At(r, "write")
    /\ \/ /\ exists = local[r].had
          /\ vote' = [vote EXCEPT ![s][who] =
                        [value |-> local[r].value, premium |-> local[r].premium]]
          /\ Goto(r, "tally")
          /\ UNCHANGED <<local, seen, doc>>
       \/ /\ exists # local[r].had
          /\ UNCHANGED vote
          /\ Finish(r)
    /\ UNCHANGED <<queue, people, currentSong, credited>>

\* findOneAndDelete of the row, or NotFoundError.
VoteDelete(r) ==
    LET s == req[r].song
        who == local[r].who
    IN
    /\ At(r, "delete")
    /\ \/ /\ vote[s][who].value # 0
          /\ vote' = [vote EXCEPT ![s][who] = NoBallot]
          /\ Goto(r, "rules")
          /\ UNCHANGED <<local, seen, doc>>
       \/ /\ vote[s][who].value = 0
          /\ UNCHANGED vote
          /\ Finish(r)
    /\ UNCHANGED <<queue, people, currentSong, credited>>

\* recomputeActiveSongsForEvent loads every active song at once ...
RecountLoad(r) ==
    LET found == {s \in Songs : song[s].status \in Active} IN
    /\ At(r, "load")
    /\ Goto(r, "rules")
    /\ SetLocal(r, [Blank EXCEPT !.todo = found])
    /\ Load(r, [s \in Songs |-> IF s \in found THEN song[s] ELSE NoDoc], NoDoc)
    /\ UNCHANGED <<queue, people, vote, currentSong, credited>>

\* ... and reads the settings once; removeVote reads them after its delete.
ReadRules(r) ==
    /\ At(r, "rules")
    /\ \/ /\ req[r].song = NoSong /\ local[r].todo = {}
          /\ Finish(r)
       \/ /\ req[r].song # NoSong \/ local[r].todo # {}
          /\ Goto(r, "tally")
          /\ SetLocal(r, [local[r] EXCEPT !.rules = settings])
          /\ UNCHANGED <<seen, doc>>
    /\ UNCHANGED <<queue, people, vote, currentSong, credited>>

\* _recalculateSongVoteState reads the vote rows into the loaded copy.
Tally(r) ==
    \E s \in Songs :
        /\ At(r, "tally")
        /\ IF req[r].song = NoSong THEN s \in local[r].todo ELSE s = req[r].song
        /\ req' = [req EXCEPT ![r].pc = "judge", ![r].song = s]
        /\ doc' = [doc EXCEPT ![r] =
                     [status |-> seen[r][s].status,
                      score  |-> Weighted(s, 1, local[r].rules),
                      downs  |-> Weighted(s, -1, local[r].rules)]]
        /\ UNCHANGED <<queue, people, vote, currentSong, credited, local, seen>>

\* The ladder and the auto-reject, with the attendees counted now; rejecting
\* the song the copy says is PLAYING also unsets currentSongId if it is that.
Judge(r) ==
    LET s == req[r].song
        verdict == Judged(doc[r], local[r].rules)
    IN
    /\ At(r, "judge")
    /\ doc' = [doc EXCEPT ![r].status = verdict]
    /\ currentSong' =
         IF doc[r].status = "PLAYING" /\ verdict = "REJECTED" /\ currentSong = s
         THEN NoSong ELSE currentSong
    /\ Goto(r, "store")
    /\ UNCHANGED <<queue, people, vote, credited, local, seen>>

\* song.save(); a recount goes on with its next song.
TallySave(r) ==
    LET s == req[r].song
        left == local[r].todo \ {s}
    IN
    /\ At(r, "store")
    /\ song' = [song EXCEPT ![s] = Saved(song[s], seen[r][s], doc[r])]
    /\ \/ /\ left # {}
          /\ req' = [req EXCEPT ![r].pc = "tally", ![r].song = NoSong]
          /\ SetLocal(r, [local[r] EXCEPT !.todo = left])
          /\ Load(r, [seen[r] EXCEPT ![s] = NoDoc], NoDoc)
       \/ /\ left = {}
          /\ Finish(r)
    /\ UNCHANGED <<matched, vote, people, currentSong, credited>>

-----------------------------------------------------------------------------

\* A save or a query throws, or the process exits: the rest of the handler
\* does not run and nothing undoes what it has written.
Abort(r) ==
    /\ r \in Faulty
    /\ ~At(r, "idle")
    /\ Finish(r)
    /\ UNCHANGED <<queue, vote, people, currentSong, credited>>

Begin(r) ==
    \/ SuggestCheck(r) \/ BindTrack(r) \/ ModerateLoad(r) \/ PlayNextDemote(r)
    \/ RosterChange(r) \/ SetPremium(r) \/ UpdateSettings(r) \/ VoteLoad(r)

Continue(r) ==
    \/ SuggestInsert(r) \/ SendDemote(r) \/ ModerateSave(r) \/ ApproveCredit(r)
    \/ SendCurrent(r) \/ PlayNextPromote(r) \/ VoteCheck(r) \/ VoteWrite(r)
    \/ VoteDelete(r) \/ RecountLoad(r) \/ ReadRules(r) \/ Tally(r) \/ Judge(r)
    \/ TallySave(r)

Next == \E r \in Requests : Begin(r) \/ Continue(r) \/ Abort(r)

\* The event loop resumes every handler whose database call has answered;
\* nothing makes a client send a request.
Fairness == \A r \in Requests : WF_vars(Continue(r))

Spec == Init /\ [][Next]_vars
FairSpec == Spec /\ Fairness

-----------------------------------------------------------------------------
(* Properties. *)

StoredOK ==
    /\ song \in [Songs -> Doc]
    /\ matched \in [Songs -> BOOLEAN]
    /\ vote \in [Songs -> [Attendees -> Ballot]]
    /\ roster \in [Attendees -> {"out", "in", "banned"}]
    /\ premium \in [Attendees -> BOOLEAN]
    /\ settings \in SettingsType
    /\ currentSong \in Songs \cup {NoSong}
    /\ credited \in [Songs -> Nat]

FlightOK ==
    /\ req \in [Requests -> Request]
    /\ local \in [Requests -> Locals]
    /\ seen \in [Requests -> [Songs -> Doc]]
    /\ doc \in [Requests -> Doc]
    /\ \A r \in Requests : req[r].pc = "check" => local[r].who \in Attendees

\* Every variable holds a value of its type; scores are natural numbers.
TypeOK == StoredOK /\ FlightOK

\* No song is on air, or was, without the fingerprint match that sendNow and
\* playNextSong require (_assertPlayableMatch), however handlers interleave.
PlayedHadTrack ==
    \A s \in Songs :
        song[s].status \in {"PLAYING", "PLAYED", "SKIPPED"} => matched[s]

\* The queue never has two PLAYING songs (playNextSong's comment, sendNow's
\* updateMany).  It takes one promoter at a time: see SinglePromoter.
AtMostOnePlaying ==
    \A s, t \in Songs :
        song[s].status = "PLAYING" /\ song[t].status = "PLAYING" => s = t

\* event.currentSongId names a song that was sent: matched, and no longer
\* waiting for approval whatever stale copy was saved over it since.
CurrentWasSent ==
    currentSong # NoSong =>
        /\ matched[currentSong]
        /\ song[currentSong].status \notin {"ABSENT", "PENDING"}

\* approveSong increments approvalCount once per song, and only for a song
\* that has left the pending list.
CreditedOnce ==
    \A s \in Songs :
        /\ credited[s] <= 1
        /\ credited[s] = 1 => song[s].status \notin {"ABSENT", "PENDING"}

\* No save, however stale its copy, puts a song back on the pending list.
Waiting == {"ABSENT", "PENDING"}
NeverBackToPending ==
    [][\A s \in Songs : song[s].status \notin Waiting
                            => song'[s].status \notin Waiting]_vars

TallyOps == {"vote", "unvote"} \cup Recounting \cup {"settings"}
NoTallyInFlight == \A r \in Requests : req[r].op \notin TallyOps

\* Between vote handlers the stored score and downvotes of an active song are
\* the weighted count of its vote rows under the current settings, whatever
\* the DJ's handlers saved meanwhile.
TallyInStep ==
    NoTallyInFlight =>
        \A s \in Songs : song[s].status \in Active =>
            /\ song[s].score = Weighted(s, 1, settings)
            /\ song[s].downs = Weighted(s, -1, settings)

\* Between handlers no active song has enough downvotes to be rejected and no
\* pending one enough votes to be approved: attendees who come, go and vote
\* leave no verdict unapplied.  It is stated for an event that keeps its
\* ladder: updateEvent recounts nothing when approveLadderThreshold changes.
VerdictsInForce ==
    NoTallyInFlight =>
        \A s \in Songs : song[s].status \in Active =>
            Judged(song[s], settings) = song[s].status

\* A song that the attendees' downvotes outvote is rejected (or leaves the
\* queue) unless the vote rows or the audience change first.
Outvoted(s) ==
    /\ song[s].status \in Active
    /\ Weighted(s, -1, settings) >= AutoRejectThreshold
OutvotedIsRejected == \A s \in Songs : Outvoted(s) ~> ~Outvoted(s)

\* A status, once terminal, stays (song-state-machine.js, isTerminalState).
TerminalIsFinal ==
    [][\A s \in Songs : song[s].status \in Terminal
                            => song'[s].status = song[s].status]_vars

\* One handler at a time, the queue goes through the song state machine only.
Lifecycle == INSTANCE SongLifecycle
    WITH status <- [s \in Songs |-> song[s].status]
LifecycleSpec == Lifecycle!Spec

=============================================================================
