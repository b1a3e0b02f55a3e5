-------------------------- MODULE EventQueue_proofs --------------------------
(* Theorems about EventQueue, for any sets of songs, attendees and requests. *)
EXTENDS EventQueue, FiniteSetTheorems, TLAPS

-----------------------------------------------------------------------------
(* What the helpers return. *)

\* A weighted count of votes is a natural number.
LEMMA WeightedIsNat ==
    ASSUME NEW s \in Songs, NEW value \in {-1, 1}, NEW rules \in SettingsType
    PROVE  Weighted(s, value, rules) \in Nat
<1>1. Voters(s, value) \subseteq Attendees
    BY DEF Voters
<1>2. PremiumVoters(s, value) \subseteq Attendees
    BY <1>1 DEF PremiumVoters
<1>3. Cardinality(Voters(s, value)) \in Nat
    BY <1>1, ConstantsAssumption, FS_Subset, FS_CardinalityType
<1>4. Cardinality(PremiumVoters(s, value)) \in Nat
    BY <1>2, ConstantsAssumption, FS_Subset, FS_CardinalityType
<1> QED BY <1>3, <1>4 DEF Weighted

\* The verdict on a copy keeps its status, approves it or rejects it.
LEMMA JudgedIsVerdict ==
    ASSUME NEW d \in Doc, NEW rules \in SettingsType
    PROVE  Judged(d, rules) \in {d.status, "APPROVED", "REJECTED"}
BY DEF Judged

\* A save writes a document.
LEMMA SavedIsDoc ==
    ASSUME NEW stored \in Doc, NEW old \in Doc, NEW new \in Doc
    PROVE  Saved(stored, old, new) \in Doc
BY DEF Saved, Doc

\* A demotion leaves documents.
LEMMA DemotedAreDocs ==
    ASSUME NEW kept, song \in [Songs -> Doc]
    PROVE  Demoted(kept) \in [Songs -> Doc]
BY DEF Demoted, Doc, Status

\* Writing one document keeps the collection well typed.
LEMMA SongWriteOK ==
    ASSUME song \in [Songs -> Doc], NEW s, NEW d \in Doc
    PROVE  [song EXCEPT ![s] = d] \in [Songs -> Doc]
OBVIOUS

\* The same of one vote row: a ballot written, or its row deleted.
LEMMA VoteRowOK ==
    ASSUME vote \in [Songs -> [Attendees -> Ballot]],
           NEW s, NEW who, NEW ballot \in Ballot
    PROVE  [vote EXCEPT ![s][who] = ballot] \in [Songs -> [Attendees -> Ballot]]
<1>1. CASE s \in Songs
    <2>1. vote[s] \in [Attendees -> Ballot]
        BY <1>1
    <2>2. [vote[s] EXCEPT ![who] = ballot] \in [Attendees -> Ballot]
        BY <2>1
    <2> QED BY <2>2
<1>2. CASE s \notin Songs
    BY <1>2
<1> QED BY <1>1, <1>2

\* A step of r keeps the last conjunct of FlightOK for the other requests.
LEMMA OnlyOne ==
    ASSUME FlightOK, NEW r \in Requests,
           \A q \in Requests : q # r => req'[q] = req[q] /\ local'[q] = local[q],
           req'[r].pc = "check" => local'[r].who \in Attendees
    PROVE  \A q \in Requests : req'[q].pc = "check" => local'[q].who \in Attendees
BY DEF FlightOK

\* The end of a handler leaves well-typed control state.
LEMMA FinishOK ==
    ASSUME NEW r \in Requests, FlightOK, Finish(r)
    PROVE  FlightOK'
<1>1. Idle \in Request /\ NoDoc \in Doc /\ NothingSeen \in [Songs -> Doc]
    BY DEF Idle, Request, OpNames, Pc, NoDoc, Doc, Status, NothingSeen
<1>2. Blank \in Locals
    BY DEF Blank, Locals, NoRules, SettingsType
<1>3. /\ req' \in [Requests -> Request] /\ local' \in [Requests -> Locals]
      /\ seen' \in [Requests -> [Songs -> Doc]] /\ doc' \in [Requests -> Doc]
    BY <1>1, <1>2 DEF FlightOK, Finish
<1>4. /\ \A q \in Requests : q # r => req'[q] = req[q] /\ local'[q] = local[q]
      /\ req'[r].pc = "idle"
    BY DEF FlightOK, Finish, Idle
<1> QED BY <1>3, <1>4, OnlyOne DEF FlightOK

-----------------------------------------------------------------------------
(* Type correctness, one step per action. *)

\* A handler that has just been called or resumed leaves well-typed state.
LEMMA BeginType ==
    ASSUME TypeOK, NEW r \in Requests, Begin(r)
    PROVE  TypeOK'
<1> USE ConstantsAssumption DEF TypeOK, StoredOK
<1>1. CASE SuggestCheck(r)
    BY <1>1 DEF SuggestCheck, FlightOK, Start, Request, OpNames, Pc,
                queue, people
<1>2. CASE BindTrack(r)
    BY <1>2 DEF BindTrack, FlightOK, flight, people
<1>3. CASE ModerateLoad(r)
    <2> PICK op \in DJOps, s \in Songs :
            /\ Start(r, op, IF op = "sendNow" THEN "demote" ELSE "save", s)
            /\ Load(r, [NothingSeen EXCEPT ![s] = song[s]],
                       [song[s] EXCEPT !.status = Target[op]])
            /\ UNCHANGED <<queue, people, vote, currentSong, credited, local>>
        BY <1>3 DEF ModerateLoad
    <2>1. Target[op] \in Status
        BY DEF DJOps, Target, Status
    <2>2. [song[s] EXCEPT !.status = Target[op]] \in Doc
        BY <2>1 DEF Doc
    <2>3. NothingSeen \in [Songs -> Doc]
        BY DEF NothingSeen, NoDoc, Doc, Status
    <2>4. [NothingSeen EXCEPT ![s] = song[s]] \in [Songs -> Doc]
        BY <2>3
    <2> QED BY <2>2, <2>4 DEF FlightOK, Start, Load, Request, OpNames, DJOps,
                              Pc, queue, people
<1>4. CASE PlayNextDemote(r)
    <2>1. song' \in [Songs -> Doc]
        BY <1>4, DemotedAreDocs DEF PlayNextDemote
    <2> QED BY <1>4, <2>1 DEF PlayNextDemote, FlightOK, Start, Request, OpNames,
                              Pc, people
<1>5. CASE RosterChange(r)
    <2>1. roster' \in [Attendees -> {"out", "in", "banned"}]
        BY <1>5 DEF RosterChange
    <2>2. req' \in [Requests -> Request]
        <3>1. PICK op \in {"join", "socketJoin", "leave", "ban"} :
                 IF op \in Recounting THEN Start(r, op, "load", NoSong)
                                      ELSE UNCHANGED req
            BY <1>5 DEF RosterChange
        <3>2. [op |-> op, pc |-> "load", song |-> NoSong] \in Request
            BY DEF Request, OpNames, Pc
        <3> QED BY <3>1, <3>2 DEF Start, FlightOK
    <2>3. UNCHANGED <<queue, vote, premium, settings, currentSong, credited,
                      local, seen, doc>>
        BY <1>5 DEF RosterChange
    <2>4. \A q \in Requests : req'[q].pc = "check" => local'[q].who \in Attendees
        <3>1. req \in [Requests -> Request]
            BY DEF FlightOK
        <3>2. \A q \in Requests : req'[q] = req[q] \/ req'[q].pc = "load"
            BY <1>5, <3>1 DEF RosterChange, Start
        <3>3. UNCHANGED local
            BY <2>3
        <3> QED BY <3>2, <3>3 DEF FlightOK
    <2> QED BY <2>1, <2>2, <2>3, <2>4 DEF FlightOK, queue
<1>6. CASE SetPremium(r)
    BY <1>6 DEF SetPremium, FlightOK, flight, queue
<1>7. CASE UpdateSettings(r)
    <2>1. req' \in [Requests -> Request]
        <3>1. req' = req \/ Start(r, "settings", "load", NoSong)
            BY <1>7 DEF UpdateSettings
        <3>2. [op |-> "settings", pc |-> "load", song |-> NoSong] \in Request
            BY DEF Request, OpNames, Pc
        <3> QED BY <3>1, <3>2 DEF Start, FlightOK
    <2>2. /\ settings' \in SettingsType
          /\ UNCHANGED <<queue, vote, roster, premium, currentSong, credited,
                         local, seen, doc>>
        BY <1>7 DEF UpdateSettings
    <2>3. \A q \in Requests : req'[q] = req[q] \/ req'[q].pc = "load"
        <3>1. req \in [Requests -> Request]
            BY DEF FlightOK
        <3> QED BY <1>7, <3>1 DEF UpdateSettings, Start
    <2>4. \A q \in Requests : req'[q].pc = "check" => local'[q].who \in Attendees
        BY <2>2, <2>3 DEF FlightOK
    <2> QED BY <2>1, <2>2, <2>4 DEF FlightOK, queue
<1>8. CASE VoteLoad(r)
    <2> PICK op \in {"vote", "unvote"}, s \in Songs, p \in Attendees, v \in {-1, 1} :
            /\ Start(r, op, "check", s)
            /\ SetLocal(r, [Blank EXCEPT !.who = p,
                                         !.value = IF op = "vote" THEN v ELSE 0])
            /\ Load(r, [NothingSeen EXCEPT ![s] = song[s]], song[s])
            /\ UNCHANGED <<queue, people, vote, currentSong, credited>>
        BY <1>8 DEF VoteLoad
    <2>1. NothingSeen \in [Songs -> Doc]
        BY DEF NothingSeen, NoDoc, Doc, Status
    <2>2. [NothingSeen EXCEPT ![s] = song[s]] \in [Songs -> Doc]
        BY <2>1
    <2>3. [Blank EXCEPT !.who = p, !.value = IF op = "vote" THEN v ELSE 0] \in Locals
        BY DEF Blank, Locals, NoRules, SettingsType
    <2>4. req' \in [Requests -> Request]
        BY DEF FlightOK, Start, Request, OpNames, Pc
    <2> DEFINE mine == [Blank EXCEPT !.who = p, !.value = IF op = "vote" THEN v ELSE 0]
    <2>5. mine.who = p
        BY DEF Blank
    <2> HIDE DEF mine
    <2>6. local' \in [Requests -> Locals] /\ local'[r].who = p
          /\ \A q \in Requests : q # r => req'[q] = req[q] /\ local'[q] = local[q]
        BY <2>3, <2>5 DEF FlightOK, SetLocal, Start, mine
    <2>7. seen' \in [Requests -> [Songs -> Doc]] /\ doc' \in [Requests -> Doc]
        BY <2>2 DEF FlightOK, Load
    <2>8. StoredOK'
        BY DEF queue, people
    <2> QED BY <2>4, <2>6, <2>7, <2>8, OnlyOne DEF FlightOK
<1> QED BY <1>1, <1>2, <1>3, <1>4, <1>5, <1>6, <1>7, <1>8 DEF Begin

\* A step to a later point of the same handler keeps its control well typed.
LEMMA GotoOK ==
    ASSUME req \in [Requests -> Request], NEW r \in Requests, NEW pc \in Pc,
           Goto(r, pc)
    PROVE  /\ req' \in [Requests -> Request]
           /\ req'[r].pc = pc
           /\ \A q \in Requests : q # r => req'[q] = req[q]
BY DEF Goto, Request

\* Every resumed handler, action by action.
LEMMA ContinueType ==
    ASSUME TypeOK, NEW r \in Requests, Continue(r)
    PROVE  TypeOK'
<1> USE ConstantsAssumption DEF TypeOK
<1>1. CASE SuggestInsert(r)
    <2>1. FlightOK'
        BY <1>1, FinishOK DEF SuggestInsert
    <2>2. song' \in [Songs -> Doc] /\ matched' \in [Songs -> BOOLEAN]
        <3>1. PICK found \in BOOLEAN :
                 /\ song' = [song EXCEPT ![req[r].song].status = "PENDING"]
                 /\ matched' = [matched EXCEPT ![req[r].song] = found]
            BY <1>1 DEF SuggestInsert
        <3>2. CASE req[r].song \in Songs
            <4>1. [song[req[r].song] EXCEPT !.status = "PENDING"] \in Doc
                BY <3>2 DEF StoredOK, Doc, Status
            <4> QED BY <3>1, <4>1, SongWriteOK DEF StoredOK
        <3>3. CASE req[r].song \notin Songs
            BY <3>1, <3>3 DEF StoredOK
        <3> QED BY <3>2, <3>3
    <2>3. UNCHANGED <<vote, people, currentSong, credited>>
        BY <1>1 DEF SuggestInsert
    <2> QED BY <2>1, <2>2, <2>3 DEF StoredOK, people
<1>2. CASE SendDemote(r)
    <2>1. song' \in [Songs -> Doc]
        BY <1>2, DemotedAreDocs DEF SendDemote, StoredOK
    <2>2. req' \in [Requests -> Request]
        BY <1>2, GotoOK DEF SendDemote, FlightOK, Pc
    <2>3. /\ Goto(r, "save")
          /\ UNCHANGED <<matched, vote, people, currentSong, credited, local, seen, doc>>
        BY <1>2 DEF SendDemote
    <2>4. FlightOK'
        BY <2>2, <2>3, GotoOK, OnlyOne DEF FlightOK, Pc
    <2> QED BY <2>1, <2>3, <2>4 DEF StoredOK, people
<1>3. CASE ModerateSave(r)
    <2>1. song' \in [Songs -> Doc]
        <3>1. CASE req[r].song \in Songs
            <4>1. /\ song[req[r].song] \in Doc /\ doc[r] \in Doc
                  /\ seen[r][req[r].song] \in Doc
                BY <3>1 DEF StoredOK, FlightOK
            <4> QED BY <1>3, <4>1, SavedIsDoc, SongWriteOK DEF ModerateSave, StoredOK
        <3>2. CASE req[r].song \notin Songs
            BY <1>3, <3>2 DEF ModerateSave, StoredOK
        <3> QED BY <3>1, <3>2
    <2>2. FlightOK'
        BY <1>3, FinishOK, GotoOK DEF ModerateSave, FlightOK, Pc
    <2>3. UNCHANGED <<matched, vote, people, currentSong, credited>>
        BY <1>3 DEF ModerateSave
    <2> QED BY <2>1, <2>2, <2>3 DEF StoredOK, people
<1>4. CASE ApproveCredit(r)
    <2>1. FlightOK'
        BY <1>4, FinishOK DEF ApproveCredit
    <2>2. credited' \in [Songs -> Nat]
        <3>1. credited \in [Songs -> Nat]
            BY DEF StoredOK
        <3>2. credited' = [credited EXCEPT ![req[r].song] = @ + 1]
            BY <1>4 DEF ApproveCredit
        <3>3. CASE req[r].song \in Songs
            BY <3>1, <3>2, <3>3
        <3>4. CASE req[r].song \notin Songs
            BY <3>1, <3>2, <3>4
        <3> QED BY <3>3, <3>4
    <2>3. UNCHANGED <<queue, vote, people, currentSong>>
        BY <1>4 DEF ApproveCredit
    <2> QED BY <2>1, <2>2, <2>3 DEF StoredOK, queue, people
<1>5. CASE SendCurrent(r)
    <2>1. FlightOK'
        BY <1>5, FinishOK DEF SendCurrent
    <2>2. currentSong' \in Songs \cup {NoSong}
        BY <1>5 DEF SendCurrent, FlightOK, Request
    <2> QED BY <1>5, <2>1, <2>2 DEF SendCurrent, StoredOK, queue, people
<1>6. CASE PlayNextPromote(r)
    <2>1. FlightOK'
        BY <1>6, FinishOK DEF PlayNextPromote
    <2>2. song' \in [Songs -> Doc]
        <3>1. CASE UNCHANGED song
            BY <3>1 DEF StoredOK
        <3>2. ASSUME NEW s \in Playable,
                     song' = [song EXCEPT ![s].status = "PLAYING"]
              PROVE  song' \in [Songs -> Doc]
            <4>1. s \in Songs /\ song[s] \in Doc
                BY DEF Playable, StoredOK
            <4>2. [song[s] EXCEPT !.status = "PLAYING"] \in Doc
                BY <4>1 DEF Doc, Status
            <4> QED BY <3>2, <4>2, SongWriteOK DEF StoredOK
        <3> QED BY <1>6, <3>1, <3>2 DEF PlayNextPromote
    <2>3. UNCHANGED <<matched, vote, people, currentSong, credited>>
        BY <1>6 DEF PlayNextPromote
    <2> QED BY <2>1, <2>2, <2>3 DEF StoredOK, people
<1>7. CASE VoteCheck(r)
    <2>1. StoredOK'
        BY <1>7 DEF VoteCheck, StoredOK, queue, people
    <2>2. CASE /\ Goto(r, "write")
               /\ SetLocal(r, [local[r] EXCEPT
                    !.premium = premium[local[r].who],
                    !.had = vote[req[r].song][local[r].who].value # 0,
                    !.rules = settings])
               /\ UNCHANGED <<seen, doc>>
        <3>1. premium[local[r].who] \in BOOLEAN /\ settings \in SettingsType
            <4>1. req[r].pc = "check"
                BY <1>7 DEF VoteCheck, At
            <4>2. local[r].who \in Attendees
                BY <4>1 DEF FlightOK
            <4>3. premium \in [Attendees -> BOOLEAN] /\ settings \in SettingsType
                BY DEF StoredOK
            <4> QED BY <4>2, <4>3
        <3>2. local' \in [Requests -> Locals]
            <4> DEFINE had == vote[req[r].song][local[r].who].value # 0
            <4>1. local[r] \in Locals /\ had \in BOOLEAN
                BY DEF FlightOK
            <4> HIDE DEF had
            <4>2. [local[r] EXCEPT !.premium = premium[local[r].who],
                                   !.had = had, !.rules = settings] \in Locals
                BY <3>1, <4>1 DEF Locals
            <4> QED BY <2>2, <4>2 DEF SetLocal, FlightOK, had
        <3>3. /\ Goto(r, "write") /\ UNCHANGED <<seen, doc>>
              /\ \A q \in Requests : q # r => local'[q] = local[q]
            BY <2>2 DEF SetLocal, FlightOK
        <3>4. req' \in [Requests -> Request] /\ req'[r].pc = "write"
              /\ \A q \in Requests : q # r => req'[q] = req[q]
            BY <3>3, GotoOK DEF FlightOK, Pc
        <3>5. \A q \in Requests : req'[q].pc = "check" => local'[q].who \in Attendees
            <4>1. \A q \in Requests : req[q].pc = "check" => local[q].who \in Attendees
                BY DEF FlightOK
            <4> QED BY <3>3, <3>4, <4>1
        <3> QED BY <2>1, <3>2, <3>3, <3>4, <3>5 DEF FlightOK
    <2>3. CASE Goto(r, "delete") /\ UNCHANGED <<local, seen, doc>>
        BY <2>1, <2>3, GotoOK DEF FlightOK, Goto, Request, Pc
    <2>4. CASE Finish(r)
        BY <2>1, <2>4, FinishOK
    <2> QED BY <1>7, <2>1, <2>2, <2>3, <2>4 DEF VoteCheck
<1>8. CASE VoteWrite(r)
    <2>1. vote' \in [Songs -> [Attendees -> Ballot]]
        <3>1. local[r].value \in {-1, 0, 1} /\ local[r].premium \in BOOLEAN
            BY DEF FlightOK, Locals
        <3>2. [value |-> local[r].value, premium |-> local[r].premium] \in Ballot
            BY <3>1 DEF Ballot
        <3> QED BY <1>8, <3>2, VoteRowOK DEF VoteWrite, StoredOK
    <2>2. FlightOK'
        <3>1. CASE Goto(r, "tally") /\ UNCHANGED <<local, seen, doc>>
            BY <3>1, GotoOK DEF FlightOK, Goto, Request, Pc
        <3>2. CASE Finish(r)
            BY <3>2, FinishOK
        <3> QED BY <1>8, <3>1, <3>2 DEF VoteWrite
    <2>3. UNCHANGED <<queue, people, currentSong, credited>>
        BY <1>8 DEF VoteWrite
    <2> QED BY <2>1, <2>2, <2>3 DEF StoredOK, queue, people
<1>9. CASE VoteDelete(r)
    <2>1. vote' \in [Songs -> [Attendees -> Ballot]]
        <3>1. NoBallot \in Ballot
            BY DEF NoBallot, Ballot
        <3> QED BY <1>9, <3>1, VoteRowOK DEF VoteDelete, StoredOK
    <2>2. FlightOK'
        <3>1. CASE Goto(r, "rules") /\ UNCHANGED <<local, seen, doc>>
            BY <3>1, GotoOK DEF FlightOK, Goto, Request, Pc
        <3>2. CASE Finish(r)
            BY <3>2, FinishOK
        <3> QED BY <1>9, <3>1, <3>2 DEF VoteDelete
    <2>3. UNCHANGED <<queue, people, currentSong, credited>>
        BY <1>9 DEF VoteDelete
    <2> QED BY <2>1, <2>2, <2>3 DEF StoredOK, queue, people
<1>10. CASE RecountLoad(r)
    <2> DEFINE found == {s \in Songs : song[s].status \in Active}
    <2>1. [Blank EXCEPT !.todo = found] \in Locals
        BY DEF Blank, Locals, NoRules, SettingsType
    <2>2. NoDoc \in Doc
        BY DEF NoDoc, Doc, Status
    <2>3. [s \in Songs |-> IF s \in found THEN song[s] ELSE NoDoc] \in [Songs -> Doc]
        BY <2>2 DEF StoredOK
    <2>4. /\ Goto(r, "rules")
          /\ SetLocal(r, [Blank EXCEPT !.todo = found])
          /\ Load(r, [s \in Songs |-> IF s \in found THEN song[s] ELSE NoDoc], NoDoc)
          /\ UNCHANGED <<queue, people, vote, currentSong, credited>>
        BY <1>10 DEF RecountLoad
    <2> HIDE DEF found
    <2>5. StoredOK'
        BY <2>4 DEF StoredOK, queue, people
    <2> QED BY <2>1, <2>2, <2>3, <2>4, <2>5, GotoOK
            DEF FlightOK, SetLocal, Load, Goto, Request, Pc
<1>11. CASE ReadRules(r)
    <2>1. StoredOK'
        BY <1>11 DEF ReadRules, StoredOK, queue, people
    <2>2. CASE /\ Goto(r, "tally")
               /\ SetLocal(r, [local[r] EXCEPT !.rules = settings])
               /\ UNCHANGED <<seen, doc>>
        <3>1. local' \in [Requests -> Locals]
            <4>1. local[r] \in Locals /\ settings \in SettingsType
                BY DEF StoredOK, FlightOK
            <4>2. [local[r] EXCEPT !.rules = settings] \in Locals
                BY <4>1 DEF Locals
            <4> QED BY <2>2, <4>2 DEF SetLocal, FlightOK
        <3> QED BY <2>1, <2>2, <3>1, GotoOK DEF FlightOK, Goto, SetLocal, Request, Pc
    <2>3. CASE Finish(r)
        BY <2>1, <2>3, FinishOK
    <2> QED BY <1>11, <2>2, <2>3 DEF ReadRules
<1>12. CASE Tally(r)
    <2> PICK s \in Songs :
            /\ req' = [req EXCEPT ![r].pc = "judge", ![r].song = s]
            /\ doc' = [doc EXCEPT ![r] =
                         [status |-> seen[r][s].status,
                          score  |-> Weighted(s, 1, local[r].rules),
                          downs  |-> Weighted(s, -1, local[r].rules)]]
            /\ UNCHANGED <<queue, people, vote, currentSong, credited, local, seen>>
        BY <1>12 DEF Tally
    <2>1. local[r].rules \in SettingsType /\ seen[r][s].status \in Status
        BY DEF FlightOK, Locals, Doc
    <2>2. /\ Weighted(s, 1, local[r].rules) \in Nat
          /\ Weighted(s, -1, local[r].rules) \in Nat
        BY <2>1, WeightedIsNat
    <2>3. doc' \in [Requests -> Doc]
        BY <2>1, <2>2 DEF FlightOK, Doc
    <2>4. req' \in [Requests -> Request]
        BY DEF FlightOK, Request, Pc
    <2>5. \A q \in Requests : req'[q].pc = "check" => local[q].who \in Attendees
        <3> TAKE q \in Requests
        <3>1. CASE q = r
            BY <3>1 DEF FlightOK
        <3>2. CASE q # r
            <4>1. req \in [Requests -> Request]
                BY DEF FlightOK
            <4>2. req'[q] = req[q]
                BY <3>2, <4>1
            <4> QED BY <4>2 DEF FlightOK
        <3> QED BY <3>1, <3>2
    <2> QED BY <2>3, <2>4, <2>5 DEF StoredOK, FlightOK, queue, people
<1>13. CASE Judge(r)
    <2>1. doc[r] \in Doc /\ local[r].rules \in SettingsType
        BY DEF FlightOK, Locals
    <2>2. Judged(doc[r], local[r].rules) \in Status
        BY <2>1, JudgedIsVerdict DEF Doc, Status
    <2>3. doc' \in [Requests -> Doc]
        BY <1>13, <2>1, <2>2 DEF Judge, FlightOK, Doc
    <2>4. StoredOK'
        BY <1>13 DEF Judge, StoredOK, queue, people
    <2>5. Goto(r, "store") /\ UNCHANGED <<local, seen>>
        BY <1>13 DEF Judge
    <2> QED BY <2>3, <2>4, <2>5, GotoOK DEF FlightOK, Goto, Request, Pc
<1>14. CASE TallySave(r)
    <2>1. song' \in [Songs -> Doc]
        <3>1. CASE req[r].song \in Songs
            <4>1. /\ song[req[r].song] \in Doc /\ doc[r] \in Doc
                  /\ seen[r][req[r].song] \in Doc
                BY <3>1 DEF StoredOK, FlightOK
            <4> QED BY <1>14, <4>1, SavedIsDoc, SongWriteOK DEF TallySave, StoredOK
        <3>2. CASE req[r].song \notin Songs
            BY <1>14, <3>2 DEF TallySave, StoredOK
        <3> QED BY <3>1, <3>2
    <2>2. StoredOK'
        BY <1>14, <2>1 DEF TallySave, StoredOK, people
    <2>3. CASE Finish(r)
        BY <2>2, <2>3, FinishOK
    <2> DEFINE s == req[r].song
               left == local[r].todo \ {s}
    <2>4. CASE /\ req' = [req EXCEPT ![r].pc = "tally", ![r].song = NoSong]
               /\ SetLocal(r, [local[r] EXCEPT !.todo = left])
               /\ Load(r, [seen[r] EXCEPT ![s] = NoDoc], NoDoc)
        <3>1. NoDoc \in Doc
            BY DEF NoDoc, Doc, Status
        <3>2. req' \in [Requests -> Request]
            BY <2>4 DEF FlightOK, Request, Pc
        <3>3. local' \in [Requests -> Locals]
            <4>1. local[r] \in Locals
                BY DEF FlightOK
            <4>2. [local[r] EXCEPT !.todo = left] \in Locals
                BY <4>1 DEF Locals
            <4> QED BY <2>4, <4>2 DEF SetLocal, FlightOK
        <3>4. seen' \in [Requests -> [Songs -> Doc]] /\ doc' \in [Requests -> Doc]
            BY <2>4, <3>1 DEF Load, FlightOK
        <3>5. \A q \in Requests : req'[q].pc = "check" => local'[q].who \in Attendees
            <4> TAKE q \in Requests
            <4>1. CASE q = r
                BY <2>4, <4>1 DEF FlightOK
            <4>2. CASE q # r
                <5>1. req \in [Requests -> Request] /\ local \in [Requests -> Locals]
                    BY DEF FlightOK
                <5>2. req'[q] = req[q]
                    BY <2>4, <4>2, <5>1
                <5>3. local'[q] = local[q]
                    BY <2>4, <4>2, <5>1 DEF SetLocal
                <5> QED BY <5>2, <5>3 DEF FlightOK
            <4> QED BY <4>1, <4>2
        <3> QED BY <2>2, <3>2, <3>3, <3>4, <3>5 DEF FlightOK
    <2> QED BY <1>14, <2>3, <2>4 DEF TallySave
<1> QED BY <1>1, <1>2, <1>3, <1>4, <1>5, <1>6, <1>7, <1>8, <1>9, <1>10, <1>11,
           <1>12, <1>13, <1>14 DEF Continue

\* The collections are empty and nothing is in flight at first.
LEMMA InitType == Init => TypeOK
<1> SUFFICES ASSUME Init PROVE TypeOK
    OBVIOUS
<1>1. /\ NoDoc \in Doc /\ NothingSeen \in [Songs -> Doc]
      /\ Idle \in Request /\ NoBallot \in Ballot
    BY DEF NoDoc, Doc, Status, NothingSeen, Idle, Request, OpNames, Pc,
           NoBallot, Ballot
<1>2. Blank \in Locals
    BY DEF Blank, Locals, NoRules, SettingsType
<1>3. StoredOK
    BY <1>1, ConstantsAssumption DEF Init, StoredOK
<1>4. FlightOK
    BY <1>1, <1>2 DEF Init, FlightOK, Idle
<1> QED BY <1>3, <1>4 DEF TypeOK

\* The variables keep their types, whatever handlers are in flight and
\* whichever of them fail.
THEOREM TypeCorrect == Spec => []TypeOK
<1>1. Init => TypeOK
    BY InitType
<1>2. TypeOK /\ [Next]_vars => TypeOK'
    <2> SUFFICES ASSUME TypeOK, [Next]_vars PROVE TypeOK'
        OBVIOUS
    <2>1. CASE UNCHANGED vars
        BY <2>1 DEF TypeOK, StoredOK, FlightOK, vars
    <2>2. ASSUME NEW r \in Requests, Abort(r) PROVE TypeOK'
        BY <2>2, FinishOK DEF Abort, TypeOK, StoredOK, queue, people
    <2> QED BY <2>1, <2>2, BeginType, ContinueType DEF Next
<1> QED BY <1>1, <1>2, PTL DEF Spec

-----------------------------------------------------------------------------
(***************************************************************************)
(* The inductive invariant.  PlayedHadTrack alone is not inductive: a      *)
(* handler may hold a copy that was loaded long ago, so the invariant says *)
(* what every copy still tells about its document.  A song only ever moves *)
(* forward through ABSENT, waiting and decided, and keeps its match; hence *)
(* what a copy saw of these can only have become more true since.          *)
(***************************************************************************)
OnAir == {"PLAYING", "PLAYED", "SKIPPED"}

\* What a loaded document says of the stored one, however old it is.
Remembered(r) ==
    \A s \in Songs :
        /\ seen[r][s].status # "ABSENT" => song[s].status # "ABSENT"
        /\ seen[r][s].status \notin Waiting => song[s].status \notin Waiting
        /\ seen[r][s].status \in OnAir => matched[s]
        /\ s \in local[r].todo => seen[r][s].status # "ABSENT"

\* A moderation handler about to save holds the target status, which the
\* state machine allowed from the status it loaded.
Moderating(r) ==
    /\ req[r].pc = "demote" => req[r].op = "sendNow"
    /\ req[r].pc \in {"demote", "save"} =>
        /\ req[r].song \in Songs
        /\ req[r].op \in DJOps
        /\ doc[r].status = Target[req[r].op]
        /\ doc[r].status \in CanTransitionTo(seen[r][req[r].song].status)
        /\ req[r].op = "sendNow" => matched[req[r].song]
    /\ req[r].pc \in {"credit", "current"} =>
        /\ req[r].song \in Songs
        /\ song[req[r].song].status \notin Waiting
    /\ req[r].pc = "current" => matched[req[r].song]

\* A vote handler works on a song it found, and its verdict is the status it
\* loaded, an approval or a rejection.
Counting(r) ==
    /\ req[r].pc = "idle" => local[r].todo = {}
    /\ req[r].pc = "load" => req[r].song = NoSong
    /\ \/ req[r].pc \in {"check", "write", "delete", "judge", "store"}
       \/ req[r].pc \in {"rules", "tally"} /\ req[r].song # NoSong
       => req[r].song \in Songs /\ seen[r][req[r].song].status # "ABSENT"
    /\ req[r].pc = "judge" => doc[r].status = seen[r][req[r].song].status
    /\ req[r].pc = "store" =>
        doc[r].status \in {seen[r][req[r].song].status, "APPROVED", "REJECTED"}

\* The identifier of a song about to be inserted is used by nobody else.
Reserved(r) ==
    req[r].pc = "insert" =>
        /\ req[r].song \in Songs
        /\ song[req[r].song].status = "ABSENT"
        /\ \A q \in Requests : req[q].song = req[r].song => q = r

CopyInv == \A r \in Requests :
               Remembered(r) /\ Moderating(r) /\ Counting(r) /\ Reserved(r)

IInv == TypeOK /\ CopyInv /\ PlayedHadTrack /\ CurrentWasSent

\* What one step of request r may do to the songs.
Forward(r) ==
    \A s \in Songs :
        /\ song[s].status # "ABSENT" =>
              song'[s].status # "ABSENT" /\ (matched[s] => matched'[s])
        /\ song[s].status \notin Waiting => song'[s].status \notin Waiting
        /\ song'[s].status \in OnAir =>
              song[s].status \in OnAir \/ (matched[s] /\ song[s].status # "ABSENT")
        /\ song[s].status = "ABSENT" /\ song'[s].status # "ABSENT" =>
              req[r].pc = "insert" /\ req[r].song = s

Step(r) == Begin(r) \/ Continue(r) \/ Abort(r)

\* An allowed transition starts from an existing song, never ends on the
\* pending list, and goes on air from an approved or playing song only.
LEMMA TransitionFacts ==
    ASSUME NEW from \in Status, NEW to \in CanTransitionTo(from)
    PROVE  /\ from # "ABSENT"
           /\ to \notin Waiting
           /\ from \in {"PENDING", "APPROVED", "PLAYING"}
           /\ to \in {"PLAYED", "SKIPPED"} => from = "PLAYING"
           /\ to = "PLAYING" => from = "APPROVED"
           /\ to # from
BY DEF CanTransitionTo, Waiting, Status

\* The status a save leaves: the stored one, or the copy's if that changed.
LEMMA SavedStatus ==
    ASSUME NEW stored, NEW old, NEW new
    PROVE  /\ new.status = old.status => Saved(stored, old, new).status = stored.status
           /\ new.status # old.status => Saved(stored, old, new).status = new.status
BY DEF Saved

\* No step takes a song or its match back, and a song goes on air matched.
LEMMA StepForward ==
    ASSUME IInv, NEW r \in Requests, Step(r)
    PROVE  Forward(r)
<1> USE DEF IInv, TypeOK, CopyInv
<1>song. song \in [Songs -> Doc] /\ matched \in [Songs -> BOOLEAN]
         /\ \A s \in Songs : song[s].status \in Status
    BY DEF StoredOK, Doc
<1>1. CASE UNCHANGED <<song, matched>>
    BY <1>1 DEF Forward
<1>2. CASE SuggestInsert(r)
    <2>1. PICK found \in BOOLEAN :
             /\ song' = [song EXCEPT ![req[r].song].status = "PENDING"]
             /\ matched' = [matched EXCEPT ![req[r].song] = found]
        BY <1>2 DEF SuggestInsert
    <2>2. /\ req[r].pc = "insert" /\ req[r].song \in Songs
          /\ song[req[r].song].status = "ABSENT"
        BY <1>2 DEF SuggestInsert, At, Reserved
    <2> SUFFICES ASSUME NEW s \in Songs
                 PROVE  /\ s # req[r].song => song'[s] = song[s] /\ matched'[s] = matched[s]
                        /\ s = req[r].song => song'[s].status = "PENDING"
        BY <2>2, <1>song DEF Forward, Waiting, OnAir
    <2> QED BY <2>1, <2>2, <1>song DEF Doc
<1>3. CASE BindTrack(r)
    BY <1>3, <1>song DEF BindTrack, Forward
<1>4. ASSUME NEW kept, song' = Demoted(kept), UNCHANGED matched
      PROVE  Forward(r)
    <2>1. \A s \in Songs : \/ song'[s] = song[s]
                           \/ song[s].status = "PLAYING" /\ song'[s].status = "PLAYED"
        BY <1>4, <1>song DEF Demoted, Doc
    <2> QED BY <2>1, <1>4 DEF Forward, Waiting, OnAir
<1>5. CASE ModerateSave(r)
    <2> DEFINE s == req[r].song
    <2>1. /\ s \in Songs /\ req[r].op \in DJOps /\ seen[r][s].status \in Status
          /\ doc[r].status \in CanTransitionTo(seen[r][s].status)
          /\ doc[r].status = Target[req[r].op]
          /\ req[r].op = "sendNow" => matched[s]
        BY <1>5 DEF ModerateSave, At, Moderating, FlightOK, Doc
    <2>2. song' = [song EXCEPT ![s] = Saved(song[s], seen[r][s], doc[r])]
          /\ UNCHANGED matched
        BY <1>5 DEF ModerateSave
    <2>3. song'[s].status = doc[r].status
        BY <2>1, <2>2, <1>song, TransitionFacts, SavedStatus
    <2>4. doc[r].status \notin Waiting
        BY <2>1, TransitionFacts
    <2>5. song[s].status # "ABSENT" /\ (doc[r].status \in OnAir => matched[s])
        <3>1. seen[r][s].status # "ABSENT"
            BY <2>1, TransitionFacts
        <3>2. seen[r][s].status \in OnAir => matched[s]
            BY <2>1 DEF Remembered
        <3>3. doc[r].status \in {"PLAYED", "SKIPPED"} => seen[r][s].status = "PLAYING"
            BY <2>1, TransitionFacts
        <3>4. doc[r].status = "PLAYING" => req[r].op = "sendNow"
            BY <2>1 DEF Target, DJOps
        <3>5. song[s].status # "ABSENT"
            BY <2>1, <3>1 DEF Remembered
        <3> QED BY <2>1, <3>2, <3>3, <3>4, <3>5 DEF OnAir
    <2>6. \A t \in Songs : t # s => song'[t] = song[t]
        BY <2>2, <1>song
    <2> HIDE DEF s
    <2> QED BY <2>2, <2>3, <2>4, <2>5, <2>6 DEF Forward, Waiting
<1>6. CASE PlayNextPromote(r)
    <2>1. ASSUME NEW s \in Playable,
                 song' = [song EXCEPT ![s].status = "PLAYING"], UNCHANGED matched
          PROVE  Forward(r)
        <3>1. s \in Songs /\ song[s].status = "APPROVED" /\ matched[s]
            BY DEF Playable
        <3>2. \A t \in Songs : t # s => song'[t] = song[t]
            BY <2>1, <1>song
        <3>3. song'[s].status = "PLAYING"
            BY <2>1, <3>1, <1>song DEF Doc
        <3> QED BY <2>1, <3>1, <3>2, <3>3 DEF Forward, Waiting
    <2> QED BY <1>6, <1>1, <2>1 DEF PlayNextPromote
<1>7. CASE TallySave(r)
    <2> DEFINE s == req[r].song
    <2>1. /\ s \in Songs /\ seen[r][s].status # "ABSENT"
          /\ doc[r].status \in {seen[r][s].status, "APPROVED", "REJECTED"}
        BY <1>7 DEF TallySave, At, Counting
    <2>2. song' = [song EXCEPT ![s] = Saved(song[s], seen[r][s], doc[r])]
          /\ UNCHANGED matched
        BY <1>7 DEF TallySave
    <2>3. song[s].status # "ABSENT"
        BY <2>1 DEF Remembered
    <2>4. song'[s].status \in {song[s].status, "APPROVED", "REJECTED"}
        BY <2>1, <2>2, <1>song, SavedStatus
    <2>5. \A t \in Songs : t # s => song'[t] = song[t]
        BY <2>2, <1>song
    <2> HIDE DEF s
    <2> QED BY <2>1, <2>2, <2>3, <2>4, <2>5 DEF Forward, Waiting, OnAir
<1>8. Step(r) => \/ UNCHANGED <<song, matched>>
                 \/ SuggestInsert(r) \/ BindTrack(r) \/ ModerateSave(r)
                 \/ PlayNextPromote(r) \/ TallySave(r)
                 \/ \E kept : song' = Demoted(kept) /\ UNCHANGED matched
    BY DEF Step, Begin, Continue, Abort, SuggestCheck, ModerateLoad, PlayNextDemote,
           RosterChange, SetPremium, UpdateSettings, VoteLoad, SendDemote,
           ApproveCredit, SendCurrent, VoteCheck, VoteWrite, VoteDelete,
           RecountLoad, ReadRules, Tally, Judge, queue
<1> QED BY <1>1, <1>2, <1>3, <1>4, <1>5, <1>6, <1>7, <1>8

\* A step of r leaves what the invariant says of the copies of a request that
\* does not move in it.
LEMMA OthersKept ==
    ASSUME IInv, NEW r \in Requests, NEW q \in Requests, Forward(r),
           /\ req'[q] = req[q] /\ local'[q] = local[q]
           /\ seen'[q] = seen[q] /\ doc'[q] = doc[q]
    PROVE  Remembered(q)' /\ Moderating(q)' /\ Counting(q)'
<1>1. Remembered(q) /\ Moderating(q) /\ Counting(q) /\ PlayedHadTrack
    BY DEF IInv, CopyInv
<1>2. \A s \in Songs :
         /\ song[s].status # "ABSENT" =>
               song'[s].status # "ABSENT" /\ (matched[s] => matched'[s])
         /\ song[s].status \notin Waiting => song'[s].status \notin Waiting
    BY DEF Forward
<1>3. Remembered(q)'
    BY <1>1, <1>2 DEF Remembered, OnAir
<1>4. Moderating(q)'
    <2>1. ASSUME req[q].pc \in {"demote", "save"} PROVE song[req[q].song].status # "ABSENT"
        <3>1. /\ req[q].song \in Songs
              /\ doc[q].status \in CanTransitionTo(seen[q][req[q].song].status)
            BY <1>1, <2>1 DEF Moderating
        <3>2. seen[q][req[q].song].status \in Status
            BY <3>1 DEF IInv, TypeOK, FlightOK, Doc
        <3> QED BY <1>1, <3>1, <3>2, TransitionFacts DEF Remembered
    <2>2. req[q].pc \in {"credit", "current"} =>
              req[q].song \in Songs /\ song[req[q].song].status # "ABSENT"
        BY <1>1 DEF Moderating, Waiting
    <2> QED BY <1>1, <1>2, <2>1, <2>2 DEF Moderating
<1>5. Counting(q)'
    BY <1>1 DEF Counting
<1> QED BY <1>3, <1>4, <1>5

\* A handler's step is invisible in the control state of the others.
LEMMA OneMoves ==
    ASSUME TypeOK, NEW r \in Requests, Step(r), NEW q \in Requests, q # r
    PROVE  /\ req'[q] = req[q] /\ local'[q] = local[q]
           /\ seen'[q] = seen[q] /\ doc'[q] = doc[q]
<1>. /\ req \in [Requests -> Request] /\ local \in [Requests -> Locals]
     /\ seen \in [Requests -> [Songs -> Doc]] /\ doc \in [Requests -> Doc]
    BY DEF TypeOK, FlightOK
<1>1. CASE Begin(r)
    BY <1>1 DEF Begin, SuggestCheck, BindTrack, ModerateLoad, PlayNextDemote,
           RosterChange, SetPremium, UpdateSettings, VoteLoad, Start, Load,
           SetLocal, flight
<1>2. CASE Continue(r)
    BY <1>2 DEF Continue, SuggestInsert, SendDemote, ModerateSave, ApproveCredit,
           SendCurrent, PlayNextPromote, VoteCheck, VoteWrite, VoteDelete,
           RecountLoad, ReadRules, Tally, Judge, TallySave, Goto, Load, SetLocal,
           Finish
<1>3. CASE Abort(r)
    BY <1>3 DEF Abort, Finish
<1> QED BY <1>1, <1>2, <1>3 DEF Step

\* An old copy only becomes a weaker statement when the songs move forward.
LEMMA StillRemembered ==
    ASSUME IInv, NEW r \in Requests, Forward(r),
           seen'[r] = seen[r], local'[r].todo \subseteq local[r].todo
    PROVE  Remembered(r)'
<1>1. Remembered(r) /\ PlayedHadTrack
    BY DEF IInv, CopyInv
<1> QED BY <1>1 DEF Forward, Remembered, OnAir

\* What a handler loads is what is stored.
LEMMA FreshlyLoaded ==
    ASSUME IInv, NEW r \in Requests, UNCHANGED <<song, matched>>,
           \A s \in Songs : \/ seen'[r][s] = song[s]
                            \/ seen'[r][s].status = "ABSENT" /\ s \notin local'[r].todo,
           \A s \in local'[r].todo : s \in Songs /\ song[s].status # "ABSENT"
    PROVE  Remembered(r)'
BY DEF IInv, PlayedHadTrack, Remembered, OnAir, Waiting

\* A handler that ends holds no copy.
LEMMA FinishedKept ==
    ASSUME TypeOK, NEW r \in Requests, Finish(r)
    PROVE  Remembered(r)' /\ Moderating(r)' /\ Counting(r)'
<1>1. /\ req'[r] = Idle /\ local'[r] = Blank
      /\ seen'[r] = NothingSeen /\ doc'[r] = NoDoc
    BY DEF Finish, TypeOK, FlightOK
<1>2. Remembered(r)'
    BY <1>1 DEF Remembered, NothingSeen, NoDoc, Waiting, OnAir, Blank
<1>3. Moderating(r)' /\ Counting(r)'
    BY <1>1 DEF Moderating, Counting, Idle, Blank
<1> QED BY <1>2, <1>3

\* A handler called in this step.
LEMMA BegunKept ==
    ASSUME IInv, NEW r \in Requests, Begin(r), Forward(r)
    PROVE  Remembered(r)' /\ Moderating(r)' /\ Counting(r)'
<1>. /\ TypeOK /\ Remembered(r)
     /\ req \in [Requests -> Request] /\ local \in [Requests -> Locals]
     /\ seen \in [Requests -> [Songs -> Doc]] /\ doc \in [Requests -> Doc]
     /\ song \in [Songs -> Doc]
    BY DEF IInv, CopyInv, TypeOK, FlightOK, StoredOK
<1>0. Counting(r)
    BY DEF IInv, CopyInv
<1>1. CASE UNCHANGED flight
    BY <1>1, OthersKept DEF flight
<1>2. ASSUME NEW op, NEW pc \in {"insert", "promote", "load"}, NEW s,
             Start(r, op, pc, s), pc = "load" => s = NoSong,
             UNCHANGED <<local, seen, doc>>
      PROVE  Remembered(r)' /\ Moderating(r)' /\ Counting(r)'
    <2>1. /\ req'[r].pc \in {"insert", "promote", "load"}
          /\ req'[r].pc = "load" => req'[r].song = NoSong
        BY <1>2 DEF Start
    <2>2. Remembered(r)'
        BY <1>2, StillRemembered
    <2> QED BY <2>1, <2>2 DEF Moderating, Counting
<1>3. CASE ModerateLoad(r)
    <2> PICK op \in DJOps, s \in Songs :
            /\ op = "sendNow" => matched[s]
            /\ Target[op] \in CanTransitionTo(song[s].status)
            /\ Start(r, op, IF op = "sendNow" THEN "demote" ELSE "save", s)
            /\ Load(r, [NothingSeen EXCEPT ![s] = song[s]],
                       [song[s] EXCEPT !.status = Target[op]])
            /\ UNCHANGED <<queue, people, vote, currentSong, credited, local>>
        BY <1>3 DEF ModerateLoad
    <2>1. /\ req'[r].op = op /\ req'[r].song = s
          /\ req'[r].pc = (IF op = "sendNow" THEN "demote" ELSE "save")
        BY DEF Start
    <2>2. /\ seen'[r] = [NothingSeen EXCEPT ![s] = song[s]]
          /\ doc'[r] = [song[s] EXCEPT !.status = Target[op]]
        BY DEF Load
    <2>3. seen'[r][s] = song[s] /\ \A t \in Songs : t # s => seen'[r][t].status = "ABSENT"
        BY <2>2 DEF NothingSeen, NoDoc
    <2>4. doc'[r].status = Target[op]
        BY <2>2 DEF Doc
    <2>5. Moderating(r)'
        BY <2>1, <2>3, <2>4 DEF Moderating, queue
    <2>6. Counting(r)'
        BY <2>1 DEF Counting
    <2>7. Remembered(r)'
        <3>1. req[r].pc = "idle"
            BY <1>3 DEF ModerateLoad, Free
        <3>2. local'[r].todo = {}
            BY <1>0, <3>1 DEF Counting
        <3>3. UNCHANGED <<song, matched>>
            BY DEF queue
        <3> QED BY <2>3, <3>2, <3>3, FreshlyLoaded
    <2> QED BY <2>5, <2>6, <2>7
<1>4. CASE VoteLoad(r)
    <2> PICK op \in {"vote", "unvote"}, s \in Songs, p \in Attendees, v \in {-1, 1} :
            /\ song[s].status # "ABSENT"
            /\ Start(r, op, "check", s)
            /\ SetLocal(r, [Blank EXCEPT !.who = p,
                                         !.value = IF op = "vote" THEN v ELSE 0])
            /\ Load(r, [NothingSeen EXCEPT ![s] = song[s]], song[s])
            /\ UNCHANGED <<queue, people, vote, currentSong, credited>>
        BY <1>4 DEF VoteLoad
    <2>1. req'[r].song = s /\ req'[r].pc = "check"
        BY DEF Start
    <2>2. seen'[r] = [NothingSeen EXCEPT ![s] = song[s]]
        BY DEF Load
    <2>3. seen'[r][s] = song[s] /\ \A t \in Songs : t # s => seen'[r][t].status = "ABSENT"
        BY <2>2 DEF NothingSeen, NoDoc
    <2>4. local'[r].todo = {}
        BY DEF SetLocal, Blank
    <2>5. Remembered(r)'
        BY <2>3, <2>4, FreshlyLoaded DEF queue
    <2> QED BY <2>1, <2>3, <2>5 DEF Moderating, Counting
<1> QED BY <1>1, <1>2, <1>3, <1>4 DEF Begin, SuggestCheck, BindTrack, PlayNextDemote,
            RosterChange, SetPremium, UpdateSettings, flight

\* A handler that goes on in this step, and keeps what it loaded.
LEMMA WentOn ==
    ASSUME IInv, NEW r \in Requests, Forward(r), NEW pc, Goto(r, pc),
           seen'[r] = seen[r], local'[r].todo \subseteq local[r].todo
    PROVE  /\ Remembered(r)'
           /\ req'[r].pc = pc /\ req'[r].op = req[r].op /\ req'[r].song = req[r].song
<1>1. req \in [Requests -> Request]
    BY DEF IInv, TypeOK, FlightOK
<1>2. req[r] \in Request
    BY <1>1
<1>3. req'[r] = [req[r] EXCEPT !.pc = pc]
    BY <1>1 DEF Goto
<1> QED BY <1>2, <1>3, StillRemembered DEF Request

\* A moderation handler that is resumed.
LEMMA ModerationKept ==
    ASSUME IInv, NEW r \in Requests, Forward(r),
           SendDemote(r) \/ ModerateSave(r)
    PROVE  Remembered(r)' /\ Moderating(r)' /\ Counting(r)'
<1>. /\ TypeOK /\ Remembered(r) /\ Moderating(r)
     /\ req \in [Requests -> Request] /\ song \in [Songs -> Doc]
    BY DEF IInv, CopyInv, TypeOK, FlightOK, StoredOK
<1>1. CASE SendDemote(r)
    <2>1. /\ req[r].pc = "demote" /\ Goto(r, "save")
          /\ UNCHANGED <<matched, local, seen, doc>>
        BY <1>1 DEF SendDemote, At
    <2>2. /\ Remembered(r)'
          /\ req'[r].pc = "save" /\ req'[r].op = req[r].op /\ req'[r].song = req[r].song
        BY <2>1, WentOn
    <2>3. Moderating(r)'
        BY <2>1, <2>2 DEF Moderating
    <2> QED BY <2>2, <2>3 DEF Counting
<1>2. CASE ModerateSave(r)
    <2>1. CASE Finish(r)
        BY <2>1, FinishedKept
    <2>2. ASSUME NEW pc \in {"credit", "current"}, Goto(r, pc),
                 pc = "current" => req[r].op = "sendNow",
                 UNCHANGED <<local, seen, doc>>
          PROVE  Remembered(r)' /\ Moderating(r)' /\ Counting(r)'
        <3>1. /\ Remembered(r)'
              /\ req'[r].pc = pc /\ req'[r].op = req[r].op /\ req'[r].song = req[r].song
            BY <2>2, WentOn
        <3> DEFINE s == req[r].song
        <3>2. /\ s \in Songs /\ seen[r][s].status \in Status
              /\ doc[r].status \in CanTransitionTo(seen[r][s].status)
              /\ req[r].op = "sendNow" => matched[s]
            BY <1>2 DEF ModerateSave, At, Moderating, TypeOK, FlightOK, Doc
        <3>3. song' = [song EXCEPT ![s] = Saved(song[s], seen[r][s], doc[r])]
              /\ UNCHANGED matched
            BY <1>2 DEF ModerateSave
        <3>4. song'[s].status \notin Waiting
            BY <3>2, <3>3, TransitionFacts, SavedStatus
        <3> HIDE DEF s
        <3>5. Moderating(r)'
            BY <2>2, <3>1, <3>2, <3>3, <3>4 DEF Moderating, s
        <3> QED BY <3>1, <3>5 DEF Counting
    <2> QED BY <1>2, <2>1, <2>2 DEF ModerateSave
<1> QED BY <1>1, <1>2

\* A vote handler, or a recount, that is resumed.
LEMMA CountingKept ==
    ASSUME IInv, NEW r \in Requests, Forward(r),
           \/ VoteCheck(r) \/ VoteWrite(r) \/ VoteDelete(r) \/ RecountLoad(r)
           \/ ReadRules(r) \/ Tally(r) \/ Judge(r) \/ TallySave(r)
    PROVE  Remembered(r)' /\ Moderating(r)' /\ Counting(r)'
<1>. /\ TypeOK /\ Remembered(r) /\ Counting(r)
     /\ req \in [Requests -> Request] /\ song \in [Songs -> Doc]
     /\ local \in [Requests -> Locals]
     /\ seen \in [Requests -> [Songs -> Doc]] /\ doc \in [Requests -> Doc]
    BY DEF IInv, CopyInv, TypeOK, FlightOK, StoredOK
<1>fin. CASE Finish(r)
    BY <1>fin, FinishedKept
<1>1. CASE VoteCheck(r)
    <2>1. ASSUME NEW pc \in {"write", "delete"}, Goto(r, pc), UNCHANGED <<seen, doc>>,
                 local'[r].todo = local[r].todo
          PROVE  Remembered(r)' /\ Moderating(r)' /\ Counting(r)'
        <3>1. /\ Remembered(r)' /\ req'[r].pc = pc /\ req'[r].song = req[r].song
            BY <2>1, WentOn
        <3>2. req[r].pc = "check"
            BY <1>1 DEF VoteCheck, At
        <3> QED BY <2>1, <3>1, <3>2 DEF Moderating, Counting
    <2>2. local[r] \in Locals
        OBVIOUS
    <2>3. ASSUME NEW a, NEW b, NEW c,
                 SetLocal(r, [local[r] EXCEPT !.premium = a, !.had = b, !.rules = c])
          PROVE  local'[r].todo = local[r].todo
        BY <2>2, <2>3 DEF SetLocal, Locals
    <2> QED BY <1>1, <1>fin, <2>1, <2>3 DEF VoteCheck
<1>2. CASE VoteWrite(r) \/ VoteDelete(r)
    <2>1. ASSUME NEW pc \in {"tally", "rules"}, Goto(r, pc), UNCHANGED <<local, seen, doc>>
          PROVE  Remembered(r)' /\ Moderating(r)' /\ Counting(r)'
        <3>1. /\ Remembered(r)' /\ req'[r].pc = pc /\ req'[r].song = req[r].song
            BY <2>1, WentOn
        <3>2. req[r].pc \in {"write", "delete"}
            BY <1>2 DEF VoteWrite, VoteDelete, At
        <3> QED BY <2>1, <3>1, <3>2 DEF Moderating, Counting
    <2> QED BY <1>2, <1>fin, <2>1 DEF VoteWrite, VoteDelete
<1>3. CASE RecountLoad(r)
    <2> DEFINE found == {s \in Songs : song[s].status \in Active}
    <2>1. /\ Goto(r, "rules") /\ SetLocal(r, [Blank EXCEPT !.todo = found])
          /\ Load(r, [s \in Songs |-> IF s \in found THEN song[s] ELSE NoDoc], NoDoc)
          /\ UNCHANGED queue
        BY <1>3 DEF RecountLoad
    <2>2. req'[r].pc = "rules" /\ req'[r].song = req[r].song
        BY <2>1 DEF Goto, Request
    <2>3. local'[r].todo = found
        BY <2>1 DEF SetLocal, Blank
    <2>4. seen'[r] = [s \in Songs |-> IF s \in found THEN song[s] ELSE NoDoc]
        BY <2>1 DEF Load
    <2>5. Remembered(r)'
        <3>1. \A s \in Songs : IF s \in local'[r].todo THEN seen'[r][s] = song[s]
                               ELSE seen'[r][s].status = "ABSENT"
            BY <2>3, <2>4 DEF NoDoc
        <3>2. \A s \in local'[r].todo : s \in Songs /\ song[s].status # "ABSENT"
            BY <2>3 DEF Active
        <3>3. UNCHANGED <<song, matched>>
            BY <2>1 DEF queue
        <3> QED BY <3>1, <3>2, <3>3, FreshlyLoaded
    <2>6. req[r].song = NoSong
        BY <1>3 DEF RecountLoad, At, Counting
    <2> QED BY <2>2, <2>5, <2>6 DEF Moderating, Counting
<1>4. CASE ReadRules(r)
    <2>1. CASE /\ Goto(r, "tally") /\ UNCHANGED <<seen, doc>>
               /\ SetLocal(r, [local[r] EXCEPT !.rules = settings])
        <3>1. local'[r].todo = local[r].todo
            BY <2>1 DEF SetLocal, Locals
        <3>2. Remembered(r)' /\ req'[r].pc = "tally" /\ req'[r].song = req[r].song
            BY <2>1, <3>1, WentOn
        <3>3. req[r].pc = "rules"
            BY <1>4 DEF ReadRules, At
        <3> QED BY <2>1, <3>2, <3>3 DEF Moderating, Counting
    <2> QED BY <1>4, <1>fin, <2>1 DEF ReadRules
<1>5. CASE Tally(r)
    <2> PICK s \in Songs :
           /\ IF req[r].song = NoSong THEN s \in local[r].todo ELSE s = req[r].song
           /\ req' = [req EXCEPT ![r].pc = "judge", ![r].song = s]
           /\ doc' = [doc EXCEPT ![r] =
                        [status |-> seen[r][s].status,
                         score  |-> Weighted(s, 1, local[r].rules),
                         downs  |-> Weighted(s, -1, local[r].rules)]]
           /\ UNCHANGED <<queue, local, seen>>
        BY <1>5 DEF Tally
    <2>1. req'[r].pc = "judge" /\ req'[r].song = s
        BY DEF Request
    <2>2. doc'[r].status = seen[r][s].status
        OBVIOUS
    <2>3. req[r].pc = "tally"
        BY <1>5 DEF Tally, At
    <2>4. seen[r][s].status # "ABSENT"
        BY <2>3 DEF Counting, Remembered
    <2>5. Remembered(r)'
        BY StillRemembered
    <2> QED BY <2>1, <2>2, <2>4, <2>5 DEF Moderating, Counting
<1>6. CASE Judge(r)
    <2>1. /\ Goto(r, "store") /\ UNCHANGED <<local, seen>>
          /\ doc' = [doc EXCEPT ![r].status = Judged(doc[r], local[r].rules)]
          /\ req[r].pc = "judge"
        BY <1>6 DEF Judge, At
    <2>2. Remembered(r)' /\ req'[r].pc = "store" /\ req'[r].song = req[r].song
        BY <2>1, WentOn
    <2>3. doc[r] \in Doc /\ local[r].rules \in SettingsType
        BY DEF Locals
    <2>4. doc'[r].status = Judged(doc[r], local[r].rules)
        BY <2>1, <2>3 DEF Doc
    <2>5. Judged(doc[r], local[r].rules) \in {doc[r].status, "APPROVED", "REJECTED"}
        BY <2>3, JudgedIsVerdict
    <2> QED BY <2>1, <2>2, <2>4, <2>5 DEF Moderating, Counting
<1>7. CASE TallySave(r)
    <2> DEFINE s == req[r].song
               left == local[r].todo \ {s}
    <2>1. CASE /\ req' = [req EXCEPT ![r].pc = "tally", ![r].song = NoSong]
               /\ SetLocal(r, [local[r] EXCEPT !.todo = left])
               /\ Load(r, [seen[r] EXCEPT ![s] = NoDoc], NoDoc)
        <3>1. req'[r].pc = "tally" /\ req'[r].song = NoSong
            BY <2>1 DEF Request
        <3>2. local'[r].todo = left
            BY <2>1 DEF SetLocal, Locals
        <3>3. /\ seen'[r][s].status = "ABSENT" \/ s \notin Songs
              /\ \A t \in Songs : t # s => seen'[r][t] = seen[r][t]
            BY <2>1 DEF Load, NoDoc
        <3>4. \A t \in Songs :
                 /\ song[t].status # "ABSENT" =>
                       song'[t].status # "ABSENT" /\ (matched[t] => matched'[t])
                 /\ song[t].status \notin Waiting => song'[t].status \notin Waiting
                 /\ seen[r][t].status \in OnAir => song[t].status # "ABSENT"
            BY DEF Forward, Remembered, OnAir
        <3> HIDE DEF s
        <3>5. Remembered(r)'
            <4> SUFFICES ASSUME NEW t \in Songs
                PROVE /\ seen'[r][t].status # "ABSENT" => song'[t].status # "ABSENT"
                      /\ seen'[r][t].status \notin Waiting => song'[t].status \notin Waiting
                      /\ seen'[r][t].status \in OnAir => matched'[t]
                      /\ t \in local'[r].todo => seen'[r][t].status # "ABSENT"
                BY DEF Remembered
            <4>1. CASE t = s
                BY <3>2, <3>3, <4>1 DEF Waiting, OnAir
            <4>2. CASE t # s
                BY <3>2, <3>3, <3>4, <4>2 DEF Remembered
            <4> QED BY <4>1, <4>2
        <3> QED BY <3>1, <3>5, ConstantsAssumption DEF Moderating, Counting
    <2> QED BY <1>7, <1>fin, <2>1 DEF TallySave
<1> QED BY <1>1, <1>2, <1>3, <1>4, <1>5, <1>6, <1>7

\* Whatever request r does, its own copies keep telling the truth.
LEMMA SelfKept ==
    ASSUME IInv, NEW r \in Requests, Step(r), Forward(r)
    PROVE  Remembered(r)' /\ Moderating(r)' /\ Counting(r)'
<1>1. CASE Begin(r)
    BY <1>1, BegunKept
<1>2. CASE SuggestInsert(r) \/ ApproveCredit(r) \/ SendCurrent(r)
           \/ PlayNextPromote(r) \/ Abort(r)
    BY <1>2, FinishedKept DEF SuggestInsert, ApproveCredit, SendCurrent,
       PlayNextPromote, Abort, IInv
<1> QED BY <1>1, <1>2, ModerationKept, CountingKept DEF Step, Continue

\* The song a request turns to exists, or is one that nobody else has named.
LEMMA NewlyNamed ==
    ASSUME IInv, NEW r \in Requests, Step(r)
    PROVE  /\ \/ req'[r].song \in {req[r].song, NoSong}
              \/ req'[r].song \in Songs /\ song[req'[r].song].status # "ABSENT"
              \/ req'[r].song \in Songs /\ Fresh(req'[r].song)
           /\ req'[r].pc = "insert" =>
                req'[r].song \in Songs /\ Fresh(req'[r].song) /\ UNCHANGED song
<1>. /\ req \in [Requests -> Request] /\ req[r] \in Request
     /\ \A s \in Songs : song[s].status \in Status
    BY DEF IInv, TypeOK, FlightOK, StoredOK, Doc
<1>1. CASE SuggestCheck(r)
    BY <1>1 DEF SuggestCheck, Start, queue
<1>2. CASE ModerateLoad(r)
    BY <1>2, TransitionFacts DEF ModerateLoad, Start
<1>3. CASE VoteLoad(r)
    BY <1>3 DEF VoteLoad, Start
<1>4. CASE BindTrack(r) \/ SetPremium(r)
    BY <1>4 DEF BindTrack, SetPremium, flight, Free
<1>5. CASE PlayNextDemote(r) \/ RosterChange(r) \/ UpdateSettings(r)
    BY <1>5 DEF PlayNextDemote, RosterChange, UpdateSettings, Start, Free
<1>6. CASE Finish(r)
    BY <1>6 DEF Finish, Idle
<1>7. ASSUME NEW pc \in Pc \ {"insert"}, Goto(r, pc)
      PROVE  req'[r].song = req[r].song /\ req'[r].pc # "insert"
    BY <1>7 DEF Goto, Request
<1>8. CASE Tally(r)
    <2> PICK s \in Songs :
           /\ IF req[r].song = NoSong THEN s \in local[r].todo ELSE s = req[r].song
           /\ req' = [req EXCEPT ![r].pc = "judge", ![r].song = s]
        BY <1>8 DEF Tally
    <2>1. req'[r].song = s /\ req'[r].pc = "judge"
        BY DEF Request
    <2>2. req[r].pc = "tally" /\ Counting(r) /\ Remembered(r)
        BY <1>8 DEF Tally, At, IInv, CopyInv
    <2>3. song[s].status # "ABSENT"
        BY <2>2 DEF Counting, Remembered
    <2> QED BY <2>1, <2>3
<1>9. CASE TallySave(r)
    <2>1. CASE req' = [req EXCEPT ![r].pc = "tally", ![r].song = NoSong]
        BY <2>1 DEF Request
    <2> QED BY <1>6, <1>9, <2>1 DEF TallySave
<1>10. CASE \/ SendDemote(r) \/ ModerateSave(r) \/ VoteCheck(r) \/ VoteWrite(r)
            \/ VoteDelete(r) \/ RecountLoad(r) \/ ReadRules(r) \/ Judge(r)
    <2>1. Finish(r) \/ \E pc \in Pc \ {"insert"} : Goto(r, pc)
        BY <1>10 DEF SendDemote, ModerateSave, VoteCheck, VoteWrite, VoteDelete,
           RecountLoad, ReadRules, Judge, Pc
    <2> QED BY <1>6, <1>7, <2>1
<1>11. CASE SuggestInsert(r) \/ ApproveCredit(r) \/ SendCurrent(r)
            \/ PlayNextPromote(r) \/ Abort(r)
    BY <1>6, <1>11 DEF SuggestInsert, ApproveCredit, SendCurrent, PlayNextPromote, Abort
<1> QED BY <1>1, <1>2, <1>3, <1>4, <1>5, <1>8, <1>9, <1>10, <1>11
        DEF Step, Begin, Continue

\* Two suggestions never take the same identifier.
LEMMA ReservedKept ==
    ASSUME IInv, NEW r \in Requests, Step(r), Forward(r), NEW q \in Requests
    PROVE  Reserved(q)'
<1>1. \A p \in Requests : p # r => req'[p] = req[p]
    BY OneMoves DEF IInv
<1>2. Reserved(q) /\ Reserved(r)
    BY DEF IInv, CopyInv
<1>3. CASE q = r
    <2> SUFFICES ASSUME req'[r].pc = "insert"
                 PROVE  /\ req'[r].song \in Songs
                        /\ song'[req'[r].song].status = "ABSENT"
                        /\ \A p \in Requests : req'[p].song = req'[r].song => p = r
        BY <1>3 DEF Reserved
    <2>1. req'[r].song \in Songs /\ Fresh(req'[r].song) /\ UNCHANGED song
        BY NewlyNamed
    <2> QED BY <1>1, <2>1 DEF Fresh
<1>4. CASE q # r
    <2> SUFFICES ASSUME req[q].pc = "insert"
                 PROVE  /\ req[q].song \in Songs
                        /\ song'[req[q].song].status = "ABSENT"
                        /\ \A p \in Requests : req'[p].song = req[q].song => p = q
        BY <1>1, <1>4 DEF Reserved
    <2>1. /\ req[q].song \in Songs /\ song[req[q].song].status = "ABSENT"
          /\ \A p \in Requests : req[p].song = req[q].song => p = q
        BY <1>2 DEF Reserved
    <2>2. song'[req[q].song].status = "ABSENT"
        BY <1>4, <2>1 DEF Forward
    <2>3. req'[r].song # req[q].song
        BY <1>4, <2>1, NewlyNamed, ConstantsAssumption DEF Fresh
    <2> QED BY <1>1, <2>1, <2>2, <2>3
<1> QED BY <1>3, <1>4

\* currentSongId keeps naming a song that was sent.
LEMMA CurrentKept ==
    ASSUME IInv, NEW r \in Requests, Step(r), Forward(r)
    PROVE  CurrentWasSent'
<1>1. currentSong \in Songs \cup {NoSong} /\ CurrentWasSent /\ Moderating(r)
    BY DEF IInv, CopyInv, TypeOK, StoredOK
<1>2. CASE currentSong' \in {currentSong, NoSong}
    BY <1>1, <1>2 DEF CurrentWasSent, Forward, Waiting
<1>3. CASE SendCurrent(r)
    BY <1>1, <1>3 DEF SendCurrent, At, Moderating, CurrentWasSent, Waiting, queue
<1>4. Step(r) => currentSong' \in {currentSong, NoSong} \/ SendCurrent(r)
    BY DEF Step, Begin, Continue, Abort, SuggestCheck, BindTrack, ModerateLoad,
           PlayNextDemote, RosterChange, SetPremium, UpdateSettings, VoteLoad,
           SuggestInsert, SendDemote, ModerateSave, ApproveCredit, PlayNextPromote,
           VoteCheck, VoteWrite, VoteDelete, RecountLoad, ReadRules, Tally, Judge,
           TallySave
<1> QED BY <1>2, <1>3, <1>4

-----------------------------------------------------------------------------
(* The theorems that rest on the inductive invariant. *)

\* Every step of a handler keeps the invariant.
LEMMA InvariantStep ==
    ASSUME IInv, NEW r \in Requests, Step(r)
    PROVE  IInv'
<1>1. Forward(r)
    BY StepForward
<1>2. TypeOK'
    BY BeginType, ContinueType, FinishOK
       DEF Step, Abort, IInv, TypeOK, StoredOK, queue, people
<1>3. CopyInv'
    <2> SUFFICES ASSUME NEW q \in Requests
                 PROVE  Remembered(q)' /\ Moderating(q)' /\ Counting(q)' /\ Reserved(q)'
        BY DEF CopyInv
    <2>1. CASE q = r
        BY <1>1, <2>1, SelfKept, ReservedKept
    <2>2. CASE q # r
        <3>1. /\ req'[q] = req[q] /\ local'[q] = local[q]
              /\ seen'[q] = seen[q] /\ doc'[q] = doc[q]
            BY <2>2, OneMoves DEF IInv
        <3> QED BY <1>1, <3>1, OthersKept, ReservedKept
    <2> QED BY <2>1, <2>2
<1>4. PlayedHadTrack'
    BY <1>1 DEF IInv, PlayedHadTrack, Forward, OnAir
<1>5. CurrentWasSent'
    BY <1>1, CurrentKept
<1> QED BY <1>2, <1>3, <1>4, <1>5 DEF IInv

\* The invariant holds at first.
LEMMA InitInvariant == Init => IInv
<1> SUFFICES ASSUME Init PROVE IInv
    OBVIOUS
<1>1. CopyInv
    BY DEF Init, CopyInv, Remembered, Moderating, Counting, Reserved, Idle,
           Blank, NothingSeen, NoDoc, OnAir, Waiting
<1>2. PlayedHadTrack /\ CurrentWasSent
    BY DEF Init, PlayedHadTrack, CurrentWasSent, NoDoc
<1> QED BY <1>1, <1>2, InitType DEF IInv

\* A stuttering step keeps the invariant.
LEMMA InvariantStutter == IInv /\ UNCHANGED vars => IInv'
BY DEF vars, IInv, TypeOK, StoredOK, FlightOK, CopyInv, Remembered, Moderating,
       Counting, Reserved, PlayedHadTrack, CurrentWasSent

\* The inductive invariant holds in every reachable state.
THEOREM CopiesTellTheTruth == Spec => []IInv
<1>1. IInv /\ [Next]_vars => IInv'
    BY InvariantStep, InvariantStutter DEF Next, Step
<1> QED BY <1>1, InitInvariant, PTL DEF Spec

\* No song is or was on air without a fingerprint match, for any number of
\* handlers in flight and any failures.
THEOREM PlayedHadTrackAlways == Spec => []PlayedHadTrack
<1>1. IInv => PlayedHadTrack
    BY DEF IInv
<1> QED BY <1>1, CopiesTellTheTruth, PTL

\* currentSongId always names a matched song that left the pending list.
THEOREM CurrentWasSentAlways == Spec => []CurrentWasSent
<1>1. IInv => CurrentWasSent
    BY DEF IInv
<1> QED BY <1>1, CopiesTellTheTruth, PTL

\* No save, however stale, puts a song back on the pending list.
THEOREM NeverBackToPendingAlways == Spec => NeverBackToPending
<1>1. IInv /\ [Next]_vars => [\A s \in Songs : song[s].status \notin Waiting
                                  => song'[s].status \notin Waiting]_vars
    <2> SUFFICES ASSUME IInv, Next
                 PROVE  \A s \in Songs : song[s].status \notin Waiting
                                             => song'[s].status \notin Waiting
        OBVIOUS
    <2> QED BY StepForward DEF Next, Step, Forward
<1> QED BY <1>1, CopiesTellTheTruth, PTL DEF Spec, NeverBackToPending

-----------------------------------------------------------------------------
(***************************************************************************)
(* One request at a time that may promote a song, or approve one, is       *)
(* enough for the queue to keep a single PLAYING song, or to credit an     *)
(* approval once, with any number of other handlers in flight.  Two of     *)
(* them are not: the run queue_two_djs.                                    *)
(***************************************************************************)
Promoters == {"sendNow", "playNext"}
SinglePromoter ==
    \A q, r \in Requests :
        Ops[q] \cap Promoters # {} /\ Ops[r] \cap Promoters # {} => q = r
SingleApprover ==
    \A q, r \in Requests : "approve" \in Ops[q] /\ "approve" \in Ops[r] => q = r

\* A request only runs operations it may run.
Permitted == \A r \in Requests : req[r].op = "none" \/ req[r].op \in Ops[r]

\* A promoter about to write PLAYING has seen to it that nothing else is.
Cleared(r) ==
    /\ req[r].pc = "promote" =>
        req[r].op = "playNext" /\ \A t \in Songs : song[t].status # "PLAYING"
    /\ req[r].pc = "save" /\ req[r].op = "sendNow" =>
        \A t \in Songs : t # req[r].song => song[t].status # "PLAYING"

PromotionInv ==
    /\ IInv /\ Permitted /\ AtMostOnePlaying
    /\ \A r \in Requests : Cleared(r)

\* An approval that has not been credited yet is the first of its song.
Uncredited(r) ==
    /\ req[r].pc = "credit" => req[r].op = "approve"
    /\ req[r].pc \in {"save", "credit"} /\ req[r].op = "approve" =>
        credited[req[r].song] = 0

ApprovalInv ==
    /\ IInv /\ Permitted /\ CreditedOnce
    /\ \A r \in Requests : Uncredited(r)

\* How a step changes the control state of its request.
LEMMA ControlStep ==
    ASSUME TypeOK, NEW r \in Requests, Step(r)
    PROVE  \/ req'[r] = req[r]
           \/ req'[r] = Idle
           \/ req'[r].op = req[r].op /\ req'[r].pc # "promote"
           \/ req'[r].op \in Ops[r] /\ Begin(r)
<1>. req \in [Requests -> Request] /\ req[r] \in Request
    BY DEF TypeOK, FlightOK
<1>1. CASE Finish(r)
    BY <1>1 DEF Finish
<1>2. ASSUME NEW pc \in Pc \ {"promote"}, Goto(r, pc)
      PROVE  req'[r].op = req[r].op /\ req'[r].pc # "promote"
    BY <1>2 DEF Goto, Request
<1>3. CASE Begin(r)
    <2>1. ASSUME NEW op \in Ops[r], NEW pc, NEW s, Start(r, op, pc, s)
          PROVE  req'[r].op \in Ops[r]
        BY <2>1 DEF Start
    <2>2. CASE ModerateLoad(r)
        BY <1>3, <2>1, <2>2 DEF ModerateLoad, Free
    <2>3. CASE VoteLoad(r)
        BY <1>3, <2>1, <2>3 DEF VoteLoad, Free
    <2>4. CASE SuggestCheck(r) \/ PlayNextDemote(r)
        BY <1>3, <2>1, <2>4 DEF SuggestCheck, PlayNextDemote, Free
    <2>5. CASE BindTrack(r) \/ SetPremium(r)
        BY <2>5 DEF BindTrack, SetPremium, flight
    <2>6. CASE RosterChange(r) \/ UpdateSettings(r)
        BY <1>3, <2>1, <2>6 DEF RosterChange, UpdateSettings, Free
    <2> QED BY <1>3, <2>2, <2>3, <2>4, <2>5, <2>6 DEF Begin
<1>4. CASE Tally(r) \/ TallySave(r)
    <2>1. ASSUME NEW pc \in {"judge", "tally"}, NEW s,
                 req' = [req EXCEPT ![r].pc = pc, ![r].song = s]
          PROVE  req'[r].op = req[r].op /\ req'[r].pc # "promote"
        BY <2>1 DEF Request
    <2> QED BY <1>1, <1>4, <2>1 DEF Tally, TallySave
<1>5. CASE Continue(r) /\ ~Tally(r) /\ ~TallySave(r)
    <2>1. Finish(r) \/ \E pc \in Pc \ {"promote"} : Goto(r, pc)
        BY <1>5 DEF Continue, SuggestInsert, SendDemote, ModerateSave, ApproveCredit,
           SendCurrent, PlayNextPromote, VoteCheck, VoteWrite, VoteDelete,
           RecountLoad, ReadRules, Judge, Pc
    <2> QED BY <1>1, <1>2, <2>1
<1>6. CASE Abort(r)
    BY <1>1, <1>6 DEF Abort
<1> QED BY <1>3, <1>4, <1>5, <1>6 DEF Step

\* A handler is started only by a request that may run it.
LEMMA PermittedStep ==
    ASSUME TypeOK, Permitted, NEW r \in Requests, Step(r)
    PROVE  Permitted'
<1>1. \A q \in Requests : q # r => req'[q] = req[q]
    BY OneMoves
<1>2. req'[r].op = "none" \/ req'[r].op \in Ops[r]
    BY ControlStep DEF Permitted, Idle
<1> QED BY <1>1, <1>2 DEF Permitted

\* A song starts PLAYING in sendNow's save and playNextSong's last write only.
LEMMA NewlyPlaying ==
    ASSUME IInv, NEW r \in Requests, Step(r), NEW s \in Songs,
           song'[s].status = "PLAYING", song[s].status # "PLAYING"
    PROVE  \/ ModerateSave(r) /\ req[r].op = "sendNow" /\ s = req[r].song
           \/ PlayNextPromote(r) /\ \A t \in Songs : t # s => song'[t] = song[t]
<1>. /\ song \in [Songs -> Doc] /\ Moderating(r) /\ Counting(r)
    BY DEF IInv, CopyInv, TypeOK, StoredOK
<1>1. CASE UNCHANGED song
    BY <1>1
<1>2. CASE SuggestInsert(r)
    BY <1>2 DEF SuggestInsert, Doc
<1>3. ASSUME NEW kept, song' = Demoted(kept) PROVE FALSE
    BY <1>3 DEF Demoted, Doc
<1>4. CASE ModerateSave(r)
    <2>1. /\ song' = [song EXCEPT ![req[r].song] =
                        Saved(song[req[r].song], seen[r][req[r].song], doc[r])]
          /\ req[r].op \in DJOps /\ doc[r].status = Target[req[r].op]
        BY <1>4 DEF ModerateSave, At, Moderating
    <2>2. s = req[r].song
        BY <2>1
    <2>3. doc[r].status = "PLAYING"
        BY <2>1, <2>2, SavedStatus
    <2> QED BY <1>4, <2>1, <2>2, <2>3 DEF DJOps, Target
<1>5. CASE PlayNextPromote(r)
    <2>1. PICK p \in Songs : song' = [song EXCEPT ![p].status = "PLAYING"]
        BY <1>1, <1>5 DEF PlayNextPromote, Playable
    <2>2. s = p
        BY <2>1
    <2> QED BY <1>5, <2>1, <2>2
<1>6. CASE TallySave(r)
    <2>1. /\ song' = [song EXCEPT ![req[r].song] =
                        Saved(song[req[r].song], seen[r][req[r].song], doc[r])]
          /\ doc[r].status \in {seen[r][req[r].song].status, "APPROVED", "REJECTED"}
        BY <1>6 DEF TallySave, At, Counting
    <2> QED BY <2>1, SavedStatus
<1>7. Step(r) => \/ UNCHANGED song
                 \/ SuggestInsert(r) \/ ModerateSave(r)
                 \/ PlayNextPromote(r) \/ TallySave(r)
                 \/ \E kept : song' = Demoted(kept)
    BY DEF Step, Begin, Continue, Abort, SuggestCheck, ModerateLoad, PlayNextDemote,
           RosterChange, SetPremium, UpdateSettings, VoteLoad, SendDemote, BindTrack,
           ApproveCredit, SendCurrent, VoteCheck, VoteWrite, VoteDelete,
           RecountLoad, ReadRules, Tally, Judge, queue
<1> QED BY <1>1, <1>2, <1>3, <1>4, <1>5, <1>6, <1>7

\* Only the two promoters reach the points where a song starts PLAYING.
LEMMA PromotersOnly ==
    ASSUME PromotionInv, NEW q \in Requests,
           req[q].pc = "promote" \/ (req[q].pc = "save" /\ req[q].op = "sendNow")
    PROVE  Ops[q] \cap Promoters # {}
BY DEF PromotionInv, Cleared, Permitted, Promoters

\* Every step keeps the songs cleared for the only promoter.
LEMMA PromotionStep ==
    ASSUME SinglePromoter, PromotionInv, NEW r \in Requests, Step(r)
    PROVE  PromotionInv'
<1> DEFINE about(q) == \/ req[q].pc = "promote"
                       \/ req[q].pc = "save" /\ req[q].op = "sendNow"
<1>. /\ IInv /\ TypeOK /\ Permitted /\ AtMostOnePlaying
     /\ \A q \in Requests : Cleared(q)
     /\ req \in [Requests -> Request] /\ req[r] \in Request /\ song \in [Songs -> Doc]
    BY DEF PromotionInv, IInv, TypeOK, FlightOK, StoredOK
<1>1. IInv' /\ Permitted'
    BY InvariantStep, PermittedStep
<1>2. ASSUME NEW s \in Songs, song'[s].status = "PLAYING", song[s].status # "PLAYING"
      PROVE  about(r) /\ \A t \in Songs : song'[t].status = "PLAYING" => t = s
    <2>1. CASE ModerateSave(r) /\ req[r].op = "sendNow" /\ s = req[r].song
        <3>1. \A t \in Songs : t # s => song'[t] = song[t] /\ song[t].status # "PLAYING"
            BY <2>1 DEF ModerateSave, At, Cleared
        <3> QED BY <2>1, <3>1 DEF ModerateSave, At
    <2>2. CASE PlayNextPromote(r) /\ \A t \in Songs : t # s => song'[t] = song[t]
        BY <2>2 DEF PlayNextPromote, At, Cleared
    <2> QED BY <1>2, <2>1, <2>2, NewlyPlaying
<1>3. AtMostOnePlaying'
    BY <1>2 DEF AtMostOnePlaying
<1>4. ASSUME NEW q \in Requests PROVE Cleared(q)'
    <2>1. CASE q # r
        <3>1. req'[q] = req[q]
            BY <2>1, OneMoves
        <3>2. CASE about(q)
            <4>1. Ops[q] \cap Promoters # {}
                BY <3>2, PromotersOnly
            <4>2. ~about(r)
                BY <2>1, <4>1, PromotersOnly DEF SinglePromoter
            <4>3. \A s \in Songs : song'[s].status = "PLAYING" => song[s].status = "PLAYING"
                BY <1>2, <4>2
            <4> QED BY <3>1, <4>3 DEF Cleared
        <3>3. CASE ~about(q)
            BY <3>1, <3>3 DEF Cleared
        <3> QED BY <3>2, <3>3
    <2>2. CASE q = r
        <3>1. CASE PlayNextDemote(r)
            <4>1. req'[r] = [op |-> "playNext", pc |-> "promote", song |-> NoSong]
                BY <3>1 DEF PlayNextDemote, Start
            <4>2. \A t \in Songs : song'[t].status # "PLAYING"
                BY <3>1, ConstantsAssumption DEF PlayNextDemote, Demoted, Doc
            <4> QED BY <2>2, <4>1, <4>2 DEF Cleared
        <3>2. CASE SendDemote(r)
            <4>1. req'[r].pc = "save" /\ req'[r].song = req[r].song
                BY <3>2 DEF SendDemote, Goto, Request
            <4>2. \A t \in Songs : t # req[r].song => song'[t].status # "PLAYING"
                BY <3>2 DEF SendDemote, Demoted, Doc
            <4> QED BY <2>2, <4>1, <4>2 DEF Cleared
        <3>3. CASE BindTrack(r)
            BY <2>2, <3>3 DEF BindTrack, flight, Cleared
        <3>4. \/ req'[r].pc \notin {"promote", "save"}
              \/ req'[r].pc = "save" /\ req'[r].op # "sendNow"
              \/ req'[r] = req[r] /\ UNCHANGED song
              \/ PlayNextDemote(r) \/ SendDemote(r) \/ BindTrack(r)
            <4>1. CASE ModerateLoad(r)
                BY <4>1 DEF ModerateLoad, Start
            <4>2. CASE VoteLoad(r) \/ SuggestCheck(r)
                <5>1. ASSUME NEW op, NEW pc \in {"check", "insert"}, NEW s,
                             Start(r, op, pc, s)
                      PROVE  req'[r].pc \notin {"promote", "save"}
                    BY <5>1 DEF Start
                <5> QED BY <4>2, <5>1 DEF VoteLoad, SuggestCheck
            <4>3. CASE RosterChange(r) \/ UpdateSettings(r) \/ SetPremium(r)
                <5>1. ASSUME NEW op, Start(r, op, "load", NoSong)
                      PROVE  req'[r].pc = "load"
                    BY <5>1 DEF Start
                <5> QED BY <4>3, <5>1 DEF RosterChange, UpdateSettings, SetPremium,
                                          flight, queue
            <4>4. CASE Finish(r)
                BY <4>4 DEF Finish, Idle
            <4>5. ASSUME NEW pc \in Pc \ {"promote", "save"}, Goto(r, pc)
                  PROVE  req'[r].pc \notin {"promote", "save"}
                BY <4>5 DEF Goto, Request
            <4>6. CASE Tally(r) \/ TallySave(r)
                <5>1. ASSUME NEW pc \in {"judge", "tally"}, NEW s,
                             req' = [req EXCEPT ![r].pc = pc, ![r].song = s]
                      PROVE  req'[r].pc = pc
                    BY <5>1 DEF Request
                <5> QED BY <4>4, <4>6, <5>1 DEF Tally, TallySave
            <4>7. CASE Continue(r) /\ ~Tally(r) /\ ~TallySave(r) /\ ~SendDemote(r)
                <5>1. Finish(r) \/ \E pc \in Pc \ {"promote", "save"} : Goto(r, pc)
                    BY <4>7 DEF Continue, SuggestInsert, ModerateSave, ApproveCredit,
                       SendCurrent, PlayNextPromote, VoteCheck, VoteWrite, VoteDelete,
                       RecountLoad, ReadRules, Judge, Pc
                <5> QED BY <4>4, <4>5, <5>1
            <4>8. CASE Abort(r)
                BY <4>4, <4>8 DEF Abort
            <4> QED BY <4>1, <4>2, <4>3, <4>6, <4>7, <4>8 DEF Step, Begin
        <3>5. ASSUME req'[r] = req[r], UNCHANGED song PROVE Cleared(r)'
            BY <3>5 DEF Cleared
        <3>6. ASSUME \/ req'[r].pc \notin {"promote", "save"}
                     \/ req'[r].pc = "save" /\ req'[r].op # "sendNow"
              PROVE  Cleared(r)'
            BY <3>6 DEF Cleared
        <3> QED BY <2>2, <3>1, <3>2, <3>3, <3>4, <3>5, <3>6
    <2> QED BY <2>1, <2>2
<1> QED BY <1>1, <1>3, <1>4 DEF PromotionInv

\* With one promoter at a time the queue never has two PLAYING songs.
THEOREM OnePromoterOnePlaying == SinglePromoter => (Spec => []AtMostOnePlaying)
<1> SUFFICES ASSUME SinglePromoter PROVE Spec => []AtMostOnePlaying
    OBVIOUS
<1>1. Init => Permitted /\ AtMostOnePlaying /\ \A r \in Requests : Cleared(r)
    BY DEF Init, Permitted, AtMostOnePlaying, Cleared, Idle, NoDoc
<1>2. Init => PromotionInv
    BY <1>1, InitInvariant DEF PromotionInv
<1>3. PromotionInv /\ [Next]_vars => PromotionInv'
    <2>1. ASSUME PromotionInv, UNCHANGED vars PROVE PromotionInv'
        <3>1. IInv'
            BY <2>1, InvariantStutter DEF PromotionInv
        <3> QED BY <2>1, <3>1 DEF PromotionInv, Permitted, AtMostOnePlaying,
                                  Cleared, vars
    <2> QED BY <2>1, PromotionStep DEF Next, Step
<1>4. PromotionInv => AtMostOnePlaying
    BY DEF PromotionInv
<1> QED BY <1>2, <1>3, <1>4, PTL DEF Spec

\* How a step changes an approval that is under way.
LEMMA ApprovalControl ==
    ASSUME TypeOK, NEW r \in Requests, Step(r),
           req'[r].pc = "credit" \/ (req'[r].pc = "save" /\ req'[r].op = "approve")
    PROVE  \/ req'[r] = req[r]
           \/ req'[r].pc = "save" /\ ModerateLoad(r)
           \/ req'[r].pc = "credit" /\ ModerateSave(r) /\ req[r].op = "approve"
                /\ req'[r].op = "approve" /\ req'[r].song = req[r].song
           \/ SendDemote(r) /\ req'[r].op = req[r].op
<1>. req \in [Requests -> Request] /\ req[r] \in Request
    BY DEF TypeOK, FlightOK
<1>1. ASSUME NEW op, NEW pc \in Pc \ {"credit", "save"}, NEW s, Start(r, op, pc, s)
      PROVE  FALSE
    BY <1>1 DEF Start
<1>2. ASSUME NEW pc \in Pc \ {"credit", "save"}, Goto(r, pc)
      PROVE  FALSE
    BY <1>2 DEF Goto, Request
<1>3. ASSUME Finish(r) PROVE FALSE
    BY <1>3 DEF Finish, Idle
<1>4. CASE Begin(r) /\ ~ModerateLoad(r)
    <2>1. UNCHANGED req \/ \E op, s : \E pc \in Pc \ {"credit", "save"} :
                                         Start(r, op, pc, s)
        BY <1>4 DEF Begin, SuggestCheck, BindTrack, PlayNextDemote, RosterChange,
           SetPremium, UpdateSettings, VoteLoad, flight, Pc
    <2> QED BY <1>1, <2>1
<1>5. CASE ModerateLoad(r)
    <2>1. req'[r].pc # "credit"
        BY <1>5 DEF ModerateLoad, Start
    <2> QED BY <1>5, <2>1
<1>6. CASE SendDemote(r)
    BY <1>6 DEF SendDemote, Goto, Request
<1>7. CASE ModerateSave(r)
    <2>1. CASE req[r].op = "approve" /\ Goto(r, "credit")
        <3>1. req'[r] = [req[r] EXCEPT !.pc = "credit"]
            BY <2>1 DEF Goto
        <3> QED BY <1>7, <2>1, <3>1 DEF Request
    <2> QED BY <1>2, <1>3, <1>7, <2>1 DEF ModerateSave, Pc
<1>8. CASE Tally(r) \/ TallySave(r)
    <2>1. ASSUME NEW pc \in {"judge", "tally"}, NEW s,
                 req' = [req EXCEPT ![r].pc = pc, ![r].song = s]
          PROVE  FALSE
        BY <2>1 DEF Request
    <2> QED BY <1>3, <1>8, <2>1 DEF Tally, TallySave
<1>9. CASE \/ SuggestInsert(r) \/ ApproveCredit(r) \/ SendCurrent(r)
           \/ PlayNextPromote(r) \/ VoteCheck(r) \/ VoteWrite(r) \/ VoteDelete(r)
           \/ RecountLoad(r) \/ ReadRules(r) \/ Judge(r) \/ Abort(r)
    <2>1. Finish(r) \/ \E pc \in Pc \ {"credit", "save"} : Goto(r, pc)
        BY <1>9 DEF SuggestInsert, ApproveCredit, SendCurrent, PlayNextPromote,
           VoteCheck, VoteWrite, VoteDelete, RecountLoad, ReadRules, Judge, Abort, Pc
    <2> QED BY <1>2, <1>3, <2>1
<1> QED BY <1>4, <1>5, <1>6, <1>7, <1>8, <1>9 DEF Step, Continue

\* Every step credits an approval once.
LEMMA ApprovalStep ==
    ASSUME SingleApprover, ApprovalInv, NEW r \in Requests, Step(r)
    PROVE  ApprovalInv'
<1>. /\ IInv /\ TypeOK /\ Permitted /\ CreditedOnce
     /\ \A q \in Requests : Uncredited(q)
     /\ Moderating(r) /\ Forward(r)
     /\ credited \in [Songs -> Nat] /\ \A s \in Songs : song[s].status \in Status
    BY StepForward DEF ApprovalInv, IInv, CopyInv, TypeOK, StoredOK, Doc
<1>1. IInv' /\ Permitted'
    BY InvariantStep, PermittedStep
<1>2. ~ApproveCredit(r) => UNCHANGED credited
    BY DEF Step, Begin, Continue, Abort, SuggestCheck, BindTrack, ModerateLoad,
           PlayNextDemote, RosterChange, SetPremium, UpdateSettings, VoteLoad,
           SuggestInsert, SendDemote, ModerateSave, SendCurrent, PlayNextPromote,
           VoteCheck, VoteWrite, VoteDelete, RecountLoad, ReadRules, Tally, Judge,
           TallySave
<1>3. ASSUME ApproveCredit(r)
      PROVE  /\ req[r].pc = "credit" /\ req[r].op = "approve"
             /\ req[r].song \in Songs /\ song[req[r].song].status \notin Waiting
             /\ credited[req[r].song] = 0 /\ UNCHANGED song
             /\ credited' = [credited EXCEPT ![req[r].song] = @ + 1]
    BY <1>3 DEF ApproveCredit, At, Uncredited, Moderating, queue
<1>4. CreditedOnce'
    <2>1. CASE ApproveCredit(r)
        <3> SUFFICES ASSUME NEW s \in Songs
                     PROVE  /\ credited'[s] <= 1
                            /\ credited'[s] = 1 => song[s].status \notin Waiting
            BY <1>3, <2>1 DEF CreditedOnce, Waiting
        <3>1. CASE s = req[r].song
            BY <1>3, <2>1, <3>1
        <3>2. CASE s # req[r].song
            BY <1>3, <2>1, <3>2 DEF CreditedOnce, Waiting
        <3> QED BY <3>1, <3>2
    <2>2. CASE ~ApproveCredit(r)
        BY <1>2, <2>2 DEF CreditedOnce, Forward, Waiting
    <2> QED BY <2>1, <2>2
<1>5. ASSUME NEW q \in Requests PROVE Uncredited(q)'
    <2>1. CASE q # r
        <3>1. req'[q] = req[q]
            BY <2>1, OneMoves
        <3>2. ASSUME req[q].op = "approve" PROVE UNCHANGED credited
            <4>1. "approve" \in Ops[q]
                BY <3>2 DEF Permitted
            <4>2. ~ApproveCredit(r)
                <5>1. ASSUME ApproveCredit(r) PROVE "approve" \in Ops[r]
                    BY <1>3, <5>1 DEF Permitted
                <5> QED BY <2>1, <4>1, <5>1 DEF SingleApprover
            <4> QED BY <1>2, <4>2
        <3>3. Uncredited(q)
            OBVIOUS
        <3> QED BY <3>1, <3>2, <3>3 DEF Uncredited
    <2>2. CASE q = r
        <3> SUFFICES ASSUME \/ req'[r].pc = "credit"
                            \/ req'[r].pc = "save" /\ req'[r].op = "approve"
                     PROVE  /\ req'[r].pc = "credit" => req'[r].op = "approve"
                            /\ req'[r].op = "approve" => credited'[req'[r].song] = 0
            BY <2>2 DEF Uncredited
        <3>1. ~ApproveCredit(r)
            <4>1. ASSUME ApproveCredit(r) PROVE req'[r].pc = "idle"
                BY <4>1 DEF ApproveCredit, Finish, Idle, TypeOK, FlightOK
            <4> QED BY <4>1
        <3>2. UNCHANGED credited /\ Uncredited(r)
            BY <1>2, <3>1
        <3>3. CASE req'[r] = req[r]
            BY <3>2, <3>3 DEF Uncredited
        <3>4. CASE req'[r].pc = "save" /\ ModerateLoad(r)
            <4>1. PICK op \in DJOps, s \in Songs :
                     /\ Target[op] \in CanTransitionTo(song[s].status)
                     /\ Start(r, op, IF op = "sendNow" THEN "demote" ELSE "save", s)
                BY <3>4 DEF ModerateLoad
            <4>2. req'[r].op = op /\ req'[r].song = s
                BY <4>1 DEF Start, TypeOK, FlightOK
            <4>3. op = "approve" => song[s].status = "PENDING"
                BY <4>1 DEF Target, CanTransitionTo, Status
            <4>4. song[s].status = "PENDING" => credited[s] = 0
                BY <4>1 DEF CreditedOnce
            <4> QED BY <3>2, <3>4, <4>2, <4>3, <4>4
        <3>5. CASE req'[r].pc = "credit" /\ ModerateSave(r) /\ req[r].op = "approve"
                    /\ req'[r].op = "approve" /\ req'[r].song = req[r].song
            BY <3>2, <3>5 DEF ModerateSave, At, Uncredited
        <3>6. CASE SendDemote(r) /\ req'[r].op = req[r].op
            <4>1. req[r].op = "sendNow" /\ req'[r].pc = "save"
                BY <3>6 DEF SendDemote, At, Moderating, Goto, TypeOK, FlightOK, Request
            <4> QED BY <3>6, <4>1
        <3> QED BY <3>3, <3>4, <3>5, <3>6, ApprovalControl
    <2> QED BY <2>1, <2>2
<1> QED BY <1>1, <1>4, <1>5 DEF ApprovalInv

\* With one approver at a time an approval is credited once.
THEOREM OneApproverCreditedOnce == SingleApprover => (Spec => []CreditedOnce)
<1> SUFFICES ASSUME SingleApprover PROVE Spec => []CreditedOnce
    OBVIOUS
<1>1. Init => Permitted /\ CreditedOnce /\ \A r \in Requests : Uncredited(r)
    BY DEF Init, Permitted, CreditedOnce, Uncredited, Idle
<1>2. Init => ApprovalInv
    BY <1>1, InitInvariant DEF ApprovalInv
<1>3. ApprovalInv /\ [Next]_vars => ApprovalInv'
    <2>1. ASSUME ApprovalInv, UNCHANGED vars PROVE ApprovalInv'
        <3>1. IInv'
            BY <2>1, InvariantStutter DEF ApprovalInv
        <3> QED BY <2>1, <3>1 DEF ApprovalInv, Permitted, CreditedOnce,
                                  Uncredited, vars
    <2> QED BY <2>1, ApprovalStep DEF Next, Step
<1>4. ApprovalInv => CreditedOnce
    BY DEF ApprovalInv
<1> QED BY <1>2, <1>3, <1>4, PTL DEF Spec

=============================================================================
