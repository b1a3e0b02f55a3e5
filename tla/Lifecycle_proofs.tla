--------------------------- MODULE Lifecycle_proofs ---------------------------
(***************************************************************************)
(* What the queue keeps when one request at a time decides about songs:    *)
(* it implements SongLifecycle, its tallies count the vote rows, and every *)
(* verdict of the votes is applied.                                        *)
(***************************************************************************)
EXTENDS EventQueue_proofs

\* Handlers that neither save a copy of a song nor move one that is in the list.
Bystanders == {"suggest", "bind", "socketJoin", "setPremium"}

\* All others belong to one request; any number of suggestions, matches, joins
\* over the socket and premium switches may go on beside it.
Keeper(k) == \A r \in Requests \ {k} : Ops[r] \subseteq Bystanders
SingleKeeper == \E k \in Requests : Keeper(k)

\* The songs whose loaded copy still decides what a handler will write.
Reading == {"check", "write", "delete", "rules", "tally", "judge", "store"}
Holds(r, s) ==
    \/ req[r].pc \in {"demote", "save"} /\ s = req[r].song
    \/ req[r].pc \in Reading /\ (s = req[r].song \/ s \in local[r].todo)

\* A copy is the stored song, and a verdict a move of the state machine.
Exact(r) ==
    /\ \A s \in Songs : Holds(r, s) => seen[r][s] = song[s]
    /\ req[r].pc = "store" =>
        LET old == seen[r][req[r].song].status
        IN  doc[r].status # old => doc[r].status \in CanTransitionTo(old)

Beside(k) == \A r \in Requests \ {k} : req[r].pc \in {"idle", "insert"}

KeeperInv(k) == PromotionInv /\ Beside(k) /\ Exact(k)

-----------------------------------------------------------------------------
(* Steps of the others and of the keeper.                                  *)

LEMMA BesideStep ==
    ASSUME NEW k \in Requests, Keeper(k), TypeOK, Beside(k),
           NEW r \in Requests \ {k}, Step(r)
    PROVE  /\ req'[r].pc \in {"idle", "insert"}
           /\ UNCHANGED <<vote, settings>>
           /\ \A p \in Attendees : roster[p] = "in" => roster'[p] = "in"
           /\ UNCHANGED song \/ SuggestInsert(r)
<1>. /\ req \in [Requests -> Request] /\ req[r] \in Request
     /\ roster \in [Attendees -> {"out", "in", "banned"}]
     /\ req[r].pc \in {"idle", "insert"} /\ Ops[r] \subseteq Bystanders
    BY DEF TypeOK, FlightOK, StoredOK, Beside, Keeper
<1>1. CASE SuggestCheck(r)
    BY <1>1 DEF SuggestCheck, Start, queue, people
<1>2. CASE SuggestInsert(r)
    <2>1. req'[r].pc = "idle"
        BY <1>2 DEF SuggestInsert, Finish, Idle
    <2> QED BY <1>2, <2>1 DEF SuggestInsert, people
<1>3. CASE BindTrack(r) \/ SetPremium(r)
    BY <1>3 DEF BindTrack, SetPremium, flight, people, queue
<1>4. CASE RosterChange(r)
    <2>1. PICK p \in Attendees, op \in {"join", "socketJoin", "leave", "ban"} :
            /\ Free(r, op)
            /\ op \in {"join", "socketJoin"} => roster[p] # "banned"
            /\ roster' = [roster EXCEPT ![p] =
                            IF op = "ban" \/ @ = "banned" THEN "banned"
                            ELSE IF op = "leave" THEN "out" ELSE "in"]
            /\ IF op \in Recounting THEN Start(r, op, "load", NoSong) ELSE UNCHANGED req
            /\ UNCHANGED <<queue, vote, premium, settings, currentSong, credited,
                           local, seen, doc>>
        BY <1>4 DEF RosterChange
    <2>2. op = "socketJoin"
        BY <2>1 DEF Free, Bystanders
    <2> QED BY <2>1, <2>2 DEF Recounting, queue
<1>5. CASE Abort(r)
    BY <1>5 DEF Abort, Finish, Idle, people, queue
<1>6. ~ModerateLoad(r) /\ ~PlayNextDemote(r) /\ ~UpdateSettings(r) /\ ~VoteLoad(r)
    BY DEF ModerateLoad, PlayNextDemote, UpdateSettings, VoteLoad, Free, Bystanders, DJOps
<1>7. Continue(r) => SuggestInsert(r)
    BY DEF Continue, SendDemote, ModerateSave, ApproveCredit, SendCurrent,
       PlayNextPromote, VoteCheck, VoteWrite, VoteDelete, RecountLoad, ReadRules,
       Tally, Judge, TallySave, At
<1> QED BY <1>1, <1>2, <1>3, <1>4, <1>5, <1>6, <1>7 DEF Step, Begin

\* An insert is of a song that no other handler has loaded.
LEMMA InsertIsUnheld ==
    ASSUME IInv, NEW k \in Requests, NEW r \in Requests \ {k}, SuggestInsert(r)
    PROVE  \A s \in Songs : Holds(k, s) => song'[s] = song[s]
<1>1. /\ req[r].song \in Songs /\ song[req[r].song].status = "ABSENT"
      /\ req[k].song # req[r].song
    BY DEF SuggestInsert, At, IInv, CopyInv, Reserved
<1>2. \A s \in local[k].todo : s \in Songs => song[s].status # "ABSENT"
    BY DEF IInv, CopyInv, Remembered
<1>3. song \in [Songs -> Doc]
    BY DEF IInv, TypeOK, StoredOK
<1>4. \A s \in Songs : s # req[r].song => song'[s] = song[s]
    BY <1>3 DEF SuggestInsert
<1> QED BY <1>1, <1>2, <1>4 DEF Holds

\* What a request holds stays exact when it takes up nothing new.
LEMMA StillExact ==
    ASSUME NEW k \in Requests, Exact(k),
           \A s \in Songs : Holds(k, s)' =>
               Holds(k, s) /\ song'[s] = song[s] /\ seen'[k][s] = seen[k][s],
           req'[k].pc # "store"
    PROVE  Exact(k)'
BY DEF Exact

LEMMA NothingHeld ==
    ASSUME NEW k \in Requests, req'[k].pc \notin Reading \cup {"demote", "save"}
    PROVE  Exact(k)'
BY DEF Exact, Holds, Reading

\* The keeper begins.
LEMMA ExactBegins ==
    ASSUME IInv, NEW k \in Requests, Exact(k), Begin(k)
    PROVE  Exact(k)'
<1>. /\ req \in [Requests -> Request] /\ local \in [Requests -> Locals]
     /\ seen \in [Requests -> [Songs -> Doc]] /\ doc \in [Requests -> Doc]
     /\ song \in [Songs -> Doc] /\ Counting(k)
    BY DEF IInv, TypeOK, FlightOK, StoredOK, CopyInv
<1>1. CASE UNCHANGED <<song, req, local, seen, doc>>
    BY <1>1 DEF Exact, Holds
<1>2. ASSUME NEW op, NEW pc \in {"insert", "promote", "load"}, NEW s, Start(k, op, pc, s)
      PROVE  Exact(k)'
    <2>1. req'[k].pc = pc
        BY <1>2 DEF Start
    <2> QED BY <2>1, NothingHeld DEF Reading
<1>3. CASE ModerateLoad(k)
    <2> PICK op \in DJOps, s \in Songs :
            /\ Free(k, op)
            /\ Start(k, op, IF op = "sendNow" THEN "demote" ELSE "save", s)
            /\ Load(k, [NothingSeen EXCEPT ![s] = song[s]],
                       [song[s] EXCEPT !.status = Target[op]])
            /\ UNCHANGED <<queue, people, vote, currentSong, credited, local>>
        BY <1>3 DEF ModerateLoad
    <2>1. req'[k].song = s /\ req'[k].pc \in {"demote", "save"}
        BY DEF Start
    <2>2. seen'[k][s] = song[s]
        BY DEF Load, NothingSeen
    <2> QED BY <2>1, <2>2 DEF Exact, Holds, Reading, queue
<1>4. CASE VoteLoad(k)
    <2> PICK op \in {"vote", "unvote"}, s \in Songs, p \in Attendees, v \in {-1, 1} :
            /\ Start(k, op, "check", s)
            /\ SetLocal(k, [Blank EXCEPT !.who = p,
                                         !.value = IF op = "vote" THEN v ELSE 0])
            /\ Load(k, [NothingSeen EXCEPT ![s] = song[s]], song[s])
            /\ UNCHANGED <<queue, people, vote, currentSong, credited>>
        BY <1>4 DEF VoteLoad
    <2>1. req'[k].song = s /\ req'[k].pc = "check"
        BY DEF Start
    <2>2. seen'[k][s] = song[s]
        BY DEF Load, NothingSeen
    <2>3. local'[k].todo = {}
        BY DEF SetLocal, Blank
    <2> QED BY <2>1, <2>2, <2>3 DEF Exact, Holds, queue
<1> QED BY <1>1, <1>2, <1>3, <1>4 DEF Begin, SuggestCheck, BindTrack, PlayNextDemote,
            RosterChange, SetPremium, UpdateSettings, flight, queue

\* The keeper goes on.
LEMMA ExactContinues ==
    ASSUME IInv, NEW k \in Requests, Exact(k), Continue(k)
    PROVE  Exact(k)'
<1>. /\ req \in [Requests -> Request] /\ req[k] \in Request
     /\ local \in [Requests -> Locals] /\ local[k] \in Locals
     /\ seen \in [Requests -> [Songs -> Doc]] /\ seen[k] \in [Songs -> Doc]
     /\ doc \in [Requests -> Doc] /\ doc[k] \in Doc
     /\ song \in [Songs -> Doc] /\ Counting(k) /\ Moderating(k)
    BY DEF IInv, TypeOK, FlightOK, StoredOK, CopyInv
<1>end. ASSUME Finish(k) PROVE Exact(k)'
    <2>1. req'[k].pc = "idle"
        BY <1>end DEF Finish, Idle
    <2> QED BY <2>1, NothingHeld DEF Reading
<1>go. ASSUME NEW pc \in Pc, Goto(k, pc)
       PROVE  req'[k].pc = pc /\ req'[k].song = req[k].song
    BY <1>go DEF Goto, Request
<1>1. CASE SuggestInsert(k) \/ ApproveCredit(k) \/ SendCurrent(k) \/ PlayNextPromote(k)
    BY <1>1, <1>end DEF SuggestInsert, ApproveCredit, SendCurrent, PlayNextPromote
<1>2. CASE SendDemote(k)
    <2>1. /\ req[k].pc = "demote" /\ req'[k].pc = "save" /\ req'[k].song = req[k].song
          /\ seen' = seen
        BY <1>2, <1>go DEF SendDemote, At, Pc
    <2>2. \A s \in Songs : s = req[k].song => song'[s] = song[s]
        BY <1>2 DEF SendDemote, Demoted
    <2> QED BY <2>1, <2>2, StillExact DEF Holds, Reading
<1>3. CASE ModerateSave(k)
    <2>1. Finish(k) \/ Goto(k, "credit") \/ Goto(k, "current")
        BY <1>3 DEF ModerateSave
    <2>2. CASE Goto(k, "credit") \/ Goto(k, "current")
        BY <2>2, <1>go, NothingHeld DEF Reading, Pc
    <2> QED BY <1>end, <2>1, <2>2
<1>4. CASE VoteCheck(k) \/ VoteWrite(k) \/ VoteDelete(k)
    <2>1. CASE Finish(k)
        BY <2>1, <1>end
    <2>2. CASE ~Finish(k)
        <3>1. PICK pc \in {"write", "delete", "tally", "rules"} : Goto(k, pc)
            BY <1>4, <2>2 DEF VoteCheck, VoteWrite, VoteDelete
        <3>2. /\ req[k].pc \in Reading /\ local'[k].todo = local[k].todo
              /\ seen' = seen /\ song' = song
            <4>1. CASE VoteCheck(k)
                <5>1. /\ req[k].pc = "check" /\ song' = song /\ seen' = seen
                      /\ \/ UNCHANGED local
                         \/ \E pay, had, rules :
                              SetLocal(k, [local[k] EXCEPT !.premium = pay, !.had = had,
                                                           !.rules = rules])
                    BY <2>2, <4>1 DEF VoteCheck, At, queue
                <5>2. local'[k].todo = local[k].todo
                    BY <5>1 DEF SetLocal, Locals
                <5> QED BY <5>1, <5>2 DEF Reading
            <4> QED BY <1>4, <2>2, <4>1 DEF VoteWrite, VoteDelete, At, Reading, queue
        <3>3. req'[k].pc = pc /\ req'[k].song = req[k].song
            BY <3>1, <1>go DEF Pc
        <3> QED BY <3>2, <3>3, StillExact DEF Holds
    <2> QED BY <2>1, <2>2
<1>5. CASE RecountLoad(k)
    <2> DEFINE found == {s \in Songs : song[s].status \in Active}
    <2>1. /\ req[k].pc = "load" /\ Goto(k, "rules") /\ song' = song
          /\ local'[k].todo = found
          /\ \A s \in found : seen'[k][s] = song[s]
        BY <1>5 DEF RecountLoad, At, SetLocal, Load, queue, Blank
    <2>2. req'[k].pc = "rules" /\ req'[k].song = req[k].song
        BY <2>1, <1>go DEF Pc
    <2>3. req[k].song = NoSong
        BY <2>1 DEF Counting
    <2> QED BY <2>1, <2>2, <2>3, ConstantsAssumption DEF Exact, Holds
<1>6. CASE ReadRules(k)
    <2>1. CASE ~Finish(k)
        <3>1. /\ req[k].pc = "rules" /\ Goto(k, "tally")
              /\ SetLocal(k, [local[k] EXCEPT !.rules = settings])
              /\ UNCHANGED <<seen, song>>
            BY <1>6, <2>1 DEF ReadRules, At, queue
        <3>2. local'[k].todo = local[k].todo
            BY <3>1 DEF SetLocal, Locals
        <3>3. req'[k].pc = "tally" /\ req'[k].song = req[k].song
            BY <3>1, <1>go DEF Pc
        <3> QED BY <3>1, <3>2, <3>3, StillExact DEF Holds, Reading
    <2> QED BY <2>1, <1>end
<1>7. CASE Tally(k)
    <2> PICK s \in Songs :
            /\ IF req[k].song = NoSong THEN s \in local[k].todo ELSE s = req[k].song
            /\ req' = [req EXCEPT ![k].pc = "judge", ![k].song = s]
            /\ req[k].pc = "tally"
            /\ UNCHANGED <<song, local, seen>>
        BY <1>7 DEF Tally, At, queue
    <2>1. req'[k].pc = "judge" /\ req'[k].song = s
        BY DEF Request
    <2> QED BY <2>1, StillExact DEF Holds, Reading
<1>8. CASE Judge(k)
    <2> DEFINE s == req[k].song
               verdict == Judged(doc[k], local[k].rules)
    <2>1. /\ req[k].pc = "judge" /\ Goto(k, "store") /\ UNCHANGED <<song, local, seen>>
          /\ doc' = [doc EXCEPT ![k].status = verdict]
        BY <1>8 DEF Judge, At, queue
    <2>2. req'[k].pc = "store" /\ req'[k].song = s
        BY <2>1, <1>go DEF Pc
    <2>3. doc'[k].status = verdict /\ s \in Songs /\ doc[k].status = seen[k][s].status
        BY <2>1 DEF Doc, Counting
    <2>4. verdict # doc[k].status => verdict \in CanTransitionTo(doc[k].status)
        BY DEF Judged, Active, CanTransitionTo
    <2>5. \A t \in Songs : Holds(k, t)' => seen'[k][t] = song'[t]
        BY <2>1, <2>2 DEF Holds, Reading, Exact
    <2> QED BY <2>1, <2>2, <2>3, <2>4, <2>5 DEF Exact
<1>9. CASE TallySave(k)
    <2>1. CASE ~Finish(k)
        <3> DEFINE s == req[k].song
                   left == local[k].todo \ {s}
        <3>1. /\ req[k].pc = "store" /\ s \in Songs
              /\ song' = [song EXCEPT ![s] = Saved(song[s], seen[k][s], doc[k])]
              /\ req' = [req EXCEPT ![k].pc = "tally", ![k].song = NoSong]
              /\ SetLocal(k, [local[k] EXCEPT !.todo = left])
              /\ Load(k, [seen[k] EXCEPT ![s] = NoDoc], NoDoc)
            BY <1>9, <2>1 DEF TallySave, At, Counting
        <3>2. req'[k].pc = "tally" /\ req'[k].song = NoSong
            BY <3>1 DEF Request
        <3>3. local'[k].todo = left
            BY <3>1 DEF SetLocal, Locals
        <3>4. seen'[k] = [seen[k] EXCEPT ![s] = NoDoc]
            BY <3>1 DEF Load
        <3>5. \A t \in left : t \in Songs => song'[t] = song[t] /\ seen'[k][t] = seen[k][t]
            BY <3>1, <3>4
        <3>6. \A t \in Songs : Holds(k, t)' => t \in left
            BY <3>2, <3>3, ConstantsAssumption DEF Holds
        <3> QED BY <3>1, <3>2, <3>5, <3>6, StillExact DEF Holds, Reading
    <2> QED BY <2>1, <1>end
<1> QED BY <1>1, <1>2, <1>3, <1>4, <1>5, <1>6, <1>7, <1>8, <1>9 DEF Continue

\* One step of anybody.
LEMMA KeeperStep ==
    ASSUME NEW k \in Requests, Keeper(k), KeeperInv(k), NEW r \in Requests, Step(r)
    PROVE  KeeperInv(k)'
<1>. IInv /\ TypeOK /\ PromotionInv /\ Beside(k) /\ Exact(k)
    BY DEF KeeperInv, PromotionInv, IInv
<1>1. SinglePromoter
    BY DEF SinglePromoter, Keeper, Bystanders, Promoters
<1>2. PromotionInv'
    BY <1>1, PromotionStep
<1>3. Beside(k)'
    <2> SUFFICES ASSUME NEW q \in Requests \ {k} PROVE req'[q].pc \in {"idle", "insert"}
        BY DEF Beside
    <2>1. CASE q = r
        BY <2>1, BesideStep
    <2>2. CASE q # r
        BY <2>2, OneMoves DEF Beside
    <2> QED BY <2>1, <2>2
<1>4. Exact(k)'
    <2>1. CASE r = k
        <3>1. ASSUME Abort(k) PROVE Exact(k)'
            <4>1. req'[k].pc = "idle"
                BY <3>1 DEF Abort, Finish, Idle, TypeOK, FlightOK
            <4> QED BY <4>1, NothingHeld DEF Reading
        <3> QED BY <2>1, <3>1, ExactBegins, ExactContinues DEF Step
    <2>2. CASE r # k
        <3>1. /\ req'[k] = req[k] /\ local'[k] = local[k] /\ seen'[k] = seen[k]
              /\ doc'[k] = doc[k]
            BY <2>2, OneMoves
        <3>2. \A s \in Songs : Holds(k, s) => song'[s] = song[s]
            BY <2>2, BesideStep, InsertIsUnheld
        <3> QED BY <3>1, <3>2 DEF Exact, Holds
    <2> QED BY <2>1, <2>2
<1> QED BY <1>2, <1>3, <1>4 DEF KeeperInv

LEMMA KeeperInit ==
    ASSUME NEW k \in Requests, Init
    PROVE  KeeperInv(k)
<1>1. Permitted /\ AtMostOnePlaying /\ \A r \in Requests : Cleared(r)
    BY DEF Init, Permitted, AtMostOnePlaying, Cleared, Idle, NoDoc
<1>2. Beside(k) /\ Exact(k)
    BY DEF Init, Beside, Exact, Holds, Idle, Reading
<1> QED BY <1>1, <1>2, InitInvariant DEF KeeperInv, PromotionInv

LEMMA KeeperStutter ==
    ASSUME NEW k \in Requests, KeeperInv(k), UNCHANGED vars
    PROVE  KeeperInv(k)'
<1>1. IInv'
    BY InvariantStutter DEF KeeperInv, PromotionInv
<1>2. PromotionInv'
    BY <1>1 DEF KeeperInv, PromotionInv, Permitted, AtMostOnePlaying, Cleared, vars
<1>3. Beside(k)' /\ Exact(k)'
    BY DEF KeeperInv, Beside, Exact, Holds, vars
<1> QED BY <1>2, <1>3 DEF KeeperInv

-----------------------------------------------------------------------------
(* The refinement: what each step does to the songs, in SongLifecycle.     *)

StatusesKept == \A s \in Songs : song'[s].status = song[s].status

\* Statuses that stay map to a status function that stays.
LEMMA SameStatuses ==
    ASSUME StatusesKept, UNCHANGED matched
    PROVE  UNCHANGED Lifecycle!vars
BY DEF StatusesKept, Lifecycle!vars

\* A single status that moves is a Move.
LEMMA OneMove ==
    ASSUME NEW s \in Songs, NEW from, NEW to,
           song[s].status \in from, song'[s].status = to,
           \A t \in Songs : t # s => song'[t].status = song[t].status
    PROVE  Lifecycle!Move(s, from, to)
BY DEF Lifecycle!Move

\* The moves of a suggested song are steps of SongLifecycle.
LEMMA MovesOfOne ==
    ASSUME NEW s \in Songs, UNCHANGED matched,
           \A t \in Songs : t # s => song'[t].status = song[t].status
    PROVE  /\ song[s].status = "PENDING" /\ song'[s].status = "APPROVED"
                => Lifecycle!Next
           /\ song[s].status \in {"PENDING", "APPROVED", "PLAYING"}
                /\ song'[s].status = "REJECTED" => Lifecycle!Next
           /\ song[s].status = "PLAYING" /\ song'[s].status \in {"PLAYED", "SKIPPED"}
                => Lifecycle!Next
           /\ song[s].status = "APPROVED" /\ song'[s].status = "PLAYING" /\ matched[s]
                /\ (\A t \in Songs : song[t].status # "PLAYING") => Lifecycle!Next
<1>1. ASSUME song[s].status = "PENDING", song'[s].status = "APPROVED"
      PROVE  Lifecycle!Next
    <2>1. Lifecycle!Move(s, {"PENDING"}, "APPROVED")
        BY <1>1, OneMove
    <2>2. Lifecycle!Approve(s)
        BY <2>1 DEF Lifecycle!Approve
    <2> QED BY <2>2 DEF Lifecycle!Next
<1>2. ASSUME song[s].status \in {"PENDING", "APPROVED", "PLAYING"},
             song'[s].status = "REJECTED"
      PROVE  Lifecycle!Next
    <2>1. Lifecycle!Move(s, {"PENDING", "APPROVED", "PLAYING"}, "REJECTED")
        BY <1>2, OneMove
    <2>2. Lifecycle!Reject(s)
        BY <2>1 DEF Lifecycle!Reject
    <2> QED BY <2>2 DEF Lifecycle!Next
<1>3. ASSUME NEW to \in {"PLAYED", "SKIPPED"}, song[s].status = "PLAYING",
             song'[s].status = to
      PROVE  Lifecycle!Next
    <2>1. Lifecycle!Move(s, {"PLAYING"}, to)
        BY <1>3, OneMove
    <2>2. Lifecycle!Stop(s)
        BY <2>1 DEF Lifecycle!Stop
    <2> QED BY <2>2 DEF Lifecycle!Next
<1>4. ASSUME song[s].status = "APPROVED", song'[s].status = "PLAYING", matched[s],
             \A t \in Songs : song[t].status # "PLAYING"
      PROVE  Lifecycle!Next
    <2>1. Lifecycle!Move(s, {"APPROVED"}, "PLAYING")
        BY <1>4, OneMove
    <2>2. Lifecycle!Play(s)
        BY <1>4, <2>1 DEF Lifecycle!Play
    <2> QED BY <2>2 DEF Lifecycle!Next
<1> QED BY <1>1, <1>2, <1>3, <1>4

\* A demotion takes the song that is PLAYING, if any, off the air.
LEMMA DemotionIsStop ==
    ASSUME TypeOK, AtMostOnePlaying, NEW kept, song' = Demoted(kept), UNCHANGED matched
    PROVE  [Lifecycle!Next]_(Lifecycle!vars)
<1>. song \in [Songs -> Doc]
    BY DEF TypeOK, StoredOK
<1>1. CASE \E s \in Songs : s # kept /\ song[s].status = "PLAYING"
    <2> PICK s \in Songs : s # kept /\ song[s].status = "PLAYING"
        BY <1>1
    <2>1. song'[s].status = "PLAYED"
        BY DEF Demoted, Doc
    <2>2. \A t \in Songs : t # s => song'[t].status = song[t].status
        BY DEF AtMostOnePlaying, Demoted
    <2> QED BY <2>1, <2>2, MovesOfOne
<1>2. CASE ~ \E s \in Songs : s # kept /\ song[s].status = "PLAYING"
    <2>1. StatusesKept
        BY <1>2 DEF Demoted, StatusesKept
    <2> QED BY <2>1, SameStatuses
<1> QED BY <1>1, <1>2

\* The save of a moderated song is the transition that was asked for.
LEMMA ModerationIsMove ==
    ASSUME NEW k \in Requests, KeeperInv(k), ModerateSave(k)
    PROVE  Lifecycle!Next
<1> DEFINE s == req[k].song
           from == song[s].status
<1>. IInv /\ Moderating(k) /\ Cleared(k) /\ Exact(k) /\ song \in [Songs -> Doc]
    BY DEF KeeperInv, PromotionInv, IInv, CopyInv, TypeOK, StoredOK
<1>1. /\ req[k].pc = "save" /\ s \in Songs /\ req[k].op \in DJOps
      /\ song' = [song EXCEPT ![s] = Saved(song[s], seen[k][s], doc[k])]
      /\ doc[k].status = Target[req[k].op]
      /\ doc[k].status \in CanTransitionTo(from)
      /\ seen[k][s] = song[s]
      /\ UNCHANGED matched
    BY DEF ModerateSave, At, Moderating, Exact, Holds
<1>2. from \in Status /\ doc[k].status # from
    BY <1>1, TransitionFacts DEF Doc
<1>3. song'[s].status = Target[req[k].op]
    BY <1>1, <1>2, SavedStatus
<1>4. \A t \in Songs : t # s => song'[t].status = song[t].status
    BY <1>1
<1>5. Target[req[k].op] \in CanTransitionTo(from)
    BY <1>1
<1>6. CASE req[k].op # "sendNow"
    <2>1. \/ from = "PENDING" /\ song'[s].status = "APPROVED"
          \/ from \in {"PENDING", "APPROVED", "PLAYING"} /\ song'[s].status = "REJECTED"
          \/ from = "PLAYING" /\ song'[s].status \in {"PLAYED", "SKIPPED"}
        BY <1>1, <1>3, <1>5, <1>6 DEF DJOps, Target, CanTransitionTo
    <2> HIDE DEF s
    <2> QED BY <1>1, <1>4, <2>1, MovesOfOne
<1>7. CASE req[k].op = "sendNow"
    <2>1. from = "APPROVED" /\ song'[s].status = "PLAYING" /\ matched[s]
        BY <1>1, <1>3, <1>5, <1>7 DEF Target, CanTransitionTo, Moderating
    <2>2. \A t \in Songs : song[t].status # "PLAYING"
        BY <1>1, <1>7, <2>1 DEF Cleared
    <2> HIDE DEF s
    <2> QED BY <1>1, <1>4, <2>1, <2>2, MovesOfOne
<1> QED BY <1>6, <1>7

\* The save of a tally approves, rejects or leaves the status alone.
LEMMA VerdictIsMove ==
    ASSUME NEW k \in Requests, KeeperInv(k), TallySave(k)
    PROVE  [Lifecycle!Next]_(Lifecycle!vars)
<1> DEFINE s == req[k].song
           from == song[s].status
<1>. IInv /\ Counting(k) /\ Exact(k) /\ song \in [Songs -> Doc]
    BY DEF KeeperInv, PromotionInv, IInv, CopyInv, TypeOK, StoredOK
<1>1. /\ req[k].pc = "store" /\ s \in Songs
      /\ song' = [song EXCEPT ![s] = Saved(song[s], seen[k][s], doc[k])]
      /\ doc[k].status \in {seen[k][s].status, "APPROVED", "REJECTED"}
      /\ seen[k][s] = song[s]
      /\ doc[k].status # from => doc[k].status \in CanTransitionTo(from)
      /\ UNCHANGED matched
    BY DEF TallySave, At, Counting, Exact, Holds, Reading
<1>2. song'[s].status = doc[k].status
    BY <1>1, SavedStatus
<1>3. \A t \in Songs : t # s => song'[t].status = song[t].status
    BY <1>1
<1>4. CASE doc[k].status = from
    <2>1. StatusesKept
        BY <1>2, <1>3, <1>4 DEF StatusesKept
    <2> QED BY <1>1, <2>1, SameStatuses
<1>5. CASE doc[k].status # from
    <2>1. \/ from = "PENDING" /\ song'[s].status = "APPROVED"
          \/ from \in {"PENDING", "APPROVED", "PLAYING"} /\ song'[s].status = "REJECTED"
        BY <1>1, <1>2, <1>5 DEF CanTransitionTo
    <2> HIDE DEF s
    <2> QED BY <1>1, <1>3, <2>1, MovesOfOne
<1> QED BY <1>4, <1>5

\* Every step of the queue is a step of SongLifecycle or changes no song.
LEMMA LifecycleStep ==
    ASSUME NEW k \in Requests, Keeper(k), KeeperInv(k), NEW r \in Requests, Step(r)
    PROVE  [Lifecycle!Next]_(Lifecycle!vars)
<1>. /\ IInv /\ TypeOK /\ AtMostOnePlaying /\ Beside(k) /\ Cleared(r)
     /\ song \in [Songs -> Doc] /\ matched \in [Songs -> BOOLEAN]
    BY DEF KeeperInv, PromotionInv, IInv, TypeOK, StoredOK
<1>1. CASE UNCHANGED <<song, matched>>
    BY <1>1, SameStatuses DEF StatusesKept
<1>2. CASE SuggestInsert(r)
    <2>1. PICK found \in BOOLEAN :
             /\ song' = [song EXCEPT ![req[r].song].status = "PENDING"]
             /\ matched' = [matched EXCEPT ![req[r].song] = found]
        BY <1>2 DEF SuggestInsert
    <2>2. PICK s \in Songs : s = req[r].song /\ song[s].status \in {"ABSENT"}
        BY <1>2 DEF SuggestInsert, At, IInv, CopyInv, Reserved
    <2>3. song'[s].status = "PENDING" /\ \A t \in Songs : t # s => song'[t] = song[t]
        BY <2>1, <2>2 DEF Doc
    <2>4. Lifecycle!Move(s, {"ABSENT"}, "PENDING")
        BY <2>2, <2>3, OneMove
    <2>5. Lifecycle!Suggest(s)
        BY <2>1, <2>2, <2>4 DEF Lifecycle!Suggest
    <2> QED BY <2>5 DEF Lifecycle!Next
<1>3. CASE BindTrack(r)
    <2> PICK s \in Songs :
            /\ song[s].status # "ABSENT"
            /\ matched' = [matched EXCEPT ![s] = TRUE]
            /\ song' = song
        BY <1>3 DEF BindTrack
    <2>1. Lifecycle!Match(s)
        BY DEF Lifecycle!Match
    <2> QED BY <2>1 DEF Lifecycle!Next
<1>4. ASSUME NEW kept, song' = Demoted(kept), UNCHANGED matched
      PROVE  [Lifecycle!Next]_(Lifecycle!vars)
    BY <1>4, DemotionIsStop
<1>5. CASE ModerateSave(r) \/ TallySave(r)
    <2>1. r = k
        BY <1>5 DEF Beside, ModerateSave, TallySave, At
    <2> QED BY <1>5, <2>1, ModerationIsMove, VerdictIsMove
<1>6. CASE PlayNextPromote(r)
    <2>1. CASE UNCHANGED song
        BY <1>6, <2>1, <1>1 DEF PlayNextPromote
    <2>2. ASSUME NEW s \in Playable, song' = [song EXCEPT ![s].status = "PLAYING"]
          PROVE  Lifecycle!Next
        <3>1. s \in Songs /\ song[s].status \in {"APPROVED"} /\ matched[s]
            BY <2>2 DEF Playable
        <3>2. song'[s].status = "PLAYING" /\ \A t \in Songs : t # s => song'[t] = song[t]
            BY <2>2, <3>1 DEF Doc
        <3>3. \A t \in Songs : song[t].status # "PLAYING"
            BY <1>6 DEF PlayNextPromote, At, Cleared
        <3> QED BY <1>6, <3>1, <3>2, <3>3, MovesOfOne DEF PlayNextPromote
    <2> QED BY <1>6, <2>1, <2>2 DEF PlayNextPromote
<1>7. Step(r) => \/ UNCHANGED <<song, matched>>
                 \/ SuggestInsert(r) \/ BindTrack(r) \/ ModerateSave(r)
                 \/ PlayNextPromote(r) \/ TallySave(r)
                 \/ \E kept : song' = Demoted(kept) /\ UNCHANGED matched
    BY DEF Step, Begin, Continue, Abort, SuggestCheck, ModerateLoad, PlayNextDemote,
           RosterChange, SetPremium, UpdateSettings, VoteLoad, SendDemote,
           ApproveCredit, SendCurrent, VoteCheck, VoteWrite, VoteDelete,
           RecountLoad, ReadRules, Tally, Judge, queue
<1> QED BY <1>1, <1>2, <1>3, <1>4, <1>5, <1>6, <1>7

\* The empty queue is one where no song has been suggested.
LEMMA LifecycleInit == Init => Lifecycle!Init
BY DEF Init, NoDoc, Lifecycle!Init

\* The queue implements SongLifecycle while one request at a time decides about
\* songs, whatever suggestions, matches and joins go on beside it and wherever its
\* handlers fail (song-state-machine.js, songs.service.js, votes.service.js).
THEOREM KeeperImplementsLifecycle == SingleKeeper => (Spec => LifecycleSpec)
<1> SUFFICES ASSUME NEW k \in Requests, Keeper(k) PROVE Spec => LifecycleSpec
    BY DEF SingleKeeper
<1>1. Init => KeeperInv(k) /\ Lifecycle!Init
    BY KeeperInit, LifecycleInit
<1>2. KeeperInv(k) /\ [Next]_vars => KeeperInv(k)'
    BY KeeperStep, KeeperStutter DEF Next, Step
<1>3. KeeperInv(k) /\ [Next]_vars => [Lifecycle!Next]_(Lifecycle!vars)
    <2>1. ASSUME UNCHANGED vars PROVE UNCHANGED Lifecycle!vars
        BY <2>1, SameStatuses DEF vars, StatusesKept
    <2> QED BY <2>1, LifecycleStep DEF Next, Step
<1> QED BY <1>1, <1>2, <1>3, PTL DEF Spec, LifecycleSpec, Lifecycle!Spec

\* A status, once terminal, stays: the state machine has no way out of it, and
\* SongLifecycle takes no other steps.
LEMMA NoRevival ==
    ASSUME NEW k \in Requests, Keeper(k), KeeperInv(k), NEW r \in Requests, Step(r),
           NEW s \in Songs, song[s].status \in Terminal
    PROVE  song'[s].status = song[s].status
<1> DEFINE before == [t \in Songs |-> song[t].status]
           after == [t \in Songs |-> song'[t].status]
<1>1. \/ after = before
      \/ \E u \in Songs : before[u] \notin Terminal /\ \E to : after = [before EXCEPT ![u] = to]
    <2>1. CASE UNCHANGED Lifecycle!vars
        BY <2>1 DEF Lifecycle!vars
    <2>2. CASE Lifecycle!Next
        <3> PICK u \in Songs : \/ Lifecycle!Suggest(u) \/ Lifecycle!Match(u)
                               \/ Lifecycle!Approve(u) \/ Lifecycle!Reject(u)
                               \/ Lifecycle!Play(u) \/ Lifecycle!Stop(u)
            BY <2>2 DEF Lifecycle!Next
        <3>1. ASSUME NEW from \in SUBSET {"ABSENT", "PENDING", "APPROVED", "PLAYING"},
                     NEW to, Lifecycle!Move(u, from, to)
              PROVE  before[u] \notin Terminal /\ after = [before EXCEPT ![u] = to]
            BY <3>1 DEF Lifecycle!Move, Terminal
        <3>2. Lifecycle!Match(u) => after = before
            BY DEF Lifecycle!Match
        <3> HIDE DEF before, after
        <3> QED BY <3>1, <3>2 DEF Lifecycle!Suggest, Lifecycle!Approve, Lifecycle!Reject,
                                  Lifecycle!Play, Lifecycle!Stop
    <2> QED BY <2>1, <2>2, LifecycleStep
<1>2. after[s] = before[s]
    BY <1>1
<1> QED BY <1>2

\* With one request at a time deciding about songs, no save takes a song out of a
\* terminal status; queue_stale_save shows that two of them may.
THEOREM KeeperEndsForGood == SingleKeeper => (Spec => TerminalIsFinal)
<1> SUFFICES ASSUME NEW k \in Requests, Keeper(k) PROVE Spec => TerminalIsFinal
    BY DEF SingleKeeper
<1>1. Init => KeeperInv(k)
    BY KeeperInit
<1>2. KeeperInv(k) /\ [Next]_vars => KeeperInv(k)'
    BY KeeperStep, KeeperStutter DEF Next, Step
<1>3. KeeperInv(k) /\ [Next]_vars =>
        [\A s \in Songs : song[s].status \in Terminal
                              => song'[s].status = song[s].status]_vars
    BY NoRevival DEF Next, Step
<1> QED BY <1>1, <1>2, <1>3, PTL DEF Spec, TerminalIsFinal

-----------------------------------------------------------------------------
(***************************************************************************)
(* TallyInStep.  One request at a time tallies votes and is not cut short; *)
(* if it also changes the settings, it alone decides about songs: a song   *)
(* that another handler's stale save brought back from a terminal status   *)
(* would have missed the recount.  TallyInStep says nothing while a tally  *)
(* is in flight, so the invariant says which songs are still Due.          *)
(***************************************************************************)
OneCounter(k) ==
    /\ k \notin Faulty
    /\ \A r \in Requests \ {k} : Ops[r] \cap TallyOps = {}
    /\ "settings" \in Ops[k] => Keeper(k)
SingleCounter == \E k \in Requests : OneCounter(k)

InStep(s) ==
    /\ song[s].score = Weighted(s, 1, settings)
    /\ song[s].downs = Weighted(s, -1, settings)

\* A moderated copy has the counts it was loaded with.
Untallied(r) ==
    req[r].pc \in {"demote", "save"} =>
        /\ doc[r].score = seen[r][req[r].song].score
        /\ doc[r].downs = seen[r][req[r].song].downs

Elsewhere(k) == \A r \in Requests \ {k} : req[r].pc \notin Reading \cup {"load"}

\* The counts a tallying handler loaded are still those stored.
SameCounts(k) ==
    \A s \in Songs :
        req[k].pc \in Reading /\ (s = req[k].song \/ s \in local[k].todo) =>
            seen[k][s].score = song[s].score /\ seen[k][s].downs = song[s].downs

\* A song that has not been suggested has no votes.
NoEarlyVotes ==
    \A s \in Songs : song[s].status = "ABSENT" =>
        /\ song[s].score = 0 /\ song[s].downs = 0
        /\ \A p \in Attendees : vote[s][p].value = 0

\* A tally goes by the settings in force, and its copy holds the count.
CountsByRules(k) ==
    /\ req[k].pc \in {"check", "write", "delete"} => req[k].op \in {"vote", "unvote"}
    /\ req[k].pc \in {"write", "tally", "judge", "store"} => local[k].rules = settings
    /\ req[k].pc \in {"judge", "store"} =>
        /\ doc[k].score = Weighted(req[k].song, 1, settings)
        /\ doc[k].downs = Weighted(req[k].song, -1, settings)

\* The songs whose stored counts a handler has put out of step.
Due(k, s) ==
    \/ /\ req[k].op \in {"vote", "unvote"}
       /\ req[k].pc \in {"rules", "tally", "judge", "store"}
       /\ s = req[k].song
    \/ /\ req[k].op = "settings"
       /\ \/ req[k].pc = "load"
          \/ /\ req[k].pc \in {"rules", "tally", "judge", "store"}
             /\ s = req[k].song \/ s \in local[k].todo

\* A recount for new settings passes over the songs that are no longer active.
Counted(k, s) == "settings" \notin Ops[k] \/ song[s].status \in Active

OthersInStep(k) == \A s \in Songs : Counted(k, s) /\ ~Due(k, s) => InStep(s)

CountInv(k) ==
    /\ IInv /\ Permitted
    /\ \A r \in Requests : Untallied(r)
    /\ Elsewhere(k) /\ SameCounts(k) /\ NoEarlyVotes
    /\ CountsByRules(k) /\ OthersInStep(k)
    /\ Keeper(k) => KeeperInv(k)

\* Nothing is out of step that was not, when votes, rules and counts stay.
LEMMA StaysInStep ==
    ASSUME NEW s \in Songs, InStep(s), vote'[s] = vote[s],
           settings'.premiumVotes = settings.premiumVotes,
           song'[s].score = song[s].score, song'[s].downs = song[s].downs
    PROVE  InStep(s)'
BY DEF InStep, Weighted, Voters, PremiumVoters

\* No vote, no count.
LEMMA UnvotedInStep ==
    ASSUME NEW s \in Songs, song[s].score = 0, song[s].downs = 0,
           \A p \in Attendees : vote[s][p].value = 0
    PROVE  InStep(s)
<1>1. ASSUME NEW value \in {-1, 1}
      PROVE  Voters(s, value) = {} /\ PremiumVoters(s, value) = {}
    BY <1>1 DEF Voters, PremiumVoters
<1>2. Cardinality({}) = 0
    BY FS_EmptySet
<1> QED BY <1>1, <1>2 DEF InStep, Weighted

\* Only the save of a tally writes counts.
LEMMA CountsMove ==
    ASSUME IInv, NEW r \in Requests, Untallied(r), Step(r), NEW s \in Songs
    PROVE  \/ song'[s].score = song[s].score /\ song'[s].downs = song[s].downs
           \/ TallySave(r) /\ s = req[r].song
<1>. song \in [Songs -> Doc] /\ Moderating(r)
    BY DEF IInv, TypeOK, StoredOK, CopyInv
<1>1. CASE UNCHANGED song
    BY <1>1
<1>2. CASE SuggestInsert(r)
    BY <1>2 DEF SuggestInsert, Doc
<1>3. ASSUME NEW kept, song' = Demoted(kept)
      PROVE  song'[s].score = song[s].score /\ song'[s].downs = song[s].downs
    BY <1>3 DEF Demoted, Doc
<1>4. CASE ModerateSave(r)
    <2>1. /\ song' = [song EXCEPT ![req[r].song] =
                        Saved(song[req[r].song], seen[r][req[r].song], doc[r])]
          /\ doc[r].score = seen[r][req[r].song].score
          /\ doc[r].downs = seen[r][req[r].song].downs
        BY <1>4 DEF ModerateSave, At, Untallied
    <2> QED BY <2>1 DEF Saved
<1>5. CASE PlayNextPromote(r)
    <2>1. CASE ~UNCHANGED song
        <3> PICK p \in Songs : song' = [song EXCEPT ![p].status = "PLAYING"]
            BY <1>5, <2>1 DEF PlayNextPromote, Playable
        <3> QED BY DEF Doc
    <2> QED BY <1>1, <2>1
<1>6. CASE TallySave(r)
    BY <1>6 DEF TallySave
<1>7. Step(r) => \/ UNCHANGED song
                 \/ SuggestInsert(r) \/ ModerateSave(r)
                 \/ PlayNextPromote(r) \/ TallySave(r)
                 \/ \E kept : song' = Demoted(kept)
    BY DEF Step, Begin, Continue, Abort, SuggestCheck, ModerateLoad, PlayNextDemote,
           RosterChange, SetPremium, UpdateSettings, VoteLoad, SendDemote, BindTrack,
           ApproveCredit, SendCurrent, VoteCheck, VoteWrite, VoteDelete,
           RecountLoad, ReadRules, Tally, Judge, queue
<1> QED BY <1>1, <1>2, <1>3, <1>4, <1>5, <1>6, <1>7

\* A vote handler writes rows of its own song, only the owner writes settings.
LEMMA RowsMove ==
    ASSUME NEW r \in Requests, Step(r)
    PROVE  /\ UNCHANGED vote \/ VoteWrite(r) \/ VoteDelete(r)
           /\ UNCHANGED settings \/ UpdateSettings(r)
BY DEF Step, Begin, Continue, Abort, SuggestCheck, ModerateLoad, PlayNextDemote,
       RosterChange, SetPremium, UpdateSettings, VoteLoad, SendDemote, BindTrack,
       ApproveCredit, SendCurrent, VoteCheck, VoteWrite, VoteDelete, SuggestInsert,
       RecountLoad, ReadRules, Tally, Judge, ModerateSave, PlayNextPromote,
       TallySave, people

LEMMA OneSongsRows ==
    ASSUME TypeOK, NEW r \in Requests, VoteWrite(r) \/ VoteDelete(r)
    PROVE  \A s \in Songs : s # req[r].song => vote'[s] = vote[s]
BY DEF VoteWrite, VoteDelete, TypeOK, StoredOK

\* Somebody else's step neither votes nor counts nor sets rules.
LEMMA ElsewhereStep ==
    ASSUME NEW k \in Requests, OneCounter(k), CountInv(k),
           NEW r \in Requests \ {k}, Step(r)
    PROVE  /\ req'[r].pc \notin Reading \cup {"load"}
           /\ UNCHANGED <<vote, settings>>
           /\ \A s \in Songs : song'[s].score = song[s].score /\ song'[s].downs = song[s].downs
           /\ req'[k] = req[k] /\ local'[k] = local[k] /\ seen'[k] = seen[k] /\ doc'[k] = doc[k]
<1>. /\ IInv /\ TypeOK /\ Untallied(r) /\ req \in [Requests -> Request]
     /\ req[r] \in Request /\ req[r].pc \notin Reading \cup {"load"}
     /\ Ops[r] \cap TallyOps = {}
    BY DEF CountInv, IInv, TypeOK, FlightOK, Elsewhere, OneCounter
<1>1. UNCHANGED <<vote, settings>>
    BY RowsMove DEF VoteWrite, VoteDelete, UpdateSettings, At, Reading, Free, TallyOps
<1>2. \A s \in Songs : song'[s].score = song[s].score /\ song'[s].downs = song[s].downs
    BY CountsMove DEF TallySave, At, Reading
<1>3. req'[r].pc \notin Reading \cup {"load"}
    <2>1. ASSUME NEW op, NEW pc \in {"insert", "demote", "save", "promote"}, NEW s,
                 Start(r, op, pc, s)
          PROVE  req'[r].pc \notin Reading \cup {"load"}
        BY <2>1 DEF Start, Reading
    <2>2. ASSUME NEW pc \in {"save", "credit", "current"}, Goto(r, pc)
          PROVE  req'[r].pc \notin Reading \cup {"load"}
        BY <2>2 DEF Goto, Request, Reading
    <2>3. ASSUME Finish(r) PROVE req'[r].pc \notin Reading \cup {"load"}
        <3>1. req'[r].pc = "idle"
            BY <2>3 DEF Finish, Idle
        <3> QED BY <3>1 DEF Reading
    <2>4. CASE UNCHANGED req
        BY <2>4
    <2>5. CASE ModerateLoad(r)
        BY <2>1, <2>5 DEF ModerateLoad
    <2>6. CASE SuggestCheck(r) \/ PlayNextDemote(r)
        BY <2>1, <2>6 DEF SuggestCheck, PlayNextDemote
    <2>7. CASE RosterChange(r)
        <3> PICK op \in {"join", "socketJoin", "leave", "ban"} :
                /\ Free(r, op)
                /\ IF op \in Recounting THEN Start(r, op, "load", NoSong) ELSE UNCHANGED req
            BY <2>7 DEF RosterChange
        <3> QED BY <2>4 DEF Free, TallyOps
    <2>8. ~VoteLoad(r) /\ ~UpdateSettings(r)
        BY DEF VoteLoad, UpdateSettings, Free, TallyOps
    <2>9. CASE ModerateSave(r)
        BY <2>2, <2>3, <2>9 DEF ModerateSave
    <2>10. CASE SuggestInsert(r) \/ ApproveCredit(r) \/ SendCurrent(r)
                \/ PlayNextPromote(r) \/ Abort(r)
        BY <2>3, <2>10 DEF SuggestInsert, ApproveCredit, SendCurrent, PlayNextPromote, Abort
    <2>11. CASE SendDemote(r)
        BY <2>2, <2>11 DEF SendDemote
    <2>12. Continue(r) => \/ SuggestInsert(r) \/ ModerateSave(r) \/ ApproveCredit(r)
                          \/ SendCurrent(r) \/ PlayNextPromote(r) \/ SendDemote(r)
        BY DEF Continue, VoteCheck, VoteWrite, VoteDelete, RecountLoad, ReadRules,
               Tally, Judge, TallySave, At, Reading
    <2> QED BY <2>4, <2>5, <2>6, <2>7, <2>8, <2>9, <2>10, <2>11, <2>12
            DEF Step, Begin, BindTrack, SetPremium, flight
<1> QED BY <1>1, <1>2, <1>3, OneMoves

\* The counts of moderated copies.
LEMMA UntalliedStep ==
    ASSUME IInv, NEW r \in Requests, Untallied(r), Step(r)
    PROVE  Untallied(r)'
<1>. /\ req \in [Requests -> Request] /\ req[r] \in Request
     /\ seen \in [Requests -> [Songs -> Doc]] /\ doc \in [Requests -> Doc]
     /\ song \in [Songs -> Doc]
    BY DEF IInv, TypeOK, FlightOK, StoredOK
<1>1. CASE UNCHANGED <<req, seen, doc>>
    BY <1>1 DEF Untallied
<1>2. CASE ModerateLoad(r)
    <2> PICK op \in DJOps, s \in Songs :
            /\ Start(r, op, IF op = "sendNow" THEN "demote" ELSE "save", s)
            /\ Load(r, [NothingSeen EXCEPT ![s] = song[s]],
                       [song[s] EXCEPT !.status = Target[op]])
        BY <1>2 DEF ModerateLoad
    <2>1. req'[r].song = s
        BY DEF Start
    <2>2. seen'[r][s] = song[s] /\ doc'[r] = [song[s] EXCEPT !.status = Target[op]]
        BY DEF Load, NothingSeen
    <2> QED BY <2>1, <2>2 DEF Untallied, Doc
<1>3. CASE SendDemote(r)
    <2>1. /\ req[r].pc = "demote" /\ req'[r].song = req[r].song
          /\ UNCHANGED <<seen, doc>>
        BY <1>3 DEF SendDemote, At, Goto, Request
    <2> QED BY <2>1 DEF Untallied
<1>4. ASSUME req'[r].pc \notin {"demote", "save"} PROVE Untallied(r)'
    BY <1>4 DEF Untallied
<1>5. \/ UNCHANGED <<req, seen, doc>> \/ ModerateLoad(r) \/ SendDemote(r)
      \/ req'[r].pc \notin {"demote", "save"}
    <2>1. ASSUME NEW op, NEW pc \in {"insert", "promote", "load", "check"}, NEW s,
                 Start(r, op, pc, s)
          PROVE  req'[r].pc \notin {"demote", "save"}
        BY <2>1 DEF Start
    <2>2. ASSUME NEW pc \in Pc \ {"demote", "save"}, Goto(r, pc)
          PROVE  req'[r].pc \notin {"demote", "save"}
        BY <2>2 DEF Goto, Request
    <2>3. CASE Finish(r)
        BY <2>3 DEF Finish, Idle
    <2>4. CASE Begin(r)
        BY <2>1, <2>4 DEF Begin, SuggestCheck, PlayNextDemote, RosterChange,
           UpdateSettings, VoteLoad, BindTrack, SetPremium, flight
    <2>5. CASE Tally(r) \/ TallySave(r)
        <3>1. ASSUME NEW pc \in {"judge", "tally"}, NEW s,
                     req' = [req EXCEPT ![r].pc = pc, ![r].song = s]
              PROVE  req'[r].pc \notin {"demote", "save"}
            BY <3>1 DEF Request
        <3> QED BY <2>3, <2>5, <3>1 DEF Tally, TallySave
    <2>6. CASE Continue(r) /\ ~Tally(r) /\ ~TallySave(r) /\ ~SendDemote(r)
        <3>1. Finish(r) \/ \E pc \in Pc \ {"demote", "save"} : Goto(r, pc)
            BY <2>6 DEF Continue, SuggestInsert, ModerateSave, ApproveCredit,
               SendCurrent, PlayNextPromote, VoteCheck, VoteWrite, VoteDelete,
               RecountLoad, ReadRules, Judge, Pc
        <3> QED BY <2>2, <2>3, <3>1
    <2> QED BY <2>3, <2>4, <2>5, <2>6 DEF Step, Abort
<1> QED BY <1>1, <1>2, <1>3, <1>4, <1>5

\* A tallying handler's copies keep the stored counts until it saves its own.
LEMMA SameCountsStep ==
    ASSUME NEW k \in Requests, CountInv(k), k \notin Faulty, Step(k)
    PROVE  SameCounts(k)'
<1>. /\ IInv /\ SameCounts(k) /\ Untallied(k) /\ Counting(k)
     /\ req \in [Requests -> Request] /\ req[k] \in Request
     /\ local \in [Requests -> Locals] /\ local[k] \in Locals
     /\ seen \in [Requests -> [Songs -> Doc]] /\ seen[k] \in [Songs -> Doc]
     /\ song \in [Songs -> Doc]
    BY DEF CountInv, IInv, TypeOK, FlightOK, StoredOK, CopyInv
<1>0. ASSUME req'[k].pc \notin Reading PROVE SameCounts(k)'
    BY <1>0 DEF SameCounts
<1>go. ASSUME NEW pc \in Pc, Goto(k, pc)
       PROVE  req'[k].pc = pc /\ req'[k].song = req[k].song
    BY <1>go DEF Goto, Request
<1>1. ASSUME req[k].pc \in Reading, seen'[k] = seen[k],
             local'[k].todo = local[k].todo, ~TallySave(k),
             req'[k].song \in {req[k].song} \cup local[k].todo
      PROVE  SameCounts(k)'
    <2>1. \A s \in Songs : song'[s].score = song[s].score /\ song'[s].downs = song[s].downs
        BY <1>1, CountsMove
    <2> QED BY <1>1, <2>1 DEF SameCounts
<1>2. CASE VoteLoad(k)
    <2> PICK op \in {"vote", "unvote"}, s \in Songs, p \in Attendees, v \in {-1, 1} :
            /\ Start(k, op, "check", s)
            /\ SetLocal(k, [Blank EXCEPT !.who = p,
                                         !.value = IF op = "vote" THEN v ELSE 0])
            /\ Load(k, [NothingSeen EXCEPT ![s] = song[s]], song[s])
            /\ UNCHANGED song
        BY <1>2 DEF VoteLoad, queue
    <2>1. req'[k].song = s
        BY DEF Start
    <2>2. seen'[k][s] = song[s]
        BY DEF Load, NothingSeen
    <2>3. local'[k].todo = {}
        BY DEF SetLocal, Blank
    <2> QED BY <2>1, <2>2, <2>3 DEF SameCounts
<1>3. CASE RecountLoad(k)
    <2> DEFINE found == {s \in Songs : song[s].status \in Active}
    <2>1. /\ req[k].pc = "load" /\ Goto(k, "rules") /\ song' = song
          /\ local'[k].todo = found
          /\ \A s \in found : seen'[k][s] = song[s]
        BY <1>3 DEF RecountLoad, At, SetLocal, Load, queue, Blank
    <2>2. req'[k].song = NoSong
        BY <2>1, <1>go DEF Counting, Pc
    <2> QED BY <2>1, <2>2, ConstantsAssumption DEF SameCounts
<1>4. CASE VoteCheck(k)
    <2>1. CASE ~Finish(k)
        <3>1. /\ req[k].pc = "check" /\ seen' = seen
              /\ Goto(k, "write") \/ Goto(k, "delete")
              /\ \/ UNCHANGED local
                 \/ \E pay, had, rules :
                      SetLocal(k, [local[k] EXCEPT !.premium = pay, !.had = had,
                                                   !.rules = rules])
            BY <1>4, <2>1 DEF VoteCheck, At
        <3>2. local'[k].todo = local[k].todo
            BY <3>1 DEF SetLocal, Locals
        <3>3. req'[k].song = req[k].song
            BY <3>1, <1>go DEF Pc
        <3>4. ~TallySave(k)
            BY <3>1 DEF TallySave, At
        <3> QED BY <1>1, <3>1, <3>2, <3>3, <3>4 DEF Reading
    <2>2. Finish(k) => req'[k].pc = "idle"
        BY DEF Finish, Idle
    <2> QED BY <1>0, <2>1, <2>2 DEF Reading
<1>5. CASE VoteWrite(k) \/ VoteDelete(k) \/ Judge(k)
    <2>1. CASE ~Finish(k)
        <3>1. /\ req[k].pc \in {"write", "delete", "judge"} /\ seen' = seen
              /\ local' = local
              /\ \E pc \in {"tally", "rules", "store"} : Goto(k, pc)
            BY <1>5, <2>1 DEF VoteWrite, VoteDelete, Judge, At
        <3>2. req'[k].song = req[k].song
            BY <3>1, <1>go DEF Pc
        <3>3. ~TallySave(k)
            BY <3>1 DEF TallySave, At
        <3> QED BY <1>1, <3>1, <3>2, <3>3 DEF Reading
    <2>2. Finish(k) => req'[k].pc = "idle"
        BY DEF Finish, Idle
    <2> QED BY <1>0, <2>1, <2>2 DEF Reading
<1>6. CASE ReadRules(k)
    <2>1. CASE ~Finish(k)
        <3>1. /\ req[k].pc = "rules" /\ seen' = seen /\ Goto(k, "tally")
              /\ SetLocal(k, [local[k] EXCEPT !.rules = settings])
            BY <1>6, <2>1 DEF ReadRules, At
        <3>2. local'[k].todo = local[k].todo
            BY <3>1 DEF SetLocal, Locals
        <3>3. req'[k].song = req[k].song
            BY <3>1, <1>go DEF Pc
        <3>4. ~TallySave(k)
            BY <3>1 DEF TallySave, At
        <3> QED BY <1>1, <3>1, <3>2, <3>3, <3>4 DEF Reading
    <2>2. Finish(k) => req'[k].pc = "idle"
        BY DEF Finish, Idle
    <2> QED BY <1>0, <2>1, <2>2 DEF Reading
<1>7. CASE Tally(k)
    <2> PICK s \in Songs :
            /\ IF req[k].song = NoSong THEN s \in local[k].todo ELSE s = req[k].song
            /\ req' = [req EXCEPT ![k].pc = "judge", ![k].song = s]
            /\ req[k].pc = "tally"
            /\ UNCHANGED <<local, seen>>
        BY <1>7 DEF Tally, At
    <2>1. req'[k].song = s
        BY DEF Request
    <2>2. ~TallySave(k)
        BY DEF TallySave, At
    <2> QED BY <1>1, <2>1, <2>2 DEF Reading
<1>8. CASE TallySave(k)
    <2>1. CASE ~Finish(k)
        <3> DEFINE s == req[k].song
                   left == local[k].todo \ {s}
        <3>1. /\ req[k].pc = "store" /\ s \in Songs
              /\ song' = [song EXCEPT ![s] = Saved(song[s], seen[k][s], doc[k])]
              /\ req' = [req EXCEPT ![k].pc = "tally", ![k].song = NoSong]
              /\ SetLocal(k, [local[k] EXCEPT !.todo = left])
              /\ Load(k, [seen[k] EXCEPT ![s] = NoDoc], NoDoc)
            BY <1>8, <2>1 DEF TallySave, At, Counting
        <3>2. req'[k].song = NoSong
            BY <3>1 DEF Request
        <3>3. local'[k].todo = left
            BY <3>1 DEF SetLocal, Locals
        <3>4. seen'[k] = [seen[k] EXCEPT ![s] = NoDoc]
            BY <3>1 DEF Load
        <3>5. \A t \in left : t \in Songs => song'[t] = song[t] /\ seen'[k][t] = seen[k][t]
            BY <3>1, <3>4
        <3> QED BY <3>1, <3>2, <3>3, <3>5, ConstantsAssumption DEF SameCounts, Reading
    <2>2. Finish(k) => req'[k].pc = "idle"
        BY DEF Finish, Idle
    <2> QED BY <1>0, <2>1, <2>2 DEF Reading
<1>9. \/ req'[k].pc \notin Reading \/ UNCHANGED <<req, local, seen, song>>
      \/ VoteLoad(k) \/ RecountLoad(k) \/ VoteCheck(k) \/ VoteWrite(k)
      \/ VoteDelete(k) \/ Judge(k) \/ ReadRules(k) \/ Tally(k) \/ TallySave(k)
    <2>1. ASSUME NEW op, NEW pc \in {"insert", "demote", "save", "promote", "load"}, NEW s,
                 Start(k, op, pc, s)
          PROVE  req'[k].pc \notin Reading
        BY <2>1 DEF Start, Reading
    <2>2. CASE Begin(k)
        BY <2>1, <2>2 DEF Begin, SuggestCheck, PlayNextDemote, RosterChange,
           UpdateSettings, BindTrack, SetPremium, flight, queue, ModerateLoad
    <2>3. ASSUME NEW pc \in {"save", "credit", "current"}, Goto(k, pc)
          PROVE  req'[k].pc \notin Reading
        BY <2>3, <1>go DEF Reading, Pc
    <2>4. ASSUME Finish(k) PROVE req'[k].pc \notin Reading
        <3>1. req'[k].pc = "idle"
            BY <2>4 DEF Finish, Idle
        <3> QED BY <3>1 DEF Reading
    <2>5. CASE SuggestInsert(k) \/ ApproveCredit(k) \/ SendCurrent(k)
                \/ PlayNextPromote(k) \/ ModerateSave(k) \/ SendDemote(k)
        BY <2>3, <2>4, <2>5 DEF SuggestInsert, ApproveCredit, SendCurrent,
           PlayNextPromote, ModerateSave, SendDemote
    <2> QED BY <2>2, <2>5 DEF Step, Continue, Abort
<1>10. UNCHANGED <<req, local, seen, song>> => SameCounts(k)'
    BY DEF SameCounts
<1> QED BY <1>0, <1>2, <1>3, <1>4, <1>5, <1>6, <1>7, <1>8, <1>9, <1>10

\* Votes are cast on songs that have been suggested.
LEMMA NoEarlyVotesStep ==
    ASSUME NEW k \in Requests, CountInv(k), NEW r \in Requests, Step(r)
    PROVE  NoEarlyVotes'
<1>. IInv /\ TypeOK /\ Untallied(r) /\ NoEarlyVotes /\ Counting(r) /\ Remembered(r)
    BY DEF CountInv, IInv, CopyInv
<1> SUFFICES ASSUME NEW s \in Songs, song'[s].status = "ABSENT"
             PROVE  /\ song'[s].score = 0 /\ song'[s].downs = 0
                    /\ \A p \in Attendees : vote'[s][p].value = 0
    BY DEF NoEarlyVotes
<1>1. song[s].status = "ABSENT"
    BY StepForward DEF Forward
<1>2. ~ (req[r].pc \in {"write", "delete", "store"} /\ s = req[r].song)
    BY <1>1 DEF Counting, Remembered
<1>3. song'[s].score = song[s].score /\ song'[s].downs = song[s].downs
    BY <1>2, CountsMove DEF TallySave, At
<1>4. vote'[s] = vote[s]
    BY <1>2, RowsMove, OneSongsRows DEF VoteWrite, VoteDelete, At
<1> QED BY <1>1, <1>3, <1>4 DEF NoEarlyVotes

\* The counter's rules are those in force, its copy holds the count under them.
LEMMA CountsByRulesStep ==
    ASSUME NEW k \in Requests, CountInv(k), k \notin Faulty, Step(k)
    PROVE  CountsByRules(k)'
<1>. /\ IInv /\ CountsByRules(k) /\ Counting(k)
     /\ req \in [Requests -> Request] /\ req[k] \in Request
     /\ local \in [Requests -> Locals] /\ local[k] \in Locals
     /\ doc \in [Requests -> Doc] /\ doc[k] \in Doc
    BY DEF CountInv, IInv, TypeOK, FlightOK, CopyInv
<1>0. ASSUME req'[k].pc \notin {"check", "write", "delete", "tally", "judge", "store"}
      PROVE  CountsByRules(k)'
    BY <1>0 DEF CountsByRules
<1>go. ASSUME NEW pc \in Pc, Goto(k, pc)
       PROVE  /\ req'[k].pc = pc /\ req'[k].song = req[k].song /\ req'[k].op = req[k].op
    BY <1>go DEF Goto, Request
<1>end. ASSUME Finish(k) PROVE CountsByRules(k)'
    <2>1. req'[k].pc = "idle"
        BY <1>end DEF Finish, Idle
    <2> QED BY <1>0, <2>1
<1>1. CASE Begin(k)
    <2>1. ASSUME NEW op, NEW pc \in {"insert", "demote", "save", "promote", "load"}, NEW s,
                 Start(k, op, pc, s)
          PROVE  CountsByRules(k)'
        <3>1. req'[k].pc = pc
            BY <2>1 DEF Start
        <3> QED BY <1>0, <3>1
    <2>2. CASE VoteLoad(k)
        <3> PICK op \in {"vote", "unvote"}, s \in Songs : Start(k, op, "check", s)
            BY <2>2 DEF VoteLoad
        <3>1. req'[k].pc = "check" /\ req'[k].op = op
            BY DEF Start
        <3> QED BY <3>1 DEF CountsByRules
    <2>3. CASE UNCHANGED req
        <3>1. req'[k].pc = "idle"
            BY <1>1, <2>3 DEF Begin, SuggestCheck, BindTrack, ModerateLoad, PlayNextDemote,
               RosterChange, SetPremium, UpdateSettings, VoteLoad, Free
        <3> QED BY <1>0, <3>1
    <2> QED BY <1>1, <2>1, <2>2, <2>3 DEF Begin, SuggestCheck, BindTrack, ModerateLoad,
               PlayNextDemote, RosterChange, SetPremium, UpdateSettings, flight
<1>2. CASE VoteCheck(k)
    <2>1. CASE ~Finish(k)
        <3>1. /\ req[k].pc = "check"
              /\ \/ req[k].op = "vote" /\ Goto(k, "write") /\ settings' = settings
                    /\ \E pay, had : SetLocal(k, [local[k] EXCEPT !.premium = pay,
                                           !.had = had, !.rules = settings])
                 \/ req[k].op = "unvote" /\ Goto(k, "delete")
            BY <1>2, <2>1 DEF VoteCheck, At, people
        <3>2. CASE Goto(k, "delete")
            <4>1. req'[k].pc = "delete" /\ req'[k].op = req[k].op
                BY <3>2, <1>go DEF Pc
            <4> QED BY <3>1, <4>1 DEF CountsByRules
        <3>3. CASE Goto(k, "write")
            <4>1. req'[k].pc = "write" /\ req'[k].op = req[k].op
                BY <3>3, <1>go DEF Pc
            <4>2. CASE req[k].op = "vote" /\ settings' = settings
                <5> PICK pay, had : SetLocal(k, [local[k] EXCEPT !.premium = pay,
                                          !.had = had, !.rules = settings])
                    BY <3>1, <3>3, <1>go, <4>1 DEF Pc
                <5>1. local'[k].rules = settings
                    BY DEF SetLocal, Locals
                <5> QED BY <4>1, <4>2, <5>1 DEF CountsByRules
            <4>3. ~Goto(k, "delete")
                BY <4>1, <1>go DEF Pc
            <4> QED BY <3>1, <4>2, <4>3
        <3> QED BY <3>1, <3>2, <3>3
    <2> QED BY <2>1, <1>end
<1>3. CASE VoteWrite(k)
    <2>1. CASE ~Finish(k)
        <3>1. req[k].pc = "write" /\ Goto(k, "tally") /\ UNCHANGED <<local, settings>>
            BY <1>3, <2>1 DEF VoteWrite, At, people
        <3>2. req'[k].pc = "tally"
            BY <3>1, <1>go DEF Pc
        <3> QED BY <3>1, <3>2 DEF CountsByRules
    <2> QED BY <2>1, <1>end
<1>4. CASE VoteDelete(k) \/ RecountLoad(k) \/ SendDemote(k) \/ ModerateSave(k)
    <2>1. Finish(k) \/ \E pc \in {"rules", "save", "credit", "current"} : Goto(k, pc)
        BY <1>4 DEF VoteDelete, RecountLoad, SendDemote, ModerateSave
    <2>2. ASSUME NEW pc \in {"rules", "save", "credit", "current"}, Goto(k, pc)
          PROVE  CountsByRules(k)'
        BY <2>2, <1>0, <1>go DEF Pc
    <2> QED BY <1>end, <2>1, <2>2
<1>5. CASE ReadRules(k)
    <2>1. CASE ~Finish(k)
        <3>1. /\ Goto(k, "tally") /\ settings' = settings
              /\ SetLocal(k, [local[k] EXCEPT !.rules = settings])
            BY <1>5, <2>1 DEF ReadRules, people
        <3>2. req'[k].pc = "tally"
            BY <3>1, <1>go DEF Pc
        <3>3. local'[k].rules = settings
            BY <3>1 DEF SetLocal, Locals
        <3> QED BY <3>1, <3>2, <3>3 DEF CountsByRules
    <2> QED BY <2>1, <1>end
<1>6. CASE Tally(k)
    <2> PICK s \in Songs :
            /\ req' = [req EXCEPT ![k].pc = "judge", ![k].song = s]
            /\ req[k].pc = "tally"
            /\ doc' = [doc EXCEPT ![k] =
                         [status |-> seen[k][s].status,
                          score  |-> Weighted(s, 1, local[k].rules),
                          downs  |-> Weighted(s, -1, local[k].rules)]]
            /\ UNCHANGED <<vote, local, settings>>
        BY <1>6 DEF Tally, At, people
    <2>1. req'[k].song = s /\ req'[k].pc = "judge"
        BY DEF Request
    <2>2. local[k].rules = settings
        BY DEF CountsByRules
    <2>3. /\ doc'[k].score = Weighted(s, 1, settings)
          /\ doc'[k].downs = Weighted(s, -1, settings)
        BY <2>2
    <2> QED BY <2>1, <2>2, <2>3 DEF CountsByRules, Weighted, Voters, PremiumVoters
<1>7. CASE Judge(k)
    <2> DEFINE verdict == Judged(doc[k], local[k].rules)
    <2>1. /\ req[k].pc = "judge" /\ Goto(k, "store")
          /\ doc' = [doc EXCEPT ![k].status = verdict]
          /\ UNCHANGED <<vote, local, settings>>
        BY <1>7 DEF Judge, At, people
    <2>2. req'[k].pc = "store" /\ req'[k].song = req[k].song
        BY <2>1, <1>go DEF Pc
    <2>3. doc'[k].score = doc[k].score /\ doc'[k].downs = doc[k].downs
        BY <2>1 DEF Doc
    <2> QED BY <2>1, <2>2, <2>3 DEF CountsByRules, Weighted, Voters, PremiumVoters
<1>8. CASE TallySave(k)
    <2>1. CASE ~Finish(k)
        <3> DEFINE left == local[k].todo \ {req[k].song}
        <3>1. /\ req[k].pc = "store"
              /\ req' = [req EXCEPT ![k].pc = "tally", ![k].song = NoSong]
              /\ SetLocal(k, [local[k] EXCEPT !.todo = left])
              /\ UNCHANGED settings
            BY <1>8, <2>1 DEF TallySave, At, people
        <3>2. req'[k].pc = "tally"
            BY <3>1 DEF Request
        <3>3. local'[k].rules = local[k].rules
            BY <3>1 DEF SetLocal, Locals
        <3> QED BY <3>1, <3>2, <3>3 DEF CountsByRules
    <2> QED BY <2>1, <1>end
<1>9. CASE SuggestInsert(k) \/ ApproveCredit(k) \/ SendCurrent(k) \/ PlayNextPromote(k)
    BY <1>9, <1>end DEF SuggestInsert, ApproveCredit, SendCurrent, PlayNextPromote
<1> QED BY <1>1, <1>2, <1>3, <1>4, <1>5, <1>6, <1>7, <1>8, <1>9 DEF Step, Continue, Abort

\* A song that is not the one being saved, and that no step leaves to a tally, was
\* not left to one before: its votes and their weights are as they were.
LEMMA DueBefore ==
    ASSUME NEW k \in Requests, CountInv(k), k \notin Faulty, Step(k),
           NEW s \in Songs, Counted(k, s)', ~ Due(k, s)',
           ~ (TallySave(k) /\ s = req[k].song)
    PROVE  /\ ~ Due(k, s)
           /\ vote'[s] = vote[s]
           /\ settings'.premiumVotes = settings.premiumVotes
<1>. /\ IInv /\ TypeOK /\ Counting(k) /\ CountsByRules(k) /\ Permitted
     /\ req \in [Requests -> Request] /\ req[k] \in Request
     /\ local \in [Requests -> Locals] /\ local[k] \in Locals
    BY DEF CountInv, IInv, TypeOK, FlightOK, CopyInv
<1>go. ASSUME NEW pc \in Pc, Goto(k, pc)
       PROVE  /\ req'[k].pc = pc /\ req'[k].song = req[k].song /\ req'[k].op = req[k].op
    BY <1>go DEF Goto, Request
<1>1. CASE UpdateSettings(k)
    <2>1. PICK new \in SettingsChoices, named \in BOOLEAN :
            /\ Free(k, "settings")
            /\ named \/ new.premiumVotes = settings.premiumVotes
            /\ settings' = new
            /\ IF named THEN Start(k, "settings", "load", NoSong) ELSE UNCHANGED req
            /\ UNCHANGED vote
        BY <1>1 DEF UpdateSettings
    <2>2. ~named
        BY <2>1 DEF Start, Due
    <2> QED BY <2>1, <2>2 DEF Due, Free
<1>2. CASE /\ ~UpdateSettings(k)
           /\ req[k].pc \notin {"write", "delete", "load", "rules", "tally", "judge", "store"}
    BY <1>2, RowsMove DEF VoteWrite, VoteDelete, At, Due
<1>3. CASE VoteWrite(k) \/ VoteDelete(k)
    <2>1. settings' = settings /\ req[k].pc \in {"write", "delete"}
        BY <1>3 DEF VoteWrite, VoteDelete, people, At
    <2>2. CASE ~Finish(k)
        <3>1. Goto(k, "tally") \/ Goto(k, "rules")
            BY <1>3, <2>2 DEF VoteWrite, VoteDelete
        <3>2. /\ req'[k].pc \in {"tally", "rules"} /\ req'[k].song = req[k].song
              /\ req'[k].op \in {"vote", "unvote"}
            BY <2>1, <3>1, <1>go DEF Pc, CountsByRules
        <3>3. s # req[k].song
            BY <3>2 DEF Due
        <3> QED BY <1>3, <2>1, <3>3, OneSongsRows DEF Due
    <2>3. CASE Finish(k)
        <3>1. req'[k].pc = "idle"
            BY <2>3 DEF Finish, Idle
        <3>2. ~Goto(k, "tally") /\ ~Goto(k, "rules")
            BY <3>1, <1>go DEF Pc
        <3>3. vote' = vote
            BY <1>3, <3>2 DEF VoteWrite, VoteDelete
        <3> QED BY <2>1, <3>3 DEF Due
    <2> QED BY <2>2, <2>3
<1>4. CASE RecountLoad(k)
    <2> DEFINE found == {t \in Songs : song[t].status \in Active}
    <2>1. /\ req[k].pc = "load" /\ Goto(k, "rules") /\ local'[k].todo = found
          /\ UNCHANGED <<song, vote, settings>>
        BY <1>4 DEF RecountLoad, At, SetLocal, Blank, queue, people
    <2>2. req'[k].pc = "rules" /\ req'[k].op = req[k].op
        BY <2>1, <1>go DEF Pc
    <2>3. ASSUME req[k].op = "settings" PROVE FALSE
        <3>1. "settings" \in Ops[k]
            BY <2>3 DEF Permitted
        <3>2. s \in local'[k].todo
            BY <2>1, <3>1 DEF Counted
        <3> QED BY <2>2, <2>3, <3>2 DEF Due
    <2> QED BY <2>1, <2>3 DEF Due
<1>5. CASE ReadRules(k)
    <2>1. req[k].pc = "rules" /\ UNCHANGED <<vote, settings>>
        BY <1>5 DEF ReadRules, At, people
    <2>2. CASE ~Finish(k)
        <3>1. /\ Goto(k, "tally")
              /\ SetLocal(k, [local[k] EXCEPT !.rules = settings])
            BY <1>5, <2>2 DEF ReadRules
        <3>2. local'[k].todo = local[k].todo
            BY <3>1 DEF SetLocal, Locals
        <3>3. /\ req'[k].pc = "tally" /\ req'[k].song = req[k].song
              /\ req'[k].op = req[k].op
            BY <3>1, <1>go DEF Pc
        <3> QED BY <2>1, <3>2, <3>3 DEF Due
    <2>3. CASE Finish(k)
        <3>1. ~Goto(k, "tally")
            BY <2>3, <1>go DEF Finish, Idle, Pc
        <3>2. req[k].song = NoSong /\ local[k].todo = {}
            BY <1>5, <3>1 DEF ReadRules
        <3> QED BY <2>1, <3>2, ConstantsAssumption DEF Due
    <2> QED BY <2>2, <2>3
<1>6. CASE Tally(k)
    <2> PICK t \in Songs :
            /\ IF req[k].song = NoSong THEN t \in local[k].todo ELSE t = req[k].song
            /\ req' = [req EXCEPT ![k].pc = "judge", ![k].song = t]
            /\ req[k].pc = "tally"
            /\ UNCHANGED <<vote, local, settings>>
        BY <1>6 DEF Tally, At, people
    <2>1. req'[k].song = t /\ req'[k].pc = "judge" /\ req'[k].op = req[k].op
        BY DEF Request
    <2> QED BY <2>1, ConstantsAssumption DEF Due
<1>7. CASE Judge(k)
    <2>1. /\ req[k].pc = "judge" /\ Goto(k, "store") /\ UNCHANGED <<vote, local, settings>>
        BY <1>7 DEF Judge, At, people
    <2>2. req'[k].pc = "store" /\ req'[k].song = req[k].song /\ req'[k].op = req[k].op
        BY <2>1, <1>go DEF Pc
    <2> QED BY <2>1, <2>2 DEF Due
<1>8. CASE TallySave(k)
    <2> DEFINE left == local[k].todo \ {req[k].song}
    <2>1. req[k].pc = "store" /\ UNCHANGED <<vote, settings>> /\ s # req[k].song
        BY <1>8 DEF TallySave, At, people
    <2>2. CASE left # {}
        <3>1. /\ req' = [req EXCEPT ![k].pc = "tally", ![k].song = NoSong]
              /\ SetLocal(k, [local[k] EXCEPT !.todo = left])
            BY <1>8, <2>2 DEF TallySave
        <3>2. req'[k].pc = "tally" /\ req'[k].op = req[k].op
            BY <3>1 DEF Request
        <3>3. local'[k].todo = left
            BY <3>1 DEF SetLocal, Locals
        <3> QED BY <2>1, <3>2, <3>3 DEF Due
    <2>3. CASE left = {}
        BY <2>1, <2>3 DEF Due
    <2> QED BY <2>2, <2>3
<1>9. \/ UpdateSettings(k)
      \/ /\ ~UpdateSettings(k)
         /\ req[k].pc \notin {"write", "delete", "load", "rules", "tally", "judge", "store"}
      \/ VoteWrite(k) \/ VoteDelete(k) \/ RecountLoad(k) \/ ReadRules(k) \/ Tally(k)
      \/ Judge(k) \/ TallySave(k)
    <2>1. Begin(k) => req[k].pc = "idle"
        BY DEF Begin, SuggestCheck, BindTrack, ModerateLoad, PlayNextDemote,
           RosterChange, SetPremium, UpdateSettings, VoteLoad, Free
    <2> QED BY <2>1 DEF Step, Continue, Abort, SuggestInsert, SendDemote, ModerateSave,
               ApproveCredit, SendCurrent, PlayNextPromote, VoteCheck, At
<1> QED BY <1>1, <1>2, <1>3, <1>4, <1>5, <1>6, <1>7, <1>8, <1>9

\* A song that a recount would pass over now either did not exist yet or was
\* counted before: nothing brings a song back from a terminal status.
LEMMA CountedBefore ==
    ASSUME NEW k \in Requests, OneCounter(k), CountInv(k), NEW r \in Requests, Step(r),
           NEW s \in Songs, Counted(k, s)'
    PROVE  Counted(k, s) \/ song[s].status = "ABSENT"
<1>1. CASE "settings" \notin Ops[k]
    BY <1>1 DEF Counted
<1>2. CASE "settings" \in Ops[k]
    <2>1. Keeper(k) /\ KeeperInv(k)
        BY <1>2 DEF OneCounter, CountInv
    <2>2. song'[s].status \in Active
        BY <1>2 DEF Counted
    <2>3. song[s].status \notin Terminal
        BY <2>1, <2>2, NoRevival DEF Active, Terminal
    <2>4. song[s].status \in Status
        BY DEF CountInv, IInv, TypeOK, StoredOK, Doc
    <2> QED BY <2>3, <2>4 DEF Status, Counted, Active, Terminal
<1> QED BY <1>1, <1>2

\* Before a step, a song whose status may since have entered the list is in step.
LEMMA InStepBefore ==
    ASSUME NEW k \in Requests, OneCounter(k), CountInv(k), NEW r \in Requests, Step(r),
           NEW s \in Songs, Counted(k, s)', ~ Due(k, s)
    PROVE  InStep(s)
<1>1. CASE Counted(k, s)
    BY <1>1 DEF CountInv, OthersInStep
<1>2. CASE song[s].status = "ABSENT"
    BY <1>2, UnvotedInStep DEF CountInv, NoEarlyVotes
<1> QED BY <1>1, <1>2, CountedBefore

LEMMA OthersInStepStep ==
    ASSUME NEW k \in Requests, OneCounter(k), CountInv(k), NEW r \in Requests, Step(r)
    PROVE  OthersInStep(k)'
<1> SUFFICES ASSUME NEW s \in Songs, Counted(k, s)', ~ Due(k, s)'
             PROVE  InStep(s)'
    BY DEF OthersInStep
<1>. IInv /\ Untallied(r) /\ k \notin Faulty
    BY DEF CountInv, OneCounter
<1>1. CASE r # k
    <2>1. /\ UNCHANGED <<vote, settings>>
          /\ song'[s].score = song[s].score /\ song'[s].downs = song[s].downs
          /\ req'[k] = req[k] /\ local'[k] = local[k]
        BY <1>1, ElsewhereStep
    <2>2. ~ Due(k, s)
        BY <2>1 DEF Due
    <2> QED BY <2>1, <2>2, InStepBefore, StaysInStep
<1>2. CASE r = k /\ ~(TallySave(k) /\ s = req[k].song)
    <2>1. /\ ~ Due(k, s) /\ vote'[s] = vote[s]
          /\ settings'.premiumVotes = settings.premiumVotes
        BY <1>2, DueBefore
    <2>2. song'[s].score = song[s].score /\ song'[s].downs = song[s].downs
        BY <1>2, CountsMove
    <2> QED BY <2>1, <2>2, InStepBefore, StaysInStep
<1>3. CASE TallySave(k) /\ s = req[k].song
    <2>1. /\ req[k].pc = "store" /\ UNCHANGED <<vote, settings>>
          /\ song' = [song EXCEPT ![s] = Saved(song[s], seen[k][s], doc[k])]
        BY <1>3 DEF TallySave, At, people
    <2>2. /\ doc[k].score = Weighted(s, 1, settings)
          /\ doc[k].downs = Weighted(s, -1, settings)
          /\ seen[k][s].score = song[s].score /\ seen[k][s].downs = song[s].downs
        BY <1>3, <2>1 DEF CountInv, CountsByRules, SameCounts, Reading
    <2>3. song'[s].score = doc[k].score /\ song'[s].downs = doc[k].downs
        BY <2>1, <2>2 DEF Saved, IInv, TypeOK, StoredOK
    <2> QED BY <2>1, <2>2, <2>3 DEF InStep, Weighted, Voters, PremiumVoters
<1> QED BY <1>1, <1>2, <1>3

\* One step of anybody.
LEMMA CountStep ==
    ASSUME NEW k \in Requests, OneCounter(k), CountInv(k), NEW r \in Requests, Step(r)
    PROVE  CountInv(k)'
<1>. IInv /\ TypeOK /\ Permitted /\ k \notin Faulty
    BY DEF CountInv, IInv, OneCounter
<1>1. IInv' /\ Permitted'
    BY InvariantStep, PermittedStep
<1>2. \A q \in Requests : Untallied(q)'
    <2> TAKE q \in Requests
    <2>1. CASE q = r
        BY <2>1, UntalliedStep DEF CountInv
    <2>2. CASE q # r
        BY <2>2, OneMoves DEF CountInv, Untallied
    <2> QED BY <2>1, <2>2
<1>3. Elsewhere(k)'
    <2> SUFFICES ASSUME NEW q \in Requests \ {k}
                 PROVE  req'[q].pc \notin Reading \cup {"load"}
        BY DEF Elsewhere
    <2>1. CASE q = r
        BY <2>1, ElsewhereStep
    <2>2. CASE q # r
        BY <2>2, OneMoves DEF CountInv, Elsewhere
    <2> QED BY <2>1, <2>2
<1>4. SameCounts(k)' /\ CountsByRules(k)'
    <2>1. CASE r = k
        BY <2>1, SameCountsStep, CountsByRulesStep
    <2>2. CASE r # k
        <3>1. /\ UNCHANGED <<vote, settings>>
              /\ \A s \in Songs : song'[s].score = song[s].score /\ song'[s].downs = song[s].downs
              /\ req'[k] = req[k] /\ local'[k] = local[k]
              /\ seen'[k] = seen[k] /\ doc'[k] = doc[k]
            BY <2>2, ElsewhereStep
        <3>2. SameCounts(k)'
            BY <3>1 DEF CountInv, SameCounts
        <3>3. CountsByRules(k)'
            BY <3>1 DEF CountInv, CountsByRules, Weighted, Voters, PremiumVoters
        <3> QED BY <3>2, <3>3
    <2> QED BY <2>1, <2>2
<1>5. NoEarlyVotes' /\ OthersInStep(k)'
    BY NoEarlyVotesStep, OthersInStepStep DEF CountInv
<1>6. Keeper(k) => KeeperInv(k)'
    BY KeeperStep DEF CountInv
<1> QED BY <1>1, <1>2, <1>3, <1>4, <1>5, <1>6 DEF CountInv, Keeper

LEMMA CountInit ==
    ASSUME NEW k \in Requests, Init
    PROVE  CountInv(k)
<1>1. IInv /\ KeeperInv(k) /\ Permitted
    BY InitInvariant, KeeperInit DEF Init, Permitted, Idle
<1>2. /\ \A r \in Requests : req[r] = Idle
      /\ \A s \in Songs : song[s] = NoDoc /\ \A p \in Attendees : vote[s][p] = NoBallot
    BY DEF Init
<1>3. \A r \in Requests : Untallied(r)
    BY <1>2 DEF Untallied, Idle
<1>4. Elsewhere(k) /\ SameCounts(k) /\ CountsByRules(k)
    BY <1>2 DEF Elsewhere, SameCounts, CountsByRules, Reading, Idle
<1>5. NoEarlyVotes
    BY <1>2 DEF NoEarlyVotes, NoDoc, NoBallot
<1>6. OthersInStep(k)
    BY <1>2, <1>5, UnvotedInStep DEF OthersInStep, NoEarlyVotes, NoDoc
<1> QED BY <1>1, <1>3, <1>4, <1>5, <1>6 DEF CountInv

LEMMA CountStutter ==
    ASSUME NEW k \in Requests, CountInv(k), UNCHANGED vars
    PROVE  CountInv(k)'
<1>1. IInv' /\ Permitted' /\ (Keeper(k) => KeeperInv(k)')
    BY InvariantStutter, KeeperStutter DEF CountInv, Permitted, vars
<1>2. \A r \in Requests : Untallied(r)'
    BY DEF CountInv, Untallied, vars
<1>3. Elsewhere(k)' /\ SameCounts(k)' /\ NoEarlyVotes'
    BY DEF CountInv, Elsewhere, SameCounts, NoEarlyVotes, vars
<1>4. CountsByRules(k)' /\ OthersInStep(k)'
    BY DEF CountInv, CountsByRules, OthersInStep, Counted, Due, InStep, Weighted,
           Voters, PremiumVoters, vars
<1> QED BY <1>1, <1>2, <1>3, <1>4 DEF CountInv, Keeper

\* Between vote handlers the stored counts are the weighted count of the rows: the
\* DJ's saves, however stale, write statuses only (votes.service.js,
\* _recalculateSongVoteState; songs.service.js).
THEOREM OneCounterInStep == SingleCounter => (Spec => []TallyInStep)
<1> SUFFICES ASSUME NEW k \in Requests, OneCounter(k) PROVE Spec => []TallyInStep
    BY DEF SingleCounter
<1>1. Init => CountInv(k)
    BY CountInit
<1>2. CountInv(k) /\ [Next]_vars => CountInv(k)'
    BY CountStep, CountStutter DEF Next, Step
<1>3. CountInv(k) => TallyInStep
    <2> SUFFICES ASSUME CountInv(k), NoTallyInFlight,
                        NEW s \in Songs, song[s].status \in Active
                 PROVE  InStep(s)
        BY DEF TallyInStep, InStep
    <2>1. ~ Due(k, s)
        BY DEF Due, NoTallyInFlight, TallyOps
    <2> QED BY <2>1 DEF CountInv, OthersInStep, Counted
<1> QED BY <1>1, <1>2, <1>3, PTL DEF Spec

-----------------------------------------------------------------------------
(***************************************************************************)
(* VerdictsInForce.  One request that is not cut short decides about songs *)
(* and the ladder is the same in all settings: updateEvent recounts no     *)
(* song when approveLadderThreshold changes.  A recount in flight owes a   *)
(* verdict on the songs it has not come to; a copy about to be saved holds *)
(* one already, which joins over the socket cannot undo since a larger     *)
(* audience only raises the number of downvotes that rejects.              *)
(***************************************************************************)
SteadyKeeper(k) == Keeper(k) /\ k \notin Faulty
SameLadder == \E n \in Nat \ {0} : \A c \in SettingsChoices : c.ladder = n

\* The attendees' votes leave the document as it is.
InForce(d) ==
    d.status \in Active =>
        /\ d.downs < AutoRejectThreshold
        /\ d.status = "PENDING" => d.score < settings.ladder

Owed(k, s) ==
    /\ req[k].op \in TallyOps
    /\ \/ req[k].pc = "load"
       \/ req[k].pc \in {"rules", "tally", "judge", "store"} /\ s \in local[k].todo

OthersInForce(k) == \A s \in Songs : ~Owed(k, s) => InForce(song[s])

VerdictInv(k) ==
    /\ CountInv(k) /\ settings \in SettingsChoices
    /\ OthersInForce(k)
    /\ req[k].pc = "store" => InForce(doc[k])

\* One who decides alone also tallies alone.
LEMMA KeeperCounts ==
    ASSUME NEW k \in Requests, SteadyKeeper(k), CountInv(k)
    PROVE  OneCounter(k) /\ KeeperInv(k) /\ Keeper(k)
BY DEF SteadyKeeper, OneCounter, CountInv, Keeper, Bystanders, TallyOps, Recounting

\* The number of downvotes that rejects a song rises with the audience.
LEMMA ThresholdRises ==
    ASSUME roster \in [Attendees -> {"out", "in", "banned"}],
           \A p \in Attendees : roster[p] = "in" => roster'[p] = "in"
    PROVE  /\ AutoRejectThreshold \in Nat \ {0} /\ AutoRejectThreshold' \in Nat \ {0}
           /\ AutoRejectThreshold <= AutoRejectThreshold'
<1>1. ActiveAttendees \subseteq ActiveAttendees' /\ ActiveAttendees' \subseteq Attendees
    BY DEF ActiveAttendees
<1>2. IsFiniteSet(ActiveAttendees')
    BY <1>1, ConstantsAssumption, FS_Subset
<1> DEFINE before == Cardinality(ActiveAttendees)
           after == Cardinality(ActiveAttendees')
<1>3. before \in Nat /\ after \in Nat /\ before <= after
    BY <1>1, <1>2, FS_Subset, FS_CardinalityType
<1>4. /\ AutoRejectThreshold = (IF before < 2 THEN 1 ELSE (before + 1) \div 2)
      /\ AutoRejectThreshold' = (IF after < 2 THEN 1 ELSE (after + 1) \div 2)
    BY DEF AutoRejectThreshold
<1> HIDE DEF before, after
<1> QED BY <1>3, <1>4

\* Whoever leaves or is banned starts a recount.
LEMMA AudienceGrows ==
    ASSUME TypeOK, NEW r \in Requests, Step(r),
           ~ (req'[r].op \in TallyOps /\ req'[r].pc = "load")
    PROVE  \A p \in Attendees : roster[p] = "in" => roster'[p] = "in"
<1>. roster \in [Attendees -> {"out", "in", "banned"}] /\ req \in [Requests -> Request]
    BY DEF TypeOK, StoredOK, FlightOK
<1>1. UNCHANGED roster \/ RosterChange(r)
    BY DEF Step, Begin, Continue, Abort, SuggestCheck, ModerateLoad, PlayNextDemote,
       SetPremium, UpdateSettings, VoteLoad, SendDemote, BindTrack,
       ApproveCredit, SendCurrent, VoteCheck, VoteWrite, VoteDelete, SuggestInsert,
       RecountLoad, ReadRules, Tally, Judge, ModerateSave, PlayNextPromote,
       TallySave, people
<1>2. CASE RosterChange(r)
    <2> PICK p \in Attendees, op \in {"join", "socketJoin", "leave", "ban"} :
            /\ roster' = [roster EXCEPT ![p] =
                            IF op = "ban" \/ @ = "banned" THEN "banned"
                            ELSE IF op = "leave" THEN "out" ELSE "in"]
            /\ IF op \in Recounting THEN Start(r, op, "load", NoSong) ELSE UNCHANGED req
        BY <1>2 DEF RosterChange
    <2>1. op = "socketJoin"
        BY DEF Start, Recounting, TallyOps
    <2> QED BY <2>1
<1> QED BY <1>1, <1>2

\* A song on which no verdict is owed was owed none before, or has left the queue.
LEMMA OwedBefore ==
    ASSUME NEW k \in Requests, CountInv(k), k \notin Faulty, Step(k),
           NEW s \in Songs, ~ Owed(k, s)', ~ (TallySave(k) /\ s = req[k].song)
    PROVE  ~ Owed(k, s) \/ song'[s].status \notin Active
<1>. /\ req \in [Requests -> Request] /\ req[k] \in Request
     /\ local \in [Requests -> Locals] /\ local[k] \in Locals
    BY DEF CountInv, IInv, TypeOK, FlightOK
<1>go. ASSUME NEW pc \in Pc, Goto(k, pc)
       PROVE  req'[k].pc = pc /\ req'[k].song = req[k].song /\ req'[k].op = req[k].op
    BY <1>go DEF Goto, Request
<1>1. CASE req[k].pc \notin {"load", "rules", "tally", "judge", "store"}
    BY <1>1 DEF Owed
<1>2. CASE RecountLoad(k)
    <2> DEFINE found == {t \in Songs : song[t].status \in Active}
    <2>1. Goto(k, "rules") /\ local'[k].todo = found /\ UNCHANGED song
        BY <1>2 DEF RecountLoad, SetLocal, Blank, queue
    <2>2. req'[k].pc = "rules" /\ req'[k].op = req[k].op
        BY <2>1, <1>go DEF Pc
    <2> QED BY <2>1, <2>2 DEF Owed
<1>3. CASE ReadRules(k)
    <2>1. CASE local[k].todo = {}
        BY <1>3, <2>1 DEF Owed, ReadRules, At
    <2>2. CASE local[k].todo # {}
        <3>1. /\ Goto(k, "tally")
              /\ SetLocal(k, [local[k] EXCEPT !.rules = settings])
              /\ req[k].pc = "rules"
            BY <1>3, <2>2 DEF ReadRules, At
        <3>2. local'[k].todo = local[k].todo
            BY <3>1 DEF SetLocal, Locals
        <3>3. req'[k].pc = "tally" /\ req'[k].op = req[k].op
            BY <3>1, <1>go DEF Pc
        <3> QED BY <3>1, <3>2, <3>3 DEF Owed
    <2> QED BY <2>1, <2>2
<1>4. CASE Tally(k) \/ Judge(k)
    <2>1. /\ req'[k].pc \in {"judge", "store"} /\ req'[k].op = req[k].op
          /\ UNCHANGED local /\ req[k].pc \in {"tally", "judge"}
        <3>1. CASE Judge(k)
            BY <3>1, <1>go DEF Judge, Pc, At
        <3>2. CASE Tally(k)
            <4> PICK t \in Songs : /\ req' = [req EXCEPT ![k].pc = "judge", ![k].song = t]
                                   /\ UNCHANGED local /\ req[k].pc = "tally"
                BY <3>2 DEF Tally, At
            <4> QED BY DEF Request
        <3> QED BY <1>4, <3>1, <3>2
    <2> QED BY <2>1 DEF Owed
<1>5. CASE TallySave(k)
    <2> DEFINE left == local[k].todo \ {req[k].song}
    <2>1. req[k].pc = "store" /\ s # req[k].song
        BY <1>5 DEF TallySave, At
    <2>2. CASE left # {}
        <3>1. /\ req' = [req EXCEPT ![k].pc = "tally", ![k].song = NoSong]
              /\ SetLocal(k, [local[k] EXCEPT !.todo = left])
            BY <1>5, <2>2 DEF TallySave
        <3>2. req'[k].pc = "tally" /\ req'[k].op = req[k].op
            BY <3>1 DEF Request
        <3>3. local'[k].todo = left
            BY <3>1 DEF SetLocal, Locals
        <3> QED BY <2>1, <3>2, <3>3 DEF Owed
    <2>3. CASE left = {}
        BY <2>1, <2>3 DEF Owed
    <2> QED BY <2>2, <2>3
<1>6. \/ req[k].pc \notin {"load", "rules", "tally", "judge", "store"}
      \/ RecountLoad(k) \/ ReadRules(k) \/ Tally(k) \/ Judge(k) \/ TallySave(k)
    <2>1. Begin(k) => req[k].pc = "idle"
        BY DEF Begin, SuggestCheck, BindTrack, ModerateLoad, PlayNextDemote,
           RosterChange, SetPremium, UpdateSettings, VoteLoad, Free
    <2> QED BY <2>1 DEF Step, Continue, Abort, SuggestInsert, SendDemote, ModerateSave,
               ApproveCredit, SendCurrent, PlayNextPromote, VoteCheck, VoteWrite,
               VoteDelete, At
<1> QED BY <1>1, <1>2, <1>3, <1>4, <1>5, <1>6

\* What a step changes of the yardstick: nothing, or in the song's favour.
LEMMA YardstickStep ==
    ASSUME SameLadder, NEW k \in Requests, SteadyKeeper(k), VerdictInv(k),
           NEW r \in Requests, Step(r),
           r = k => ~ (req'[k].op \in TallyOps /\ req'[k].pc = "load")
    PROVE  /\ AutoRejectThreshold \in Nat \ {0} /\ AutoRejectThreshold' \in Nat \ {0}
           /\ AutoRejectThreshold <= AutoRejectThreshold'
           /\ settings'.ladder = settings.ladder /\ settings.ladder \in Nat \ {0}
<1>. TypeOK /\ settings \in SettingsChoices /\ Keeper(k) /\ Beside(k)
    BY KeeperCounts DEF VerdictInv, CountInv, IInv, KeeperInv
<1>1. \A p \in Attendees : roster[p] = "in" => roster'[p] = "in"
    BY AudienceGrows, BesideStep
<1>2. settings' \in SettingsChoices
    BY RowsMove DEF UpdateSettings
<1> QED BY <1>1, <1>2, ThresholdRises DEF SameLadder, TypeOK, StoredOK

\* A song in force stays so, whoever moderates, plays or suggests.
LEMMA StaysInForce ==
    ASSUME SameLadder, NEW k \in Requests, SteadyKeeper(k), VerdictInv(k),
           NEW r \in Requests, Step(r),
           r = k => ~ (req'[k].op \in TallyOps /\ req'[k].pc = "load"),
           NEW s \in Songs, InForce(song[s]), ~ (TallySave(r) /\ s = req[r].song)
    PROVE  InForce(song[s])'
<1>. /\ IInv /\ Untallied(r) /\ NoEarlyVotes /\ Keeper(k) /\ KeeperInv(k)
     /\ song[s] \in Doc
    BY KeeperCounts DEF VerdictInv, CountInv, IInv, TypeOK, StoredOK
<1>1. song'[s].score = song[s].score /\ song'[s].downs = song[s].downs
    BY CountsMove
<1>2. /\ AutoRejectThreshold \in Nat \ {0} /\ AutoRejectThreshold' \in Nat \ {0}
      /\ AutoRejectThreshold <= AutoRejectThreshold'
      /\ settings'.ladder = settings.ladder /\ settings.ladder \in Nat \ {0}
    BY YardstickStep
<1>3. song[s].downs \in Nat /\ song[s].score \in Nat /\ song[s].status \in Status
    BY DEF Doc
<1>4. CASE song[s].status = "ABSENT"
    <2>1. song'[s].score = 0 /\ song'[s].downs = 0
        BY <1>1, <1>4 DEF NoEarlyVotes
    <2> QED BY <1>2, <2>1 DEF InForce
<1>5. CASE song[s].status \in Terminal
    <2>1. song'[s].status = song[s].status
        BY <1>5, NoRevival
    <2> QED BY <1>5, <2>1 DEF InForce, Active, Terminal
<1>6. CASE song[s].status \in Active
    <2>1. song'[s].status = "PENDING" => song[s].status = "PENDING"
        BY <1>6, StepForward DEF Forward, Waiting, Active
    <2> QED BY <1>1, <1>2, <1>3, <1>6, <2>1 DEF InForce
<1> QED BY <1>3, <1>4, <1>5, <1>6 DEF Status, Active, Terminal

\* A handler comes to a tally's save by way of the verdict only.
LEMMA StoresJudged ==
    ASSUME TypeOK, NEW k \in Requests, Step(k), req'[k].pc = "store"
    PROVE  Judge(k)
<1>. req \in [Requests -> Request] /\ req[k] \in Request
    BY DEF TypeOK, FlightOK
<1>1. ASSUME NEW op, NEW pc \in Pc \ {"store"}, NEW s, Start(k, op, pc, s)
      PROVE  FALSE
    BY <1>1 DEF Start
<1>2. ASSUME NEW pc \in Pc \ {"store"}, Goto(k, pc)
      PROVE  FALSE
    BY <1>2 DEF Goto, Request
<1>3. ~ Finish(k)
    BY DEF Finish, Idle
<1>4. ~ Begin(k)
    <2>1. Begin(k) => req[k].pc = "idle"
        BY DEF Begin, SuggestCheck, BindTrack, ModerateLoad, PlayNextDemote,
           RosterChange, SetPremium, UpdateSettings, VoteLoad, Free
    <2> QED BY <1>1, <2>1 DEF Begin, SuggestCheck, BindTrack, ModerateLoad, PlayNextDemote,
           RosterChange, SetPremium, UpdateSettings, VoteLoad, flight, Pc
<1>5. ~ Tally(k) /\ ~ TallySave(k)
    <2>1. ASSUME NEW pc \in {"judge", "tally"}, NEW s,
                 req' = [req EXCEPT ![k].pc = pc, ![k].song = s]
          PROVE  FALSE
        BY <2>1 DEF Request
    <2> QED BY <1>3, <2>1 DEF Tally, TallySave
<1>6. Continue(k) /\ ~Tally(k) /\ ~TallySave(k) /\ ~Judge(k) =>
        Finish(k) \/ \E pc \in Pc \ {"store"} : Goto(k, pc)
    BY DEF Continue, SuggestInsert, SendDemote, ModerateSave, ApproveCredit,
       SendCurrent, PlayNextPromote, VoteCheck, VoteWrite, VoteDelete,
       RecountLoad, ReadRules, Pc
<1> QED BY <1>2, <1>3, <1>4, <1>5, <1>6 DEF Step, Abort

\* The copy that a tally is about to save holds its verdict.
LEMMA CopyInForce ==
    ASSUME SameLadder, NEW k \in Requests, SteadyKeeper(k), VerdictInv(k),
           NEW r \in Requests, Step(r), req'[k].pc = "store"
    PROVE  InForce(doc[k])'
<1>. /\ TypeOK /\ CountsByRules(k) /\ doc[k] \in Doc
     /\ req \in [Requests -> Request] /\ req[k] \in Request
     /\ doc \in [Requests -> Doc] /\ settings \in SettingsType
    BY DEF VerdictInv, CountInv, IInv, TypeOK, FlightOK, StoredOK
<1>1. CASE r # k
    <2>1. req'[k] = req[k] /\ doc'[k] = doc[k]
        BY <1>1, OneMoves
    <2>2. InForce(doc[k])
        BY <2>1 DEF VerdictInv
    <2>3. /\ AutoRejectThreshold \in Nat \ {0} /\ AutoRejectThreshold' \in Nat \ {0}
          /\ AutoRejectThreshold <= AutoRejectThreshold'
          /\ settings'.ladder = settings.ladder
        BY <1>1, YardstickStep
    <2>4. doc[k].downs \in Nat
        BY DEF Doc
    <2> QED BY <2>1, <2>2, <2>3, <2>4 DEF InForce
<1>2. CASE r = k
    <2>1. Judge(k)
        BY <1>2, StoresJudged
    <2> DEFINE verdict == Judged(doc[k], local[k].rules)
    <2>2. /\ req[k].pc = "judge" /\ doc' = [doc EXCEPT ![k].status = verdict]
          /\ UNCHANGED <<roster, settings>>
        BY <2>1 DEF Judge, At, people
    <2>3. local[k].rules = settings
        BY <2>2 DEF CountsByRules
    <2>4. /\ doc'[k].status = Judged(doc[k], settings)
          /\ doc'[k].score = doc[k].score /\ doc'[k].downs = doc[k].downs
        BY <2>2, <2>3 DEF Doc
    <2>5. AutoRejectThreshold' = AutoRejectThreshold /\ AutoRejectThreshold \in Nat
        BY <2>2, ThresholdRises DEF TypeOK, StoredOK, AutoRejectThreshold, ActiveAttendees
    <2>6. doc[k].downs \in Nat /\ doc[k].score \in Nat /\ settings.ladder \in Nat
        BY DEF Doc, SettingsType
    <2> QED BY <2>2, <2>4, <2>5, <2>6 DEF InForce, Judged, Active
<1> QED BY <1>1, <1>2

LEMMA VerdictStep ==
    ASSUME SameLadder, NEW k \in Requests, SteadyKeeper(k), VerdictInv(k),
           NEW r \in Requests, Step(r)
    PROVE  VerdictInv(k)'
<1>. /\ CountInv(k) /\ OneCounter(k) /\ KeeperInv(k) /\ k \notin Faulty
     /\ OthersInForce(k) /\ IInv
    BY KeeperCounts DEF VerdictInv, SteadyKeeper, CountInv
<1>1. CountInv(k)' /\ settings' \in SettingsChoices
    BY CountStep, RowsMove DEF VerdictInv, UpdateSettings
<1>2. req'[k].pc = "store" => InForce(doc[k])'
    BY CopyInForce
<1>3. OthersInForce(k)'
    <2> SUFFICES ASSUME NEW s \in Songs, ~ Owed(k, s)'
                 PROVE  InForce(song[s])'
        BY DEF OthersInForce
    <2>0. ~ (req'[k].op \in TallyOps /\ req'[k].pc = "load")
        BY DEF Owed
    <2>1. CASE TallySave(r) /\ s = req[r].song
        <3>1. r = k /\ req[k].pc = "store"
            BY <2>1 DEF TallySave, At, KeeperInv, Beside
        <3>2. /\ song' = [song EXCEPT ![s] = Saved(song[s], seen[k][s], doc[k])]
              /\ UNCHANGED <<roster, settings>>
            BY <2>1, <3>1 DEF TallySave, people
        <3>3. seen[k][s] = song[s]
            BY <2>1, <3>1 DEF KeeperInv, Exact, Holds, Reading
        <3>4. /\ song'[s].status = doc[k].status /\ song'[s].score = doc[k].score
              /\ song'[s].downs = doc[k].downs
            BY <3>2, <3>3 DEF Saved, IInv, TypeOK, StoredOK
        <3>5. InForce(doc[k])
            BY <3>1 DEF VerdictInv
        <3> QED BY <3>2, <3>4, <3>5 DEF InForce, AutoRejectThreshold, ActiveAttendees
    <2>2. CASE ~ (TallySave(r) /\ s = req[r].song)
        <3>1. ~ Owed(k, s) \/ song'[s].status \notin Active
            <4>1. CASE r = k
                BY <2>2, <4>1, OwedBefore
            <4>2. CASE r # k
                BY <4>2, OneMoves DEF Owed, IInv
            <4> QED BY <4>1, <4>2
        <3>2. CASE ~ Owed(k, s)
            BY <2>0, <2>2, <3>2, StaysInForce DEF OthersInForce
        <3>3. CASE song'[s].status \notin Active
            BY <3>3 DEF InForce
        <3> QED BY <3>1, <3>2, <3>3
    <2> QED BY <2>1, <2>2
<1> QED BY <1>1, <1>2, <1>3 DEF VerdictInv

\* Between handlers no verdict of the votes is left unapplied, for an event that
\* keeps its ladder and whose songs one request at a time decides about, whoever
\* joins over the socket meanwhile (votes.service.js, _applyLadderEffects and
\* _applyAutoReject; recomputeActiveSongsForEvent).
THEOREM KeeperLeavesNoVerdict ==
    SameLadder /\ (\E k \in Requests : SteadyKeeper(k)) => (Spec => []VerdictsInForce)
<1> SUFFICES ASSUME SameLadder, NEW k \in Requests, SteadyKeeper(k)
             PROVE  Spec => []VerdictsInForce
    OBVIOUS
<1>1. Init => VerdictInv(k)
    <2> SUFFICES ASSUME Init PROVE VerdictInv(k)
        OBVIOUS
    <2>1. /\ \A s \in Songs : song[s].status = "ABSENT"
          /\ req[k].pc = "idle" /\ settings \in SettingsChoices
        BY DEF Init, NoDoc, Idle
    <2> QED BY <2>1, CountInit DEF VerdictInv, OthersInForce, InForce, Active
<1>2. VerdictInv(k) /\ [Next]_vars => VerdictInv(k)'
    <2>1. ASSUME VerdictInv(k), UNCHANGED vars PROVE VerdictInv(k)'
        BY <2>1, CountStutter DEF VerdictInv, OthersInForce, Owed, InForce,
           AutoRejectThreshold, ActiveAttendees, vars
    <2> QED BY <2>1, VerdictStep DEF Next, Step
<1>3. VerdictInv(k) => VerdictsInForce
    <2> SUFFICES ASSUME VerdictInv(k), NoTallyInFlight,
                        NEW s \in Songs, song[s].status \in Active
                 PROVE  Judged(song[s], settings) = song[s].status
        BY DEF VerdictsInForce
    <2>1. InForce(song[s])
        BY DEF VerdictInv, OthersInForce, Owed, NoTallyInFlight
    <2>2. /\ TypeOK /\ song[s].downs \in Nat /\ song[s].score \in Nat
          /\ settings.ladder \in Nat /\ AutoRejectThreshold \in Nat
        <3>1. TypeOK
            BY DEF VerdictInv, CountInv, IInv
        <3>2. ActiveAttendees \subseteq Attendees
            BY DEF ActiveAttendees
        <3>3. Cardinality(ActiveAttendees) \in Nat
            BY <3>2, ConstantsAssumption, FS_Subset, FS_CardinalityType
        <3> QED BY <3>1, <3>3 DEF TypeOK, StoredOK, Doc, SettingsType, AutoRejectThreshold
    <2> QED BY <2>1, <2>2 DEF InForce, Judged
<1> QED BY <1>1, <1>2, <1>3, PTL DEF Spec

=============================================================================
