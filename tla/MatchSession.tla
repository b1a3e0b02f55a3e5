---------------------------- MODULE MatchSession ----------------------------
(***************************************************************************)
(* The live audio matcher of one event: the per-socket state machine of    *)
(* match-session.js, the socket handlers of socket/audio.js that feed it,  *)
(* the registry that fans queue events out to every session, and the       *)
(* queue lookups of queue-linker.js.                                       *)
(*                                                                         *)
(* Which track a chunk of audio sounds like is the environment's choice.   *)
(* A call is a socket or REST handler in flight; one action is a stretch   *)
(* of it between two awaits that touch shared state.  The hold window, the *)
(* spacing of two revocation votes and the duration of a playing song are  *)
(* clocks, modelled as choices.                                            *)
(*                                                                         *)
(* resolveThresholds supplies neither minMatchQueryHashes nor              *)
(* reMatchDebounceMs, so in the running server comparisons with them are   *)
(* false: no session is ever "warming", and no hold is re-evaluated.       *)
(***************************************************************************)
EXTENDS Naturals, SequencesExt

CONSTANTS
    Phones,     \* sockets that stream audio
    Sessions,   \* MatchSession objects that can be alive at the same time
    Tracks,     \* fingerprinted tracks of the event
    Calls,      \* handlers that can be in flight at the same time
    Ops,        \* the handlers each call may run
    Alone,      \* bound: handlers that run only while no other is in flight,
                \* chunks that wait for a stream to open aside
    NoTrack, NoSession, NoPhone

OpNames == {"start", "chunk", "stop", "approve", "leave", "sendNow", "djSend",
            "vote"}

MinPersistentChunks == 2
RequiredConfirmations == 2

ASSUME ConstantsAssumption ==
    /\ NoTrack \notin Tracks
    /\ NoSession \notin Sessions
    /\ NoPhone \notin Phones
    /\ Ops \in [Calls -> SUBSET OpNames]
    /\ Alone \subseteq OpNames

VARIABLES
    queue,      \* the statuses of the songs bound to each track
    current,    \* socket.audioMatch.session of each phone
    guard,      \* socket.audioMatch.autoSentTrackId
    loading,    \* socket._audioMatchLoading
    registered, \* the event's bucket of match-session-registry.js
    owner,      \* the socket a session's diffs are emitted to
    sess,       \* the fields of each MatchSession
    told,       \* the lock each phone was last told of
    call,       \* control state and locals of each handler
    fan         \* progress of each call's applyQueueEvent on each session

sockets == <<current, guard, loading>>
registry == <<registered, owner>>
vars == <<queue, current, guard, loading, registered, owner, sess, told, call, fan>>

TrackOrNone == Tracks \cup {NoTrack}
Context == SUBSET {"APPROVED", "PLAYING"}

Fresh == [state |-> "idle", track |-> NoTrack, ctx |-> {}, heard |-> 0,
          due |-> FALSE, rival |-> NoTrack, votes |-> 0]
Idle == [op |-> "none", pc |-> "idle", phone |-> NoPhone, sess |-> NoSession,
         was |-> NoTrack, track |-> NoTrack, ctx |-> {}, event |-> "none",
         plan |-> <<>>]
NoFan == [pc |-> "none", target |-> NoTrack, track |-> NoTrack, ctx |-> {},
          diffs |-> <<>>]

-----------------------------------------------------------------------------
(* The state machine of one session.  Each operator returns the session    *)
(* and the diffs that matter to a listener: locked and released.           *)

Diff(kind, track) == [kind |-> kind, track |-> track]

DroppedStillHeld(s) ==                                             \* mutant
    [sess |-> [s EXCEPT !.track = NoTrack], diffs |-> <<>>]
Dropped(s) ==
    [sess |-> Fresh,
     diffs |-> IF s.track = NoTrack THEN <<>> ELSE <<Diff("released", s.track)>>]

LockedSilently(s) ==                                               \* mutant
    [sess |-> [s EXCEPT !.state = "locked"], diffs |-> <<>>]
Locked(s) ==
    IF s.track = NoTrack \/ s.state = "locked" THEN [sess |-> s, diffs |-> <<>>]
    ELSE [sess |-> [s EXCEPT !.state = "locked"],
          diffs |-> <<Diff("locked", s.track)>>]

NewHold(s, track, ctx) ==
    [sess |-> [s EXCEPT !.state = "holding", !.track = track, !.ctx = ctx,
                        !.heard = 1, !.due = FALSE],
     diffs |-> IF s.track = NoTrack THEN <<>> ELSE <<Diff("released", s.track)>>]

\* _maybeStartHold.  A new top match replaces the candidate and starts over.
Held(s, track, ctx) ==
    IF s.track # track THEN NewHold(s, track, ctx)
    ELSE [sess |-> [s EXCEPT !.ctx = ctx,
                             !.heard = IF @ < MinPersistentChunks THEN @ + 1 ELSE @],
          diffs |-> <<>>]

ReadyToLock(s) ==
    /\ s.state = "holding"
    /\ s.heard >= MinPersistentChunks
    /\ s.due

\* The rest of addChunk once the ranking has been joined with the queue.
JudgedWithoutWindow(s, top, ctx) ==                                \* mutant
    IF top = NoTrack THEN Dropped(s)
    ELSE LET held == Held(s, top, ctx)
             lock == Locked(held.sess)
         IN [sess |-> lock.sess, diffs |-> held.diffs \o lock.diffs]
Judged(s, top, ctx) ==
    IF top = NoTrack THEN Dropped(s)
    ELSE LET held == Held(s, top, ctx)
             lock == Locked(held.sess)
         IN IF ReadyToLock(held.sess)
            THEN [sess |-> lock.sess, diffs |-> held.diffs \o lock.diffs]
            ELSE held

\* _evaluateAudioRevocation after its await; lockedTrack was read before it.
Revoked(s, lockedTrack, top, ctx, spaced) ==
    IF top = NoTrack \/ lockedTrack = NoTrack \/ top = lockedTrack THEN
        [sess |-> [s EXCEPT !.rival = NoTrack, !.votes = 0], diffs |-> <<>>]
    ELSE IF s.rival # top THEN
        [sess |-> [s EXCEPT !.rival = top, !.votes = 1], diffs |-> <<>>]
    ELSE IF s.votes + 1 < RequiredConfirmations \/ ~spaced THEN
        [sess |-> [s EXCEPT !.votes = IF @ < RequiredConfirmations THEN @ + 1 ELSE @],
         diffs |-> <<>>]
    ELSE LET dropped == Dropped(s)
             held == Held(dropped.sess, top, ctx)
         IN [sess |-> held.sess, diffs |-> dropped.diffs \o held.diffs]

\* `now - lastReEvalAt > matchSession.reMatchDebounceMs`, which is undefined.
DebounceElapsed == FALSE
ReEvaluated(s) == IF DebounceElapsed /\ ReadyToLock(s) THEN Locked(s).sess ELSE s

\* applyDjIntent.
IntendedAdopting(s, track) ==                                      \* mutant
    [sess |-> IF s.track = NoTrack THEN s ELSE [s EXCEPT !.track = track],
     diffs |-> <<>>]
Intended(s, track) ==
    IF s.track = NoTrack THEN [sess |-> s, diffs |-> <<>>]
    ELSE IF s.track = track THEN Locked(s)
    ELSE Dropped(s)

\* _lockedCandidateHasFinished; over says the song has run its duration.
Finished(s, over) == s.state = "locked" /\ "PLAYING" \in s.ctx /\ over

\* applyQueueEvent from its first await to its second: the queue's target
\* first, then what the event itself says.
AfterTarget(s, target) ==
    LET playing == "PLAYING" \in s.ctx
    IN IF \/ /\ target \notin {NoTrack, s.track}
             /\ ~playing \/ s.state = "locked"
          \/ target = NoTrack /\ s.state # "locked" /\ ~playing
       THEN Dropped(s)
       ELSE [sess |-> s, diffs |-> <<>>]
AfterEvent(s, event, track) ==
    CASE s.track = NoTrack -> [sess |-> s, diffs |-> <<>>]
      [] s.track # NoTrack /\ event = "now_playing" /\ track \notin {NoTrack, s.track} ->
            Dropped(s)
      [] s.track # NoTrack /\ event = "now_playing" /\ track = s.track -> Locked(s)
      [] s.track # NoTrack /\ event = "left_playing" /\ track = s.track
           /\ s.state = "locked" /\ "PLAYING" \in s.ctx -> Dropped(s)
      [] OTHER -> [sess |-> s, diffs |-> <<>>]
Applied(s, event, track, target) ==
    LET first == AfterTarget(s, target)
        second == AfterEvent(first.sess, event, track)
    IN [sess |-> second.sess, diffs |-> first.diffs \o second.diffs]

\* The rest of applyQueueEvent: the candidate is overwritten with the track
\* that was sent to the queue lookup and the context that came back.
MergedForgetful(s, track, ctx) == [sess |-> s, diffs |-> <<>>]     \* mutant
Merged(s, track, ctx) ==
    LET merged == [s EXCEPT !.track = track, !.ctx = ctx]
    IN IF s.state = "locked" /\ ctx = {} THEN Dropped(merged)
       ELSE [sess |-> merged, diffs |-> <<>>]

-----------------------------------------------------------------------------
(* Delivery of the diffs to the phone that owns a session. *)

Only(s, diffs) == [t \in Sessions |-> IF t = s THEN diffs ELSE <<>>]

\* The last diff that reaches a phone says which lock stands.
LastTold(known, diffs) ==
    IF diffs = <<>> THEN known
    ELSE IF Last(diffs).kind = "locked" THEN Last(diffs).track ELSE NoTrack

Speakers(p, out) == {s \in Sessions : owner[s] = p /\ out[s] # <<>>}

\* emitMatchDiff.  When two sessions of one phone speak, either is heard last.
Tell(out) ==
    /\ told' \in [Phones -> TrackOrNone]
    /\ \A p \in Phones :
          IF Speakers(p, out) = {} THEN told'[p] = told[p]
          ELSE \E s \in Speakers(p, out) : told'[p] = LastTold(told[p], out[s])

\* A released track may be sent automatically again.
KeptGuard(out) == guard                                            \* mutant
Unguarded(out) ==
    [p \in Phones |->
       IF \E s \in Speakers(p, out) : Contains(out[s], Diff("released", guard[p]))
       THEN NoTrack ELSE guard[p]]

-----------------------------------------------------------------------------
(* Calls. *)

At(c, pc) == call[c].pc = pc
Quiet == \A c \in Calls : At(c, "idle")
MayStart(c, op) ==
    /\ At(c, "idle")
    /\ op \in Ops[c]
    /\ op \in Alone => \A d \in Calls : At(d, "idle") \/ At(d, "autoOpen")
    /\ \A d \in Calls : call[d].op \in Alone => op = "chunk" /\ At(d, "autoOpen")
Begin(c, op, p, pc) ==
    /\ MayStart(c, op)
    /\ call' = [call EXCEPT ![c] = [Idle EXCEPT !.op = op, !.phone = p, !.pc = pc]]
Finish(c) == call' = [call EXCEPT ![c] = Idle]

\* Where a chunk or a stop goes on once the diffs are out.
Resume(c) == IF call[c].op = "stop" THEN "reset" ELSE "reEvaluate"

\* applyQueueEventToEvent: every registered session starts on the event.
FanOut(c, bucket) ==
    fan' = [fan EXCEPT ![c] =
              [s \in Sessions |-> IF s \in bucket THEN [NoFan EXCEPT !.pc = "target"]
                                  ELSE NoFan]]

\* Next to the objects a record or a call names, slots hold garbage.
Free(s) ==
    /\ s \notin registered
    /\ \A p \in Phones : current[p] # s
    /\ \A c \in Calls : call[c].sess # s /\ fan[c][s].pc = "none"

\* A new record in socket.audioMatch: its session, registered, and no guard.
\* The dropped sessions leave the registry after a silent reset.
OpenWith(p, s, dropped) ==
    /\ Free(s)
    /\ sess' = [t \in Sessions |-> IF t \in dropped \cup {s} THEN Fresh ELSE sess[t]]
    /\ owner' = [owner EXCEPT ![s] = p]
    /\ registered' = (registered \ dropped) \cup {s}
    /\ current' = [current EXCEPT ![p] = s]
    /\ guard' = [guard EXCEPT ![p] = NoTrack]

\* handleAudioMatchStart: access check and loadEvent are awaited, then the
\* old session goes and its reset diffs go with it.
Start(c, p) ==
    /\ Begin(c, "start", p, "open")
    /\ UNCHANGED <<queue, sockets, registry, sess, told, fan>>
OpenBesides(c) ==                                                  \* mutant
    /\ At(c, "open")
    /\ \E s \in Sessions : OpenWith(call[c].phone, s, {})
    /\ Finish(c)
    /\ UNCHANGED <<queue, loading, told, fan>>
Open(c) ==
    /\ At(c, "open")
    /\ \E s \in Sessions :
          OpenWith(call[c].phone, s, {current[call[c].phone]} \ {NoSession})
    /\ Finish(c)
    /\ UNCHANGED <<queue, loading, told, fan>>

\* What addChunk does before its first await: a locked session remembers
\* its track.  A chunk without usable hashes skips to the end.
Listening(c, op, p, s) ==
    \E heard \in BOOLEAN :
       call' = [call EXCEPT ![c] = [Idle EXCEPT !.op = op, !.phone = p, !.sess = s,
          !.was = sess'[s].track,
          !.pc = IF ~heard THEN Resume(c)
                 ELSE IF sess'[s].state = "locked" THEN "revoke" ELSE "match"]]

\* handleAudioMatchChunk.
Chunk(c, p) ==
    /\ MayStart(c, "chunk")
    /\ current[p] # NoSession
    /\ UNCHANGED <<queue, sockets, registry, sess, told, fan>>
    /\ Listening(c, "chunk", p, current[p])
ChunkStarts(c, p) ==
    /\ current[p] = NoSession /\ ~loading[p]
    /\ Begin(c, "chunk", p, "autoOpen")
    /\ loading' = [loading EXCEPT ![p] = TRUE]
    /\ UNCHANGED <<queue, current, guard, registry, sess, told, fan>>
AutoOpen(c) ==
    /\ At(c, "autoOpen")
    /\ \E s \in Sessions :
          /\ OpenWith(call[c].phone, s, {})
          /\ Listening(c, "chunk", call[c].phone, s)
    /\ loading' = [loading EXCEPT ![call[c].phone] = FALSE]
    /\ UNCHANGED <<queue, told, fan>>
AutoOpenFails(c) ==
    /\ At(c, "autoOpen")
    /\ loading' = [loading EXCEPT ![call[c].phone] = FALSE]
    /\ Finish(c)
    /\ UNCHANGED <<queue, current, guard, registry, sess, told, fan>>

\* A chunk while another one starts the session waits 100 ms, once.
ChunkWaits(c, p) ==
    /\ current[p] = NoSession /\ loading[p]
    /\ Begin(c, "chunk", p, "pause")
    /\ UNCHANGED <<queue, sockets, registry, sess, told, fan>>
Pause(c) ==
    /\ At(c, "pause")
    /\ UNCHANGED <<queue, sockets, registry, sess, told, fan>>
    /\ LET s == current[call[c].phone]
       IN IF s = NoSession THEN Finish(c) ELSE Listening(c, "chunk", call[c].phone, s)

\* RamMatcher.match, isConfidentWinner and enrichMatchesWithQueueContext:
\* the winner, if there is one, and the statuses of its songs.
Match(c, top) ==
    /\ call[c].pc \in {"match", "revoke"}
    /\ call' = [call EXCEPT
          ![c].pc = IF @ = "match" THEN "judge" ELSE "weigh",
          ![c].ctx = IF top = NoTrack THEN {} ELSE queue[top],
          ![c].track = top]
    /\ UNCHANGED <<queue, sockets, registry, sess, told, fan>>

\* sendLockedUpNextNow from its guard to its next await.  Without a record
\* in socket.audioMatch the assignment throws and the handler ends.
SendIfApproved(c, p, track, ctx, cleared) ==
    /\ fan' = [fan EXCEPT ![c] = [s \in Sessions |-> NoFan]]
    /\ IF "APPROVED" \notin ctx THEN
          /\ guard' = cleared
          /\ call' = [call EXCEPT ![c].pc = Resume(c), ![c].track = NoTrack, ![c].ctx = {}]
       ELSE IF current[p] = NoSession THEN
          /\ guard' = cleared
          /\ Finish(c)
       ELSE
          /\ guard' = [cleared EXCEPT ![p] = track]
          /\ call' = [call EXCEPT ![c].pc = "sending", ![c].track = track]

\* emitMatchDiffAndActions on the diffs of addChunk; a lock comes last.
Deliver(c, s, result) ==
    LET p == call[c].phone
        out == Only(s, result.diffs)
        cleared == Unguarded(out)
        track == result.sess.track
        ctx == result.sess.ctx
    IN /\ sess' = [sess EXCEPT ![s] = result.sess]
       /\ Tell(out)
       /\ IF \/ result.diffs = <<>>
             \/ Last(result.diffs).kind # "locked"
             \/ cleared[p] = track
          THEN /\ guard' = cleared
               /\ call' = [call EXCEPT ![c].pc = Resume(c), ![c].track = NoTrack,
                                       ![c].ctx = {}]
               /\ UNCHANGED fan
          ELSE IF "PLAYING" \in ctx
          THEN /\ guard' = cleared
               /\ call' = [call EXCEPT ![c].pc = "fan", ![c].track = track,
                     ![c].ctx = ctx, ![c].event = "now_playing", ![c].plan = <<"send">>]
               /\ FanOut(c, registered)
          ELSE SendIfApproved(c, p, track, ctx, cleared)

Judge(c) ==
    /\ At(c, "judge")
    /\ LET s == call[c].sess
       IN Deliver(c, s, Judged(sess[s], call[c].track, call[c].ctx))
    /\ UNCHANGED <<queue, current, loading, registry>>
Weigh(c, spaced) ==
    /\ At(c, "weigh")
    /\ LET s == call[c].sess
       IN Deliver(c, s, Revoked(sess[s], call[c].was, call[c].track, call[c].ctx, spaced))
    /\ UNCHANGED <<queue, current, loading, registry>>

\* sendMatchedTrackNow puts an approved song of the track on; the song that
\* was playing has been played.  It fails on a song that plays already, and
\* the announcement that follows a written queue may fail as well.
Played(track) ==
    [t \in Tracks |-> IF t = track THEN {"PLAYING"} ELSE queue[t] \ {"PLAYING"}]
SendNow(c) ==
    /\ At(c, "sending")
    /\ "APPROVED" \in queue[call[c].track]
    /\ queue' = Played(call[c].track)
    /\ call' = [call EXCEPT ![c].pc = "fan", ![c].event = "now_playing",
                            ![c].plan = <<"queue_updated">>]
    /\ FanOut(c, registered)
    /\ UNCHANGED <<sockets, registry, sess, told>>
SendFails(c) ==
    /\ At(c, "sending")
    /\ LET p == call[c].phone
           s == current[p]
       IN IF s = NoSession
          THEN /\ Finish(c)
               /\ UNCHANGED <<guard, sess, told>>
          ELSE LET dropped == Dropped(sess[s])
               IN /\ sess' = [sess EXCEPT ![s] = dropped.sess]
                  /\ Tell(Only(s, dropped.diffs))
                  /\ guard' = [guard EXCEPT ![p] = NoTrack]
                  /\ call' = [call EXCEPT ![c].pc = Resume(c), ![c].track = NoTrack,
                                          ![c].ctx = {}]
    /\ queue' \in {queue} \cup IF "APPROVED" \in queue[call[c].track]
                              THEN {Played(call[c].track)} ELSE {}
    /\ UNCHANGED <<current, loading, registry, fan>>

\* The end of a chunk: the promotion of a hold whose window has elapsed.
ReEvaluate(c) ==
    /\ At(c, "reEvaluate")
    /\ sess' = [sess EXCEPT ![call[c].sess] = ReEvaluated(@)]
    /\ Finish(c)
    /\ UNCHANGED <<queue, sockets, registry, told, fan>>

\* handleAudioMatchStop: the tail of the audio is one more chunk.
Stop(c, p) ==
    /\ MayStart(c, "stop")
    /\ current[p] # NoSession
    /\ UNCHANGED <<queue, sockets, registry, sess, told, fan>>
    /\ \E heard \in BOOLEAN :
         call' = [call EXCEPT ![c] = [Idle EXCEPT !.op = "stop", !.phone = p,
            !.sess = current[p], !.was = sess[current[p]].track,
            !.pc = IF ~heard THEN "reset"
                   ELSE IF sess[current[p]].state = "locked" THEN "revoke" ELSE "match"]]
Reset(c) ==
    /\ At(c, "reset")
    /\ LET s == call[c].sess
           dropped == Dropped(sess[s])
       IN /\ sess' = [sess EXCEPT ![s] = dropped.sess]
          /\ Tell(Only(s, dropped.diffs))
          /\ registered' = registered \ {s}
    /\ guard' = [guard EXCEPT ![call[c].phone] = NoTrack]
    /\ current' = [current EXCEPT ![call[c].phone] = NoSession]
    /\ Finish(c)
    /\ UNCHANGED <<queue, loading, owner, fan>>

-----------------------------------------------------------------------------
(* The queue changes, and every live session hears of it. *)

\* A handler has written the queue; it announces first, then the rest.
Announce(c, op, track, first, rest) ==
    /\ MayStart(c, op)
    /\ call' = [call EXCEPT ![c] = [Idle EXCEPT !.op = op, !.pc = "fan",
          !.track = track, !.event = first, !.plan = rest]]
    /\ FanOut(c, registered)

\* handleApproveSong, or the REST route, which only says queue_updated.
Approve(c, t) ==
    /\ "APPROVED" \notin queue[t]
    /\ queue' = [queue EXCEPT ![t] = @ \cup {"APPROVED"}]
    /\ \E rest \in {<<>>, <<"queue_updated">>} :
          Announce(c, "approve", t, "queue_updated", rest)
    /\ UNCHANGED <<sockets, registry, sess, told>>

\* A vote or a suggestion: the sessions are told, their tracks are as before.
Stir(c) ==
    /\ Announce(c, "vote", NoTrack, "queue_updated", <<>>)
    /\ UNCHANGED <<queue, sockets, registry, sess, told>>

\* A song is skipped or rejected over the socket, which says so.
Leave(c, t, status) ==
    /\ status \in queue[t]
    /\ queue' = [queue EXCEPT ![t] = @ \ {status}]
    /\ Announce(c, "leave", t, "left_playing", <<"queue_updated">>)
    /\ UNCHANGED <<sockets, registry, sess, told>>

\* The REST routes tell the sessions only that the queue has changed.
LeaveQuietly(c, t, status) ==
    /\ status \in queue[t]
    /\ queue' = [queue EXCEPT ![t] = @ \ {status}]
    /\ Announce(c, "leave", t, "queue_updated", <<>>)
    /\ UNCHANGED <<sockets, registry, sess, told>>

\* The DJ's sendNow or playNext.
PutOn(c, t) ==
    /\ "APPROVED" \in queue[t]
    /\ queue' = Played(t)
    /\ Announce(c, "sendNow", t, "now_playing", <<"queue_updated">>)
    /\ UNCHANGED <<sockets, registry, sess, told>>

\* applyDjIntentToEvent: every session at once, without an await.
IntentOnAll(t) ==
    [s \in Sessions |-> IF s \in registered THEN Intended(sess[s], t)
                        ELSE [sess |-> sess[s], diffs |-> <<>>]]

\* The DJ sends a recognised track.
DjSend(c, t) ==
    /\ "APPROVED" \in queue[t]
    /\ queue' = Played(t)
    /\ LET result == IntentOnAll(t)
           out == [s \in Sessions |-> result[s].diffs]
       IN /\ sess' = [s \in Sessions |-> result[s].sess]
          /\ Tell(out)
          /\ guard' = Unguarded(out)
    /\ Announce(c, "djSend", t, "now_playing", <<>>)
    /\ UNCHANGED <<current, loading, registry>>

-----------------------------------------------------------------------------
(* applyQueueEvent on one session. *)

FanAt(c, s, pc) == fan[c][s].pc = pc
UpNext == {t \in Tracks : "APPROVED" \in queue[t]}

\* findUpNextQueueTrack; which approved song leads is left open.
FanTarget(c, s) ==
    /\ FanAt(c, s, "target")
    /\ \E t \in (IF UpNext = {} THEN {NoTrack} ELSE UpNext) :
          fan' = [fan EXCEPT ![c][s].pc = "apply", ![c][s].target = t]
    /\ UNCHANGED <<queue, sockets, registry, sess, told, call>>
FanFinished(c, s) ==
    /\ FanAt(c, s, "apply")
    /\ Finished(sess[s], TRUE)
    /\ LET dropped == Dropped(sess[s])
       IN /\ sess' = [sess EXCEPT ![s] = dropped.sess]
          /\ Tell(Only(s, dropped.diffs))
          /\ guard' = Unguarded(Only(s, dropped.diffs))
    /\ fan' = [fan EXCEPT ![c][s] = [NoFan EXCEPT !.pc = "done"]]
    /\ UNCHANGED <<queue, current, loading, registry, call>>
FanApply(c, s) ==
    /\ FanAt(c, s, "apply")
    /\ LET result == Applied(sess[s], call[c].event, call[c].track, fan[c][s].target)
       IN /\ sess' = [sess EXCEPT ![s] = result.sess]
          /\ IF result.sess.track = NoTrack
             THEN /\ fan' = [fan EXCEPT ![c][s] = [NoFan EXCEPT !.pc = "done"]]
                  /\ Tell(Only(s, result.diffs))
                  /\ guard' = Unguarded(Only(s, result.diffs))
             ELSE /\ fan' = [fan EXCEPT ![c][s] = [NoFan EXCEPT !.pc = "enrich",
                        !.track = result.sess.track, !.diffs = result.diffs]]
                  /\ UNCHANGED <<told, guard>>
    /\ UNCHANGED <<queue, current, loading, registry, call>>
FanEnrich(c, s) ==
    /\ FanAt(c, s, "enrich")
    /\ fan' = [fan EXCEPT ![c][s].pc = "merge", ![c][s].ctx = queue[fan[c][s].track]]
    /\ UNCHANGED <<queue, sockets, registry, sess, told, call>>

\* The diffs leave only now.  If the candidate is gone the handler throws,
\* the registry logs it, and the diffs are lost.
FanMerge(c, s) ==
    /\ FanAt(c, s, "merge")
    /\ IF sess[s].track = NoTrack THEN UNCHANGED <<sess, told, guard>>
       ELSE LET f == fan[c][s]
                result == Merged(sess[s], f.track, f.ctx)
                out == Only(s, f.diffs \o result.diffs)
            IN /\ sess' = [sess EXCEPT ![s] = result.sess]
               /\ Tell(out)
               /\ guard' = Unguarded(out)
    /\ fan' = [fan EXCEPT ![c][s] = [NoFan EXCEPT !.pc = "done"]]
    /\ UNCHANGED <<queue, current, loading, registry, call>>

FanOver(c) ==
    /\ At(c, "fan")
    /\ \A s \in Sessions : fan[c][s].pc \in {"none", "done"}
FanNext(c) ==
    /\ FanOver(c) /\ call[c].plan # <<>> /\ Head(call[c].plan) # "send"
    /\ call' = [call EXCEPT ![c].event = Head(call[c].plan), ![c].plan = Tail(@)]
    /\ FanOut(c, registered)
    /\ UNCHANGED <<queue, sockets, registry, sess, told>>
FanThenSend(c) ==
    /\ FanOver(c) /\ call[c].plan = <<"send">>
    /\ SendIfApproved(c, call[c].phone, call[c].track, call[c].ctx, guard)
    /\ UNCHANGED <<queue, current, loading, registry, sess, told>>
FanReturn(c) ==
    /\ FanOver(c) /\ call[c].plan = <<>>
    /\ IF call[c].phone = NoPhone THEN Finish(c)
       ELSE call' = [call EXCEPT ![c].pc = Resume(c), ![c].track = NoTrack,
                                ![c].ctx = {}, ![c].event = "none"]
    /\ fan' = [fan EXCEPT ![c] = [s \in Sessions |-> NoFan]]
    /\ UNCHANGED <<queue, sockets, registry, sess, told>>

\* Time passes: the hold window of a candidate elapses.
WindowElapses(s) ==
    /\ sess[s].state = "holding" /\ ~sess[s].due
    /\ sess' = [sess EXCEPT ![s].due = TRUE]
    /\ UNCHANGED <<queue, sockets, registry, told, call, fan>>

-----------------------------------------------------------------------------
Init ==
    /\ queue = [t \in Tracks |-> {}]
    /\ current = [p \in Phones |-> NoSession]
    /\ guard = [p \in Phones |-> NoTrack]
    /\ loading = [p \in Phones |-> FALSE]
    /\ registered = {}
    /\ owner = [s \in Sessions |-> NoPhone]
    /\ sess = [s \in Sessions |-> Fresh]
    /\ told = [p \in Phones |-> NoTrack]
    /\ call = [c \in Calls |-> Idle]
    /\ fan = [c \in Calls |-> [s \in Sessions |-> NoFan]]

PhoneStep(c) ==
    \/ \E p \in Phones : Start(c, p) \/ Chunk(c, p) \/ ChunkStarts(c, p)
                         \/ ChunkWaits(c, p) \/ Stop(c, p)
    \/ Open(c) \/ AutoOpen(c) \/ AutoOpenFails(c) \/ Pause(c)
    \/ \E top \in TrackOrNone : Match(c, top)
    \/ Judge(c) \/ (\E spaced \in BOOLEAN : Weigh(c, spaced))
    \/ SendNow(c) \/ SendFails(c) \/ ReEvaluate(c) \/ Reset(c)
QueueStep(c) ==
    \/ Stir(c)
    \/ \E t \in Tracks :
       \/ Approve(c, t) \/ PutOn(c, t) \/ DjSend(c, t)
       \/ \E status \in {"APPROVED", "PLAYING"} :
             Leave(c, t, status) \/ LeaveQuietly(c, t, status)
FanStep(c) ==
    \/ FanNext(c) \/ FanThenSend(c) \/ FanReturn(c)
    \/ \E s \in Sessions : FanTarget(c, s) \/ FanFinished(c, s) \/ FanApply(c, s)
                           \/ FanEnrich(c, s) \/ FanMerge(c, s)

Next ==
    \/ \E c \in Calls : PhoneStep(c) \/ QueueStep(c) \/ FanStep(c)
    \/ \E s \in Sessions : WindowElapses(s)

Spec == Init /\ [][Next]_vars

-----------------------------------------------------------------------------
(* Properties. *)

PC == {"idle", "open", "autoOpen", "pause", "match", "revoke", "judge", "weigh",
       "sending", "fan", "reEvaluate", "reset"}
SessType == [state: {"idle", "holding", "locked"}, track: TrackOrNone, ctx: Context,
             heard: 0..MinPersistentChunks, due: BOOLEAN, rival: TrackOrNone,
             votes: 0..RequiredConfirmations]

\* Every variable has its type, and a session has a candidate exactly when it
\* holds or has locked one.
TypeOK ==
    /\ queue \in [Tracks -> Context]
    /\ current \in [Phones -> Sessions \cup {NoSession}]
    /\ guard \in [Phones -> TrackOrNone]
    /\ loading \in [Phones -> BOOLEAN]
    /\ registered \subseteq Sessions
    /\ owner \in [Sessions -> Phones \cup {NoPhone}]
    /\ sess \in [Sessions -> SessType]
    /\ \A s \in Sessions : sess[s].state = "idle" <=> sess[s].track = NoTrack
    /\ told \in [Phones -> TrackOrNone]
    /\ \A c \in Calls : call[c].pc \in PC

\* match-session.js:9-19: a lock ends in a release.  No single step carries a
\* locked session from one track to a lock on another.
LockKeepsTrack ==
    [][\A s \in Sessions :
          sess[s].state = "locked" /\ sess'[s].state = "locked"
             => sess'[s].track = sess[s].track]_vars

\* A track is locked only by the queue, by the DJ, or after its own hold has
\* lasted: a chunk never locks a track that was not already being held.
LockedAfterHold ==
    [][\A s \in Sessions :
          sess[s].state # "locked" /\ sess'[s].state = "locked"
             => sess[s].state = "holding" /\ sess[s].track = sess'[s].track]_vars

\* Between calls, a phone whose session is locked has been told of that lock,
\* whether audio, a queue event or the DJ brought it about.
LocksAreTold ==
    Quiet => \A p \in Phones :
       current[p] # NoSession /\ sess[current[p]].state = "locked"
          => told[p] = sess[current[p]].track

\* socket/audio.js:146-158: whatever releases a session's candidate also
\* lifts the guard against sending that track twice.
ReleaseFreesGuard ==
    [][\A p \in Phones :
          LET s == current[p] IN
          current'[p] = s /\ s # NoSession /\ guard[p] # NoTrack
             => ~ (sess[s].track = guard[p] /\ sess'[s].track # guard[p]
                      /\ guard'[p] = guard[p])]_vars

\* Between calls the registry holds the sessions of the open streams, no
\* more and no fewer.
RegistryIsCurrent ==
    Quiet => registered = {current[p] : p \in Phones} \ {NoSession}

\* Once a queue event has been through every session, a lock stands only on
\* a track that still has a song up next or playing.
LocksFollowQueue ==
    [][\A c \in Calls : FanReturn(c) =>
          \A s \in registered : sess[s].state = "locked" => queue[sess[s].track] # {}]_vars

\* socket/audio.js:499-504: when a chunk ends, audible or silent, a candidate
\* that has been held long enough is locked.
SilencePromotes ==
    [][\A c \in Calls : ReEvaluate(c) =>
          ~ReadyToLock(sess'[call[c].sess])]_vars

=============================================================================
