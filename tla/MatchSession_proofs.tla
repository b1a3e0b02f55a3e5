------------------------- MODULE MatchSession_proofs -------------------------
(***************************************************************************)
(* What the live matcher keeps, whatever its handlers interleave: types,   *)
(* locks that come of holds, and every lock and release rule except where  *)
(* applyQueueEvent merges a queue lookup into a candidate of that moment.  *)
(* With one handler at a time the merge keeps them too.                    *)
(***************************************************************************)
EXTENDS MatchSession, SequenceTheorems, TLAPS

-----------------------------------------------------------------------------
(* The state machine of one session.                                       *)

SessOK(s) == s \in SessType /\ (s.state = "idle" <=> s.track = NoTrack)

\* What an operator of match-session.js makes of a session, and the one diff,
\* if any, that it says so with.
Silent(s, r) ==
    /\ r.diffs = <<>>
    /\ \/ r.sess.track = s.track /\ r.sess.state = s.state
       \/ s.track = NoTrack /\ r.sess.state = "holding"
Releases(s, r) ==
    /\ r.diffs = <<Diff("released", s.track)>>
    /\ s.track # NoTrack /\ r.sess.state # "locked"
Locks(s, r) ==
    /\ r.diffs = <<Diff("locked", s.track)>>
    /\ s.state = "holding" /\ r.sess.state = "locked" /\ r.sess.track = s.track
Sound(s, r) == SessOK(r.sess) /\ (Silent(s, r) \/ Releases(s, r) \/ Locks(s, r))

\* The bounds of the two counters, and that of a hold lasts two chunks.
LEMMA Bounds ==
    /\ 0 \in 0..MinPersistentChunks /\ 1 \in 0..MinPersistentChunks
    /\ 0 \in 0..RequiredConfirmations /\ 1 \in 0..RequiredConfirmations
    /\ \A n \in 0..MinPersistentChunks :
          (IF n < MinPersistentChunks THEN n + 1 ELSE n) \in 0..MinPersistentChunks
    /\ \A n \in 0..RequiredConfirmations :
          (IF n < RequiredConfirmations THEN n + 1 ELSE n) \in 0..RequiredConfirmations
BY DEF MinPersistentChunks, RequiredConfirmations

LEMMA FreshOK == SessOK(Fresh) /\ Fresh.track = NoTrack /\ Fresh.state = "idle"
BY ConstantsAssumption, Bounds DEF SessOK, SessType, Fresh, TrackOrNone, Context

LEMMA DroppedSound ==
    ASSUME NEW s, SessOK(s)
    PROVE  /\ Sound(s, Dropped(s)) /\ Dropped(s).sess = Fresh
           /\ Dropped(s).diffs \in {<<>>, <<Diff("released", s.track)>>}
           /\ s.track # NoTrack => Releases(s, Dropped(s))
<1>1. CASE s.track = NoTrack
    BY <1>1, FreshOK DEF Sound, Silent, Dropped, SessOK
<1>2. CASE s.track # NoTrack
    BY <1>2, FreshOK DEF Sound, Releases, Dropped
<1> QED BY <1>1, <1>2

LEMMA LockedSound ==
    ASSUME NEW s, SessOK(s)
    PROVE  /\ Sound(s, Locked(s)) /\ Locked(s).sess.track = s.track
           /\ s.track # NoTrack => Locked(s).sess.state = "locked"
<1>1. CASE s.track = NoTrack \/ s.state = "locked"
    BY <1>1 DEF Sound, Silent, Locked, SessOK
<1>2. CASE ~ (s.track = NoTrack \/ s.state = "locked")
    <2> DEFINE t == [s EXCEPT !.state = "locked"]
    <2>1. /\ t.state = "locked" /\ t.track = s.track /\ SessOK(t) /\ s.state = "holding"
        BY <1>2 DEF SessOK, SessType
    <2>2. Locked(s) = [sess |-> t, diffs |-> <<Diff("locked", s.track)>>]
        BY <1>2 DEF Locked
    <2> HIDE DEF t
    <2> QED BY <2>1, <2>2 DEF Sound, Locks
<1> QED BY <1>1, <1>2

\* A hold of another track is silent on a session without a candidate and releases
\* the candidate otherwise; in both cases it has been heard once.
LEMMA HeldSound ==
    ASSUME NEW s, SessOK(s), NEW top \in Tracks, NEW ctx \in Context
    PROVE  /\ Sound(s, Held(s, top, ctx)) /\ Held(s, top, ctx).sess.track = top
           /\ s.track = top => /\ Held(s, top, ctx).sess.state = s.state
                               /\ Held(s, top, ctx).diffs = <<>>
           /\ s.track # top => /\ Held(s, top, ctx).sess.heard = 1
                               /\ Held(s, top, ctx).sess.state = "holding"
           /\ s.track = NoTrack => Held(s, top, ctx).diffs = <<>>
<1>. top # NoTrack /\ top \in TrackOrNone
    BY ConstantsAssumption DEF TrackOrNone
<1>1. CASE s.track # top
    <2> DEFINE t == [s EXCEPT !.state = "holding", !.track = top, !.ctx = ctx,
                              !.heard = 1, !.due = FALSE]
    <2>1. /\ t.state = "holding" /\ t.track = top /\ t.heard = 1 /\ SessOK(t)
        BY Bounds DEF SessOK, SessType
    <2>2. Held(s, top, ctx) =
            [sess |-> t,
             diffs |-> IF s.track = NoTrack THEN <<>> ELSE <<Diff("released", s.track)>>]
        BY <1>1 DEF Held, NewHold
    <2> HIDE DEF t
    <2> QED BY <1>1, <2>1, <2>2 DEF Sound, Silent, Releases
<1>2. CASE s.track = top
    <2> DEFINE n == IF s.heard < MinPersistentChunks THEN s.heard + 1 ELSE s.heard
               t == [s EXCEPT !.ctx = ctx, !.heard = n]
    <2>1. n \in 0..MinPersistentChunks
        BY Bounds DEF SessOK, SessType
    <2>2. Held(s, top, ctx) = [sess |-> t, diffs |-> <<>>]
        BY <1>2 DEF Held
    <2> HIDE DEF n
    <2>3. t.state = s.state /\ t.track = top /\ SessOK(t)
        BY <1>2, <2>1 DEF SessOK, SessType
    <2> HIDE DEF t
    <2> QED BY <1>2, <2>2, <2>3 DEF Sound, Silent
<1> QED BY <1>1, <1>2

\* A chunk locks a track only if it was already held.
LEMMA JudgedSound ==
    ASSUME NEW s, SessOK(s), NEW top \in TrackOrNone, NEW ctx \in Context
    PROVE  Sound(s, Judged(s, top, ctx))
<1>1. CASE top = NoTrack
    BY <1>1, DroppedSound DEF Judged
<1>2. CASE top # NoTrack
    <2> DEFINE held == Held(s, top, ctx)
               lock == Locked(held.sess)
    <2>0. top \in Tracks
        BY <1>2 DEF TrackOrNone
    <2>1. /\ Sound(s, held) /\ held.sess.track = top
          /\ s.track = top => held.sess.state = s.state /\ held.diffs = <<>>
          /\ s.track # top => held.sess.heard = 1
        BY <2>0, HeldSound
    <2>2. Judged(s, top, ctx) = IF ReadyToLock(held.sess)
            THEN [sess |-> lock.sess, diffs |-> held.diffs \o lock.diffs]
            ELSE held
        BY <1>2 DEF Judged
    <2>3. Sound(held.sess, lock)
        BY <2>1, LockedSound DEF Sound
    <2>4. ReadyToLock(held.sess) =>
            /\ s.track = top /\ held.diffs = <<>> /\ s.state = "holding"
            /\ Locks(held.sess, lock)
        <3> SUFFICES ASSUME ReadyToLock(held.sess)
                     PROVE  /\ s.track = top /\ held.diffs = <<>> /\ s.state = "holding"
                            /\ Locks(held.sess, lock)
            OBVIOUS
        <3>1. held.sess.state = "holding" /\ held.sess.heard >= 2
            BY DEF ReadyToLock, MinPersistentChunks
        <3>2. lock.diffs # <<>>
            BY <1>2, <2>1, <3>1 DEF Locked
        <3>3. lock.sess.state = "locked"
            BY <1>2, <2>1, LockedSound DEF Sound
        <3> QED BY <2>1, <2>3, <3>1, <3>2, <3>3 DEF Sound, Silent, Releases
    <2>5. CASE ReadyToLock(held.sess)
        <3> HIDE DEF held, lock
        <3> DEFINE one == Diff("locked", s.track)
        <3>1. held.diffs = <<>> /\ lock.diffs = <<one>>
            BY <2>1, <2>4, <2>5 DEF Locks
        <3> HIDE DEF one
        <3>2. held.diffs \o lock.diffs = <<one>>
            BY <3>1
        <3> USE DEF one
        <3> QED BY <2>1, <2>2, <2>3, <2>4, <2>5, <3>2 DEF Sound, Locks
    <2> HIDE DEF held, lock
    <2> QED BY <2>1, <2>2, <2>5
<1> QED BY <1>1, <1>2

\* A revocation releases the candidate of the moment and never locks.
LEMMA RevokedSound ==
    ASSUME NEW s, SessOK(s), NEW was \in TrackOrNone, NEW top \in TrackOrNone,
           NEW ctx \in Context, NEW spaced \in BOOLEAN
    PROVE  Sound(s, Revoked(s, was, top, ctx, spaced))
<1> DEFINE r == Revoked(s, was, top, ctx, spaced)
<1> SUFFICES Sound(s, r)
    OBVIOUS
<1>1. ASSUME NEW rival \in TrackOrNone, NEW votes \in 0..RequiredConfirmations,
             r = [sess |-> [s EXCEPT !.rival = rival, !.votes = votes], diffs |-> <<>>]
      PROVE  Sound(s, r)
    <2> DEFINE t == [s EXCEPT !.rival = rival, !.votes = votes]
    <2>0. r = [sess |-> t, diffs |-> <<>>]
        BY <1>1
    <2>1. SessOK(t) /\ t.track = s.track /\ t.state = s.state
        BY DEF SessOK, SessType
    <2> HIDE DEF t, r
    <2> QED BY <2>0, <2>1 DEF Sound, Silent
<1>2. CASE top = NoTrack \/ was = NoTrack \/ top = was
    <2>1. r = [sess |-> [s EXCEPT !.rival = NoTrack, !.votes = 0], diffs |-> <<>>]
        BY <1>2 DEF Revoked
    <2> HIDE DEF r
    <2> QED BY <1>1, <2>1, Bounds DEF TrackOrNone
<1>3. CASE ~ (top = NoTrack \/ was = NoTrack \/ top = was) /\ s.rival # top
    <2>1. r = [sess |-> [s EXCEPT !.rival = top, !.votes = 1], diffs |-> <<>>]
        BY <1>3 DEF Revoked
    <2> HIDE DEF r
    <2> QED BY <1>1, <2>1, Bounds
<1>4. CASE /\ ~ (top = NoTrack \/ was = NoTrack \/ top = was) /\ s.rival = top
           /\ s.votes + 1 < RequiredConfirmations \/ ~spaced
    <2> DEFINE votes == IF s.votes < RequiredConfirmations THEN s.votes + 1 ELSE s.votes
    <2>1. /\ votes \in 0..RequiredConfirmations /\ s.rival \in TrackOrNone
        BY Bounds DEF SessOK, SessType
    <2>2. r = [sess |-> [s EXCEPT !.votes = votes], diffs |-> <<>>]
        BY <1>4 DEF Revoked
    <2> HIDE DEF votes
    <2>3. [s EXCEPT !.votes = votes] = [s EXCEPT !.rival = s.rival, !.votes = votes]
        BY DEF SessOK, SessType
    <2> HIDE DEF r
    <2> QED BY <1>1, <2>1, <2>2, <2>3
<1>5. CASE /\ ~ (top = NoTrack \/ was = NoTrack \/ top = was) /\ s.rival = top
           /\ ~ (s.votes + 1 < RequiredConfirmations \/ ~spaced)
    <2> DEFINE dropped == Dropped(s)
               held == Held(dropped.sess, top, ctx)
    <2>1. r = [sess |-> held.sess, diffs |-> dropped.diffs \o held.diffs]
        BY <1>5 DEF Revoked
    <2>2. /\ Sound(s, dropped) /\ dropped.sess = Fresh
          /\ dropped.diffs \in {<<>>, <<Diff("released", s.track)>>}
          /\ s.track # NoTrack => Releases(s, dropped)
        BY DroppedSound
    <2>3. top \in Tracks /\ top # NoTrack
        BY <1>5 DEF TrackOrNone
    <2>4. /\ SessOK(held.sess) /\ held.diffs = <<>> /\ held.sess.state = "holding"
        BY <2>2, <2>3, FreshOK, HeldSound DEF Sound
    <2>5. dropped.diffs \o held.diffs = dropped.diffs
        BY <2>2, <2>4
    <2>6. s.track = NoTrack => dropped.diffs = <<>>
        BY DEF Dropped
    <2> HIDE DEF held, dropped, r
    <2> QED BY <2>1, <2>2, <2>4, <2>5, <2>6 DEF Sound, Silent, Releases
<1> QED BY <1>2, <1>3, <1>4, <1>5

LEMMA IntendedSound ==
    ASSUME NEW s, SessOK(s), NEW track
    PROVE  Sound(s, Intended(s, track))
BY DroppedSound, LockedSound DEF Intended, Sound, Silent

\* A queue event releases, locks the candidate, or leaves it.
LEMMA AppliedSound ==
    ASSUME NEW s, SessOK(s), NEW event, NEW track, NEW target
    PROVE  /\ Sound(s, Applied(s, event, track, target))
           /\ Applied(s, event, track, target).sess.track # NoTrack =>
                ~ Releases(s, Applied(s, event, track, target))
<1> DEFINE first == AfterTarget(s, target)
           second == AfterEvent(first.sess, event, track)
           result == Applied(s, event, track, target)
<1> SUFFICES /\ Sound(s, result)
             /\ result.sess.track # NoTrack => ~ Releases(s, result)
    OBVIOUS
<1>1. result = [sess |-> second.sess, diffs |-> first.diffs \o second.diffs]
    BY DEF Applied
<1>2. CASE first = Dropped(s)
    <2>1. /\ Sound(s, first) /\ first.sess = Fresh
          /\ first.diffs \in {<<>>, <<Diff("released", s.track)>>}
        BY <1>2, DroppedSound
    <2>2. second = [sess |-> Fresh, diffs |-> <<>>]
        BY <2>1, FreshOK DEF AfterEvent
    <2>3. first.diffs \o second.diffs = first.diffs
        BY <2>1, <2>2
    <2>4. second.sess = first.sess
        BY <2>1, <2>2
    <2> HIDE DEF first, second, result
    <2>5. result.sess = first.sess /\ result.diffs = first.diffs
        BY <1>1, <2>3, <2>4
    <2> QED BY <2>1, <2>5, FreshOK DEF Sound, Silent, Releases, Locks
<1>3. CASE first = [sess |-> s, diffs |-> <<>>]
    <2>1. second \in {Dropped(s), Locked(s), [sess |-> s, diffs |-> <<>>]}
        BY <1>3 DEF AfterEvent
    <2>2. Sound(s, second) /\ (Releases(s, second) => second.sess.track = NoTrack)
        <3>1. CASE second = Dropped(s)
            BY <3>1, DroppedSound, FreshOK
        <3>2. CASE second = Locked(s)
            BY <3>2, LockedSound DEF Releases
        <3>3. CASE second = [sess |-> s, diffs |-> <<>>]
            BY <3>3 DEF Sound, Silent, Releases
        <3> QED BY <2>1, <3>1, <3>2, <3>3
    <2>3. <<>> \o second.diffs = second.diffs
        BY <2>2 DEF Sound, Silent, Releases, Locks
    <2> HIDE DEF first, second, result
    <2>4. result.sess = second.sess /\ result.diffs = second.diffs
        BY <1>1, <1>3, <2>3
    <2> QED BY <2>2, <2>4 DEF Sound, Silent, Releases, Locks
<1> QED BY <1>2, <1>3 DEF AfterTarget

-----------------------------------------------------------------------------
(* Types, whatever handlers interleave.                                    *)

EventNames == {"none", "now_playing", "left_playing", "queue_updated"}
Plans == {<<>>, <<"send">>, <<"queue_updated">>}
CallType == [op: OpNames \cup {"none"}, pc: PC, phone: Phones \cup {NoPhone},
             sess: Sessions \cup {NoSession}, was: TrackOrNone, track: TrackOrNone,
             ctx: Context, event: EventNames, plan: Plans]
DiffType == [kind: {"locked", "released"}, track: TrackOrNone]
FanType == [pc: {"none", "target", "apply", "enrich", "merge", "done"},
            target: TrackOrNone, track: TrackOrNone, ctx: Context,
            diffs: {<<>>} \cup {<<d>> : d \in DiffType}]

\* A handler works on a session of the phone it serves.
InSession(k) == k.phone \in Phones /\ k.sess \in Sessions /\ owner[k.sess] = k.phone
Streaming == {"match", "revoke", "judge", "weigh", "sending", "reEvaluate", "reset"}

Proper(k) ==
    /\ k.pc = "idle" => k.op = "none"
    /\ k.pc = "open" => k.op = "start" /\ k.phone \in Phones
    /\ k.pc \in {"autoOpen", "pause"} => k.op = "chunk" /\ k.phone \in Phones
    /\ k.pc \in Streaming => k.op \in {"chunk", "stop"} /\ InSession(k)
    /\ k.pc = "fan" /\ k.phone # NoPhone => k.op \in {"chunk", "stop"} /\ InSession(k)
    /\ k.pc = "fan" => k.op # "none"
    /\ k.pc = "reset" => k.op = "stop"
    /\ k.op = "start" => k.pc = "open"
    /\ k.op = "stop" => k.pc \in Streaming \cup {"fan"} /\ InSession(k)
    /\ k.pc = "sending" => k.track \in Tracks
    /\ k.pc = "fan" /\ k.plan = <<"send">> => k.track \in Tracks /\ k.phone # NoPhone

\* What waits for a queue lookup is a candidate, and the news of its lock if any.
FanProper(f) ==
    f.pc \in {"enrich", "merge"} =>
        f.track \in Tracks /\ f.diffs \in {<<>>, <<Diff("locked", f.track)>>}
FanAway(c) == call[c].pc # "fan" => \A s \in Sessions : fan[c][s].pc = "none"

StoredOK ==
    /\ queue \in [Tracks -> Context]
    /\ current \in [Phones -> Sessions \cup {NoSession}]
    /\ guard \in [Phones -> TrackOrNone]
    /\ loading \in [Phones -> BOOLEAN]
    /\ registered \subseteq Sessions
    /\ owner \in [Sessions -> Phones \cup {NoPhone}]
    /\ sess \in [Sessions -> SessType]
    /\ \A s \in Sessions : SessOK(sess[s])
    /\ told \in [Phones -> TrackOrNone]

\* The session of an open stream is its phone's.
Owned == \A p \in Phones : current[p] # NoSession => owner[current[p]] = p

TypeInv ==
    /\ StoredOK
    /\ call \in [Calls -> CallType]
    /\ fan \in [Calls -> [Sessions -> FanType]]
    /\ \A c \in Calls : Proper(call[c]) /\ FanAway(c)
    /\ \A c \in Calls, s \in Sessions : FanProper(fan[c][s])
    /\ Owned

LEMMA TypeInvType == TypeInv => TypeOK
BY DEF TypeInv, StoredOK, TypeOK, SessOK, CallType

LEMMA IdleProper ==
    /\ Idle \in CallType /\ Proper(Idle) /\ Idle.pc = "idle" /\ Idle.op = "none"
    /\ NoFan \in FanType /\ NoFan.pc = "none" /\ FanProper(NoFan)
<1>1. NoTrack \in TrackOrNone /\ {} \in Context /\ "none" \in EventNames /\ <<>> \in Plans
    BY DEF TrackOrNone, Context, EventNames, Plans
<1>2. Idle \in CallType /\ Idle.pc = "idle" /\ Idle.op = "none"
    BY <1>1 DEF Idle, CallType, PC
<1>3. Proper(Idle)
    BY <1>2 DEF Proper, Streaming
<1>4. NoFan \in FanType /\ NoFan.pc = "none"
    BY <1>1 DEF NoFan, FanType
<1> QED BY <1>2, <1>3, <1>4 DEF FanProper

\* One handler moves; the sessions that others use keep their owner.
LEMMA OneMoves ==
    ASSUME TypeInv, NEW c \in Calls, StoredOK',
           call' \in [Calls -> CallType], fan' \in [Calls -> [Sessions -> FanType]],
           \A d \in Calls : d # c => call'[d] = call[d] /\ fan'[d] = fan[d],
           Proper(call[c])', FanAway(c)', \A s \in Sessions : FanProper(fan[c][s])',
           \A s \in Sessions : owner'[s] = owner[s] \/ Free(s),
           Owned'
    PROVE  TypeInv'
<1> SUFFICES ASSUME NEW d \in Calls
             PROVE  /\ Proper(call[d])' /\ FanAway(d)'
                    /\ \A s \in Sessions : FanProper(fan[d][s])'
    BY DEF TypeInv
<1>1. CASE d = c
    BY <1>1
<1>2. CASE d # c
    <2>1. call'[d] = call[d] /\ fan'[d] = fan[d]
        BY <1>2
    <2>2. InSession(call[d]) => InSession(call[d])'
        BY <2>1 DEF InSession, Free
    <2>3. Proper(call[d])
        BY DEF TypeInv
    <2>5. Proper(call[d])'
        BY <2>1, <2>2, <2>3 DEF Proper
    <2>4. FanAway(d)' /\ \A s \in Sessions : FanProper(fan[d][s])'
        BY <2>1 DEF TypeInv, FanAway, FanProper
    <2> QED BY <2>4, <2>5
<1> QED BY <1>1, <1>2

\* A handler that is not fanning out goes on as such.
LEMMA CallMoves ==
    ASSUME TypeInv, NEW c \in Calls, call[c].pc # "fan", UNCHANGED fan, StoredOK',
           call' \in [Calls -> CallType], \A d \in Calls : d # c => call'[d] = call[d],
           Proper(call[c])',
           \A s \in Sessions : owner'[s] = owner[s] \/ Free(s),
           Owned'
    PROVE  TypeInv'
<1>1. \A s \in Sessions : fan[c][s].pc = "none"
    BY DEF TypeInv, FanAway
<1>2. FanAway(c)' /\ \A s \in Sessions : FanProper(fan[c][s])'
    BY <1>1 DEF FanAway, FanProper
<1> QED BY <1>2, OneMoves DEF TypeInv

LEMMA FinishProper ==
    ASSUME TypeInv, NEW c \in Calls, Finish(c)
    PROVE  /\ call' \in [Calls -> CallType] /\ Proper(call[c])' /\ call'[c] = Idle
           /\ \A d \in Calls : d # c => call'[d] = call[d]
<1>1. call'[c] = Idle /\ call' \in [Calls -> CallType]
    BY IdleProper DEF TypeInv, Finish
<1>2. Proper(call[c])'
    BY <1>1, IdleProper DEF Proper, Streaming
<1> QED BY <1>1, <1>2 DEF TypeInv, Finish

\* The record that Begin gives a handler.
LEMMA BeginProper ==
    ASSUME TypeInv, NEW c \in Calls, NEW p \in Phones,
           NEW op \in {"start", "chunk"}, NEW pc \in {"open", "autoOpen", "pause"},
           op = "start" <=> pc = "open", Begin(c, op, p, pc)
    PROVE  /\ call' \in [Calls -> CallType] /\ Proper(call[c])' /\ call[c].pc = "idle"
           /\ call'[c].op = op /\ call'[c].pc = pc /\ call'[c].phone = p
           /\ \A d \in Calls : d # c => call'[d] = call[d]
<1> DEFINE n == [Idle EXCEPT !.op = op, !.phone = p, !.pc = pc]
<1>1. n \in CallType /\ n.op = op /\ n.pc = pc /\ n.phone = p
    BY IdleProper DEF CallType, OpNames, PC
<1> HIDE DEF n
<1>2. call' = [call EXCEPT ![c] = n] /\ call[c].pc = "idle"
    BY DEF Begin, MayStart, At, n
<1>3. call' \in [Calls -> CallType] /\ call'[c] = n
    BY <1>1, <1>2 DEF TypeInv
<1>4. Proper(call[c])'
    BY <1>1, <1>3 DEF Proper, Streaming
<1> QED BY <1>1, <1>2, <1>3, <1>4 DEF TypeInv

\* The record of a handler that goes on to hear a chunk.
Hearing(op, p, s, was, pc) ==
    [Idle EXCEPT !.op = op, !.phone = p, !.sess = s, !.was = was, !.pc = pc]

LEMMA ListeningProper ==
    ASSUME TypeInv, NEW c \in Calls, NEW p \in Phones, NEW s \in Sessions,
           NEW op \in {"chunk", "stop"}, NEW pc \in {"match", "revoke", "reEvaluate", "reset"},
           pc = "reset" => op = "stop",
           NEW was \in TrackOrNone, owner'[s] = p,
           call' = [call EXCEPT ![c] = Hearing(op, p, s, was, pc)]
    PROVE  /\ call' \in [Calls -> CallType] /\ Proper(call[c])'
           /\ call'[c].op = op /\ call'[c].phone = p /\ call'[c].sess = s /\ call'[c].pc = pc
           /\ \A d \in Calls : d # c => call'[d] = call[d]
<1> DEFINE n == Hearing(op, p, s, was, pc)
<1>1. n \in CallType /\ n.op = op /\ n.pc = pc /\ n.phone = p /\ n.sess = s
    BY IdleProper DEF CallType, OpNames, PC, Hearing
<1> HIDE DEF n
<1>2. call' = [call EXCEPT ![c] = n]
    BY DEF n
<1>3. call' \in [Calls -> CallType] /\ call'[c] = n
    BY <1>1, <1>2 DEF TypeInv
<1>4. Proper(call[c])'
    BY <1>1, <1>3 DEF Proper, Streaming, InSession
<1> QED BY <1>1, <1>2, <1>3, <1>4 DEF TypeInv

\* A stream opens with a fresh session of its own.
LEMMA OpenStored ==
    ASSUME TypeInv, NEW p \in Phones, NEW s \in Sessions, NEW dropped \in SUBSET Sessions,
           OpenWith(p, s, dropped), UNCHANGED <<queue, told>>, loading' \in [Phones -> BOOLEAN]
    PROVE  /\ StoredOK' /\ Owned' /\ owner'[s] = p /\ sess'[s] = Fresh
           /\ \A t \in Sessions : owner'[t] = owner[t] \/ Free(t)
<1>. StoredOK /\ Owned /\ Free(s)
    BY DEF TypeInv, OpenWith
<1>1. sess' \in [Sessions -> SessType] /\ \A t \in Sessions : SessOK(sess'[t])
    BY FreshOK DEF OpenWith, StoredOK, SessOK
<1>2. /\ owner' \in [Sessions -> Phones \cup {NoPhone}] /\ owner'[s] = p
      /\ \A t \in Sessions : t # s => owner'[t] = owner[t]
    BY DEF OpenWith, StoredOK
<1>3. /\ current' \in [Phones -> Sessions \cup {NoSession}] /\ current'[p] = s
      /\ \A q \in Phones : q # p => current'[q] = current[q] /\ current[q] # s
    BY DEF OpenWith, StoredOK, Free
<1>4. guard' \in [Phones -> TrackOrNone] /\ registered' \subseteq Sessions
    BY DEF OpenWith, StoredOK, TrackOrNone
<1>5. StoredOK'
    BY <1>1, <1>2, <1>3, <1>4 DEF StoredOK
<1>6. Owned'
    BY <1>2, <1>3 DEF Owned, StoredOK
<1>7. sess'[s] = Fresh
    BY DEF OpenWith
<1> QED BY <1>2, <1>5, <1>6, <1>7

LEMMA OpeningInv ==
    ASSUME TypeInv, NEW c \in Calls, Open(c) \/ AutoOpen(c) \/ AutoOpenFails(c)
    PROVE  TypeInv'
<1>. /\ StoredOK /\ Owned /\ Proper(call[c]) /\ call[c].pc # "fan" /\ call[c].phone \in Phones
     /\ UNCHANGED fan
    BY DEF TypeInv, Proper, Open, AutoOpen, AutoOpenFails, At
<1> DEFINE p == call[c].phone
<1>1. CASE Open(c)
    <2> PICK s \in Sessions : OpenWith(p, s, {current[p]} \ {NoSession})
        BY <1>1 DEF Open
    <2>1. {current[p]} \ {NoSession} \in SUBSET Sessions
        BY DEF StoredOK
    <2>2. UNCHANGED <<queue, loading, told>> /\ Finish(c)
        BY <1>1 DEF Open
    <2>3. loading' \in [Phones -> BOOLEAN]
        BY <2>2 DEF StoredOK
    <2> QED BY <2>1, <2>2, <2>3, OpenStored, FinishProper, CallMoves
<1>2. CASE AutoOpen(c)
    <2> PICK s \in Sessions : OpenWith(p, s, {}) /\ Listening(c, "chunk", p, s)
        BY <1>2 DEF AutoOpen
    <2>1. loading' \in [Phones -> BOOLEAN] /\ UNCHANGED <<queue, told>>
        BY <1>2 DEF AutoOpen, StoredOK
    <2>2. /\ StoredOK' /\ Owned' /\ owner'[s] = p /\ sess'[s] = Fresh
          /\ \A t \in Sessions : owner'[t] = owner[t] \/ Free(t)
        BY <2>1, OpenStored
    <2>3. call[c].op = "chunk"
        BY <1>2 DEF AutoOpen, At, Proper
    <2>4. PICK pc \in {"match", "revoke", "reEvaluate"} :
            call' = [call EXCEPT ![c] = Hearing("chunk", p, s, sess'[s].track, pc)]
        BY <2>3 DEF Listening, Resume, Hearing
    <2>5. sess'[s].track \in TrackOrNone
        BY <2>2, FreshOK DEF TrackOrNone
    <2>6. /\ call' \in [Calls -> CallType] /\ Proper(call[c])'
          /\ \A d \in Calls : d # c => call'[d] = call[d]
        <3> PICK was \in TrackOrNone : was = sess'[s].track
            BY <2>5
        <3>1. call' = [call EXCEPT ![c] = Hearing("chunk", p, s, was, pc)]
            BY <2>4
        <3>2. p \in Phones /\ pc \in {"match", "revoke", "reEvaluate", "reset"}
            OBVIOUS
        <3> HIDE DEF p
        <3> QED BY <2>2, <3>1, <3>2, ListeningProper
    <2> QED BY <2>2, <2>6, CallMoves
<1>3. CASE AutoOpenFails(c)
    <2>1. StoredOK' /\ Owned' /\ UNCHANGED owner /\ Finish(c)
        BY <1>3 DEF AutoOpenFails, StoredOK, Owned, registry
    <2> QED BY <2>1, FinishProper, CallMoves
<1> QED BY <1>1, <1>2, <1>3

\* What every step leaves that touches neither streams nor sessions.
LEMMA StoredKept ==
    ASSUME TypeInv, UNCHANGED <<sockets, registry, sess, told>>,
           queue' \in [Tracks -> Context]
    PROVE  StoredOK' /\ Owned' /\ \A s \in Sessions : owner'[s] = owner[s] \/ Free(s)
BY DEF TypeInv, StoredOK, Owned, sockets, registry

LEMMA HearingInv ==
    ASSUME TypeInv, NEW c \in Calls,
           \/ Pause(c)
           \/ \E p \in Phones : Start(c, p) \/ Chunk(c, p) \/ ChunkStarts(c, p)
                                \/ ChunkWaits(c, p) \/ Stop(c, p)
    PROVE  TypeInv'
<1>. StoredOK /\ Owned /\ Proper(call[c])
    BY DEF TypeInv
<1>kept. ASSUME UNCHANGED <<queue, sockets, registry, sess, told, fan>>
         PROVE  /\ StoredOK' /\ Owned' /\ UNCHANGED <<owner, fan, sess>>
    BY <1>kept, StoredKept DEF StoredOK, registry
<1>1. ASSUME NEW p \in Phones, Start(c, p) \/ ChunkWaits(c, p)
      PROVE  TypeInv'
    <2>1. /\ Begin(c, "start", p, "open") \/ Begin(c, "chunk", p, "pause")
          /\ UNCHANGED <<queue, sockets, registry, sess, told, fan>>
        BY <1>1 DEF Start, ChunkWaits
    <2>2. call[c].pc # "fan" /\ call' \in [Calls -> CallType] /\ Proper(call[c])'
          /\ \A d \in Calls : d # c => call'[d] = call[d]
        BY <2>1, BeginProper
    <2> QED BY <1>kept, <2>1, <2>2, CallMoves
<1>2. ASSUME NEW p \in Phones, ChunkStarts(c, p)
      PROVE  TypeInv'
    <2>1. /\ Begin(c, "chunk", p, "autoOpen")
          /\ UNCHANGED <<queue, current, guard, registry, sess, told, fan>>
          /\ loading' = [loading EXCEPT ![p] = TRUE]
        BY <1>2 DEF ChunkStarts
    <2>2. call[c].pc # "fan" /\ call' \in [Calls -> CallType] /\ Proper(call[c])'
          /\ \A d \in Calls : d # c => call'[d] = call[d]
        BY <2>1, BeginProper
    <2>3. StoredOK' /\ Owned' /\ UNCHANGED <<owner, fan>>
        BY <2>1 DEF StoredOK, Owned, registry
    <2> QED BY <2>2, <2>3, CallMoves
<1>3. ASSUME NEW p \in Phones, NEW s \in Sessions, NEW op \in {"chunk", "stop"},
             s = current[p], call[c].pc # "fan",
             UNCHANGED <<queue, sockets, registry, sess, told, fan>>,
             \E pc \in {"match", "revoke", "reEvaluate", "reset"} :
               /\ pc = "reset" => op = "stop"
               /\ call' = [call EXCEPT ![c] = Hearing(op, p, s, sess[s].track, pc)]
      PROVE  TypeInv'
    <2>1. /\ StoredOK' /\ Owned' /\ UNCHANGED <<owner, fan, sess>>
        BY <1>3, <1>kept
    <2>2. owner'[s] = p /\ sess[s].track \in TrackOrNone
        BY <1>3, <2>1, ConstantsAssumption DEF Owned, StoredOK, SessType
    <2>3. PICK pc \in {"match", "revoke", "reEvaluate", "reset"}, was \in TrackOrNone :
             /\ pc = "reset" => op = "stop"
             /\ call' = [call EXCEPT ![c] = Hearing(op, p, s, was, pc)]
        BY <1>3, <2>2
    <2>4. call' \in [Calls -> CallType] /\ Proper(call[c])'
          /\ \A d \in Calls : d # c => call'[d] = call[d]
        BY <2>2, <2>3, ListeningProper
    <2> QED BY <1>3, <2>1, <2>4, CallMoves
<1>4. ASSUME NEW p \in Phones, Chunk(c, p)
      PROVE  TypeInv'
    <2>1. /\ current[p] \in Sessions /\ call[c].pc = "idle" /\ call[c].op = "none"
        BY <1>4 DEF Chunk, MayStart, At, StoredOK, Proper
    <2>2. PICK s \in Sessions : s = current[p]
        BY <2>1
    <2>3. /\ UNCHANGED <<queue, sockets, registry, sess, told, fan>>
          /\ Listening(c, "chunk", p, s)
        BY <1>4, <2>2 DEF Chunk
    <2>4. \E pc \in {"match", "revoke", "reEvaluate", "reset"} :
            /\ pc = "reset" => "chunk" = "stop"
            /\ call' = [call EXCEPT ![c] = Hearing("chunk", p, s, sess[s].track, pc)]
        BY <2>1, <2>3 DEF Listening, Resume, Hearing
    <2> QED BY <1>3, <2>1, <2>2, <2>3, <2>4
<1>5. ASSUME NEW p \in Phones, Stop(c, p)
      PROVE  TypeInv'
    <2>1. /\ current[p] \in Sessions /\ call[c].pc = "idle"
        BY <1>5 DEF Stop, MayStart, At, StoredOK
    <2>2. PICK s \in Sessions : s = current[p]
        BY <2>1
    <2>3. UNCHANGED <<queue, sockets, registry, sess, told, fan>>
        BY <1>5 DEF Stop
    <2>4. \E pc \in {"match", "revoke", "reEvaluate", "reset"} :
            /\ pc = "reset" => "stop" = "stop"
            /\ call' = [call EXCEPT ![c] = Hearing("stop", p, s, sess[s].track, pc)]
        BY <1>5, <2>2 DEF Stop, Hearing
    <2> QED BY <1>3, <2>1, <2>2, <2>3, <2>4
<1>6. CASE Pause(c)
    <2> DEFINE p == call[c].phone
    <2>1. p \in Phones /\ call[c].pc = "pause" /\ call[c].op = "chunk"
        BY <1>6 DEF Pause, At, Proper
    <2>2. UNCHANGED <<queue, sockets, registry, sess, told, fan>>
        BY <1>6 DEF Pause
    <2>3. CASE current[p] = NoSession
        BY <1>6, <1>kept, <2>1, <2>2, <2>3, FinishProper, CallMoves DEF Pause
    <2>4. CASE current[p] # NoSession
        <3>1. PICK s \in Sessions : s = current[p]
            BY <2>1, <2>4 DEF StoredOK
        <3>2. Listening(c, "chunk", p, s)
            BY <1>6, <2>4, <3>1 DEF Pause
        <3>3. \E pc \in {"match", "revoke", "reEvaluate", "reset"} :
                /\ pc = "reset" => "chunk" = "stop"
                /\ call' = [call EXCEPT ![c] = Hearing("chunk", p, s, sess[s].track, pc)]
            BY <2>1, <2>2, <3>2 DEF Listening, Resume, Hearing
        <3> HIDE DEF p
        <3> QED BY <1>3, <2>1, <2>2, <3>1, <3>3
    <2> QED BY <2>3, <2>4
<1> QED BY <1>1, <1>2, <1>4, <1>5, <1>6

\* What a step keeps that opens and closes no stream.
LEMMA StoredMoves ==
    ASSUME TypeInv, UNCHANGED <<current, loading, registry>>,
           queue' \in [Tracks -> Context], guard' \in [Phones -> TrackOrNone],
           told' \in [Phones -> TrackOrNone], sess' \in [Sessions -> SessType],
           \A s \in Sessions : SessOK(sess'[s])
    PROVE  /\ StoredOK' /\ Owned' /\ UNCHANGED owner
           /\ \A s \in Sessions : owner'[s] = owner[s] \/ Free(s)
BY DEF TypeInv, StoredOK, Owned, registry

LEMMA OneSession ==
    ASSUME TypeInv, NEW s \in Sessions, NEW n, SessOK(n), sess' = [sess EXCEPT ![s] = n]
    PROVE  /\ sess' \in [Sessions -> SessType] /\ sess'[s] = n
           /\ \A t \in Sessions : SessOK(sess'[t]) /\ (t # s => sess'[t] = sess[t])
BY DEF TypeInv, StoredOK, SessOK

LEMMA UnguardedType ==
    ASSUME TypeInv, NEW out
    PROVE  Unguarded(out) \in [Phones -> TrackOrNone]
BY DEF TypeInv, StoredOK, Unguarded, TrackOrNone

\* An announcement begins, or the next one does, on the sessions of the moment.
LEMMA FanOutProper ==
    ASSUME TypeInv, NEW c \in Calls, FanOut(c, registered)
    PROVE  /\ fan' \in [Calls -> [Sessions -> FanType]]
           /\ \A s \in Sessions : FanProper(fan[c][s])' /\ fan'[c][s].pc \in {"none", "target"}
           /\ \A d \in Calls : d # c => fan'[d] = fan[d]
<1> DEFINE start == [NoFan EXCEPT !.pc = "target"]
           row == [s \in Sessions |-> IF s \in registered THEN start ELSE NoFan]
<1>1. start \in FanType /\ start.pc = "target"
    BY IdleProper DEF FanType
<1> HIDE DEF start
<1>2. \A s \in Sessions : row[s] \in {start, NoFan}
    OBVIOUS
<1>3. row \in [Sessions -> FanType]
    BY <1>1, IdleProper
<1>4. fan' = [fan EXCEPT ![c] = row]
    BY DEF FanOut, start
<1> HIDE DEF row
<1>5. fan' \in [Calls -> [Sessions -> FanType]] /\ fan'[c] = row
    BY <1>3, <1>4 DEF TypeInv
<1>6. \A s \in Sessions : FanProper(fan[c][s])' /\ fan'[c][s].pc \in {"none", "target"}
    BY <1>1, <1>2, <1>5, IdleProper DEF FanProper
<1> QED BY <1>4, <1>5, <1>6 DEF TypeInv

LEMMA NoFanProper ==
    ASSUME TypeInv, NEW c \in Calls, fan' = [fan EXCEPT ![c] = [s \in Sessions |-> NoFan]]
    PROVE  /\ fan' \in [Calls -> [Sessions -> FanType]]
           /\ \A s \in Sessions : FanProper(fan[c][s])' /\ fan'[c][s].pc = "none"
           /\ \A d \in Calls : d # c => fan'[d] = fan[d]
<1> DEFINE row == [s \in Sessions |-> NoFan]
<1>1. row \in [Sessions -> FanType] /\ \A s \in Sessions : row[s] = NoFan
    BY IdleProper
<1> HIDE DEF row
<1>2. fan' = [fan EXCEPT ![c] = row]
    BY DEF row
<1>3. fan' \in [Calls -> [Sessions -> FanType]] /\ fan'[c] = row
    BY <1>1, <1>2 DEF TypeInv
<1> QED BY <1>1, <1>2, <1>3, IdleProper DEF TypeInv, FanProper

\* A chunk or a stop goes on to its end.
Resumes(c) ==
    \/ call' = [call EXCEPT ![c].pc = Resume(c), ![c].track = NoTrack, ![c].ctx = {}]
    \/ call' = [call EXCEPT ![c].pc = Resume(c), ![c].track = NoTrack, ![c].ctx = {},
                            ![c].event = "none"]

LEMMA ResumesProper ==
    ASSUME TypeInv, NEW c \in Calls, call[c].op \in {"chunk", "stop"},
           InSession(call[c]), UNCHANGED owner, Resumes(c)
    PROVE  /\ call' \in [Calls -> CallType] /\ Proper(call[c])'
           /\ call'[c].pc \in {"reset", "reEvaluate"} /\ call'[c].op = call[c].op
           /\ call'[c].sess = call[c].sess /\ call'[c].phone = call[c].phone
           /\ \A d \in Calls : d # c => call'[d] = call[d]
<1>1. Resume(c) \in {"reset", "reEvaluate"} /\ (Resume(c) = "reset" => call[c].op = "stop")
    BY DEF Resume
<1>2. NoTrack \in TrackOrNone /\ {} \in Context /\ "none" \in EventNames
    BY DEF TrackOrNone, Context, EventNames
<1>3. PICK e \in EventNames :
        call' = [call EXCEPT ![c] = [call[c] EXCEPT !.pc = Resume(c), !.track = NoTrack,
                                                    !.ctx = {}, !.event = e]]
    <2> DEFINE e == call[c].event
               k == [call[c] EXCEPT !.pc = Resume(c), !.track = NoTrack, !.ctx = {}]
    <2>0. call \in [Calls -> CallType] /\ call[c] \in CallType
        BY DEF TypeInv
    <2>1. e \in EventNames /\ k = [call[c] EXCEPT !.pc = Resume(c), !.track = NoTrack,
                                               !.ctx = {}, !.event = e]
        BY <2>0 DEF CallType
    <2>2. CASE call' = [call EXCEPT ![c].pc = Resume(c), ![c].track = NoTrack, ![c].ctx = {}]
        <3>1. call' = [call EXCEPT ![c] = k]
            BY <2>0, <2>2
        <3> QED BY <2>1, <3>1
    <2>3. CASE call' = [call EXCEPT ![c].pc = Resume(c), ![c].track = NoTrack, ![c].ctx = {},
                                    ![c].event = "none"]
        <3>1. call' = [call EXCEPT ![c] = [call[c] EXCEPT !.pc = Resume(c), !.track = NoTrack,
                                                !.ctx = {}, !.event = "none"]]
            BY <2>0, <2>3
        <3> QED BY <1>2, <3>1
    <2> QED BY <2>2, <2>3 DEF Resumes
<1> DEFINE k == [call[c] EXCEPT !.pc = Resume(c), !.track = NoTrack, !.ctx = {}, !.event = e]
<1>5. call[c] \in CallType /\ Resume(c) \in PC
    BY <1>1 DEF TypeInv, PC
<1>6. /\ k \in CallType /\ k.pc = Resume(c) /\ k.op = call[c].op
      /\ k.sess = call[c].sess /\ k.phone = call[c].phone
    BY <1>2, <1>5 DEF CallType
<1> HIDE DEF k
<1>7. call' = [call EXCEPT ![c] = k]
    BY <1>3 DEF k
<1>8. /\ call' \in [Calls -> CallType] /\ call'[c] = k
      /\ \A d \in Calls : d # c => call'[d] = call[d]
    BY <1>6, <1>7 DEF TypeInv
<1>4. Proper(call[c])'
    BY <1>1, <1>6, <1>8 DEF Proper, Streaming, InSession
<1> QED BY <1>1, <1>4, <1>6, <1>8

LEMMA SendProper ==
    ASSUME TypeInv, NEW c \in Calls, call[c].op \in {"chunk", "stop"}, InSession(call[c]),
           UNCHANGED owner, NEW track \in Tracks, NEW ctx,
           NEW cleared \in [Phones -> TrackOrNone],
           SendIfApproved(c, call[c].phone, track, ctx, cleared)
    PROVE  /\ guard' \in [Phones -> TrackOrNone]
           /\ call' \in [Calls -> CallType] /\ Proper(call[c])' /\ call'[c].pc # "fan"
           /\ fan' \in [Calls -> [Sessions -> FanType]]
           /\ \A s \in Sessions : FanProper(fan[c][s])' /\ fan'[c][s].pc = "none"
           /\ \A d \in Calls : d # c => call'[d] = call[d] /\ fan'[d] = fan[d]
<1>1. /\ fan' \in [Calls -> [Sessions -> FanType]]
      /\ \A s \in Sessions : FanProper(fan[c][s])' /\ fan'[c][s].pc = "none"
      /\ \A d \in Calls : d # c => fan'[d] = fan[d]
    BY NoFanProper DEF SendIfApproved
<1>2. CASE guard' = cleared /\ Resumes(c)
    BY <1>1, <1>2, ResumesProper
<1>3. CASE guard' = cleared /\ Finish(c)
    BY <1>1, <1>3, FinishProper, IdleProper
<1>4. CASE /\ guard' = [cleared EXCEPT ![call[c].phone] = track]
           /\ call' = [call EXCEPT ![c].pc = "sending", ![c].track = track]
    <2>1. guard' \in [Phones -> TrackOrNone]
        BY <1>4 DEF TrackOrNone
    <2>2. /\ call' \in [Calls -> CallType] /\ call'[c].pc = "sending" /\ call'[c].op = call[c].op
          /\ call'[c].sess = call[c].sess /\ call'[c].phone = call[c].phone
          /\ call'[c].track = track /\ \A d \in Calls : d # c => call'[d] = call[d]
        <3> DEFINE k == [call[c] EXCEPT !.pc = "sending", !.track = track]
        <3>1. call[c] \in CallType /\ "sending" \in PC /\ track \in TrackOrNone
            BY DEF TypeInv, PC, TrackOrNone
        <3>2. /\ k \in CallType /\ k.pc = "sending" /\ k.op = call[c].op
              /\ k.sess = call[c].sess /\ k.phone = call[c].phone /\ k.track = track
            BY <3>1 DEF CallType
        <3>3. call' = [call EXCEPT ![c] = k]
            BY <1>4 DEF TypeInv, CallType
        <3> HIDE DEF k
        <3> QED BY <3>2, <3>3 DEF TypeInv
    <2>3. Proper(call[c])'
        BY <2>2 DEF Proper, Streaming, InSession
    <2> QED BY <1>1, <2>1, <2>2, <2>3
<1> QED BY <1>2, <1>3, <1>4 DEF SendIfApproved, Resumes

\* Only a lock makes the handler go on to the queue.
LEMMA LockNews ==
    ASSUME NEW s, NEW r, Sound(s, r), r.diffs # <<>>, Last(r.diffs).kind = "locked"
    PROVE  Locks(s, r)
BY DEF Sound, Silent, Releases, Locks, Diff, Last

LEMMA DeliverInv ==
    ASSUME TypeInv, NEW c \in Calls, call[c].pc \notin {"fan", "idle"},
           call[c].op \in {"chunk", "stop"}, InSession(call[c]),
           NEW r, Sound(sess[call[c].sess], r), Deliver(c, call[c].sess, r),
           UNCHANGED <<queue, current, loading, registry>>
    PROVE  TypeInv'
<1> DEFINE s == call[c].sess
           p == call[c].phone
           out == Only(s, r.diffs)
           cleared == Unguarded(out)
<1>1. s \in Sessions /\ p \in Phones /\ SessOK(sess[s]) /\ SessOK(r.sess) /\ StoredOK
    BY DEF TypeInv, StoredOK, InSession, Sound
<1>2. /\ sess' \in [Sessions -> SessType] /\ \A u \in Sessions : SessOK(sess'[u])
    <2> HIDE DEF s
    <2>1. sess' = [sess EXCEPT ![s] = r.sess]
        BY DEF Deliver, s
    <2>2. PICK n : n = r.sess
        OBVIOUS
    <2>3. SessOK(n) /\ sess' = [sess EXCEPT ![s] = n]
        BY <1>1, <2>1, <2>2
    <2> QED BY <1>1, <2>3, OneSession
<1>3. told' \in [Phones -> TrackOrNone]
    BY DEF Deliver, Tell
<1>4. cleared \in [Phones -> TrackOrNone]
    BY UnguardedType
<1>5. SUFFICES /\ guard' \in [Phones -> TrackOrNone] /\ call' \in [Calls -> CallType]
               /\ Proper(call[c])' /\ FanAway(c)'
               /\ fan' \in [Calls -> [Sessions -> FanType]]
               /\ \A u \in Sessions : FanProper(fan[c][u])'
               /\ \A d \in Calls : d # c => call'[d] = call[d] /\ fan'[d] = fan[d]
    <2>1. queue' \in [Tracks -> Context]
        BY <1>1 DEF StoredOK
    <2> QED BY <1>2, <1>3, <1>5, <2>1, StoredMoves, OneMoves
<1>owner. UNCHANGED owner
    BY DEF registry
<1>6. CASE guard' = cleared /\ Resumes(c) /\ UNCHANGED fan
    <2>1. /\ call' \in [Calls -> CallType] /\ Proper(call[c])'
          /\ call'[c].pc \in {"reset", "reEvaluate"}
          /\ \A d \in Calls : d # c => call'[d] = call[d]
        BY <1>6, <1>owner, ResumesProper
    <2>2. FanAway(c)' /\ fan' \in [Calls -> [Sessions -> FanType]]
          /\ \A u \in Sessions : FanProper(fan[c][u])'
        BY <1>6 DEF TypeInv, FanAway, FanProper
    <2> QED BY <1>4, <1>6, <2>1, <2>2
<1>7. ASSUME Locks(sess[s], r)
      PROVE  r.sess.track \in Tracks /\ r.sess.ctx \in Context
    BY <1>1, <1>7 DEF Locks, SessOK, SessType, TrackOrNone
<1>8. CASE Locks(sess[s], r) /\ SendIfApproved(c, p, r.sess.track, r.sess.ctx, cleared)
    <2>1. PICK track \in Tracks : track = r.sess.track
        BY <1>7, <1>8
    <2>0. PICK ctx : ctx = r.sess.ctx
        OBVIOUS
    <2>2. PICK to \in [Phones -> TrackOrNone] : to = cleared
        BY <1>4
    <2>3. SendIfApproved(c, call[c].phone, track, ctx, to)
        BY <1>8, <2>0, <2>1, <2>2
    <2>4. /\ guard' \in [Phones -> TrackOrNone]
          /\ call' \in [Calls -> CallType] /\ Proper(call[c])' /\ call'[c].pc # "fan"
          /\ fan' \in [Calls -> [Sessions -> FanType]]
          /\ \A u \in Sessions : FanProper(fan[c][u])' /\ fan'[c][u].pc = "none"
          /\ \A d \in Calls : d # c => call'[d] = call[d] /\ fan'[d] = fan[d]
        BY <1>owner, <2>3, SendProper
    <2> QED BY <2>4 DEF FanAway
<1>9. CASE /\ Locks(sess[s], r) /\ guard' = cleared /\ FanOut(c, registered)
           /\ call' = [call EXCEPT ![c].pc = "fan", ![c].track = r.sess.track,
                   ![c].ctx = r.sess.ctx, ![c].event = "now_playing", ![c].plan = <<"send">>]
    <2> DEFINE k == [call[c] EXCEPT !.pc = "fan", !.track = r.sess.track,
                   !.ctx = r.sess.ctx, !.event = "now_playing", !.plan = <<"send">>]
    <2>1. /\ call[c] \in CallType /\ "fan" \in PC /\ r.sess.track \in Tracks \cap TrackOrNone
          /\ r.sess.ctx \in Context /\ "now_playing" \in EventNames /\ <<"send">> \in Plans
        BY <1>7, <1>9 DEF TypeInv, PC, TrackOrNone, EventNames, Plans
    <2>2. /\ k \in CallType /\ k.pc = "fan" /\ k.op = call[c].op /\ k.track \in Tracks
          /\ k.sess = call[c].sess /\ k.phone = call[c].phone
        BY <2>1 DEF CallType
    <2>3. call' = [call EXCEPT ![c] = k]
        BY <1>9 DEF TypeInv, CallType
    <2> HIDE DEF k
    <2>4. call' \in [Calls -> CallType] /\ call'[c] = k
          /\ \A d \in Calls : d # c => call'[d] = call[d]
        BY <2>2, <2>3 DEF TypeInv
    <2>5. k.phone # NoPhone
        BY <1>1, <2>2, ConstantsAssumption
    <2>6. Proper(call[c])'
        BY <1>owner, <2>2, <2>4, <2>5 DEF Proper, Streaming, InSession
    <2> QED BY <1>4, <1>9, <2>2, <2>4, <2>6, FanOutProper DEF FanAway
<1>10. \/ guard' = cleared /\ Resumes(c) /\ UNCHANGED fan
       \/ r.diffs # <<>> /\ Last(r.diffs).kind = "locked"
            /\ SendIfApproved(c, p, r.sess.track, r.sess.ctx, cleared)
       \/ r.diffs # <<>> /\ Last(r.diffs).kind = "locked"
            /\ guard' = cleared /\ FanOut(c, registered)
            /\ call' = [call EXCEPT ![c].pc = "fan", ![c].track = r.sess.track,
                   ![c].ctx = r.sess.ctx, ![c].event = "now_playing", ![c].plan = <<"send">>]
    BY DEF Deliver, Resumes
<1>11. r.diffs # <<>> /\ Last(r.diffs).kind = "locked" => Locks(sess[s], r)
    BY LockNews
<1> QED BY <1>6, <1>8, <1>9, <1>10, <1>11

\* The steps of a chunk or a stop after it has begun.
LEMMA ChunkInv ==
    ASSUME TypeInv, NEW c \in Calls,
           \/ \E top \in TrackOrNone : Match(c, top)
           \/ Judge(c) \/ (\E spaced \in BOOLEAN : Weigh(c, spaced))
           \/ ReEvaluate(c) \/ Reset(c) \/ SendFails(c)
    PROVE  TypeInv'
<1>. /\ StoredOK /\ Owned /\ call[c] \in CallType /\ call[c].op \in {"chunk", "stop"}
     /\ InSession(call[c]) /\ call[c].pc \notin {"fan", "idle"}
  <2>1. Proper(call[c]) /\ call[c].pc \in Streaming
    BY DEF TypeInv, Streaming, Match, Judge, Weigh, ReEvaluate, Reset, SendFails, At
  <2> QED BY <2>1 DEF TypeInv, Proper, Streaming
<1> DEFINE s == call[c].sess
           p == call[c].phone
<1>. s \in Sessions /\ p \in Phones /\ SessOK(sess[s])
    BY DEF InSession, StoredOK
<1>1. ASSUME NEW top \in TrackOrNone, Match(c, top)
      PROVE  TypeInv'
    <2> DEFINE ctx == IF top = NoTrack THEN {} ELSE queue[top]
               pc == IF call[c].pc = "match" THEN "judge" ELSE "weigh"
               k == [call[c] EXCEPT !.pc = pc, !.ctx = ctx, !.track = top]
    <2>1. ctx \in Context /\ pc \in PC /\ pc \in {"judge", "weigh"}
        BY DEF StoredOK, Context, TrackOrNone, PC
    <2>2. call' = [call EXCEPT ![c] = k] /\ UNCHANGED <<queue, sockets, registry, sess, told, fan>>
        BY <1>1 DEF Match, TypeInv, CallType
    <2> HIDE DEF ctx, pc
    <2>3. k \in CallType /\ k.pc = pc /\ k.op = call[c].op /\ k.sess = s /\ k.phone = p
        BY <2>1 DEF CallType
    <2> HIDE DEF k
    <2>4. call' \in [Calls -> CallType] /\ call'[c] = k
          /\ \A d \in Calls : d # c => call'[d] = call[d]
        BY <2>2, <2>3 DEF TypeInv
    <2>5. Proper(call[c])'
        BY <2>1, <2>2, <2>3, <2>4 DEF Proper, Streaming, InSession, registry
    <2>6. StoredOK' /\ Owned' /\ UNCHANGED <<owner, fan>>
        BY <2>2, StoredKept DEF StoredOK, registry
    <2> QED BY <2>4, <2>5, <2>6, CallMoves
<1>2. CASE Judge(c)
    <2> DEFINE top == call[c].track
               ctx == call[c].ctx
    <2>1. top \in TrackOrNone /\ ctx \in Context
        BY DEF CallType
    <2>2. PICK r : r = Judged(sess[s], top, ctx)
        OBVIOUS
    <2>3. Sound(sess[s], r)
        BY <2>1, <2>2, JudgedSound
    <2>4. Deliver(c, s, r) /\ UNCHANGED <<queue, current, loading, registry>>
        BY <1>2, <2>2 DEF Judge
    <2> QED BY <2>3, <2>4, DeliverInv
<1>3. ASSUME NEW spaced \in BOOLEAN, Weigh(c, spaced)
      PROVE  TypeInv'
    <2> DEFINE was == call[c].was
               top == call[c].track
               ctx == call[c].ctx
    <2>1. top \in TrackOrNone /\ ctx \in Context /\ was \in TrackOrNone
        BY DEF CallType
    <2>2. PICK r : r = Revoked(sess[s], was, top, ctx, spaced)
        OBVIOUS
    <2>3. Sound(sess[s], r)
        BY <2>1, <2>2, RevokedSound
    <2>4. Deliver(c, s, r) /\ UNCHANGED <<queue, current, loading, registry>>
        BY <1>3, <2>2 DEF Weigh
    <2> QED BY <2>3, <2>4, DeliverInv
<1>4. CASE ReEvaluate(c)
    <2>1. UNCHANGED <<queue, sockets, registry, sess, told, fan>> /\ Finish(c)
        BY <1>4 DEF ReEvaluate, ReEvaluated, DebounceElapsed, StoredOK
    <2>2. StoredOK' /\ Owned' /\ UNCHANGED <<owner, fan>>
        BY <2>1, StoredKept DEF StoredOK, registry
    <2> QED BY <2>1, <2>2, FinishProper, CallMoves
<1>dropped. PICK n : n = Dropped(sess[s]).sess /\ SessOK(n)
    BY DroppedSound, FreshOK
<1>5. CASE Reset(c)
    <2>1. sess' = [sess EXCEPT ![s] = n]
        BY <1>5, <1>dropped DEF Reset
    <2>2. sess' \in [Sessions -> SessType] /\ \A u \in Sessions : SessOK(sess'[u])
        BY <1>dropped, <2>1, OneSession
    <2>3. told' \in [Phones -> TrackOrNone] /\ guard' \in [Phones -> TrackOrNone]
        BY <1>5 DEF Reset, Tell, StoredOK, TrackOrNone
    <2>4. /\ registered' \subseteq Sessions /\ UNCHANGED <<queue, loading, owner, fan>>
          /\ current' = [current EXCEPT ![p] = NoSession]
        BY <1>5 DEF Reset, StoredOK
    <2>5. StoredOK' /\ Owned'
        BY <2>2, <2>3, <2>4 DEF StoredOK, Owned
    <2>6. Finish(c)
        BY <1>5 DEF Reset
    <2> QED BY <2>4, <2>5, <2>6, FinishProper, CallMoves
<1>6. CASE SendFails(c)
    <2>1. queue' \in [Tracks -> Context] /\ UNCHANGED <<current, loading, registry, fan>>
        BY <1>6 DEF SendFails, Played, StoredOK, Context
    <2>owner. UNCHANGED owner
        BY <2>1 DEF registry
    <2>2. CASE current[p] = NoSession
        <3>1. Finish(c) /\ UNCHANGED <<guard, sess, told>>
            BY <1>6, <2>2 DEF SendFails
        <3>2. /\ guard' \in [Phones -> TrackOrNone] /\ told' \in [Phones -> TrackOrNone]
              /\ sess' \in [Sessions -> SessType] /\ \A u \in Sessions : SessOK(sess'[u])
            BY <3>1 DEF StoredOK
        <3>3. StoredOK' /\ Owned'
            BY <2>1, <3>2, StoredMoves
        <3> QED BY <2>1, <2>owner, <3>1, <3>3, FinishProper, CallMoves
    <2>3. CASE current[p] # NoSession
        <3>1. PICK u \in Sessions : u = current[p]
            BY <2>3 DEF StoredOK
        <3>2. PICK m : m = Dropped(sess[u]).sess /\ SessOK(m)
            BY DroppedSound, FreshOK DEF StoredOK
        <3>3. /\ sess' = [sess EXCEPT ![u] = m] /\ told' \in [Phones -> TrackOrNone]
              /\ guard' = [guard EXCEPT ![p] = NoTrack]
              /\ Resumes(c)
            BY <1>6, <2>3, <3>1, <3>2 DEF SendFails, Tell, Resumes
        <3>4. sess' \in [Sessions -> SessType] /\ \A v \in Sessions : SessOK(sess'[v])
            BY <3>2, <3>3, OneSession
        <3>5. guard' \in [Phones -> TrackOrNone]
            BY <3>3 DEF StoredOK, TrackOrNone
        <3>6. StoredOK' /\ Owned'
            BY <2>1, <3>3, <3>4, <3>5, StoredMoves
        <3>7. /\ call' \in [Calls -> CallType] /\ Proper(call[c])'
              /\ \A d \in Calls : d # c => call'[d] = call[d]
            BY <2>owner, <3>3, ResumesProper
        <3> QED BY <2>1, <2>owner, <3>6, <3>7, CallMoves
    <2> QED BY <2>2, <2>3
<1> QED BY <1>1, <1>2, <1>3, <1>4, <1>5, <1>6

\* The record that Announce gives a handler.
LEMMA AnnounceProper ==
    ASSUME TypeInv, NEW c \in Calls, NEW op \in OpNames \ {"start", "stop"},
           NEW track \in TrackOrNone, NEW first \in EventNames,
           NEW rest \in {<<>>, <<"queue_updated">>}, Announce(c, op, track, first, rest)
    PROVE  /\ call' \in [Calls -> CallType] /\ Proper(call[c])' /\ FanAway(c)'
           /\ call'[c].pc = "fan" /\ call'[c].track = track /\ call'[c].event = first
           /\ fan' \in [Calls -> [Sessions -> FanType]]
           /\ \A s \in Sessions : FanProper(fan[c][s])' /\ fan'[c][s].pc \in {"none", "target"}
           /\ \A d \in Calls : d # c => call'[d] = call[d] /\ fan'[d] = fan[d]
<1> DEFINE n == [Idle EXCEPT !.op = op, !.pc = "fan", !.track = track, !.event = first,
                             !.plan = rest]
<1>1. rest \in Plans /\ op \in OpNames \cup {"none"} /\ op # "none" /\ "fan" \in PC
    BY DEF Plans, PC, OpNames
<1>2. /\ n \in CallType /\ n.op = op /\ n.pc = "fan" /\ n.phone = NoPhone
      /\ n.track = track /\ n.event = first
    BY <1>1, IdleProper DEF CallType, Idle
<1> HIDE DEF n
<1>3. call' = [call EXCEPT ![c] = n] /\ FanOut(c, registered)
    BY DEF Announce, n
<1>4. call' \in [Calls -> CallType] /\ call'[c] = n
      /\ \A d \in Calls : d # c => call'[d] = call[d]
    BY <1>2, <1>3 DEF TypeInv
<1>5. n.plan # <<"send">>
    <2>1. n.plan = rest
        BY DEF n, Idle
    <2>2. <<>> # <<"send">> /\ <<"queue_updated">> # <<"send">>
        <3>1. <<"queue_updated">>[1] = "queue_updated" /\ <<"send">>[1] = "send"
            OBVIOUS
        <3>2. Len(<<>>) = 0 /\ Len(<<"send">>) = 1
            OBVIOUS
        <3> QED BY <3>1, <3>2
    <2> QED BY <2>1, <2>2
<1>6. Proper(call[c])'
    BY <1>1, <1>2, <1>4, <1>5 DEF Proper, Streaming
<1>7. FanAway(c)'
    BY <1>2, <1>4 DEF FanAway
<1> QED BY <1>2, <1>3, <1>4, <1>6, <1>7, FanOutProper

LEMMA PlayedType ==
    ASSUME TypeInv, NEW t \in Tracks
    PROVE  Played(t) \in [Tracks -> Context]
BY DEF TypeInv, StoredOK, Played, Context

\* Every handler that announces a change of the queue.
LEMMA AnnouncingInv ==
    ASSUME TypeInv, NEW c \in Calls, QueueStep(c)
    PROVE  TypeInv'
<1>. StoredOK /\ Owned
    BY DEF TypeInv
<1>1. ASSUME NEW op \in OpNames \ {"start", "stop"},
             NEW track \in TrackOrNone, NEW first \in EventNames,
             NEW rest \in {<<>>, <<"queue_updated">>}, Announce(c, op, track, first, rest),
             StoredOK', Owned', UNCHANGED owner
      PROVE  TypeInv'
    BY <1>1, AnnounceProper, OneMoves
<1>2. ASSUME UNCHANGED <<sockets, registry, sess, told>>, queue' \in [Tracks -> Context]
      PROVE  StoredOK' /\ Owned' /\ UNCHANGED owner
    BY <1>2, StoredKept DEF registry
<1>names. /\ {"approve", "leave", "sendNow", "djSend", "vote"} \subseteq OpNames \ {"start", "stop"}
          /\ {"now_playing", "left_playing", "queue_updated"} \subseteq EventNames
          /\ NoTrack \in TrackOrNone /\ Tracks \subseteq TrackOrNone
    BY DEF OpNames, EventNames, TrackOrNone
<1>3. CASE Stir(c)
    <2>1. /\ Announce(c, "vote", NoTrack, "queue_updated", <<>>)
          /\ UNCHANGED <<sockets, registry, sess, told>> /\ queue' \in [Tracks -> Context]
        BY <1>3 DEF Stir, StoredOK
    <2> QED BY <1>1, <1>2, <1>names, <2>1
<1>4. ASSUME NEW t \in Tracks, Approve(c, t)
      PROVE  TypeInv'
    <2>1. PICK rest \in {<<>>, <<"queue_updated">>} :
            Announce(c, "approve", t, "queue_updated", rest)
        BY <1>4 DEF Approve
    <2>2. UNCHANGED <<sockets, registry, sess, told>> /\ queue' \in [Tracks -> Context]
        BY <1>4 DEF Approve, StoredOK, Context
    <2> QED BY <1>1, <1>2, <1>names, <2>1, <2>2
<1>5. ASSUME NEW t \in Tracks, PutOn(c, t)
      PROVE  TypeInv'
    <2>1. /\ Announce(c, "sendNow", t, "now_playing", <<"queue_updated">>)
          /\ UNCHANGED <<sockets, registry, sess, told>> /\ queue' \in [Tracks -> Context]
        BY <1>5, PlayedType DEF PutOn
    <2> QED BY <1>1, <1>2, <1>names, <2>1
<1>6. ASSUME NEW t \in Tracks, NEW status \in {"APPROVED", "PLAYING"},
             Leave(c, t, status) \/ LeaveQuietly(c, t, status)
      PROVE  TypeInv'
    <2>1. /\ UNCHANGED <<sockets, registry, sess, told>> /\ queue' \in [Tracks -> Context]
        BY <1>6 DEF Leave, LeaveQuietly, StoredOK, Context
    <2>2. PICK first \in EventNames, rest \in {<<>>, <<"queue_updated">>} :
            Announce(c, "leave", t, first, rest)
        BY <1>6, <1>names DEF Leave, LeaveQuietly
    <2> QED BY <1>1, <1>2, <1>names, <2>1, <2>2
<1>7. ASSUME NEW t \in Tracks, DjSend(c, t)
      PROVE  TypeInv'
    <2> DEFINE result == IntentOnAll(t)
               out == [s \in Sessions |-> result[s].diffs]
    <2>1. /\ sess' = [s \in Sessions |-> result[s].sess] /\ told' \in [Phones -> TrackOrNone]
          /\ guard' = Unguarded(out) /\ Announce(c, "djSend", t, "now_playing", <<>>)
          /\ queue' = Played(t) /\ UNCHANGED <<current, loading, registry>>
        BY <1>7 DEF DjSend, Tell
    <2>2. \A s \in Sessions : SessOK(result[s].sess)
        BY IntendedSound DEF StoredOK, IntentOnAll, Sound
    <2>3. sess' \in [Sessions -> SessType] /\ \A s \in Sessions : SessOK(sess'[s])
        <3> HIDE DEF result
        <3> QED BY <2>1, <2>2 DEF SessOK
    <2>4. guard' \in [Phones -> TrackOrNone]
        <3> HIDE DEF out
        <3> QED BY <2>1, UnguardedType
    <2>5. StoredOK' /\ Owned' /\ UNCHANGED owner
        <3> HIDE DEF out, result
        <3> QED BY <2>1, <2>3, <2>4, PlayedType, StoredMoves
    <2> QED BY <1>1, <1>names, <2>1, <2>5
<1> QED BY <1>3, <1>4, <1>5, <1>6, <1>7 DEF QueueStep

LEMMA SendNowInv ==
    ASSUME TypeInv, NEW c \in Calls, SendNow(c)
    PROVE  TypeInv'
<1>1. /\ call[c].pc = "sending" /\ call[c].track \in Tracks /\ InSession(call[c])
      /\ call[c].op \in {"chunk", "stop"} /\ call[c] \in CallType
    BY DEF TypeInv, SendNow, At, Proper, Streaming
<1>2. /\ UNCHANGED <<sockets, registry, sess, told>> /\ queue' \in [Tracks -> Context]
    BY <1>1, PlayedType DEF SendNow
<1>3. StoredOK' /\ Owned' /\ UNCHANGED owner
    BY <1>2, StoredKept DEF registry
<1> DEFINE k == [call[c] EXCEPT !.pc = "fan", !.event = "now_playing",
                                !.plan = <<"queue_updated">>]
<1>4. /\ "fan" \in PC /\ "now_playing" \in EventNames /\ <<"queue_updated">> \in Plans
    BY DEF PC, EventNames, Plans
<1>5. /\ k \in CallType /\ k.pc = "fan" /\ k.op = call[c].op /\ k.sess = call[c].sess
      /\ k.phone = call[c].phone /\ k.plan = <<"queue_updated">>
    BY <1>1, <1>4 DEF CallType
<1>6. call' = [call EXCEPT ![c] = k] /\ FanOut(c, registered)
    BY DEF SendNow, TypeInv, CallType
<1>7. k.plan # <<"send">>
    BY <1>5
<1> HIDE DEF k
<1>8. call' \in [Calls -> CallType] /\ call'[c] = k
      /\ \A d \in Calls : d # c => call'[d] = call[d]
    BY <1>5, <1>6 DEF TypeInv
<1>9. Proper(call[c])' /\ FanAway(c)'
    BY <1>1, <1>3, <1>5, <1>7, <1>8 DEF Proper, Streaming, InSession, FanAway
<1> QED BY <1>3, <1>6, <1>8, <1>9, FanOutProper, OneMoves

\* One session goes one step further with the event of a handler.
LEMMA FanCell ==
    ASSUME TypeInv, NEW c \in Calls, NEW s \in Sessions, NEW f, f \in FanType, FanProper(f),
           fan[c][s].pc # "none", fan' = [fan EXCEPT ![c] = [fan[c] EXCEPT ![s] = f]],
           UNCHANGED <<call, owner>>, StoredOK', Owned'
    PROVE  TypeInv'
<1>1. call[c].pc = "fan"
    BY DEF TypeInv, FanAway
<1>2. /\ fan' \in [Calls -> [Sessions -> FanType]] /\ fan'[c][s] = f
      /\ \A u \in Sessions : u # s => fan'[c][u] = fan[c][u]
      /\ \A d \in Calls : d # c => fan'[d] = fan[d]
    BY DEF TypeInv
<1>3. FanAway(c)'
    BY <1>1 DEF FanAway
<1>4. \A u \in Sessions : FanProper(fan[c][u])'
    BY <1>2 DEF TypeInv, FanProper
<1>5. Proper(call[c])'
    BY DEF TypeInv, Proper, InSession
<1>6. call' \in [Calls -> CallType] /\ \A d \in Calls : d # c => call'[d] = call[d]
    BY DEF TypeInv
<1> QED BY <1>2, <1>3, <1>4, <1>5, <1>6, OneMoves

LEMMA DoneProper ==
    [NoFan EXCEPT !.pc = "done"] \in FanType /\ FanProper([NoFan EXCEPT !.pc = "done"])
BY IdleProper DEF FanType, FanProper

LEMMA FanCellInv ==
    ASSUME TypeInv, NEW c \in Calls, NEW s \in Sessions,
           FanTarget(c, s) \/ FanFinished(c, s) \/ FanApply(c, s) \/ FanEnrich(c, s)
              \/ FanMerge(c, s)
    PROVE  TypeInv'
<1>. /\ StoredOK /\ Owned /\ SessOK(sess[s]) /\ fan[c][s] \in FanType
     /\ fan \in [Calls -> [Sessions -> FanType]] /\ FanProper(fan[c][s])
    BY DEF TypeInv, StoredOK
<1> DEFINE done == [NoFan EXCEPT !.pc = "done"]
<1>1. CASE FanTarget(c, s)
    <2>1. PICK t \in TrackOrNone : fan' = [fan EXCEPT ![c][s].pc = "apply", ![c][s].target = t]
        BY <1>1 DEF FanTarget, UpNext, TrackOrNone
    <2> DEFINE f == [fan[c][s] EXCEPT !.pc = "apply", !.target = t]
    <2>2. f \in FanType /\ f.pc = "apply"
        BY DEF FanType
    <2>3. fan' = [fan EXCEPT ![c] = [fan[c] EXCEPT ![s] = f]]
        BY <2>1
    <2>4. /\ fan[c][s].pc = "target"
          /\ UNCHANGED <<queue, sockets, registry, sess, told, call>>
        BY <1>1 DEF FanTarget, FanAt
    <2>5. StoredOK' /\ Owned' /\ UNCHANGED <<call, owner>>
        BY <2>4, StoredKept DEF StoredOK, registry
    <2> HIDE DEF f
    <2>6. FanProper(f)
        BY <2>2 DEF FanProper
    <2> QED BY <2>2, <2>3, <2>4, <2>5, <2>6, FanCell
<1>2. CASE FanFinished(c, s)
    <2>1. PICK n : n = Dropped(sess[s]).sess /\ SessOK(n)
        BY DroppedSound, FreshOK
    <2>2. PICK out : out = Only(s, Dropped(sess[s]).diffs)
        OBVIOUS
    <2>3. /\ sess' = [sess EXCEPT ![s] = n] /\ told' \in [Phones -> TrackOrNone]
          /\ guard' = Unguarded(out) /\ fan[c][s].pc = "apply"
          /\ fan' = [fan EXCEPT ![c] = [fan[c] EXCEPT ![s] = done]]
          /\ UNCHANGED <<queue, current, loading, registry, call>>
        BY <1>2, <2>1, <2>2 DEF FanFinished, Tell, FanAt
    <2>4. StoredOK' /\ Owned' /\ UNCHANGED <<call, owner>>
        BY <2>1, <2>3, OneSession, UnguardedType, StoredMoves DEF StoredOK
    <2>5. PICK f : f = done
        OBVIOUS
    <2> QED BY <2>3, <2>4, <2>5, DoneProper, FanCell
<1>3. CASE FanApply(c, s)
    <2>0. PICK result : result = Applied(sess[s], call[c].event, call[c].track, fan[c][s].target)
        OBVIOUS
    <2>1. Sound(sess[s], result) /\ (result.sess.track # NoTrack => ~ Releases(sess[s], result))
        BY <2>0, AppliedSound
    <2>2. /\ sess' = [sess EXCEPT ![s] = result.sess] /\ fan[c][s].pc = "apply"
          /\ UNCHANGED <<queue, current, loading, registry, call>>
        BY <1>3, <2>0 DEF FanApply, FanAt
    <2>3. PICK n : n = result.sess
        OBVIOUS
    <2>4. sess' \in [Sessions -> SessType] /\ \A u \in Sessions : SessOK(sess'[u])
        BY <2>1, <2>2, <2>3, OneSession DEF Sound
    <2>5. CASE result.sess.track = NoTrack
        <3>1. PICK out : out = Only(s, result.diffs)
            OBVIOUS
        <3>2. /\ fan' = [fan EXCEPT ![c] = [fan[c] EXCEPT ![s] = done]]
              /\ told' \in [Phones -> TrackOrNone] /\ guard' = Unguarded(out)
            BY <1>3, <2>0, <2>5, <3>1 DEF FanApply, Tell
        <3>3. StoredOK' /\ Owned' /\ UNCHANGED <<call, owner>>
            BY <2>2, <2>4, <3>2, UnguardedType, StoredMoves DEF StoredOK
        <3>4. PICK f : f = done
            OBVIOUS
        <3> QED BY <2>2, <3>2, <3>3, <3>4, DoneProper, FanCell
    <2>6. CASE result.sess.track # NoTrack
        <3> DEFINE f == [NoFan EXCEPT !.pc = "enrich", !.track = result.sess.track,
                                      !.diffs = result.diffs]
        <3>1. /\ fan' = [fan EXCEPT ![c] = [fan[c] EXCEPT ![s] = f]]
              /\ UNCHANGED <<told, guard>>
            BY <1>3, <2>0, <2>6 DEF FanApply
        <3>2. StoredOK' /\ Owned' /\ UNCHANGED <<call, owner>>
            BY <2>2, <2>4, <3>1, StoredMoves DEF StoredOK
        <3>3. result.sess.track \in Tracks /\ result.sess.track \in TrackOrNone
            BY <2>1, <2>6 DEF Sound, SessOK, SessType, TrackOrNone
        <3>4. result.diffs \in {<<>>, <<Diff("locked", result.sess.track)>>}
            BY <2>1, <2>6 DEF Sound, Silent, Locks
        <3>5. Diff("locked", result.sess.track) \in DiffType
            BY <3>3 DEF Diff, DiffType
        <3>6. f \in FanType /\ f.track = result.sess.track /\ f.diffs = result.diffs
            <4>1. result.diffs \in {<<>>} \cup {<<d>> : d \in DiffType}
                BY <3>4, <3>5
            <4> QED BY <3>3, <4>1, IdleProper DEF FanType
        <3> HIDE DEF f
        <3>7. FanProper(f)
            BY <3>3, <3>4, <3>6 DEF FanProper
        <3> QED BY <2>2, <3>1, <3>2, <3>6, <3>7, FanCell
    <2> QED BY <2>5, <2>6
<1>4. CASE FanEnrich(c, s)
    <2> DEFINE f == [fan[c][s] EXCEPT !.pc = "merge", !.ctx = queue[fan[c][s].track]]
    <2>1. fan[c][s].pc = "enrich" /\ UNCHANGED <<queue, sockets, registry, sess, told, call>>
        BY <1>4 DEF FanEnrich, FanAt
    <2>2. fan' = [fan EXCEPT ![c] = [fan[c] EXCEPT ![s] = f]]
        BY <1>4 DEF FanEnrich
    <2>3. queue[fan[c][s].track] \in Context
        BY <2>1 DEF FanProper, StoredOK
    <2>4. f \in FanType /\ f.track = fan[c][s].track /\ f.diffs = fan[c][s].diffs
        BY <2>3 DEF FanType
    <2> HIDE DEF f
    <2>5. FanProper(f)
        BY <2>1, <2>4 DEF FanProper
    <2>6. StoredOK' /\ Owned' /\ UNCHANGED <<call, owner>>
        BY <2>1, StoredKept DEF StoredOK, registry
    <2> QED BY <2>1, <2>2, <2>4, <2>5, <2>6, FanCell
<1>5. CASE FanMerge(c, s)
    <2>1. /\ fan[c][s].pc = "merge" /\ UNCHANGED <<queue, current, loading, registry, call>>
          /\ fan' = [fan EXCEPT ![c] = [fan[c] EXCEPT ![s] = done]]
        BY <1>5 DEF FanMerge, FanAt
    <2>2. fan[c][s].track \in Tracks /\ fan[c][s].ctx \in Context
        BY <2>1 DEF FanProper, FanType
    <2>3. StoredOK' /\ Owned' /\ UNCHANGED <<call, owner>>
        <3>1. CASE sess[s].track = NoTrack
            <4>1. UNCHANGED <<sess, told, guard>>
                BY <1>5, <3>1 DEF FanMerge
            <4> QED BY <2>1, <4>1, StoredMoves DEF StoredOK
        <3>2. CASE sess[s].track # NoTrack
            <4>1. PICK n : n = Merged(sess[s], fan[c][s].track, fan[c][s].ctx).sess
                OBVIOUS
            <4>2. SessOK(n)
                <5> DEFINE m == [sess[s] EXCEPT !.track = fan[c][s].track, !.ctx = fan[c][s].ctx]
                <5>1. SessOK(m)
                    BY <2>2, <3>2, ConstantsAssumption DEF SessOK, SessType, TrackOrNone
                <5>2. n = m \/ n = Dropped(m).sess
                    BY <4>1 DEF Merged
                <5> HIDE DEF m
                <5> QED BY <5>1, <5>2, DroppedSound, FreshOK
            <4>3. PICK out : out = Only(s, fan[c][s].diffs
                                \o Merged(sess[s], fan[c][s].track, fan[c][s].ctx).diffs)
                OBVIOUS
            <4>4. /\ sess' = [sess EXCEPT ![s] = n] /\ guard' = Unguarded(out)
                  /\ told' \in [Phones -> TrackOrNone]
                BY <1>5, <3>2, <4>1, <4>3 DEF FanMerge, Tell
            <4> QED BY <2>1, <4>2, <4>4, OneSession, UnguardedType, StoredMoves DEF StoredOK
        <3> QED BY <3>1, <3>2
    <2>4. PICK f : f = done
        OBVIOUS
    <2> QED BY <2>1, <2>3, <2>4, DoneProper, FanCell
<1> QED BY <1>1, <1>2, <1>3, <1>4, <1>5

\* The next announcement of a handler, or what follows the last one.
LEMMA FanEndInv ==
    ASSUME TypeInv, NEW c \in Calls, FanNext(c) \/ FanThenSend(c) \/ FanReturn(c)
    PROVE  TypeInv'
<1>. /\ StoredOK /\ Owned /\ Proper(call[c]) /\ call[c] \in CallType /\ call[c].pc = "fan"
    BY DEF TypeInv, FanNext, FanThenSend, FanReturn, FanOver, At
<1>1. CASE FanNext(c)
    <2>1. /\ call[c].plan = <<"queue_updated">>
          /\ UNCHANGED <<queue, sockets, registry, sess, told>> /\ FanOut(c, registered)
        BY <1>1 DEF FanNext, CallType, Plans
    <2>2. Head(call[c].plan) = "queue_updated" /\ Tail(call[c].plan) = <<>>
        BY <2>1
    <2> DEFINE k == [call[c] EXCEPT !.event = "queue_updated", !.plan = <<>>]
    <2>3. "queue_updated" \in EventNames /\ <<>> \in Plans
        BY DEF EventNames, Plans
    <2>4. /\ k \in CallType /\ k.pc = "fan" /\ k.op = call[c].op /\ k.sess = call[c].sess
          /\ k.phone = call[c].phone /\ k.plan = <<>>
        BY <2>3 DEF CallType
    <2>5. call' = [call EXCEPT ![c] = k]
        BY <1>1, <2>2 DEF FanNext, TypeInv, CallType
    <2> HIDE DEF k
    <2>6. call' \in [Calls -> CallType] /\ call'[c] = k
          /\ \A d \in Calls : d # c => call'[d] = call[d]
        BY <2>4, <2>5 DEF TypeInv
    <2>7. StoredOK' /\ Owned' /\ UNCHANGED owner
        BY <2>1, StoredKept DEF StoredOK, registry
    <2>8. k.plan # <<"send">>
        BY <2>4
    <2>9. Proper(call[c])' /\ FanAway(c)'
        BY <2>4, <2>6, <2>7, <2>8 DEF Proper, Streaming, InSession, FanAway
    <2> QED BY <2>1, <2>6, <2>7, <2>9, FanOutProper, OneMoves
<1>2. CASE FanThenSend(c)
    <2>1. /\ call[c].track \in Tracks /\ call[c].op \in {"chunk", "stop"} /\ InSession(call[c])
          /\ SendIfApproved(c, call[c].phone, call[c].track, call[c].ctx, guard)
          /\ UNCHANGED <<queue, current, loading, registry, sess, told>>
        BY <1>2 DEF FanThenSend, Proper
    <2>2. PICK track \in Tracks : track = call[c].track
        BY <2>1
    <2>3. PICK ctx : ctx = call[c].ctx
        OBVIOUS
    <2>4. PICK to \in [Phones -> TrackOrNone] : to = guard
        BY DEF StoredOK
    <2>5. SendIfApproved(c, call[c].phone, track, ctx, to) /\ UNCHANGED owner
        BY <2>1, <2>2, <2>3, <2>4 DEF registry
    <2>6. /\ guard' \in [Phones -> TrackOrNone]
          /\ call' \in [Calls -> CallType] /\ Proper(call[c])' /\ call'[c].pc # "fan"
          /\ fan' \in [Calls -> [Sessions -> FanType]]
          /\ \A u \in Sessions : FanProper(fan[c][u])' /\ fan'[c][u].pc = "none"
          /\ \A d \in Calls : d # c => call'[d] = call[d] /\ fan'[d] = fan[d]
        BY <2>1, <2>5, SendProper
    <2>7. StoredOK' /\ Owned'
        BY <2>1, <2>6, StoredMoves DEF StoredOK
    <2> QED BY <2>5, <2>6, <2>7, OneMoves DEF FanAway
<1>3. CASE FanReturn(c)
    <2>1. /\ UNCHANGED <<queue, sockets, registry, sess, told>>
          /\ fan' = [fan EXCEPT ![c] = [s \in Sessions |-> NoFan]]
        BY <1>3 DEF FanReturn
    <2>2. StoredOK' /\ Owned' /\ UNCHANGED owner
        BY <2>1, StoredKept DEF StoredOK, registry
    <2>3. /\ fan' \in [Calls -> [Sessions -> FanType]]
          /\ \A s \in Sessions : FanProper(fan[c][s])' /\ fan'[c][s].pc = "none"
          /\ \A d \in Calls : d # c => fan'[d] = fan[d]
        BY <2>1, NoFanProper
    <2>4. /\ call' \in [Calls -> CallType] /\ Proper(call[c])'
          /\ \A d \in Calls : d # c => call'[d] = call[d]
        <3>1. CASE Finish(c)
            BY <3>1, FinishProper
        <3>2. CASE call[c].phone # NoPhone /\ Resumes(c)
            BY <2>2, <3>2, ResumesProper DEF Proper
        <3> QED BY <1>3, <3>1, <3>2 DEF FanReturn, Resumes
    <2> QED BY <2>2, <2>3, <2>4, OneMoves DEF FanAway
<1> QED BY <1>1, <1>2, <1>3

LEMMA WindowInv ==
    ASSUME TypeInv, NEW s \in Sessions, WindowElapses(s)
    PROVE  TypeInv'
<1>. StoredOK /\ SessOK(sess[s])
    BY DEF TypeInv, StoredOK
<1>1. PICK n : n = [sess[s] EXCEPT !.due = TRUE] /\ SessOK(n)
    <2>1. SessOK([sess[s] EXCEPT !.due = TRUE])
        BY DEF SessOK, SessType
    <2> QED BY <2>1
<1>2. sess' = [sess EXCEPT ![s] = n] /\ UNCHANGED <<queue, sockets, registry, told, call, fan>>
    BY <1>1 DEF WindowElapses
<1>3. StoredOK' /\ Owned' /\ UNCHANGED owner
    BY <1>1, <1>2, OneSession, StoredMoves DEF StoredOK, sockets, registry
<1> QED BY <1>2, <1>3 DEF TypeInv, Proper, InSession, FanAway, FanProper

LEMMA TypeInit == Init => TypeInv
<1> SUFFICES ASSUME Init PROVE TypeInv
    OBVIOUS
<1>1. StoredOK /\ Owned
    BY FreshOK, ConstantsAssumption DEF Init, StoredOK, SessOK, Owned, TrackOrNone, Context
<1>2. \A c \in Calls : call[c] = Idle /\ \A s \in Sessions : fan[c][s] = NoFan
    BY DEF Init
<1>3. call \in [Calls -> CallType] /\ fan \in [Calls -> [Sessions -> FanType]]
    BY IdleProper DEF Init
<1> QED BY <1>1, <1>2, <1>3, IdleProper DEF TypeInv, FanAway

LEMMA TypeStep == TypeInv /\ [Next]_vars => TypeInv'
<1> SUFFICES ASSUME TypeInv, [Next]_vars PROVE TypeInv'
    OBVIOUS
<1>1. ASSUME NEW c \in Calls, PhoneStep(c) PROVE TypeInv'
    BY <1>1, OpeningInv, HearingInv, ChunkInv, SendNowInv DEF PhoneStep
<1>2. ASSUME NEW c \in Calls, FanStep(c) PROVE TypeInv'
    BY <1>2, FanEndInv, FanCellInv DEF FanStep
<1>3. CASE UNCHANGED vars
    BY <1>3 DEF vars, sockets, registry, TypeInv, StoredOK, Owned, Proper, InSession, FanAway,
               FanProper
<1> QED BY <1>1, <1>2, <1>3, AnnouncingInv, WindowInv DEF Next

\* The types of the live matcher, under every overlap of its handlers, and what a
\* handler in flight relies on: that the session it works on is its phone's own
\* (match-session.js, socket/audio.js).
THEOREM MatchInvariant == Spec => []TypeInv
BY TypeInit, TypeStep, PTL DEF Spec

\* Every variable of the live matcher has its type and a session has a candidate
\* exactly when it is not idle, whatever the handlers interleave.
THEOREM MatchTypeCorrect == Spec => []TypeOK
BY MatchInvariant, TypeInvType, PTL

-----------------------------------------------------------------------------
(* How a step changes one session.                                         *)

\* A session that is locked afterwards had that candidate before.
KeepsCandidate(s) ==
    sess'[s].state = "locked" =>
        sess[s].state # "idle" /\ sess'[s].track = sess[s].track

LEMMA SoundKeeps ==
    ASSUME NEW s, SessOK(s), NEW r, Sound(s, r), r.sess.state = "locked"
    PROVE  s.state # "idle" /\ r.sess.track = s.track
BY DEF Sound, Silent, Releases, Locks, SessOK

LEMMA SoundStep ==
    ASSUME TypeInv, NEW s \in Sessions, NEW r, Sound(sess[s], r),
           sess' = [sess EXCEPT ![s] = r.sess]
    PROVE  \A u \in Sessions : KeepsCandidate(u)
<1> SUFFICES ASSUME NEW u \in Sessions PROVE KeepsCandidate(u)
    OBVIOUS
<1>. SessOK(sess[u]) /\ SessOK(sess[s]) /\ sess \in [Sessions -> SessType]
    BY DEF TypeInv, StoredOK
<1>1. CASE u = s
    <2>1. sess'[s] = r.sess
        OBVIOUS
    <2> QED BY <1>1, <2>1, SoundKeeps DEF KeepsCandidate
<1>2. CASE u # s
    <2>1. sess'[u] = sess[u]
        BY <1>2
    <2> QED BY <2>1 DEF KeepsCandidate, SessOK
<1> QED BY <1>1, <1>2

\* A step that touches no session.
LEMMA QuietStep ==
    ASSUME TypeInv, NEW s \in Sessions, sess'[s] = sess[s] \/ sess'[s] = Fresh
    PROVE  KeepsCandidate(s)
BY FreshOK DEF TypeInv, StoredOK, SessOK, KeepsCandidate

\* Only the merge that ends applyQueueEvent may move a lock.
LEMMA SessionMoves ==
    ASSUME TypeInv, [Next]_vars, NEW s \in Sessions
    PROVE  KeepsCandidate(s) \/ \E c \in Calls : FanMerge(c, s)
<1>. StoredOK
    BY DEF TypeInv
<1>quiet. CASE UNCHANGED sess
    BY <1>quiet, QuietStep
<1>1. ASSUME NEW c \in Calls, PhoneStep(c)
      PROVE  KeepsCandidate(s)
    <2>1. CASE (\E p \in Phones : Start(c, p) \/ Chunk(c, p) \/ ChunkStarts(c, p)
                                  \/ ChunkWaits(c, p) \/ Stop(c, p))
               \/ AutoOpenFails(c) \/ Pause(c) \/ (\E top \in TrackOrNone : Match(c, top))
               \/ SendNow(c)
        <3>1. UNCHANGED sess
            BY <2>1 DEF Start, Chunk, ChunkStarts, ChunkWaits, Stop, AutoOpenFails, Pause,
                        Match, SendNow
        <3> QED BY <3>1, QuietStep
    <2>2. CASE Open(c) \/ AutoOpen(c)
        <3>1. sess'[s] = sess[s] \/ sess'[s] = Fresh
            BY <2>2 DEF Open, AutoOpen, OpenWith
        <3> QED BY <3>1, QuietStep
    <2>3. CASE Judge(c)
        <3>1. call[c].sess \in Sessions /\ call[c].track \in TrackOrNone /\ call[c].ctx \in Context
            BY <2>3 DEF TypeInv, Judge, At, Proper, Streaming, InSession, CallType
        <3>2. PICK r : r = Judged(sess[call[c].sess], call[c].track, call[c].ctx)
            OBVIOUS
        <3>3. Sound(sess[call[c].sess], r)
            BY <3>1, <3>2, JudgedSound DEF StoredOK
        <3>4. sess' = [sess EXCEPT ![call[c].sess] = r.sess]
            BY <2>3, <3>2 DEF Judge, Deliver
        <3> QED BY <3>1, <3>3, <3>4, SoundStep
    <2>4. ASSUME NEW spaced \in BOOLEAN, Weigh(c, spaced)
          PROVE  KeepsCandidate(s)
        <3>1. /\ call[c].sess \in Sessions /\ call[c].track \in TrackOrNone
              /\ call[c].ctx \in Context /\ call[c].was \in TrackOrNone
            BY <2>4 DEF TypeInv, Weigh, At, Proper, Streaming, InSession, CallType
        <3>2. PICK r : r = Revoked(sess[call[c].sess], call[c].was, call[c].track,
                                   call[c].ctx, spaced)
            OBVIOUS
        <3>3. Sound(sess[call[c].sess], r)
            BY <3>1, <3>2, RevokedSound DEF StoredOK
        <3>4. sess' = [sess EXCEPT ![call[c].sess] = r.sess]
            BY <2>4, <3>2 DEF Weigh, Deliver
        <3> QED BY <3>1, <3>3, <3>4, SoundStep
    <2>5. CASE SendFails(c) \/ Reset(c)
        <3>1. \/ UNCHANGED sess
              \/ \E u : sess' = [sess EXCEPT ![u] = Dropped(sess[u]).sess]
            BY <2>5 DEF SendFails, Reset
        <3>2. sess'[s] = sess[s] \/ sess'[s] = Fresh
            BY <3>1 DEF StoredOK, Dropped
        <3> QED BY <3>2, QuietStep
    <2>6. CASE ReEvaluate(c)
        <3>1. UNCHANGED sess
            BY <2>6 DEF ReEvaluate, ReEvaluated, DebounceElapsed, StoredOK
        <3> QED BY <3>1, QuietStep
    <2> QED BY <1>1, <2>1, <2>2, <2>3, <2>4, <2>5, <2>6 DEF PhoneStep
<1>2. ASSUME NEW c \in Calls, QueueStep(c)
      PROVE  KeepsCandidate(s)
    <2>1. CASE UNCHANGED sess
        BY <2>1, QuietStep
    <2>2. ASSUME NEW t \in Tracks, DjSend(c, t)
          PROVE  KeepsCandidate(s)
        <3>1. PICK r : r = IntentOnAll(t)[s] /\ sess'[s] = r.sess
            BY <2>2 DEF DjSend
        <3>2. Sound(sess[s], r)
            BY <3>1, IntendedSound DEF IntentOnAll, StoredOK, Sound, Silent
        <3> QED BY <3>1, <3>2, SoundKeeps DEF KeepsCandidate, StoredOK
    <2> QED BY <1>2, <2>1, <2>2
            DEF QueueStep, Stir, Approve, PutOn, Leave, LeaveQuietly
<1>3. ASSUME NEW c \in Calls, FanStep(c), ~ \E d \in Calls : FanMerge(d, s)
      PROVE  KeepsCandidate(s)
    <2>1. CASE UNCHANGED sess
        BY <2>1, QuietStep
    <2>2. ASSUME NEW u \in Sessions, FanFinished(c, u)
          PROVE  KeepsCandidate(s)
        <3>1. sess'[s] = sess[s] \/ sess'[s] = Fresh
            BY <2>2 DEF FanFinished, Dropped, StoredOK
        <3> QED BY <3>1, QuietStep
    <2>3. ASSUME NEW u \in Sessions, FanApply(c, u)
          PROVE  KeepsCandidate(s)
        <3>1. PICK r : r = Applied(sess[u], call[c].event, call[c].track, fan[c][u].target)
            OBVIOUS
        <3>2. Sound(sess[u], r)
            BY <3>1, AppliedSound DEF StoredOK
        <3>3. sess' = [sess EXCEPT ![u] = r.sess]
            BY <2>3, <3>1 DEF FanApply
        <3> QED BY <3>2, <3>3, SoundStep
    <2>4. ASSUME NEW u \in Sessions, u # s, FanMerge(c, u)
          PROVE  KeepsCandidate(s)
        <3>1. sess'[s] = sess[s]
            BY <2>4 DEF FanMerge, StoredOK
        <3> QED BY <3>1, QuietStep
    <2> QED BY <1>3, <2>1, <2>2, <2>3, <2>4
            DEF FanStep, FanNext, FanThenSend, FanReturn, FanTarget, FanEnrich
<1>4. ASSUME NEW u \in Sessions, WindowElapses(u)
      PROVE  KeepsCandidate(s)
    <2>1. sess'[s].track = sess[s].track /\ sess'[s].state = sess[s].state
        BY <1>4 DEF WindowElapses, StoredOK, SessType
    <2> QED BY <2>1 DEF KeepsCandidate
<1> QED BY <1>quiet, <1>1, <1>2, <1>3, <1>4 DEF Next, vars

\* A merge leaves the state of its session, or drops it.
LEMMA MergeKeepsState ==
    ASSUME TypeInv, NEW c \in Calls, NEW s \in Sessions, FanMerge(c, s),
           sess'[s].state = "locked"
    PROVE  sess[s].state = "locked"
<1>. sess \in [Sessions -> SessType] /\ SessOK(sess[s])
    BY DEF TypeInv, StoredOK
<1>1. CASE sess[s].track = NoTrack
    BY <1>1 DEF FanMerge
<1>2. CASE sess[s].track # NoTrack
    <2>1. sess'[s] = Merged(sess[s], fan[c][s].track, fan[c][s].ctx).sess
        BY <1>2 DEF FanMerge
    <2> DEFINE m == [sess[s] EXCEPT !.track = fan[c][s].track, !.ctx = fan[c][s].ctx]
    <2>2. sess'[s] = m \/ sess'[s] = Fresh
        BY <2>1 DEF Merged, Dropped
    <2>3. m.state = sess[s].state
        BY DEF SessType
    <2> QED BY <2>2, <2>3, FreshOK
<1> QED BY <1>1, <1>2

\* A chunk never locks a track that was not being held, and neither does a queue
\* event or the DJ, whatever the handlers interleave (match-session.js:329-402).
THEOREM LockedAfterHoldAlways == Spec => LockedAfterHold
<1>1. TypeInv /\ [Next]_vars =>
        [\A s \in Sessions :
            sess[s].state # "locked" /\ sess'[s].state = "locked"
              => sess[s].state = "holding" /\ sess[s].track = sess'[s].track]_vars
    <2> SUFFICES ASSUME TypeInv, [Next]_vars, NEW s \in Sessions,
                        sess[s].state # "locked", sess'[s].state = "locked"
                 PROVE  sess[s].state = "holding" /\ sess[s].track = sess'[s].track
        OBVIOUS
    <2>1. KeepsCandidate(s)
        BY SessionMoves, MergeKeepsState
    <2>2. sess[s].state \in {"idle", "holding", "locked"}
        BY DEF TypeInv, StoredOK, SessType
    <2> QED BY <2>1, <2>2 DEF KeepsCandidate
<1> QED BY <1>1, MatchInvariant, PTL DEF Spec, LockedAfterHold

-----------------------------------------------------------------------------
(* Locks that move and guards that outlive their candidate: only merges.   *)

MergeStep == \E c \in Calls, s \in Sessions : FanMerge(c, s)

LockStays ==
    \A s \in Sessions :
       sess[s].state = "locked" /\ sess'[s].state = "locked" => sess'[s].track = sess[s].track

\* What ReleaseFreesGuard asks of a step, for one phone.
FreesGuard(p) ==
    LET s == current[p] IN
    current'[p] = s /\ s # NoSession /\ guard[p] # NoTrack
       => ~ (sess[s].track = guard[p] /\ sess'[s].track # guard[p] /\ guard'[p] = guard[p])

\* emitMatchDiff lifts the guard when its track is released.
LEMMA UnguardedFrees ==
    ASSUME TypeInv, NEW p \in Phones, current[p] \in Sessions, NEW out,
           Contains(out[current[p]], Diff("released", guard[p])), out[current[p]] # <<>>
    PROVE  Unguarded(out)[p] = NoTrack
<1>1. owner[current[p]] = p
    BY ConstantsAssumption DEF TypeInv, Owned
<1>2. current[p] \in Speakers(p, out)
    BY <1>1 DEF Speakers
<1> QED BY <1>2 DEF Unguarded

LEMMA OneSaid ==
    ASSUME NEW d
    PROVE  Contains(<<d>>, d) /\ <<d>> # <<>>
BY DEF Contains

LEMMA GuardStep ==
    ASSUME TypeInv, NEW s \in Sessions, NEW r, Sound(sess[s], r),
           sess' = [sess EXCEPT ![s] = r.sess],
           \/ guard' = Unguarded(Only(s, r.diffs))
           \/ ~ Releases(sess[s], r)
           \/ \A p \in Phones : current[p] = s => guard'[p] = NoTrack
    PROVE  \A p \in Phones : FreesGuard(p)
<1> SUFFICES ASSUME NEW p \in Phones, current[p] # NoSession, guard[p] # NoTrack,
                    sess[current[p]].track = guard[p], sess'[current[p]].track # guard[p],
                    guard'[p] = guard[p]
             PROVE  FALSE
    BY DEF FreesGuard
<1>. sess \in [Sessions -> SessType] /\ current[p] \in Sessions
    BY DEF TypeInv, StoredOK
<1>1. current[p] = s /\ sess'[s] = r.sess
    OBVIOUS
<1>2. Releases(sess[s], r)
    BY <1>1 DEF Sound, Silent, Locks
<1>3. guard' = Unguarded(Only(s, r.diffs))
    BY <1>1, <1>2
<1>4. PICK out : out = Only(s, r.diffs)
    OBVIOUS
<1>5. out[s] = <<Diff("released", guard[p])>>
    BY <1>1, <1>2, <1>4 DEF Only, Releases
<1>6. guard'[p] = NoTrack
    BY <1>1, <1>3, <1>4, <1>5, OneSaid, UnguardedFrees
<1> QED BY <1>6

\* addChunk says what it releases, and sends only what it locks.
LEMMA DeliverFrees ==
    ASSUME TypeInv, NEW c \in Calls, call[c].sess \in Sessions,
           NEW r, Sound(sess[call[c].sess], r), Deliver(c, call[c].sess, r)
    PROVE  \A p \in Phones : FreesGuard(p)
<1>1. sess' = [sess EXCEPT ![call[c].sess] = r.sess]
    BY DEF Deliver
<1>2. \/ guard' = Unguarded(Only(call[c].sess, r.diffs))
      \/ r.diffs # <<>> /\ Last(r.diffs).kind = "locked"
    BY DEF Deliver
<1>3. r.diffs # <<>> /\ Last(r.diffs).kind = "locked" => ~ Releases(sess[call[c].sess], r)
    BY LockNews DEF Locks, Releases
<1> QED BY <1>1, <1>2, <1>3, GuardStep

LEMMA QuietFrees ==
    ASSUME TypeInv, UNCHANGED sess
    PROVE  \A p \in Phones : FreesGuard(p)
BY DEF FreesGuard

LEMMA OpenFrees ==
    ASSUME TypeInv, NEW q \in Phones, NEW s \in Sessions, NEW dropped,
           dropped \subseteq {current[q]}, OpenWith(q, s, dropped)
    PROVE  \A p \in Phones : FreesGuard(p)
<1> SUFFICES ASSUME NEW p \in Phones, current'[p] = current[p], current[p] # NoSession
             PROVE  sess'[current[p]] = sess[current[p]]
    BY DEF FreesGuard
<1>. StoredOK /\ Owned
    BY DEF TypeInv
<1>1. Free(s) /\ current'[q] = s
    BY DEF OpenWith, StoredOK
<1>2. p # q
    BY <1>1 DEF Free
<1>3. current[p] # current[q] /\ current[p] # s
    BY <1>1, <1>2 DEF Owned, Free
<1>4. current[p] \in Sessions
    BY DEF StoredOK
<1> QED BY <1>3, <1>4 DEF OpenWith

\* Whatever releases a candidate lifts its guard, if no merge has overwritten it.
LEMMA ReleaseMoves ==
    ASSUME TypeInv, [Next]_vars, ~ MergeStep
    PROVE  \A p \in Phones : FreesGuard(p)
<1>. StoredOK /\ Owned
    BY DEF TypeInv
<1>1. ASSUME NEW c \in Calls, PhoneStep(c)
      PROVE  \A p \in Phones : FreesGuard(p)
    <2>1. CASE (\E p \in Phones : Start(c, p) \/ Chunk(c, p) \/ ChunkStarts(c, p)
                                  \/ ChunkWaits(c, p) \/ Stop(c, p))
               \/ AutoOpenFails(c) \/ Pause(c) \/ (\E top \in TrackOrNone : Match(c, top))
               \/ SendNow(c)
        BY <2>1, QuietFrees DEF Start, Chunk, ChunkStarts, ChunkWaits, Stop, AutoOpenFails,
                                Pause, Match, SendNow
    <2>2. CASE Open(c) \/ AutoOpen(c)
        <3>1. call[c].phone \in Phones
            BY <2>2 DEF TypeInv, Open, AutoOpen, At, Proper
        <3> PICK q \in Phones : q = call[c].phone
            BY <3>1
        <3>2. PICK dropped \in SUBSET Sessions, s \in Sessions :
                dropped \subseteq {current[q]} /\ OpenWith(q, s, dropped)
            <4>1. {current[q]} \ {NoSession} \in SUBSET Sessions /\ {} \in SUBSET Sessions
                BY DEF StoredOK
            <4> QED BY <2>2, <4>1 DEF Open, AutoOpen
        <3> QED BY <3>2, OpenFrees
    <2>3. CASE Judge(c)
        <3>1. call[c].sess \in Sessions /\ call[c].track \in TrackOrNone /\ call[c].ctx \in Context
            BY <2>3 DEF TypeInv, Judge, At, Proper, Streaming, InSession, CallType
        <3>2. PICK r : r = Judged(sess[call[c].sess], call[c].track, call[c].ctx)
            OBVIOUS
        <3>3. Sound(sess[call[c].sess], r)
            BY <3>1, <3>2, JudgedSound DEF StoredOK
        <3> QED BY <2>3, <3>1, <3>2, <3>3, DeliverFrees DEF Judge
    <2>4. ASSUME NEW spaced \in BOOLEAN, Weigh(c, spaced)
          PROVE  \A p \in Phones : FreesGuard(p)
        <3>1. /\ call[c].sess \in Sessions /\ call[c].track \in TrackOrNone
              /\ call[c].ctx \in Context /\ call[c].was \in TrackOrNone
            BY <2>4 DEF TypeInv, Weigh, At, Proper, Streaming, InSession, CallType
        <3>2. PICK r : r = Revoked(sess[call[c].sess], call[c].was, call[c].track,
                                   call[c].ctx, spaced)
            OBVIOUS
        <3>3. Sound(sess[call[c].sess], r)
            BY <3>1, <3>2, RevokedSound DEF StoredOK
        <3> QED BY <2>4, <3>1, <3>2, <3>3, DeliverFrees DEF Weigh
    <2>5. CASE SendFails(c)
        <3>1. CASE UNCHANGED sess
            BY <3>1, QuietFrees
        <3>2. ASSUME sess' # sess
              PROVE  /\ current[call[c].phone] \in Sessions
                     /\ sess' = [sess EXCEPT ![current[call[c].phone]] =
                                     Dropped(sess[current[call[c].phone]]).sess]
                     /\ guard' = [guard EXCEPT ![call[c].phone] = NoTrack]
            BY <2>5, <3>2 DEF SendFails, StoredOK, TypeInv, At, Proper, Streaming, InSession
        <3>3. CASE sess' # sess
            <4> PICK s \in Sessions : s = current[call[c].phone]
                BY <3>2, <3>3
            <4> PICK r : r = Dropped(sess[s])
                OBVIOUS
            <4>1. Sound(sess[s], r) /\ sess' = [sess EXCEPT ![s] = r.sess]
                BY <3>2, <3>3, DroppedSound DEF StoredOK
            <4>2. ASSUME NEW p \in Phones, current[p] = s
                  PROVE  guard'[p] = NoTrack
                <5>1. p = call[c].phone
                    BY <2>5, <4>2, ConstantsAssumption
                       DEF Owned, TypeInv, SendFails, At, Proper, Streaming, InSession
                <5> QED BY <3>2, <3>3, <5>1 DEF StoredOK
            <4> QED BY <4>1, <4>2, GuardStep
        <3> QED BY <3>1, <3>3
    <2>6. CASE Reset(c)
        <3>1. /\ InSession(call[c]) /\ current' = [current EXCEPT ![call[c].phone] = NoSession]
              /\ sess' = [sess EXCEPT ![call[c].sess] = Dropped(sess[call[c].sess]).sess]
            BY <2>6 DEF TypeInv, Reset, At, Proper, Streaming
        <3>2. ASSUME NEW p \in Phones, current'[p] = current[p], current[p] # NoSession
              PROVE  sess'[current[p]] = sess[current[p]]
            <4>1. p # call[c].phone
                BY <3>1, <3>2 DEF StoredOK
            <4>2. current[p] # call[c].sess
                BY <3>1, <3>2, <4>1 DEF Owned, InSession
            <4> QED BY <3>1, <3>2, <4>2 DEF StoredOK
        <3> QED BY <3>2 DEF FreesGuard
    <2>7. CASE ReEvaluate(c)
        <3>1. UNCHANGED sess
            BY <2>7 DEF ReEvaluate, ReEvaluated, DebounceElapsed, StoredOK
        <3> QED BY <3>1, QuietFrees
    <2> QED BY <1>1, <2>1, <2>2, <2>3, <2>4, <2>5, <2>6, <2>7 DEF PhoneStep
<1>2. ASSUME NEW c \in Calls, QueueStep(c)
      PROVE  \A p \in Phones : FreesGuard(p)
    <2>1. CASE UNCHANGED sess
        BY <2>1, QuietFrees
    <2>2. ASSUME NEW t \in Tracks, DjSend(c, t), NEW p \in Phones
          PROVE  FreesGuard(p)
        <3>1. SUFFICES ASSUME current[p] # NoSession, guard[p] # NoTrack,
                    sess[current[p]].track = guard[p], sess'[current[p]].track # guard[p]
             PROVE  guard'[p] = NoTrack
            BY <3>1 DEF FreesGuard
        <3> DEFINE s == current[p]
        <3>2. s \in Sessions
            BY <3>1 DEF StoredOK
        <3>3. PICK out : /\ \A u \in Sessions : out[u] = IntentOnAll(t)[u].diffs
                         /\ guard' = Unguarded(out)
            BY <2>2 DEF DjSend
        <3>4. sess'[s] = IntentOnAll(t)[s].sess
            BY <2>2, <3>2 DEF DjSend
        <3>5. IntentOnAll(t)[s] = Intended(sess[s], t)
            <4>1. s \in registered
                BY <3>1, <3>2, <3>4 DEF IntentOnAll
            <4> QED BY <3>2, <4>1 DEF IntentOnAll
        <3>6. Sound(sess[s], Intended(sess[s], t))
            BY <3>2, IntendedSound DEF StoredOK
        <3>7. out[s] = <<Diff("released", guard[p])>>
            BY <3>1, <3>2, <3>3, <3>4, <3>5, <3>6 DEF Sound, Silent, Locks, Releases
        <3> QED BY <3>2, <3>3, <3>7, OneSaid, UnguardedFrees
    <2> QED BY <1>2, <2>1, <2>2
            DEF QueueStep, Stir, Approve, PutOn, Leave, LeaveQuietly
<1>3. ASSUME NEW c \in Calls, FanStep(c)
      PROVE  \A p \in Phones : FreesGuard(p)
    <2>1. CASE UNCHANGED sess
        BY <2>1, QuietFrees
    <2>2. ASSUME NEW u \in Sessions, FanFinished(c, u)
          PROVE  \A p \in Phones : FreesGuard(p)
        <3> PICK r : r = Dropped(sess[u])
            OBVIOUS
        <3>1. Sound(sess[u], r)
            BY DroppedSound DEF StoredOK
        <3>2. sess' = [sess EXCEPT ![u] = r.sess] /\ guard' = Unguarded(Only(u, r.diffs))
            BY <2>2 DEF FanFinished
        <3> QED BY <3>1, <3>2, GuardStep
    <2>3. ASSUME NEW u \in Sessions, FanApply(c, u)
          PROVE  \A p \in Phones : FreesGuard(p)
        <3>1. PICK r : r = Applied(sess[u], call[c].event, call[c].track, fan[c][u].target)
            OBVIOUS
        <3>2. Sound(sess[u], r) /\ (r.sess.track # NoTrack => ~ Releases(sess[u], r))
            BY <3>1, AppliedSound DEF StoredOK
        <3>3. /\ sess' = [sess EXCEPT ![u] = r.sess]
              /\ r.sess.track = NoTrack => guard' = Unguarded(Only(u, r.diffs))
            BY <2>3, <3>1 DEF FanApply
        <3> QED BY <3>2, <3>3, GuardStep
    <2> QED BY <1>3, <2>1, <2>2, <2>3
            DEF FanStep, FanNext, FanThenSend, FanReturn, FanTarget, FanEnrich, MergeStep
<1>4. ASSUME NEW u \in Sessions, WindowElapses(u)
      PROVE  \A p \in Phones : FreesGuard(p)
    <2>1. \A s \in Sessions : sess'[s].track = sess[s].track
        BY <1>4 DEF WindowElapses, StoredOK, SessType
    <2> QED BY <2>1 DEF FreesGuard, StoredOK
<1>5. CASE UNCHANGED vars
    BY <1>5, QuietFrees DEF vars
<1> QED BY <1>1, <1>2, <1>3, <1>4, <1>5 DEF Next

\* Under every overlap of handlers, a lock moves to another track, and a guard
\* outlives the candidate it was for, in no step but the end of applyQueueEvent:
\* the merge of a queue lookup into the candidate of a later moment
\* (match-session.js:327-337) is the one place to repair.
THEOREM OnlyMergesMoveLocks ==
    Spec => [][~ MergeStep => LockStays /\ \A p \in Phones : FreesGuard(p)]_vars
<1>1. TypeInv /\ [Next]_vars =>
        [~ MergeStep => LockStays /\ \A p \in Phones : FreesGuard(p)]_vars
    BY SessionMoves, ReleaseMoves DEF MergeStep, LockStays, KeepsCandidate
<1> QED BY <1>1, MatchInvariant, PTL DEF Spec

-----------------------------------------------------------------------------
(* The registry and the streams.                                           *)

OneCall == \A c, d \in Calls : c = d
StreamsAlone == OneCall \/ {"start", "stop", "chunk"} \subseteq Alone

OpeningOwn(c) ==
    call[c].pc = "autoOpen" =>
       loading[call[c].phone] /\ current[call[c].phone] = NoSession
StoppingCurrent(c) == call[c].op = "stop" => current[call[c].phone] = call[c].sess
Apart(c, d) ==
    /\ call[c].op \in {"start", "stop"} => call[d].op = "none"
    /\ call[c].pc = "autoOpen" /\ call[d].pc = "autoOpen" => call[c].phone # call[d].phone

RegInv ==
    /\ registered = {current[p] : p \in Phones} \ {NoSession}
    /\ \A c \in Calls : OpeningOwn(c) /\ StoppingCurrent(c)
    /\ \A c, d \in Calls : c # d => Apart(c, d)

\* A handler goes on, or ends, without opening or closing a stream.
GoesOn(c) ==
    /\ call[c].pc # "autoOpen"
    /\ \/ call'[c] = Idle
       \/ /\ call'[c].pc # "autoOpen"
          /\ call'[c].op = call[c].op \/ call'[c].op \notin {"start", "stop"}
          /\ call[c].pc \in Streaming \cup {"fan"} => /\ call'[c].phone = call[c].phone
                                                     /\ call'[c].sess = call[c].sess
          /\ call[c].op = "none" => \A d \in Calls : call[d].op \notin {"start", "stop"}

LEMMA GoesOnReg ==
    ASSUME TypeInv, RegInv, NEW c \in Calls, GoesOn(c),
           \A d \in Calls : d # c => call'[d] = call[d],
           UNCHANGED <<registered, current, loading>>
    PROVE  RegInv'
<1>1. registered' = {current'[p] : p \in Phones} \ {NoSession}
    BY DEF RegInv
<1>2. ASSUME NEW d \in Calls
      PROVE  OpeningOwn(d)' /\ StoppingCurrent(d)'
    <2>1. CASE d = c
        <3>1. call[c].op = "stop" => call[c].pc \in Streaming \cup {"fan"}
            BY DEF TypeInv, Proper
        <3> QED BY <2>1, <3>1, IdleProper DEF RegInv, GoesOn, OpeningOwn, StoppingCurrent
    <2>2. CASE d # c
        BY <2>2 DEF RegInv, OpeningOwn, StoppingCurrent
    <2> QED BY <2>1, <2>2
<1>3. ASSUME NEW d \in Calls, NEW e \in Calls, d # e
      PROVE  Apart(d, e)'
    <2>0. Apart(d, e) /\ Apart(e, d)
        BY <1>3 DEF RegInv
    <2>1. CASE d = c
        <3>1. call'[e] = call[e]
            BY <1>3, <2>1
        <3>2. call'[c].pc # "autoOpen"
            BY IdleProper DEF GoesOn
        <3>3. call'[c].op \in {"start", "stop"} => call'[c].op = call[c].op
            BY IdleProper DEF GoesOn
        <3> QED BY <2>0, <2>1, <3>1, <3>2, <3>3 DEF Apart
    <2>2. CASE e = c
        <3>1. call'[d] = call[d]
            BY <1>3, <2>2
        <3>2. call'[c].pc # "autoOpen"
            BY IdleProper DEF GoesOn
        <3>3. call'[d].op \in {"start", "stop"} => call'[c] = Idle
            BY <2>0, <2>2, <3>1 DEF Apart, GoesOn
        <3> QED BY <2>2, <3>1, <3>2, <3>3, IdleProper DEF Apart
    <2>3. CASE d # c /\ e # c
        BY <2>0, <2>3 DEF Apart
    <2> QED BY <2>1, <2>2, <2>3
<1> QED BY <1>1, <1>2, <1>3 DEF RegInv

\* What the scheduling of the handlers gives the one that begins.
LEMMA AloneStart ==
    ASSUME TypeInv, StreamsAlone, NEW c \in Calls, NEW op, MayStart(c, op)
    PROVE  /\ call[c].op = "none" /\ call[c].pc = "idle"
           /\ \A d \in Calls : call[d].op \notin {"start", "stop"}
           /\ op \in {"start", "stop"} => \A d \in Calls : call[d].op = "none"
<1>. \A d \in Calls : Proper(call[d])
    BY DEF TypeInv
<1>1. call[c].op = "none" /\ call[c].pc = "idle"
    BY DEF MayStart, At, Proper
<1>2. CASE OneCall
    BY <1>1, <1>2 DEF OneCall
<1>3. CASE {"start", "stop", "chunk"} \subseteq Alone
    <2>1. ASSUME NEW d \in Calls PROVE call[d].op \notin {"start", "stop"}
        BY <1>3 DEF MayStart, At, Proper
    <2>2. ASSUME NEW d \in Calls, op \in {"start", "stop"} PROVE call[d].op = "none"
        BY <1>3, <2>2 DEF MayStart, At, Proper
    <2> QED BY <1>1, <2>1, <2>2
<1> QED BY <1>2, <1>3 DEF StreamsAlone

\* A start or a stop begins while no other handler is in flight.
LEMMA BeginsAlone ==
    ASSUME TypeInv, RegInv, NEW c \in Calls, \A d \in Calls : call[d].op = "none",
           \A d \in Calls : d # c => call'[d] = call[d], call'[c].pc # "autoOpen",
           call'[c].op = "stop" => current[call'[c].phone] = call'[c].sess,
           UNCHANGED <<registered, current, loading>>
    PROVE  RegInv'
<1>1. registered' = {current'[p] : p \in Phones} \ {NoSession}
    BY DEF RegInv
<1>2. \A d \in Calls : call[d].pc # "autoOpen"
    BY DEF TypeInv, Proper
<1>3. ASSUME NEW d \in Calls
      PROVE  OpeningOwn(d)' /\ StoppingCurrent(d)'
    BY <1>2 DEF OpeningOwn, StoppingCurrent
<1>4. ASSUME NEW d \in Calls, NEW e \in Calls, d # e
      PROVE  Apart(d, e)'
    <2>1. CASE d = c
        BY <1>4, <2>1 DEF Apart
    <2>2. CASE d # c
        BY <1>2, <2>2 DEF Apart
    <2> QED BY <2>1, <2>2
<1> QED BY <1>1, <1>3, <1>4 DEF RegInv

\* A stream opens in place of the record its phone had, and its handler is no
\* longer opening.
LEMMA OpensReg ==
    ASSUME TypeInv, TypeInv', RegInv, NEW c \in Calls, NEW p \in Phones, NEW s \in Sessions,
           OpenWith(p, s, {current[p]} \ {NoSession}),
           \A d \in Calls : d # c => /\ call'[d] = call[d] /\ call[d].op # "stop"
                                     /\ call[d].pc = "autoOpen" => call[d].phone # p,
           call'[c].pc # "autoOpen", call'[c].op \notin {"start", "stop"},
           \A q \in Phones : q # p => loading'[q] = loading[q],
           \A d \in Calls : d # c => call[d].op # "start"
    PROVE  RegInv'
<1>. StoredOK /\ Owned /\ Free(s) /\ p \in Phones
    BY DEF TypeInv, OpenWith
<1>1. /\ current'[p] = s /\ \A q \in Phones : q # p => current'[q] = current[q]
      /\ registered' = (registered \ ({current[p]} \ {NoSession})) \cup {s}
    BY DEF OpenWith, StoredOK
<1>2. registered' = {current'[q] : q \in Phones} \ {NoSession}
    <2>1. ASSUME NEW u \in registered' PROVE u \in {current'[q] : q \in Phones} \ {NoSession}
        <3>1. CASE u = s
            BY <1>1, <3>1, ConstantsAssumption
        <3>2. CASE u \in registered /\ u # current[p]
            <4>1. PICK q \in Phones : u = current[q] /\ u # NoSession
                BY <3>2 DEF RegInv
            <4> QED BY <1>1, <3>2, <4>1
        <3>3. u = s \/ (u \in registered /\ u # current[p])
            BY <1>1, <2>1 DEF RegInv
        <3> QED BY <3>1, <3>2, <3>3
    <2>2. ASSUME NEW q \in Phones, current'[q] # NoSession PROVE current'[q] \in registered'
        <3>1. CASE q = p
            BY <1>1, <3>1
        <3>2. CASE q # p
            <4>1. current[q] \in registered /\ current[q] # NoSession
                BY <1>1, <2>2, <3>2 DEF RegInv
            <4>2. current[q] # current[p]
                BY <3>2, <4>1 DEF Owned
            <4> QED BY <1>1, <3>2, <4>1, <4>2
        <3> QED BY <3>1, <3>2
    <2> QED BY <2>1, <2>2
<1>3. ASSUME NEW d \in Calls
      PROVE  OpeningOwn(d)' /\ StoppingCurrent(d)'
    <2>1. CASE d = c
        BY <2>1 DEF OpeningOwn, StoppingCurrent
    <2>2. CASE d # c
        <3>1. call'[d] = call[d] /\ call[d].op # "stop"
            BY <2>2
        <3>2. call[d].pc = "autoOpen" => call[d].phone \in Phones /\ call[d].phone # p
            BY <2>2 DEF TypeInv, Proper
        <3> QED BY <1>1, <3>1, <3>2 DEF RegInv, OpeningOwn, StoppingCurrent
    <2> QED BY <2>1, <2>2
<1>4. ASSUME NEW d \in Calls, NEW e \in Calls, d # e
      PROVE  Apart(d, e)'
    <2>0. Apart(d, e)
        BY <1>4 DEF RegInv
    <2>1. CASE d = c
        BY <1>4, <2>1 DEF Apart
    <2>2. CASE d # c
        <3>1. call'[d] = call[d] /\ call[d].op \notin {"start", "stop"}
            BY <2>2
        <3>2. CASE e = c
            BY <3>1, <3>2 DEF Apart
        <3>3. CASE e # c
            BY <2>0, <3>1, <3>3 DEF Apart
        <3> QED BY <3>2, <3>3
    <2> QED BY <2>1, <2>2
<1> QED BY <1>2, <1>3, <1>4 DEF RegInv

LEMMA SendGoesOn ==
    ASSUME TypeInv, NEW c \in Calls, call[c].op \in {"chunk", "stop"}, call[c].pc # "autoOpen",
           NEW p, NEW track, NEW ctx, NEW cleared, SendIfApproved(c, p, track, ctx, cleared)
    PROVE  GoesOn(c) /\ \A d \in Calls : d # c => call'[d] = call[d]
<1>. call \in [Calls -> CallType] /\ Resume(c) \in {"reset", "reEvaluate"}
    BY DEF TypeInv, Resume
<1>1. CASE call' = [call EXCEPT ![c].pc = Resume(c), ![c].track = NoTrack, ![c].ctx = {}]
    BY <1>1 DEF GoesOn, CallType
<1>2. CASE Finish(c)
    BY <1>2 DEF GoesOn, Finish
<1>3. CASE call' = [call EXCEPT ![c].pc = "sending", ![c].track = track]
    BY <1>3 DEF GoesOn, CallType
<1> QED BY <1>1, <1>2, <1>3 DEF SendIfApproved

LEMMA DeliverGoesOn ==
    ASSUME TypeInv, NEW c \in Calls, call[c].op \in {"chunk", "stop"}, call[c].pc # "autoOpen",
           NEW s, NEW r, Deliver(c, s, r)
    PROVE  GoesOn(c) /\ \A d \in Calls : d # c => call'[d] = call[d]
<1>. call \in [Calls -> CallType] /\ Resume(c) \in {"reset", "reEvaluate"}
    BY DEF TypeInv, Resume
<1>1. CASE call' = [call EXCEPT ![c].pc = Resume(c), ![c].track = NoTrack, ![c].ctx = {}]
    BY <1>1 DEF GoesOn, CallType
<1>2. CASE call' = [call EXCEPT ![c].pc = "fan", ![c].track = r.sess.track,
                   ![c].ctx = r.sess.ctx, ![c].event = "now_playing", ![c].plan = <<"send">>]
    BY <1>2 DEF GoesOn, CallType
<1>3. CASE SendIfApproved(c, call[c].phone, r.sess.track, r.sess.ctx,
                          Unguarded(Only(s, r.diffs)))
    <2> PICK p, track, ctx, cleared : SendIfApproved(c, p, track, ctx, cleared)
        BY <1>3
    <2> QED BY SendGoesOn
<1> QED BY <1>1, <1>2, <1>3 DEF Deliver

\* Listening keeps what a handler is, unless it was nothing before.
LEMMA ListeningGoesOn ==
    ASSUME TypeInv, NEW c \in Calls, NEW p \in Phones, NEW s \in Sessions,
           call[c].op \in {"none", "chunk"}, call[c].pc \in {"idle", "pause"},
           \A d \in Calls : call[d].op \notin {"start", "stop"}, Listening(c, "chunk", p, s)
    PROVE  GoesOn(c) /\ \A d \in Calls : d # c => call'[d] = call[d]
<1>1. Resume(c) = "reEvaluate"
    BY DEF Resume
<1>2. PICK pc \in {"match", "revoke", "reEvaluate"} :
        call' = [call EXCEPT ![c] = Hearing("chunk", p, s, sess'[s].track, pc)]
    BY <1>1 DEF Listening, Hearing
<1> DEFINE k == Hearing("chunk", p, s, sess'[s].track, pc)
<1>3. k.op = "chunk" /\ k.pc = pc
    BY DEF Hearing, Idle
<1> HIDE DEF k
<1>4. call' = [call EXCEPT ![c] = k]
    BY <1>2 DEF k
<1> QED BY <1>3, <1>4 DEF GoesOn, TypeInv, Streaming

\* The steps of a chunk after it has begun leave every stream as it is.
LEMMA ChunkGoesOn ==
    ASSUME TypeInv, NEW c \in Calls,
           \/ \E top \in TrackOrNone : Match(c, top)
           \/ Judge(c) \/ (\E spaced \in BOOLEAN : Weigh(c, spaced))
           \/ SendNow(c) \/ SendFails(c) \/ ReEvaluate(c)
    PROVE  /\ UNCHANGED <<registered, current, loading>> /\ GoesOn(c)
           /\ \A d \in Calls : d # c => call'[d] = call[d]
<1>. /\ StoredOK /\ Proper(call[c]) /\ call \in [Calls -> CallType]
    BY DEF TypeInv
<1> DEFINE Goal == /\ UNCHANGED <<registered, current, loading>> /\ GoesOn(c)
                   /\ \A d \in Calls : d # c => call'[d] = call[d]
<1> SUFFICES Goal
    OBVIOUS
<1> HIDE DEF Goal
<1>1. ASSUME NEW top \in TrackOrNone, Match(c, top)
       PROVE  Goal
    <2>1. UNCHANGED <<registered, current, loading>>
        BY <1>1 DEF Match, sockets, registry
    <2>2. GoesOn(c) /\ \A d \in Calls : d # c => call'[d] = call[d]
        <3>1. call[c].op \in {"chunk", "stop"} /\ call[c].pc # "autoOpen"
            BY <1>1 DEF Match, Proper, Streaming
        <3>2. PICK pc \in {"judge", "weigh"} :
                call' = [call EXCEPT ![c].pc = pc,
                           ![c].ctx = IF top = NoTrack THEN {} ELSE queue[top],
                           ![c].track = top]
            BY <1>1 DEF Match, CallType
        <3>3. /\ call'[c].op = call[c].op /\ call'[c].pc = pc /\ call'[c].phone = call[c].phone
              /\ call'[c].sess = call[c].sess /\ \A d \in Calls : d # c => call'[d] = call[d]
            BY <3>2 DEF CallType
        <3> QED BY <3>1, <3>3 DEF GoesOn
    <2> QED BY <2>1, <2>2 DEF Goal
<1>2. ASSUME Judge(c) \/ \E spaced \in BOOLEAN : Weigh(c, spaced)
       PROVE  Goal
    <2>1. PICK s, r : Deliver(c, s, r)
        BY <1>2 DEF Judge, Weigh
    <2>2. /\ UNCHANGED <<registered, current, loading>>
          /\ call[c].op \in {"chunk", "stop"} /\ call[c].pc # "autoOpen"
        BY <1>2 DEF Judge, Weigh, At, Proper, Streaming, registry
    <2> QED BY <2>1, <2>2, DeliverGoesOn DEF Goal
<1>3. CASE SendNow(c)
    <2>1. /\ UNCHANGED <<registered, current, loading>>
          /\ call[c].op \in {"chunk", "stop"} /\ call[c].pc # "autoOpen"
        BY <1>3 DEF SendNow, At, Proper, Streaming, registry, sockets
    <2>2. GoesOn(c) /\ \A d \in Calls : d # c => call'[d] = call[d]
        BY <1>3, <2>1 DEF SendNow, GoesOn, CallType
    <2> QED BY <2>1, <2>2 DEF Goal
<1>4. CASE SendFails(c)
    <2>1. /\ UNCHANGED <<registered, current, loading>>
          /\ call[c].op \in {"chunk", "stop"} /\ call[c].pc # "autoOpen"
        BY <1>4 DEF SendFails, At, Proper, Streaming, registry
    <2>2. GoesOn(c) /\ \A d \in Calls : d # c => call'[d] = call[d]
        <3>1. CASE Finish(c)
            BY <2>1, <3>1 DEF Finish, GoesOn
        <3>2. CASE call' = [call EXCEPT ![c].pc = Resume(c), ![c].track = NoTrack, ![c].ctx = {}]
            <4>1. Resume(c) \in {"reset", "reEvaluate"}
                BY DEF Resume
            <4> QED BY <2>1, <3>2, <4>1 DEF GoesOn, CallType
        <3> QED BY <1>4, <3>1, <3>2 DEF SendFails
    <2> QED BY <2>1, <2>2 DEF Goal
<1>5. CASE ReEvaluate(c)
    <2>1. /\ UNCHANGED <<registered, current, loading>> /\ Finish(c) /\ call[c].pc # "autoOpen"
        BY <1>5 DEF ReEvaluate, At, registry, sockets
    <2>2. GoesOn(c) /\ \A d \in Calls : d # c => call'[d] = call[d]
        BY <2>1 DEF Finish, GoesOn
    <2> QED BY <2>1, <2>2 DEF Goal
<1> QED BY <1>1, <1>2, <1>3, <1>4, <1>5

LEMMA RegPhoneStep ==
    ASSUME TypeInv, TypeInv', RegInv, StreamsAlone, NEW c \in Calls, PhoneStep(c)
    PROVE  RegInv'
<1>. /\ StoredOK /\ Owned /\ Proper(call[c]) /\ call \in [Calls -> CallType]
     /\ \A d \in Calls : Proper(call[d])
    BY DEF TypeInv
<1>1. ASSUME NEW p \in Phones, Start(c, p)
      PROVE  RegInv'
    <2>1. Begin(c, "start", p, "open") /\ UNCHANGED <<registered, current, loading>>
        BY <1>1 DEF Start, sockets, registry
    <2>2. /\ call'[c].op = "start" /\ call'[c].pc = "open"
          /\ \A d \in Calls : d # c => call'[d] = call[d]
        BY <2>1, BeginProper
    <2>3. \A d \in Calls : call[d].op = "none"
        BY <2>1, AloneStart DEF Begin
    <2> QED BY <2>1, <2>2, <2>3, BeginsAlone
<1>2. ASSUME NEW p \in Phones, Stop(c, p)
      PROVE  RegInv'
    <2>1. current[p] \in Sessions
        BY <1>2 DEF Stop, StoredOK
    <2>2. PICK s \in Sessions : s = current[p]
        BY <2>1
    <2>3. PICK pc \in {"match", "revoke", "reset"} :
            call' = [call EXCEPT ![c] = Hearing("stop", p, s, sess[s].track, pc)]
        BY <1>2, <2>2 DEF Stop, Hearing
    <2> DEFINE k == Hearing("stop", p, s, sess[s].track, pc)
    <2>4. k.op = "stop" /\ k.pc = pc /\ k.phone = p /\ k.sess = s
        BY DEF Hearing, Idle
    <2> HIDE DEF k
    <2>5. call' = [call EXCEPT ![c] = k]
        BY <2>3 DEF k
    <2>6. UNCHANGED <<registered, current, loading>> /\ MayStart(c, "stop")
        BY <1>2 DEF Stop, sockets, registry
    <2>7. \A d \in Calls : call[d].op = "none"
        BY <2>6, AloneStart
    <2>8. /\ \A d \in Calls : d # c => call'[d] = call[d]
          /\ call'[c].pc # "autoOpen" /\ current[call'[c].phone] = call'[c].sess
        BY <2>2, <2>4, <2>5
    <2> QED BY <2>6, <2>7, <2>8, BeginsAlone
<1>3. ASSUME NEW p \in Phones, Chunk(c, p)
      PROVE  RegInv'
    <2>1. current[p] \in Sessions
        BY <1>3 DEF Chunk, StoredOK
    <2>2. PICK s \in Sessions : s = current[p]
        BY <2>1
    <2>3. /\ MayStart(c, "chunk") /\ UNCHANGED <<registered, current, loading>>
          /\ Listening(c, "chunk", p, s)
        BY <1>3, <2>2 DEF Chunk, sockets, registry
    <2>4. /\ call[c].op = "none" /\ call[c].pc = "idle"
          /\ \A d \in Calls : call[d].op \notin {"start", "stop"}
        BY <2>3, AloneStart
    <2> QED BY <2>3, <2>4, ListeningGoesOn, GoesOnReg
<1>4. ASSUME NEW p \in Phones, ChunkWaits(c, p)
      PROVE  RegInv'
    <2>1. Begin(c, "chunk", p, "pause") /\ UNCHANGED <<registered, current, loading>>
        BY <1>4 DEF ChunkWaits, sockets, registry
    <2>2. /\ call'[c].op = "chunk" /\ call'[c].pc = "pause"
          /\ \A d \in Calls : d # c => call'[d] = call[d]
        BY <2>1, BeginProper
    <2>3. /\ call[c].op = "none" /\ call[c].pc = "idle"
          /\ \A d \in Calls : call[d].op \notin {"start", "stop"}
        BY <2>1, AloneStart DEF Begin
    <2>4. GoesOn(c)
        BY <2>2, <2>3 DEF GoesOn, Streaming
    <2> QED BY <2>1, <2>2, <2>4, GoesOnReg
<1>5. ASSUME NEW p \in Phones, ChunkStarts(c, p)
      PROVE  RegInv'
    <2>1. /\ Begin(c, "chunk", p, "autoOpen") /\ UNCHANGED <<registered, current>>
          /\ current[p] = NoSession /\ ~ loading[p] /\ loading' = [loading EXCEPT ![p] = TRUE]
        BY <1>5 DEF ChunkStarts, registry
    <2>2. /\ call'[c].op = "chunk" /\ call'[c].pc = "autoOpen" /\ call'[c].phone = p
          /\ \A d \in Calls : d # c => call'[d] = call[d]
        BY <2>1, BeginProper
    <2>3. \A d \in Calls : call[d].op \notin {"start", "stop"}
        BY <2>1, AloneStart DEF Begin
    <2>4. registered' = {current'[q] : q \in Phones} \ {NoSession}
        BY <2>1 DEF RegInv
    <2>5. ASSUME NEW d \in Calls
          PROVE  OpeningOwn(d)' /\ StoppingCurrent(d)'
        <3>1. CASE d = c
            BY <2>1, <2>2, <3>1 DEF OpeningOwn, StoppingCurrent, StoredOK
        <3>2. CASE d # c
            <4>1. call'[d] = call[d] /\ (call[d].pc = "autoOpen" => call[d].phone \in Phones)
                BY <2>2, <3>2 DEF Proper
            <4> QED BY <2>1, <4>1 DEF RegInv, OpeningOwn, StoppingCurrent, StoredOK
        <3> QED BY <3>1, <3>2
    <2>6. ASSUME NEW d \in Calls, NEW e \in Calls, d # e
          PROVE  Apart(d, e)'
        <3>1. Apart(d, e) /\ OpeningOwn(d) /\ OpeningOwn(e)
            BY <2>6 DEF RegInv
        <3>2. CASE d = c
            BY <2>1, <2>2, <2>6, <3>1, <3>2 DEF Apart, OpeningOwn
        <3>3. CASE e = c
            BY <2>1, <2>2, <2>3, <2>6, <3>1, <3>3 DEF Apart, OpeningOwn
        <3>4. CASE d # c /\ e # c
            BY <2>2, <3>1, <3>4 DEF Apart
        <3> QED BY <3>2, <3>3, <3>4
    <2> QED BY <2>4, <2>5, <2>6 DEF RegInv
<1>6. CASE Open(c)
    <2>1. call[c].phone \in Phones /\ call[c].op = "start" /\ Finish(c) /\ UNCHANGED loading
        BY <1>6 DEF Open, At, Proper
    <2>2. PICK p \in Phones : p = call[c].phone
        BY <2>1
    <2>3. PICK s \in Sessions : OpenWith(p, s, {current[p]} \ {NoSession})
        BY <1>6, <2>2 DEF Open
    <2>4. \A d \in Calls : d # c => call[d].op = "none"
        BY <2>1 DEF RegInv, Apart
    <2>5. \A d \in Calls : d # c => call'[d] = call[d] /\ call[d].pc # "autoOpen"
        BY <2>1, <2>4 DEF Finish, Proper
    <2>6. call'[c] = Idle
        BY <2>1 DEF Finish
    <2> QED BY <2>1, <2>3, <2>4, <2>5, <2>6, IdleProper, OpensReg
<1>7. CASE AutoOpen(c)
    <2>1. call[c].phone \in Phones /\ call[c].op = "chunk" /\ call[c].pc = "autoOpen"
        BY <1>7 DEF AutoOpen, At, Proper
    <2>2. PICK p \in Phones : p = call[c].phone
        BY <2>1
    <2>3. PICK s \in Sessions : OpenWith(p, s, {}) /\ Listening(c, "chunk", p, s)
        BY <1>7, <2>2 DEF AutoOpen
    <2>4. current[p] = NoSession /\ loading' = [loading EXCEPT ![p] = FALSE]
        BY <1>7, <2>1, <2>2 DEF AutoOpen, RegInv, OpeningOwn
    <2>5. {} = {current[p]} \ {NoSession}
        BY <2>4
    <2>6. Resume(c) = "reEvaluate"
        BY <2>1 DEF Resume
    <2>7. PICK pc \in {"match", "revoke", "reEvaluate"} :
            call' = [call EXCEPT ![c] = Hearing("chunk", p, s, sess'[s].track, pc)]
        BY <2>3, <2>6 DEF Listening, Hearing
    <2> DEFINE k == Hearing("chunk", p, s, sess'[s].track, pc)
    <2>8. k.op = "chunk" /\ k.pc = pc
        BY DEF Hearing, Idle
    <2> HIDE DEF k
    <2>9. call' = [call EXCEPT ![c] = k]
        BY <2>7 DEF k
    <2>10. /\ call'[c].pc # "autoOpen" /\ call'[c].op \notin {"start", "stop"}
           /\ \A d \in Calls : d # c => call'[d] = call[d]
        BY <2>8, <2>9
    <2>11. ASSUME NEW d \in Calls, d # c
           PROVE  /\ call[d].op \notin {"start", "stop"}
                  /\ call[d].pc = "autoOpen" => call[d].phone # p
        BY <2>1, <2>2, <2>11 DEF RegInv, Apart
    <2>12. \A q \in Phones : q # p => loading'[q] = loading[q]
        BY <2>4 DEF StoredOK
    <2>13. OpenWith(p, s, {current[p]} \ {NoSession})
        BY <2>3, <2>5
    <2> QED BY <2>10, <2>11, <2>12, <2>13, OpensReg
<1>8. CASE AutoOpenFails(c)
    <2>1. /\ call[c].phone \in Phones /\ call[c].pc = "autoOpen" /\ Finish(c)
          /\ loading' = [loading EXCEPT ![call[c].phone] = FALSE]
          /\ UNCHANGED <<registered, current>>
        BY <1>8 DEF AutoOpenFails, At, Proper, registry
    <2>2. call'[c] = Idle /\ \A d \in Calls : d # c => call'[d] = call[d]
        BY <2>1 DEF Finish
    <2>3. registered' = {current'[q] : q \in Phones} \ {NoSession}
        BY <2>1 DEF RegInv
    <2>4. ASSUME NEW d \in Calls
          PROVE  OpeningOwn(d)' /\ StoppingCurrent(d)'
        <3>1. CASE d = c
            BY <2>2, <3>1, IdleProper DEF OpeningOwn, StoppingCurrent
        <3>2. CASE d # c
            <4>1. call[d].pc = "autoOpen" => call[d].phone \in Phones /\ call[d].phone # call[c].phone
                BY <2>1, <3>2 DEF RegInv, Apart, Proper
            <4> QED BY <2>1, <2>2, <3>2, <4>1 DEF RegInv, OpeningOwn, StoppingCurrent, StoredOK
        <3> QED BY <3>1, <3>2
    <2>5. ASSUME NEW d \in Calls, NEW e \in Calls, d # e
          PROVE  Apart(d, e)'
        BY <2>2, <2>5, IdleProper DEF RegInv, Apart
    <2> QED BY <2>3, <2>4, <2>5 DEF RegInv
<1>9. CASE Pause(c)
    <2>1. /\ call[c].phone \in Phones /\ call[c].pc = "pause" /\ call[c].op = "chunk"
          /\ UNCHANGED <<registered, current, loading>>
        BY <1>9 DEF Pause, At, Proper, sockets, registry
    <2>2. GoesOn(c) /\ \A d \in Calls : d # c => call'[d] = call[d]
        <3>1. CASE Finish(c)
            BY <2>1, <3>1 DEF Finish, GoesOn
        <3>2. CASE current[call[c].phone] # NoSession
            <4>1. PICK p \in Phones, s \in Sessions : p = call[c].phone /\ s = current[p]
                BY <2>1, <3>2 DEF StoredOK
            <4>2. Listening(c, "chunk", p, s)
                BY <1>9, <3>2, <4>1 DEF Pause
            <4>3. Resume(c) = "reEvaluate"
                BY <2>1 DEF Resume
            <4>4. PICK pc \in {"match", "revoke", "reEvaluate"} :
                    call' = [call EXCEPT ![c] = Hearing("chunk", p, s, sess'[s].track, pc)]
                BY <4>2, <4>3 DEF Listening, Hearing
            <4> DEFINE k == Hearing("chunk", p, s, sess'[s].track, pc)
            <4>5. k.op = "chunk" /\ k.pc = pc
                BY DEF Hearing, Idle
            <4> HIDE DEF k
            <4>6. call' = [call EXCEPT ![c] = k]
                BY <4>4 DEF k
            <4> QED BY <2>1, <4>5, <4>6 DEF GoesOn, Streaming
        <3> QED BY <1>9, <3>1, <3>2 DEF Pause
    <2> QED BY <2>1, <2>2, GoesOnReg
<1>10. CASE \/ \E top \in TrackOrNone : Match(c, top)
            \/ Judge(c) \/ (\E spaced \in BOOLEAN : Weigh(c, spaced))
            \/ SendNow(c) \/ SendFails(c) \/ ReEvaluate(c)
    BY <1>10, ChunkGoesOn, GoesOnReg
<1>11. CASE Reset(c)
    <2>1. /\ call[c].op = "stop" /\ InSession(call[c]) /\ Finish(c) /\ UNCHANGED loading
          /\ current' = [current EXCEPT ![call[c].phone] = NoSession]
          /\ registered' = registered \ {call[c].sess}
        BY <1>11 DEF Reset, At, Proper, Streaming
    <2>2. PICK p \in Phones, s \in Sessions : p = call[c].phone /\ s = call[c].sess
        BY <2>1 DEF InSession
    <2>3. current[p] = s
        BY <2>1, <2>2 DEF RegInv, StoppingCurrent
    <2>4. \A d \in Calls : d # c => call[d].op = "none" /\ call'[d] = call[d]
        BY <2>1 DEF RegInv, Apart, Finish
    <2>5. /\ current'[p] = NoSession
          /\ \A q \in Phones : q # p => current'[q] = current[q] /\ (current[q] = s => FALSE)
        BY <2>1, <2>2, <2>3, ConstantsAssumption DEF StoredOK, Owned
    <2>6. registered' = {current'[q] : q \in Phones} \ {NoSession}
        BY <2>1, <2>2, <2>3, <2>5 DEF RegInv
    <2>7. call'[c] = Idle
        BY <2>1 DEF Finish
    <2>8. \A d \in Calls : call'[d].op = "none" /\ call'[d].pc # "autoOpen"
        BY <2>4, <2>7, IdleProper DEF Proper
    <2> QED BY <2>6, <2>8 DEF RegInv, OpeningOwn, StoppingCurrent, Apart
<1> QED BY <1>1, <1>2, <1>3, <1>4, <1>5, <1>6, <1>7, <1>8, <1>9, <1>10, <1>11
    DEF PhoneStep

LEMMA RegQueueStep ==
    ASSUME TypeInv, RegInv, StreamsAlone, NEW c \in Calls, QueueStep(c)
    PROVE  RegInv'
<1>. call \in [Calls -> CallType]
    BY DEF TypeInv
<1>1. UNCHANGED <<registered, current, loading>>
    BY DEF QueueStep, Stir, Approve, PutOn, DjSend, Leave, LeaveQuietly, sockets, registry
<1>2. PICK op \in OpNames \ {"start", "stop"}, track \in TrackOrNone, first \in EventNames,
           rest \in {<<>>, <<"queue_updated">>} : Announce(c, op, track, first, rest)
    <2>. /\ {"approve", "leave", "sendNow", "djSend", "vote"} \subseteq OpNames \ {"start", "stop"}
         /\ {"now_playing", "left_playing", "queue_updated"} \subseteq EventNames
         /\ NoTrack \in TrackOrNone /\ Tracks \subseteq TrackOrNone
        BY DEF OpNames, EventNames, TrackOrNone
    <2>1. CASE Stir(c)
        BY <2>1 DEF Stir
    <2>2. ASSUME NEW t \in Tracks, Approve(c, t) \/ PutOn(c, t) \/ DjSend(c, t)
          PROVE  \E op \in OpNames \ {"start", "stop"}, track \in TrackOrNone,
                    first \in EventNames, rest \in {<<>>, <<"queue_updated">>} :
                       Announce(c, op, track, first, rest)
        BY <2>2 DEF Approve, PutOn, DjSend
    <2>3. ASSUME NEW t \in Tracks, NEW status, Leave(c, t, status) \/ LeaveQuietly(c, t, status)
          PROVE  \E op \in OpNames \ {"start", "stop"}, track \in TrackOrNone,
                    first \in EventNames, rest \in {<<>>, <<"queue_updated">>} :
                       Announce(c, op, track, first, rest)
        BY <2>3 DEF Leave, LeaveQuietly
    <2> QED BY <2>1, <2>2, <2>3 DEF QueueStep
<1>3. MayStart(c, op) /\ call' = [call EXCEPT ![c] = [Idle EXCEPT !.op = op, !.pc = "fan",
          !.track = track, !.event = first, !.plan = rest]]
    BY <1>2 DEF Announce
<1>4. /\ call[c].pc = "idle" /\ \A d \in Calls : call[d].op \notin {"start", "stop"}
    BY <1>3, AloneStart
<1> DEFINE k == [Idle EXCEPT !.op = op, !.pc = "fan", !.track = track, !.event = first,
                             !.plan = rest]
<1>5. k.op = op /\ k.pc = "fan"
    BY DEF Idle
<1> HIDE DEF k
<1>6. call' = [call EXCEPT ![c] = k]
    BY <1>3 DEF k
<1>7. GoesOn(c) /\ \A d \in Calls : d # c => call'[d] = call[d]
    BY <1>4, <1>5, <1>6 DEF GoesOn, Streaming
<1> QED BY <1>1, <1>7, GoesOnReg

\* So do the announcements of a handler and what follows them.
LEMMA FanGoesOn ==
    ASSUME TypeInv, NEW c \in Calls, FanNext(c) \/ FanThenSend(c) \/ FanReturn(c)
    PROVE  /\ UNCHANGED <<registered, current, loading>> /\ GoesOn(c)
           /\ \A d \in Calls : d # c => call'[d] = call[d]
<1>. call \in [Calls -> CallType] /\ Proper(call[c])
    BY DEF TypeInv
<1>1. UNCHANGED <<registered, current, loading>>
    BY DEF FanNext, FanThenSend, FanReturn, sockets, registry
<1>2. CASE FanNext(c)
    <2>1. /\ call[c].pc = "fan"
          /\ call' = [call EXCEPT ![c].event = Head(call[c].plan), ![c].plan = Tail(@)]
        BY <1>2 DEF FanNext, FanOver, At
    <2>2. GoesOn(c) /\ \A d \in Calls : d # c => call'[d] = call[d]
        <3>1. /\ call'[c].op = call[c].op /\ call'[c].pc = call[c].pc
              /\ call'[c].phone = call[c].phone /\ call'[c].sess = call[c].sess
              /\ \A d \in Calls : d # c => call'[d] = call[d]
            BY <2>1 DEF CallType
        <3>2. call[c].op # "none"
            BY <2>1 DEF Proper
        <3> QED BY <2>1, <3>1, <3>2 DEF GoesOn
    <2> QED BY <1>1, <2>2
<1>3. CASE FanThenSend(c)
    <2>1. call[c].op \in {"chunk", "stop"} /\ call[c].pc = "fan"
        BY <1>3 DEF FanThenSend, FanOver, At, Proper
    <2>2. PICK p, track, ctx, cleared : SendIfApproved(c, p, track, ctx, cleared)
        BY <1>3 DEF FanThenSend
    <2> QED BY <1>1, <2>1, <2>2, SendGoesOn
<1>4. CASE FanReturn(c)
    <2>1. call[c].pc = "fan"
        BY <1>4 DEF FanReturn, FanOver, At
    <2>2. GoesOn(c) /\ \A d \in Calls : d # c => call'[d] = call[d]
        <3>1. CASE Finish(c)
            BY <2>1, <3>1 DEF Finish, GoesOn
        <3>2. CASE /\ call[c].phone # NoPhone
                   /\ call' = [call EXCEPT ![c].pc = Resume(c), ![c].track = NoTrack,
                                           ![c].ctx = {}, ![c].event = "none"]
            <4>1. Resume(c) \in {"reset", "reEvaluate"} /\ call[c].op \in {"chunk", "stop"}
                BY <2>1, <3>2 DEF Resume, Proper
            <4> QED BY <2>1, <3>2, <4>1 DEF GoesOn, CallType
        <3> QED BY <1>4, <3>1, <3>2 DEF FanReturn
    <2> QED BY <1>1, <2>2
<1> QED BY <1>2, <1>3, <1>4

LEMMA RegFanStep ==
    ASSUME TypeInv, RegInv, NEW c \in Calls, FanStep(c)
    PROVE  RegInv'
<1>. call \in [Calls -> CallType] /\ Proper(call[c])
    BY DEF TypeInv
<1>1. UNCHANGED <<registered, current, loading>>
    BY DEF FanStep, FanNext, FanThenSend, FanReturn, FanTarget, FanFinished, FanApply,
           FanEnrich, FanMerge, sockets, registry
<1>2. CASE UNCHANGED call
    BY <1>1, <1>2 DEF RegInv, OpeningOwn, StoppingCurrent, Apart
<1>3. CASE FanNext(c) \/ FanThenSend(c) \/ FanReturn(c)
    BY <1>3, FanGoesOn, GoesOnReg
<1> QED BY <1>2, <1>3
        DEF FanStep, FanTarget, FanFinished, FanApply, FanEnrich, FanMerge

LEMMA RegStep == StreamsAlone /\ TypeInv /\ RegInv /\ [Next]_vars => RegInv'
<1> SUFFICES ASSUME StreamsAlone, TypeInv, RegInv, [Next]_vars PROVE RegInv'
    OBVIOUS
<1>1. TypeInv'
    BY TypeStep
<1>2. ASSUME NEW s \in Sessions, WindowElapses(s) PROVE RegInv'
    BY <1>2 DEF WindowElapses, sockets, registry, RegInv, OpeningOwn, StoppingCurrent, Apart
<1>3. CASE UNCHANGED vars
    BY <1>3 DEF vars, sockets, registry, RegInv, OpeningOwn, StoppingCurrent, Apart
<1> QED BY <1>1, <1>2, <1>3, RegPhoneStep, RegQueueStep, RegFanStep DEF Next

\* If starts, stops and chunks run alone, chunks that wait for a stream to open
\* aside, the registry holds the sessions of the open streams at every moment, also
\* while queue events overlap: each of them reaches every listener and no stopped
\* stream keeps a session alive (socket/audio.js:296-430, match-session-registry.js).
THEOREM RegistryFollowsStreams == StreamsAlone => (Spec => []RegistryIsCurrent)
<1>1. Init => RegInv
    BY IdleProper DEF Init, RegInv, OpeningOwn, StoppingCurrent, Apart
<1>2. StreamsAlone /\ TypeInv /\ RegInv /\ [Next]_vars => RegInv'
    BY RegStep
<1>3. RegInv => RegistryIsCurrent
    BY DEF RegInv, RegistryIsCurrent
<1> QED
    <2>1. ASSUME StreamsAlone PROVE Spec => []RegistryIsCurrent
        BY <1>1, <1>2, <1>3, <2>1, MatchInvariant, PTL DEF Spec
    <2> QED BY <2>1

-----------------------------------------------------------------------------
(* One handler at a time.                                                  *)

\* A chunk or a stop works on the session of its phone's stream.
AtHome(c) ==
    /\ call[c].pc \in Streaming => current[call[c].phone] = call[c].sess
    /\ call[c].pc = "fan" /\ call[c].phone # NoPhone => current[call[c].phone] = call[c].sess

\* An event goes to every registered session and to no other.
Reaches(c) ==
    \A s \in Sessions :
       /\ fan[c][s].pc # "none" => s \in registered
       /\ call[c].pc = "fan" /\ s \in registered => fan[c][s].pc # "none"

\* What applyQueueEvent took from a session and from the queue still stands, and
\* a session it is done with is locked on nothing that has left the queue.
UpToDate(c, s) ==
    LET f == fan[c][s] IN
    /\ f.pc \in {"enrich", "merge"} => sess[s].track = f.track
    /\ f.pc = "merge" => f.ctx = queue[f.track]
    /\ f.pc = "done" /\ sess[s].state = "locked" => queue[sess[s].track] # {}

Told(p) ==
    current[p] # NoSession /\ sess[current[p]].state = "locked"
       => told[p] = sess[current[p]].track

\* A phone knows its lock, or the news waits for the queue lookup to return.
WillBeTold(p) ==
    \/ Told(p)
    \/ \E c \in Calls :
          /\ fan[c][current[p]].pc \in {"enrich", "merge"}
          /\ fan[c][current[p]].diffs = <<Diff("locked", sess[current[p]].track)>>

AloneInv ==
    /\ \A c \in Calls : AtHome(c) /\ Reaches(c)
    /\ \A c \in Calls, s \in Sessions : UpToDate(c, s)
    /\ \A p \in Phones : WillBeTold(p)

LEMMA ToldNow ==
    ASSUME TypeInv, AloneInv, OneCall, NEW c \in Calls, call[c].pc # "fan" \/ FanOver(c)
    PROVE  \A p \in Phones : Told(p)
<1>1. \A d \in Calls, s \in Sessions : fan[d][s].pc \notin {"enrich", "merge"}
    BY DEF TypeInv, FanAway, FanOver, OneCall
<1> SUFFICES ASSUME NEW p \in Phones, current[p] # NoSession PROVE Told(p)
    BY DEF Told
<1>2. current[p] \in Sessions
    BY DEF TypeInv, StoredOK
<1> QED BY <1>1, <1>2 DEF AloneInv, WillBeTold

\* A handler that is not announcing: no session waits for anything.
LEMMA CallAlone ==
    ASSUME TypeInv', OneCall, NEW c \in Calls, call'[c].pc # "fan",
           AtHome(c)', \A p \in Phones : Told(p)'
    PROVE  AloneInv'
<1>1. \A d \in Calls : d = c
    BY DEF OneCall
<1>2. \A s \in Sessions : fan'[c][s].pc = "none"
    BY DEF TypeInv, FanAway
<1>3. Reaches(c)' /\ \A s \in Sessions : UpToDate(c, s)'
    BY <1>2 DEF Reaches, UpToDate
<1> QED BY <1>1, <1>3 DEF AloneInv, WillBeTold

\* An announcement that begins.
LEMMA FanAlone ==
    ASSUME TypeInv, OneCall, NEW c \in Calls, FanOut(c, registered), UNCHANGED registered,
           AtHome(c)', \A p \in Phones : Told(p)'
    PROVE  AloneInv'
<1>1. \A d \in Calls : d = c
    BY DEF OneCall
<1>2. ASSUME NEW s \in Sessions
      PROVE  fan'[c][s].pc = IF s \in registered THEN "target" ELSE "none"
    BY IdleProper DEF TypeInv, FanOut, FanType
<1>3. Reaches(c)' /\ \A s \in Sessions : UpToDate(c, s)'
    BY <1>2 DEF Reaches, UpToDate
<1> QED BY <1>1, <1>3 DEF AloneInv, WillBeTold

LEMMA AtHomeKept ==
    ASSUME TypeInv, TypeInv', AloneInv, NEW c \in Calls, GoesOn(c),
           call[c].pc \in Streaming \cup {"fan"}, UNCHANGED current
    PROVE  AtHome(c)'
<1>1. /\ call'[c].pc \in Streaming => call'[c].phone \in Phones /\ call'[c].phone # NoPhone
    BY ConstantsAssumption DEF TypeInv, Proper, InSession
<1>2. CASE call'[c] = Idle
    BY <1>2, IdleProper DEF AtHome, Streaming
<1>3. CASE call'[c].phone = call[c].phone /\ call'[c].sess = call[c].sess
    BY <1>1, <1>3 DEF AtHome, AloneInv
<1> QED BY <1>2, <1>3 DEF GoesOn

\* What a phone hears when one session speaks.
LEMMA TellOne ==
    ASSUME NEW s \in Sessions, NEW diffs, Tell(Only(s, diffs)), NEW p \in Phones
    PROVE  /\ owner[s] # p \/ diffs = <<>> => told'[p] = told[p]
           /\ owner[s] = p /\ diffs # <<>> => told'[p] = LastTold(told[p], diffs)
<1>1. PICK out : out = Only(s, diffs)
    OBVIOUS
<1>2. /\ \A t \in Sessions : out[t] = IF t = s THEN diffs ELSE <<>>
    BY <1>1 DEF Only
<1>3. Speakers(p, out) = IF owner[s] = p /\ diffs # <<>> THEN {s} ELSE {}
    BY <1>2 DEF Speakers
<1>4. IF Speakers(p, out) = {} THEN told'[p] = told[p]
      ELSE \E t \in Speakers(p, out) : told'[p] = LastTold(told[p], out[t])
    BY <1>1 DEF Tell
<1> QED BY <1>2, <1>3, <1>4

LEMMA LockedIsTold ==
    ASSUME NEW known, NEW track
    PROVE  LastTold(known, <<Diff("locked", track)>>) = track
BY DEF LastTold, Last, Diff

\* When the session of a stream speaks for itself, its phone knows its lock.
LEMMA ToldStep ==
    ASSUME TypeInv, NEW s \in Sessions, NEW r, Sound(sess[s], r),
           sess' = [sess EXCEPT ![s] = r.sess], Tell(Only(s, r.diffs)), UNCHANGED current,
           \A p \in Phones : owner[s] = p => current[p] = s,
           \A p \in Phones : Told(p)
    PROVE  \A p \in Phones : Told(p)'
<1> SUFFICES ASSUME NEW p \in Phones, current[p] # NoSession,
                    sess'[current[p]].state = "locked"
             PROVE  told'[p] = sess'[current[p]].track
    BY DEF Told
<1>. /\ current[p] \in Sessions /\ owner[current[p]] = p /\ sess \in [Sessions -> SessType]
     /\ SessOK(sess[s])
    BY DEF TypeInv, StoredOK, Owned
<1>1. CASE current[p] # s
    <2>1. sess'[current[p]] = sess[current[p]] /\ owner[s] # p
        BY <1>1
    <2> QED BY <2>1, TellOne DEF Told
<1>2. CASE current[p] = s
    <2>1. sess'[s] = r.sess /\ owner[s] = p
        BY <1>2
    <2>2. CASE Silent(sess[s], r)
        <3>1. r.sess.track = sess[s].track /\ sess[s].state = "locked" /\ r.diffs = <<>>
            BY <1>2, <2>1, <2>2 DEF Silent
        <3> QED BY <1>2, <2>1, <3>1, TellOne DEF Told
    <2>3. CASE Locks(sess[s], r)
        <3>1. r.diffs = <<Diff("locked", sess[s].track)>> /\ r.diffs # <<>>
            BY <2>3 DEF Locks
        <3>2. told'[p] = LastTold(told[p], r.diffs)
            BY <2>1, <3>1, TellOne
        <3>3. told'[p] = sess[s].track
            BY <3>1, <3>2, LockedIsTold
        <3> QED BY <1>2, <2>1, <2>3, <3>3 DEF Locks
    <2>4. CASE Releases(sess[s], r)
        BY <1>2, <2>1, <2>4 DEF Releases
    <2> QED BY <2>2, <2>3, <2>4 DEF Sound
<1> QED BY <1>1, <1>2

LEMMA ToldKept ==
    ASSUME \A p \in Phones : Told(p), UNCHANGED <<current, sess, told>>
    PROVE  \A p \in Phones : Told(p)'
BY DEF Told

\* A stream that opens is not locked, and the others are as they were.
LEMMA OpenTold ==
    ASSUME TypeInv, NEW q \in Phones, NEW s \in Sessions, NEW dropped,
           dropped \subseteq {current[q]}, OpenWith(q, s, dropped), UNCHANGED told,
           \A p \in Phones : Told(p)
    PROVE  \A p \in Phones : Told(p)'
<1> SUFFICES ASSUME NEW p \in Phones, current'[p] # NoSession,
                    sess'[current'[p]].state = "locked"
             PROVE  told[p] = sess'[current'[p]].track
    BY DEF Told
<1>. StoredOK /\ Owned
    BY DEF TypeInv
<1>1. CASE p = q
    <2>1. current'[p] = s /\ sess'[s] = Fresh
        BY <1>1 DEF OpenWith, StoredOK
    <2> QED BY <2>1, FreshOK
<1>2. CASE p # q
    <2>1. current'[p] = current[p] /\ current[p] \in Sessions
        BY <1>2 DEF OpenWith, StoredOK
    <2>2. current[p] # current[q] /\ current[p] # s
        BY <1>2, <2>1 DEF Owned, OpenWith, Free
    <2>3. sess'[current[p]] = sess[current[p]]
        BY <2>1, <2>2 DEF OpenWith
    <2> QED BY <2>1, <2>3 DEF Told
<1> QED BY <1>1, <1>2

\* The session a chunk works on is its phone's only one that may speak.
LEMMA HomeOwner ==
    ASSUME TypeInv, AloneInv, NEW c \in Calls, call[c].pc \in Streaming
    PROVE  /\ call[c].sess \in Sessions
           /\ \A p \in Phones : owner[call[c].sess] = p => current[p] = call[c].sess
BY DEF TypeInv, AloneInv, AtHome, Proper, InSession

LEMMA DeliverAlone ==
    ASSUME TypeInv, TypeInv', AloneInv, OneCall, NEW c \in Calls,
           call[c].pc \in {"judge", "weigh"},
           NEW r, Sound(sess[call[c].sess], r), Deliver(c, call[c].sess, r),
           UNCHANGED <<registered, current>>
    PROVE  AloneInv'
<1>1. /\ call[c].op \in {"chunk", "stop"} /\ call[c].pc \in Streaming /\ call[c].pc # "autoOpen"
      /\ call[c].pc # "fan"
    BY DEF TypeInv, Proper, Streaming
<1>2. GoesOn(c)
    BY <1>1, DeliverGoesOn
<1>3. AtHome(c)'
    BY <1>1, <1>2, AtHomeKept
<1>4. PICK s \in Sessions : s = call[c].sess
    BY <1>1, HomeOwner
<1>5. sess' = [sess EXCEPT ![s] = r.sess] /\ Tell(Only(s, r.diffs))
    BY <1>4 DEF Deliver
<1>6. \A p \in Phones : Told(p)'
    BY <1>1, <1>4, <1>5, HomeOwner, ToldNow, ToldStep
<1>7. FanOut(c, registered) \/ call'[c].pc # "fan"
    <2>1. CASE call' = [call EXCEPT ![c].pc = Resume(c), ![c].track = NoTrack, ![c].ctx = {}]
        BY <2>1 DEF Resume, TypeInv, CallType
    <2>2. CASE Finish(c)
        BY <2>2, IdleProper DEF Finish, TypeInv
    <2>3. CASE \E track : call' = [call EXCEPT ![c].pc = "sending", ![c].track = track]
        BY <2>3 DEF TypeInv, CallType
    <2> QED BY <2>1, <2>2, <2>3 DEF Deliver, SendIfApproved
<1> QED BY <1>3, <1>6, <1>7, CallAlone, FanAlone

LEMMA AlonePhoneStep ==
    ASSUME TypeInv, TypeInv', AloneInv, OneCall, NEW c \in Calls, PhoneStep(c)
    PROVE  AloneInv'
<1>. /\ StoredOK /\ Owned /\ Proper(call[c]) /\ call \in [Calls -> CallType]
    BY DEF TypeInv
<1>pc. call[c].pc # "fan"
    BY DEF PhoneStep, Start, Chunk, ChunkStarts, ChunkWaits, Stop, Open, AutoOpen, AutoOpenFails,
           Pause, Match, Judge, Weigh, SendNow, SendFails, ReEvaluate, Reset, Begin, MayStart, At
<1>told. \A p \in Phones : Told(p)
    BY <1>pc, ToldNow
<1>home. ASSUME NEW op, NEW p \in Phones, NEW s \in Sessions, NEW was, NEW pc, pc # "fan",
                call' = [call EXCEPT ![c] = Hearing(op, p, s, was, pc)], current'[p] = s
         PROVE  call'[c].pc # "fan" /\ AtHome(c)'
    <2> DEFINE k == Hearing(op, p, s, was, pc)
    <2>1. k.pc = pc /\ k.phone = p /\ k.sess = s
        BY DEF Hearing, Idle
    <2> HIDE DEF k
    <2>2. call'[c] = k
        BY <1>home DEF k
    <2> QED BY <1>home, <2>1, <2>2 DEF AtHome
<1>listen. ASSUME NEW p \in Phones, NEW s \in Sessions, Listening(c, "chunk", p, s), current'[p] = s
           PROVE  call'[c].pc # "fan" /\ AtHome(c)'
    <2>1. PICK pc : /\ pc # "fan"
                    /\ call' = [call EXCEPT ![c] = Hearing("chunk", p, s, sess'[s].track, pc)]
        BY <1>listen DEF Listening, Hearing, Resume
    <2> QED BY <1>home, <1>listen, <2>1
<1>finish. ASSUME Finish(c)
           PROVE  call'[c].pc # "fan" /\ AtHome(c)'
    BY <1>finish, IdleProper DEF Finish, AtHome, Streaming
<1>kept. ASSUME UNCHANGED <<sess, told, current>>
         PROVE  \A p \in Phones : Told(p)'
    BY <1>kept, <1>told, ToldKept
<1>1. ASSUME NEW p \in Phones, Start(c, p) \/ ChunkStarts(c, p) \/ ChunkWaits(c, p)
      PROVE  AloneInv'
    <2>1. UNCHANGED <<sess, told, current>>
        BY <1>1 DEF Start, ChunkStarts, ChunkWaits, sockets
    <2>2. call'[c].pc \in {"open", "autoOpen", "pause"}
        BY <1>1, BeginProper DEF Start, ChunkStarts, ChunkWaits
    <2>3. AtHome(c)' /\ call'[c].pc # "fan"
        BY <2>2 DEF AtHome, Streaming
    <2> QED BY <1>kept, <2>1, <2>3, CallAlone
<1>2. ASSUME NEW p \in Phones, Chunk(c, p)
      PROVE  AloneInv'
    <2>1. UNCHANGED <<sess, told, current>>
        BY <1>2 DEF Chunk, sockets
    <2>2. PICK s \in Sessions : s = current[p]
        BY <1>2 DEF Chunk, StoredOK
    <2>3. Listening(c, "chunk", p, s)
        BY <1>2, <2>2 DEF Chunk
    <2> QED BY <1>kept, <1>listen, <2>1, <2>2, <2>3, CallAlone
<1>3. ASSUME NEW p \in Phones, Stop(c, p)
      PROVE  AloneInv'
    <2>1. UNCHANGED <<sess, told, current>>
        BY <1>3 DEF Stop, sockets
    <2>2. PICK s \in Sessions : s = current[p]
        BY <1>3 DEF Stop, StoredOK
    <2>3. PICK pc \in {"match", "revoke", "reset"} :
            call' = [call EXCEPT ![c] = Hearing("stop", p, s, sess[s].track, pc)]
        BY <1>3, <2>2 DEF Stop, Hearing
    <2> QED BY <1>kept, <1>home, <2>1, <2>2, <2>3, CallAlone
<1>4. CASE Open(c)
    <2>1. call[c].phone \in Phones /\ Finish(c) /\ UNCHANGED told
        BY <1>4 DEF Open, At, Proper
    <2>2. PICK p \in Phones : p = call[c].phone
        BY <2>1
    <2>3. PICK s \in Sessions : OpenWith(p, s, {current[p]} \ {NoSession})
        BY <1>4, <2>2 DEF Open
    <2> QED BY <1>finish, <1>told, <2>1, <2>3, OpenTold, CallAlone
<1>5. CASE AutoOpen(c)
    <2>1. call[c].phone \in Phones /\ UNCHANGED told
        BY <1>5 DEF AutoOpen, At, Proper
    <2>2. PICK p \in Phones : p = call[c].phone
        BY <2>1
    <2>3. PICK s \in Sessions : OpenWith(p, s, {}) /\ Listening(c, "chunk", p, s)
        BY <1>5, <2>2 DEF AutoOpen
    <2>4. current'[p] = s
        BY <2>3 DEF OpenWith, StoredOK
    <2> QED BY <1>listen, <1>told, <2>1, <2>3, <2>4, OpenTold, CallAlone
<1>6. CASE AutoOpenFails(c)
    <2>1. UNCHANGED <<sess, told, current>> /\ Finish(c)
        BY <1>6 DEF AutoOpenFails
    <2> QED BY <1>kept, <1>finish, <2>1, CallAlone
<1>7. CASE Pause(c)
    <2>1. UNCHANGED <<sess, told, current>> /\ call[c].phone \in Phones
        BY <1>7 DEF Pause, sockets, At, Proper
    <2>2. CASE current[call[c].phone] = NoSession
        BY <1>7, <1>kept, <1>finish, <2>1, <2>2, CallAlone DEF Pause
    <2>3. CASE current[call[c].phone] # NoSession
        <3>1. PICK p \in Phones, s \in Sessions : p = call[c].phone /\ s = current[p]
            BY <2>1, <2>3 DEF StoredOK
        <3>2. Listening(c, "chunk", p, s)
            BY <1>7, <2>3, <3>1 DEF Pause
        <3> QED BY <1>kept, <1>listen, <2>1, <3>1, <3>2, CallAlone
    <2> QED BY <2>2, <2>3
<1>8. ASSUME NEW top \in TrackOrNone, Match(c, top)
      PROVE  AloneInv'
    <2>1. UNCHANGED <<sess, told, current>> /\ call[c].pc \in Streaming
        BY <1>8 DEF Match, sockets, Streaming
    <2>2. AtHome(c)'
        BY <1>8, <2>1, ChunkGoesOn, AtHomeKept
    <2>3. call'[c].pc # "fan"
        BY <1>8 DEF Match, CallType
    <2> QED BY <1>kept, <2>1, <2>2, <2>3, CallAlone
<1>9. CASE Judge(c)
    <2>1. /\ call[c].sess \in Sessions /\ call[c].track \in TrackOrNone /\ call[c].ctx \in Context
          /\ call[c].pc = "judge"
        BY <1>9 DEF TypeInv, Judge, At, Proper, Streaming, InSession, CallType
    <2>2. PICK r : r = Judged(sess[call[c].sess], call[c].track, call[c].ctx)
        OBVIOUS
    <2>3. Sound(sess[call[c].sess], r)
        BY <2>1, <2>2, JudgedSound DEF StoredOK
    <2>4. Deliver(c, call[c].sess, r) /\ UNCHANGED <<registered, current>>
        BY <1>9, <2>2 DEF Judge, registry
    <2> QED BY <2>1, <2>3, <2>4, DeliverAlone
<1>10. ASSUME NEW spaced \in BOOLEAN, Weigh(c, spaced)
       PROVE  AloneInv'
    <2>1. /\ call[c].sess \in Sessions /\ call[c].track \in TrackOrNone
          /\ call[c].ctx \in Context /\ call[c].was \in TrackOrNone /\ call[c].pc = "weigh"
        BY <1>10 DEF TypeInv, Weigh, At, Proper, Streaming, InSession, CallType
    <2>2. PICK r : r = Revoked(sess[call[c].sess], call[c].was, call[c].track,
                               call[c].ctx, spaced)
        OBVIOUS
    <2>3. Sound(sess[call[c].sess], r)
        BY <2>1, <2>2, RevokedSound DEF StoredOK
    <2>4. Deliver(c, call[c].sess, r) /\ UNCHANGED <<registered, current>>
        BY <1>10, <2>2 DEF Weigh, registry
    <2> QED BY <2>1, <2>3, <2>4, DeliverAlone
<1>11. CASE SendNow(c)
    <2>1. /\ UNCHANGED <<sess, told, current, registered>> /\ call[c].pc \in Streaming
          /\ FanOut(c, registered)
        BY <1>11 DEF SendNow, sockets, registry, Streaming, At
    <2>2. AtHome(c)'
        BY <1>11, <2>1, ChunkGoesOn, AtHomeKept
    <2> QED BY <1>kept, <2>1, <2>2, FanAlone
<1>12. CASE SendFails(c)
    <2>1. /\ call[c].pc \in Streaming /\ UNCHANGED <<current, fan>> /\ call[c].phone \in Phones
        BY <1>12 DEF SendFails, At, Streaming, Proper, InSession
    <2>2. AtHome(c)'
        BY <1>12, <2>1, ChunkGoesOn, AtHomeKept
    <2>3. call'[c].pc # "fan"
        <3>1. CASE Finish(c)
            BY <1>finish, <3>1
        <3>2. CASE call' = [call EXCEPT ![c].pc = Resume(c), ![c].track = NoTrack, ![c].ctx = {}]
            BY <3>2 DEF Resume, CallType
        <3> QED BY <1>12, <3>1, <3>2 DEF SendFails
    <2>4. \A p \in Phones : Told(p)'
        <3>1. CASE UNCHANGED <<sess, told>>
            BY <1>kept, <2>1, <3>1
        <3>2. CASE current[call[c].phone] # NoSession
            <4>1. PICK s \in Sessions : s = current[call[c].phone]
                BY <2>1, <3>2 DEF StoredOK
            <4>2. PICK r : r = Dropped(sess[s])
                OBVIOUS
            <4>3. Sound(sess[s], r)
                BY <4>2, DroppedSound DEF StoredOK
            <4>4. sess' = [sess EXCEPT ![s] = r.sess] /\ Tell(Only(s, r.diffs))
                BY <1>12, <3>2, <4>1, <4>2 DEF SendFails
            <4>5. \A p \in Phones : owner[s] = p => current[p] = s
                BY <2>1, <3>2, <4>1 DEF Owned
            <4> QED BY <1>told, <2>1, <4>3, <4>4, <4>5, ToldStep
        <3> QED BY <1>12, <3>1, <3>2 DEF SendFails
    <2> QED BY <2>2, <2>3, <2>4, CallAlone
<1>13. CASE ReEvaluate(c)
    <2>1. UNCHANGED <<sess, told, current>> /\ Finish(c)
        BY <1>13 DEF ReEvaluate, ReEvaluated, DebounceElapsed, StoredOK, sockets
    <2> QED BY <1>kept, <1>finish, <2>1, CallAlone
<1>14. CASE Reset(c)
    <2>1. /\ call[c].pc = "reset" /\ call[c].pc \in Streaming /\ Finish(c)
          /\ InSession(call[c])
          /\ current' = [current EXCEPT ![call[c].phone] = NoSession]
          /\ sess' = [sess EXCEPT ![call[c].sess] = Dropped(sess[call[c].sess]).sess]
          /\ Tell(Only(call[c].sess, Dropped(sess[call[c].sess]).diffs))
        BY <1>14 DEF Reset, At, Streaming, Proper
    <2>2. PICK s \in Sessions : s = call[c].sess
        BY <2>1, HomeOwner
    <2>3. PICK r : r = Dropped(sess[s])
        OBVIOUS
    <2>4. \A p \in Phones : Told(p)'
        <3> SUFFICES ASSUME NEW p \in Phones, current'[p] # NoSession,
                            sess'[current'[p]].state = "locked"
                     PROVE  told'[p] = sess'[current'[p]].track
            BY DEF Told
        <3>1. p # call[c].phone /\ current'[p] = current[p] /\ current[p] \in Sessions
            BY <2>1 DEF StoredOK, InSession
        <3>2. current[p] # s /\ owner[s] # p
            BY <2>1, <2>2, <3>1, ConstantsAssumption DEF Owned, InSession
        <3>3. sess'[current[p]] = sess[current[p]] /\ Tell(Only(s, r.diffs))
            BY <2>1, <2>2, <2>3, <3>1, <3>2 DEF StoredOK
        <3>4. told'[p] = told[p]
            BY <3>2, <3>3, TellOne
        <3> QED BY <1>told, <3>1, <3>3, <3>4 DEF Told
    <2> QED BY <1>finish, <2>1, <2>4, CallAlone
<1> QED BY <1>1, <1>2, <1>3, <1>4, <1>5, <1>6, <1>7, <1>8, <1>9, <1>10, <1>11, <1>12, <1>13,
           <1>14 DEF PhoneStep

\* The DJ's send reaches each stream through its own session.
LEMMA DjTold ==
    ASSUME TypeInv, RegInv, NEW c \in Calls, NEW t \in Tracks, DjSend(c, t),
           \A p \in Phones : Told(p)
    PROVE  \A p \in Phones : Told(p)'
<1>. StoredOK /\ Owned
    BY DEF TypeInv
<1> SUFFICES ASSUME NEW p \in Phones, current[p] # NoSession,
                    sess'[current[p]].state = "locked"
             PROVE  told'[p] = sess'[current[p]].track
    BY DEF Told, DjSend
<1> PICK s \in Sessions : s = current[p]
    BY DEF StoredOK
<1>0. PICK out : /\ \A u \in Sessions : out[u] = IntentOnAll(t)[u].diffs
                 /\ Tell(out)
    BY DEF DjSend
<1>1. s \in registered /\ owner[s] = p
    BY DEF RegInv, Owned
<1>2. /\ sess'[s] = Intended(sess[s], t).sess /\ out[s] = Intended(sess[s], t).diffs
    BY <1>0, <1>1 DEF DjSend, IntentOnAll
<1>3. ASSUME NEW u \in Speakers(p, out) PROVE u = s
    <2>1. u \in Sessions /\ owner[u] = p /\ out[u] # <<>>
        BY <1>3 DEF Speakers
    <2>2. u \in registered
        BY <1>0, <2>1 DEF IntentOnAll
    <2> QED BY <2>1, <2>2 DEF RegInv, Owned
<1>4. /\ out[s] = <<>> => told'[p] = told[p]
      /\ out[s] # <<>> => told'[p] = LastTold(told[p], out[s])
    <2>1. IF Speakers(p, out) = {} THEN told'[p] = told[p]
          ELSE \E u \in Speakers(p, out) : told'[p] = LastTold(told[p], out[u])
        BY <1>0 DEF Tell
    <2>2. s \in Speakers(p, out) <=> out[s] # <<>>
        BY <1>1 DEF Speakers
    <2> QED BY <1>3, <2>1, <2>2
<1>5. PICK r : r = Intended(sess[s], t)
    OBVIOUS
<1>6. Sound(sess[s], r) /\ SessOK(sess[s])
    BY <1>5, IntendedSound DEF StoredOK
<1>7. CASE Silent(sess[s], r)
    <2>1. r.sess.track = sess[s].track /\ sess[s].state = "locked" /\ r.diffs = <<>>
        BY <1>2, <1>5, <1>7 DEF Silent
    <2> QED BY <1>2, <1>4, <1>5, <2>1 DEF Told
<1>8. CASE Locks(sess[s], r)
    <2>1. r.diffs = <<Diff("locked", sess[s].track)>> /\ r.diffs # <<>>
        BY <1>8 DEF Locks
    <2>2. told'[p] = sess[s].track
        BY <1>2, <1>4, <1>5, <2>1, LockedIsTold
    <2> QED BY <1>2, <1>5, <1>8, <2>2 DEF Locks
<1>9. CASE Releases(sess[s], r)
    BY <1>2, <1>5, <1>9 DEF Releases
<1> QED BY <1>6, <1>7, <1>8, <1>9 DEF Sound

LEMMA AloneQueueStep ==
    ASSUME TypeInv, RegInv, AloneInv, OneCall, NEW c \in Calls, QueueStep(c)
    PROVE  AloneInv'
<1>. call \in [Calls -> CallType]
    BY DEF TypeInv
<1>1. PICK op, track, first, rest : Announce(c, op, track, first, rest)
    BY DEF QueueStep, Stir, Approve, PutOn, DjSend, Leave, LeaveQuietly
<1>2. FanOut(c, registered) /\ call[c].pc = "idle"
    BY <1>1 DEF Announce, MayStart, At
<1>3. \A p \in Phones : Told(p)
    BY <1>2, ToldNow
<1>4. UNCHANGED <<registered, current>>
    BY DEF QueueStep, Stir, Approve, PutOn, DjSend, Leave, LeaveQuietly, sockets, registry
<1>5. AtHome(c)'
    <2> DEFINE k == [Idle EXCEPT !.op = op, !.pc = "fan", !.track = track, !.event = first,
                                 !.plan = rest]
    <2>1. k.pc = "fan" /\ k.phone = NoPhone
        BY DEF Idle
    <2>2. call' = [call EXCEPT ![c] = k]
        BY <1>1 DEF Announce
    <2> HIDE DEF k
    <2>3. call'[c] = k
        BY <2>2
    <2> QED BY <2>1, <2>3 DEF AtHome, Streaming
<1>6. \A p \in Phones : Told(p)'
    <2>1. CASE UNCHANGED <<sess, told>>
        BY <1>3, <1>4, <2>1, ToldKept
    <2>2. CASE \E t \in Tracks : DjSend(c, t)
        BY <1>3, <2>2, DjTold
    <2> QED BY <2>1, <2>2 DEF QueueStep, Stir, Approve, PutOn, Leave, LeaveQuietly
<1> QED BY <1>2, <1>4, <1>5, <1>6, FanAlone

\* One session goes a step further; the streams of the others hear nothing of it.
LEMMA CellAlone ==
    ASSUME TypeInv, RegInv, AloneInv, OneCall, NEW c \in Calls, NEW s \in Sessions, NEW f,
           fan' = [fan EXCEPT ![c] = [fan[c] EXCEPT ![s] = f]],
           fan[c][s].pc # "none", f.pc # "none",
           UNCHANGED <<call, registered, current, queue>>,
           \A u \in Sessions : u # s => sess'[u] = sess[u],
           UNCHANGED told \/ \E diffs : Tell(Only(s, diffs)),
           UpToDate(c, s)', \A p \in Phones : current[p] = s => WillBeTold(p)'
    PROVE  AloneInv'
<1>1. /\ fan'[c][s] = f /\ \A u \in Sessions : u # s => fan'[c][u] = fan[c][u]
    BY DEF TypeInv
<1>2. AtHome(c)' /\ Reaches(c)'
    BY <1>1 DEF AloneInv, AtHome, Reaches
<1>3. \A u \in Sessions : UpToDate(c, u)'
    BY <1>1 DEF AloneInv, UpToDate
<1>4. ASSUME NEW p \in Phones, current[p] # s, current[p] # NoSession
      PROVE  WillBeTold(p)'
    <2>1. current[p] \in Sessions /\ owner[current[p]] = p
        BY <1>4 DEF TypeInv, StoredOK, Owned
    <2>2. s \in registered
        BY DEF AloneInv, Reaches
    <2>3. owner[s] # p
        BY <1>4, <2>2 DEF RegInv, TypeInv, Owned
    <2>4. told'[p] = told[p]
        BY <2>3, TellOne
    <2>5. /\ sess'[current[p]] = sess[current[p]] /\ fan'[c][current[p]] = fan[c][current[p]]
        BY <1>1, <1>4, <2>1
    <2>6. \A d \in Calls : d = c
        BY DEF OneCall
    <2> QED BY <2>4, <2>5, <2>6 DEF AloneInv, WillBeTold, Told
<1>5. ASSUME NEW p \in Phones, current[p] = NoSession
      PROVE  WillBeTold(p)'
    BY <1>5 DEF WillBeTold, Told
<1> QED BY <1>2, <1>3, <1>4, <1>5 DEF AloneInv, OneCall

LEMMA LastSaid ==
    ASSUME NEW d, NEW e, NEW said, said = <<>> \/ said = <<d>>
    PROVE  Contains(said \o <<e>>, e) /\ said \o <<e>> # <<>>
<1>1. CASE said = <<>>
    <2>1. said \o <<e>> = <<e>>
        BY <1>1
    <2> QED BY <2>1, OneSaid
<1>2. CASE said = <<d>>
    <2>1. Len(said \o <<e>>) = 2 /\ (said \o <<e>>)[2] = e
        BY <1>2
    <2>2. said \o <<e>> # <<>>
        BY <2>1
    <2> QED BY <2>1, <2>2 DEF Contains
<1> QED BY <1>1, <1>2

\* The candidate of a merge is the one the lookup was for, so the merge only
\* refreshes its context, or drops it with a word.
LEMMA MergeSound ==
    ASSUME TypeInv, AloneInv, NEW c \in Calls, NEW s \in Sessions, FanMerge(c, s)
    PROVE  /\ sess[s].track = fan[c][s].track /\ sess[s].track \in Tracks
           /\ fan[c][s].ctx = queue[sess[s].track]
           /\ fan[c][s].diffs \in {<<>>, <<Diff("locked", sess[s].track)>>}
           /\ \E d : /\ Tell(Only(s, d)) /\ guard' = Unguarded(Only(s, d))
                     /\ \/ /\ sess'[s].track = sess[s].track /\ sess'[s].state = sess[s].state
                           /\ d = fan[c][s].diffs
                           /\ sess'[s].state = "locked" => queue[sess[s].track] # {}
                        \/ /\ sess'[s] = Fresh
                           /\ Contains(d, Diff("released", sess[s].track)) /\ d # <<>>
<1>. sess \in [Sessions -> SessType] /\ SessOK(sess[s])
    BY DEF TypeInv, StoredOK
<1> DEFINE f == fan[c][s]
           m == [sess[s] EXCEPT !.track = f.track, !.ctx = f.ctx]
           r == Merged(sess[s], f.track, f.ctx)
<1>1. /\ sess[s].track = f.track /\ f.track \in Tracks /\ f.ctx = queue[f.track]
      /\ f.diffs \in {<<>>, <<Diff("locked", f.track)>>}
    BY DEF AloneInv, UpToDate, FanMerge, FanAt, TypeInv, FanProper
<1>2. f.track # NoTrack
    BY <1>1, ConstantsAssumption
<1>3. /\ sess'[s] = r.sess /\ Tell(Only(s, f.diffs \o r.diffs))
      /\ guard' = Unguarded(Only(s, f.diffs \o r.diffs))
    BY <1>1, <1>2 DEF FanMerge
<1>4. m.track = f.track /\ m.state = sess[s].state
    BY DEF SessType
<1>5. CASE sess[s].state = "locked" /\ f.ctx = {}
    <2>1. r = Dropped(m)
        BY <1>5 DEF Merged
    <2>2. r.sess = Fresh /\ r.diffs = <<Diff("released", f.track)>>
        BY <1>2, <1>4, <2>1 DEF Dropped
    <2> DEFINE e == Diff("released", f.track)
               g == Diff("locked", f.track)
    <2>3. f.diffs = <<>> \/ f.diffs = <<g>>
        BY <1>1
    <2> HIDE DEF e, g, f, r
    <2>4. r.diffs = <<e>>
        BY <2>2 DEF e
    <2>5. Contains(f.diffs \o r.diffs, e) /\ f.diffs \o r.diffs # <<>>
        BY <2>3, <2>4, LastSaid
    <2> QED BY <1>1, <1>3, <2>2, <2>5 DEF e, f
<1>6. CASE ~ (sess[s].state = "locked" /\ f.ctx = {})
    <2>1. r = [sess |-> m, diffs |-> <<>>]
        BY <1>6 DEF Merged
    <2> DEFINE g == Diff("locked", f.track)
    <2>2. f.diffs = <<>> \/ f.diffs = <<g>>
        BY <1>1
    <2>3. r.sess = m /\ r.diffs = <<>>
        BY <2>1
    <2> HIDE DEF g, f, r, m
    <2>4. f.diffs \o r.diffs = f.diffs
        BY <2>2, <2>3
    <2> QED BY <1>1, <1>3, <1>4, <1>6, <2>3, <2>4 DEF f
<1> QED BY <1>5, <1>6

LEMMA AloneCellStep ==
    ASSUME TypeInv, RegInv, AloneInv, OneCall, NEW c \in Calls, NEW s \in Sessions,
           FanTarget(c, s) \/ FanFinished(c, s) \/ FanApply(c, s) \/ FanEnrich(c, s)
              \/ FanMerge(c, s)
    PROVE  AloneInv'
<1>. /\ StoredOK /\ Owned /\ SessOK(sess[s]) /\ fan \in [Calls -> [Sessions -> FanType]]
     /\ FanProper(fan[c][s]) /\ sess \in [Sessions -> SessType] /\ UpToDate(c, s)
     /\ \A d \in Calls : d = c
    BY DEF TypeInv, StoredOK, AloneInv, OneCall
<1>1. UNCHANGED <<call, registered, current, queue>>
    BY DEF FanTarget, FanFinished, FanApply, FanEnrich, FanMerge, sockets, registry
<1> DEFINE done == [NoFan EXCEPT !.pc = "done"]
<1>done. done.pc = "done"
    BY DEF NoFan
<1>told. ASSUME fan[c][s].pc \in {"target", "apply"}, NEW p \in Phones, current[p] = s
         PROVE  Told(p)
    BY <1>told DEF AloneInv, WillBeTold
<1>2. CASE FanTarget(c, s)
    <2>1. PICK t : fan' = [fan EXCEPT ![c][s].pc = "apply", ![c][s].target = t]
        BY <1>2 DEF FanTarget
    <2>2. PICK f : f = [fan[c][s] EXCEPT !.pc = "apply", !.target = t]
        OBVIOUS
    <2>3. fan' = [fan EXCEPT ![c] = [fan[c] EXCEPT ![s] = f]] /\ f.pc = "apply"
        <3>1. fan' = [fan EXCEPT ![c] = [fan[c] EXCEPT ![s] = f]]
            BY <2>1, <2>2
        <3>2. f.pc = "apply"
            BY <2>2 DEF FanType
        <3> QED BY <3>1, <3>2
    <2>4. fan[c][s].pc = "target" /\ UNCHANGED <<sess, told>>
        BY <1>2 DEF FanTarget, FanAt
    <2>5. fan'[c][s] = f
        BY <2>3
    <2>6. UpToDate(c, s)'
        BY <2>3, <2>5 DEF UpToDate
    <2>7. \A p \in Phones : current[p] = s => WillBeTold(p)'
        BY <1>1, <1>told, <2>4 DEF WillBeTold, Told
    <2> QED BY <1>1, <2>3, <2>4, <2>6, <2>7, CellAlone
<1>3. CASE FanFinished(c, s)
    <2>1. PICK f : f = done
        OBVIOUS
    <2>2. /\ sess' = [sess EXCEPT ![s] = Fresh] /\ \E d : Tell(Only(s, d))
          /\ fan[c][s].pc = "apply" /\ fan' = [fan EXCEPT ![c] = [fan[c] EXCEPT ![s] = f]]
        BY <1>3, <2>1 DEF FanFinished, FanAt, Dropped
    <2>3. sess'[s] = Fresh /\ \A u \in Sessions : u # s => sess'[u] = sess[u]
        BY <2>2
    <2>4. fan'[c][s] = f
        BY <2>2
    <2>5. UpToDate(c, s)'
        BY <1>done, <2>1, <2>3, <2>4, FreshOK DEF UpToDate
    <2>6. \A p \in Phones : current[p] = s => WillBeTold(p)'
        BY <1>1, <2>3, FreshOK DEF WillBeTold, Told
    <2> QED BY <1>1, <1>done, <2>1, <2>2, <2>3, <2>5, <2>6, CellAlone
<1>4. CASE FanApply(c, s)
    <2>0. PICK r : r = Applied(sess[s], call[c].event, call[c].track, fan[c][s].target)
        OBVIOUS
    <2>1. Sound(sess[s], r) /\ (r.sess.track # NoTrack => ~ Releases(sess[s], r))
        BY <2>0, AppliedSound
    <2>2. /\ sess' = [sess EXCEPT ![s] = r.sess] /\ fan[c][s].pc = "apply"
        BY <1>4, <2>0 DEF FanApply, FanAt
    <2>3. sess'[s] = r.sess /\ \A u \in Sessions : u # s => sess'[u] = sess[u]
        BY <2>2
    <2>4. CASE r.sess.track = NoTrack
        <3>1. PICK f : f = done
            OBVIOUS
        <3>2. fan' = [fan EXCEPT ![c] = [fan[c] EXCEPT ![s] = f]] /\ \E d : Tell(Only(s, d))
            BY <1>4, <2>0, <2>4, <3>1 DEF FanApply
        <3>3. sess'[s].state # "locked"
            BY <2>1, <2>3, <2>4 DEF Sound, SessOK
        <3>4. fan'[c][s] = f
            BY <3>2
        <3>5. UpToDate(c, s)' /\ \A p \in Phones : current[p] = s => WillBeTold(p)'
            BY <1>1, <1>done, <3>1, <3>3, <3>4 DEF UpToDate, WillBeTold, Told
        <3> QED BY <1>1, <1>done, <2>2, <2>3, <3>1, <3>2, <3>5, CellAlone
    <2>5. CASE r.sess.track # NoTrack
        <3>1. PICK f : f = [NoFan EXCEPT !.pc = "enrich", !.track = r.sess.track,
                                         !.diffs = r.diffs]
            OBVIOUS
        <3>2. /\ fan' = [fan EXCEPT ![c] = [fan[c] EXCEPT ![s] = f]] /\ UNCHANGED told
            BY <1>4, <2>0, <2>5, <3>1 DEF FanApply
        <3>3. f.pc = "enrich" /\ f.track = r.sess.track /\ f.diffs = r.diffs
            BY <3>1 DEF NoFan
        <3>4. fan'[c][s] = f
            BY <3>2
        <3>5. UpToDate(c, s)'
            BY <2>3, <3>3, <3>4 DEF UpToDate
        <3>6. ASSUME NEW p \in Phones, current[p] = s PROVE WillBeTold(p)'
            <4>1. Told(p)
                BY <1>told, <2>2, <3>6
            <4>2. CASE Silent(sess[s], r)
                <5>1. r.sess.state = "locked" =>
                        r.sess.track = sess[s].track /\ sess[s].state = "locked"
                    BY <4>2 DEF Silent
                <5> QED BY <1>1, <2>3, <3>2, <3>6, <4>1, <5>1 DEF WillBeTold, Told
            <4>3. CASE Locks(sess[s], r)
                <5>1. r.diffs = <<Diff("locked", r.sess.track)>>
                    BY <4>3 DEF Locks
                <5>2. /\ fan'[c][current'[p]].pc = "enrich"
                      /\ fan'[c][current'[p]].diffs = <<Diff("locked", sess'[current'[p]].track)>>
                    BY <1>1, <2>3, <3>3, <3>4, <3>6, <5>1
                <5> QED BY <5>2 DEF WillBeTold
            <4> QED BY <2>1, <2>5, <4>2, <4>3 DEF Sound
        <3> QED BY <1>1, <2>2, <2>3, <3>2, <3>3, <3>5, <3>6, CellAlone
    <2> QED BY <2>4, <2>5
<1>5. CASE FanEnrich(c, s)
    <2>1. fan[c][s].pc = "enrich" /\ UNCHANGED <<sess, told>>
        BY <1>5 DEF FanEnrich, FanAt
    <2>2. PICK f : f = [fan[c][s] EXCEPT !.pc = "merge", !.ctx = queue[fan[c][s].track]]
        OBVIOUS
    <2>3. fan' = [fan EXCEPT ![c] = [fan[c] EXCEPT ![s] = f]]
        BY <1>5, <2>2 DEF FanEnrich
    <2>4. /\ f.pc = "merge" /\ f.track = fan[c][s].track /\ f.diffs = fan[c][s].diffs
          /\ f.ctx = queue[fan[c][s].track]
        BY <2>2 DEF FanType
    <2>5. fan'[c][s] = f
        BY <2>3
    <2>6. UpToDate(c, s)'
        BY <1>1, <2>1, <2>4, <2>5 DEF UpToDate
    <2>7. ASSUME NEW p \in Phones, current[p] = s PROVE WillBeTold(p)'
        <3>1. CASE Told(p)
            BY <1>1, <2>1, <3>1 DEF WillBeTold, Told
        <3>2. CASE fan[c][s].diffs = <<Diff("locked", sess[s].track)>>
            <4>1. /\ fan'[c][current'[p]].pc = "merge"
                  /\ fan'[c][current'[p]].diffs = <<Diff("locked", sess'[current'[p]].track)>>
                BY <1>1, <2>1, <2>4, <2>5, <2>7, <3>2
            <4> QED BY <4>1 DEF WillBeTold
        <3> QED BY <2>7, <3>1, <3>2 DEF AloneInv, WillBeTold
    <2> QED BY <1>1, <2>1, <2>3, <2>4, <2>6, <2>7, CellAlone
<1>6. CASE FanMerge(c, s)
    <2>1. PICK f : f = done
        OBVIOUS
    <2>2. /\ fan[c][s].pc = "merge" /\ fan' = [fan EXCEPT ![c] = [fan[c] EXCEPT ![s] = f]]
          /\ \A u \in Sessions : u # s => sess'[u] = sess[u]
        BY <1>6, <2>1 DEF FanMerge, FanAt
    <2>3. fan'[c][s] = f
        BY <2>2
    <2>4. PICK d : /\ Tell(Only(s, d))
                   /\ \/ /\ sess'[s].track = sess[s].track /\ sess'[s].state = sess[s].state
                         /\ d = fan[c][s].diffs
                         /\ sess'[s].state = "locked" => queue[sess[s].track] # {}
                      \/ sess'[s] = Fresh
        BY <1>6, MergeSound
    <2>5. UpToDate(c, s)'
        BY <1>1, <1>done, <2>1, <2>3, <2>4, FreshOK DEF UpToDate
    <2>6. ASSUME NEW p \in Phones, current[p] = s, sess'[s].state = "locked"
          PROVE  told'[p] = sess'[s].track
        <3>1. /\ sess'[s].track = sess[s].track /\ sess[s].state = "locked"
              /\ d = fan[c][s].diffs
            BY <2>4, <2>6, FreshOK
        <3>2. owner[s] = p
            BY <2>6, ConstantsAssumption DEF Owned
        <3>3. CASE d = <<>>
            <4>1. fan[c][s].diffs # <<Diff("locked", sess[s].track)>>
                BY <3>1, <3>3
            <4>2. Told(p)
                BY <2>6, <4>1 DEF AloneInv, WillBeTold
            <4>3. told'[p] = told[p]
                BY <2>4, <3>3, TellOne
            <4> QED BY <2>6, <3>1, <4>2, <4>3, ConstantsAssumption DEF Told
        <3>4. CASE d = <<Diff("locked", sess[s].track)>>
            <4>1. d # <<>>
                BY <3>4
            <4>2. told'[p] = LastTold(told[p], d)
                BY <2>4, <3>2, <4>1, TellOne
            <4> QED BY <3>1, <3>4, <4>2, LockedIsTold
        <3> QED BY <1>6, <3>1, <3>3, <3>4, MergeSound
    <2>7. \A p \in Phones : current[p] = s => WillBeTold(p)'
        BY <1>1, <2>6 DEF WillBeTold, Told
    <2> QED BY <1>1, <1>done, <2>1, <2>2, <2>4, <2>5, <2>7, CellAlone
<1> QED BY <1>2, <1>3, <1>4, <1>5, <1>6

LEMMA AloneEndStep ==
    ASSUME TypeInv, TypeInv', AloneInv, OneCall, NEW c \in Calls,
           FanNext(c) \/ FanThenSend(c) \/ FanReturn(c)
    PROVE  AloneInv'
<1>1. /\ UNCHANGED <<registered, current>> /\ GoesOn(c) /\ call[c].pc = "fan" /\ FanOver(c)
    BY FanGoesOn DEF FanNext, FanThenSend, FanReturn, FanOver, At
<1>2. AtHome(c)'
    BY <1>1, AtHomeKept
<1>3. UNCHANGED <<sess, told>>
    BY DEF FanNext, FanThenSend, FanReturn
<1>4. \A p \in Phones : Told(p)'
    BY <1>1, <1>3, ToldNow, ToldKept
<1>5. FanOut(c, registered) \/ call'[c].pc # "fan"
    <2>0. call \in [Calls -> CallType] /\ Resume(c) \in {"reset", "reEvaluate"}
        BY DEF TypeInv, Resume
    <2>1. CASE \/ call' = [call EXCEPT ![c].pc = Resume(c), ![c].track = NoTrack, ![c].ctx = {}]
               \/ call' = [call EXCEPT ![c].pc = Resume(c), ![c].track = NoTrack,
                                       ![c].ctx = {}, ![c].event = "none"]
        BY <2>0, <2>1 DEF CallType
    <2>2. CASE Finish(c)
        BY <2>2, IdleProper DEF Finish, TypeInv
    <2>3. CASE \E track : call' = [call EXCEPT ![c].pc = "sending", ![c].track = track]
        BY <2>0, <2>3 DEF CallType
    <2> QED BY <2>1, <2>2, <2>3 DEF FanNext, FanThenSend, FanReturn, SendIfApproved
<1> QED BY <1>1, <1>2, <1>4, <1>5, CallAlone, FanAlone

LEMMA AloneInit == Init => RegInv /\ AloneInv
<1> SUFFICES ASSUME Init PROVE RegInv /\ AloneInv
    OBVIOUS
<1>1. RegInv
    BY IdleProper DEF Init, RegInv, OpeningOwn, StoppingCurrent, Apart
<1>2. \A c \in Calls : call[c].pc = "idle" /\ \A s \in Sessions : fan[c][s].pc = "none"
    BY IdleProper DEF Init
<1>3. \A c \in Calls : AtHome(c) /\ Reaches(c) /\ \A s \in Sessions : UpToDate(c, s)
    BY <1>2 DEF AtHome, Reaches, UpToDate, Streaming
<1>4. \A p \in Phones : WillBeTold(p)
    BY DEF Init, WillBeTold, Told
<1> QED BY <1>1, <1>3, <1>4 DEF AloneInv

LEMMA AloneStep ==
    OneCall /\ TypeInv /\ RegInv /\ AloneInv /\ [Next]_vars => RegInv' /\ AloneInv'
<1> SUFFICES ASSUME OneCall, TypeInv, RegInv, AloneInv, [Next]_vars
             PROVE  RegInv' /\ AloneInv'
    OBVIOUS
<1>1. TypeInv'
    BY TypeStep
<1>2. RegInv'
    BY RegStep DEF StreamsAlone
<1>3. ASSUME NEW s \in Sessions, WindowElapses(s) PROVE AloneInv'
    <2>1. \A u \in Sessions : sess'[u].track = sess[u].track /\ sess'[u].state = sess[u].state
        BY <1>3 DEF WindowElapses, TypeInv, StoredOK, SessType
    <2>2. UNCHANGED <<queue, current, registered, told, call, fan>>
        BY <1>3 DEF WindowElapses, sockets, registry
    <2>3. \A c \in Calls : AtHome(c)' /\ Reaches(c)'
        BY <2>2 DEF AloneInv, AtHome, Reaches
    <2>4. \A c \in Calls, u \in Sessions : UpToDate(c, u)'
        BY <2>1, <2>2 DEF AloneInv, UpToDate
    <2>5. ASSUME NEW p \in Phones PROVE WillBeTold(p)'
        <3>1. CASE current[p] = NoSession
            BY <2>2, <3>1 DEF WillBeTold, Told
        <3>2. CASE current[p] # NoSession
            <4>1. current[p] \in Sessions
                BY <3>2 DEF TypeInv, StoredOK
            <4> QED BY <2>1, <2>2, <4>1 DEF AloneInv, WillBeTold, Told
        <3> QED BY <3>1, <3>2
    <2> QED BY <2>3, <2>4, <2>5 DEF AloneInv
<1>4. ASSUME UNCHANGED vars PROVE AloneInv'
    <2>1. UNCHANGED <<sess, queue, current, registered, told, call, fan>>
        BY <1>4 DEF vars, sockets, registry
    <2> QED BY <2>1 DEF AloneInv, AtHome, Reaches, UpToDate, WillBeTold, Told
<1>5. ASSUME NEW c \in Calls, FanStep(c) PROVE AloneInv'
    BY <1>1, <1>5, AloneCellStep, AloneEndStep DEF FanStep
<1>6. ASSUME NEW c \in Calls, PhoneStep(c) PROVE AloneInv'
    BY <1>1, <1>6, AlonePhoneStep
<1>7. ASSUME NEW c \in Calls, QueueStep(c) PROVE AloneInv'
    BY <1>1, <1>7, AloneQueueStep
<1>8. AloneInv'
    BY <1>3, <1>4, <1>5, <1>6, <1>7 DEF Next
<1> QED BY <1>2, <1>8

\* With one handler at a time a merge finds the candidate it looked up, so it moves
\* no lock and says what it drops.
LEMMA MergeIsHarmless ==
    ASSUME TypeInv, AloneInv, NEW c \in Calls, NEW s \in Sessions, FanMerge(c, s)
    PROVE  LockStays /\ \A p \in Phones : FreesGuard(p)
<1>. \A u \in Sessions : u # s => sess'[u] = sess[u]
    BY DEF FanMerge, TypeInv, StoredOK
<1>1. PICK d : /\ guard' = Unguarded(Only(s, d))
               /\ \/ sess'[s].track = sess[s].track
                  \/ /\ sess'[s] = Fresh
                     /\ Contains(d, Diff("released", sess[s].track)) /\ d # <<>>
    BY MergeSound
<1>2. LockStays
    BY <1>1, FreshOK DEF LockStays
<1>3. ASSUME NEW p \in Phones, current[p] # NoSession, guard[p] # NoTrack,
             sess[current[p]].track = guard[p], sess'[current[p]].track # guard[p]
      PROVE  guard'[p] = NoTrack
    <2>1. current[p] = s
        BY <1>3 DEF TypeInv, StoredOK
    <2>2. Contains(d, Diff("released", guard[p])) /\ d # <<>>
        BY <1>1, <1>3, <2>1
    <2>3. PICK out : out = Only(s, d)
        OBVIOUS
    <2>4. out[s] = d
        BY <2>3 DEF Only
    <2> QED BY <1>1, <2>1, <2>2, <2>3, <2>4, UnguardedFrees
<1>4. \A p \in Phones : FreesGuard(p)
    BY <1>3 DEF FreesGuard
<1> QED BY <1>2, <1>4

LEMMA AloneAlways == OneCall => (Spec => [](TypeInv /\ RegInv /\ AloneInv))
<1>1. ASSUME OneCall PROVE Spec => [](TypeInv /\ RegInv /\ AloneInv)
    BY <1>1, AloneInit, AloneStep, MatchInvariant, PTL DEF Spec
<1> QED BY <1>1

\* A lock ends in a release: with one handler at a time no step carries a locked
\* session to another track, whatever the audio, the queue and the DJ bring
\* (match-session.js:9-19).
THEOREM LockKeepsTrackAlone == OneCall => (Spec => LockKeepsTrack)
<1>1. TypeInv /\ AloneInv /\ [Next]_vars =>
        [\A s \in Sessions :
            sess[s].state = "locked" /\ sess'[s].state = "locked"
               => sess'[s].track = sess[s].track]_vars
    BY SessionMoves, MergeIsHarmless DEF LockStays, KeepsCandidate
<1>2. ASSUME OneCall PROVE Spec => LockKeepsTrack
    BY <1>1, <1>2, AloneAlways, PTL DEF Spec, LockKeepsTrack
<1> QED BY <1>2

\* With one handler at a time, whatever releases a candidate lifts the guard against
\* sending its track again, so the track can be sent once more (socket/audio.js:146-158).
THEOREM ReleaseFreesGuardAlone == OneCall => (Spec => ReleaseFreesGuard)
<1>1. TypeInv /\ AloneInv /\ [Next]_vars =>
        [\A p \in Phones :
          LET s == current[p] IN
          current'[p] = s /\ s # NoSession /\ guard[p] # NoTrack
             => ~ (sess[s].track = guard[p] /\ sess'[s].track # guard[p]
                      /\ guard'[p] = guard[p])]_vars
    BY ReleaseMoves, MergeIsHarmless DEF MergeStep, FreesGuard
<1>2. ASSUME OneCall PROVE Spec => ReleaseFreesGuard
    BY <1>1, <1>2, AloneAlways, PTL DEF Spec, ReleaseFreesGuard
<1> QED BY <1>2

\* With one handler at a time a phone whose stream is locked has been told so when
\* the handler is over: the news survives the awaits of applyQueueEvent.
THEOREM LocksAreToldAlone == OneCall => (Spec => []LocksAreTold)
<1>1. TypeInv /\ AloneInv => LocksAreTold
    <2> SUFFICES ASSUME TypeInv, AloneInv, Quiet, NEW p \in Phones, current[p] # NoSession
                 PROVE  Told(p)
        BY DEF LocksAreTold, Told
    <2>1. \A c \in Calls, s \in Sessions : fan[c][s].pc = "none"
        BY DEF TypeInv, FanAway, Quiet, At
    <2>2. current[p] \in Sessions
        BY DEF TypeInv, StoredOK
    <2> QED BY <2>1, <2>2 DEF AloneInv, WillBeTold
<1>2. ASSUME OneCall PROVE Spec => []LocksAreTold
    BY <1>1, <1>2, AloneAlways, PTL
<1> QED BY <1>2

\* With one handler at a time, a queue event that has been through every session
\* leaves no lock on a track that has neither a song up next nor one playing.
THEOREM LocksFollowQueueAlone == OneCall => (Spec => LocksFollowQueue)
<1>1. TypeInv /\ AloneInv /\ [Next]_vars =>
        [\A c \in Calls : FanReturn(c) =>
           \A s \in registered : sess[s].state = "locked" => queue[sess[s].track] # {}]_vars
    <2> SUFFICES ASSUME TypeInv, AloneInv, NEW c \in Calls, FanReturn(c),
                        NEW s \in registered, sess[s].state = "locked"
                 PROVE  queue[sess[s].track] # {}
        OBVIOUS
    <2>1. s \in Sessions /\ call[c].pc = "fan" /\ fan[c][s].pc \in {"none", "done"}
        BY DEF TypeInv, StoredOK, FanReturn, FanOver, At
    <2>2. fan[c][s].pc = "done"
        BY <2>1 DEF AloneInv, Reaches
    <2> QED BY <2>1, <2>2 DEF AloneInv, UpToDate
<1>2. ASSUME OneCall PROVE Spec => LocksFollowQueue
    BY <1>1, <1>2, AloneAlways, PTL DEF Spec, LocksFollowQueue
<1> QED BY <1>2

=============================================================================
