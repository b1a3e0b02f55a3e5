------------------------------ MODULE Uploads ------------------------------
(***************************************************************************)
(* The reference tracks of the events (audio-tracks.service.js): uploads   *)
(* and deletions of a track and its fingerprint row, which are two         *)
(* documents written without a transaction.                                *)
(*                                                                         *)
(* A track is its audio, a fingerprint whether it holds the hashes.  What  *)
(* the title says, and how the audio becomes hashes, is left out.          *)
(***************************************************************************)
EXTENDS Naturals, Sequences

CONSTANTS
    Events,
    Audios,     \* the sha256 of the files that are uploaded
    Editors,    \* requests of DJs in flight together
    MaxTracks,  \* bound: tracks ever created
    Nothing

ASSUME UploadsAssumption ==
    /\ MaxTracks \in Nat
    /\ Nothing \notin Events \cup Audios

VARIABLES
    made,     \* every track ever created, in the order of their ids
    tracks,   \* audio_tracks: by id, whether the counts are in
    prints,   \* audio_fingerprints: by trackId, whether the hashes are in
    edit,     \* what each editor is doing
    excused   \* history: tracks whose upload or deletion went wrong

uploadVars == <<made, tracks, prints, edit, excused>>

NoEdit == [pc |-> "idle", event |-> Nothing, audio |-> Nothing, track |-> 0, todo |-> {}]

Put(f, i, v) == [j \in DOMAIN f \cup {i} |-> IF j = i THEN v ELSE f[j]]
Without(f, i) == [j \in DOMAIN f \ {i} |-> f[j]]

-----------------------------------------------------------------------------
(* createTrack.                                                            *)

Duplicates(e, a) == {i \in DOMAIN tracks : made[i] = <<e, a>>}

\* The same file is not there yet.
UploadStarts(h, e, a) ==
    /\ edit[h] = NoEdit
    /\ Duplicates(e, a) = {}
    /\ edit' = [edit EXCEPT ![h] = [NoEdit EXCEPT !.pc = "checked", !.event = e, !.audio = a]]
    /\ UNCHANGED <<made, tracks, prints, excused>>

\* The unique index on eventId and audioSha256.
UniqueAudio(e, a) == Duplicates(e, a) = {}

TrackIsMade(h) ==
    /\ edit[h].pc = "checked"
    /\ Len(made) < MaxTracks
    /\ IF UniqueAudio(edit[h].event, edit[h].audio)
       THEN /\ made' = Append(made, <<edit[h].event, edit[h].audio>>)
            /\ tracks' = Put(tracks, Len(made'), FALSE)
            /\ edit' = [edit EXCEPT ![h].pc = "made", ![h].track = Len(made')]
       ELSE /\ edit' = [edit EXCEPT ![h] = NoEdit]
            /\ UNCHANGED <<made, tracks>>
    /\ UNCHANGED <<prints, excused>>

PrintIsMade(h) ==
    /\ edit[h].pc = "made"
    /\ prints' = Put(prints, edit[h].track, FALSE)
    /\ edit' = [edit EXCEPT ![h].pc = "decodes"]
    /\ UNCHANGED <<made, tracks, excused>>

\* The audio is read to its end; two updates are sent together.
Decoded(h) ==
    /\ edit[h].pc = "decodes"
    /\ edit' = [edit EXCEPT ![h].pc = "saves", ![h].todo = {"track", "print"}]
    /\ UNCHANGED <<made, tracks, prints, excused>>

\* A bad header, a decoder error or a database error: what is there stays.
UploadFails(h) ==
    /\ edit[h].pc \in {"checked", "made", "decodes"}
    /\ edit' = [edit EXCEPT ![h] = NoEdit]
    /\ excused' = excused \cup ({edit[h].track} \ {0})
    /\ UNCHANGED <<made, tracks, prints>>

\* One of the writes sent together is done, or fails: the others go on.
WriteEnds(h, w) ==
    edit' = [edit EXCEPT ![h] = IF edit[h].todo = {w} THEN NoEdit
                                ELSE [edit[h] EXCEPT !.todo = @ \ {w}]]

\* updateOne changes the document that is there, and creates none.
Updated(f, i) == IF i \in DOMAIN f THEN Put(f, i, TRUE) ELSE f

UploadSaves(h, w) ==
    LET i == edit[h].track
    IN  /\ edit[h].pc = "saves"
        /\ w \in edit[h].todo
        /\ tracks' = IF w = "track" THEN Updated(tracks, i) ELSE tracks
        /\ prints' = IF w = "print" THEN Updated(prints, i) ELSE prints
        /\ WriteEnds(h, w)
        /\ UNCHANGED <<made, excused>>

WriteFails(h, w) ==
    /\ edit[h].pc \in {"saves", "deletes"}
    /\ w \in edit[h].todo
    /\ WriteEnds(h, w)
    /\ excused' = excused \cup {edit[h].track}
    /\ UNCHANGED <<made, tracks, prints>>

-----------------------------------------------------------------------------
(* deleteTrack.                                                            *)

ErasedTrackOnly(i) == {"track"}                                    \* mutant
Erased(i) == {"track", "print"}

DeleteStarts(h, i) ==
    /\ edit[h] = NoEdit
    /\ i \in DOMAIN tracks
    /\ edit' = [edit EXCEPT ![h] = [NoEdit EXCEPT !.pc = "deletes", !.track = i, !.todo = Erased(i)]]
    /\ UNCHANGED <<made, tracks, prints, excused>>

\* The upload of the track has not reached its fingerprint row.
UploadBehind(i) == \E h \in Editors : edit[h].pc = "made" /\ edit[h].track = i

Delete(h, w) ==
    LET i == edit[h].track
    IN  /\ edit[h].pc = "deletes"
        /\ w \in edit[h].todo
        /\ tracks' = IF w = "track" THEN Without(tracks, i) ELSE tracks
        /\ prints' = IF w = "print" THEN Without(prints, i) ELSE prints
        /\ excused' = IF w = "print" /\ UploadBehind(i) THEN excused \cup {i} ELSE excused
        /\ WriteEnds(h, w)
        /\ UNCHANGED <<made>>

-----------------------------------------------------------------------------

UploadsInit ==
    /\ made = << >>
    /\ tracks = << >>
    /\ prints = << >>
    /\ edit = [h \in Editors |-> NoEdit]
    /\ excused = {}

UploadsNext ==
    \E h \in Editors :
        \/ \E e \in Events, a \in Audios : UploadStarts(h, e, a)
        \/ TrackIsMade(h) \/ PrintIsMade(h) \/ Decoded(h) \/ UploadFails(h)
        \/ \E i \in DOMAIN tracks : DeleteStarts(h, i)
        \/ \E w \in {"track", "print"} : UploadSaves(h, w) \/ Delete(h, w) \/ WriteFails(h, w)

UploadsSpec == UploadsInit /\ [][UploadsNext]_uploadVars

-----------------------------------------------------------------------------

\* Types.  An event has an audio once, whoever uploads it at the same time.
TrackTypeOK ==
    /\ made \in Seq(Events \X Audios)
    /\ DOMAIN tracks \cup DOMAIN prints \subseteq DOMAIN made
    /\ \A i, j \in DOMAIN tracks : made[i] = made[j] => i = j
    /\ \A h \in Editors : edit[h].pc \in {"idle", "checked", "made", "decodes", "saves", "deletes"}
    /\ excused \subseteq DOMAIN made

\* A fingerprint row without its track, which the matcher would announce as an
\* unknown track, is left only by a call that failed, or by a deletion that
\* overtook the upload; a deletion under way may still have it.
StrayNeedsRace ==
    \A i \in DOMAIN prints \ DOMAIN tracks :
        \/ i \in excused
        \/ \E h \in Editors : edit[h].pc = "deletes" /\ edit[h].track = i /\ "print" \in edit[h].todo

=============================================================================
