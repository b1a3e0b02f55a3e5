---------------------------- MODULE SongLifecycle ----------------------------
(***************************************************************************)
(* What the queue promises about each song: the transitions of             *)
(* SONG_STATES in song-state-machine.js, one step at a time, with a song   *)
(* on air only when it has a fingerprint match and no other is.            *)
(***************************************************************************)
CONSTANT Songs
VARIABLES status, matched

vars == <<status, matched>>

Init ==
    /\ status = [s \in Songs |-> "ABSENT"]
    /\ matched = [s \in Songs |-> FALSE]

Move(s, from, to) ==
    /\ status[s] \in from
    /\ status' = [status EXCEPT ![s] = to]

Suggest(s) ==
    /\ Move(s, {"ABSENT"}, "PENDING")
    /\ \E found \in BOOLEAN : matched' = [matched EXCEPT ![s] = found]

Match(s) ==
    /\ status[s] # "ABSENT"
    /\ matched' = [matched EXCEPT ![s] = TRUE]
    /\ UNCHANGED status

Approve(s) == Move(s, {"PENDING"}, "APPROVED") /\ UNCHANGED matched

Reject(s) == Move(s, {"PENDING", "APPROVED", "PLAYING"}, "REJECTED")
             /\ UNCHANGED matched

Play(s) ==
    /\ matched[s]
    /\ \A t \in Songs : status[t] # "PLAYING"
    /\ Move(s, {"APPROVED"}, "PLAYING")
    /\ UNCHANGED matched

Stop(s) ==
    /\ \E to \in {"PLAYED", "SKIPPED"} : Move(s, {"PLAYING"}, to)
    /\ UNCHANGED matched

Next ==
    \E s \in Songs :
        Suggest(s) \/ Match(s) \/ Approve(s) \/ Reject(s) \/ Play(s) \/ Stop(s)

Spec == Init /\ [][Next]_vars

=============================================================================
