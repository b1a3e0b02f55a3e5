--------------------------- MODULE MCMatchSession ---------------------------
(* Instances of MatchSession for TLC. *)
EXTENDS MatchSession, TLC

CONSTANTS audio, audio2, dj

\* One handler after another; a chunk may arrive while a stream is opening.
OneAtATime == audio :> OpNames @@ audio2 :> {"chunk"}

\* A phone streams while a DJ works on the queue.
StreamAndDJ == audio :> {"chunk"} @@ dj :> {"approve", "sendNow"}

\* One chunk after another.
OneStream == audio :> {"chunk"}

None == {}

Symmetric == Permutations(Tracks) \cup Permutations(Sessions) \cup Permutations(Phones)

=============================================================================
