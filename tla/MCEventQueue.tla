---------------------------- MODULE MCEventQueue ----------------------------
(* Instances of EventQueue for TLC. *)
EXTENDS EventQueue, TLC

CONSTANTS dj, dj2, guest, anyone

AllOn == [voting |-> TRUE, downvotes |-> TRUE, premiumVotes |-> TRUE, ladder |-> 3]

\* One vote is enough to climb the approval ladder.
ShortLadder == {[AllOn EXCEPT !.ladder = 1]}

TwoVotes == [AllOn EXCEPT !.ladder = 2]

\* The owner closes and reopens the vote.
OpenOrClosed == {TwoVotes, [TwoVotes EXCEPT !.voting = FALSE]}

\* The owner drops premium weights and downvotes, and restores them.
FullOrPlain == {TwoVotes, [TwoVotes EXCEPT !.premiumVotes = FALSE, !.downvotes = FALSE]}

Moderation == DJOps \cup {"playNext", "bind"}
Crowd == {"suggest", "vote", "unvote", "join"}

\* One DJ device and one attendee device at work at the same time.
DJAndGuest == dj :> Moderation @@ guest :> Crowd

\* One request at a time, of any kind.
OneAtATime == anyone :> OpNames

\* One request at a time, and what bears on votes only.
VotesOnly == anyone :> {"suggest", "approve", "vote", "unvote", "join", "leave",
                        "ban", "settings"}

\* Two staff devices, or one and the audio pipeline's sendMatchedTrackNow.
TwoDJs == dj :> Moderation @@ dj2 :> (Moderation \cup {"suggest", "join"})

Symmetric == Permutations(Songs) \cup Permutations(Attendees)

=============================================================================
