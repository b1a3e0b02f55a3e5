----------------------------- MODULE MCAudience -----------------------------
(* Instances of Audience for TLC. *)
EXTENDS Audience, TLC

CONSTANTS ann, bob, alice, r1

\* One attendee does everything, another comes for the nickname.
AnnAndBob == ann :> OpNames @@ bob :> {"join"}

OnlyAnn == ann :> OpNames

OneName == {alice}

Both == BOOLEAN
Plain == {TRUE}

AllModerations == {"kick", "ban", "cooldown", "clear"}
AnnHides == ann :> {"none", "hide"} @@ bob :> {"none"}
AnnMayHide == ann :> {"none", "hide"}
TheFirst == {r1}
None == {}

EditsAlone == {"restJoin", "mask", "interact"}
AllAlone == OpNames
Atomic == {"restJoin", "interact"}

Symmetric == Permutations(Users)

=============================================================================
