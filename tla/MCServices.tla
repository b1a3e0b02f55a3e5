----------------------------- MODULE MCServices -----------------------------
(***************************************************************************)
(* Four components that share no state, checked in one run: the first     *)
(* state picks the one that works, the others stay where they are.         *)
(***************************************************************************)
EXTENDS TextKeys, Lookups, Friends, Accounts, TLC

VARIABLE part

Rest(others) == UNCHANGED part /\ UNCHANGED others

Init ==
    /\ part \in {"text", "lookups", "friends", "accounts"}
    /\ TextInit
    /\ LookupInit
    /\ FriendsInit
    /\ AccountsInit

Next ==
    \/ part = "text" /\ TextNext /\ Rest(<<lookupVars, friendVars, accountVars>>)
    \/ part = "lookups" /\ LookupNext /\ Rest(<<textVars, friendVars, accountVars>>)
    \/ part = "friends" /\ FriendsNext /\ Rest(<<textVars, lookupVars, accountVars>>)
    \/ part = "accounts" /\ AccountsNext /\ Rest(<<textVars, lookupVars, friendVars>>)

Spec ==
    /\ Init /\ [][Next]_<<part, textVars, lookupVars, friendVars, accountVars>>
    /\ LookupFairness

\* The type invariants of the components.
ServiceTypesOK == TextTypeOK /\ LookupTypeOK /\ FriendsTypeOK /\ AccountTypeOK

=============================================================================
