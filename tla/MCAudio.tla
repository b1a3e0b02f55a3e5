------------------------------ MODULE MCAudio ------------------------------
(***************************************************************************)
(* The audio components, which share no state, checked in one run: the     *)
(* first state picks the one that works, the others stay where they are.   *)
(***************************************************************************)
EXTENDS MCMatchSession, Uploads, Matcher, Fingerprinter, Scoring

VARIABLE part

AudioInit ==
    /\ part \in {"stream", "uploads", "matcher", "print", "score"}
    /\ Init
    /\ UploadsInit
    /\ MatcherInit
    /\ PrintInit
    /\ part # "print" => recording = Phone
    /\ ScoreInit
    /\ part # "score" => library = [t \in Titles |-> {}] /\ live

AudioNext ==
    /\ \/ part = "stream" /\ Next /\ UNCHANGED <<uploadVars, matcherVars, printVars, scoreVars>>
       \/ part = "uploads" /\ UploadsNext /\ UNCHANGED <<vars, matcherVars, printVars, scoreVars>>
       \/ part = "matcher" /\ MatcherNext /\ UNCHANGED <<vars, uploadVars, printVars, scoreVars>>
       \/ part = "print" /\ PrintNext /\ UNCHANGED <<vars, uploadVars, matcherVars, scoreVars>>
       \/ part = "score" /\ ScoreNext /\ UNCHANGED <<vars, uploadVars, matcherVars, printVars>>
    /\ UNCHANGED part

AudioSpec == AudioInit /\ [][AudioNext]_<<part, vars, uploadVars, matcherVars, printVars, scoreVars>>

\* The type invariants of the components.
AudioTypesOK == TypeOK /\ TrackTypeOK /\ MatcherTypeOK /\ PrintTypeOK /\ ScoreTypeOK

=============================================================================
