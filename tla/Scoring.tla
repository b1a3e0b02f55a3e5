------------------------------ MODULE Scoring ------------------------------
(***************************************************************************)
(* Who is playing: RamMatcher.match and the confidence gates over the      *)
(* window of hashes a session has heard (match-session.js), and over the   *)
(* hashes of one uploaded sample (audio-tracks.service.js).                *)
(*                                                                         *)
(* The library is what the matcher has indexed.  Hashes are a few marks,   *)
(* and the ratios of the gates are those of config.js: 1/2 and 3/2.        *)
(***************************************************************************)
EXTENDS Integers, Sequences, FiniteSets, FiniteSetsExt, SequencesExt

CONSTANTS
    Titles,         \* audio tracks
    Marks,          \* bound: the hashes there are
    Times,          \* bound: the windows of a track, and of what is heard
    Common,         \* bound: the marks that come at any time; others come at the first
    MinScore,       \* MIN_MATCH_SCORE, matcher.minScore
    StrongFactor,   \* how many times MinScore needs no concentration
    MaxAccumulated, \* MAX_ACCUMULATED_HASHES
    MaxRowsOf,      \* bound: the hashes of a track
    MaxChunk,       \* bound: the hashes of a chunk; the window slides row by row
    MaxSample       \* bound: the hashes of a sample, repeated ones included

ASSUME ScoringAssumption ==
    /\ Times \subseteq Nat /\ Times # {} /\ Common \subseteq Marks
    /\ {MinScore, StrongFactor, MaxAccumulated} \subseteq Nat \ {0}
    /\ {MaxRowsOf, MaxChunk, MaxSample} \subseteq Nat

VARIABLES
    library, \* the rows of each track in the index
    live,    \* a phone is listening; otherwise samples are uploaded
    window,  \* accumulatedHashes, or the rows of the sample
    offered  \* the tracks the answer names

scoreVars == <<library, live, window, offered>>

Rows == {row \in [hash : Marks, time : Times] : row.hash \in Common \/ row.time = 0}
OffsetRange == {a - b : a, b \in Times}

-----------------------------------------------------------------------------

\* Where in a track a row may come from: the offsets its hash gives, each once.
Offsets(t, row) == {src.time - row.time : src \in {x \in library[t] : x.hash = row.hash}}

\* A row counts once for the track, however often its hash occurs in it,
\* and once for each offset.
HitsPerEntry(t, rows) == UNION {{i} \X Offsets(t, rows[i]) : i \in DOMAIN rows}  \* mutant
Hits(t, rows) == {i \in DOMAIN rows : Offsets(t, rows[i]) # {}}

\* RamMatcher.match: the score of a track is its count at the best offset.
Scored(t, rows) ==
    [track |-> t,
     score |-> Max({Cardinality({i \in DOMAIN rows : o \in Offsets(t, rows[i])}) : o \in OffsetRange}),
     hits |-> Cardinality(Hits(t, rows))]
Ranked(rows) == {m \in {Scored(t, rows) : t \in Titles} : m.score >= MinScore}

\* evaluateAbsoluteGates.
Passes(m) == 2 * m.score >= m.hits \/ m.score >= StrongFactor * MinScore

\* isConfidentWinner: the margin is over any candidate, passing the gates or not.
Winner(rows) ==
    LET ranked == Ranked(rows)
    IN  {m.track : m \in {x \in ranked :
            Passes(x) /\ \A y \in ranked \ {x} : 2 * x.score >= 3 * y.score}}

\* The REST answer leaves the choice to the DJ.
Surviving(rows) == {m.track : m \in {x \in Ranked(rows) : Passes(x)}}

\* normalizeHashRows.
Normalized(rows) ==
    FoldLeft(LAMBDA acc, row : IF row \in ToSet(acc) THEN acc ELSE Append(acc, row),
             << >>, rows)

-----------------------------------------------------------------------------

\* addChunk of a session that is not locked: the window slides.
Slid(rows) == SubSeq(rows, Max({1, Len(rows) - MaxAccumulated + 1}), Len(rows))

HearChunk(chunk) ==
    /\ live
    /\ window' = Slid(window \o chunk)
    /\ offered' = Winner(window')
    /\ UNCHANGED <<library, live>>

\* matchWav and matchHashes: every sample is asked about anew.
MatchSample(sample) ==
    /\ ~live /\ window = << >>
    /\ window' = Normalized(sample)
    /\ offered' = Surviving(window')
    /\ UNCHANGED <<library, live>>

Answered ==
    /\ ~live /\ window # << >>
    /\ window' = << >> /\ offered' = {}
    /\ UNCHANGED <<library, live>>

ScoreInit ==
    /\ library \in [Titles -> {rows \in SUBSET Rows : Cardinality(rows) <= MaxRowsOf}]
    /\ live \in BOOLEAN
    /\ window = << >>
    /\ offered = {}

ScoreNext ==
    \/ \E chunk \in SeqOf(Rows, MaxChunk) \ {<< >>} : HearChunk(chunk)
    \/ \E sample \in SeqOf(Rows, MaxSample) : MatchSample(sample)
    \/ Answered

ScoreSpec == ScoreInit /\ [][ScoreNext]_scoreVars

-----------------------------------------------------------------------------

\* Types.  A phone is given one track at most.
ScoreTypeOK ==
    /\ window \in Seq(Rows) /\ Len(window) <= Max({MaxAccumulated, MaxSample})
    /\ offered \subseteq Titles /\ (live => Cardinality(offered) <= 1)

\* The rows that one stretch of the track explains, and those it shares at all.
Explained(t, o) == {i \in DOMAIN window : [hash |-> window[i].hash, time |-> window[i].time + o]
                                           \in library[t]}
Touched(t) == {i \in DOMAIN window : \E row \in library[t] : row.hash = window[i].hash}
Explains(t) == Max({Cardinality(Explained(t, o)) : o \in OffsetRange})

Close(t, u) == Explains(u) >= MinScore /\ 3 * Explains(u) > 2 * Explains(t)

\* An answer is heard: some stretch of the track explains enough of the rows,
\* most of those it shares or very many, and on a phone no other track comes
\* close.  And what is heard is the answer: when one stretch explains every row,
\* the track is named, even if its hashes come back elsewhere in it, unless a
\* phone hears another that is close (RamMatcher.match and isConfidentWinner
\* against the occurrences themselves; "capping here never starves a real match").
AnswerIsHeard ==
    /\ \A t \in offered :
         /\ Explains(t) >= MinScore
         /\ 2 * Explains(t) >= Cardinality(Touched(t)) \/ Explains(t) >= StrongFactor * MinScore
         /\ live => \A u \in Titles \ {t} : ~Close(t, u)
    /\ \A t \in Titles :
         /\ Len(window) >= MinScore /\ Explains(t) = Len(window)
         /\ live => \A u \in Titles \ {t} : ~Close(t, u)
         => t \in offered

=============================================================================
