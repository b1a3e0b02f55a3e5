---------------------------- MODULE Audio_proofs ----------------------------
(***************************************************************************)
(* Proofs about the audio components of MCAudio: who is playing (Scoring)  *)
(* and the streaming fingerprinter (Fingerprinter), for any library, any   *)
(* recording and any sizes of windows and chunks, and their composition    *)
(* with the sessions, the uploads and the matcher's cache.                 *)
(***************************************************************************)
EXTENDS MCAudio, Tracks_proofs, MatchSession_proofs

-----------------------------------------------------------------------------
(* Who is playing.                                                         *)

\* The rows a stretch of the track explains.
RowsAt(t, rows, o) == {i \in DOMAIN rows : o \in Offsets(t, rows[i])}
Best(t, rows) == Max({Cardinality(RowsAt(t, rows, o)) : o \in OffsetRange})

LEMMA ScoredIs ==
    ASSUME NEW t, NEW rows
    PROVE  /\ Scored(t, rows).track = t /\ Scored(t, rows).score = Best(t, rows)
           /\ Scored(t, rows).hits = Cardinality(Hits(t, rows))
BY DEF Scored, Best, RowsAt

\* Sets of rows are no larger than the window.
LEMMA RowsCount ==
    ASSUME NEW rows \in Seq(Rows), NEW s \in SUBSET DOMAIN rows
    PROVE  Cardinality(s) \in 0 .. Len(rows) /\ IsFiniteSet(s)
<1>1. DOMAIN rows = 1 .. Len(rows) /\ Len(rows) \in Nat
    BY LenProperties
<1>2. IsFiniteSet(1 .. Len(rows)) /\ Cardinality(1 .. Len(rows)) = Len(rows)
    <2> DEFINE n == Len(rows)
    <2>1. 1 \in Int /\ n \in Int /\ n \in Nat
        BY <1>1
    <2> HIDE DEF n
    <2>2. IsFiniteSet(1 .. n) /\ Cardinality(1 .. n) = IF 1 > n THEN 0 ELSE n - 1 + 1
        BY <2>1, FS_Interval
    <2>3. IsFiniteSet(1 .. n) /\ Cardinality(1 .. n) = n
        BY <2>1, <2>2
    <2> QED BY <2>3 DEF n
<1>3. IsFiniteSet(s) /\ Cardinality(s) <= Len(rows)
    BY <1>1, <1>2, FS_Subset
<1> QED BY <1>1, <1>3, FS_CardinalityType

\* Numbers of the scores.
LEMMA ScoringNumbers ==
    /\ MinScore \in Nat /\ MinScore # 0 /\ StrongFactor \in Nat /\ StrongFactor # 0
    /\ MaxAccumulated \in Nat /\ MaxAccumulated # 0 /\ MaxSample \in Nat
    /\ OffsetRange # {} /\ OffsetRange \subseteq Int
<1>1. PICK a \in Times : a \in Nat
    BY ScoringAssumption
<1>2. a - a \in OffsetRange
    BY DEF OffsetRange
<1>3. \A a1, b1 \in Times : a1 - b1 \in Int
    BY ScoringAssumption
<1>4. OffsetRange \subseteq Int
    BY <1>3 DEF OffsetRange
<1> QED BY <1>2, <1>4, ScoringAssumption

LEMMA BestIsMost ==
    ASSUME NEW rows \in Seq(Rows), NEW t
    PROVE  /\ Best(t, rows) \in 0 .. Len(rows)
           /\ \E o \in OffsetRange : Best(t, rows) = Cardinality(RowsAt(t, rows, o))
<1> DEFINE n == Len(rows)
           s == {Cardinality(RowsAt(t, rows, o)) : o \in OffsetRange}
<1>1. n \in Nat
    BY LenProperties
<1>2. \A o \in OffsetRange : Cardinality(RowsAt(t, rows, o)) \in 0 .. n
    BY RowsCount DEF RowsAt
<1>3. s \in SUBSET (0 .. n) /\ s # {}
    BY <1>2, ScoringNumbers
<1>4. Max(s) \in s
    <2> HIDE DEF s, n
    <2> QED BY <1>1, <1>3, MaxOfRange
<1>5. Best(t, rows) \in s
    BY <1>4 DEF Best
<1> QED BY <1>3, <1>5

\* A track is ranked when its score reaches the least one.
LEMMA RankedIs ==
    ASSUME NEW rows, NEW m
    PROVE  m \in Ranked(rows) <=> \E t \in Titles : m = Scored(t, rows) /\ Best(t, rows) >= MinScore
BY ScoredIs DEF Ranked

LEMMA TitleRanked ==
    ASSUME NEW rows, NEW t \in Titles
    PROVE  Scored(t, rows) \in Ranked(rows) <=> Best(t, rows) >= MinScore
<1>1. ASSUME NEW u \in Titles, Scored(t, rows) = Scored(u, rows) PROVE u = t
    <2>1. Scored(t, rows).track = t /\ Scored(u, rows).track = u
        BY ScoredIs
    <2> QED BY <1>1, <2>1
<1> QED BY <1>1, RankedIs

\* Nothing heard, nothing found.
LEMMA SilenceOffersNothing == Winner(<< >>) = {} /\ Surviving(<< >>) = {}
<1>1. << >> \in Seq(Rows) /\ Len(<< >>) = 0
    OBVIOUS
<1>2. \A t \in Titles : Best(t, << >>) = 0
    <2> SUFFICES ASSUME NEW t \in Titles PROVE Best(t, << >>) = 0
        OBVIOUS
    <2>1. Best(t, << >>) \in 0 .. Len(<< >>)
        BY <1>1, BestIsMost
    <2> QED BY <1>1, <2>1
<1>3. Ranked(<< >>) = {}
    BY <1>2, RankedIs, ScoringNumbers
<1> QED BY <1>3 DEF Winner, Surviving

\* normalizeHashRows keeps rows, and no more than it was given.
LEMMA NormalizedRows ==
    ASSUME NEW rows \in Seq(Rows)
    PROVE  Normalized(rows) \in Seq(Rows) /\ Len(Normalized(rows)) <= Len(rows)
<1> DEFINE n == Len(rows)
           V == Seq(Rows)
           z == << >>
           With(acc, row) == IF row \in ToSet(acc) THEN acc ELSE Append(acc, row)
           Add(r) == [v \in V |-> With(v, r)]
           step == [k \in 1 .. n |-> Add(rows[k])]
           Body(D, f) == [s \in D |-> IF s = {} THEN << >>
                            ELSE IF rows[Max(s)] \in ToSet(f[s \ {Max(s)}]) THEN f[s \ {Max(s)}]
                                 ELSE Append(f[s \ {Max(s)}], rows[Max(s)])]
           c == CHOOSE f : f = Body(SUBSET (DOMAIN rows), f)
<1>1. Normalized(rows) = c[DOMAIN rows]
    BY DEF Normalized, FoldLeft, MapThenFoldSet
<1> HIDE DEF c, Body
<1>2. n \in Nat /\ DOMAIN rows = 1 .. n /\ \A k \in 1 .. n : rows[k] \in Rows
    OBVIOUS
<1> HIDE DEF n
<1>a. \A r \in Rows, v \in V : With(v, r) \in V /\ Len(v) \in Nat /\ Len(With(v, r)) <= Len(v) + 1
    OBVIOUS
<1>b. Body(SUBSET (DOMAIN rows), c) = [s \in SUBSET (DOMAIN rows) |-> IF s = {} THEN << >>
                            ELSE With(c[s \ {Max(s)}], rows[Max(s)])]
    BY DEF Body
<1>d. \A f : Body(SUBSET (DOMAIN rows), f) = [s \in SUBSET (DOMAIN rows) |-> IF s = {} THEN << >>
                            ELSE With(f[s \ {Max(s)}], rows[Max(s)])]
    BY DEF Body
<1> HIDE DEF With
<1>3. step \in Steps(n, V) /\ z \in V
    <2>1. \A r \in Rows : Add(r) \in [V -> V]
        BY <1>a
    <2>2. z \in V
        OBVIOUS
    <2> HIDE DEF Add, V
    <2> QED BY <1>2, <2>1, <2>2 DEF Steps
<1>4. \A k \in 1 .. n : \A v \in V : step[k][v] = With(v, rows[k])
    OBVIOUS
<1> HIDE DEF step, V, z
<1>5. PICK f : Unrolls(n, V, z, step, f)
    BY <1>2, <1>3, FoldUnrolls
<1> DEFINE D == SUBSET (1 .. n)
<1>6. /\ f \in [D -> V] /\ f[{}] = z
      /\ \A s \in D : s # {} =>
           /\ Max(s) \in 1 .. n /\ f[s \ {Max(s)}] \in V
           /\ f[s] = step[Max(s)][f[s \ {Max(s)}]]
    BY <1>5 DEF Unrolls
<1>7. D = SUBSET (DOMAIN rows) /\ {} \in D
    BY <1>2
<1> HIDE DEF D
<1>8. \A s \in D : s # {} => f[s] = With(f[s \ {Max(s)}], rows[Max(s)])
    BY <1>4, <1>6
<1>9. f = Body(D, f)
    <2>1. Body(D, f) = [s \in D |-> IF s = {} THEN << >> ELSE With(f[s \ {Max(s)}], rows[Max(s)])]
        BY <1>d, <1>7
    <2>2. f = [s \in D |-> f[s]]
        BY <1>6
    <2> QED BY <1>6, <1>8, <2>1, <2>2 DEF z
<1>10. c = Body(D, c)
    BY <1>7, <1>9 DEF c
<1>11. c[{}] = z /\ \A s \in D : s # {} => c[s] = With(c[s \ {Max(s)}], rows[Max(s)])
    BY <1>7, <1>10, <1>b DEF z
<1>12. Unfolds(n, V, z, step, c)
    BY <1>4, <1>6, <1>11 DEF Unfolds, D
<1>13. PICK g : Run(n, V, z, step, g) /\ g[n] = c[1 .. n]
    BY <1>2, <1>3, <1>12, FoldRuns
<1> DEFINE S == {k \in 0 .. n : Len(g[k]) <= k}
<1>14. 0 \in S
    BY <1>2, <1>13 DEF Run, z
<1>15. ASSUME NEW k \in 0 .. n - 1, k \in S PROVE k + 1 \in S
    <2>1. k + 1 \in 1 .. n /\ (k + 1) - 1 = k /\ k + 1 \in 0 .. n /\ k \in 0 .. n
        BY <1>2
    <2>2. g[k + 1] = With(g[k], rows[k + 1]) /\ g[k] \in V /\ rows[k + 1] \in Rows
        BY <1>2, <1>4, <1>13, <2>1 DEF Run
    <2>3. Len(g[k + 1]) \in Nat /\ Len(g[k]) \in Nat /\ Len(g[k + 1]) <= Len(g[k]) + 1
        BY <1>a, <2>2 DEF V
    <2> QED BY <1>15, <2>1, <2>3
<1>16. 0 .. n \subseteq S
    <2> HIDE DEF S
    <2> QED BY <1>2, <1>14, <1>15, Climb
<1>17. g[n] \in V /\ Len(g[n]) <= n
    BY <1>2, <1>13, <1>16 DEF Run
<1> QED BY <1>1, <1>2, <1>13, <1>17 DEF V, n

\* The window and the answer belong together: the answer is about the window as it is.
ScoreInv ==
    /\ library \in [Titles -> SUBSET Rows] /\ live \in BOOLEAN
    /\ window \in Seq(Rows) /\ (Len(window) <= MaxAccumulated \/ Len(window) <= MaxSample)
    /\ offered = IF live THEN Winner(window) ELSE Surviving(window)

\* A sample or a chunk is a sequence of rows.
LEMMA BoundedRows ==
    ASSUME NEW n \in Nat, NEW s \in SeqOf(Rows, n)
    PROVE  s \in Seq(Rows) /\ Len(s) \in Nat /\ Len(s) <= n
<1>1. PICK m \in 0 .. n : s \in [1 .. m -> Rows]
    BY DEF SeqOf
<1>2. m \in Nat /\ Len(s) = m
    BY <1>1
<1> QED BY <1>1, <1>2

\* The window slides: what is left of it is short enough.
LEMMA SlidRows ==
    ASSUME NEW rows \in Seq(Rows)
    PROVE  Slid(rows) \in Seq(Rows) /\ Len(Slid(rows)) <= MaxAccumulated
<1> DEFINE n == Len(rows)
           a == n - MaxAccumulated + 1
           from == Max({1, a})
<1>1. n \in Nat /\ MaxAccumulated \in Nat /\ MaxAccumulated # 0
    BY ScoringNumbers, LenProperties
<1>2. from = (IF a <= 1 THEN 1 ELSE a) /\ from \in Int
    <2>1. a \in Int
        BY <1>1
    <2> HIDE DEF a
    <2>2. \E x \in {1, a} : \A y \in {1, a} : x >= y
        BY <2>1
    <2>3. from \in {1, a} /\ \A y \in {1, a} : from >= y
        BY <2>2 DEF Max
    <2> HIDE DEF from
    <2> QED BY <2>1, <2>3
<1>3. from \in 1 .. n + 1 /\ n - from + 1 <= MaxAccumulated
    <2> HIDE DEF from
    <2> QED BY <1>1, <1>2
<1>4. Slid(rows) = SubSeq(rows, from, n)
    BY DEF Slid
<1> HIDE DEF from
<1>5. /\ SubSeq(rows, from, n) \in Seq(Rows)
      /\ Len(SubSeq(rows, from, n)) = IF from <= n THEN n - from + 1 ELSE 0
    <2>1. \A i \in from .. n : i \in DOMAIN rows
        BY <1>1, <1>3
    <2> QED BY <1>1, <1>3, <2>1, SubSeqProperties
<1> QED BY <1>1, <1>3, <1>4, <1>5

LEMMA ScoreInvInit == ScoreInit => ScoreInv
<1> SUFFICES ASSUME ScoreInit PROVE ScoreInv
    OBVIOUS
<1>1. library \in [Titles -> SUBSET Rows] /\ live \in BOOLEAN /\ window = << >> /\ offered = {}
    BY DEF ScoreInit
<1>2. window \in Seq(Rows) /\ Len(window) = 0
    BY <1>1
<1> QED BY <1>1, <1>2, SilenceOffersNothing, ScoringNumbers DEF ScoreInv

\* The answer of a library depends on the library and the window.
LEMMA SameLibrary ==
    ASSUME UNCHANGED library
    PROVE  Winner(window)' = Winner(window') /\ Surviving(window)' = Surviving(window')
BY DEF Winner, Surviving, Ranked, Scored, Offsets, Hits

LEMMA ScoreInvStep == ScoreInv /\ [ScoreNext]_scoreVars => ScoreInv'
<1> SUFFICES ASSUME ScoreInv, [ScoreNext]_scoreVars PROVE ScoreInv'
    OBVIOUS
<1>0. MaxAccumulated \in Nat /\ MaxSample \in Nat
    BY ScoringNumbers
<1>1. CASE UNCHANGED scoreVars
    BY <1>1, SameLibrary DEF scoreVars, ScoreInv
<1>2. ASSUME NEW chunk \in SeqOf(Rows, MaxChunk), HearChunk(chunk) PROVE ScoreInv'
    <2>1. window \o chunk \in Seq(Rows)
        <3>1. chunk \in Seq(Rows)
            BY BoundedRows, ScoringAssumption
        <3> QED BY <3>1, ConcatProperties DEF ScoreInv
    <2>2. window' \in Seq(Rows) /\ Len(window') <= MaxAccumulated
        BY <1>2, <2>1, SlidRows DEF HearChunk
    <2>3. live /\ UNCHANGED <<library, live>> /\ offered' = Winner(window)'
        BY <1>2, SameLibrary DEF HearChunk
    <2> QED BY <2>2, <2>3 DEF ScoreInv
<1>3. ASSUME NEW sample \in SeqOf(Rows, MaxSample), MatchSample(sample) PROVE ScoreInv'
    <2>1. sample \in Seq(Rows) /\ Len(sample) \in Nat /\ Len(sample) <= MaxSample
        BY <1>0, BoundedRows
    <2>2. window' \in Seq(Rows) /\ Len(window') <= MaxSample
        <3>1. window' = Normalized(sample)
            BY <1>3 DEF MatchSample
        <3>2. window' \in Seq(Rows) /\ Len(window') <= Len(sample)
            BY <2>1, <3>1, NormalizedRows
        <3>3. Len(window') \in Nat
            BY <3>2, LenProperties
        <3> QED BY <1>0, <2>1, <3>2, <3>3
    <2>3. ~live /\ UNCHANGED <<library, live>> /\ offered' = Surviving(window)'
        BY <1>3, SameLibrary DEF MatchSample
    <2> QED BY <2>2, <2>3 DEF ScoreInv
<1>4. CASE Answered
    <2>1. ~live /\ UNCHANGED <<library, live>> /\ window' = << >> /\ offered' = {}
        BY <1>4 DEF Answered
    <2>2. Surviving(window)' = {}
        BY <2>1, SameLibrary, SilenceOffersNothing
    <2>3. window' \in Seq(Rows) /\ Len(window') = 0
        BY <2>1
    <2> QED BY <1>0, <2>1, <2>2, <2>3 DEF ScoreInv
<1> QED BY <1>1, <1>2, <1>3, <1>4 DEF ScoreNext

\* The inductive invariant of the answer: it is always that of the window as it
\* is, chunk after chunk and sample after sample.
THEOREM ScoreInvariant == ScoreSpec => []ScoreInv
<1> QED BY ScoreInvInit, ScoreInvStep, PTL DEF ScoreSpec

\* Where the matcher's counts are those of the occurrences themselves.
LEMMA CountsAreHeard ==
    ASSUME ScoreInv, NEW t \in Titles
    PROVE  /\ Explains(t) = Best(t, window) /\ Explains(t) \in 0 .. Len(window)
           /\ Touched(t) = Hits(t, window)
           /\ Cardinality(Touched(t)) \in 0 .. Len(window)
<1>1. /\ \A i \in DOMAIN window : window[i] \in Rows
      /\ library[t] \subseteq Rows
    BY DEF ScoreInv
<1>2. ASSUME NEW row \in Rows
      PROVE  row = [hash |-> row.hash, time |-> row.time] /\ row.time \in Int
    <2>1. row \in [hash : Marks, time : Times]
        BY DEF Rows
    <2>2. row = [hash |-> row.hash, time |-> row.time] /\ row.time \in Times
        BY <2>1
    <2> QED BY <2>2, ScoringAssumption
<1>3. ASSUME NEW i \in DOMAIN window, NEW o \in OffsetRange
      PROVE  [hash |-> window[i].hash, time |-> window[i].time + o] \in library[t]
                <=> o \in Offsets(t, window[i])
    <2>1. window[i] \in Rows /\ window[i].time \in Int /\ o \in Int
        BY <1>1, <1>2, ScoringNumbers
    <2>2. ASSUME [hash |-> window[i].hash, time |-> window[i].time + o] \in library[t]
          PROVE  o \in Offsets(t, window[i])
        <3> DEFINE src == [hash |-> window[i].hash, time |-> window[i].time + o]
        <3>1. src \in library[t] /\ src.hash = window[i].hash /\ src.time - window[i].time = o
            BY <2>1, <2>2
        <3> QED BY <3>1 DEF Offsets
    <2>3. ASSUME o \in Offsets(t, window[i])
          PROVE  [hash |-> window[i].hash, time |-> window[i].time + o] \in library[t]
        <3>1. PICK src \in library[t] : src.hash = window[i].hash /\ src.time - window[i].time = o
            BY <2>3 DEF Offsets
        <3>2. src = [hash |-> src.hash, time |-> src.time] /\ src.time \in Int
            BY <1>1, <1>2
        <3>3. src.time = window[i].time + o
            BY <2>1, <3>1, <3>2
        <3> QED BY <3>1, <3>2, <3>3
    <2> QED BY <2>2, <2>3
<1>4. \A o \in OffsetRange : Explained(t, o) = RowsAt(t, window, o)
    BY <1>3 DEF Explained, RowsAt
<1>5. {Cardinality(Explained(t, o)) : o \in OffsetRange} = {Cardinality(RowsAt(t, window, o)) : o \in OffsetRange}
    BY <1>4
<1>6. Explains(t) = Best(t, window)
    BY <1>5 DEF Explains, Best
<1>7. Touched(t) = Hits(t, window)
    BY DEF Touched, Hits, Offsets
<1>8. window \in Seq(Rows) /\ Touched(t) \in SUBSET DOMAIN window
    BY DEF ScoreInv, Touched
<1> QED BY <1>6, <1>7, <1>8, BestIsMost, RowsCount

\* When a track is the winner, and when it survives the gates.
LEMMA WinnerIs ==
    ASSUME NEW rows, NEW t
    PROVE  /\ t \in Surviving(rows) <=>
                t \in Titles /\ Best(t, rows) >= MinScore /\ Passes(Scored(t, rows))
           /\ t \in Winner(rows) <=>
                /\ t \in Surviving(rows)
                /\ \A u \in Titles \ {t} :
                     Best(u, rows) >= MinScore => 2 * Best(t, rows) >= 3 * Best(u, rows)
<1>1. ASSUME NEW m \in Ranked(rows)
      PROVE  m.track \in Titles /\ m = Scored(m.track, rows) /\ Best(m.track, rows) >= MinScore
             /\ m.score = Best(m.track, rows)
    BY RankedIs, ScoredIs
<1>2. \A u \in Titles : Best(u, rows) >= MinScore => Scored(u, rows) \in Ranked(rows)
    BY TitleRanked
<1>3. Scored(t, rows).track = t /\ Scored(t, rows).score = Best(t, rows)
    BY ScoredIs
<1>4. t \in Surviving(rows) <=>
         t \in Titles /\ Best(t, rows) >= MinScore /\ Passes(Scored(t, rows))
    BY <1>1, <1>2, <1>3 DEF Surviving
<1>5. ASSUME t \in Winner(rows)
      PROVE  /\ t \in Surviving(rows)
             /\ \A u \in Titles \ {t} :
                  Best(u, rows) >= MinScore => 2 * Best(t, rows) >= 3 * Best(u, rows)
    <2>1. PICK m \in Ranked(rows) : /\ m.track = t /\ Passes(m)
                                    /\ \A y \in Ranked(rows) \ {m} : 2 * m.score >= 3 * y.score
        BY <1>5 DEF Winner
    <2>2. m = Scored(t, rows) /\ m.score = Best(t, rows)
        BY <1>1, <2>1
    <2>3. ASSUME NEW u \in Titles \ {t}, Best(u, rows) >= MinScore
          PROVE  2 * Best(t, rows) >= 3 * Best(u, rows)
        <3>1. Scored(u, rows) \in Ranked(rows) /\ Scored(u, rows) # m /\ Scored(u, rows).score = Best(u, rows)
            BY <1>2, <1>3, <2>2, <2>3, ScoredIs
        <3> QED BY <2>1, <2>2, <3>1
    <2> QED BY <2>1, <2>3 DEF Surviving
<1>6. ASSUME t \in Surviving(rows),
             \A u \in Titles \ {t} :
                Best(u, rows) >= MinScore => 2 * Best(t, rows) >= 3 * Best(u, rows)
      PROVE  t \in Winner(rows)
    <2> DEFINE m == Scored(t, rows)
    <2>1. m \in Ranked(rows) /\ Passes(m) /\ m.track = t /\ m.score = Best(t, rows)
        BY <1>2, <1>3, <1>4, <1>6
    <2>2. ASSUME NEW y \in Ranked(rows) \ {m} PROVE 2 * m.score >= 3 * y.score
        <3>1. y.track \in Titles /\ y = Scored(y.track, rows) /\ Best(y.track, rows) >= MinScore
              /\ y.score = Best(y.track, rows)
            BY <1>1
        <3>2. y.track # t
            BY <3>1
        <3> QED BY <1>6, <2>1, <3>1, <3>2
    <2> HIDE DEF m
    <2> QED BY <2>1, <2>2 DEF Winner
<1> QED BY <1>4, <1>5, <1>6

LEMMA InvAnswers == ScoreInv => AnswerIsHeard
<1> SUFFICES ASSUME ScoreInv PROVE AnswerIsHeard
    OBVIOUS
<1>1. \A t \in Titles :
         /\ Explains(t) = Best(t, window) /\ Explains(t) \in Nat
         /\ Touched(t) = Hits(t, window) /\ Explains(t) <= Len(window)
         /\ Cardinality(Touched(t)) \in Nat /\ Cardinality(Touched(t)) <= Len(window)
    BY CountsAreHeard
<1>2. Len(window) \in Nat
    BY LenProperties DEF ScoreInv
<1>3. \A t \in Titles : Passes(Scored(t, window)) <=>
         2 * Explains(t) >= Cardinality(Touched(t)) \/ Explains(t) >= StrongFactor * MinScore
    BY <1>1, ScoredIs DEF Passes
<1>4. \A t : t \in Surviving(window) =>
         /\ t \in Titles /\ Explains(t) >= MinScore
         /\ 2 * Explains(t) >= Cardinality(Touched(t)) \/ Explains(t) >= StrongFactor * MinScore
    BY <1>1, <1>3, WinnerIs
<1>5. ASSUME NEW t \in offered
      PROVE  /\ Explains(t) >= MinScore
             /\ 2 * Explains(t) >= Cardinality(Touched(t)) \/ Explains(t) >= StrongFactor * MinScore
             /\ live => \A u \in Titles \ {t} : ~Close(t, u)
    <2>1. t \in Surviving(window) /\ t \in Titles
        BY <1>4, WinnerIs DEF ScoreInv
    <2>2. ASSUME live, NEW u \in Titles \ {t} PROVE ~Close(t, u)
        <3>1. Best(u, window) >= MinScore => 2 * Best(t, window) >= 3 * Best(u, window)
            BY <2>2, WinnerIs DEF ScoreInv
        <3> QED BY <1>1, <2>1, <3>1 DEF Close
    <2> QED BY <1>4, <2>1, <2>2
<1>6. ASSUME NEW t \in Titles, Len(window) >= MinScore, Explains(t) = Len(window),
             live => \A u \in Titles \ {t} : ~Close(t, u)
      PROVE  t \in offered
    <2>1. 2 * Explains(t) >= Cardinality(Touched(t))
        BY <1>1, <1>2, <1>6
    <2>2. t \in Surviving(window)
        BY <1>1, <1>3, <1>6, <2>1, WinnerIs
    <2>3. CASE live
        <3>1. \A u \in Titles \ {t} : Best(u, window) >= MinScore => 2 * Best(t, window) >= 3 * Best(u, window)
            BY <1>1, <1>6, <2>3 DEF Close
        <3> QED BY <2>2, <2>3, <3>1, WinnerIs DEF ScoreInv
    <2>4. CASE ~live
        BY <2>2, <2>4 DEF ScoreInv
    <2> QED BY <2>3, <2>4 DEF ScoreInv
<1> QED BY <1>5, <1>6 DEF AnswerIsHeard

\* An answer is heard, and what is heard is the answer: the votes the matcher
\* counts are the rows that a stretch of the track explains, whatever hashes come
\* back elsewhere (RamMatcher.match, evaluateAbsoluteGates and isConfidentWinner
\* against the occurrences themselves).
THEOREM AnswerIsHeardAlways == ScoreSpec => []AnswerIsHeard
<1> QED BY InvAnswers, ScoreInvariant, PTL

\* The window and the answer are well formed: the window slides within its cap, a
\* sample keeps within its own, and a phone is given one track at most.
THEOREM ScoreTypeCorrect == ScoreSpec => []ScoreTypeOK
<1>1. ScoreInv => ScoreTypeOK
    <2> SUFFICES ASSUME ScoreInv PROVE ScoreTypeOK
        OBVIOUS
    <2>1. Len(window) <= Max({MaxAccumulated, MaxSample})
        <3> DEFINE m == Max({MaxAccumulated, MaxSample})
        <3>1. m \in Nat /\ m >= MaxAccumulated /\ m >= MaxSample
            BY MaxOfTwo, ScoringNumbers
        <3>2. Len(window) \in Nat
            BY LenProperties DEF ScoreInv
        <3> HIDE DEF m
        <3>3. Len(window) <= m
            BY <3>1, <3>2, ScoringNumbers DEF ScoreInv
        <3> QED BY <3>3 DEF m
    <2>2. offered \subseteq Titles
        BY WinnerIs DEF ScoreInv
    <2>3. ASSUME live PROVE Cardinality(offered) <= 1
        <3>1. ASSUME NEW t \in offered, NEW u \in offered, t # u PROVE FALSE
            <4>1. /\ Best(t, window) >= MinScore /\ Best(u, window) >= MinScore
                  /\ 2 * Best(t, window) >= 3 * Best(u, window)
                  /\ 2 * Best(u, window) >= 3 * Best(t, window)
                BY <2>2, <2>3, <3>1, WinnerIs DEF ScoreInv
            <4>2. Best(t, window) \in Nat /\ Best(u, window) \in Nat
                BY BestIsMost DEF ScoreInv
            <4> QED BY <4>1, <4>2, ScoringNumbers
        <3>2. CASE offered = {}
            BY <3>2, FS_EmptySet
        <3>3. CASE offered # {}
            <4>1. PICK t \in offered : offered = {t}
                BY <3>1, <3>3
            <4>2. Cardinality({t}) = 1
                BY FS_Singleton
            <4>3. Cardinality(offered) = 1
                BY <4>1, <4>2
            <4> QED BY <4>3
        <3> QED BY <3>2, <3>3
    <2> QED BY <2>1, <2>2, <2>3 DEF ScoreTypeOK, ScoreInv
<1> QED BY <1>1, ScoreInvariant, PTL

-----------------------------------------------------------------------------
(* The fingerprinter.                                                      *)

\* Numbers of the fingerprinter.
LEMMA PrintNumbers ==
    /\ ReadBytes \in Nat /\ ReadBytes # 0 /\ Window \in Nat /\ Window # 0
    /\ Neighbours \in Nat /\ MaxDelta \in Nat /\ Batch \in Nat /\ Batch # 0
    /\ MaxHashes \in Nat /\ MaxHashes # 0 /\ MaxLive \in Nat
    /\ MaxBuffer \in Nat /\ MaxBuffer >= Window
    /\ Peaks \subseteq Nat /\ LiveChunks \subseteq Nat
BY FingerprinterAssumption

\* Division, which the provers need spelled out.
LEMMA DivMod ==
    ASSUME NEW a \in Nat, NEW w \in Nat, w # 0
    PROVE  /\ a \div w \in Nat /\ a % w \in Nat /\ a % w < w
           /\ a = w * (a \div w) + (a % w)
BY SMT

LEMMA Unique ==
    ASSUME NEW w \in Nat, w # 0, NEW q \in Nat, NEW p \in Nat, NEW r \in Nat, NEW s \in Nat,
           r < w, s < w, w * q + r = w * p + s
    PROVE  q = p /\ r = s
<1>1. ASSUME NEW x \in Nat, NEW y \in Nat, NEW u \in Nat, NEW v \in Nat, u < w, v < w,
             w * x + u = w * y + v, x < y
      PROVE FALSE
    <2>1. PICK d \in Nat : y = x + 1 + d
        <3>1. y - x - 1 \in Nat /\ y = x + 1 + (y - x - 1)
            BY <1>1
        <3> QED BY <3>1
    <2>2. w * y = w * x + w + w * d
        BY <2>1, SMT
    <2>3. w * d \in Nat /\ w * x \in Nat /\ w * y \in Nat
        BY SMT
    <2> QED BY <1>1, <2>2, <2>3
<1>2. ~(q < p) /\ ~(p < q)
    BY <1>1
<1>3. q = p
    BY <1>2
<1> QED BY <1>3

LEMMA DivModIs ==
    ASSUME NEW a \in Nat, NEW w \in Nat, w # 0, NEW q \in Nat, NEW r \in Nat, r < w, a = w * q + r
    PROVE  a \div w = q /\ a % w = r
<1>1. a \div w \in Nat /\ a % w \in Nat /\ a % w < w /\ a = w * (a \div w) + (a % w)
    BY DivMod
<1> DEFINE p == a \div w
           s == a % w
<1>2. p \in Nat /\ s \in Nat /\ s < w /\ w * q + r = w * p + s
    BY <1>1
<1> HIDE DEF p, s
<1>3. q = p /\ r = s
    BY <1>2, Unique
<1> QED BY <1>3 DEF p, s

\* The fingerprinter between two windows.  Its peaks are in order, those it has
\* forgotten are too old to be hashed, and its pairs are those of the whole.
Shapes == [time : Nat, points : Seq(Nat), pairs : SUBSET (Nat \X Nat), kept : Nat]

Faithful(s) ==
    /\ s.kept \in 1 .. Len(s.points) + 1
    /\ \A i \in DOMAIN s.points : s.points[i] < s.time
    /\ \A i, j \in DOMAIN s.points : i <= j => s.points[i] <= s.points[j]
    /\ \A i \in 1 .. s.kept - 1 : s.points[i] + MaxDelta < s.time
    /\ s.pairs = NewPairs(1, 0, s.points)

States == {s \in Shapes : Faithful(s)}

\* More peaks, all of this window: what was forgotten is too old to pair with them.
LEMMA MorePairs ==
    ASSUME NEW pts \in Seq(Nat), NEW all \in Seq(Nat), NEW t \in Nat,
           Len(pts) <= Len(all), \A i \in DOMAIN pts : all[i] = pts[i],
           NEW k \in 1 .. Len(pts) + 1,
           \A i \in 1 .. k - 1 : pts[i] + MaxDelta < t,
           \A j \in Len(pts) + 1 .. Len(all) : all[j] = t
    PROVE  NewPairs(1, 0, all) = NewPairs(1, 0, pts) \cup NewPairs(k, Len(pts), all)
<1> DEFINE n == Len(pts)
           m == Len(all)
<1>0. /\ n \in Nat /\ m \in Nat /\ n <= m /\ DOMAIN pts = 1 .. n /\ DOMAIN all = 1 .. m
      /\ \A i \in 1 .. m : all[i] \in Nat
      /\ \A i \in 1 .. n : all[i] = pts[i]
      /\ \A i \in n + 1 .. m : all[i] = t
      /\ k \in 1 .. n + 1 /\ MaxDelta \in Nat
    BY PrintNumbers
<1>01. NewPairs(1, 0, pts) = {p \in (1 .. n) \X (0 + 1 .. n) :
         p[1] <= p[2] /\ p[2] < p[1] + Neighbours /\ Hashable(pts[p[1]], pts[p[2]])}
    BY DEF NewPairs
<1>02. \A a, b : NewPairs(a, b, all) = {p \in (a .. m) \X (b + 1 .. m) :
         p[1] <= p[2] /\ p[2] < p[1] + Neighbours /\ Hashable(all[p[1]], all[p[2]])}
    BY DEF NewPairs
<1> HIDE DEF n, m
<1>1. ASSUME NEW i \in 1 .. m, NEW j \in 1 .. m, i <= j
      PROVE  /\ j <= n => all[i] = pts[i] /\ all[j] = pts[j] /\ i <= n
             /\ j > n /\ i < k => ~Hashable(all[i], all[j])
    <2>1. CASE j <= n
        BY <1>0, <1>1, <2>1
    <2>2. CASE j > n /\ i < k
        <3>1. i \in 1 .. k - 1 /\ i \in 1 .. n /\ j \in n + 1 .. m
            BY <1>0, <1>1, <2>2
        <3>2. all[i] + MaxDelta < t /\ all[j] = t
            BY <1>0, <3>1
        <3> QED BY <1>0, <2>2, <3>2 DEF Hashable
    <2> QED BY <1>0, <2>1, <2>2
<1>2. ASSUME NEW p \in NewPairs(1, 0, all) PROVE p \in NewPairs(1, 0, pts) \cup NewPairs(k, n, all)
    <2>1. /\ p \in (1 .. m) \X (1 .. m) /\ p[1] \in 1 .. m /\ p[2] \in 1 .. m
          /\ p[1] <= p[2] /\ p[2] < p[1] + Neighbours /\ Hashable(all[p[1]], all[p[2]])
        BY <1>0, <1>01, <1>02
    <2>2. CASE p[2] <= n
        <3>1. all[p[1]] = pts[p[1]] /\ all[p[2]] = pts[p[2]] /\ p[1] \in 1 .. n /\ p[2] \in 1 .. n
            BY <1>0, <1>1, <2>1, <2>2
        <3>2. p \in (1 .. n) \X (0 + 1 .. n)
            BY <2>1, <3>1
        <3> QED BY <2>1, <3>1, <3>2, <1>01, <1>02
    <2>3. CASE p[2] > n
        <3>1. p[1] >= k
            BY <1>0, <1>1, <2>1, <2>3
        <3>2. p[1] \in k .. m /\ p[2] \in n + 1 .. m
            BY <1>0, <2>1, <2>3, <3>1
        <3>3. p \in (k .. m) \X (n + 1 .. m)
            BY <2>1, <3>2
        <3> QED BY <2>1, <3>3, <1>01, <1>02
    <2> QED BY <1>0, <2>1, <2>2, <2>3
<1>3. ASSUME NEW p \in NewPairs(1, 0, pts) PROVE p \in NewPairs(1, 0, all)
    <2>1. /\ p \in (1 .. n) \X (1 .. n) /\ p[1] \in 1 .. n /\ p[2] \in 1 .. n
          /\ p[1] <= p[2] /\ p[2] < p[1] + Neighbours /\ Hashable(pts[p[1]], pts[p[2]])
        BY <1>0, <1>01, <1>02
    <2>2. /\ p \in (1 .. m) \X (0 + 1 .. m)
          /\ all[p[1]] = pts[p[1]] /\ all[p[2]] = pts[p[2]]
        BY <1>0, <2>1
    <2> QED BY <2>1, <2>2, <1>01, <1>02
<1>4. ASSUME NEW p \in NewPairs(k, n, all) PROVE p \in NewPairs(1, 0, all)
    <2>1. /\ p \in (k .. m) \X (n + 1 .. m) /\ p[1] \in k .. m /\ p[2] \in n + 1 .. m
          /\ p[1] <= p[2] /\ p[2] < p[1] + Neighbours /\ Hashable(all[p[1]], all[p[2]])
        BY <1>02
    <2>2. p \in (1 .. m) \X (0 + 1 .. m)
        BY <1>0, <2>1
    <2> QED BY <2>1, <2>2, <1>01, <1>02
<1> QED BY <1>2, <1>3, <1>4 DEF n

\* Compaction forgets peaks that are too old.
LEMMA KeptIs ==
    ASSUME NEW all \in Seq(Nat), NEW t \in Nat,
           \A i, j \in DOMAIN all : i <= j => all[i] <= all[j]
    PROVE  /\ KeptFrom(all, t) \in 1 .. Len(all) + 1
           /\ \A i \in 1 .. KeptFrom(all, t) - 1 : all[i] + MaxDelta < t
<1> DEFINE n == Len(all)
           K == {i \in DOMAIN all : all[i] + MaxDelta < t}
           c == Cardinality(K)
<1>0. n \in Nat /\ DOMAIN all = 1 .. n /\ MaxDelta \in Nat /\ \A i \in 1 .. n : all[i] \in Nat
    BY PrintNumbers
<1>1. KeptFrom(all, t) = 1 + c
    BY DEF KeptFrom
<1>2. ASSUME NEW m \in Nat, NEW s \in SUBSET (1 .. m) PROVE IsFiniteSet(s) /\ Cardinality(s) \in 0 .. m
    <2>1. m \in Int /\ 1 \in Int
        OBVIOUS
    <2>2. IsFiniteSet(1 .. m) /\ Cardinality(1 .. m) = IF 1 > m THEN 0 ELSE m - 1 + 1
        BY <2>1, FS_Interval
    <2>3. Cardinality(1 .. m) = m
        BY <2>2
    <2> DEFINE r == 1 .. m
    <2>4. IsFiniteSet(s) /\ Cardinality(s) <= m
        <3>1. IsFiniteSet(r) /\ Cardinality(r) = m /\ s \in SUBSET r
            BY <2>2, <2>3
        <3> HIDE DEF r
        <3> QED BY <3>1, FS_Subset
    <2> QED BY <2>4, FS_CardinalityType
<1>3. K \in SUBSET (1 .. n)
    BY <1>0
<1>4. c \in 0 .. n
    BY <1>0, <1>2, <1>3
<1>5. ASSUME NEW i \in 1 .. c, i \notin K PROVE FALSE
    <2>1. i \in 1 .. n /\ i - 1 \in Nat /\ i - 1 < c
        BY <1>0, <1>4, <1>5
    <2>2. \A j \in K : j \in 1 .. i - 1
        <3> SUFFICES ASSUME NEW j \in K, j >= i PROVE FALSE
            BY <1>0, <2>1
        <3>1. all[i] <= all[j] /\ all[i] \in Nat /\ all[j] \in Nat /\ all[j] + MaxDelta < t
            BY <1>0, <2>1
        <3>2. all[i] + MaxDelta < t
            BY <1>0, <3>1
        <3> QED BY <1>0, <1>5, <2>1, <3>2
    <2>3. K \in SUBSET (1 .. i - 1)
        BY <2>2
    <2>4. c \in 0 .. i - 1
        <3> HIDE DEF K
        <3> QED BY <1>2, <2>1, <2>3
    <2> QED BY <2>1, <2>4
<1> HIDE DEF c
<1>6. \A i \in 1 .. (1 + c) - 1 : i \in K
    BY <1>0, <1>4, <1>5
<1> QED BY <1>0, <1>1, <1>4, <1>6

\* A window: its state is faithful again, and no pair is lost.
LEMMA WindowKeeps ==
    ASSUME NEW s \in States, NEW peaks \in Nat
    PROVE  /\ Windowed(s, peaks) \in States
           /\ Windowed(s, peaks).time = s.time + 1
           /\ s.pairs \subseteq Windowed(s, peaks).pairs
<1> DEFINE more == [i \in 1 .. peaks |-> s.time]
           all == s.points \o more
           w == Windowed(s, peaks)
           n == Len(s.points)
           q == s.pairs \cup NewPairs(s.kept, n, all)
           k == IF Live THEN KeptFrom(all, s.time + 1) ELSE 1
<1>1. /\ s.time \in Nat /\ s.points \in Seq(Nat) /\ s.pairs \in SUBSET (Nat \X Nat)
      /\ Faithful(s)
    BY DEF States, Shapes
<1>2. /\ n \in Nat /\ more \in Seq(Nat) /\ Len(more) = peaks /\ all \in Seq(Nat)
      /\ Len(all) = n + peaks /\ DOMAIN all = 1 .. n + peaks /\ DOMAIN s.points = 1 .. n
      /\ \A i \in 1 .. n : all[i] = s.points[i] /\ s.points[i] \in Nat
      /\ \A i \in n + 1 .. n + peaks : all[i] = s.time
    <2>1. n \in Nat /\ more \in Seq(Nat) /\ Len(more) = peaks /\ DOMAIN s.points = 1 .. n
          /\ \A i \in 1 .. n : s.points[i] \in Nat
        BY <1>1
    <2>2. \A i \in 1 .. peaks : more[i] = s.time
        OBVIOUS
    <2> HIDE DEF more
    <2>3. /\ all \in Seq(Nat) /\ Len(all) = n + peaks
          /\ \A i \in 1 .. n + peaks : all[i] = IF i <= n THEN s.points[i] ELSE more[i - n]
        BY <1>1, <2>1, ConcatProperties
    <2>4. DOMAIN all = 1 .. n + peaks
        BY <2>3, LenProperties
    <2>5. \A i \in n + 1 .. n + peaks : ~(i <= n) /\ i \in 1 .. n + peaks /\ i - n \in 1 .. peaks
        BY <2>1
    <2>6. \A i \in 1 .. n : i <= n /\ i \in 1 .. n + peaks
        BY <2>1
    <2> HIDE DEF all
    <2> QED BY <2>1, <2>2, <2>3, <2>4, <2>5, <2>6
<1>3. w = [time |-> s.time + 1, points |-> all, pairs |-> q, kept |-> k]
    BY DEF Windowed
<1>30. /\ \A i \in 1 .. n : s.points[i] < s.time
       /\ \A i, j \in 1 .. n : i <= j => s.points[i] <= s.points[j]
       /\ s.kept \in 1 .. n + 1 /\ \A i \in 1 .. s.kept - 1 : s.points[i] + MaxDelta < s.time
       /\ s.pairs = NewPairs(1, 0, s.points)
    BY <1>1, <1>2 DEF Faithful
<1> DEFINE pts == s.points
           t == s.time
<1>a. t \in Nat /\ pts \in Seq(Nat) /\ s.pairs \in SUBSET (Nat \X Nat)
    BY <1>1
<1>b. /\ n \in Nat /\ all \in Seq(Nat) /\ n = Len(pts)
      /\ Len(all) = n + peaks /\ DOMAIN all = 1 .. n + peaks /\ DOMAIN pts = 1 .. n
      /\ \A i \in 1 .. n : all[i] = pts[i] /\ pts[i] \in Nat
      /\ \A i \in n + 1 .. n + peaks : all[i] = t
    BY <1>2
<1>c. /\ \A i \in 1 .. n : pts[i] < t
      /\ \A i, j \in 1 .. n : i <= j => pts[i] <= pts[j]
      /\ s.kept \in 1 .. n + 1 /\ \A i \in 1 .. s.kept - 1 : pts[i] + MaxDelta < t
      /\ s.pairs = NewPairs(1, 0, pts)
    BY <1>30
<1>d. w = [time |-> t + 1, points |-> all, pairs |-> q, kept |-> k]
    BY <1>3
<1>e. q = s.pairs \cup NewPairs(s.kept, n, all) /\ k = IF Live THEN KeptFrom(all, t + 1) ELSE 1
    OBVIOUS
<1> HIDE DEF more, all, n, pts, t, k, q
<1>4. \A i, j \in DOMAIN all : i <= j => all[i] <= all[j]
    <2> SUFFICES ASSUME NEW i \in 1 .. n + peaks, NEW j \in 1 .. n + peaks, i <= j
                 PROVE  all[i] <= all[j]
        BY <1>b
    <2>1. CASE j <= n
        <3>1. i \in 1 .. n /\ j \in 1 .. n
            BY <1>b, <2>1
        <3>2. all[i] = pts[i] /\ all[j] = pts[j] /\ pts[i] <= pts[j]
            BY <1>b, <1>c, <3>1
        <3> QED BY <3>2
    <2>2. CASE j > n /\ i <= n
        <3>1. all[j] = t /\ all[i] = pts[i] /\ pts[i] < t /\ pts[i] \in Nat
            BY <1>a, <1>b, <2>2, <1>c
        <3> QED BY <1>a, <3>1
    <2>3. CASE i > n
        <3>1. all[j] = t /\ all[i] = t
            BY <1>b, <2>3
        <3> QED BY <1>a, <3>1
    <2> QED BY <1>b, <2>1, <2>2, <2>3
<1>5. \A i \in DOMAIN all : all[i] < t + 1
    <2> SUFFICES ASSUME NEW i \in 1 .. n + peaks PROVE all[i] < t + 1
        BY <1>b
    <2>1. CASE i <= n
        <3>1. all[i] = pts[i] /\ pts[i] < t /\ pts[i] \in Nat
            BY <1>a, <1>b, <2>1, <1>c
        <3> QED BY <1>a, <3>1
    <2>2. CASE i > n
        <3>1. all[i] = t
            BY <1>b, <2>2
        <3> QED BY <1>a, <3>1
    <2> QED BY <1>b, <2>1, <2>2
<1>6. k \in 1 .. Len(all) + 1 /\ \A i \in 1 .. k - 1 : all[i] + MaxDelta < t + 1
    <2>1. t + 1 \in Nat
        BY <1>a
    <2>2. CASE Live
        BY <1>b, <1>4, <1>e, <2>1, <2>2, KeptIs
    <2>3. CASE ~Live
        BY <1>b, <1>e, <2>3
    <2> QED BY <2>2, <2>3
<1>7. q = NewPairs(1, 0, all)
    <2> DEFINE h == s.kept
    <2>1. /\ pts \in Seq(Nat) /\ all \in Seq(Nat) /\ t \in Nat
          /\ Len(pts) <= Len(all) /\ \A i \in DOMAIN pts : all[i] = pts[i]
          /\ h \in 1 .. Len(pts) + 1 /\ \A i \in 1 .. h - 1 : pts[i] + MaxDelta < t
          /\ \A j \in Len(pts) + 1 .. Len(all) : all[j] = t
        BY <1>a, <1>b, <1>c
    <2>2. q = NewPairs(1, 0, pts) \cup NewPairs(h, Len(pts), all)
        BY <1>b, <1>c, <1>e
    <2> HIDE DEF h
    <2>3. NewPairs(1, 0, all) = NewPairs(1, 0, pts) \cup NewPairs(h, Len(pts), all)
        BY <2>1, MorePairs
    <2> QED BY <2>2, <2>3
<1>8. NewPairs(1, 0, all) \subseteq Nat \X Nat
    <2>1. Len(all) \in Nat
        BY <1>b
    <2> QED BY <2>1 DEF NewPairs
<1>9. /\ w.time = t + 1 /\ w.points = all /\ w.pairs = q /\ w.kept = k
      /\ w \in Shapes
    <2>1. t + 1 \in Nat /\ q \in SUBSET (Nat \X Nat) /\ k \in Nat
        BY <1>a, <1>b, <1>6, <1>7, <1>8
    <2> QED BY <1>b, <1>d, <2>1 DEF Shapes
<1> HIDE DEF w
<1>10. Faithful(w)
    BY <1>4, <1>5, <1>6, <1>7, <1>9 DEF Faithful
<1> QED BY <1>9, <1>10, <1>e DEF States, w, t

LEMMA WholeMod ==
    ASSUME NEW w \in Nat, w # 0, NEW k \in Nat
    PROVE  w * k \in Nat /\ (w * k) \div w = k /\ (w * k) % w = 0 /\ w * k + 0 = w * k
<1> DEFINE a == w * k
<1>1. a \in Nat /\ a = w * k + 0
    BY SMT
<1>2. 0 \in Nat /\ 0 < w
    OBVIOUS
<1> HIDE DEF a
<1>3. a \div w = k /\ a % w = 0
    BY <1>1, <1>2, DivModIs
<1> QED BY <1>1, <1>3 DEF a

\* Every window of a chunk, one after the other.
LEMMA WindowsKeep ==
    ASSUME NEW base \in States, NEW peaks \in Seq(Nat)
    PROVE  /\ FoldLeft(Windowed, base, peaks) \in States
           /\ FoldLeft(Windowed, base, peaks).time = base.time + Len(peaks)
           /\ base.pairs \subseteq FoldLeft(Windowed, base, peaks).pairs
<1> DEFINE n == Len(peaks)
           Add(p) == [s \in States |-> Windowed(s, p)]
           step == [k \in 1 .. n |-> Add(peaks[k])]
           Body(D, f) == [s \in D |-> IF s = {} THEN base
                            ELSE Windowed(f[s \ {Max(s)}], peaks[Max(s)])]
           c == CHOOSE f : f = Body(SUBSET (DOMAIN peaks), f)
<1>1. FoldLeft(Windowed, base, peaks) = c[DOMAIN peaks]
    BY DEF FoldLeft, MapThenFoldSet
<1> HIDE DEF c
<1>2. n \in Nat /\ DOMAIN peaks = 1 .. n /\ \A k \in 1 .. n : peaks[k] \in Nat
    OBVIOUS
<1> HIDE DEF n
<1>3. step \in Steps(n, States)
    <2>1. \A p \in Nat : Add(p) \in [States -> States]
        BY WindowKeeps
    <2> HIDE DEF Add
    <2> QED BY <1>2, <2>1 DEF Steps
<1>4. \A k \in 1 .. n : \A s \in States : step[k][s] = Windowed(s, peaks[k])
    OBVIOUS
<1> HIDE DEF step
<1>5. PICK f : Unrolls(n, States, base, step, f)
    BY <1>2, <1>3, FoldUnrolls
<1> DEFINE D == SUBSET (1 .. n)
<1>6. /\ f \in [D -> States] /\ f[{}] = base
      /\ \A s \in D : s # {} =>
           /\ Max(s) \in 1 .. n /\ f[s \ {Max(s)}] \in States
           /\ f[s] = step[Max(s)][f[s \ {Max(s)}]]
    BY <1>5 DEF Unrolls
<1>7. D = SUBSET (DOMAIN peaks) /\ {} \in D
    BY <1>2
<1> HIDE DEF D
<1>8. \A s \in D : s # {} => f[s] = Windowed(f[s \ {Max(s)}], peaks[Max(s)])
    BY <1>4, <1>6
<1>9. f = Body(D, f)
    <2>1. f = [s \in D |-> f[s]]
        BY <1>6
    <2> QED BY <1>6, <1>8, <2>1
<1>10. c = Body(D, c)
    <2> HIDE DEF Body
    <2> QED BY <1>7, <1>9 DEF c
<1>11. c[{}] = base /\ \A s \in D : s # {} => c[s] = Windowed(c[s \ {Max(s)}], peaks[Max(s)])
    BY <1>7, <1>10
<1> HIDE DEF Body
<1>12. Unfolds(n, States, base, step, c)
    BY <1>4, <1>6, <1>11 DEF Unfolds, D
<1>13. PICK g : Run(n, States, base, step, g) /\ g[n] = c[1 .. n]
    BY <1>2, <1>3, <1>12, FoldRuns
<1> DEFINE S == {k \in 0 .. n : g[k].time = base.time + k /\ base.pairs \subseteq g[k].pairs}
<1>14. 0 \in S
    <2>1. g[0] = base /\ base.time + 0 = base.time
        BY <1>13 DEF Run, States, Shapes
    <2> QED BY <1>2, <2>1
<1>15. ASSUME NEW k \in 0 .. n - 1, k \in S PROVE k + 1 \in S
    <2>1. k + 1 \in 1 .. n /\ (k + 1) - 1 = k /\ k + 1 \in 0 .. n /\ k \in 0 .. n
        BY <1>2
    <2>2. g[k] \in States /\ g[k + 1] = Windowed(g[k], peaks[k + 1]) /\ peaks[k + 1] \in Nat
        BY <1>2, <1>4, <1>13, <2>1 DEF Run
    <2>3. g[k + 1].time = g[k].time + 1 /\ g[k].pairs \subseteq g[k + 1].pairs
        BY <2>2, WindowKeeps
    <2>4. base.time \in Nat
        BY DEF States, Shapes
    <2>5. g[k + 1].time = base.time + (k + 1)
        BY <1>15, <2>1, <2>3, <2>4
    <2> QED BY <1>15, <2>1, <2>3, <2>5
<1>16. 0 .. n \subseteq S
    <2> HIDE DEF S
    <2> QED BY <1>2, <1>14, <1>15, Climb
<1>17. n \in 0 .. n /\ g[n] \in States
    BY <1>2, <1>13 DEF Run
<1>18. g[n].time = base.time + n /\ base.pairs \subseteq g[n].pairs
    BY <1>16, <1>17
<1> QED BY <1>1, <1>2, <1>13, <1>17, <1>18 DEF n

\* What is dropped of a full buffer is whole windows, and no more than is there.
LEMMA OverrunIs ==
    ASSUME NEW n \in Nat
    PROVE  Overrun(n) \in 0 .. n /\ \E q \in Nat : Overrun(n) = Window * q
<1> DEFINE d == n - MaxBuffer + Window
<1>1. CASE n > MaxBuffer
    <2>1. d \in Nat /\ d <= n
        BY <1>1, PrintNumbers
    <2> HIDE DEF d
    <2>2. d \div Window \in Nat /\ d % Window \in Nat /\ d = Window * (d \div Window) + (d % Window)
        BY <2>1, DivMod, PrintNumbers
    <2>3. Overrun(n) = d - (d % Window)
        BY <1>1 DEF Overrun, d
    <2> DEFINE q == d \div Window
               r == d % Window
               p == Window * q
    <2>4. p \in Nat
        <3>1. q \in Nat
            BY <2>2
        <3> HIDE DEF q
        <3> QED BY <3>1, PrintNumbers, SMT
    <2> HIDE DEF r, p
    <2>5. d - r = p /\ d - r \in 0 .. n
        <3>1. d = p + r /\ r \in Nat
            BY <2>2 DEF p, r
        <3> QED BY <2>1, <2>4, <3>1
    <2> QED BY <2>2, <2>3, <2>5 DEF p, r
<1>2. CASE ~(n > MaxBuffer)
    <2>1. Overrun(n) = 0
        BY <1>2 DEF Overrun
    <2>2. Window * 0 = 0
        BY PrintNumbers
    <2> QED BY <2>1, <2>2
<1> QED BY <1>1, <1>2

\* Windows are on the grid, and where they would be unless some were dropped.
OnGrid(c, d) ==
    /\ \A i \in DOMAIN c : c[i] % Window = 0
    /\ d = 0 => \A i \in DOMAIN c : c[i] = (i - 1) * Window

Whole(d) == \E q \in Nat : d = Window * q

Row(m, first) == [i \in 1 .. m |-> first + (i - 1) * Window]

LEMMA GridGrows ==
    ASSUME NEW c \in Seq(Nat), NEW d \in Nat, NEW e \in Nat, Whole(d), Whole(e), OnGrid(c, d),
           NEW m \in Nat, NEW first \in Nat, first = Len(c) * Window + d + e
    PROVE  /\ c \o Row(m, first) \in Seq(Nat) /\ Len(c \o Row(m, first)) = Len(c) + m
           /\ Row(m, first) \in Seq(Nat) /\ Len(Row(m, first)) = m
           /\ OnGrid(c \o Row(m, first), d + e) /\ Whole(d + e)
<1> DEFINE n == Len(c)
           starts == Row(m, first)
<1>0. n \in Nat /\ Window \in Nat /\ Window # 0 /\ DOMAIN c = 1 .. n
    BY PrintNumbers
<1>1. PICK q \in Nat : d = Window * q
    BY DEF Whole
<1>2. PICK p \in Nat : e = Window * p
    BY DEF Whole
<1>3. Whole(d + e)
    <2>1. q + p \in Nat /\ d + e = Window * (q + p)
        BY <1>0, <1>1, <1>2
    <2> QED BY <2>1 DEF Whole
<1> HIDE DEF n
<1>4. ASSUME NEW i \in 1 .. m
      PROVE  /\ starts[i] \in Nat /\ starts[i] % Window = 0
             /\ d + e = 0 => starts[i] = (n + i - 1) * Window
    <2>1. starts[i] = n * Window + d + e + (i - 1) * Window
        BY DEF n, Row
    <2>2. n + q + p + (i - 1) \in Nat
        BY <1>0
    <2> DEFINE k == n + q + p + (i - 1)
    <2>3. starts[i] = Window * k + 0
        BY <1>0, <1>1, <1>2, <2>1
    <2>4. d + e = 0 => starts[i] = (n + i - 1) * Window
        BY <1>0, <2>1
    <2> HIDE DEF k
    <2>5. k \in Nat
        BY <2>2 DEF k
    <2>6. Window * k + 0 \in Nat
        BY <1>0, <2>5, SMT
    <2>7. starts[i] % Window = 0
        <3>1. (Window * k) % Window = 0 /\ Window * k + 0 = Window * k
            BY <1>0, <2>5, WholeMod
        <3> QED BY <2>3, <3>1
    <2> QED BY <2>3, <2>4, <2>6, <2>7
<1>5. starts \in Seq(Nat) /\ Len(starts) = m /\ DOMAIN starts = 1 .. m
    <2>1. starts \in [1 .. m -> Nat]
        BY <1>4 DEF Row
    <2> QED BY <2>1
<1> HIDE DEF starts
<1> DEFINE all == c \o starts
<1>60. /\ all \in Seq(Nat) /\ Len(all) = Len(c) + Len(starts)
       /\ \A i \in 1 .. Len(c) + Len(starts) :
             all[i] = IF i <= Len(c) THEN c[i] ELSE starts[i - Len(c)]
    BY <1>5, ConcatProperties
<1> HIDE DEF all
<1>6. /\ all \in Seq(Nat) /\ Len(all) = n + m
      /\ \A i \in 1 .. n + m : all[i] = IF i <= n THEN c[i] ELSE starts[i - n]
    BY <1>5, <1>60 DEF n
<1>7. DOMAIN all = 1 .. n + m
    BY <1>6, LenProperties
<1>8. ASSUME NEW i \in 1 .. n + m
      PROVE  all[i] % Window = 0 /\ (d + e = 0 => all[i] = (i - 1) * Window)
    <2>1. CASE i <= n
        <3>1. i \in 1 .. n /\ all[i] = c[i]
            BY <1>0, <1>6, <2>1
        <3>2. d + e = 0 => d = 0
            OBVIOUS
        <3> QED BY <1>0, <3>1, <3>2 DEF OnGrid
    <2>2. CASE ~(i <= n)
        <3>1. i - n \in 1 .. m /\ all[i] = starts[i - n] /\ n + (i - n) - 1 = i - 1
            BY <1>0, <1>6, <2>2
        <3> QED BY <1>4, <3>1
    <2> QED BY <2>1, <2>2
<1>9. OnGrid(all, d + e)
    BY <1>7, <1>8 DEF OnGrid
<1> QED BY <1>3, <1>5, <1>6, <1>9 DEF all, n, starts

\* A window by itself.
LEMMA OneWindow ==
    ASSUME NEW c \in Seq(Nat), NEW d \in Nat, Whole(d), OnGrid(c, d),
           NEW first \in Nat, first = Len(c) * Window + d
    PROVE  /\ c \o <<first>> \in Seq(Nat) /\ Len(c \o <<first>>) = Len(c) + 1
           /\ <<first>> \in Seq(Nat) /\ Len(<<first>>) = 1
           /\ OnGrid(c \o <<first>>, d)
<1>1. PICK z \in Nat : z = 0
    OBVIOUS
<1>2. PICK m \in Nat : m = 1
    OBVIOUS
<1>3. Whole(z) /\ first = Len(c) * Window + d + z /\ d + z = d
    <2>1. 0 = Window * 0
        BY PrintNumbers
    <2>2. Len(c) * Window \in Nat
        <3>1. Len(c) \in Nat /\ Window \in Nat
            BY PrintNumbers, LenProperties
        <3> QED BY <3>1, SMT
    <2> DEFINE p == Len(c) * Window
    <2> HIDE DEF p
    <2>3. p \in Nat /\ first = p + d
        BY <2>2 DEF p
    <2>4. first = p + d + z /\ d + z = d
        BY <1>1, <2>3
    <2> QED BY <1>1, <2>1, <2>4 DEF Whole, p
<1>4. Row(m, first) = <<first>>
    <2>1. \A i \in 1 .. 1 : i = 1
        OBVIOUS
    <2>2. first + (1 - 1) * Window = first
        BY PrintNumbers
    <2>3. Row(1, first) = [i \in 1 .. 1 |-> first + (1 - 1) * Window]
        BY <2>1 DEF Row
    <2> QED BY <1>2, <2>2, <2>3
<1>5. OnGrid(c \o Row(m, first), d + z)
    BY <1>3, GridGrows
<1>6. <<first>> \in Seq(Nat) /\ Len(<<first>>) = 1
    OBVIOUS
<1>7. c \o <<first>> \in Seq(Nat) /\ Len(c \o <<first>>) = Len(c) + 1
    <2> DEFINE s == <<first>>
    <2>1. s \in Seq(Nat) /\ Len(s) = 1
        BY <1>6
    <2> HIDE DEF s
    <2>2. c \o s \in Seq(Nat)
        BY <2>1
    <2>3. Len(c \o s) = Len(c) + Len(s)
        BY <2>1, ConcatProperties
    <2> QED BY <2>1, <2>2, <2>3 DEF s
<1> QED BY <1>3, <1>4, <1>5, <1>6, <1>7

\* Between two windows.
Progress == [time |-> Len(cut), points |-> points, pairs |-> pairs, kept |-> kept]

SignalInv ==
    /\ received \in Nat /\ dropped \in Nat /\ buffer \in 0 .. Window - 1
    /\ cut \in Seq(Nat) /\ Progress \in States
    /\ Whole(dropped) /\ OnGrid(cut, dropped)

\* Every sample is in a window, in the buffer or dropped.
Flowing == Len(cut) * Window + dropped + buffer = received

LEMMA WindowsGrow ==
    ASSUME SignalInv, NEW m \in Nat, NEW starts \in Seq(Nat), Len(starts) = m, NEW left,
           Windows(starts, left), cut \o starts \in Seq(Nat), Len(cut \o starts) = Len(cut) + m
    PROVE  /\ cut' = cut \o starts /\ buffer' = left
           /\ Progress' \in States /\ pairs \subseteq pairs'
<1>1. DOMAIN starts = 1 .. m /\ Progress \in States
    BY DEF SignalInv
<1>2. PICK peaks \in [1 .. m -> Peaks] :
        LET s == FoldLeft(Windowed, Progress, peaks)
        IN  /\ cut' = cut \o starts /\ points' = s.points /\ pairs' = s.pairs
            /\ kept' = s.kept /\ buffer' = left
    BY <1>1 DEF Windows, Progress
<1> DEFINE s == FoldLeft(Windowed, Progress, peaks)
<1>3. cut' = cut \o starts /\ points' = s.points /\ pairs' = s.pairs /\ kept' = s.kept /\ buffer' = left
    BY <1>2
<1>4. peaks \in Seq(Nat) /\ Len(peaks) = m
    <2>1. peaks \in [1 .. m -> Nat]
        BY PrintNumbers
    <2> QED BY <2>1
<1> HIDE DEF s
<1>5. s \in States /\ s.time = Progress.time + m /\ Progress.pairs \subseteq s.pairs
    BY <1>1, <1>4, WindowsKeep DEF s
<1>6. s = [time |-> s.time, points |-> s.points, pairs |-> s.pairs, kept |-> s.kept]
    BY <1>5 DEF States, Shapes
<1>7. Progress.time = Len(cut) /\ Progress.pairs = pairs
    BY DEF Progress
<1>8. Len(cut') = s.time
    BY <1>3, <1>5, <1>7
<1>9. Progress' = s
    BY <1>3, <1>6, <1>8 DEF Progress
<1> QED BY <1>3, <1>5, <1>7, <1>9

\* A chunk of samples: its windows follow the others, and what is left waits.
LEMMA ProcessKeeps ==
    ASSUME SignalInv, Flowing, NEW n \in Nat, Process(n)
    PROVE  SignalInv' /\ Flowing' /\ received' = received + n /\ pairs \subseteq pairs'
<1> DEFINE d == Overrun(buffer + n)
           rest == buffer + n - d
           m == rest \div Window
           left == rest % Window
           starts == [i \in 1 .. m |-> received - buffer + d + (i - 1) * Window]
<1>0. /\ received \in Nat /\ dropped \in Nat /\ buffer \in Nat /\ cut \in Seq(Nat) /\ Len(cut) \in Nat
      /\ Window \in Nat /\ Window # 0 /\ Whole(dropped) /\ OnGrid(cut, dropped)
    BY PrintNumbers, LenProperties DEF SignalInv
<1>1. received' = received + n /\ dropped' = dropped + d /\ Windows(starts, left)
    BY DEF Process
<1>2. d \in 0 .. buffer + n /\ Whole(d)
    <2>1. buffer + n \in Nat
        BY <1>0
    <2> QED BY <2>1, OverrunIs DEF Whole
<1> HIDE DEF d
<1>3. d \in Nat /\ rest \in Nat
    BY <1>0, <1>2
<1> HIDE DEF rest
<1>4. m \in Nat /\ left \in Nat /\ left < Window /\ rest = Window * m + left
    BY <1>0, <1>3, DivMod
<1> HIDE DEF m, left
<1> DEFINE p == Len(cut) * Window
<1>5. p \in Nat /\ p + dropped + buffer = received
    <2>1. p \in Nat
        BY <1>0, SMT
    <2> QED BY <2>1 DEF Flowing
<1> DEFINE first == received - buffer + d
<1>6. starts = Row(m, first)
    BY DEF Row
<1>60. first = Len(cut) * Window + dropped + d
    BY <1>0, <1>3, <1>5
<1> HIDE DEF starts, first
<1>61. first \in Nat
    <2> HIDE DEF p
    <2>1. first = p + dropped + d
        BY <1>60 DEF p
    <2> QED BY <1>0, <1>3, <1>5, <2>1
<1>7. /\ cut \o starts \in Seq(Nat) /\ Len(cut \o starts) = Len(cut) + m
      /\ starts \in Seq(Nat) /\ Len(starts) = m
      /\ OnGrid(cut \o starts, dropped + d) /\ Whole(dropped + d)
    BY <1>0, <1>2, <1>3, <1>4, <1>6, <1>60, <1>61, GridGrows
<1>8. cut' = cut \o starts /\ buffer' = left /\ Progress' \in States /\ pairs \subseteq pairs'
    BY <1>1, <1>4, <1>7, WindowsGrow
<1>9. SignalInv'
    <2>1. received' \in Nat /\ dropped' \in Nat /\ buffer' \in 0 .. Window - 1
        BY <1>0, <1>1, <1>3, <1>4, <1>8
    <2> QED BY <1>1, <1>7, <1>8, <2>1 DEF SignalInv
<1>10. Flowing'
    <2>1. Len(cut') = Len(cut) + m
        BY <1>7, <1>8
    <2>2. Len(cut') * Window = p + Window * m
        BY <1>0, <1>4, <2>1, SMT
    <2> DEFINE w == Window * m
    <2>3. w \in Nat /\ rest = w + left
        <3>1. w \in Nat
            BY <1>0, <1>4, SMT
        <3> QED BY <1>4, <3>1
    <2> HIDE DEF w, p
    <2>4. Len(cut') * Window = p + w
        BY <2>2 DEF w
    <2>5. w + left = buffer + n - d
        BY <2>3 DEF rest
    <2>6. p + w + dropped' + buffer' = received'
        BY <1>0, <1>1, <1>3, <1>4, <1>5, <1>8, <2>3, <2>5
    <2> QED BY <2>4, <2>6 DEF Flowing
<1> QED BY <1>1, <1>8, <1>9, <1>10

\* The end of a recording: every sample is in a window or dropped, and the padding
\* of the last window is shorter than a window.
LEMMA FlushKeeps ==
    ASSUME SignalInv, Flowing, Flush
    PROVE  /\ SignalInv' /\ received' = received /\ pairs \subseteq pairs'
           /\ (Len(cut) * Window + dropped)' \in received .. received + Window - 1
<1>0. /\ received \in Nat /\ dropped \in Nat /\ buffer \in Nat /\ buffer < Window
      /\ cut \in Seq(Nat) /\ Len(cut) \in Nat
      /\ Window \in Nat /\ Window # 0 /\ Whole(dropped) /\ OnGrid(cut, dropped)
    BY PrintNumbers, LenProperties DEF SignalInv
<1> DEFINE p == Len(cut) * Window
<1>1. p \in Nat /\ p + dropped + buffer = received
    <2>1. p \in Nat
        BY <1>0, SMT
    <2> QED BY <2>1 DEF Flowing
<1>2. received' = received /\ dropped' = dropped
    BY DEF Flush
<1>3. CASE buffer = 0
    <2>1. UNCHANGED <<buffer, cut, points, kept, pairs>>
        BY <1>3 DEF Flush
    <2>2. SignalInv'
        BY <1>2, <2>1 DEF SignalInv, Progress
    <2>3. Len(cut') * Window = p /\ p + dropped' = received
        BY <1>0, <1>1, <1>2, <1>3, <2>1
    <2> HIDE DEF p
    <2>4. p + dropped' \in received .. received + Window - 1
        BY <1>0, <2>3
    <2> QED BY <1>2, <2>1, <2>2, <2>3, <2>4
<1>4. CASE buffer # 0
    <2> DEFINE first == received - buffer
               starts == <<first>>
    <2>1. Windows(starts, 0)
        BY <1>4 DEF Flush
    <2>2. first \in Nat /\ first = p + dropped
        BY <1>0, <1>1
    <2>3. 1 \in Nat
        OBVIOUS
    <2> HIDE DEF first
    <2>4. /\ cut \o starts \in Seq(Nat) /\ Len(cut \o starts) = Len(cut) + 1
          /\ starts \in Seq(Nat) /\ Len(starts) = 1
          /\ OnGrid(cut \o starts, dropped)
        BY <1>0, <2>2, OneWindow
    <2> HIDE DEF starts
    <2>5. cut' = cut \o starts /\ buffer' = 0 /\ Progress' \in States /\ pairs \subseteq pairs'
        BY <2>1, <2>3, <2>4, WindowsGrow
    <2>6. SignalInv'
        <3>1. buffer' \in 0 .. Window - 1
            BY <1>0, <2>5
        <3> QED BY <1>0, <1>2, <2>4, <2>5, <3>1 DEF SignalInv
    <2>7. Len(cut') * Window = p + Window
        <3>1. Len(cut') = Len(cut) + 1
            BY <2>4, <2>5
        <3> QED BY <1>0, <3>1, SMT
    <2> HIDE DEF p
    <2>8. p + Window + dropped' \in received .. received + Window - 1
        BY <1>0, <1>1, <1>2, <1>4
    <2>9. Len(cut') * Window + dropped' = p + Window + dropped'
        BY <2>7
    <2> QED BY <1>2, <2>5, <2>6, <2>8, <2>9
<1> QED BY <1>3, <1>4

\* Pairs are finitely many.
LEMMA PairsCount ==
    SignalInv => IsFiniteSet(pairs) /\ Cardinality(pairs) \in Nat /\ pairs = NewPairs(1, 0, points)
<1> SUFFICES ASSUME SignalInv
             PROVE  IsFiniteSet(pairs) /\ Cardinality(pairs) \in Nat /\ pairs = NewPairs(1, 0, points)
    OBVIOUS
<1>1. points \in Seq(Nat) /\ pairs = NewPairs(1, 0, points)
    <2>1. Progress \in Shapes /\ Faithful(Progress)
        BY DEF SignalInv, States
    <2>2. Progress.points = points /\ Progress.pairs = pairs
        BY DEF Progress
    <2>3. Progress.points \in Seq(Nat) /\ Progress.pairs = NewPairs(1, 0, Progress.points)
        BY <2>1 DEF Shapes, Faithful
    <2> QED BY <2>2, <2>3
<1> DEFINE m == Len(points)
           r == 1 .. m
<1>2. m \in Int /\ 1 \in Int
    BY <1>1, LenProperties
<1>3. IsFiniteSet(r)
    <2> HIDE DEF m
    <2> QED BY <1>2, FS_Interval
<1>4. pairs \in SUBSET (r \X r)
    <2>1. 0 + 1 = 1
        OBVIOUS
    <2> QED BY <1>1, <2>1 DEF NewPairs
<1> HIDE DEF r
<1>5. IsFiniteSet(r \X r)
    BY <1>3, FS_Product
<1>6. IsFiniteSet(pairs)
    BY <1>4, <1>5, FS_Subset
<1> QED BY <1>1, <1>6, FS_CardinalityType

\* The inductive invariant.  Besides the signal's, it says what an upload under way
\* has read: whole frames only if chunks hold whole frames, and every pair is
\* stored or waits for its batch until the cap is reached.
PrintInv ==
    /\ recording \in Recordings /\ done \in BOOLEAN
    /\ offset \in 0 .. recording.bytes
    /\ pending \in Nat /\ stored \in 0 .. MaxHashes
    /\ SignalInv
    /\ done => ~Live
    /\ ~done => Flowing
    /\ ~Live /\ ~done /\ Aligned =>
         /\ received = (offset \div recording.frame) * recording.scale
         /\ offset < recording.bytes => offset % recording.frame = 0
    /\ ~Live /\ ~done /\ ~Capped => stored + pending = Cardinality(pairs)
    /\ done /\ ~Capped =>
         /\ Len(cut) * Window + dropped \in received .. received + Window - 1
         /\ Aligned => received = (recording.bytes \div recording.frame) * recording.scale
         /\ stored = Cardinality(pairs)

LEMMA RecordingIs ==
    ASSUME NEW r \in Recordings
    PROVE  /\ r.bytes \in Nat /\ r.frame \in Nat /\ r.frame # 0 /\ r.scale \in Nat
           /\ r.bytes # 0 => r.frame <= ReadBytes
<1>1. CASE r = Phone
    BY <1>1 DEF Phone
<1>2. CASE r \in [bytes : Lengths, frame : Frames, scale : Scales]
    <2>1. r.bytes \in Lengths /\ r.frame \in Frames /\ r.scale \in Scales
        BY <1>2
    <2> QED BY <2>1, FingerprinterAssumption
<1> QED BY <1>1, <1>2 DEF Recordings

LEMMA PrintInvInit == PrintInit => PrintInv
<1> SUFFICES ASSUME PrintInit PROVE PrintInv
    OBVIOUS
<1> DEFINE b == recording.bytes
           f == recording.frame
           e == recording.scale
<1>0. b \in Nat /\ f \in Nat /\ f # 0 /\ e \in Nat
    BY RecordingIs DEF PrintInit
<1>a. /\ recording \in Recordings /\ done = FALSE
      /\ offset = 0 /\ received = 0 /\ buffer = 0 /\ dropped = 0
      /\ cut = << >> /\ points = << >> /\ kept = 1 /\ pairs = {}
      /\ pending = 0 /\ stored = 0
    BY DEF PrintInit
<1> HIDE DEF b, f, e
<1>1. << >> \in Seq(Nat) /\ Len(<< >>) = 0 /\ DOMAIN << >> = {}
    OBVIOUS
<1>2. Progress \in States
    <2> DEFINE s == [time |-> 0, points |-> << >>, pairs |-> {}, kept |-> 1]
    <2>1. Progress = s
        BY <1>1, <1>a DEF Progress
    <2>2. s \in Shapes /\ s.points = << >> /\ s.kept = 1 /\ s.pairs = {}
        BY <1>1 DEF Shapes
    <2>3. NewPairs(1, 0, << >>) = {}
        BY <1>1 DEF NewPairs
    <2> HIDE DEF s
    <2>4. Faithful(s)
        <3>1. 1 \in 1 .. 0 + 1 /\ 1 .. 1 - 1 = {}
            OBVIOUS
        <3> QED BY <1>1, <2>2, <2>3, <3>1 DEF Faithful
    <2> QED BY <2>1, <2>2, <2>4 DEF States
<1>3. Whole(0) /\ OnGrid(<< >>, 0)
    <2>1. 0 = Window * 0
        BY PrintNumbers
    <2> QED BY <1>1, <2>1 DEF Whole, OnGrid
<1>4. SignalInv
    <2>1. 0 \in 0 .. Window - 1
        BY PrintNumbers
    <2> QED BY <1>1, <1>2, <1>3, <1>a, <2>1 DEF SignalInv
<1>5. Flowing
    BY <1>1, <1>a, PrintNumbers DEF Flowing
<1>6. offset \div f = 0 /\ offset % f = 0
    <2>1. (f * 0) \div f = 0 /\ (f * 0) % f = 0 /\ f * 0 = 0
        BY <1>0, WholeMod
    <2> QED BY <1>a, <2>1
<1>7. received = (offset \div f) * e
    BY <1>0, <1>6, <1>a
<1>8. stored + pending = Cardinality(pairs)
    BY <1>a, FS_EmptySet
<1>9. offset \in 0 .. b /\ stored \in 0 .. MaxHashes /\ pending \in Nat
    BY <1>0, <1>a, PrintNumbers
<1>10. offset < b => offset % f = 0
    BY <1>6
<1> QED BY <1>4, <1>5, <1>7, <1>8, <1>9, <1>10, <1>a DEF PrintInv, b, f, e

\* A fingerprinter of its own begins like the first.
LEMMA AnewInv == Anew => PrintInv'
<1>1. PrintInit' => PrintInv'
    BY PrintInvInit, PTL
<1>2. Anew => PrintInit'
    BY DEF Anew, PrintInit
<1> QED BY <1>1, <1>2

\* Frames of a file, chunk after chunk.
Adds(f, o, n, e) ==
    /\ ((o + n) \div f) * e = (o \div f) * e + (n \div f) * e
    /\ n % f = 0 => (o + n) % f = 0

LEMMA FramesAdd ==
    ASSUME NEW f \in Nat, f # 0, NEW o \in Nat, NEW n \in Nat, NEW e \in Nat, o % f = 0
    PROVE  Adds(f, o, n, e)
<1> DEFINE a == o \div f
           c == n \div f
           r == n % f
<1>1. a \in Nat /\ o = f * a
    <2>1. o = f * a + (o % f) /\ a \in Nat
        BY DivMod
    <2> HIDE DEF a
    <2>2. f * a \in Nat
        BY <2>1, SMT
    <2> QED BY <2>1, <2>2
<1>2. c \in Nat /\ r \in Nat /\ r < f /\ n = f * c + r
    BY DivMod
<1> HIDE DEF a, c, r
<1>3. o + n = f * (a + c) + r /\ a + c \in Nat /\ o + n \in Nat
    <2>1. f * (a + c) = f * a + f * c
        BY <1>1, <1>2, SMT
    <2>2. f * a \in Nat /\ f * c \in Nat
        BY <1>1, <1>2, SMT
    <2> DEFINE x == f * a
               y == f * c
               z == f * (a + c)
    <2>3. z = x + y /\ x \in Nat /\ y \in Nat /\ o = x /\ n = y + r
        BY <1>1, <1>2, <2>1, <2>2
    <2> HIDE DEF x, y, z
    <2>4. o + n = z + r
        BY <1>2, <2>3
    <2> QED BY <1>1, <1>2, <2>4 DEF z
<1>4. (o + n) \div f = a + c /\ (o + n) % f = r
    BY <1>2, <1>3, DivModIs
<1>5. (a + c) * e = a * e + c * e
    BY <1>1, <1>2, SMT
<1> QED BY <1>4, <1>5 DEF a, c, r, Adds

LEMMA ReadChunkInv ==
    ASSUME PrintInv, ReadChunk
    PROVE  PrintInv'
<1> DEFINE b == recording.bytes
           f == recording.frame
           e == recording.scale
           n == Min({ReadBytes, b - offset})
           m == (n \div f) * e
           waiting == pending + Emitted
           h == (waiting \div Batch) * Batch
<1>0. /\ b \in Nat /\ f \in Nat /\ f # 0 /\ e \in Nat
      /\ offset \in Nat /\ offset < b /\ pending \in Nat /\ stored \in Nat /\ stored < MaxHashes
      /\ ReadBytes \in Nat /\ ReadBytes # 0 /\ Batch \in Nat /\ Batch # 0 /\ MaxHashes \in Nat
      /\ SignalInv /\ Flowing /\ ~Live /\ ~done /\ ~Capped
    BY RecordingIs, PrintNumbers DEF PrintInv, ReadChunk, Capped
<1>1. /\ offset' = offset + n /\ Process(m) /\ UNCHANGED <<recording, done>>
      /\ IF stored + h >= MaxHashes
            THEN stored' = MaxHashes /\ pending' = 0
            ELSE stored' = stored + h /\ pending' = waiting % Batch
    BY DEF ReadChunk, Samples, Batched
<1>2. /\ stored + pending = Cardinality(pairs)
      /\ Aligned => received = (offset \div f) * e /\ offset % f = 0
    BY <1>0 DEF PrintInv
<1>3. n \in Nat /\ n <= ReadBytes /\ n <= b - offset /\ (n < b - offset => n = ReadBytes)
    <2> DEFINE x == b - offset
    <2>1. x \in Nat
        BY <1>0
    <2> HIDE DEF x
    <2>2. \E y \in {ReadBytes, x} : \A z \in {ReadBytes, x} : y <= z
        BY <1>0, <2>1
    <2> DEFINE y == Min({ReadBytes, x})
    <2>3. y \in {ReadBytes, x} /\ \A z \in {ReadBytes, x} : y <= z
        BY <2>2 DEF Min
    <2> HIDE DEF y
    <2>4. y \in Nat /\ y <= ReadBytes /\ y <= x /\ (y < x => y = ReadBytes)
        BY <1>0, <2>1, <2>3
    <2> QED BY <2>4 DEF x, y
<1> HIDE DEF n, b, f, e
<1>4. m \in Nat
    <2>1. n \div f \in Nat
        BY <1>0, <1>3, DivMod
    <2> QED BY <1>0, <2>1, SMT
<1> HIDE DEF m
<1>5. SignalInv' /\ Flowing' /\ received' = received + m /\ pairs \subseteq pairs'
    BY <1>0, <1>1, <1>4, ProcessKeeps
<1>6. /\ Emitted \in Nat /\ Cardinality(pairs)' = Cardinality(pairs) + Emitted
    <2>1. IsFiniteSet(pairs)' /\ Cardinality(pairs)' \in Nat
        <3>1. (SignalInv => IsFiniteSet(pairs) /\ Cardinality(pairs) \in Nat
                             /\ pairs = NewPairs(1, 0, points))'
            BY PairsCount, PTL
        <3> QED BY <1>5, <3>1
    <2>2. Cardinality(pairs) \in Nat
        BY <1>0, PairsCount
    <2>3. Cardinality(pairs) <= Cardinality(pairs)'
        BY <1>5, <2>1, FS_Subset
    <2> QED BY <2>1, <2>2, <2>3 DEF Emitted
<1> HIDE DEF waiting
<1>7. waiting \in Nat /\ Cardinality(pairs)' = stored + waiting
    BY <1>0, <1>2, <1>6 DEF waiting
<1>8. h \in Nat /\ waiting % Batch \in Nat /\ waiting = h + (waiting % Batch)
    <2> DEFINE q == waiting \div Batch
               r == waiting % Batch
    <2>1. q \in Nat /\ r \in Nat /\ waiting = Batch * q + r
        BY <1>0, <1>7, DivMod
    <2> HIDE DEF q, r
    <2>2. q * Batch = Batch * q /\ q * Batch \in Nat
        BY <1>0, <2>1, SMT
    <2> QED BY <2>1, <2>2 DEF q, r
<1> HIDE DEF h
<1>9. stored' \in 0 .. MaxHashes /\ pending' \in Nat
      /\ (stored' < MaxHashes => stored' + pending' = Cardinality(pairs)')
    <2>1. CASE stored + h >= MaxHashes
        BY <1>0, <1>1, <2>1
    <2>2. CASE ~(stored + h >= MaxHashes)
        BY <1>0, <1>1, <1>7, <1>8, <2>2
    <2> QED BY <2>1, <2>2
<1>10. offset' \in 0 .. b
    BY <1>0, <1>1, <1>3
<1>11. ASSUME Aligned
       PROVE  received' = (offset' \div f) * e /\ (offset' < b => offset' % f = 0)
    <2>0. offset % f = 0 /\ received = (offset \div f) * e
        BY <1>2, <1>11
    <2>1. /\ ((offset + n) \div f) * e = (offset \div f) * e + (n \div f) * e
          /\ n % f = 0 => (offset + n) % f = 0
        <3>1. Adds(f, offset, n, e)
            BY <1>0, <1>3, <2>0, FramesAdd
        <3> QED BY <3>1 DEF Adds
    <2>2. received' = ((offset + n) \div f) * e
        BY <1>5, <2>0, <2>1 DEF m
    <2>3. ASSUME offset' < b PROVE offset' % f = 0
        <3>1. n = ReadBytes
            BY <1>0, <1>1, <1>3, <2>3
        <3>2. n % f = 0
            BY <1>11, <3>1 DEF Aligned, f
        <3> QED BY <1>1, <2>1, <3>2
    <2> QED BY <1>1, <2>2, <2>3
<1>12. ~Live' /\ ~done' /\ recording' = recording /\ recording' \in Recordings /\ (Aligned' => Aligned)
    BY <1>0, <1>1 DEF PrintInv, Live, Aligned
<1>13. Capped' <=> ~(stored' < MaxHashes)
    BY <1>0, <1>9 DEF Capped
<1>14. b = recording'.bytes /\ f = recording'.frame /\ e = recording'.scale /\ done' \in BOOLEAN
    BY <1>1, <1>12 DEF b, f, e, PrintInv
<1>15. Aligned' => /\ received' = (offset' \div recording'.frame) * recording'.scale
                   /\ offset' < recording'.bytes => offset' % recording'.frame = 0
    BY <1>11, <1>12, <1>14
<1>16. ~Capped' => stored' + pending' = Cardinality(pairs)'
    BY <1>9, <1>13
<1>17. offset' \in 0 .. recording'.bytes
    BY <1>10, <1>14
<1> QED BY <1>5, <1>9, <1>12, <1>14, <1>15, <1>16, <1>17 DEF PrintInv

\* The end of an upload: the cap cut it short, or all of it is in the fingerprint.
LEMMA ReadEndsInv ==
    ASSUME PrintInv, ReadEnds
    PROVE  PrintInv'
<1>0. /\ ~Live /\ ~done /\ SignalInv /\ Flowing /\ stored \in Nat /\ stored <= MaxHashes
      /\ pending \in Nat /\ MaxHashes \in Nat
    BY PrintNumbers DEF PrintInv, ReadEnds
<1>1. /\ done' = TRUE /\ pending' = 0 /\ UNCHANGED <<recording, offset>>
      /\ ~Live' /\ recording' \in Recordings /\ offset' \in 0 .. recording'.bytes
    BY <1>0 DEF PrintInv, ReadEnds, Live
<1>2. CASE Capped
    <2>1. UNCHANGED <<signal, stored>> /\ Capped'
        BY <1>2 DEF ReadEnds, Capped
    <2>2. SignalInv'
        BY <1>0, <2>1 DEF SignalInv, Progress, signal
    <2>3. stored' \in 0 .. MaxHashes /\ pending' \in Nat
        BY <1>0, <1>1, <2>1
    <2> QED BY <1>1, <2>1, <2>2, <2>3 DEF PrintInv
<1>3. CASE ~Capped
    <2>1. /\ Flush /\ offset = recording.bytes
          /\ stored' = Min({stored + pending + Emitted, MaxHashes})
        BY <1>3 DEF ReadEnds
    <2>2. /\ SignalInv' /\ received' = received /\ pairs \subseteq pairs'
          /\ (Len(cut) * Window + dropped)' \in received .. received + Window - 1
        BY <1>0, <2>1, FlushKeeps
    <2>3. Cardinality(pairs)' \in Nat /\ Cardinality(pairs) \in Nat
        <3>1. (SignalInv => IsFiniteSet(pairs) /\ Cardinality(pairs) \in Nat
                             /\ pairs = NewPairs(1, 0, points))'
            BY PairsCount, PTL
        <3> QED BY <1>0, <2>2, <3>1, PairsCount
    <2>4. stored + pending = Cardinality(pairs)
        BY <1>0, <1>3 DEF PrintInv
    <2> DEFINE x == stored + pending + Emitted
    <2>5. x = Cardinality(pairs)'
        BY <1>0, <2>3, <2>4 DEF Emitted
    <2>6. stored' = Min({x, MaxHashes})
        BY <2>1
    <2> HIDE DEF x
    <2>7. stored' \in 0 .. MaxHashes /\ (stored' < MaxHashes => stored' = Cardinality(pairs)')
        <3>1. \E y \in {x, MaxHashes} : \A z \in {x, MaxHashes} : y <= z
            BY <1>0, <2>3, <2>5
        <3> DEFINE y == Min({x, MaxHashes})
        <3>2. y \in {x, MaxHashes} /\ \A z \in {x, MaxHashes} : y <= z
            BY <3>1 DEF Min
        <3>3. stored' = y
            BY <2>6
        <3> HIDE DEF y
        <3> QED BY <1>0, <2>3, <2>5, <3>2, <3>3
    <2>8. ~Capped' => stored' = Cardinality(pairs)'
        BY <1>0, <2>7 DEF Capped
    <2>9. Aligned' => received' = (recording'.bytes \div recording'.frame) * recording'.scale
        BY <1>0, <1>1, <2>1, <2>2 DEF PrintInv, Aligned
    <2>10. pending' \in Nat
        BY <1>1
    <2> QED BY <1>1, <2>2, <2>7, <2>8, <2>9, <2>10 DEF PrintInv
<1> QED BY <1>2, <1>3

LEMMA LiveChunkInv ==
    ASSUME PrintInv, NEW n \in LiveChunks, LiveChunk(n)
    PROVE  PrintInv'
<1>1. n \in Nat /\ Process(n) /\ UNCHANGED <<recording, done, offset, pending, stored>> /\ Live
    BY PrintNumbers DEF LiveChunk
<1>2. ~done /\ SignalInv /\ Flowing
    BY <1>1 DEF PrintInv
<1>3. SignalInv' /\ Flowing' /\ Live' /\ ~done'
    BY <1>1, <1>2, ProcessKeeps DEF Live
<1> QED BY <1>1, <1>3 DEF PrintInv

LEMMA PrintInvStep == PrintInv /\ [PrintNext]_printVars => PrintInv'
<1> SUFFICES ASSUME PrintInv, [PrintNext]_printVars PROVE PrintInv'
    OBVIOUS
<1>1. CASE UNCHANGED printVars
    BY <1>1 DEF printVars, signal, PrintInv, SignalInv, Flowing, Progress, Live, Capped, Aligned
<1>2. CASE ReadChunk
    BY <1>2, ReadChunkInv
<1>3. CASE ReadEnds
    BY <1>3, ReadEndsInv
<1>4. CASE Anew
    BY <1>4, AnewInv
<1>5. ASSUME NEW n \in LiveChunks, LiveChunk(n) PROVE PrintInv'
    BY <1>5, LiveChunkInv
<1> QED BY <1>1, <1>2, <1>3, <1>4, <1>5 DEF PrintNext

\* The inductive invariant of the fingerprinter.  PrintsLikeWhole alone is not
\* inductive: it says nothing of an upload under way, of the samples that wait in
\* the buffer, nor of what has been forgotten.
THEOREM PrintInvariant == PrintSpec => []PrintInv
<1> QED BY PrintInvInit, PrintInvStep, PTL DEF PrintSpec

\* However it arrives, a recording is fingerprinted like the whole: its windows are
\* on the grid of the recording in one piece, whatever the chunks, and every pair
\* the whole would hash is hashed, although the live path forgets old peaks.
THEOREM PrintsLikeWholeAlways == PrintSpec => []PrintsLikeWhole
<1>1. PrintInv => PrintsLikeWhole
    <2> SUFFICES ASSUME PrintInv PROVE PrintsLikeWhole
        OBVIOUS
    <2>1. OnGrid(cut, dropped) /\ pairs = NewPairs(1, 0, points)
        BY PairsCount DEF PrintInv, SignalInv
    <2>2. CutLikeWhole
        BY <2>1 DEF OnGrid, PrintInv, CutLikeWhole
    <2>3. PairsLikeWhole
        BY <2>1 DEF PrintInv, PairsLikeWhole
    <2> QED BY <2>2, <2>3 DEF PrintsLikeWhole
<1> QED BY <1>1, PrintInvariant, PTL

\* No window waits full, the fingerprint never outgrows its cap and an upload
\* never reads past its end.
THEOREM PrintTypeCorrect == PrintSpec => []PrintTypeOK
<1>1. PrintInv => PrintTypeOK
    <2> SUFFICES ASSUME PrintInv PROVE PrintTypeOK
        OBVIOUS
    <2>1. kept \in 1 .. Len(points) + 1
        <3>1. Faithful(Progress) /\ Progress.kept = kept /\ Progress.points = points
            BY DEF PrintInv, SignalInv, States, Progress
        <3> QED BY <3>1 DEF Faithful
    <2> QED BY <2>1 DEF PrintInv, SignalInv, PrintTypeOK
<1> QED BY <1>1, PrintInvariant, PTL

-----------------------------------------------------------------------------
(* The components together.                                                *)

\* The run of the audio components is a run of each of them: the component that
\* works leaves the others alone, so what is proved of one holds of the composition.
THEOREM AudioCompose ==
    AudioSpec => Spec /\ UploadsSpec /\ MatcherSpec /\ PrintSpec /\ ScoreSpec
<1>1. AudioInit => Init /\ UploadsInit /\ MatcherInit /\ PrintInit /\ ScoreInit
    BY DEF AudioInit
<1> DEFINE all == <<part, vars, uploadVars, matcherVars, printVars, scoreVars>>
<1>2. [AudioNext]_all => [Next]_vars
    BY DEF AudioNext
<1>3. [AudioNext]_all => [UploadsNext]_uploadVars
    BY DEF AudioNext
<1>4. [AudioNext]_all => [MatcherNext]_matcherVars
    BY DEF AudioNext
<1>5. [AudioNext]_all => [PrintNext]_printVars
    BY DEF AudioNext
<1>6. [AudioNext]_all => [ScoreNext]_scoreVars
    BY DEF AudioNext
<1> QED BY <1>1, <1>2, <1>3, <1>4, <1>5, <1>6, PTL
        DEF AudioSpec, Spec, UploadsSpec, MatcherSpec, PrintSpec, ScoreSpec

\* Types of all the components, as the composition runs them.
THEOREM AudioTypesCorrect == AudioSpec => []AudioTypesOK
<1>1. TypeOK /\ TrackTypeOK /\ MatcherTypeOK /\ PrintTypeOK /\ ScoreTypeOK => AudioTypesOK
    BY DEF AudioTypesOK
<1> QED BY <1>1, AudioCompose, MatchTypeCorrect, TracksTypeCorrect, MatcherTypeCorrect,
           PrintTypeCorrect, ScoreTypeCorrect, PTL

=============================================================================
