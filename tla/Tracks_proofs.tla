--------------------------- MODULE Tracks_proofs ---------------------------
(***************************************************************************)
(* Proofs about the reference tracks: the documents that uploads and       *)
(* deletions leave behind (Uploads), and the cache of the matcher's        *)
(* indexes (Matcher).  The two share no state; each has its own            *)
(* specification and its own inductive invariant.                          *)
(***************************************************************************)
EXTENDS Uploads, Matcher, SequenceTheorems, FiniteSetTheorems, WellFoundedInduction, TLAPS

-----------------------------------------------------------------------------
(* Folds.  FoldLeft is a recursive function over the indices of a          *)
(* sequence: here it exists, and runs from prefix to prefix.  The           *)
(* induction is over a set of numbers, whose least element the library's    *)
(* well-founded order gives.                                               *)

\* A set of numbers has a least one.
LEMMA Least ==
    ASSUME NEW T \in SUBSET Nat, T # {}
    PROVE  \E m \in T : \A k \in T : m <= k
<1> DEFINE R == OpToRel(<, Nat)
<1>1. IsWellFoundedOn(R, Nat)
    BY NatLessThanWellFounded
<1>2. PICK m \in T : \A k \in T : ~(<<k, m>> \in R)
    <2> HIDE DEF R
    <2> QED BY <1>1, WFMin
<1>3. \A k \in T : ~(k < m)
    BY <1>2 DEF OpToRel
<1> QED BY <1>3

\* Induction as a fact about sets.
LEMMA Climb ==
    ASSUME NEW n \in Nat, NEW S, 0 \in S, \A k \in 0 .. n - 1 : k \in S => k + 1 \in S
    PROVE  0 .. n \subseteq S
<1> DEFINE T == (0 .. n) \ S
<1> SUFFICES ASSUME T # {} PROVE FALSE
    OBVIOUS
<1>0. T \in SUBSET Nat
    OBVIOUS
<1>1. PICK m \in T : \A k \in T : m <= k
    <2> HIDE DEF T
    <2> QED BY <1>0, Least
<1>2. m # 0 /\ m - 1 \in 0 .. n - 1 /\ m - 1 \notin T
    BY <1>1
<1> QED BY <1>1, <1>2

\* The values that n steps go through.
Steps(n, V) == [1 .. n -> [V -> V]]
Run(n, V, base, step, g) ==
    g \in [0 .. n -> V] /\ g[0] = base /\ \A k \in 1 .. n : g[k] = step[k][g[k - 1]]

LEMMA Iterate ==
    ASSUME NEW n \in Nat, NEW V, NEW base \in V, NEW step \in Steps(n, V)
    PROVE  \E g : Run(n, V, base, step, g)
<1>. step \in [1 .. n -> [V -> V]]
    BY DEF Steps
<1> DEFINE Good(m, g) == g \in [0 .. m -> V] /\ g[0] = base /\ \A k \in 1 .. m : g[k] = step[k][g[k - 1]]
           S == {m \in 0 .. n : \E g : Good(m, g)}
<1>1. 0 \in S
    <2>1. Good(0, [k \in 0 .. 0 |-> base])
        OBVIOUS
    <2> HIDE DEF Good
    <2> QED BY <2>1
<1>2. ASSUME NEW m \in 0 .. n - 1, m \in S PROVE m + 1 \in S
    <2>1. PICK g : Good(m, g)
        BY <1>2
    <2> DEFINE h == [k \in 0 .. m + 1 |-> IF k = m + 1 THEN step[m + 1][g[m]] ELSE g[k]]
    <2>2. g[m] \in V /\ m + 1 \in 1 .. n
        BY <2>1, <1>2
    <2>3. h \in [0 .. m + 1 -> V]
        BY <2>1, <2>2
    <2>4. \A k \in 1 .. m + 1 : h[k] = step[k][h[k - 1]]
        BY <2>1
    <2>5. Good(m + 1, h)
        BY <2>1, <2>3, <2>4
    <2>6. m + 1 \in 0 .. n
        BY <1>2
    <2> HIDE DEF Good
    <2> QED BY <2>5, <2>6
<1> HIDE DEF S
<1>3. 0 .. n \subseteq S
    BY <1>1, <1>2, Climb
<1>4. n \in S
    BY <1>3
<1> QED BY <1>4 DEF S, Run

LEMMA MaxOfRange ==
    ASSUME NEW n \in Nat, NEW s \in SUBSET (0 .. n), s # {}
    PROVE  Max(s) \in s /\ \A k \in s : Max(s) >= k
<1>1. \E m \in s : \A k \in s : m >= k
    <2> DEFINE T == {d \in 0 .. n : n - d \in s}
    <2>1. T \in SUBSET Nat
        OBVIOUS
    <2>0. T # {}
        <3>0. PICK k \in s : TRUE
            OBVIOUS
        <3>1. k \in 0 .. n
            OBVIOUS
        <3>2. n - k \in 0 .. n /\ n - (n - k) = k
            BY <3>1
        <3>3. n - k \in T
            BY <3>2
        <3> QED BY <3>3
    <2>2. PICK d \in T : \A k \in T : d <= k
        <3> HIDE DEF T
        <3> QED BY <2>0, <2>1, Least
    <2>3. \A k \in s : n - k \in T
        OBVIOUS
    <2> QED BY <2>2, <2>3
<1> QED BY <1>1 DEF Max

LEMMA MaxOfInterval ==
    ASSUME NEW n \in Nat, NEW s \in SUBSET (1 .. n), s # {}
    PROVE  Max(s) \in s /\ \A k \in s : Max(s) >= k
<1>1. s \in SUBSET (0 .. n)
    OBVIOUS
<1> QED BY <1>1, MaxOfRange

LEMMA Upward ==
    ASSUME NEW n \in Nat
    PROVE  /\ \A k \in 1 .. n : Max(1 .. k) = k /\ (1 .. k) \ {k} = 1 .. k - 1
           /\ 1 .. 0 = {}
<1> SUFFICES ASSUME NEW k \in 1 .. n PROVE Max(1 .. k) = k
    OBVIOUS
<1> DEFINE s == 1 .. k
<1>1. s \in SUBSET (1 .. k) /\ s # {} /\ k \in Nat
    OBVIOUS
<1>2. Max(s) \in s /\ \A i \in s : Max(s) >= i
    <2> HIDE DEF s
    <2> QED BY <1>1, MaxOfInterval
<1> QED BY <1>2

\* One more level of a fold that takes the largest index last.
LayerAt(base, step, f, s) == IF s = {} THEN base ELSE step[Max(s)][f[s \ {Max(s)}]]
Layer(D, base, step, f) == [s \in D |-> LayerAt(base, step, f, s)]

Lowest(n, k) == {s \in SUBSET (1 .. n) : \A i \in s : i <= k}

LEMMA LayerType ==
    ASSUME NEW n \in Nat, NEW W, NEW base \in W, NEW step \in Steps(n, W),
           NEW f \in [SUBSET (1 .. n) -> W]
    PROVE  Layer(SUBSET (1 .. n), base, step, f) \in [SUBSET (1 .. n) -> W]
<1>1. ASSUME NEW s \in SUBSET (1 .. n), s # {} PROVE step[Max(s)][f[s \ {Max(s)}]] \in W
    <2>1. Max(s) \in 1 .. n
        BY <1>1, MaxOfInterval
    <2>2. f[s \ {Max(s)}] \in W
        OBVIOUS
    <2> QED BY <2>1, <2>2 DEF Steps
<1> QED BY <1>1 DEF Layer, LayerAt

LEMMA LowestSound ==
    ASSUME NEW n \in Nat
    PROVE  /\ Lowest(n, 0) = {{}} /\ Lowest(n, n) = SUBSET (1 .. n)
           /\ \A k \in 0 .. n - 1 : \A s \in Lowest(n, k + 1) :
                 s # {} => s \ {Max(s)} \in Lowest(n, k)
<1>1. Lowest(n, 0) = {{}} /\ Lowest(n, n) = SUBSET (1 .. n)
    BY DEF Lowest
<1>2. ASSUME NEW k \in 0 .. n - 1, NEW s \in Lowest(n, k + 1), s # {}
      PROVE  s \ {Max(s)} \in Lowest(n, k)
    <2>1. s \in SUBSET (1 .. n) /\ \A i \in s : i <= k + 1
        BY DEF Lowest
    <2>2. Max(s) \in s /\ \A i \in s : Max(s) >= i
        BY <1>2, <2>1, MaxOfInterval
    <2>3. ASSUME NEW i \in s \ {Max(s)} PROVE i \in 1 .. n /\ i <= k
        <3>1. i \in 1 .. n /\ Max(s) \in 1 .. n /\ Max(s) <= k + 1 /\ Max(s) >= i /\ i # Max(s)
            BY <2>1, <2>2
        <3> HIDE DEF Max
        <3> QED BY <3>1
    <2> QED BY <2>1, <2>3 DEF Lowest
<1> QED BY <1>1, <1>2

LEMMA LayerLocal ==
    ASSUME NEW n \in Nat, NEW k \in 0 .. n - 1, NEW base, NEW step, NEW f, NEW h,
           \A s \in Lowest(n, k) : f[s] = h[s], NEW s \in Lowest(n, k + 1)
    PROVE  LayerAt(base, step, f, s) = LayerAt(base, step, h, s)
<1>1. s # {} => f[s \ {Max(s)}] = h[s \ {Max(s)}]
    BY LowestSound
<1> QED BY <1>1 DEF LayerAt

\* A fold over the subsets of 1 .. n.
IsFold(n, W, base, step, iter) ==
    /\ iter \in [SUBSET (1 .. n) -> W]
    /\ iter = Layer(SUBSET (1 .. n), base, step, iter)

LEMMA FoldExists ==
    ASSUME NEW n \in Nat, NEW W, NEW base \in W, NEW step \in Steps(n, W)
    PROVE  \E iter : IsFold(n, W, base, step, iter)
<1> DEFINE D == SUBSET (1 .. n)
           V == [D -> W]
           start == [s \in D |-> base]
           more == [k \in 1 .. n |-> [f \in V |-> Layer(D, base, step, f)]]
<1>1. \A f \in V : Layer(D, base, step, f) \in V
    BY LayerType
<1>2. start \in V /\ more \in Steps(n, V)
    BY <1>1 DEF Steps
<1>3. \A k \in 1 .. n : \A f \in V : more[k][f] = Layer(D, base, step, f)
    OBVIOUS
<1>4. \A s \in D : start[s] = base
    OBVIOUS
<1> HIDE DEF start, more, V
<1>5. PICK g : Run(n, V, start, more, g)
    BY <1>2, Iterate
<1>6. ASSUME NEW k \in 0 .. n PROVE g[k] \in V
    BY <1>5 DEF Run
<1>7. g[0] = start
    BY <1>5 DEF Run
<1>8. ASSUME NEW k \in 0 .. n - 1 PROVE g[k + 1] = Layer(D, base, step, g[k])
    <2>1. k + 1 \in 1 .. n /\ (k + 1) - 1 = k /\ k \in 0 .. n
        OBVIOUS
    <2>2. g[k + 1] = more[k + 1][g[(k + 1) - 1]]
        BY <1>5, <2>1 DEF Run
    <2> QED BY <1>3, <1>6, <2>1, <2>2
<1> DEFINE Settled == {k \in 0 .. n : \A s \in Lowest(n, k) : Layer(D, base, step, g[k])[s] = g[k][s]}
<1>9. 0 \in Settled
    <2>1. ASSUME NEW s \in Lowest(n, 0) PROVE Layer(D, base, step, g[0])[s] = g[0][s]
        <3>1. s \in D /\ s = {}
            BY LowestSound
        <3>2. Layer(D, base, step, g[0])[s] = LayerAt(base, step, g[0], s)
            BY <3>1 DEF Layer
        <3>3. LayerAt(base, step, g[0], s) = base
            BY <3>1 DEF LayerAt
        <3> QED BY <1>4, <1>7, <3>1, <3>2, <3>3
    <2>2. 0 \in 0 .. n
        OBVIOUS
    <2> QED BY <2>1, <2>2
<1>10. ASSUME NEW k \in 0 .. n - 1, k \in Settled PROVE k + 1 \in Settled
    <2>1. ASSUME NEW s \in Lowest(n, k + 1)
          PROVE  Layer(D, base, step, g[k + 1])[s] = g[k + 1][s]
        <3>1. s \in D
            BY DEF Lowest
        <3>2. g[k + 1][s] = LayerAt(base, step, g[k], s)
            BY <1>8, <3>1 DEF Layer
        <3>3. Layer(D, base, step, g[k + 1])[s] = LayerAt(base, step, g[k + 1], s)
            BY <3>1 DEF Layer
        <3>4. \A t \in Lowest(n, k) : g[k + 1][t] = g[k][t]
            BY <1>8, <1>10
        <3> QED BY <3>2, <3>3, <3>4, LayerLocal
    <2>2. k + 1 \in 0 .. n
        OBVIOUS
    <2> QED BY <2>1, <2>2
<1>11. 0 .. n \subseteq Settled
    <2> HIDE DEF Settled
    <2> QED BY <1>9, <1>10, Climb
<1>12. \A s \in D : Layer(D, base, step, g[n])[s] = g[n][s]
    <2>1. n \in 0 .. n
        OBVIOUS
    <2> QED BY <1>11, <2>1, LowestSound
<1>13. g[n] \in [D -> W] /\ Layer(D, base, step, g[n]) \in [D -> W]
    <2>1. n \in 0 .. n
        OBVIOUS
    <2> QED BY <1>1, <1>6, <2>1 DEF V
<1>14. \A f, h \in [D -> W] : (\A s \in D : f[s] = h[s]) => f = h
    OBVIOUS
<1>15. g[n] = Layer(D, base, step, g[n])
    BY <1>12, <1>13, <1>14
<1> QED BY <1>13, <1>15 DEF IsFold

\* Its values, one element after the other.
Unrolls(n, W, base, step, f) ==
    /\ f \in [SUBSET (1 .. n) -> W] /\ f[{}] = base
    /\ \A s \in SUBSET (1 .. n) : s # {} =>
         /\ Max(s) \in 1 .. n /\ f[s \ {Max(s)}] \in W
         /\ f[s] = step[Max(s)][f[s \ {Max(s)}]]

LEMMA FoldUnrolls ==
    ASSUME NEW n \in Nat, NEW W, NEW base \in W, NEW step \in Steps(n, W)
    PROVE  \E f : Unrolls(n, W, base, step, f)
<1>0. PICK f : IsFold(n, W, base, step, f)
    BY FoldExists
<1> DEFINE D == SUBSET (1 .. n)
<1>1. f \in [D -> W] /\ \A s \in D : f[s] = LayerAt(base, step, f, s)
    BY <1>0 DEF IsFold, Layer
<1>2. {} \in D
    OBVIOUS
<1>3. ASSUME NEW s \in D, s # {} PROVE Max(s) \in 1 .. n /\ s \ {Max(s)} \in D
    BY <1>3, MaxOfInterval
<1> HIDE DEF D
<1>4. ASSUME NEW s \in D, s # {}
      PROVE  /\ Max(s) \in 1 .. n /\ f[s \ {Max(s)}] \in W
             /\ f[s] = step[Max(s)][f[s \ {Max(s)}]]
    BY <1>1, <1>3, <1>4 DEF LayerAt
<1>5. f[{}] = base
    BY <1>1, <1>2 DEF LayerAt
<1> QED BY <1>1, <1>4, <1>5 DEF D, Unrolls

\* What is known of a fold before its values are known to be in W.
Unfolds(n, W, base, step, c) ==
    /\ c[{}] = base
    /\ \A s \in SUBSET (1 .. n) :
         s # {} /\ c[s \ {Max(s)}] \in W => c[s] = step[Max(s)][c[s \ {Max(s)}]]

\* A fold goes from prefix to prefix.
LEMMA FoldRuns ==
    ASSUME NEW n \in Nat, NEW W, NEW base \in W, NEW step \in Steps(n, W), NEW c,
           Unfolds(n, W, base, step, c)
    PROVE  \E g : Run(n, W, base, step, g) /\ g[n] = c[1 .. n]
<1>0. c[{}] = base
    BY DEF Unfolds
<1>a. ASSUME NEW k \in 1 .. n, c[1 .. k - 1] \in W PROVE c[1 .. k] = step[k][c[1 .. k - 1]]
    <2> DEFINE s == 1 .. k
    <2>1. Max(s) = k /\ s \ {Max(s)} = 1 .. k - 1
        BY Upward
    <2>2. s \in SUBSET (1 .. n) /\ s # {}
        <3>1. k \in 1 .. k /\ 1 .. k \subseteq 1 .. n
            OBVIOUS
        <3> QED BY <3>1
    <2> HIDE DEF s
    <2>3. c[s] = step[Max(s)][c[s \ {Max(s)}]]
        BY <1>a, <2>1, <2>2 DEF Unfolds
    <2> QED BY <2>1, <2>3 DEF s
<1> DEFINE g == [k \in 0 .. n |-> c[1 .. k]]
           S == {k \in 0 .. n : c[1 .. k] \in W}
<1>1. 1 .. 0 = {} /\ 0 \in 0 .. n /\ n \in 0 .. n
    OBVIOUS
<1>2. 0 \in S
    BY <1>0, <1>1
<1>3. ASSUME NEW k \in 0 .. n - 1, k \in S PROVE k + 1 \in S
    <2>1. k + 1 \in 1 .. n /\ (k + 1) - 1 = k /\ k + 1 \in 0 .. n
        OBVIOUS
    <2>2. c[1 .. k + 1] = step[k + 1][c[1 .. k]]
        BY <1>a, <1>3, <2>1
    <2>3. step[k + 1][c[1 .. k]] \in W
        BY <1>3, <2>1 DEF Steps
    <2> QED BY <2>1, <2>2, <2>3
<1>4. 0 .. n \subseteq S
    <2> HIDE DEF S
    <2> QED BY <1>2, <1>3, Climb
<1>5. \A k \in 0 .. n : g[k] = c[1 .. k] /\ g[k] \in W
    BY <1>4
<1>6. g \in [0 .. n -> W]
    BY <1>4
<1> HIDE DEF g
<1>7. ASSUME NEW k \in 1 .. n PROVE g[k] = step[k][g[k - 1]]
    <2>1. k \in 0 .. n /\ k - 1 \in 0 .. n
        OBVIOUS
    <2> QED BY <1>a, <1>5, <2>1
<1>8. g[0] = base
    BY <1>0, <1>1, <1>5
<1> QED BY <1>1, <1>5, <1>6, <1>7, <1>8 DEF Run

-----------------------------------------------------------------------------
(* Uploads and deletions.                                                  *)

Writes == {"track", "print"}

Edits ==
    [pc : {"idle", "checked", "made", "decodes", "saves", "deletes"},
     event : Events \cup {Nothing}, audio : Audios \cup {Nothing}, track : Nat,
     todo : SUBSET Writes]

\* A deletion of the track has not reached its fingerprint row.
PrintGoes(i) ==
    \E h \in Editors : edit[h].pc = "deletes" /\ edit[h].track = i /\ "print" \in edit[h].todo

\* A deletion of the track is done with its fingerprint row.
PrintGone(i) ==
    \E h \in Editors : edit[h].pc = "deletes" /\ edit[h].track = i /\ "print" \notin edit[h].todo

\* The track is excused, or its fingerprint row is gone or will go, and no
\* upload will write it again.
Covered(i) ==
    \/ i \in excused
    \/ PrintGoes(i)
    \/ i \notin DOMAIN prints /\ ~UploadBehind(i)

\* What an editor holds is what its place in the handler says.
EditOK(h) ==
    /\ edit[h].pc = "checked" =>
        edit[h].event \in Events /\ edit[h].audio \in Audios /\ edit[h].track = 0
    /\ edit[h].pc \in {"made", "decodes", "saves", "deletes"} => edit[h].track \in DOMAIN made
    /\ edit[h].track # 0 => edit[h].track \in DOMAIN made
    /\ edit[h].todo # {} => edit[h].pc \in {"saves", "deletes"}

\* A track that is not there, or whose deletion is done with the fingerprint
\* row, is covered.  StrayNeedsRace alone is not inductive: it says nothing of a
\* row that an upload under way is about to write.
GoneIsCovered ==
    \A i \in DOMAIN made : i \notin DOMAIN tracks \/ PrintGone(i) => Covered(i)

UploadsInv ==
    /\ made \in Seq(Events \X Audios)
    /\ edit \in [Editors -> Edits]
    /\ \A h \in Editors : EditOK(h)
    /\ DOMAIN tracks \cup DOMAIN prints \subseteq DOMAIN made
    /\ \A i, j \in DOMAIN tracks : made[i] = made[j] => i = j
    /\ excused \subseteq DOMAIN made
    /\ GoneIsCovered

LEMMA UploadsInitInv == UploadsInit => UploadsInv
<1> SUFFICES ASSUME UploadsInit PROVE UploadsInv
    OBVIOUS
<1>1. NoEdit \in Edits
    BY DEF NoEdit, Edits, Writes
<1>2. edit \in [Editors -> Edits] /\ made \in Seq(Events \X Audios)
    BY <1>1 DEF UploadsInit
<1>3. DOMAIN made = {} /\ DOMAIN tracks = {} /\ DOMAIN prints = {}
    BY DEF UploadsInit
<1>4. \A h \in Editors : EditOK(h)
    BY DEF UploadsInit, NoEdit, EditOK
<1>5. GoneIsCovered
    BY <1>3 DEF UploadsInit, NoEdit, GoneIsCovered
<1> QED BY <1>2, <1>3, <1>4, <1>5 DEF UploadsInit, UploadsInv

\* A step of one editor that leaves the documents and the excuses alone keeps
\* every cover, unless it stands behind a fingerprint row or gives one up.
LEMMA QuietEditor ==
    ASSUME UploadsInv, NEW h \in Editors, NEW n \in Edits,
           edit' = [edit EXCEPT ![h] = n],
           made' = made, DOMAIN tracks' = DOMAIN tracks, DOMAIN prints' = DOMAIN prints,
           excused \subseteq excused',
           excused' \subseteq DOMAIN made,
           EditOK(h)',
           n.pc # "made",
           edit[h].pc = "deletes" /\ "print" \in edit[h].todo =>
               \/ edit[h].track \in excused'
               \/ n.pc = "deletes" /\ n.track = edit[h].track /\ "print" \in n.todo,
           n.pc = "deletes" /\ "print" \notin n.todo =>
               \/ n.track \in excused'
               \/ edit[h].pc = "deletes" /\ n.track = edit[h].track /\ "print" \notin edit[h].todo
    PROVE  UploadsInv'
<1>1. /\ edit' \in [Editors -> Edits] /\ edit'[h] = n
      /\ \A g \in Editors : g # h => edit'[g] = edit[g]
    BY DEF UploadsInv
<1>2. \A g \in Editors : EditOK(g)'
    BY <1>1 DEF UploadsInv, EditOK
<1>3. \A i \in DOMAIN made : Covered(i) => Covered(i)'
    BY <1>1 DEF Covered, PrintGoes, UploadBehind
<1>4. GoneIsCovered'
    <2> SUFFICES ASSUME NEW i \in DOMAIN made, i \notin DOMAIN tracks \/ PrintGone(i)'
                 PROVE  Covered(i)'
        BY DEF GoneIsCovered
    <2>1. CASE i \notin DOMAIN tracks \/ PrintGone(i)
        BY <1>3, <2>1 DEF UploadsInv, GoneIsCovered
    <2>2. CASE PrintGone(i)' /\ ~PrintGone(i)
        <3>1. PICK g \in Editors : edit'[g].pc = "deletes" /\ edit'[g].track = i
                                 /\ "print" \notin edit'[g].todo
            BY <2>2 DEF PrintGone
        <3>2. g = h /\ i \in excused'
            BY <1>1, <2>2, <3>1 DEF PrintGone
        <3> QED BY <3>2 DEF Covered
    <2> QED BY <2>1, <2>2
<1> QED BY <1>1, <1>2, <1>4 DEF UploadsInv

LEMMA UploadStartsInv ==
    ASSUME UploadsInv, NEW h \in Editors, NEW e \in Events, NEW a \in Audios,
           UploadStarts(h, e, a)
    PROVE  UploadsInv'
<1> DEFINE n == [NoEdit EXCEPT !.pc = "checked", !.event = e, !.audio = a]
<1>1. /\ n \in Edits /\ n.pc = "checked" /\ n.event = e /\ n.audio = a
      /\ n.track = 0 /\ n.todo = {}
    BY DEF NoEdit, Edits, Writes
<1>2. /\ edit' = [edit EXCEPT ![h] = n] /\ edit[h].pc = "idle"
      /\ UNCHANGED <<made, tracks, prints, excused>>
    BY DEF UploadStarts, NoEdit
<1> HIDE DEF n
<1>3. edit'[h] = n
    BY <1>2 DEF UploadsInv
<1>4. EditOK(h)'
    BY <1>1, <1>3 DEF EditOK
<1> QED BY <1>1, <1>2, <1>4, QuietEditor DEF UploadsInv

\* An editor that gives up, or whose last write is over.
LEMMA EditorStops ==
    ASSUME UploadsInv, NEW h \in Editors, edit' = [edit EXCEPT ![h] = NoEdit],
           made' = made, DOMAIN tracks' = DOMAIN tracks, DOMAIN prints' = DOMAIN prints,
           excused \subseteq excused', excused' \subseteq DOMAIN made,
           edit[h].pc = "deletes" /\ "print" \in edit[h].todo => edit[h].track \in excused'
    PROVE  UploadsInv'
<1>1. NoEdit \in Edits /\ NoEdit.pc = "idle" /\ NoEdit.track = 0 /\ NoEdit.todo = {}
    BY DEF NoEdit, Edits, Writes
<1>2. edit'[h] = NoEdit
    BY DEF UploadsInv
<1>3. EditOK(h)'
    BY <1>1, <1>2 DEF EditOK
<1> QED BY <1>1, <1>3, QuietEditor

LEMMA UploadFailsInv ==
    ASSUME UploadsInv, NEW h \in Editors, UploadFails(h)
    PROVE  UploadsInv'
<1>1. /\ edit' = [edit EXCEPT ![h] = NoEdit] /\ edit[h].pc # "deletes"
      /\ excused' = excused \cup ({edit[h].track} \ {0})
      /\ UNCHANGED <<made, tracks, prints>>
    BY DEF UploadFails
<1>2. excused \subseteq excused' /\ excused' \subseteq DOMAIN made
    BY <1>1 DEF UploadsInv, EditOK
<1> QED BY <1>1, <1>2, EditorStops

LEMMA DecodedInv ==
    ASSUME UploadsInv, NEW h \in Editors, Decoded(h)
    PROVE  UploadsInv'
<1> DEFINE n == [edit[h] EXCEPT !.pc = "saves", !.todo = Writes]
<1>0. edit[h] \in Edits
    BY DEF UploadsInv
<1>1. n \in Edits /\ n.pc = "saves" /\ n.track = edit[h].track /\ n.todo = Writes
    BY <1>0 DEF Edits
<1>2. /\ edit' = [edit EXCEPT ![h] = n] /\ edit[h].pc = "decodes"
      /\ UNCHANGED <<made, tracks, prints, excused>>
    BY DEF Decoded, UploadsInv, Edits, Writes
<1> HIDE DEF n
<1>3. edit'[h] = n
    BY <1>2 DEF UploadsInv
<1>4. EditOK(h)'
    BY <1>1, <1>2, <1>3 DEF EditOK, UploadsInv
<1> QED BY <1>1, <1>2, <1>4, QuietEditor DEF UploadsInv

LEMMA DeleteStartsInv ==
    ASSUME UploadsInv, NEW h \in Editors, NEW i \in DOMAIN tracks, DeleteStarts(h, i)
    PROVE  UploadsInv'
<1> DEFINE n == [NoEdit EXCEPT !.pc = "deletes", !.track = i, !.todo = Writes]
<1>0. i \in DOMAIN made /\ i \in Nat
    BY LenProperties DEF UploadsInv
<1>1. n \in Edits /\ n.pc = "deletes" /\ n.track = i /\ n.todo = Writes
    BY <1>0 DEF NoEdit, Edits, Writes
<1>2. /\ edit' = [edit EXCEPT ![h] = n] /\ edit[h].pc = "idle"
      /\ UNCHANGED <<made, tracks, prints, excused>>
    BY DEF DeleteStarts, NoEdit, Erased, Writes
<1> HIDE DEF n
<1>3. edit'[h] = n
    BY <1>2 DEF UploadsInv
<1>4. EditOK(h)'
    BY <1>0, <1>1, <1>2, <1>3 DEF EditOK
<1> QED BY <1>1, <1>2, <1>4, QuietEditor DEF UploadsInv, Writes

\* One of the writes of an editor ends.  A write to the fingerprint row that a
\* deletion gives up must be excused.
LEMMA WriteEndsInv ==
    ASSUME UploadsInv, NEW h \in Editors, NEW w \in Writes, w \in edit[h].todo,
           WriteEnds(h, w), made' = made,
           DOMAIN tracks' = DOMAIN tracks, DOMAIN prints' = DOMAIN prints,
           excused \subseteq excused', excused' \subseteq DOMAIN made,
           edit[h].pc = "deletes" => edit[h].track \in excused'
    PROVE  UploadsInv'
<1> DEFINE n == [edit[h] EXCEPT !.todo = @ \ {w}]
<1>0. edit[h] \in Edits
    BY DEF UploadsInv
<1>1. n \in Edits /\ n.pc = edit[h].pc /\ n.track = edit[h].track /\ n.todo = edit[h].todo \ {w}
    BY <1>0 DEF Edits
<1>2. edit[h].pc \in {"saves", "deletes"}
    BY DEF UploadsInv, EditOK
<1>3. CASE edit[h].todo = {w}
    BY <1>3, EditorStops DEF WriteEnds
<1>4. CASE edit[h].todo # {w}
    <2>1. edit' = [edit EXCEPT ![h] = n]
        <3>1. edit' = [edit EXCEPT ![h] = IF edit[h].todo = {w} THEN NoEdit ELSE n]
            BY DEF WriteEnds
        <3>2. (IF edit[h].todo = {w} THEN NoEdit ELSE n) = n
            BY <1>4
        <3> HIDE DEF n
        <3> QED BY <3>1, <3>2
    <2> HIDE DEF n
    <2>2. edit'[h] = n
        BY <2>1 DEF UploadsInv
    <2>3. EditOK(h)'
        BY <1>1, <1>2, <2>2 DEF EditOK, UploadsInv
    <2> QED BY <1>1, <1>2, <2>1, <2>3, QuietEditor
<1> QED BY <1>3, <1>4

LEMMA UploadSavesInv ==
    ASSUME UploadsInv, NEW h \in Editors, NEW w \in Writes, UploadSaves(h, w)
    PROVE  UploadsInv'
<1>1. DOMAIN Updated(tracks, edit[h].track) = DOMAIN tracks
      /\ DOMAIN Updated(prints, edit[h].track) = DOMAIN prints
    BY DEF Updated, Put
<1>2. DOMAIN tracks' = DOMAIN tracks /\ DOMAIN prints' = DOMAIN prints
    BY <1>1 DEF UploadSaves
<1> QED BY <1>2, WriteEndsInv DEF UploadSaves, UploadsInv

LEMMA WriteFailsInv ==
    ASSUME UploadsInv, NEW h \in Editors, NEW w \in Writes, WriteFails(h, w)
    PROVE  UploadsInv'
<1>1. excused \subseteq excused' /\ excused' \subseteq DOMAIN made /\ edit[h].track \in excused'
    BY DEF WriteFails, UploadsInv, EditOK
<1> QED BY <1>1, WriteEndsInv DEF WriteFails

\* A fingerprint row is written for a track that is there or is excused, or
\* while the deletion that will remove it is under way.
LEMMA PrintIsMadeInv ==
    ASSUME UploadsInv, NEW h \in Editors, PrintIsMade(h)
    PROVE  UploadsInv'
<1> DEFINE i == edit[h].track
           n == [edit[h] EXCEPT !.pc = "decodes"]
<1>0. edit[h] \in Edits
    BY DEF UploadsInv
<1>1. n \in Edits /\ n.pc = "decodes" /\ n.track = i /\ n.todo = edit[h].todo
    BY <1>0 DEF Edits
<1>2. /\ edit' = [edit EXCEPT ![h] = n] /\ edit[h].pc = "made"
      /\ UNCHANGED <<made, tracks, excused>>
      /\ DOMAIN prints' = DOMAIN prints \cup {i} /\ i \in DOMAIN made
    BY DEF PrintIsMade, Put, UploadsInv, EditOK
<1> HIDE DEF n
<1>3. edit'[h] = n /\ \A g \in Editors : g # h => edit'[g] = edit[g]
    BY <1>2 DEF UploadsInv
<1>4. \A g \in Editors : EditOK(g)'
    BY <1>1, <1>2, <1>3 DEF EditOK, UploadsInv
<1>5. GoneIsCovered'
    <2> SUFFICES ASSUME NEW j \in DOMAIN made, j \notin DOMAIN tracks \/ PrintGone(j)'
                 PROVE  Covered(j)'
        BY <1>2 DEF GoneIsCovered
    <2>1. PrintGone(j)' => PrintGone(j)
        BY <1>1, <1>2, <1>3 DEF PrintGone
    <2>2. Covered(j)
        BY <2>1 DEF UploadsInv, GoneIsCovered
    <2>3. PrintGoes(j) => PrintGoes(j)'
        BY <1>1, <1>2, <1>3 DEF PrintGoes
    <2>4. UploadBehind(j)' => UploadBehind(j)
        BY <1>1, <1>2, <1>3 DEF UploadBehind
    <2>5. j = i => UploadBehind(j)
        BY <1>2 DEF UploadBehind
    <2> QED BY <1>2, <2>2, <2>3, <2>4, <2>5 DEF Covered
<1> QED BY <1>1, <1>2, <1>3, <1>4, <1>5 DEF UploadsInv

\* A track is made for an audio the event has not, and with an id of its own.
LEMMA TrackIsMadeInv ==
    ASSUME UploadsInv, NEW h \in Editors, TrackIsMade(h)
    PROVE  UploadsInv'
<1> DEFINE e == edit[h].event
           a == edit[h].audio
           i == Len(made) + 1
           n == [edit[h] EXCEPT !.pc = "made", !.track = i]
<1>0. /\ edit[h] \in Edits /\ edit[h].pc = "checked" /\ e \in Events /\ a \in Audios
      /\ edit[h].todo = {} /\ Len(made) \in Nat /\ DOMAIN made = 1 .. Len(made)
    BY LenProperties DEF TrackIsMade, UploadsInv, EditOK
<1>1. CASE ~UniqueAudio(e, a)
    BY <1>0, <1>1, EditorStops DEF TrackIsMade, UploadsInv
<1>2. CASE UniqueAudio(e, a)
    <2>1. n \in Edits /\ n.pc = "made" /\ n.track = i /\ n.todo = {} /\ i \in Nat
        <3>1. i \in Nat
            BY <1>0
        <3> HIDE DEF i
        <3> QED BY <1>0, <3>1 DEF Edits
    <2>2. /\ made' = Append(made, <<e, a>>) /\ tracks' = Put(tracks, Len(made'), FALSE)
          /\ edit' = [edit EXCEPT ![h].pc = "made", ![h].track = Len(made')]
          /\ UNCHANGED <<prints, excused>>
        BY <1>2 DEF TrackIsMade
    <2>3. /\ made' \in Seq(Events \X Audios) /\ Len(made') = i
          /\ DOMAIN made' = 1 .. i /\ made'[i] = <<e, a>>
          /\ \A j \in DOMAIN made : made'[j] = made[j]
        BY <1>0, <2>2, AppendProperties, LenProperties DEF UploadsInv
    <2>4. edit' = [edit EXCEPT ![h] = n] /\ DOMAIN tracks' = DOMAIN tracks \cup {i}
        BY <2>2, <2>3 DEF Put, UploadsInv, Edits
    <2> HIDE DEF n
    <2>5. edit'[h] = n /\ edit' \in [Editors -> Edits]
          /\ \A g \in Editors : g # h => edit'[g] = edit[g]
        BY <2>1, <2>4 DEF UploadsInv
    <2>6. DOMAIN made \subseteq DOMAIN made' /\ i \in DOMAIN made' /\ i \notin DOMAIN made
        BY <1>0, <2>3
    <2>7. \A g \in Editors : EditOK(g)'
        BY <2>1, <2>5, <2>6 DEF EditOK, UploadsInv
    <2>8. \A j, k \in DOMAIN tracks' : made'[j] = made'[k] => j = k
        <3>1. \A j \in DOMAIN tracks : made[j] # <<e, a>> /\ j \in DOMAIN made
            BY <1>2 DEF UniqueAudio, Duplicates, UploadsInv
        <3> QED BY <2>3, <2>4, <3>1 DEF UploadsInv
    <2>9. GoneIsCovered'
        <3> SUFFICES ASSUME NEW j \in DOMAIN made', j \notin DOMAIN tracks' \/ PrintGone(j)'
                     PROVE  Covered(j)'
            BY DEF GoneIsCovered
        <3>1. PrintGone(j)' => PrintGone(j)
            BY <2>1, <2>5 DEF PrintGone
        <3>2. PrintGone(j) => j \in DOMAIN made
            BY DEF PrintGone, UploadsInv, EditOK
        <3>3. j \in DOMAIN made /\ j # i /\ Covered(j)
            BY <1>0, <2>3, <2>4, <2>6, <3>1, <3>2 DEF UploadsInv, GoneIsCovered
        <3>4. PrintGoes(j) => PrintGoes(j)'
            BY <1>0, <2>5 DEF PrintGoes
        <3>5. UploadBehind(j)' => UploadBehind(j)
            BY <2>1, <2>5, <3>3 DEF UploadBehind
        <3> QED BY <2>2, <3>3, <3>4, <3>5 DEF Covered
    <2> QED BY <2>2, <2>3, <2>4, <2>5, <2>6, <2>7, <2>8, <2>9 DEF UploadsInv
<1> QED BY <1>1, <1>2

\* One of the documents goes.
LEMMA DeleteInv ==
    ASSUME UploadsInv, NEW h \in Editors, NEW w \in Writes, Delete(h, w)
    PROVE  UploadsInv'
<1> DEFINE i == edit[h].track
           n == IF edit[h].todo = {w} THEN NoEdit ELSE [edit[h] EXCEPT !.todo = @ \ {w}]
<1>0. edit[h] \in Edits /\ edit[h].pc = "deletes" /\ w \in edit[h].todo /\ i \in DOMAIN made
    BY DEF Delete, UploadsInv, EditOK
<1>1. /\ n \in Edits
      /\ \/ n = NoEdit /\ edit[h].todo = {w}
         \/ n.pc = "deletes" /\ n.track = i /\ n.todo = edit[h].todo \ {w}
    <2>1. NoEdit \in Edits
        BY DEF NoEdit, Edits, Writes
    <2> QED BY <1>0, <2>1 DEF Edits
<1>2. /\ edit' = [edit EXCEPT ![h] = n] /\ made' = made
      /\ DOMAIN tracks' = DOMAIN tracks \ (IF w = "track" THEN {i} ELSE {})
      /\ DOMAIN prints' = DOMAIN prints \ (IF w = "print" THEN {i} ELSE {})
      /\ excused' = IF w = "print" /\ UploadBehind(i) THEN excused \cup {i} ELSE excused
    <2>1. edit' = [edit EXCEPT ![h] = n]
        BY DEF Delete, WriteEnds
    <2> QED BY <2>1 DEF Delete, Without
<1> HIDE DEF n
<1>3. edit'[h] = n /\ \A g \in Editors : g # h => edit'[g] = edit[g]
    BY <1>2 DEF UploadsInv
<1>4. \A g \in Editors : EditOK(g)'
    BY <1>0, <1>1, <1>2, <1>3 DEF EditOK, UploadsInv, NoEdit
<1>5. \A j \in Nat : UploadBehind(j)' => UploadBehind(j)
    BY <1>1, <1>3 DEF UploadBehind, NoEdit
<1>6. ASSUME NEW j \in DOMAIN made, Covered(j) PROVE Covered(j)'
    <2>0. j \in Nat
        BY LenProperties DEF UploadsInv
    <2>1. CASE j = i /\ w = "print"
        BY <1>2, <1>5, <2>0, <2>1 DEF Covered
    <2>2. CASE j # i \/ w = "track"
        <3>1. PrintGoes(j) => PrintGoes(j)'
            BY <1>0, <1>1, <1>3, <2>2 DEF PrintGoes
        <3> QED BY <1>2, <1>5, <1>6, <2>0, <3>1 DEF Covered
    <2> QED BY <2>1, <2>2 DEF Writes
<1>7. GoneIsCovered'
    <2> SUFFICES ASSUME NEW j \in DOMAIN made, j \notin DOMAIN tracks' \/ PrintGone(j)'
                 PROVE  Covered(j)'
        BY <1>2 DEF GoneIsCovered
    <2>0. j \in Nat
        BY LenProperties DEF UploadsInv
    <2>1. CASE j = i /\ w = "print"
        BY <1>2, <1>5, <2>0, <2>1 DEF Covered
    <2>2. CASE j = i /\ w = "track"
        <3>1. CASE "print" \in edit[h].todo
            BY <1>0, <1>1, <1>3, <2>2, <3>1 DEF PrintGoes, Covered
        <3>2. CASE "print" \notin edit[h].todo
            <4>1. PrintGone(j)
                BY <1>0, <2>2, <3>2 DEF PrintGone
            <4> QED BY <1>6, <4>1 DEF UploadsInv, GoneIsCovered
        <3> QED BY <3>1, <3>2
    <2>3. CASE j # i
        <3>1. PrintGone(j)' => PrintGone(j)
            BY <1>1, <1>3, <2>3 DEF PrintGone, NoEdit
        <3> QED BY <1>2, <1>6, <2>3, <3>1 DEF UploadsInv, GoneIsCovered
    <2> QED BY <2>1, <2>2, <2>3 DEF Writes
<1> QED BY <1>0, <1>1, <1>2, <1>4, <1>7 DEF UploadsInv

LEMMA UploadsInvStep == UploadsInv /\ [UploadsNext]_uploadVars => UploadsInv'
<1> SUFFICES ASSUME UploadsInv, [UploadsNext]_uploadVars PROVE UploadsInv'
    OBVIOUS
<1>1. CASE UNCHANGED uploadVars
    BY <1>1 DEF uploadVars, UploadsInv, EditOK, GoneIsCovered, PrintGone, Covered,
                PrintGoes, UploadBehind
<1>2. ASSUME NEW h \in Editors, NEW e \in Events, NEW a \in Audios, UploadStarts(h, e, a)
      PROVE  UploadsInv'
    BY <1>2, UploadStartsInv
<1>3. ASSUME NEW h \in Editors,
             TrackIsMade(h) \/ PrintIsMade(h) \/ Decoded(h) \/ UploadFails(h)
      PROVE  UploadsInv'
    BY <1>3, TrackIsMadeInv, PrintIsMadeInv, DecodedInv, UploadFailsInv
<1>4. ASSUME NEW h \in Editors, NEW i \in DOMAIN tracks, DeleteStarts(h, i)
      PROVE  UploadsInv'
    BY <1>4, DeleteStartsInv
<1>5. ASSUME NEW h \in Editors, NEW w \in Writes,
             UploadSaves(h, w) \/ Delete(h, w) \/ WriteFails(h, w)
      PROVE  UploadsInv'
    BY <1>5, UploadSavesInv, DeleteInv, WriteFailsInv
<1> QED BY <1>1, <1>2, <1>3, <1>4, <1>5 DEF UploadsNext, Writes

\* The inductive invariant of the uploads and deletions of tracks.
THEOREM UploadsInvariant == UploadsSpec => []UploadsInv
<1> QED BY UploadsInitInv, UploadsInvStep, PTL DEF UploadsSpec

\* An event has an audio once, however many DJs upload the same file at the same
\* time, and no document speaks of a track that was never made (createTrack).
THEOREM TracksTypeCorrect == UploadsSpec => []TrackTypeOK
<1>1. UploadsInv => TrackTypeOK
    BY DEF UploadsInv, TrackTypeOK, Edits
<1> QED BY <1>1, UploadsInvariant, PTL

\* A fingerprint row without its track is left only by a call that failed or by
\* a deletion that overtook the upload (createTrack against deleteTrack).
THEOREM StrayNeedsRaceAlways == UploadsSpec => []StrayNeedsRace
<1>1. UploadsInv => StrayNeedsRace
    BY DEF UploadsInv, GoneIsCovered, Covered, PrintGoes, StrayNeedsRace
<1> QED BY <1>1, UploadsInvariant, PTL

-----------------------------------------------------------------------------
(* The cache of the matcher.                                               *)

\* Removing the element at a place moves those after it one place forward.
LEMMA RemoveAtProperties ==
    ASSUME NEW S, NEW s \in Seq(S), NEW k \in 1 .. Len(s)
    PROVE  /\ RemoveAt(s, k) \in Seq(S)
           /\ Len(RemoveAt(s, k)) = Len(s) - 1
           /\ \A j \in 1 .. Len(s) - 1 : RemoveAt(s, k)[j] = s[IF j < k THEN j ELSE j + 1]
<1> DEFINE a == SubSeq(s, 1, k - 1)
           b == SubSeq(s, k + 1, Len(s))
<1>1. Len(s) \in Nat /\ k \in Nat /\ \A i \in 1 .. Len(s) : s[i] \in S
    BY LenProperties, ElementOfSeq
<1>2. /\ a \in Seq(S) /\ Len(a) = k - 1
      /\ \A j \in 1 .. k - 1 : a[j] = s[j]
    <2>1. /\ a \in Seq(S) /\ Len(a) = IF 1 <= k - 1 THEN (k - 1) - 1 + 1 ELSE 0
          /\ \A j \in 1 .. (k - 1) - 1 + 1 : a[j] = s[1 + j - 1]
        BY <1>1, SubSeqProperties
    <2> HIDE DEF a
    <2> QED BY <1>1, <2>1
<1>3. /\ b \in Seq(S) /\ Len(b) = Len(s) - k
      /\ \A j \in 1 .. Len(s) - k : b[j] = s[k + j]
    <2>1. /\ b \in Seq(S) /\ Len(b) = IF k + 1 <= Len(s) THEN Len(s) - (k + 1) + 1 ELSE 0
          /\ \A j \in 1 .. Len(s) - (k + 1) + 1 : b[j] = s[(k + 1) + j - 1]
        BY <1>1, SubSeqProperties
    <2> HIDE DEF b
    <2> QED BY <1>1, <2>1
<1> HIDE DEF a, b
<1>4. /\ a \o b \in Seq(S) /\ Len(a \o b) = Len(a) + Len(b)
      /\ \A i \in 1 .. Len(a) + Len(b) :
            (a \o b)[i] = IF i <= Len(a) THEN a[i] ELSE b[i - Len(a)]
    BY <1>2, <1>3, ConcatProperties
<1>5. RemoveAt(s, k) = a \o b
    BY DEF RemoveAt, a, b
<1>6. ASSUME NEW j \in 1 .. Len(s) - 1
      PROVE  (a \o b)[j] = s[IF j < k THEN j ELSE j + 1]
    <2>1. CASE j < k
        BY <1>1, <1>2, <1>3, <1>4, <2>1
    <2>2. CASE ~(j < k)
        <3>1. j - (k - 1) \in 1 .. Len(s) - k /\ k + (j - (k - 1)) = j + 1
            BY <1>1, <2>2
        <3>2. j \in 1 .. Len(a) + Len(b) /\ ~(j <= Len(a)) /\ j - Len(a) = j - (k - 1)
            BY <1>1, <1>2, <1>3, <2>2
        <3>3. (a \o b)[j] = b[j - (k - 1)]
            BY <1>4, <3>2
        <3>4. b[j - (k - 1)] = s[j + 1]
            BY <1>3, <3>1
        <3> QED BY <2>2, <3>3, <3>4
    <2> QED BY <2>1, <2>2
<1>7. Len(a \o b) = Len(s) - 1
    BY <1>1, <1>2, <1>3, <1>4
<1> QED BY <1>4, <1>5, <1>6, <1>7

LEMMA MaxOfTwo ==
    ASSUME NEW a \in Nat, NEW b \in Nat
    PROVE  Max({a, b}) \in Nat /\ Max({a, b}) >= a /\ Max({a, b}) >= b
<1>1. \E x \in {a, b} : \A y \in {a, b} : x >= y
    OBVIOUS
<1> QED BY <1>1 DEF Max

LEMMA InFlightIsFinite == IsFiniteSet(InFlight) /\ Cardinality(InFlight) \in Nat
<1>1. IsFiniteSet(Matchers \X Parties)
    BY MatcherAssumption, FS_Product
<1> QED BY <1>1, FS_Subset, FS_CardinalityType DEF InFlight

\* The rows of an index add up.
Sums(n, rows, g) ==
    /\ g \in [0 .. n -> Nat] /\ g[0] = 0 /\ g[n] = Total(rows)
    /\ \A k \in 1 .. n : g[k] = g[k - 1] + rows[k]

LEMMA TotalRuns ==
    ASSUME NEW rows \in Seq(Nat), NEW n, n = Len(rows)
    PROVE  \E g : Sums(n, rows, g)
<1> DEFINE V == Nat
           z == 0
           Add(r) == [v \in V |-> v + r]
           step == [k \in 1 .. n |-> Add(rows[k])]
           Body(D, f) == [s \in D |-> IF s = {} THEN 0 ELSE f[s \ {Max(s)}] + rows[Max(s)]]
           c == CHOOSE f : f = Body(SUBSET (DOMAIN rows), f)
<1>1. Total(rows) = c[DOMAIN rows]
    BY DEF Total, FoldLeft, MapThenFoldSet
<1> HIDE DEF c, Body
<1>2. n \in Nat /\ DOMAIN rows = 1 .. n /\ \A k \in 1 .. n : rows[k] \in Nat
    OBVIOUS
<1>3. step \in Steps(n, V) /\ z \in V
    <2>1. \A r \in Nat : Add(r) \in [V -> V]
        OBVIOUS
    <2> HIDE DEF Add, V
    <2> QED BY <1>2, <2>1 DEF Steps, V
<1>4. \A k \in 1 .. n : \A v \in V : step[k][v] = v + rows[k]
    OBVIOUS
<1> HIDE DEF step, V, z
<1>5. PICK f : Unrolls(n, V, z, step, f)
    BY <1>2, <1>3, FoldUnrolls
<1> DEFINE D == SUBSET (1 .. n)
<1>6. /\ f \in [D -> V] /\ f[{}] = z
      /\ \A s \in D : s # {} =>
           /\ Max(s) \in 1 .. n /\ f[s \ {Max(s)}] \in V
           /\ f[s] = step[Max(s)][f[s \ {Max(s)}]]
    BY <1>5 DEF Unrolls
<1>7. D = SUBSET (DOMAIN rows) /\ {} \in D
    BY <1>2
<1> HIDE DEF D
<1>8. \A s \in D : s # {} => f[s] = f[s \ {Max(s)}] + rows[Max(s)]
    BY <1>4, <1>6
<1>9. f = Body(D, f)
    <2>1. Body(D, f) = [s \in D |-> IF s = {} THEN 0 ELSE f[s \ {Max(s)}] + rows[Max(s)]]
        BY DEF Body
    <2>2. f = [s \in D |-> f[s]]
        BY <1>6
    <2> QED BY <1>6, <1>8, <2>1, <2>2 DEF z
<1>10. c = Body(D, c)
    BY <1>7, <1>9 DEF c
<1>11. c[{}] = z /\ \A s \in D : s # {} => c[s] = c[s \ {Max(s)}] + rows[Max(s)]
    BY <1>7, <1>10 DEF Body, z
<1>12. Unfolds(n, V, z, step, c)
    BY <1>4, <1>6, <1>11 DEF Unfolds, D
<1>13. PICK g : Run(n, V, z, step, g) /\ g[n] = c[1 .. n]
    BY <1>2, <1>3, <1>12, FoldRuns
<1>14. \A k \in 1 .. n : k - 1 \in 0 .. n
    BY <1>2
<1>15. \A k \in 1 .. n : g[k] = g[k - 1] + rows[k]
    BY <1>4, <1>13, <1>14 DEF Run
<1> QED BY <1>1, <1>2, <1>13, <1>15 DEF Run, V, z, Sums

LEMMA TotalAppend ==
    ASSUME NEW rows \in Seq(Nat), NEW x \in Nat
    PROVE  Total(rows) \in Nat /\ Total(Append(rows, x)) = Total(rows) + x /\ Total(<< >>) = 0
<1> DEFINE n == Len(rows)
           more == Append(rows, x)
           m == Len(more)
<1>1. n \in Nat /\ more \in Seq(Nat) /\ m = n + 1 /\ more[n + 1] = x
      /\ \A k \in 1 .. n : more[k] = rows[k]
    OBVIOUS
<1>2. PICK g : Sums(n, rows, g)
    BY TotalRuns
<1> HIDE DEF more, n
<1>3. PICK h : Sums(m, more, h)
    BY <1>1, TotalRuns
<1> HIDE DEF m
<1> DEFINE S == {k \in 0 .. n : h[k] = g[k]}
<1>4. 0 \in S
    BY <1>1, <1>2, <1>3 DEF Sums
<1>5. ASSUME NEW k \in 0 .. n - 1, k \in S PROVE k + 1 \in S
    <2>1. k + 1 \in 1 .. n /\ k + 1 \in 1 .. m /\ (k + 1) - 1 = k /\ k + 1 \in 0 .. n
        BY <1>1
    <2>2. g[k + 1] = g[k] + rows[k + 1] /\ h[k + 1] = h[k] + more[k + 1]
        BY <1>2, <1>3, <2>1 DEF Sums
    <2> QED BY <1>1, <1>5, <2>1, <2>2
<1>6. 0 .. n \subseteq S
    <2> HIDE DEF S
    <2> QED BY <1>1, <1>4, <1>5, Climb
<1>7. h[n] = g[n] /\ g[n] \in Nat
    BY <1>1, <1>2, <1>6 DEF Sums
<1>8. h[m] = h[n] + x
    <2>1. m \in 1 .. m /\ m - 1 = n
        BY <1>1
    <2> QED BY <1>1, <1>3, <2>1 DEF Sums
<1>9. Total(<< >>) = 0
    <2>1. << >> \in Seq(Nat) /\ Len(<< >>) = 0
        OBVIOUS
    <2>2. \E e : Sums(0, << >>, e)
        BY <2>1, TotalRuns
    <2> QED BY <2>2 DEF Sums
<1> QED BY <1>2, <1>3, <1>7, <1>8, <1>9 DEF more, Sums

\* The rows that fit the budget of an event.
Budgets == {rows \in Seq(Nat) : Total(rows) <= MaxIndexed}

LEMMA NothingFits == << >> \in Budgets
<1>1. << >> \in Seq(Nat) /\ 0 \in Nat
    OBVIOUS
<1>2. Total(<< >>) = 0
    BY <1>1, TotalAppend
<1> QED BY <1>1, <1>2, MatcherAssumption DEF Budgets

LEMMA WithRowFits ==
    ASSUME NEW rows \in Budgets, NEW x \in Nat
    PROVE  WithRow(rows, x) \in Budgets
<1>1. rows \in Seq(Nat) /\ Total(rows) \in Nat /\ MaxIndexed \in Nat
    BY TotalAppend, MatcherAssumption DEF Budgets
<1>2. CASE x > MaxTrackHashes \/ Total(rows) >= MaxIndexed
    BY <1>2 DEF WithRow
<1>3. CASE ~(x > MaxTrackHashes \/ Total(rows) >= MaxIndexed)
    <2> DEFINE room == MaxIndexed - Total(rows)
               y == Min({x, room})
    <2>1. room \in Nat
        BY <1>1, <1>3
    <2>2. WithRow(rows, x) = Append(rows, y)
        BY <1>3 DEF WithRow
    <2> HIDE DEF room
    <2>3. y \in Nat /\ y <= room
        <3>1. \E a \in {x, room} : \A b \in {x, room} : a =< b
            BY <2>1
        <3> QED BY <2>1, <3>1 DEF Min
    <2> HIDE DEF y
    <2>4. Total(Append(rows, y)) = Total(rows) + y /\ Append(rows, y) \in Seq(Nat)
        BY <1>1, <2>3, TotalAppend
    <2>5. Total(rows) + y <= MaxIndexed
        BY <1>1, <2>1, <2>3 DEF room
    <2> QED BY <2>2, <2>4, <2>5 DEF Budgets
<1> QED BY <1>2, <1>3

\* What a load reads fits, whatever rows the event has.
LEMMA LoadFits ==
    ASSUME NEW rows \in Seq(Nat)
    PROVE  FoldLeft(WithRow, << >>, rows) \in Budgets
<1> DEFINE n == Len(rows)
           V == Budgets
           z == << >>
           Add(r) == [v \in V |-> WithRow(v, r)]
           step == [k \in 1 .. n |-> Add(rows[k])]
           Body(D, f) == [s \in D |-> IF s = {} THEN << >> ELSE WithRow(f[s \ {Max(s)}], rows[Max(s)])]
           c == CHOOSE f : f = Body(SUBSET (DOMAIN rows), f)
<1>1. FoldLeft(WithRow, << >>, rows) = c[DOMAIN rows]
    BY DEF FoldLeft, MapThenFoldSet
<1> HIDE DEF c, Body
<1>2. n \in Nat /\ DOMAIN rows = 1 .. n /\ \A k \in 1 .. n : rows[k] \in Nat
    OBVIOUS
<1> HIDE DEF n
<1>3. step \in Steps(n, V) /\ z \in V
    <2>1. \A r \in Nat : Add(r) \in [V -> V]
        BY WithRowFits
    <2>2. z \in V
        BY NothingFits
    <2> HIDE DEF Add, V
    <2> QED BY <1>2, <2>1, <2>2 DEF Steps
<1>4. \A k \in 1 .. n : \A v \in V : step[k][v] = WithRow(v, rows[k])
    OBVIOUS
<1> HIDE DEF step, V, z
<1>5. PICK f : Unrolls(n, V, z, step, f)
    BY <1>2, <1>3, FoldUnrolls
<1> DEFINE D == SUBSET (1 .. n)
<1>6. /\ f \in [D -> V] /\ f[{}] = z
      /\ \A s \in D : s # {} =>
           /\ Max(s) \in 1 .. n /\ f[s \ {Max(s)}] \in V
           /\ f[s] = step[Max(s)][f[s \ {Max(s)}]]
    BY <1>5 DEF Unrolls
<1>7. D = SUBSET (DOMAIN rows) /\ {} \in D
    BY <1>2
<1> HIDE DEF D
<1>8. \A s \in D : s # {} => f[s] = WithRow(f[s \ {Max(s)}], rows[Max(s)])
    BY <1>4, <1>6
<1>9. f = Body(D, f)
    <2>1. Body(D, f) = [s \in D |-> IF s = {} THEN << >> ELSE WithRow(f[s \ {Max(s)}], rows[Max(s)])]
        BY DEF Body
    <2>2. f = [s \in D |-> f[s]]
        BY <1>6
    <2> QED BY <1>6, <1>8, <2>1, <2>2 DEF z
<1>10. c = Body(D, c)
    BY <1>7, <1>9 DEF c
<1>11. c[{}] = z /\ \A s \in D : s # {} => c[s] = WithRow(c[s \ {Max(s)}], rows[Max(s)])
    BY <1>7, <1>10 DEF Body, z
<1>12. Unfolds(n, V, z, step, c)
    BY <1>4, <1>6, <1>11 DEF Unfolds, D
<1>13. PICK g : Run(n, V, z, step, g) /\ g[n] = c[1 .. n]
    BY <1>2, <1>3, <1>12, FoldRuns
<1>14. g[n] \in V
    BY <1>2, <1>13 DEF Run
<1> QED BY <1>1, <1>2, <1>13, <1>14 DEF V

\* An event is cached once.
CachedOnce ==
    /\ index \in Seq(ToSet(index))
    /\ \A k \in DOMAIN index : index[k].event \in Parties
    /\ \A j, k \in DOMAIN index : index[j].event = index[k].event => j = k

\* The bound on the cache is inductive by itself, once the events are known to
\* be cached once: what a load takes from the cache it counts in flight.
MatcherInv ==
    /\ CachedOnce
    /\ DOMAIN loads = Matchers \X Parties
    /\ \A x \in DOMAIN loads : loads[x].pc \in {"none", "reads", "read"}
    /\ peak \in Nat
    /\ CacheStaysNearCap

LEMMA MatcherInitInv == MatcherInit => MatcherInv
<1> SUFFICES ASSUME MatcherInit PROVE MatcherInv
    OBVIOUS
<1>1. InFlight = {} /\ index = << >> /\ peak = 0
    BY DEF MatcherInit, InFlight, NotLoading
<1>2. CacheStaysNearCap
    BY <1>1, FS_EmptySet, MatcherAssumption DEF CacheStaysNearCap
<1> QED BY <1>1, <1>2 DEF MatcherInit, MatcherInv, CachedOnce, NotLoading

\* The cache without an event is the rest of the cache.
LEMMA WithoutEventProperties ==
    ASSUME CachedOnce, NEW e \in Parties
    PROVE  /\ WithoutEvent(e) \in Seq(ToSet(index))
           /\ Len(WithoutEvent(e)) <= Len(index)
           /\ \A j \in DOMAIN WithoutEvent(e) :
                 WithoutEvent(e)[j].event \in Parties \ {e}
           /\ \A j, k \in DOMAIN WithoutEvent(e) :
                 WithoutEvent(e)[j].event = WithoutEvent(e)[k].event => j = k
<1>1. Len(index) \in Nat /\ DOMAIN index = 1 .. Len(index)
    BY LenProperties DEF CachedOnce
<1>2. CASE e \notin CachedEvents
    BY <1>1, <1>2 DEF WithoutEvent, CachedEvents, CachedOnce
<1>3. CASE e \in CachedEvents
    <2> DEFINE at == CHOOSE k \in DOMAIN index : index[k].event = e
               w == RemoveAt(index, at)
    <2>1. at \in 1 .. Len(index) /\ index[at].event = e
        BY <1>1, <1>3 DEF CachedEvents
    <2>2. WithoutEvent(e) = w
        BY <1>3 DEF WithoutEvent
    <2> HIDE DEF at
    <2>3. /\ w \in Seq(ToSet(index)) /\ Len(w) = Len(index) - 1
          /\ \A j \in 1 .. Len(index) - 1 : w[j] = index[IF j < at THEN j ELSE j + 1]
        BY <2>1, RemoveAtProperties DEF CachedOnce
    <2> HIDE DEF w
    <2>4. DOMAIN w = 1 .. Len(index) - 1
        BY <2>3, LenProperties
    <2>5. \A j \in DOMAIN w : LET k == IF j < at THEN j ELSE j + 1
                              IN  k \in DOMAIN index /\ k # at /\ w[j] = index[k]
        BY <1>1, <2>1, <2>3, <2>4
    <2>6. \A j \in DOMAIN w : w[j].event \in Parties \ {e}
        BY <1>1, <2>1, <2>5 DEF CachedOnce
    <2>7. ASSUME NEW i \in DOMAIN w, NEW j \in DOMAIN w, w[i].event = w[j].event
          PROVE  i = j
        BY <1>1, <2>1, <2>4, <2>5, <2>7 DEF CachedOnce
    <2> QED BY <1>1, <2>2, <2>3, <2>6, <2>7
<1> QED BY <1>2, <1>3

LEMMA LoadStartsInv ==
    ASSUME MatcherInv, NEW m \in Matchers, NEW e \in Parties, LoadStarts(m, e)
    PROVE  MatcherInv'
<1> DEFINE x == <<m, e>>
<1>0. MaxCached \in Nat
    BY MatcherAssumption
<1>1. Len(index) \in Nat /\ DOMAIN index = 1 .. Len(index)
    BY LenProperties DEF MatcherInv, CachedOnce
<1>2. /\ loads[x].pc = "none" /\ loads'[x].pc = "reads" /\ DOMAIN loads' = DOMAIN loads
      /\ \A y \in DOMAIN loads : y # x => loads'[y] = loads[y]
      /\ x \in DOMAIN loads
    BY DEF LoadStarts, MatcherInv, NotLoading
<1>3. /\ Len(index') \in Nat
      /\ Len(index') <= MaxCached - 1 \/ Len(index') = Len(index) - 1
      /\ CachedOnce'
    <2>1. CASE Len(index) >= MaxCached
        <3>1. index' = Tail(index) /\ index # << >>
            BY <1>1, <2>1, MatcherAssumption DEF LoadStarts, Evicted
        <3>2. /\ index' \in Seq(ToSet(index)) /\ Len(index') = Len(index) - 1
              /\ \A i \in 1 .. Len(index') : index'[i] = index[i + 1]
            BY <3>1, HeadTailProperties DEF MatcherInv, CachedOnce
        <3>3. DOMAIN index' = 1 .. Len(index')
            BY <3>2, LenProperties
        <3>4. index' \in Seq(ToSet(index'))
            BY <3>2, SeqOfRange DEF Range, ToSet
        <3>5. \A i \in DOMAIN index' : i + 1 \in DOMAIN index /\ index'[i] = index[i + 1]
            BY <1>1, <3>2, <3>3
        <3>6. \A i \in DOMAIN index' : index'[i].event \in Parties
            BY <3>5 DEF MatcherInv, CachedOnce
        <3>7. ASSUME NEW i \in DOMAIN index', NEW j \in DOMAIN index',
                     index'[i].event = index'[j].event
              PROVE  i = j
            <4>1. i + 1 = j + 1
                BY <3>5, <3>7 DEF MatcherInv, CachedOnce
            <4> QED BY <3>3, <4>1
        <3>8. Len(index') \in Nat
            BY <3>2, LenProperties
        <3> QED BY <3>2, <3>4, <3>6, <3>7, <3>8 DEF CachedOnce
    <2>2. CASE ~(Len(index) >= MaxCached)
        <3>1. index' = index
            BY <2>2 DEF LoadStarts, Evicted
        <3>2. CachedOnce'
            BY <3>1 DEF MatcherInv, CachedOnce
        <3>3. Len(index') \in Nat /\ Len(index') <= MaxCached - 1
            BY <1>0, <1>1, <2>2, <3>1
        <3> QED BY <3>2, <3>3
    <2> QED BY <2>1, <2>2
<1>4. Cardinality(InFlight') = Cardinality(InFlight) + 1
    <2>1. InFlight' = InFlight \cup {x} /\ x \notin InFlight
        BY <1>2 DEF InFlight, MatcherInv
    <2> QED BY <2>1, FS_AddElement, InFlightIsFinite
<1>5. peak' \in Nat /\ peak' >= peak /\ peak' >= Cardinality(InFlight) + 1
    BY MaxOfTwo, InFlightIsFinite DEF LoadStarts, MatcherInv
<1>6. CacheStaysNearCap'
    <2>1. Len(index) + Cardinality(InFlight) <= MaxCached - 1 + peak /\ peak \in Nat
        BY DEF CacheStaysNearCap, MatcherInv
    <2>2. Len(index') + (Cardinality(InFlight) + 1) <= MaxCached - 1 + peak'
        <3>1. CASE Len(index') <= MaxCached - 1
            BY <1>0, <1>3, <1>5, <3>1, InFlightIsFinite
        <3>2. CASE Len(index') = Len(index) - 1
            BY <1>0, <1>1, <1>3, <1>5, <2>1, <3>2, InFlightIsFinite
        <3> QED BY <1>3, <3>1, <3>2
    <2> QED BY <1>4, <2>2 DEF CacheStaysNearCap
<1> QED BY <1>2, <1>3, <1>5, <1>6 DEF MatcherInv

LEMMA LoadEndsInv ==
    ASSUME MatcherInv, NEW m \in Matchers, NEW e \in Parties, LoadEnds(m, e)
    PROVE  MatcherInv'
<1> DEFINE x == <<m, e>>
           n == [event |-> e, rows |-> loads[x].rows]
           w == WithoutEvent(e)
           S == ToSet(index) \cup {n}
<1>1. /\ loads[x].pc = "read" /\ loads'[x].pc = "none" /\ DOMAIN loads' = DOMAIN loads
      /\ \A y \in DOMAIN loads : y # x => loads'[y] = loads[y]
      /\ x \in DOMAIN loads /\ index' = Append(w, n) /\ n.event = e /\ peak' = peak
    BY DEF LoadEnds, MatcherInv, NotLoading
<1>2. /\ w \in Seq(ToSet(index)) /\ Len(w) <= Len(index)
      /\ \A j \in DOMAIN w : w[j].event \in Parties \ {e}
      /\ \A j, k \in DOMAIN w : w[j].event = w[k].event => j = k
    BY WithoutEventProperties DEF MatcherInv
<1> HIDE DEF n, w
<1>3. w \in Seq(S) /\ n \in S
    BY <1>2, SeqMonotonic
<1> HIDE DEF S
<1>4. /\ index' \in Seq(S) /\ Len(index') = Len(w) + 1
      /\ \A j \in 1 .. Len(w) : index'[j] = w[j]
      /\ index'[Len(w) + 1] = n
      /\ Len(w) \in Nat /\ DOMAIN w = 1 .. Len(w) /\ DOMAIN index' = 1 .. Len(w) + 1
    <2>1. /\ index' \in Seq(S) /\ Len(index') = Len(w) + 1
          /\ \A j \in 1 .. Len(w) : index'[j] = w[j]
          /\ index'[Len(w) + 1] = n
        BY <1>1, <1>3, AppendProperties
    <2> QED BY <1>3, <2>1, LenProperties
<1>5. CachedOnce'
    <2>1. index' \in Seq(ToSet(index'))
        BY <1>4, SeqOfRange DEF Range, ToSet
    <2>2. \A k \in DOMAIN index' : index'[k].event \in Parties
        BY <1>1, <1>2, <1>4
    <2>3. ASSUME NEW j \in DOMAIN index', NEW k \in DOMAIN index',
                 index'[j].event = index'[k].event
          PROVE  j = k
        <3>1. CASE j \in DOMAIN w /\ k \in DOMAIN w
            BY <1>2, <1>4, <2>3, <3>1
        <3>2. CASE j \in DOMAIN w /\ k = Len(w) + 1
            BY <1>1, <1>2, <1>4, <2>3, <3>2
        <3>3. CASE k \in DOMAIN w /\ j = Len(w) + 1
            BY <1>1, <1>2, <1>4, <2>3, <3>3
        <3> QED BY <1>4, <3>1, <3>2, <3>3
    <2> QED BY <2>1, <2>2, <2>3 DEF CachedOnce
<1>6. Cardinality(InFlight') = Cardinality(InFlight) - 1
    <2>1. InFlight' = InFlight \ {x} /\ x \in InFlight
        BY <1>1 DEF InFlight, MatcherInv
    <2> QED BY <2>1, FS_RemoveElement, InFlightIsFinite
<1>7. CacheStaysNearCap'
    <2>1. Len(index) \in Nat
        BY LenProperties DEF MatcherInv, CachedOnce
    <2> QED BY <1>1, <1>2, <1>4, <1>6, <2>1, InFlightIsFinite, MatcherAssumption
            DEF CacheStaysNearCap, MatcherInv
<1> QED BY <1>1, <1>5, <1>7 DEF MatcherInv

\* A load that reads, or fails, leaves the cache alone and is in flight or not
\* any more.
LEMMA LoadGoesOnInv ==
    ASSUME MatcherInv, NEW m \in Matchers, NEW e \in Parties,
           LoadReads(m, e) \/ LoadFails(m, e)
    PROVE  MatcherInv'
<1> DEFINE x == <<m, e>>
<1>1. /\ loads[x].pc # "none" /\ DOMAIN loads' = DOMAIN loads
      /\ \A y \in DOMAIN loads : y # x => loads'[y] = loads[y]
      /\ x \in DOMAIN loads /\ UNCHANGED <<index, peak>>
      /\ loads'[x].pc \in {"none", "read"}
    BY DEF LoadReads, LoadFails, MatcherInv, NotLoading
<1>2. InFlight' \in SUBSET InFlight
    BY <1>1 DEF InFlight, MatcherInv
<1>3. Cardinality(InFlight') <= Cardinality(InFlight) /\ Cardinality(InFlight') \in Nat
    BY <1>2, FS_Subset, FS_CardinalityType, InFlightIsFinite
<1>4. CacheStaysNearCap'
    <2>1. Len(index) \in Nat
        BY LenProperties DEF MatcherInv, CachedOnce
    <2> QED BY <1>1, <1>3, <2>1, InFlightIsFinite, MatcherAssumption
            DEF CacheStaysNearCap, MatcherInv
<1> QED BY <1>1, <1>4 DEF MatcherInv, CachedOnce

LEMMA MatcherInvStep == MatcherInv /\ [MatcherNext]_matcherVars => MatcherInv'
<1> SUFFICES ASSUME MatcherInv, [MatcherNext]_matcherVars PROVE MatcherInv'
    OBVIOUS
<1>1. CASE UNCHANGED <<index, loads, peak>>
    BY <1>1 DEF MatcherInv, CachedOnce, CacheStaysNearCap, InFlight
<1>2. ASSUME NEW e \in Parties, (\E n \in Sizes : Uploaded(e, n)) \/ Removed(e)
      PROVE  MatcherInv'
    BY <1>1, <1>2 DEF Uploaded, Removed
<1>3. ASSUME NEW e \in Parties, NEW m \in Matchers,
             LoadStarts(m, e) \/ LoadReads(m, e) \/ LoadEnds(m, e) \/ LoadFails(m, e)
      PROVE  MatcherInv'
    BY <1>3, LoadStartsInv, LoadEndsInv, LoadGoesOnInv
<1> QED BY <1>1, <1>2, <1>3 DEF MatcherNext, matcherVars

\* The inductive invariant of the matcher's cache.
THEOREM MatcherInvariant == MatcherSpec => []MatcherInv
<1> QED BY MatcherInitInv, MatcherInvStep, PTL DEF MatcherSpec

\* However many loads overlap, and whichever matchers they belong to, the cache
\* outgrows its cap by no more than the loads once in flight together but one
\* (loadEvent looks at the size before it loads and adds after it).
THEOREM CacheStaysNearCapAlways == MatcherSpec => []CacheStaysNearCap
<1>1. MatcherInv => CacheStaysNearCap
    BY DEF MatcherInv
<1> QED BY <1>1, MatcherInvariant, PTL

\* An event is cached once, although two matchers may load it together
\* (eventIndex is a map that every matcher sets).
THEOREM CachedOnceAlways == MatcherSpec => []CachedOnce
<1>1. MatcherInv => CachedOnce
    BY DEF MatcherInv
<1> QED BY <1>1, MatcherInvariant, PTL

-----------------------------------------------------------------------------
(* The budget of a cached event.                                           *)

\* What is cached fits, and so does what a load is about to cache.
BudgetInv ==
    /\ MatcherInv
    /\ stock \in [Parties -> Seq(Sizes)]
    /\ \A x \in DOMAIN loads : loads[x].rows \in Budgets
    /\ \A y \in ToSet(index) : y.rows \in Budgets

LEMMA BudgetInitInv == MatcherInit => BudgetInv
<1> SUFFICES ASSUME MatcherInit PROVE BudgetInv
    OBVIOUS
<1>1. << >> \in Budgets
    BY NothingFits
<1>2. stock \in [Parties -> Seq(Sizes)] /\ ToSet(index) = {}
    BY DEF MatcherInit, ToSet
<1>3. \A x \in DOMAIN loads : loads[x].rows \in Budgets
    BY <1>1 DEF MatcherInit, NotLoading
<1> QED BY <1>2, <1>3, MatcherInitInv DEF BudgetInv

\* A load goes on.
LEMMA LoadBudget ==
    ASSUME BudgetInv, NEW m \in Matchers, NEW e \in Parties, NEW n, n.rows \in Budgets,
           loads' = [loads EXCEPT ![<<m, e>>] = n]
    PROVE  \A x \in DOMAIN loads' : loads'[x].rows \in Budgets
BY DEF BudgetInv

LEMMA BudgetInvStep == BudgetInv /\ [MatcherNext]_matcherVars => BudgetInv'
<1> SUFFICES ASSUME BudgetInv, [MatcherNext]_matcherVars PROVE BudgetInv'
    OBVIOUS
<1>0. MatcherInv /\ MatcherInv' /\ << >> \in Budgets
    BY MatcherInvStep, NothingFits DEF BudgetInv
<1>a. NotLoading.rows \in Budgets
    BY <1>0 DEF NotLoading
<1>1. CASE UNCHANGED matcherVars
    BY <1>0, <1>1 DEF matcherVars, BudgetInv
<1>2. ASSUME NEW e \in Parties, NEW n \in Sizes, Uploaded(e, n) PROVE BudgetInv'
    <2>1. stock' \in [Parties -> Seq(Sizes)]
        <3>1. Append(stock[e], n) \in Seq(Sizes)
            BY DEF BudgetInv
        <3> QED BY <1>2, <3>1 DEF Uploaded, BudgetInv
    <2> QED BY <1>0, <1>2, <2>1 DEF Uploaded, BudgetInv
<1>3. ASSUME NEW e \in Parties, Removed(e) PROVE BudgetInv'
    <2>1. PICK k \in DOMAIN stock[e] : stock' = [stock EXCEPT ![e] = RemoveAt(@, k)]
        BY <1>3 DEF Removed
    <2>2. stock[e] \in Seq(Sizes) /\ k \in 1 .. Len(stock[e])
        BY <2>1 DEF BudgetInv
    <2>3. RemoveAt(stock[e], k) \in Seq(Sizes)
        BY <2>2, RemoveAtProperties
    <2>4. stock' \in [Parties -> Seq(Sizes)]
        BY <2>1, <2>3 DEF BudgetInv
    <2> QED BY <1>0, <1>3, <2>4 DEF Removed, BudgetInv
<1>4. ASSUME NEW e \in Parties, NEW m \in Matchers, LoadStarts(m, e) PROVE BudgetInv'
    <2>1. ToSet(index') \subseteq ToSet(index)
        <3>1. CASE Len(index) >= MaxCached
            <4>1. index' = Tail(index) /\ index # << >>
                BY <1>0, <1>4, <3>1, MatcherAssumption, LenProperties
                DEF LoadStarts, Evicted, MatcherInv, CachedOnce
            <4>2. index' \in Seq(ToSet(index))
                BY <1>0, <4>1, HeadTailProperties DEF MatcherInv, CachedOnce
            <4> QED BY <4>2, ElementOfSeq, LenProperties DEF ToSet
        <3>2. CASE ~(Len(index) >= MaxCached)
            BY <1>4, <3>2 DEF LoadStarts, Evicted
        <3> QED BY <3>1, <3>2
    <2>2. \A x \in DOMAIN loads' : loads'[x].rows \in Budgets
        <3> DEFINE n == [loads[<<m, e>>] EXCEPT !.pc = "reads"]
        <3>1. loads' = [loads EXCEPT ![<<m, e>>] = n] /\ loads[<<m, e>>] = NotLoading
            BY <1>4 DEF LoadStarts
        <3>2. n.rows \in Budgets
            BY <1>a, <3>1 DEF NotLoading
        <3> HIDE DEF n
        <3> QED BY <3>1, <3>2, LoadBudget
    <2> QED BY <1>0, <1>4, <2>1, <2>2 DEF LoadStarts, BudgetInv
<1>5. ASSUME NEW e \in Parties, NEW m \in Matchers, LoadReads(m, e) PROVE BudgetInv'
    <2> DEFINE n == [pc |-> "read", rows |-> FoldLeft(WithRow, << >>, stock[e])]
    <2>1. n.rows \in Budgets
        <3>1. stock[e] \in Seq(Nat)
            BY SeqMonotonic, MatcherAssumption DEF BudgetInv
        <3> QED BY <3>1, LoadFits
    <2>2. loads' = [loads EXCEPT ![<<m, e>>] = n] /\ UNCHANGED <<stock, index>>
        BY <1>5 DEF LoadReads
    <2> HIDE DEF n
    <2>3. \A x \in DOMAIN loads' : loads'[x].rows \in Budgets
        BY <2>1, <2>2, LoadBudget
    <2> QED BY <1>0, <2>2, <2>3 DEF BudgetInv
<1>6. ASSUME NEW e \in Parties, NEW m \in Matchers, LoadEnds(m, e) PROVE BudgetInv'
    <2> DEFINE n == [event |-> e, rows |-> loads[<<m, e>>].rows]
               w == WithoutEvent(e)
    <2>1. n.rows \in Budgets
        BY <1>0 DEF BudgetInv, MatcherInv
    <2>2. w \in Seq(ToSet(index))
        BY <1>0, WithoutEventProperties DEF MatcherInv
    <2>3. index' = Append(w, n) /\ loads' = [loads EXCEPT ![<<m, e>>] = NotLoading] /\ stock' = stock
        BY <1>6 DEF LoadEnds
    <2> HIDE DEF n, w
    <2>4. ToSet(index') \subseteq ToSet(index) \cup {n}
        BY <2>2, <2>3 DEF ToSet
    <2>5. \A x \in DOMAIN loads' : loads'[x].rows \in Budgets
        BY <1>a, <2>3, LoadBudget
    <2> QED BY <1>0, <2>1, <2>3, <2>4, <2>5 DEF BudgetInv
<1>7. ASSUME NEW e \in Parties, NEW m \in Matchers, LoadFails(m, e) PROVE BudgetInv'
    <2>1. \A x \in DOMAIN loads' : loads'[x].rows \in Budgets
        BY <1>a, <1>7, LoadBudget DEF LoadFails
    <2> QED BY <1>0, <1>7, <2>1 DEF LoadFails, BudgetInv
<1> QED BY <1>1, <1>2, <1>3, <1>4, <1>5, <1>6, <1>7 DEF MatcherNext

\* The inductive invariant of the budgets: rows are fitted while they are read,
\* and nothing is added to them afterwards (_doLoad).
THEOREM BudgetInvariant == MatcherSpec => []BudgetInv
<1> QED BY BudgetInitInv, BudgetInvStep, PTL DEF MatcherSpec

\* An event is cached once, and within the budget of an event, whatever the
\* number and the sizes of its rows (_doLoad).
THEOREM MatcherTypeCorrect == MatcherSpec => []MatcherTypeOK
<1>1. BudgetInv => MatcherTypeOK
    <2> SUFFICES ASSUME BudgetInv PROVE MatcherTypeOK
        OBVIOUS
    <2>1. MatcherInv /\ CachedOnce
        BY DEF BudgetInv, MatcherInv
    <2>2. \A y \in ToSet(index) : y.event \in Parties
        BY <2>1 DEF CachedOnce, ToSet
    <2> QED BY <2>1, <2>2 DEF BudgetInv, Budgets, MatcherInv, CachedOnce, MatcherTypeOK
<1> QED BY <1>1, BudgetInvariant, PTL

=============================================================================
