--------------------------- MODULE Fingerprinter ---------------------------
(***************************************************************************)
(* The streaming fingerprinter (streaming.js) under its two users: the     *)
(* upload that reads a WAV file chunk by chunk (fingerprint.js, wav.js)    *)
(* and the live phone (socket/audio.js).  The reference is the same        *)
(* recording fingerprinted in one piece (constellation.js, hashes.js).     *)
(*                                                                         *)
(* A sample is its position.  The spectrum is left out: a window has some  *)
(* number of peaks, and a hash is the pair of peaks it is made of, so      *)
(* hashes of different pairs never collide here.                           *)
(***************************************************************************)
EXTENDS Naturals, Sequences, FiniteSets, FiniteSetsExt, SequencesExt

CONSTANTS
    ReadBytes,    \* STREAM_READ_CHUNK_BYTES
    Window,       \* windowSize
    MaxBuffer,    \* MAX_BUFFER_SAMPLES
    Neighbours,   \* FAN_OUT
    MaxDelta,     \* MAX_HASH_TIME_DELTA, also hashPair's limit
    Batch,        \* batchSize
    MaxHashes,    \* MAX_FINGERPRINT_HASHES
    Lengths,      \* bound: the bytes of audio a file has
    Frames,       \* bound: the bytes of a frame, all its channels
    Scales,       \* bound: samples made of each frame by the resampler
    Peaks,        \* bound: how many peaks a window has
    LiveChunks,   \* bound: samples in a chunk of the phone
    MaxLive       \* bound: samples the phone sends

ASSUME FingerprinterAssumption ==
    /\ {ReadBytes, Window, Neighbours, MaxDelta, Batch, MaxHashes} \subseteq Nat \ {0}
    /\ Lengths \cup Frames \cup Scales \subseteq Nat \ {0}
    /\ Peaks \cup LiveChunks \cup {MaxLive, MaxBuffer} \subseteq Nat
    /\ MaxBuffer >= Window
    /\ \A f \in Frames : f <= ReadBytes

VARIABLES
    recording, \* the file: its bytes, its frames and their scale; or the phone
    done,      \* the upload has ended
    offset,    \* bytes read
    received,  \* samples handed to the fingerprinter
    buffer,    \* how many of them wait for their window to fill
    dropped,   \* history: samples dropped
    cut,       \* history: where each window began; its index is time
    points,    \* history: the time of every peak found
    kept,      \* the first of them still in this.points
    pairs,     \* history: the pairs of peaks that were hashed
    pending,   \* hashes not yet handed to onBatch
    stored     \* hashesCount

signal == <<received, buffer, dropped, cut, points, kept, pairs>>
printVars == <<recording, done, offset, signal, pending, stored>>

Live == recording.bytes = 0

-----------------------------------------------------------------------------
(* The fingerprinter.                                                      *)

\* hashPair: a pair of peaks neither too near nor too far apart.
Hashable(t, u) == u > t + 1 /\ u <= t + MaxDelta

\* _hashNewPoints pairs each new peak with those kept before it.
NewPairs(from, old, all) ==
    {p \in (from .. Len(all)) \X ((old + 1) .. Len(all)) :
        p[1] <= p[2] /\ p[2] < p[1] + Neighbours /\ Hashable(all[p[1]], all[p[2]])}

\* _maybeCompact, when time is the next window's.  Uploads keep everything:
\* they end before the cap on their points is reached.
KeptTooFew(all, time) == 1 + Cardinality({i \in DOMAIN all : all[i] + MaxDelta <= time}) \* mutant
KeptFrom(all, time) == 1 + Cardinality({i \in DOMAIN all : all[i] + MaxDelta < time})

\* _window.
Windowed(s, peaks) ==
    LET all == s.points \o [i \in 1 .. peaks |-> s.time]
    IN  [time |-> s.time + 1,
         points |-> all,
         pairs |-> s.pairs \cup NewPairs(s.kept, Len(s.points), all),
         kept |-> IF Live THEN KeptFrom(all, s.time + 1) ELSE 1]

\* The windows that start at these samples, with some peaks in each.
Windows(starts, left) ==
    \E peaks \in [DOMAIN starts -> Peaks] :
        LET s == FoldLeft(Windowed,
                    [time |-> Len(cut), points |-> points, pairs |-> pairs, kept |-> kept], peaks)
        IN  /\ cut' = cut \o starts
            /\ points' = s.points
            /\ pairs' = s.pairs
            /\ kept' = s.kept
            /\ buffer' = left

\* Too much in the buffer: the oldest whole windows of it go.
Overrun(n) ==
    LET d == n - MaxBuffer + Window
    IN  IF n > MaxBuffer THEN d - (d % Window) ELSE 0

Process(n) ==
    LET d == Overrun(buffer + n)
        rest == buffer + n - d
    IN  /\ received' = received + n
        /\ dropped' = dropped + d
        /\ Windows([i \in 1 .. (rest \div Window) |-> received - buffer + d + (i - 1) * Window],
                    rest % Window)

\* The last window is padded with silence.
Flush ==
    /\ UNCHANGED <<received, dropped>>
    /\ IF buffer = 0 THEN UNCHANGED <<buffer, cut, points, kept, pairs>>
       ELSE Windows(<<received - buffer>>, 0)

-----------------------------------------------------------------------------
(* fingerprintWavStreamed.                                                 *)

Emitted == Cardinality(pairs') - Cardinality(pairs)

\* decodePcm and resampleLinear of one chunk, to a multiple of its rate; what does not
\* fill a frame is lost, and the next chunk is read as if it began with a frame.
Samples(bytes) == (bytes \div recording.frame) * recording.scale

Capped == stored >= MaxHashes

\* flushFullBatches, until the cap is reached.
Batched(n) == stored + (n \div Batch) * Batch

ReadChunk ==
    LET n == Min({ReadBytes, recording.bytes - offset})
    IN  /\ ~Live /\ ~done /\ ~Capped
        /\ offset < recording.bytes
        /\ offset' = offset + n
        /\ Process(Samples(n))
        /\ LET waiting == pending + Emitted
           IN  IF Batched(waiting) >= MaxHashes
               THEN stored' = MaxHashes /\ pending' = 0
               ELSE stored' = Batched(waiting) /\ pending' = waiting % Batch
        /\ UNCHANGED <<recording, done>>

\* The tail, as far as the cap allows; what is pending beyond it is lost.
ReadEnds ==
    /\ ~Live /\ ~done
    /\ Capped \/ offset = recording.bytes
    /\ done' = TRUE
    /\ IF Capped THEN UNCHANGED <<signal, stored>>
       ELSE Flush /\ stored' = Min({stored + pending + Emitted, MaxHashes})
    /\ pending' = 0
    /\ UNCHANGED <<recording, offset>>

-----------------------------------------------------------------------------
(* The live phone: the window under way is never flushed.                  *)

LiveChunk(n) ==
    /\ Live
    /\ received + n <= MaxLive
    /\ Process(n)
    /\ UNCHANGED <<recording, done, offset, pending, stored>>

-----------------------------------------------------------------------------
Phone == [bytes |-> 0, frame |-> 1, scale |-> 1]
Recordings == [bytes : Lengths, frame : Frames, scale : Scales] \cup {Phone}

PrintInit ==
    /\ recording \in Recordings
    /\ done = FALSE
    /\ offset = 0 /\ received = 0 /\ buffer = 0 /\ dropped = 0
    /\ cut = << >> /\ points = << >> /\ kept = 1 /\ pairs = {}
    /\ pending = 0 /\ stored = 0

\* Every upload and every stream of a phone has a fingerprinter of its own.
Anew ==
    /\ done \/ Live
    /\ recording' \in Recordings
    /\ done' = FALSE
    /\ offset' = 0 /\ received' = 0 /\ buffer' = 0 /\ dropped' = 0
    /\ cut' = << >> /\ points' = << >> /\ kept' = 1 /\ pairs' = {}
    /\ pending' = 0 /\ stored' = 0

PrintNext == ReadChunk \/ ReadEnds \/ Anew \/ \E n \in LiveChunks : LiveChunk(n)

PrintSpec == PrintInit /\ [][PrintNext]_printVars

-----------------------------------------------------------------------------

\* Types.  The fingerprint never outgrows its cap, and no window is left waiting.
PrintTypeOK ==
    /\ offset \in 0 .. recording.bytes
    /\ {received, dropped, pending} \subseteq Nat
    /\ buffer \in 0 .. Window - 1
    /\ stored \in 0 .. MaxHashes
    /\ kept \in 1 .. Len(points) + 1

Aligned == ReadBytes % recording.frame = 0

\* Chunks do not show: however a recording arrives, its windows follow each
\* other on the grid of the recording taken in one piece.  They are exactly its
\* windows unless the back-pressure dropped some, and then whole ones, and an
\* upload that reached its end has cut all of it, to the last frame if chunks
\* hold whole frames (createConstellation against process and flush).
CutLikeWhole ==
    /\ \A i \in DOMAIN cut : cut[i] % Window = 0
    /\ dropped = 0 => \A i \in DOMAIN cut : cut[i] = (i - 1) * Window
    /\ done /\ ~Capped =>
         /\ Len(cut) * Window + dropped \in received .. received + Window - 1
         /\ Aligned => received = (recording.bytes \div recording.frame) * recording.scale

\* Forgetting does not show either: although the live path keeps the latest peaks
\* only, it hashes every pair the whole recording would have (createHashes against
\* _hashNewPoints and _maybeCompact), and an upload loses no hash below its cap.
PairsLikeWhole ==
    /\ pairs = NewPairs(1, 0, points)
    /\ done /\ ~Capped => stored = Cardinality(pairs)

\* However it arrives, a recording is fingerprinted like the whole.
PrintsLikeWhole == CutLikeWhole /\ PairsLikeWhole

=============================================================================
