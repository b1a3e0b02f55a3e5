------------------------------ MODULE Matcher ------------------------------
(***************************************************************************)
(* The matcher's indexes (ram-matcher.js): one cache for the process, and  *)
(* loads that each matcher joins for itself only.  What an event's         *)
(* fingerprints are is the uploads' business: here they just change.       *)
(***************************************************************************)
EXTENDS Naturals, Sequences, FiniteSets, FiniteSetsExt, SequencesExt

CONSTANTS
    Parties,         \* events
    Matchers,        \* the shared matcher, and those of one REST call each
    Shared,          \* sharedRamMatcher
    MaxTrackHashes,  \* MAX_TRACK_HASHES
    MaxIndexed,      \* MAX_INDEXED_HASHES_PER_EVENT
    MaxCached,       \* MAX_CACHED_EVENTS
    Sizes,           \* bound: how many hashes an uploaded track has
    MaxRows          \* bound: fingerprint rows of all events together

ASSUME MatcherAssumption ==
    /\ Shared \in Matchers
    /\ IsFiniteSet(Matchers) /\ IsFiniteSet(Parties)
    /\ {MaxTrackHashes, MaxIndexed, MaxRows} \cup Sizes \subseteq Nat
    /\ MaxCached \in Nat \ {0}

VARIABLES
    stock,    \* audio_fingerprints: the hashes of each row of each event
    index,    \* eventIndex: the events cached, the one loaded longest ago first
    loads,  \* loadPromises of each matcher
    peak      \* history: the most loads ever in flight together

matcherVars == <<stock, index, loads, peak>>

NotLoading == [pc |-> "none", rows |-> << >>]

CachedEvents == {index[k].event : k \in DOMAIN index}
InFlight == {x \in Matchers \X Parties : loads[x].pc # "none"}
Total(rows) == FoldLeft(LAMBDA sum, n : sum + n, 0, rows)

-----------------------------------------------------------------------------

\* An upload or a deletion ends; the cache is not told.
Uploaded(e, n) ==
    /\ MapThenSumSet(LAMBDA f : Len(stock[f]), Parties) < MaxRows
    /\ stock' = [stock EXCEPT ![e] = Append(@, n)]
    /\ UNCHANGED <<index, loads, peak>>

Removed(e) ==
    /\ stock[e] # << >>
    /\ \E k \in DOMAIN stock[e] : stock' = [stock EXCEPT ![e] = RemoveAt(@, k)]
    /\ UNCHANGED <<index, loads, peak>>

\* At capacity the event loaded longest ago goes, one for each load.
EvictedNone == index                                               \* mutant
Evicted == IF Len(index) >= MaxCached THEN Tail(index) ELSE index

\* loadEvent of an event that is neither cached nor being loaded by the matcher.
LoadStarts(m, e) ==
    /\ e \notin CachedEvents
    /\ loads[<<m, e>>] = NotLoading
    /\ m # Shared => \A f \in Parties : loads[<<m, f>>] = NotLoading
    /\ index' = Evicted
    /\ loads' = [loads EXCEPT ![<<m, e>>].pc = "reads"]
    /\ peak' = Max({peak, Cardinality(InFlight) + 1})
    /\ UNCHANGED stock

\* A row with too many hashes is skipped, one that does not fit is cut.
WithRow(rows, n) ==
    LET room == MaxIndexed - Total(rows)
    IN  IF n > MaxTrackHashes \/ Total(rows) >= MaxIndexed THEN rows
        ELSE Append(rows, Min({n, room}))

LoadReads(m, e) ==
    /\ loads[<<m, e>>].pc = "reads"
    /\ loads' = [loads EXCEPT ![<<m, e>>] =
            [pc |-> "read", rows |-> FoldLeft(WithRow, << >>, stock[e])]]
    /\ UNCHANGED <<stock, index, peak>>

\* The cache without an event; it holds one at most once.
WithoutEvent(e) ==
    IF e \in CachedEvents THEN RemoveAt(index, CHOOSE k \in DOMAIN index : index[k].event = e)
    ELSE index

\* The names are decrypted; the index goes in, over one that came before it.
LoadEnds(m, e) ==
    /\ loads[<<m, e>>].pc = "read"
    /\ index' = Append(WithoutEvent(e), [event |-> e, rows |-> loads[<<m, e>>].rows])
    /\ loads' = [loads EXCEPT ![<<m, e>>] = NotLoading]
    /\ UNCHANGED <<stock, peak>>

LoadFails(m, e) ==
    /\ loads[<<m, e>>].pc # "none"
    /\ loads' = [loads EXCEPT ![<<m, e>>] = NotLoading]
    /\ UNCHANGED <<stock, index, peak>>

-----------------------------------------------------------------------------

MatcherInit ==
    /\ stock = [e \in Parties |-> << >>]
    /\ index = << >>
    /\ loads = [x \in Matchers \X Parties |-> NotLoading]
    /\ peak = 0

MatcherNext ==
    \E e \in Parties :
        \/ \E n \in Sizes : Uploaded(e, n)
        \/ Removed(e)
        \/ \E m \in Matchers :
             LoadStarts(m, e) \/ LoadReads(m, e) \/ LoadEnds(m, e) \/ LoadFails(m, e)

MatcherSpec == MatcherInit /\ [][MatcherNext]_matcherVars

-----------------------------------------------------------------------------

\* Types.  An event is cached once, whichever matchers loaded it together, and
\* within the budget of an event, whatever its rows (_doLoad).
MatcherTypeOK ==
    /\ stock \in [Parties -> Seq(Sizes)]
    /\ \A x \in ToSet(index) : x.event \in Parties /\ Total(x.rows) <= MaxIndexed
    /\ \A j, k \in DOMAIN index : index[j].event = index[k].event => j = k
    /\ \A x \in DOMAIN loads : loads[x].pc \in {"none", "reads", "read"}
    /\ peak \in Nat

\* The check of the cache's size precedes the load: the cache outgrows its cap,
\* by as many events as were once loaded together but one, and by no more.
CacheStaysNearCap ==
    Len(index) + Cardinality(InFlight) <= MaxCached - 1 + peak

=============================================================================
