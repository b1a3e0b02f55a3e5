------------------------------ MODULE Lookups ------------------------------
(***************************************************************************)
(* The MusicBrainz client (musicbrainz.service.js) and the callers that    *)
(* wait for it (songs.service.js): a chain that lets one request run at a  *)
(* time, the interval between requests, the backoff after failures, the    *)
(* bounded cache, and the lookups in flight that later callers join.       *)
(*                                                                         *)
(* Time passes in ticks.  What an answer says is left out, and so are the  *)
(* milliseconds between two cover fetches, which the code does not queue.  *)
(***************************************************************************)
EXTENDS Naturals, Sequences, SequencesExt

CONSTANTS
    Callers,    \* requests of attendees and of the DJ that want metadata
    Matches,    \* searches by title and artist
    Summaries,  \* lookups of one recording
    Interval,   \* MIN_REQUEST_INTERVAL_MS
    Backoff,    \* FAILURE_BACKOFF_MS
    MaxCache,   \* MAX_CACHE_SIZE
    MaxAttempts,\* MAX_TRANSPORT_ATTEMPTS
    NoLookup

LookupKeys == Matches \cup Summaries

ASSUME LookupsAssumption ==
    /\ Matches \cap Summaries = {}
    /\ NoLookup \notin LookupKeys
    /\ {Interval, Backoff, MaxCache, MaxAttempts} \subseteq Nat \ {0}

VARIABLES
    caller,    \* what each caller does, and the lookup it awaits
    throttled, \* callers that looked something up a moment ago
    lookup,    \* inFlight: "none", in the "chain", at its "cover"
    chain,     \* requestTail: the requests not finished, in order
    turn,      \* the attempt of each request in the chain
    since,     \* ticks since lastRequestAt
    backoff,   \* ticks until unavailableUntil
    cache      \* the cached keys, oldest first

callers == <<caller, throttled>>
clock == <<since, backoff>>
lookupVars == <<caller, throttled, lookup, chain, turn, since, backoff, cache>>

AtRest == [pc |-> "rest", key |-> NoLookup, cover |-> FALSE]
NoTurn == [pc |-> "none", attempt |-> 0, wait |-> 0]
Queued(attempt) == [pc |-> "queued", attempt |-> attempt, wait |-> 0]

-----------------------------------------------------------------------------
(* Asking.                                                                 *)

\* A caller that wants a cover too fetches it by itself once it is answered.
Answered(call) == IF call.cover THEN [call EXCEPT !.pc = "cover"] ELSE AtRest

\* A cached answer, the lookup in flight, or a lookup of its own.
Ask(c, k, cover) ==
    LET call == [pc |-> "waits", key |-> k, cover |-> cover]
    IN  IF k \in ToSet(cache) THEN
            /\ caller' = [caller EXCEPT ![c] = Answered(call)]
            /\ UNCHANGED <<lookup, chain, turn>>
        ELSE
            /\ caller' = [caller EXCEPT ![c] = call]
            /\ IF lookup[k] # "none" THEN UNCHANGED <<lookup, chain, turn>>
               ELSE /\ lookup' = [lookup EXCEPT ![k] = "chain"]
                    /\ chain' = Append(chain, k)
                    /\ turn' = [turn EXCEPT ![k] = Queued(1)]

\* lookupMusicBrainz: an attendee confirms a suggestion, at most one at a time.
Confirm(c, k) ==
    /\ caller[c] = AtRest
    /\ c \notin throttled
    /\ throttled' = throttled \cup {c}
    /\ Ask(c, k, FALSE)
    /\ UNCHANGED <<clock, cache>>

Unthrottle(c) ==
    /\ throttled' = throttled \ {c}
    /\ UNCHANGED <<caller, lookup, chain, turn, cache, clock>>

\* findRecordingMatch: a suggestion wants the best match and its cover.
Suggested(c, k) ==
    /\ caller[c] = AtRest
    /\ Ask(c, k, TRUE)
    /\ UNCHANGED <<throttled, clock, cache>>

\* lookupRecordingSummary: an uploaded track or an accepted match.
Summarise(c, k) ==
    /\ caller[c] = AtRest
    /\ Ask(c, k, FALSE)
    /\ UNCHANGED <<throttled, clock, cache>>

\* _fetchCoverArt ends by itself: its abort timer sees to it.
CoverFetched(c) ==
    /\ caller[c].pc = "cover"
    /\ caller' = [caller EXCEPT ![c] = AtRest]
    /\ UNCHANGED <<throttled, lookup, chain, turn, cache, clock>>

-----------------------------------------------------------------------------
(* The request at the head of the chain.                                   *)

AnyMayRun(k) == TRUE                                               \* mutant
MayRun(k) == Head(chain) = k

DropsNone(k) == chain                                              \* mutant
Released(k) == Tail(chain)

\* _setCached pushes the oldest out.
Stored(k) == Append(IF Len(cache) >= MaxCache THEN Tail(cache) ELSE cache, k)

\* The lookup is over, with an answer or without: both are cached.
Finish(k) ==
    /\ lookup' = [lookup EXCEPT ![k] = "none"]
    /\ cache' = Stored(k)
    /\ caller' = [c \in Callers |->
                    IF caller[c].pc = "waits" /\ caller[c].key = k
                    THEN Answered(caller[c]) ELSE caller[c]]

\* The promise of the request is rejected: the chain goes on, the lookup ends.
Reject(k) ==
    /\ chain' = Released(k)
    /\ turn' = [turn EXCEPT ![k] = NoTurn]
    /\ Finish(k)

\* The backoff is active: that is a failure that starts it again.
NeverRefused == FALSE                                              \* mutant
Refused == backoff > 0

Refuse(k) ==
    /\ turn[k].pc = "queued"
    /\ MayRun(k)
    /\ Refused
    /\ backoff' = Backoff
    /\ Reject(k)
    /\ UNCHANGED <<since, throttled>>

StartAttempt(k) ==
    /\ turn[k].pc = "queued"
    /\ MayRun(k)
    /\ ~Refused
    /\ turn' = [turn EXCEPT ![k].pc = "sleeps", ![k].wait = Interval - since]
    /\ UNCHANGED <<callers, lookup, chain, cache, clock>>

Send(k) ==
    /\ turn[k].pc = "sleeps"
    /\ turn[k].wait = 0
    /\ turn' = [turn EXCEPT ![k].pc = "sent"]
    /\ since' = 0
    /\ UNCHANGED <<callers, lookup, chain, cache, backoff>>

\* A recording with a release goes on to its cover; the chain does not wait.
Replied(k) ==
    /\ turn[k].pc = "sent"
    /\ chain' = Released(k)
    /\ turn' = [turn EXCEPT ![k] = NoTurn]
    /\ \/ Finish(k)
       \/ /\ k \in Summaries
          /\ lookup' = [lookup EXCEPT ![k] = "cover"]
          /\ UNCHANGED <<cache, caller>>
    /\ UNCHANGED <<throttled, clock>>

\* A 4xx, or a body that is too large or is not JSON.
Rejected(k) ==
    /\ turn[k].pc = "sent"
    /\ Reject(k)
    /\ UNCHANGED <<throttled, clock>>

\* The connection breaks: once more, unless it was the last attempt.
Retry(k) ==
    /\ turn[k].pc = "sent"
    /\ turn[k].attempt < MaxAttempts
    /\ turn' = [turn EXCEPT ![k] = Queued(@.attempt + 1)]
    /\ UNCHANGED <<callers, lookup, chain, cache, clock>>

\* A timeout, a 429, a 5xx, or a connection broken for the last time.
Unavailable(k) ==
    /\ turn[k].pc = "sent"
    /\ backoff' = Backoff
    /\ Reject(k)
    /\ UNCHANGED <<since, throttled>>

SummaryCovered(k) ==
    /\ lookup[k] = "cover"
    /\ Finish(k)
    /\ UNCHANGED <<throttled, chain, turn, clock>>

-----------------------------------------------------------------------------
\* A day later: the next reader drops the entry.
Expire(k) ==
    /\ \E i \in DOMAIN cache : cache[i] = k /\ cache' = RemoveAt(cache, i)
    /\ UNCHANGED <<callers, lookup, chain, turn, clock>>

LookupTick ==
    /\ since < Interval \/ backoff > 0 \/ \E k \in LookupKeys : turn[k].wait > 0
    /\ since' = IF since < Interval THEN since + 1 ELSE since
    /\ backoff' = IF backoff > 0 THEN backoff - 1 ELSE 0
    /\ turn' = [k \in LookupKeys |->
                  [turn[k] EXCEPT !.wait = IF @ > 0 THEN @ - 1 ELSE 0]]
    /\ UNCHANGED <<callers, lookup, chain, cache>>

LookupInit ==
    /\ caller = [c \in Callers |-> AtRest]
    /\ throttled = {}
    /\ lookup = [k \in LookupKeys |-> "none"]
    /\ chain = <<>>
    /\ turn = [k \in LookupKeys |-> NoTurn]
    /\ since = Interval
    /\ backoff = 0
    /\ cache = <<>>

Progress(k) ==
    \/ Refuse(k)
    \/ StartAttempt(k)
    \/ Send(k)
    \/ Replied(k)
    \/ Rejected(k)
    \/ Retry(k)
    \/ Unavailable(k)
    \/ SummaryCovered(k)

LookupNext ==
    \/ \E c \in Callers :
         \/ \E k \in Matches : Confirm(c, k) \/ Suggested(c, k)
         \/ \E k \in Summaries : Summarise(c, k)
         \/ Unthrottle(c)
         \/ CoverFetched(c)
    \/ \E k \in LookupKeys : Progress(k) \/ Expire(k)
    \/ LookupTick

\* Timers fire, requests time out or are answered, promises settle.
LookupFairness ==
    /\ WF_lookupVars(LookupTick)
    /\ \A k \in LookupKeys : WF_lookupVars(Progress(k))
    /\ \A c \in Callers : WF_lookupVars(CoverFetched(c))

LookupSpec == LookupInit /\ [][LookupNext]_lookupVars /\ LookupFairness

-----------------------------------------------------------------------------
\* The variables have their types; the cache keeps its bound and holds no key
\* twice, the chain is exactly the lookups whose request is not over, and every
\* caller that waits has a lookup in flight to wait for.
LookupTypeOK ==
    /\ throttled \subseteq Callers
    /\ lookup \in [LookupKeys -> {"none", "chain", "cover"}]
    /\ turn \in [LookupKeys -> [pc : {"none", "queued", "sleeps", "sent"},
                                attempt : 0 .. MaxAttempts, wait : 0 .. Interval]]
    /\ since \in 0 .. Interval
    /\ backoff \in 0 .. Backoff
    /\ Len(cache) <= MaxCache /\ IsInjective(cache)
    /\ IsInjective(chain) /\ ToSet(chain) = {k \in LookupKeys : lookup[k] = "chain"}
    /\ \A c \in Callers : caller[c].pc = "waits" => lookup[caller[c].key] # "none"

Sends(k) == turn[k].pc # "sent" /\ turn'[k].pc = "sent"

\* Requests keep their distance, retries included, although the pause is computed
\* before the sleep and the time of the request is noted after it.
RequestsSpaced ==
    [][\A k \in LookupKeys : Sends(k) => since >= Interval]_lookupVars

\* No request is sent while the service is held to be unavailable, although the
\* backoff is looked at before the sleep.
BackoffHonoured ==
    [][\A k \in LookupKeys : Sends(k) => backoff = 0]_lookupVars

\* Every caller is answered in the end, whatever becomes of the requests before
\* its own.
EveryCallerAnswered ==
    \A c \in Callers : caller[c] # AtRest ~> caller[c] = AtRest

=============================================================================
