--------------------------- MODULE Lookups_proofs ---------------------------
(***************************************************************************)
(* Proofs about the MusicBrainz client (Lookups): what is in the chain and *)
(* in the cache, and when a request goes out.  That every caller is        *)
(* answered is a liveness property and stays with TLC.                     *)
(***************************************************************************)
EXTENDS Lookups, SequenceTheorems, TLAPS

CallersOK ==
    /\ caller \in [Callers -> [pc : {"rest", "waits", "cover"},
                               key : LookupKeys \cup {NoLookup}, cover : BOOLEAN]]
    /\ \A c \in Callers :
         caller[c].pc = "waits" => caller[c].key \in LookupKeys /\ lookup[caller[c].key] # "none"

TablesOK ==
    /\ throttled \subseteq Callers
    /\ lookup \in [LookupKeys -> {"none", "chain", "cover"}]
    /\ turn \in [LookupKeys -> [pc : {"none", "queued", "sleeps", "sent"},
                                attempt : 0 .. MaxAttempts, wait : 0 .. Interval]]
    /\ since \in 0 .. Interval
    /\ backoff \in 0 .. Backoff

ChainOK ==
    /\ chain \in Seq(LookupKeys) /\ IsInjective(chain)
    /\ ToSet(chain) = {k \in LookupKeys : lookup[k] = "chain"}

CacheOK ==
    /\ cache \in Seq(LookupKeys) /\ IsInjective(cache) /\ Len(cache) <= MaxCache
    /\ \A k \in ToSet(cache) : lookup[k] = "none"

\* A request has a turn while it is in the chain.  Only the head takes it, and
\* while it sleeps no failure can come from anywhere else and what is left to
\* sleep makes up what is left of the interval.
TurnsOK ==
    \A k \in LookupKeys :
        /\ turn[k].pc = "none" <=> lookup[k] # "chain"
        /\ turn[k].pc \in {"sleeps", "sent"} => k = Head(chain)
        /\ turn[k].pc = "sleeps" => backoff = 0 /\ turn[k].wait + since >= Interval

LookupInv == CallersOK /\ TablesOK /\ ChainOK /\ CacheOK /\ TurnsOK

LEMMA Bounds ==
    /\ Interval \in Nat \ {0} /\ Backoff \in Nat \ {0}
    /\ MaxCache \in Nat \ {0} /\ MaxAttempts \in Nat \ {0}
BY LookupsAssumption

-----------------------------------------------------------------------------
(* Sequences without repetition.                                           *)

LEMMA TailOfInjective ==
    ASSUME NEW S, NEW s \in Seq(S), s # << >>, IsInjective(s)
    PROVE  /\ Tail(s) \in Seq(S) /\ IsInjective(Tail(s)) /\ Len(Tail(s)) = Len(s) - 1
           /\ Head(s) \in ToSet(s) /\ ToSet(Tail(s)) = ToSet(s) \ {Head(s)}
<1> DEFINE t == Tail(s)
           n == Len(s)
<1>1. /\ t \in Seq(S) /\ Len(t) = n - 1 /\ Head(s) = s[1]
      /\ \A i \in 1 .. n - 1 : t[i] = s[i + 1]
      /\ n \in Nat /\ n > 0
    BY EmptySeq, LenProperties, HeadTailProperties
<1>2. DOMAIN s = 1 .. n /\ DOMAIN t = 1 .. n - 1
    BY <1>1, LenProperties
<1>3. \A i, j \in DOMAIN s : s[i] = s[j] => i = j
    BY DEF IsInjective
<1> HIDE DEF t, n
<1>4. \A i \in DOMAIN t : i + 1 \in DOMAIN s /\ i + 1 # 1 /\ t[i] = s[i + 1]
    BY <1>1, <1>2
<1>5. IsInjective(t)
    <2> SUFFICES ASSUME NEW i \in DOMAIN t, NEW j \in DOMAIN t, t[i] = t[j] PROVE i = j
        BY DEF IsInjective
    <2>1. i + 1 = j + 1
        BY <1>3, <1>4
    <2> QED BY <1>1, <1>2, <2>1
<1>6. 1 \in DOMAIN s
    BY <1>1, <1>2
<1>7. ToSet(t) \subseteq ToSet(s) \ {s[1]}
    BY <1>3, <1>4, <1>6 DEF ToSet
<1>8. ASSUME NEW x \in ToSet(s), x # s[1] PROVE x \in ToSet(t)
    <2>1. PICK i \in DOMAIN s : x = s[i]
        BY DEF ToSet
    <2>2. i # 1 /\ i - 1 \in DOMAIN t /\ t[i - 1] = s[i]
        BY <1>1, <1>2, <1>8, <2>1
    <2> QED BY <2>1, <2>2 DEF ToSet
<1>9. ToSet(t) = ToSet(s) \ {s[1]}
    BY <1>7, <1>8
<1>10. s[1] \in ToSet(s)
    BY <1>6 DEF ToSet
<1> QED BY <1>1, <1>5, <1>9, <1>10 DEF t, n

LEMMA AppendToInjective ==
    ASSUME NEW S, NEW s \in Seq(S), NEW k \in S, IsInjective(s), k \notin ToSet(s)
    PROVE  /\ Append(s, k) \in Seq(S) /\ IsInjective(Append(s, k))
           /\ Len(Append(s, k)) = Len(s) + 1 /\ ToSet(Append(s, k)) = ToSet(s) \cup {k}
           /\ s # << >> => Head(Append(s, k)) = Head(s)
<1> DEFINE t == Append(s, k)
           n == Len(s)
<1>1. /\ t \in Seq(S) /\ Len(t) = n + 1 /\ n \in Nat
      /\ \A i \in 1 .. n : t[i] = s[i]
      /\ t[n + 1] = k
    BY LenProperties, AppendProperties
<1>2. DOMAIN s = 1 .. n /\ DOMAIN t = 1 .. n + 1
    BY <1>1, LenProperties
<1>3. \A i, j \in DOMAIN s : s[i] = s[j] => i = j
    BY DEF IsInjective
<1>4. s # << >> => Head(s) = s[1] /\ n > 0 /\ Head(t) = t[1]
    <2>1. t # << >>
        BY <1>1, EmptySeq
    <2> QED BY <1>1, <2>1, EmptySeq, LenProperties, HeadTailProperties
<1> HIDE DEF t, n
<1>5. \A i \in DOMAIN t : (i \in DOMAIN s /\ t[i] = s[i]) \/ (i = n + 1 /\ t[i] = k)
    BY <1>1, <1>2
<1>6. \A i \in DOMAIN s : s[i] # k /\ i # n + 1
    BY <1>1, <1>2 DEF ToSet
<1>7. IsInjective(t)
    BY <1>3, <1>5, <1>6 DEF IsInjective
<1>8. DOMAIN s \subseteq DOMAIN t /\ n + 1 \in DOMAIN t
    BY <1>1, <1>2
<1>9. ToSet(t) = ToSet(s) \cup {k}
    BY <1>1, <1>2, <1>5, <1>8 DEF ToSet
<1>10. s # << >> => Head(t) = Head(s)
    BY <1>1, <1>2, <1>4
<1> QED BY <1>1, <1>7, <1>9, <1>10 DEF t, n

\* Removing the element at a place moves those after it one place forward.
LEMMA RemoveAtProperties ==
    ASSUME NEW S, NEW s \in Seq(S), NEW k \in 1 .. Len(s)
    PROVE  /\ RemoveAt(s, k) \in Seq(S)
           /\ Len(RemoveAt(s, k)) = Len(s) - 1
           /\ \A j \in 1 .. Len(s) - 1 : RemoveAt(s, k)[j] = s[IF j < k THEN j ELSE j + 1]
<1> DEFINE a == SubSeq(s, 1, k - 1)
           b == SubSeq(s, k + 1, Len(s))
<1>1. Len(s) \in Nat /\ k \in Nat /\ \A i \in 1 .. Len(s) : s[i] \in S
    BY LenProperties, ElementOfSeq
<1>2. /\ a \in Seq(S) /\ Len(a) = k - 1
      /\ \A j \in 1 .. k - 1 : a[j] = s[j]
    <2>1. /\ a \in Seq(S) /\ Len(a) = IF 1 <= k - 1 THEN (k - 1) - 1 + 1 ELSE 0
          /\ \A j \in 1 .. (k - 1) - 1 + 1 : a[j] = s[1 + j - 1]
        BY <1>1, SubSeqProperties
    <2> HIDE DEF a
    <2> QED BY <1>1, <2>1
<1>3. /\ b \in Seq(S) /\ Len(b) = Len(s) - k
      /\ \A j \in 1 .. Len(s) - k : b[j] = s[k + j]
    <2>1. /\ b \in Seq(S) /\ Len(b) = IF k + 1 <= Len(s) THEN Len(s) - (k + 1) + 1 ELSE 0
          /\ \A j \in 1 .. Len(s) - (k + 1) + 1 : b[j] = s[(k + 1) + j - 1]
        BY <1>1, SubSeqProperties
    <2> HIDE DEF b
    <2> QED BY <1>1, <2>1
<1> HIDE DEF a, b
<1>4. /\ a \o b \in Seq(S) /\ Len(a \o b) = Len(a) + Len(b)
      /\ \A i \in 1 .. Len(a) + Len(b) :
            (a \o b)[i] = IF i <= Len(a) THEN a[i] ELSE b[i - Len(a)]
    BY <1>2, <1>3, ConcatProperties
<1>5. RemoveAt(s, k) = a \o b
    BY DEF RemoveAt, a, b
<1>6. ASSUME NEW j \in 1 .. Len(s) - 1
      PROVE  (a \o b)[j] = s[IF j < k THEN j ELSE j + 1]
    <2>1. CASE j < k
        BY <1>1, <1>2, <1>3, <1>4, <2>1
    <2>2. CASE ~(j < k)
        <3>1. j - (k - 1) \in 1 .. Len(s) - k /\ k + (j - (k - 1)) = j + 1
            BY <1>1, <2>2
        <3>2. j \in 1 .. Len(a) + Len(b) /\ ~(j <= Len(a)) /\ j - Len(a) = j - (k - 1)
            BY <1>1, <1>2, <1>3, <2>2
        <3>3. (a \o b)[j] = b[j - (k - 1)]
            BY <1>4, <3>2
        <3>4. b[j - (k - 1)] = s[j + 1]
            BY <1>3, <3>1
        <3> QED BY <2>2, <3>3, <3>4
    <2> QED BY <2>1, <2>2
<1>7. Len(a \o b) = Len(s) - 1
    BY <1>1, <1>2, <1>3, <1>4
<1> QED BY <1>4, <1>5, <1>6, <1>7

LEMMA RemoveAtOfInjective ==
    ASSUME NEW S, NEW s \in Seq(S), IsInjective(s), NEW k \in DOMAIN s
    PROVE  /\ RemoveAt(s, k) \in Seq(S) /\ IsInjective(RemoveAt(s, k))
           /\ Len(RemoveAt(s, k)) = Len(s) - 1 /\ ToSet(RemoveAt(s, k)) \subseteq ToSet(s)
<1> DEFINE t == RemoveAt(s, k)
           n == Len(s)
<1>1. n \in Nat /\ DOMAIN s = 1 .. n /\ k \in 1 .. n
    BY LenProperties
<1>2. /\ t \in Seq(S) /\ Len(t) = n - 1
      /\ \A j \in 1 .. n - 1 : t[j] = s[IF j < k THEN j ELSE j + 1]
    BY <1>1, RemoveAtProperties
<1>3. DOMAIN t = 1 .. n - 1
    BY <1>2, LenProperties
<1> HIDE DEF t, n
<1> DEFINE old(j) == IF j < k THEN j ELSE j + 1
<1>4. \A j \in DOMAIN t : old(j) \in DOMAIN s /\ t[j] = s[old(j)]
    BY <1>1, <1>2, <1>3
<1>5. \A i, j \in DOMAIN t : old(i) = old(j) => i = j
    BY <1>1, <1>3
<1> HIDE DEF old
<1>6. IsInjective(t)
    BY <1>4, <1>5 DEF IsInjective
<1>7. ToSet(t) \subseteq ToSet(s)
    BY <1>4 DEF ToSet
<1> QED BY <1>2, <1>6, <1>7 DEF t, n

-----------------------------------------------------------------------------
(* Every step keeps the invariant.                                         *)

LEMMA LookupInvInit == LookupInit => LookupInv
<1> SUFFICES ASSUME LookupInit PROVE LookupInv
    OBVIOUS
<1>1. CallersOK
    BY DEF LookupInit, CallersOK, AtRest
<1>2. TablesOK
    BY Bounds DEF LookupInit, TablesOK, NoTurn
<1>3. /\ << >> \in Seq(LookupKeys) /\ IsInjective(<< >>) /\ Len(<< >>) = 0
      /\ ToSet(<< >>) = {}
    <2>1. << >> \in Seq(LookupKeys) /\ Len(<< >>) = 0 /\ DOMAIN << >> = {}
        BY EmptySeq, LenProperties
    <2> QED BY <2>1 DEF IsInjective, ToSet
<1>4. ChainOK /\ CacheOK
    BY <1>3, Bounds DEF LookupInit, ChainOK, CacheOK
<1>5. TurnsOK
    BY DEF LookupInit, TurnsOK, NoTurn
<1> QED BY <1>1, <1>2, <1>4, <1>5 DEF LookupInv

\* What the chain says of the request that has its turn.
LEMMA HeadOfChain ==
    ASSUME LookupInv, NEW k \in LookupKeys, turn[k].pc # "none",
           turn[k].pc \in {"sleeps", "sent"} \/ MayRun(k)
    PROVE  /\ chain # << >> /\ k = Head(chain) /\ lookup[k] = "chain" /\ k \notin ToSet(cache)
           /\ \A l \in LookupKeys : turn[l].pc \in {"sleeps", "sent"} => l = k
<1>1. lookup[k] = "chain" /\ k = Head(chain)
    BY DEF LookupInv, TurnsOK, MayRun
<1>2. k \in ToSet(chain) /\ k \notin ToSet(cache)
    BY <1>1 DEF LookupInv, ChainOK, CacheOK
<1>3. chain # << >>
    BY <1>2 DEF ToSet
<1> QED BY <1>1, <1>2, <1>3 DEF LookupInv, TurnsOK

\* A caller asks.
LEMMA AskStep ==
    ASSUME LookupInv, NEW c \in Callers, NEW k \in LookupKeys, NEW cover \in BOOLEAN,
           Ask(c, k, cover), UNCHANGED <<clock, cache>>, throttled' \subseteq Callers
    PROVE  LookupInv'
<1> DEFINE asked == [pc |-> "waits", key |-> k, cover |-> cover]
<1>0. UNCHANGED <<since, backoff, cache>>
    BY DEF clock
<1>1. CASE k \in ToSet(cache)
    <2>1. caller' = [caller EXCEPT ![c] = Answered(asked)] /\ UNCHANGED <<lookup, chain, turn>>
        BY <1>1 DEF Ask
    <2>2. Answered(asked) \in [pc : {"rest", "cover"}, key : LookupKeys \cup {NoLookup}, cover : BOOLEAN]
        BY DEF Answered, AtRest
    <2>3. CallersOK'
        <3> HIDE DEF asked
        <3> QED BY <2>1, <2>2 DEF LookupInv, CallersOK
    <2> QED BY <1>0, <2>1, <2>3 DEF LookupInv, TablesOK, ChainOK, CacheOK, TurnsOK
<1>2. CASE k \notin ToSet(cache) /\ lookup[k] # "none"
    <2>1. caller' = [caller EXCEPT ![c] = asked] /\ UNCHANGED <<lookup, chain, turn>>
        BY <1>2 DEF Ask
    <2>2. CallersOK'
        BY <1>2, <2>1 DEF LookupInv, CallersOK
    <2> QED BY <1>0, <2>1, <2>2 DEF LookupInv, TablesOK, ChainOK, CacheOK, TurnsOK
<1>3. CASE k \notin ToSet(cache) /\ lookup[k] = "none"
    <2>1. /\ caller' = [caller EXCEPT ![c] = asked]
          /\ lookup' = [lookup EXCEPT ![k] = "chain"] /\ chain' = Append(chain, k)
          /\ turn' = [turn EXCEPT ![k] = Queued(1)]
        BY <1>3 DEF Ask
    <2>2. /\ lookup' \in [LookupKeys -> {"none", "chain", "cover"}] /\ lookup'[k] = "chain"
          /\ \A l \in LookupKeys : l # k => lookup'[l] = lookup[l]
        BY <2>1 DEF LookupInv, TablesOK
    <2>3. CallersOK'
        BY <2>1, <2>2 DEF LookupInv, CallersOK
    <2>4. /\ k \notin ToSet(chain)
          /\ chain' \in Seq(LookupKeys) /\ IsInjective(chain') /\ ToSet(chain') = ToSet(chain) \cup {k}
          /\ chain # << >> => Head(chain') = Head(chain)
        <3>1. k \notin ToSet(chain)
            BY <1>3 DEF LookupInv, ChainOK
        <3> QED BY <2>1, <3>1, AppendToInjective DEF LookupInv, ChainOK
    <2>5. ChainOK'
        BY <2>2, <2>4 DEF LookupInv, ChainOK
    <2>6. CacheOK'
        <3>1. cache \in Seq(LookupKeys) /\ \A l \in ToSet(cache) : l \in LookupKeys
            BY ElementOfSeq, LenProperties DEF LookupInv, CacheOK, ToSet
        <3> QED BY <1>0, <1>3, <2>2, <3>1 DEF LookupInv, CacheOK
    <2>7. /\ Queued(1) \in [pc : {"none", "queued", "sleeps", "sent"},
                            attempt : 0 .. MaxAttempts, wait : 0 .. Interval]
          /\ Queued(1).pc = "queued"
        BY Bounds DEF Queued
    <2>8. TablesOK'
        BY <1>0, <2>1, <2>2, <2>7 DEF LookupInv, TablesOK
    <2>9. TurnsOK'
        <3> SUFFICES ASSUME NEW l \in LookupKeys
                     PROVE  /\ turn'[l].pc = "none" <=> lookup'[l] # "chain"
                            /\ turn'[l].pc \in {"sleeps", "sent"} => l = Head(chain')
                            /\ turn'[l].pc = "sleeps" =>
                                 backoff' = 0 /\ turn'[l].wait + since' >= Interval
            BY DEF TurnsOK
        <3>1. CASE l = k
            BY <2>1, <2>2, <2>7, <3>1 DEF LookupInv, TablesOK
        <3>2. CASE l # k
            <4>1. turn'[l] = turn[l] /\ lookup'[l] = lookup[l]
                BY <2>1, <2>2, <3>2 DEF LookupInv, TablesOK
            <4>2. turn[l].pc \in {"sleeps", "sent"} => chain # << >>
                BY HeadOfChain
            <4> QED BY <1>0, <2>4, <4>1, <4>2 DEF LookupInv, TurnsOK
        <3> QED BY <3>1, <3>2
    <2> QED BY <2>3, <2>5, <2>6, <2>8, <2>9 DEF LookupInv
<1> QED BY <1>1, <1>2, <1>3 DEF LookupInv, TablesOK

\* The lookup is over: its callers are answered, and the cache keeps its bound.
LEMMA FinishKeeps ==
    ASSUME LookupInv, NEW k \in LookupKeys, Finish(k), k \notin ToSet(cache)
    PROVE  /\ CallersOK' /\ CacheOK'
           /\ lookup' = [lookup EXCEPT ![k] = "none"]
<1>1. /\ lookup' = [lookup EXCEPT ![k] = "none"]
      /\ lookup'[k] = "none" /\ \A l \in LookupKeys : l # k => lookup'[l] = lookup[l]
    BY DEF Finish, LookupInv, TablesOK
<1>2. CallersOK'
    <2>1. \A c \in Callers : caller'[c] =
            IF caller[c].pc = "waits" /\ caller[c].key = k THEN Answered(caller[c]) ELSE caller[c]
        BY DEF Finish
    <2>2. \A c \in Callers :
            /\ caller'[c] \in [pc : {"rest", "waits", "cover"},
                               key : LookupKeys \cup {NoLookup}, cover : BOOLEAN]
            /\ caller'[c].pc = "waits" => caller'[c] = caller[c] /\ caller[c].key # k
        <3> SUFFICES ASSUME NEW c \in Callers
                     PROVE  /\ caller'[c] \in [pc : {"rest", "waits", "cover"},
                                               key : LookupKeys \cup {NoLookup}, cover : BOOLEAN]
                            /\ caller'[c].pc = "waits" => caller'[c] = caller[c] /\ caller[c].key # k
            OBVIOUS
        <3>1. caller[c] \in [pc : {"rest", "waits", "cover"},
                             key : LookupKeys \cup {NoLookup}, cover : BOOLEAN]
            BY DEF LookupInv, CallersOK
        <3>2. Answered(caller[c]) \in [pc : {"rest", "cover"},
                             key : LookupKeys \cup {NoLookup}, cover : BOOLEAN]
            BY <3>1 DEF Answered, AtRest
        <3> QED BY <2>1, <3>1, <3>2
    <2>3. caller' = [c \in Callers |-> caller'[c]]
        BY DEF Finish
    <2>4. caller' \in [Callers -> [pc : {"rest", "waits", "cover"},
                                   key : LookupKeys \cup {NoLookup}, cover : BOOLEAN]]
        BY <2>2, <2>3
    <2> QED BY <1>1, <2>2, <2>4 DEF LookupInv, CallersOK
<1>3. CacheOK'
    <2> DEFINE rest == IF Len(cache) >= MaxCache THEN Tail(cache) ELSE cache
    <2>1. cache' = Append(rest, k)
        BY DEF Finish, Stored
    <2>2. cache \in Seq(LookupKeys) /\ Len(cache) \in Nat /\ Len(cache) <= MaxCache
          /\ \A l \in ToSet(cache) : l \in LookupKeys /\ lookup[l] = "none"
        BY ElementOfSeq, LenProperties DEF LookupInv, CacheOK, ToSet
    <2>3. /\ rest \in Seq(LookupKeys) /\ IsInjective(rest) /\ Len(rest) <= MaxCache - 1
          /\ ToSet(rest) \subseteq ToSet(cache)
        <3>1. CASE Len(cache) >= MaxCache
            <4>1. cache # << >>
                BY <3>1, Bounds, EmptySeq
            <4>2. /\ Tail(cache) \in Seq(LookupKeys) /\ IsInjective(Tail(cache))
                  /\ Len(Tail(cache)) = Len(cache) - 1 /\ ToSet(Tail(cache)) \subseteq ToSet(cache)
                BY <2>2, <4>1, TailOfInjective DEF LookupInv, CacheOK
            <4> QED BY <2>2, <3>1, <4>2, Bounds
        <3>2. CASE ~(Len(cache) >= MaxCache)
            BY <2>2, <3>2, Bounds DEF LookupInv, CacheOK
        <3> QED BY <3>1, <3>2
    <2> HIDE DEF rest
    <2>4. /\ cache' \in Seq(LookupKeys) /\ IsInjective(cache') /\ Len(cache') = Len(rest) + 1
          /\ ToSet(cache') = ToSet(rest) \cup {k}
        BY <2>1, <2>3, AppendToInjective
    <2>5. Len(cache') <= MaxCache
        BY <2>3, <2>4, Bounds, LenProperties
    <2> QED BY <1>1, <2>2, <2>3, <2>4, <2>5 DEF CacheOK
<1> QED BY <1>1, <1>2, <1>3

\* The request at the head is over: the next one may take its turn.
LEMMA ReleaseKeeps ==
    ASSUME LookupInv, NEW k \in LookupKeys, chain # << >>, k = Head(chain), lookup[k] = "chain",
           \A l \in LookupKeys : turn[l].pc \in {"sleeps", "sent"} => l = k,
           NEW state \in {"none", "cover"}, lookup' = [lookup EXCEPT ![k] = state],
           chain' = Tail(chain), turn' = [turn EXCEPT ![k] = NoTurn],
           throttled' = throttled, since' = since, backoff' \in {backoff, Backoff}
    PROVE  TablesOK' /\ ChainOK' /\ TurnsOK'
<1>1. /\ lookup' \in [LookupKeys -> {"none", "chain", "cover"}] /\ lookup'[k] = state
      /\ \A l \in LookupKeys : l # k => lookup'[l] = lookup[l]
    BY DEF LookupInv, TablesOK
<1>2. /\ NoTurn \in [pc : {"none", "queued", "sleeps", "sent"},
                     attempt : 0 .. MaxAttempts, wait : 0 .. Interval]
      /\ NoTurn.pc = "none"
    BY Bounds DEF NoTurn
<1>3. /\ turn' \in [LookupKeys -> [pc : {"none", "queued", "sleeps", "sent"},
                                   attempt : 0 .. MaxAttempts, wait : 0 .. Interval]]
      /\ turn'[k].pc = "none" /\ \A l \in LookupKeys : l # k => turn'[l] = turn[l]
    BY <1>2 DEF LookupInv, TablesOK
<1>4. TablesOK'
    BY <1>1, <1>3, Bounds DEF LookupInv, TablesOK
<1>5. /\ chain' \in Seq(LookupKeys) /\ IsInjective(chain')
      /\ ToSet(chain') = ToSet(chain) \ {k}
    BY TailOfInjective DEF LookupInv, ChainOK
<1>6. ChainOK'
    BY <1>1, <1>5 DEF LookupInv, ChainOK
<1>7. TurnsOK'
    BY <1>1, <1>3 DEF LookupInv, TurnsOK
<1> QED BY <1>4, <1>6, <1>7

LEMMA RejectStep ==
    ASSUME LookupInv, NEW k \in LookupKeys, Reject(k),
           turn[k].pc \in {"sleeps", "sent"} \/ (turn[k].pc = "queued" /\ MayRun(k)),
           throttled' = throttled, since' = since, backoff' \in {backoff, Backoff}
    PROVE  LookupInv'
<1>1. /\ chain # << >> /\ k = Head(chain) /\ lookup[k] = "chain" /\ k \notin ToSet(cache)
      /\ \A l \in LookupKeys : turn[l].pc \in {"sleeps", "sent"} => l = k
    BY HeadOfChain
<1>2. chain' = Tail(chain) /\ turn' = [turn EXCEPT ![k] = NoTurn] /\ Finish(k)
    BY DEF Reject, Released
<1>3. CallersOK' /\ CacheOK' /\ lookup' = [lookup EXCEPT ![k] = "none"]
    BY <1>1, <1>2, FinishKeeps
<1>4. TablesOK' /\ ChainOK' /\ TurnsOK'
    BY <1>1, <1>2, <1>3, ReleaseKeeps
<1> QED BY <1>3, <1>4 DEF LookupInv

\* The head of the chain takes its turn further.
LEMMA TurnStep ==
    ASSUME LookupInv, NEW k \in LookupKeys,
           turn[k].pc \in {"sleeps", "sent"} \/ (turn[k].pc = "queued" /\ MayRun(k)),
           NEW n \in [pc : {"queued", "sleeps", "sent"}, attempt : 0 .. MaxAttempts,
                      wait : 0 .. Interval],
           turn' = [turn EXCEPT ![k] = n], since' \in 0 .. Interval,
           n.pc = "sleeps" => backoff = 0 /\ n.wait + since' >= Interval,
           UNCHANGED <<callers, lookup, chain, cache, backoff>>
    PROVE  LookupInv'
<1>1. /\ chain # << >> /\ k = Head(chain) /\ lookup[k] = "chain"
      /\ \A l \in LookupKeys : turn[l].pc \in {"sleeps", "sent"} => l = k
    BY HeadOfChain
<1>2. /\ turn' \in [LookupKeys -> [pc : {"none", "queued", "sleeps", "sent"},
                                   attempt : 0 .. MaxAttempts, wait : 0 .. Interval]]
      /\ turn'[k] = n /\ \A l \in LookupKeys : l # k => turn'[l] = turn[l]
    BY DEF LookupInv, TablesOK
<1>3. TurnsOK'
    <2> SUFFICES ASSUME NEW l \in LookupKeys
                 PROVE  /\ turn'[l].pc = "none" <=> lookup'[l] # "chain"
                        /\ turn'[l].pc \in {"sleeps", "sent"} => l = Head(chain')
                        /\ turn'[l].pc = "sleeps" =>
                             backoff' = 0 /\ turn'[l].wait + since' >= Interval
        BY DEF TurnsOK
    <2>1. CASE l = k
        BY <1>1, <1>2, <2>1
    <2>2. CASE l # k
        BY <1>1, <1>2, <2>2 DEF LookupInv, TurnsOK
    <2> QED BY <2>1, <2>2
<1> QED BY <1>2, <1>3 DEF LookupInv, CallersOK, TablesOK, ChainOK, CacheOK, callers

LEMMA ProgressStep ==
    ASSUME LookupInv, NEW k \in LookupKeys, Progress(k)
    PROVE  LookupInv'
<1> DEFINE t == turn[k]
<1>0. /\ t \in [pc : {"none", "queued", "sleeps", "sent"}, attempt : 0 .. MaxAttempts,
                wait : 0 .. Interval]
      /\ turn \in [LookupKeys -> [pc : {"none", "queued", "sleeps", "sent"},
                                  attempt : 0 .. MaxAttempts, wait : 0 .. Interval]]
      /\ since \in 0 .. Interval /\ backoff \in 0 .. Backoff
    BY DEF LookupInv, TablesOK
<1>1. CASE Refuse(k)
    BY <1>1, RejectStep DEF Refuse
<1>2. CASE Rejected(k) \/ Unavailable(k)
    BY <1>2, RejectStep DEF Rejected, Unavailable, clock
<1>3. CASE StartAttempt(k)
    <2> DEFINE w == Interval - since
               n == [t EXCEPT !.pc = "sleeps", !.wait = w]
    <2>a. w \in 0 .. Interval /\ w + since >= Interval
        BY <1>0, Bounds
    <2>1. /\ n \in [pc : {"queued", "sleeps", "sent"}, attempt : 0 .. MaxAttempts,
                    wait : 0 .. Interval]
          /\ n.wait + since >= Interval
        <3> HIDE DEF w
        <3>1. n.wait = w
            BY <1>0
        <3> QED BY <1>0, <2>a, <3>1
    <2>2. turn' = [turn EXCEPT ![k] = n]
        BY <1>0, <1>3 DEF StartAttempt
    <2>3. backoff = 0
        BY <1>0, <1>3, Bounds DEF StartAttempt, Refused
    <2>4. UNCHANGED <<callers, lookup, chain, cache, backoff>> /\ since' = since
        BY <1>3 DEF StartAttempt, clock
    <2>5. t.pc = "queued" /\ MayRun(k)
        BY <1>3 DEF StartAttempt
    <2> HIDE DEF n
    <2> QED BY <1>0, <2>1, <2>2, <2>3, <2>4, <2>5, TurnStep
<1>4. CASE Send(k)
    <2> DEFINE n == [t EXCEPT !.pc = "sent"]
    <2>1. /\ n \in [pc : {"queued", "sleeps", "sent"}, attempt : 0 .. MaxAttempts,
                    wait : 0 .. Interval]
          /\ n.pc = "sent"
        BY <1>0
    <2>2. turn' = [turn EXCEPT ![k] = n]
        BY <1>0, <1>4 DEF Send
    <2>3. /\ UNCHANGED <<callers, lookup, chain, cache, backoff>> /\ since' \in 0 .. Interval
          /\ t.pc = "sleeps"
        BY <1>4, Bounds DEF Send
    <2> HIDE DEF n
    <2> QED BY <2>1, <2>2, <2>3, TurnStep
<1>5. CASE Replied(k)
    <2>1. /\ chain # << >> /\ k = Head(chain) /\ lookup[k] = "chain" /\ k \notin ToSet(cache)
          /\ \A l \in LookupKeys : turn[l].pc \in {"sleeps", "sent"} => l = k
        BY <1>5, HeadOfChain DEF Replied
    <2>2. /\ chain' = Tail(chain) /\ turn' = [turn EXCEPT ![k] = NoTurn]
          /\ throttled' = throttled /\ since' = since /\ backoff' = backoff
        BY <1>5 DEF Replied, Released, clock
    <2>3. CASE Finish(k)
        <3>1. CallersOK' /\ CacheOK' /\ lookup' = [lookup EXCEPT ![k] = "none"]
            BY <2>1, <2>3, FinishKeeps
        <3>2. TablesOK' /\ ChainOK' /\ TurnsOK'
            BY <2>1, <2>2, <3>1, ReleaseKeeps
        <3> QED BY <3>1, <3>2 DEF LookupInv
    <2>4. CASE lookup' = [lookup EXCEPT ![k] = "cover"] /\ UNCHANGED <<cache, caller>>
        <3>1. TablesOK' /\ ChainOK' /\ TurnsOK'
            BY <2>1, <2>2, <2>4, ReleaseKeeps
        <3>2. lookup'[k] = "cover" /\ \A l \in LookupKeys : l # k => lookup'[l] = lookup[l]
            BY <2>4 DEF LookupInv, TablesOK
        <3>3. CallersOK'
            BY <2>4, <3>2 DEF LookupInv, CallersOK
        <3>4. \A l \in ToSet(cache) : l \in LookupKeys
            BY ElementOfSeq, LenProperties DEF LookupInv, CacheOK, ToSet
        <3>5. CacheOK'
            BY <2>1, <2>4, <3>2, <3>4 DEF LookupInv, CacheOK
        <3> QED BY <3>1, <3>3, <3>5 DEF LookupInv
    <2> QED BY <1>5, <2>3, <2>4 DEF Replied
<1>6. CASE Retry(k)
    <2> DEFINE n == Queued(t.attempt + 1)
    <2>1. /\ n \in [pc : {"queued", "sleeps", "sent"}, attempt : 0 .. MaxAttempts,
                    wait : 0 .. Interval]
          /\ n.pc = "queued"
        BY <1>0, <1>6, Bounds DEF Queued, Retry
    <2>2. turn' = [turn EXCEPT ![k] = n]
        BY <1>6 DEF Retry
    <2>3. /\ UNCHANGED <<callers, lookup, chain, cache, backoff>> /\ since' = since
          /\ t.pc = "sent"
        BY <1>6 DEF Retry, clock
    <2> HIDE DEF n
    <2> QED BY <1>0, <2>1, <2>2, <2>3, TurnStep
<1>7. CASE SummaryCovered(k)
    <2>1. lookup[k] = "cover" /\ Finish(k)
          /\ UNCHANGED <<throttled, chain, turn, since, backoff>>
        BY <1>7 DEF SummaryCovered, clock
    <2>2. k \notin ToSet(cache)
        BY <2>1 DEF LookupInv, CacheOK
    <2>3. CallersOK' /\ CacheOK' /\ lookup' = [lookup EXCEPT ![k] = "none"]
        BY <2>1, <2>2, FinishKeeps
    <2>4. /\ lookup' \in [LookupKeys -> {"none", "chain", "cover"}]
          /\ lookup'[k] = "none" /\ \A l \in LookupKeys : l # k => lookup'[l] = lookup[l]
        BY <2>3 DEF LookupInv, TablesOK
    <2>5. TablesOK' /\ ChainOK' /\ TurnsOK'
        BY <2>1, <2>4 DEF LookupInv, TablesOK, ChainOK, TurnsOK
    <2> QED BY <2>3, <2>5 DEF LookupInv
<1> QED BY <1>1, <1>2, <1>3, <1>4, <1>5, <1>6, <1>7 DEF Progress

LEMMA ExpireStep ==
    ASSUME LookupInv, NEW k \in LookupKeys, Expire(k)
    PROVE  LookupInv'
<1>1. PICK i \in DOMAIN cache : cache' = RemoveAt(cache, i)
    BY DEF Expire
<1>2. UNCHANGED <<caller, throttled, lookup, chain, turn, since, backoff>>
    BY DEF Expire, callers, clock
<1>3. /\ cache' \in Seq(LookupKeys) /\ IsInjective(cache')
      /\ Len(cache') = Len(cache) - 1 /\ ToSet(cache') \subseteq ToSet(cache)
    BY <1>1, RemoveAtOfInjective DEF LookupInv, CacheOK
<1>4. Len(cache) \in Nat
    BY LenProperties DEF LookupInv, CacheOK
<1>5. CacheOK'
    BY <1>2, <1>3, <1>4, Bounds DEF LookupInv, CacheOK
<1> QED BY <1>2, <1>5 DEF LookupInv, CallersOK, TablesOK, ChainOK, TurnsOK

\* A tick shortens the sleep by no more than it lengthens the time since the last
\* request.
LEMMA TickStep ==
    ASSUME LookupInv, LookupTick
    PROVE  LookupInv'
<1>0. UNCHANGED <<caller, throttled, lookup, chain, cache>>
    BY DEF LookupTick, callers
<1>1. /\ since' \in 0 .. Interval /\ backoff' \in 0 .. Backoff
      /\ backoff = 0 => backoff' = 0
      /\ since' = IF since < Interval THEN since + 1 ELSE since
      /\ since \in 0 .. Interval
    BY Bounds DEF LookupTick, LookupInv, TablesOK
<1>2. ASSUME NEW l \in LookupKeys
      PROVE  /\ turn'[l] \in [pc : {"none", "queued", "sleeps", "sent"},
                              attempt : 0 .. MaxAttempts, wait : 0 .. Interval]
             /\ turn'[l].pc = turn[l].pc
             /\ turn'[l].wait = IF turn[l].wait > 0 THEN turn[l].wait - 1 ELSE 0
             /\ turn[l].wait \in 0 .. Interval
    <2>1. turn[l] \in [pc : {"none", "queued", "sleeps", "sent"},
                       attempt : 0 .. MaxAttempts, wait : 0 .. Interval]
        BY DEF LookupInv, TablesOK
    <2> DEFINE w == IF turn[l].wait > 0 THEN turn[l].wait - 1 ELSE 0
    <2>2. turn'[l] = [turn[l] EXCEPT !.wait = w]
        BY DEF LookupTick
    <2>3. w \in 0 .. Interval
        BY <2>1, Bounds
    <2> HIDE DEF w
    <2>4. turn'[l] \in [pc : {"none", "queued", "sleeps", "sent"},
                        attempt : 0 .. MaxAttempts, wait : 0 .. Interval]
          /\ turn'[l].pc = turn[l].pc /\ turn'[l].wait = w
        BY <2>1, <2>2, <2>3
    <2> QED BY <2>1, <2>4 DEF w
<1>3. turn' = [l \in LookupKeys |-> turn'[l]]
    BY DEF LookupTick
<1>4. TablesOK'
    <2>1. turn' \in [LookupKeys -> [pc : {"none", "queued", "sleeps", "sent"},
                                    attempt : 0 .. MaxAttempts, wait : 0 .. Interval]]
        BY <1>2, <1>3
    <2> QED BY <1>0, <1>1, <2>1 DEF LookupInv, TablesOK
<1>5. TurnsOK'
    <2> SUFFICES ASSUME NEW l \in LookupKeys
                 PROVE  /\ turn'[l].pc = "none" <=> lookup'[l] # "chain"
                        /\ turn'[l].pc \in {"sleeps", "sent"} => l = Head(chain')
                        /\ turn'[l].pc = "sleeps" =>
                             backoff' = 0 /\ turn'[l].wait + since' >= Interval
        BY DEF TurnsOK
    <2>1. /\ turn[l].pc = "none" <=> lookup[l] # "chain"
          /\ turn[l].pc \in {"sleeps", "sent"} => l = Head(chain)
          /\ turn[l].pc = "sleeps" => backoff = 0 /\ turn[l].wait + since >= Interval
        BY DEF LookupInv, TurnsOK
    <2>2. turn[l].wait + since >= Interval => turn'[l].wait + since' >= Interval
        BY <1>1, <1>2, Bounds
    <2> QED BY <1>0, <1>1, <1>2, <2>1, <2>2
<1> QED BY <1>0, <1>4, <1>5 DEF LookupInv, CallersOK, ChainOK, CacheOK

LEMMA LookupInvStep == LookupInv /\ [LookupNext]_lookupVars => LookupInv'
<1> SUFFICES ASSUME LookupInv, [LookupNext]_lookupVars PROVE LookupInv'
    OBVIOUS
<1>0. throttled \subseteq Callers
    BY DEF LookupInv, TablesOK
<1>1. CASE UNCHANGED lookupVars
    BY <1>1 DEF lookupVars, LookupInv, CallersOK, TablesOK, ChainOK, CacheOK, TurnsOK
<1>2. ASSUME NEW c \in Callers, NEW k \in Matches, Confirm(c, k) \/ Suggested(c, k)
      PROVE  LookupInv'
    BY <1>0, <1>2, AskStep DEF Confirm, Suggested, LookupKeys
<1>3. ASSUME NEW c \in Callers, NEW k \in Summaries, Summarise(c, k) PROVE LookupInv'
    BY <1>0, <1>3, AskStep DEF Summarise, LookupKeys
<1>4. ASSUME NEW c \in Callers, Unthrottle(c) PROVE LookupInv'
    BY <1>4 DEF Unthrottle, clock, LookupInv, CallersOK, TablesOK, ChainOK, CacheOK, TurnsOK
<1>5. ASSUME NEW c \in Callers, CoverFetched(c) PROVE LookupInv'
    <2>1. UNCHANGED <<throttled, lookup, chain, turn, cache, since, backoff>>
          /\ caller' = [caller EXCEPT ![c] = AtRest]
        BY <1>5 DEF CoverFetched, clock
    <2>2. CallersOK'
        BY <2>1 DEF LookupInv, CallersOK, AtRest
    <2> QED BY <2>1, <2>2 DEF LookupInv, TablesOK, ChainOK, CacheOK, TurnsOK
<1> QED BY <1>1, <1>2, <1>3, <1>4, <1>5, ProgressStep, ExpireStep, TickStep DEF LookupNext

\* The inductive invariant of the client.  That requests keep their distance is not
\* inductive: the pause is computed before the sleep, so what is left of it has to
\* cover what is left of the interval while nothing else can send.
THEOREM LookupsInvariant == LookupSpec => []LookupInv
<1> QED BY LookupInvInit, LookupInvStep, PTL DEF LookupSpec

\* The cache keeps its bound and holds no key twice, the chain is exactly the
\* lookups whose request is not over, and every caller that waits has a lookup in
\* flight to wait for (_setCached, requestTail, inFlight).
THEOREM LookupTypeCorrect == LookupSpec => []LookupTypeOK
<1>1. LookupInv => LookupTypeOK
    BY DEF LookupInv, CallersOK, TablesOK, ChainOK, CacheOK, LookupTypeOK
<1> QED BY <1>1, LookupsInvariant, PTL

-----------------------------------------------------------------------------
(* When a request goes out.                                                *)

\* Only Send sends.
LEMMA OnlySendSends ==
    ASSUME LookupInv, [LookupNext]_lookupVars, NEW k \in LookupKeys, Sends(k)
    PROVE  Send(k)
<1>0. /\ DOMAIN turn = LookupKeys /\ turn[k].pc # "sent" /\ turn'[k].pc = "sent"
      /\ \A l \in LookupKeys : turn[l] \in [pc : {"none", "queued", "sleeps", "sent"},
                                  attempt : 0 .. MaxAttempts, wait : 0 .. Interval]
    BY DEF LookupInv, TablesOK, Sends
<1>1. turn' # turn
    BY <1>0
<1>2. ASSUME NEW c \in Callers, NEW l \in LookupKeys, NEW cover \in BOOLEAN, Ask(c, l, cover)
      PROVE  FALSE
    <2>1. turn' = [turn EXCEPT ![l] = Queued(1)]
        BY <1>1, <1>2 DEF Ask
    <2> QED BY <1>0, <2>1 DEF Queued
<1>3. ~LookupTick
    <2> SUFFICES ASSUME LookupTick PROVE FALSE
        OBVIOUS
    <2> DEFINE w == IF turn[k].wait > 0 THEN turn[k].wait - 1 ELSE 0
    <2>1. turn'[k] = [turn[k] EXCEPT !.wait = w]
        BY DEF LookupTick
    <2> HIDE DEF w
    <2> QED BY <1>0, <2>1
<1>4. ASSUME NEW l \in LookupKeys, Progress(l) PROVE Send(k)
    <2>1. CASE Refuse(l) \/ Rejected(l) \/ Unavailable(l) \/ Replied(l)
        <3>1. turn' = [turn EXCEPT ![l] = NoTurn]
            BY <2>1 DEF Refuse, Rejected, Unavailable, Replied, Reject
        <3> QED BY <1>0, <3>1 DEF NoTurn
    <2>2. CASE StartAttempt(l)
        BY <1>0, <2>2 DEF StartAttempt
    <2>3. CASE Retry(l)
        <3>1. turn' = [turn EXCEPT ![l] = Queued(turn[l].attempt + 1)]
            BY <2>3 DEF Retry
        <3> QED BY <1>0, <3>1 DEF Queued
    <2>4. CASE Send(l)
        <3>1. l = k
            BY <1>0, <2>4 DEF Send
        <3> QED BY <2>4, <3>1
    <2>5. CASE SummaryCovered(l)
        BY <1>1, <2>5 DEF SummaryCovered
    <2> QED BY <1>4, <2>1, <2>2, <2>3, <2>4, <2>5 DEF Progress
<1>5. ASSUME NEW l \in LookupKeys, Expire(l) PROVE FALSE
    BY <1>1, <1>5 DEF Expire
<1>6. ASSUME NEW c \in Callers, Unthrottle(c) \/ CoverFetched(c) PROVE FALSE
    BY <1>1, <1>6 DEF Unthrottle, CoverFetched
<1>7. ASSUME NEW c \in Callers, NEW l \in Matches, Confirm(c, l) \/ Suggested(c, l) PROVE FALSE
    BY <1>2, <1>7 DEF Confirm, Suggested, LookupKeys
<1>8. ASSUME NEW c \in Callers, NEW l \in Summaries, Summarise(c, l) PROVE FALSE
    BY <1>2, <1>8 DEF Summarise, LookupKeys
<1>9. ~(UNCHANGED lookupVars)
    BY <1>1 DEF lookupVars
<1> QED BY <1>3, <1>4, <1>5, <1>6, <1>7, <1>8, <1>9 DEF LookupNext

\* Requests keep their distance, retries included (_attemptFetchJson: the pause is
\* computed before the sleep, lastRequestAt is set after it).
THEOREM RequestsSpacedAlways == LookupSpec => RequestsSpaced
<1>1. LookupInv /\ [LookupNext]_lookupVars =>
        [\A k \in LookupKeys : Sends(k) => since >= Interval]_lookupVars
    <2> SUFFICES ASSUME LookupInv, [LookupNext]_lookupVars, NEW k \in LookupKeys, Sends(k)
                 PROVE  since >= Interval
        OBVIOUS
    <2>1. turn[k].pc = "sleeps" /\ turn[k].wait = 0
        BY OnlySendSends DEF Send
    <2> QED BY <2>1, Bounds DEF LookupInv, TurnsOK, TablesOK
<1> QED BY <1>1, LookupsInvariant, PTL DEF LookupSpec, RequestsSpaced

\* No request is sent while the service is held to be unavailable, although the
\* backoff is looked at before the sleep (unavailableUntil in _attemptFetchJson).
THEOREM BackoffHonouredAlways == LookupSpec => BackoffHonoured
<1>1. LookupInv /\ [LookupNext]_lookupVars =>
        [\A k \in LookupKeys : Sends(k) => backoff = 0]_lookupVars
    <2> SUFFICES ASSUME LookupInv, [LookupNext]_lookupVars, NEW k \in LookupKeys, Sends(k)
                 PROVE  backoff = 0
        OBVIOUS
    <2>1. turn[k].pc = "sleeps"
        BY OnlySendSends DEF Send
    <2> QED BY <2>1 DEF LookupInv, TurnsOK
<1> QED BY <1>1, LookupsInvariant, PTL DEF LookupSpec, BackoffHonoured

=============================================================================
