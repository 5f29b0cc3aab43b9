-------------------------- MODULE DiscoveryProofs --------------------------
(***************************************************************************)
(* Proofs about the parts that find models and peers: what the page shows  *)
(* of the searches (Discovery), whom the slots serve (PeerManager), whose  *)
(* verdict the dialog shows (PreDownload), and the types of all three      *)
(* parts of MCDiscovery.                                                   *)
(***************************************************************************)
EXTENDS MCDiscovery, SequenceTheorems, FiniteSetTheorems, TLAPS

(***************************************************************************)
(* The order of the cached models.                                         *)
(***************************************************************************)
\* What is left of a sequence without one of its elements.
LEMMA Removed ==
    ASSUME NEW S, NEW s \in Seq(S), NEW i \in DOMAIN s
    PROVE  /\ RemoveAt(s, i) \in Seq(S)
           /\ Len(RemoveAt(s, i)) = Len(s) - 1
           /\ \A j \in 1..(Len(s) - 1) :
                  RemoveAt(s, i)[j] = IF j < i THEN s[j] ELSE s[j + 1]
<1>1. i \in 1..Len(s) /\ Len(s) \in Nat
    BY LenProperties
<1> DEFINE l == SubSeq(s, 1, i - 1)
           r == SubSeq(s, i + 1, Len(s))
<1>2. /\ l \in Seq(S) /\ Len(l) = i - 1
      /\ \A j \in 1..(i - 1) : l[j] = s[j]
    BY <1>1, SubSeqProperties
<1>3. /\ r \in Seq(S) /\ Len(r) = Len(s) - i
      /\ \A j \in 1..(Len(s) - i) : r[j] = s[i + j]
    BY <1>1, SubSeqProperties
<1>4. /\ l \o r \in Seq(S) /\ Len(l \o r) = Len(l) + Len(r)
      /\ \A j \in 1..(Len(l) + Len(r)) : (l \o r)[j] = IF j <= Len(l) THEN l[j] ELSE r[j - Len(l)]
    BY <1>2, <1>3, ConcatProperties
<1>5. RemoveAt(s, i) = l \o r
    BY DEF RemoveAt
<1> HIDE DEF l, r
<1>6. ASSUME NEW j \in 1..(Len(s) - 1)
      PROVE  (l \o r)[j] = IF j < i THEN s[j] ELSE s[j + 1]
    <2>1. j \in 1..(Len(l) + Len(r)) /\ (j <= Len(l) <=> j < i)
        BY <1>1, <1>2, <1>3
    <2>2. CASE j < i
        <3>1. (l \o r)[j] = l[j] /\ j \in 1..(i - 1)
            BY <1>1, <1>4, <2>1, <2>2
        <3> QED
            BY <1>2, <2>2, <3>1
    <2>3. CASE ~(j < i)
        <3>1. (l \o r)[j] = r[j - Len(l)]
            BY <1>4, <2>1, <2>3
        <3>2. j - (i - 1) \in 1..(Len(s) - i) /\ i + (j - (i - 1)) = j + 1
            BY <1>1, <2>3
        <3>3. (l \o r)[j] = r[j - (i - 1)]
            BY <1>2, <3>1
        <3> QED
            BY <1>3, <2>3, <3>2, <3>3
    <2> QED
        BY <2>2, <2>3
<1>7. l \o r \in Seq(S) /\ Len(l \o r) = Len(s) - 1
    BY <1>1, <1>2, <1>3, <1>4
<1> DEFINE q == l \o r
<1>8. /\ q \in Seq(S) /\ Len(q) = Len(s) - 1
      /\ \A j \in 1..(Len(s) - 1) : q[j] = IF j < i THEN s[j] ELSE s[j + 1]
    BY <1>6, <1>7
<1>9. RemoveAt(s, i) = q
    BY <1>5
<1> HIDE DEF q
<1> QED
    BY <1>8, <1>9

\* One element is gone, and each of the others has its one place.
LEMMA RemovedOnce ==
    ASSUME NEW S, NEW s \in Seq(S), IsInjective(s), NEW i \in DOMAIN s
    PROVE  /\ RemoveAt(s, i) \in Seq(S)
           /\ IsInjective(RemoveAt(s, i))
           /\ ToSet(RemoveAt(s, i)) = ToSet(s) \ {s[i]}
<1> DEFINE q == RemoveAt(s, i)
<1>1. /\ q \in Seq(S) /\ Len(q) = Len(s) - 1
      /\ \A j \in 1..(Len(s) - 1) : q[j] = IF j < i THEN s[j] ELSE s[j + 1]
    BY Removed
<1> HIDE DEF q
<1>2. /\ Len(s) \in Nat /\ DOMAIN s = 1..Len(s) /\ DOMAIN q = 1..(Len(s) - 1)
      /\ i \in 1..Len(s)
    BY <1>1, LenProperties
<1>3. \A a, b \in 1..Len(s) : s[a] = s[b] => a = b
    BY <1>2 DEF IsInjective
<1>4. IsInjective(q)
    <2> DEFINE of(j) == IF j < i THEN j ELSE j + 1
    <2>1. \A j \in 1..(Len(s) - 1) : of(j) \in 1..Len(s) /\ q[j] = s[of(j)]
        BY <1>1, <1>2
    <2>2. \A a, b \in 1..(Len(s) - 1) : of(a) = of(b) => a = b
        BY <1>2
    <2> HIDE DEF of
    <2>3. \A a, b \in 1..(Len(s) - 1) : q[a] = q[b] => a = b
        BY <1>3, <2>1, <2>2
    <2> QED
        BY <1>2, <2>3 DEF IsInjective
<1>5. ASSUME NEW x \in ToSet(q)
      PROVE  x \in ToSet(s) \ {s[i]}
    <2>1. PICK j \in 1..(Len(s) - 1) : x = q[j]
        BY <1>2, <1>5 DEF ToSet
    <2>2. CASE j < i
        <3>1. x = s[j] /\ j \in 1..Len(s) /\ j # i
            BY <1>1, <1>2, <2>1, <2>2
        <3> QED
            BY <1>2, <1>3, <3>1 DEF ToSet
    <2>3. CASE ~(j < i)
        <3>1. x = s[j + 1] /\ j + 1 \in 1..Len(s) /\ j + 1 # i
            BY <1>1, <1>2, <2>1, <2>3
        <3> QED
            BY <1>2, <1>3, <3>1 DEF ToSet
    <2> QED
        BY <2>2, <2>3
<1>6. ASSUME NEW x \in ToSet(s) \ {s[i]}
      PROVE  x \in ToSet(q)
    <2>1. PICK j \in 1..Len(s) : x = s[j]
        BY <1>2, <1>6 DEF ToSet
    <2>2. j # i
        BY <1>6, <2>1
    <2>3. CASE j < i
        <3>1. j \in 1..(Len(s) - 1) /\ q[j] = x
            BY <1>1, <1>2, <2>1, <2>3
        <3> QED
            BY <1>2, <3>1 DEF ToSet
    <2>4. CASE j > i
        <3>1. j - 1 \in 1..(Len(s) - 1) /\ q[j - 1] = x
            BY <1>1, <1>2, <2>1, <2>4
        <3> QED
            BY <1>2, <3>1 DEF ToSet
    <2> QED
        BY <1>2, <2>2, <2>3, <2>4
<1> QED
    BY <1>1, <1>4, <1>5, <1>6 DEF q

LEMMA AppendedOnce ==
    ASSUME NEW S, NEW s \in Seq(S), IsInjective(s), NEW x \in S, x \notin ToSet(s)
    PROVE  /\ Append(s, x) \in Seq(S)
           /\ IsInjective(Append(s, x))
           /\ ToSet(Append(s, x)) = ToSet(s) \cup {x}
<1> DEFINE q == Append(s, x)
<1>1. /\ q \in Seq(S) /\ Len(q) = Len(s) + 1 /\ q[Len(s) + 1] = x
      /\ \A j \in 1..Len(s) : q[j] = s[j]
    BY AppendProperties
<1> HIDE DEF q
<1>2. Len(s) \in Nat /\ DOMAIN s = 1..Len(s) /\ DOMAIN q = 1..(Len(s) + 1)
    BY <1>1, LenProperties
<1>3. \A j \in 1..Len(s) : s[j] # x
    BY <1>2 DEF ToSet
<1>4. \A j \in 1..(Len(s) + 1) : j \in 1..Len(s) \/ j = Len(s) + 1
    BY <1>2
<1>5. IsInjective(q)
    BY <1>1, <1>2, <1>3, <1>4 DEF IsInjective
<1>6. ToSet(q) = ToSet(s) \cup {x}
    <2>1. ToSet(q) \subseteq ToSet(s) \cup {x}
        BY <1>1, <1>2, <1>4 DEF ToSet
    <2>2. ToSet(s) \subseteq ToSet(q)
        <3>1. \A j \in 1..Len(s) : j \in 1..(Len(s) + 1) /\ s[j] = q[j]
            BY <1>1, <1>2
        <3> QED
            BY <1>2, <3>1 DEF ToSet
    <2>3. x \in ToSet(q)
        BY <1>1, <1>2 DEF ToSet
    <2> QED
        BY <2>1, <2>2, <2>3
<1> QED
    BY <1>1, <1>5, <1>6 DEF q
-----------------------------------------------------------------------------
(***************************************************************************)
(* The cache.                                                              *)
(***************************************************************************)
LEMMA EntryModel == \A e \in Entries : e.model \in Models
BY DiscoveryAssumption DEF EntryType

LEMMA TrustType == \A e : Trust(e) \in TrustLevel
BY DEF Trust, TrustLevel

\* What the cache has of a model.
CacheEntry == [entry : Entries, level : TrustLevel \ {"Blocked"}]

\* The cache and its order.
CacheOK ==
    /\ DOMAIN discoveredCache \subseteq Models
    /\ discoveredCache \in [DOMAIN discoveredCache -> CacheEntry]
    /\ IsFiniteSet(DOMAIN discoveredCache)
    /\ Cardinality(DOMAIN discoveredCache) <= MAX_DISCOVERED_CACHE_SIZE
    /\ lastSeen \in Seq(Models) /\ IsInjective(lastSeen)
    /\ ToSet(lastSeen) = DOMAIN discoveredCache

\* A model that is not blocked is cached, and the cache grows no further than
\* it may.
LEMMA Caches ==
    ASSUME CacheOK, NEW e \in Entries, Trust(e) # "Blocked", cacheDiscoveredModel(e)
    PROVE  CacheOK'
<1> DEFINE D == DOMAIN discoveredCache
           m == e.model
           new == [entry |-> e, level |-> Trust(e)]
           out == Oldest(m)
<1>0. m \in Models
    BY EntryModel
<1>1. discoveredCache' = [k \in (D \ out) \cup {m} |->
                              IF k = m THEN new ELSE discoveredCache[k]]
    BY DEF cacheDiscoveredModel
<1>2. DOMAIN discoveredCache' = (D \ out) \cup {m}
    BY <1>1
<1>3. discoveredCache' \in [DOMAIN discoveredCache' -> CacheEntry]
    <2>1. new \in CacheEntry
        BY TrustType DEF CacheEntry
    <2>2. discoveredCache \in [D -> CacheEntry]
        BY DEF CacheOK
    <2> HIDE DEF new
    <2> QED
        BY <1>1, <1>2, <2>1, <2>2
<1>4. IsFiniteSet(D) /\ Cardinality(D) \in Nat /\ Cardinality(D) <= MAX_DISCOVERED_CACHE_SIZE
    BY FS_CardinalityType DEF CacheOK
<1>5. \/ /\ out = {}
         /\ m \in D \/ Cardinality(D) < MAX_DISCOVERED_CACHE_SIZE
      \/ /\ m \notin D
         /\ \E x \in D : out = {x}
    <2>1. CASE m \notin D /\ Cardinality(D) >= MAX_DISCOVERED_CACHE_SIZE
        <3>1. D # {}
            <4>1. MAX_DISCOVERED_CACHE_SIZE \in Nat \ {0}
                BY DiscoveryAssumption
            <4>2. Cardinality(D) # 0
                BY <1>4, <2>1, <4>1
            <4> QED
                BY <4>2, FS_EmptySet
        <3>2. PICK i \in DOMAIN lastSeen : TRUE
            BY <3>1 DEF CacheOK, ToSet
        <3>3. 1 \in DOMAIN lastSeen /\ Head(lastSeen) = lastSeen[1]
            BY <3>2, LenProperties DEF CacheOK
        <3>4. Head(lastSeen) \in D
            BY <3>3 DEF CacheOK, ToSet
        <3> QED
            BY <2>1, <3>4 DEF Oldest
    <2>2. CASE ~(m \notin D /\ Cardinality(D) >= MAX_DISCOVERED_CACHE_SIZE)
        BY <1>4, <2>2, DiscoveryAssumption DEF Oldest
    <2> QED
        BY <2>1, <2>2
<1>6. /\ IsFiniteSet(DOMAIN discoveredCache')
      /\ Cardinality(DOMAIN discoveredCache') <= MAX_DISCOVERED_CACHE_SIZE
    <2>1. CASE out = {} /\ m \in D
        <3>1. DOMAIN discoveredCache' = D
            BY <1>2, <2>1
        <3> QED
            BY <1>4, <3>1
    <2>2. CASE out = {} /\ m \notin D
        <3>1. DOMAIN discoveredCache' = D \cup {m}
            BY <1>2, <2>2
        <3>2. Cardinality(D) < MAX_DISCOVERED_CACHE_SIZE
            BY <1>5, <2>2
        <3>3. IsFiniteSet(D \cup {m}) /\ Cardinality(D \cup {m}) = Cardinality(D) + 1
            BY <1>4, <2>2, FS_AddElement
        <3> QED
            BY <1>4, <3>1, <3>2, <3>3, DiscoveryAssumption
    <2>3. CASE out # {}
        <3>1. PICK x \in D : out = {x}
            BY <1>5, <2>3
        <3>2. m \notin D
            BY <1>5, <2>3
        <3>3. IsFiniteSet(D \ {x}) /\ Cardinality(D \ {x}) = Cardinality(D) - 1
            BY <1>4, FS_RemoveElement
        <3>4. /\ IsFiniteSet((D \ {x}) \cup {m})
              /\ Cardinality((D \ {x}) \cup {m}) = Cardinality(D \ {x}) + 1
            BY <3>2, <3>3, FS_AddElement
        <3> QED
            BY <1>2, <1>4, <3>1, <3>3, <3>4
    <2> QED
        BY <2>1, <2>2, <2>3
<1>7. lastSeen' \in Seq(Models) /\ IsInjective(lastSeen') /\ ToSet(lastSeen') = (D \ out) \cup {m}
    <2>0. /\ lastSeen \in Seq(Models) /\ IsInjective(lastSeen) /\ ToSet(lastSeen) = D
          /\ \A i \in DOMAIN lastSeen : lastSeen[i] \in D
        BY DEF CacheOK, ToSet
    <2>1. ASSUME NEW i \in DOMAIN lastSeen, lastSeen[i] \in out \cup {m},
                 lastSeen' = Append(RemoveAt(lastSeen, i), m)
          PROVE  lastSeen' \in Seq(Models) /\ IsInjective(lastSeen')
                 /\ ToSet(lastSeen') = (D \ out) \cup {m}
        <3>1. /\ RemoveAt(lastSeen, i) \in Seq(Models)
              /\ IsInjective(RemoveAt(lastSeen, i))
              /\ ToSet(RemoveAt(lastSeen, i)) = D \ {lastSeen[i]}
            BY <2>0, RemovedOnce
        <3>2. lastSeen[i] \in D
            BY <2>0
        <3>3. m \notin D \ {lastSeen[i]} /\ (D \ {lastSeen[i]}) \cup {m} = (D \ out) \cup {m}
            BY <1>5, <2>1, <3>2
        <3> QED
            BY <1>0, <2>1, <3>1, <3>3, AppendedOnce
    <2>2. ASSUME \A i \in DOMAIN lastSeen : lastSeen[i] \notin out \cup {m},
                 lastSeen' = Append(lastSeen, m)
          PROVE  lastSeen' \in Seq(Models) /\ IsInjective(lastSeen')
                 /\ ToSet(lastSeen') = (D \ out) \cup {m}
        <3>1. D \cap (out \cup {m}) = {}
            BY <2>0, <2>2 DEF ToSet
        <3>2. m \notin ToSet(lastSeen) /\ D \ out = D
            BY <2>0, <3>1
        <3> QED
            BY <1>0, <2>0, <2>2, <3>2, AppendedOnce
    <2> QED
        BY <2>1, <2>2 DEF cacheDiscoveredModel
<1> HIDE DEF D, out, m
<1>8. (D \ out) \cup {m} \subseteq Models
    BY <1>0 DEF CacheOK, D
<1> QED
    BY <1>2, <1>3, <1>6, <1>7, <1>8 DEF CacheOK
-----------------------------------------------------------------------------
(***************************************************************************)
(* The searches and the page.                                              *)
(***************************************************************************)
\* What the searches only read, and the counters.
AroundOK ==
    /\ active \in OfSome(Entries) /\ localCatalog \in OfSome(Entries)
    /\ keyring \in [Creators -> TrustLevel \cup {"unknown"}]
    /\ discoveryPeers \subseteq Peers
    /\ peerRateLimits \in [Peers -> 0..MAX_MESSAGES_PER_SEC_PER_PEER]
    /\ ops \in 0..MaxSearchOps

PageTypes ==
    /\ pendingQueries \in Seq(Search) /\ Len(pendingQueries) <= MaxSearches
    /\ query \in Queries
    /\ results \in Shown
    /\ isLoading \in BOOLEAN /\ overtaken \in BOOLEAN

\* What may be missing of a search that waits, or was shown.
Excused(s) == IF s.of.verifiedOnly THEN s.doubted ELSE {}

\* The results of a search have what was known, but what is excused.
Keeps(s) == s.known \ Ranked(s.of, s.results) \subseteq Excused(s)

\* The searches that wait have kept what was known when they began.
WaitingKeeps == \A i \in DOMAIN pendingQueries : Keeps(pendingQueries[i])

\* The youngest of the searches that wait is of the query that is typed.
YoungestIsTyped ==
    pendingQueries # <<>> /\ ~overtaken
        => pendingQueries[Len(pendingQueries)].of = query

PageInv == PageTypes /\ WaitingKeeps /\ YoungestIsTyped /\ PageShowsFound

SearchInv == AroundOK /\ CacheOK /\ PageInv

LEMMA SearchTypes == SearchInv => TypeOK /\ PageShowsFound
<1> SUFFICES ASSUME SearchInv PROVE TypeOK /\ PageShowsFound
    OBVIOUS
<1>1. discoveredCache \in OfSome([entry : Entries, level : TrustLevel \ {"Blocked"}])
    BY DEF SearchInv, CacheOK, CacheEntry, OfSome
<1> QED
    BY <1>1 DEF SearchInv, AroundOK, CacheOK, PageInv, PageTypes, TypeOK

LEMMA PutType ==
    ASSUME NEW S, NEW f \in OfSome(S), NEW m \in Models, NEW x \in S
    PROVE  Put(f, m, x) \in OfSome(S)
<1>1. PICK M \in SUBSET Models : f \in [M -> S]
    BY DEF OfSome
<1>2. Put(f, m, x) \in [M \cup {m} -> S]
    BY <1>1 DEF Put
<1> QED
    BY <1>2 DEF OfSome

LEMMA SyncedType == ASSUME AroundOK
                    PROVE  Synced \in OfSome(Entries)
<1>1. PICK A \in SUBSET Models : active \in [A -> Entries]
    BY DEF AroundOK, OfSome
<1>2. PICK C \in SUBSET Models : localCatalog \in [C -> Entries]
    BY DEF AroundOK, OfSome
<1>3. Synced \in [A \cup C -> Entries]
    BY <1>1, <1>2 DEF Synced
<1> QED
    BY <1>3 DEF OfSome

LEMMA KnownType ==
    ASSUME AroundOK, CacheOK, NEW q
    PROVE  /\ Known(q) \in OfSome(TrustLevel)
           /\ Ranked(q, Known(q)) \in SUBSET Models
<1> DEFINE own    == {m \in DOMAIN Synced : Synced[m] \in q.matches}
           cached == {m \in DOMAIN discoveredCache : discoveredCache[m].entry \in q.matches}
           S == own \cup cached
<1>1. Known(q) = [m \in S |-> IF m \in own THEN Trust(Synced[m]) ELSE discoveredCache[m].level]
    BY DEF Known
<1>2. S \in SUBSET Models
    <2>1. DOMAIN Synced \in SUBSET Models
        BY SyncedType DEF OfSome
    <2> QED
        BY <2>1 DEF CacheOK
<1>3. \A m \in DOMAIN discoveredCache : discoveredCache[m].level \in TrustLevel
    BY DEF CacheOK, CacheEntry
<1>4. \A m \in S : (IF m \in own THEN Trust(Synced[m]) ELSE discoveredCache[m].level) \in TrustLevel
    BY <1>3, TrustType
<1> HIDE DEF own, S
<1>5. Known(q) \in [S -> TrustLevel] /\ DOMAIN Known(q) = S
    BY <1>1, <1>4
<1> QED
    BY <1>2, <1>5 DEF Ranked, OfSome

\* An answer keeps what was found, or makes an excuse; what is put in is not
\* blocked.
LEMMA AnsweredKeeps ==
    ASSUME NEW s \in Search, NEW e \in Entries, Trust(e) # "Blocked", Keeps(s)
    PROVE  /\ Answered(s, e) \in Search
           /\ Keeps(Answered(s, e))
           /\ Answered(s, e).of = s.of
<1> DEFINE f == s.results
           m == e.model
           g == Put(f, m, Trust(e))
           d == Doubted(s, e)
           t == Answered(s, e)
<1>1. PICK S \in SUBSET Models : f \in [S -> TrustLevel]
    BY DEF Search, OfSome
<1>2. g = [k \in S \cup {m} |-> IF k = m THEN Trust(e) ELSE f[k]]
    BY <1>1 DEF Put
<1>3. g \in OfSome(TrustLevel) /\ m \in Models
    BY PutType, TrustType, EntryModel DEF Search
<1>4. d \in SUBSET Models
    BY <1>3 DEF Doubted, Search
<1>5. t = [s EXCEPT !.results = g, !.doubted = d]
    BY DEF Answered
<1> HIDE DEF g, d, t
<1>6. t.known = s.known /\ t.of = s.of /\ t.results = g /\ t.doubted = d
    BY <1>5 DEF Search
<1>7. t \in Search
    BY <1>3, <1>4, <1>5 DEF Search
<1>8. Keeps(t)
    <2> SUFFICES ASSUME NEW k \in s.known, k \notin Ranked(s.of, g)
                 PROVE  k \in Excused(t)
        BY <1>6 DEF Keeps
    <2>1. CASE k = m
        <3>1. s.of.verifiedOnly /\ Trust(e) # "VerifiedCreator"
            BY <1>2, <2>1 DEF Ranked
        <3>2. k \in d
            BY <2>1, <3>1 DEF d, Doubted
        <3> QED
            BY <1>6, <3>1, <3>2 DEF Excused
    <2>2. CASE k # m
        <3>1. k \notin Ranked(s.of, f)
            BY <1>1, <1>2, <2>2 DEF Ranked
        <3>2. k \in Excused(s)
            BY <3>1 DEF Keeps
        <3>3. s.of.verifiedOnly /\ k \in s.doubted
            BY <3>2 DEF Excused
        <3>4. k \in d
            BY <2>2, <3>3 DEF d, Doubted
        <3> QED
            BY <1>6, <3>3, <3>4 DEF Excused
    <2> QED
        BY <2>1, <2>2
<1> QED
    BY <1>6, <1>7, <1>8 DEF t

LEMMA SearchInit == Init => SearchInv
<1> SUFFICES ASSUME Init PROVE SearchInv
    OBVIOUS
<1>1. DOMAIN discoveredCache = {} /\ discoveredCache \in [{} -> CacheEntry]
    BY DEF Init, NoModels
<1>2. CacheOK
    <2>1. lastSeen \in Seq(Models) /\ DOMAIN lastSeen = {}
        BY EmptySeq DEF Init
    <2>2. IsInjective(lastSeen) /\ ToSet(lastSeen) = {}
        BY <2>1 DEF IsInjective, ToSet
    <2> QED
        BY <1>1, <2>1, <2>2, FS_EmptySet, DiscoveryAssumption DEF CacheOK
<1>3. AroundOK
    <2>1. NoModels \in [{} -> Entries] /\ {} \in SUBSET Models
        BY DEF NoModels
    <2>2. NoModels \in OfSome(Entries)
        BY <2>1 DEF OfSome
    <2> QED
        BY <2>2, DiscoveryAssumption DEF Init, AroundOK
<1>4. PageInv
    <2>1. pendingQueries \in Seq(Search) /\ Len(pendingQueries) = 0 /\ DOMAIN pendingQueries = {}
        BY EmptySeq DEF Init
    <2>2. PageTypes
        <3>1. query \in Queries /\ results = [of |-> query, models |-> {},
                                                known |-> {}, doubted |-> {}]
              /\ isLoading = FALSE /\ overtaken = FALSE
            BY DEF Init
        <3>2. results \in Shown
            BY <3>1 DEF Shown
        <3>3. Len(pendingQueries) <= MaxSearches
            BY <2>1, DiscoveryAssumption
        <3> QED
            BY <2>1, <3>1, <3>2, <3>3 DEF PageTypes
    <2> QED
        BY <2>1, <2>2 DEF Init, PageInv, WaitingKeeps, YoungestIsTyped, PageShowsFound, Excused
<1> QED
    BY <1>2, <1>3, <1>4 DEF SearchInv

\* Messages of a peer within its share of the second.
LEMMA MessageAround ==
    ASSUME AroundOK, NEW p \in Peers, MessageOf(p)
    PROVE  AroundOK'
<1>1. peerRateLimits' \in [Peers -> 0..MAX_MESSAGES_PER_SEC_PER_PEER]
    BY DiscoveryAssumption DEF AroundOK, MessageOf
<1> QED
    BY <1>1 DEF AroundOK, MessageOf

LEMMA PageKept == ASSUME PageInv, UNCHANGED <<pendingQueries, page>>
                  PROVE  PageInv'
BY DEF PageInv, PageTypes, WaitingKeeps, YoungestIsTyped, PageShowsFound, Keeps, Excused, Ranked, page

LEMMA CacheKept == ASSUME CacheOK, UNCHANGED <<discoveredCache, lastSeen>>
                   PROVE  CacheOK'
BY DEF CacheOK

LEMMA AnnounceInv ==
    ASSUME SearchInv, NEW p \in Peers, NEW e \in Entries, handleInboundAnnounce(p, e)
    PROVE  SearchInv'
<1>1. AroundOK'
    BY MessageAround DEF handleInboundAnnounce, SearchInv
<1>2. CacheOK'
    BY Caches, CacheKept DEF handleInboundAnnounce, SearchInv
<1>3. PageInv'
    BY PageKept DEF handleInboundAnnounce, SearchInv, MessageOf
<1> QED
    BY <1>1, <1>2, <1>3 DEF SearchInv

LEMMA ResponseInv ==
    ASSUME SearchInv, NEW p \in Peers, NEW e \in Entries, NEW i \in DOMAIN pendingQueries,
           handleInboundResponse(p, i, e)
    PROVE  SearchInv'
<1>1. AroundOK'
    BY MessageAround DEF handleInboundResponse, SearchInv
<1>2. CacheOK'
    BY Caches, CacheKept DEF handleInboundResponse, SearchInv
<1>3. PageInv'
    <2>1. CASE Trust(e) = "Blocked"
        BY <2>1, PageKept DEF handleInboundResponse, SearchInv, MessageOf
    <2>2. CASE Trust(e) # "Blocked"
        <3> DEFINE s == pendingQueries[i]
        <3>1. pendingQueries' = [pendingQueries EXCEPT ![i] = Answered(s, e)]
              /\ UNCHANGED page
            BY <2>2 DEF handleInboundResponse, MessageOf
        <3>2. pendingQueries \in Seq(Search) /\ i \in 1..Len(pendingQueries)
              /\ Len(pendingQueries) \in Nat
              /\ DOMAIN pendingQueries = 1..Len(pendingQueries) /\ s \in Search
            BY LenProperties, ElementOfSeq DEF SearchInv, PageInv, PageTypes
        <3>3. /\ Answered(s, e) \in Search
              /\ Keeps(Answered(s, e))
              /\ Answered(s, e).of = s.of
            BY <2>2, <3>2, AnsweredKeeps DEF SearchInv, PageInv, WaitingKeeps
        <3>4. /\ pendingQueries' \in Seq(Search)
              /\ Len(pendingQueries') = Len(pendingQueries)
              /\ DOMAIN pendingQueries' = DOMAIN pendingQueries
              /\ \A j \in DOMAIN pendingQueries :
                     pendingQueries'[j] = IF j = i THEN Answered(s, e) ELSE pendingQueries[j]
            BY <3>1, <3>2, <3>3, ExceptSeq
        <3>5. PageTypes'
            BY <3>1, <3>4 DEF SearchInv, PageInv, PageTypes, page
        <3>6. WaitingKeeps'
            BY <3>3, <3>4 DEF SearchInv, PageInv, WaitingKeeps
        <3>7. \A j \in DOMAIN pendingQueries : pendingQueries'[j].of = pendingQueries[j].of
            BY <3>3, <3>4
        <3>8. pendingQueries # <<>> /\ Len(pendingQueries) \in DOMAIN pendingQueries
            BY <3>2
        <3>9. YoungestIsTyped'
            BY <3>1, <3>4, <3>7, <3>8 DEF SearchInv, PageInv, YoungestIsTyped, page
        <3>10. pendingQueries' # <<>>
            BY <3>2, <3>4
        <3>11. PageShowsFound'
            BY <3>1, <3>10 DEF SearchInv, PageInv, PageShowsFound, page
        <3> QED
            BY <3>5, <3>6, <3>9, <3>11 DEF PageInv
    <2> QED
        BY <2>1, <2>2
<1> QED
    BY <1>1, <1>2, <1>3 DEF SearchInv

\* A search is of the query that is typed, and what is known is in its results.
LEMMA PerformInv ==
    ASSUME SearchInv, NEW q \in Queries, performSearch(q)
    PROVE  SearchInv'
<1> DEFINE found == Known(q)
           started == [of |-> q, results |-> found, known |-> Ranked(q, found), doubted |-> {}]
<1>1. /\ found \in OfSome(TrustLevel)
      /\ Ranked(q, found) \in SUBSET Models
    BY KnownType DEF SearchInv
<1>2. started \in Search
    BY <1>1 DEF Search
<1>3. /\ query' = q /\ Len(pendingQueries) < MaxSearches
      /\ localCatalog' = Synced
      /\ ops \in 0..MaxSearchOps /\ ops < MaxSearchOps /\ ops' = ops + 1
      /\ UNCHANGED <<active, keyring, discoveredCache, lastSeen, discoveryPeers, peerRateLimits>>
      /\ \/ /\ results' = [of |-> q, models |-> Ranked(q, found),
                           known |-> Ranked(q, found), doubted |-> {}]
            /\ isLoading' = FALSE
            /\ overtaken' = (pendingQueries # <<>>)
            /\ UNCHANGED pendingQueries
         \/ /\ pendingQueries' = Append(pendingQueries, started)
            /\ isLoading' = TRUE
            /\ overtaken' = (overtaken /\ pendingQueries # <<>>)
            /\ UNCHANGED results
    BY DEF performSearch, Searches, SearchOp, SearchInv, AroundOK
<1> HIDE DEF found
<1>4. AroundOK'
    <2>1. localCatalog' \in OfSome(Entries)
        BY <1>3, SyncedType DEF SearchInv
    <2> QED
        BY <1>3, <2>1, DiscoveryAssumption DEF SearchInv, AroundOK, OfSome
<1>5. CacheOK'
    BY <1>3, CacheKept DEF SearchInv
<1>6. pendingQueries \in Seq(Search) /\ Len(pendingQueries) \in Nat
      /\ DOMAIN pendingQueries = 1..Len(pendingQueries)
    BY LenProperties DEF SearchInv, PageInv, PageTypes
<1>7. CASE /\ results' = [of |-> q, models |-> Ranked(q, found),
                          known |-> Ranked(q, found), doubted |-> {}]
           /\ isLoading' = FALSE
           /\ overtaken' = (pendingQueries # <<>>)
           /\ UNCHANGED pendingQueries
    <2>1. PageTypes'
        <3>1. results' \in Shown
            BY <1>1, <1>7 DEF Shown
        <3>2. isLoading' \in BOOLEAN /\ overtaken' \in BOOLEAN
            BY <1>7
        <3> QED
            BY <1>3, <1>7, <3>1, <3>2 DEF SearchInv, PageInv, PageTypes
    <2>2. WaitingKeeps' /\ YoungestIsTyped'
        BY <1>7 DEF SearchInv, PageInv, WaitingKeeps, YoungestIsTyped, Keeps, Excused, Ranked
    <2>3. PageShowsFound'
        BY <1>3, <1>7 DEF PageShowsFound
    <2> QED
        BY <1>4, <1>5, <2>1, <2>2, <2>3 DEF SearchInv, PageInv
<1>8. CASE /\ pendingQueries' = Append(pendingQueries, started)
           /\ isLoading' = TRUE
           /\ overtaken' = (overtaken /\ pendingQueries # <<>>)
           /\ UNCHANGED results
    <2> DEFINE n == Len(pendingQueries)
    <2>1. /\ pendingQueries' \in Seq(Search)
          /\ Len(pendingQueries') = n + 1
          /\ pendingQueries'[n + 1] = started
          /\ \A j \in 1..n : pendingQueries'[j] = pendingQueries[j]
          /\ DOMAIN pendingQueries' = 1..(n + 1)
        BY <1>2, <1>6, <1>8, AppendProperties, LenProperties
    <2>2. PageTypes'
        <3>1. Len(pendingQueries') <= MaxSearches
            BY <1>3, <1>6, <2>1, DiscoveryAssumption
        <3>2. isLoading' \in BOOLEAN /\ overtaken' \in BOOLEAN
            BY <1>8
        <3>3. results' \in Shown
              /\ query' \in Queries
            BY <1>3, <1>8 DEF SearchInv, PageInv, PageTypes
        <3> QED
            BY <2>1, <3>1, <3>2, <3>3 DEF PageTypes
    <2>3. WaitingKeeps'
        <3> SUFFICES ASSUME NEW j \in 1..(n + 1)
                     PROVE  Keeps(pendingQueries'[j])
            BY <2>1 DEF WaitingKeeps, Keeps, Excused, Ranked
        <3>1. CASE j = n + 1
            BY <2>1, <3>1 DEF Keeps
        <3>2. CASE j \in 1..n
            BY <1>6, <2>1, <3>2 DEF SearchInv, PageInv, WaitingKeeps
        <3> QED
            BY <1>6, <3>1, <3>2
    <2>4. YoungestIsTyped'
        BY <1>3, <2>1 DEF YoungestIsTyped
    <2>5. PageShowsFound'
        <3>1. pendingQueries' # <<>>
            BY <1>6, <2>1
        <3> QED
            BY <1>8, <3>1 DEF SearchInv, PageInv, PageShowsFound
    <2> QED
        BY <1>4, <1>5, <2>2, <2>3, <2>4, <2>5 DEF SearchInv, PageInv
<1> QED
    BY <1>3, <1>7, <1>8

\* The oldest search ends; the last one to end is the youngest.
LEMMA EndsInv == ASSUME SearchInv, SearchEnds
                 PROVE  SearchInv'
<1> DEFINE n == Len(pendingQueries)
           s == Head(pendingQueries)
<1>1. AroundOK' /\ CacheOK'
    BY CacheKept DEF SearchEnds, SearchInv, AroundOK
<1>2. /\ pendingQueries \in Seq(Search) /\ pendingQueries # <<>>
      /\ n \in Nat /\ n # 0 /\ DOMAIN pendingQueries = 1..n
      /\ s = pendingQueries[1] /\ s \in Search
    BY LenProperties, EmptySeq, ElementOfSeq, HeadTailProperties
       DEF SearchInv, PageInv, PageTypes, SearchEnds
<1>3. /\ pendingQueries' \in Seq(Search)
      /\ Len(pendingQueries') = n - 1 /\ DOMAIN pendingQueries' = 1..(n - 1)
      /\ \A j \in 1..(n - 1) : pendingQueries'[j] = pendingQueries[j + 1]
    BY <1>2, HeadTailProperties, LenProperties DEF SearchEnds
<1>4. results' = [of |-> s.of, models |-> Ranked(s.of, s.results),
                  known |-> s.known, doubted |-> s.doubted]
      /\ isLoading' = FALSE /\ UNCHANGED <<query, overtaken>>
    BY DEF SearchEnds
<1>5. Keeps(s)
    BY <1>2 DEF SearchInv, PageInv, WaitingKeeps
<1>6. PageTypes'
    <2>1. /\ Ranked(s.of, s.results) \in SUBSET Models /\ s.known \in SUBSET Models
          /\ s.of \in Queries /\ s.doubted \in SUBSET Models
        BY <1>2 DEF Search, Ranked, OfSome
    <2>2. results' \in Shown
        BY <1>4, <2>1 DEF Shown
    <2>3. Len(pendingQueries') <= MaxSearches
        BY <1>2, <1>3, DiscoveryAssumption DEF SearchInv, PageInv, PageTypes
    <2> QED
        BY <1>3, <1>4, <2>2, <2>3 DEF SearchInv, PageInv, PageTypes
<1>7. WaitingKeeps'
    <2> SUFFICES ASSUME NEW j \in 1..(n - 1)
                 PROVE  Keeps(pendingQueries'[j])
        BY <1>3 DEF WaitingKeeps, Keeps, Excused, Ranked
    <2>1. j + 1 \in 1..n /\ pendingQueries'[j] = pendingQueries[j + 1]
        BY <1>2, <1>3
    <2> QED
        BY <1>2, <2>1 DEF SearchInv, PageInv, WaitingKeeps
<1>8. YoungestIsTyped'
    <2> SUFFICES ASSUME pendingQueries' # <<>>, ~overtaken
                 PROVE  pendingQueries'[Len(pendingQueries')].of = query
        BY <1>4 DEF YoungestIsTyped
    <2>1. n - 1 \in 1..(n - 1) /\ (n - 1) + 1 = n
        BY <1>2, <1>3, EmptySeq, LenProperties
    <2>2. pendingQueries'[Len(pendingQueries')] = pendingQueries[n]
        BY <1>3, <2>1
    <2> QED
        BY <1>2, <2>2 DEF SearchInv, PageInv, YoungestIsTyped
<1>9. PageShowsFound'
    <2>1. ASSUME pendingQueries' = <<>>, ~overtaken
          PROVE  s.of = query
        <3>1. n = 1
            <4>1. Len(pendingQueries') = 0
                BY <2>1
            <4>2. Len(pendingQueries') = n - 1 /\ n \in Nat
                BY <1>2, <1>3
            <4> HIDE DEF n
            <4> QED
                BY <4>1, <4>2
        <3> QED
            BY <1>2, <2>1, <3>1 DEF SearchInv, PageInv, YoungestIsTyped
    <2> QED
        BY <1>4, <1>5, <2>1 DEF PageShowsFound, Keeps, Excused
<1> QED
    BY <1>1, <1>6, <1>7, <1>8, <1>9 DEF SearchInv, PageInv

LEMMA SearchStep == ASSUME SearchInv, [Next]_vars
                    PROVE  SearchInv'
<1>1. ASSUME NEW p \in Peers, registerDiscoveryPeer(p)
      PROVE  SearchInv'
    <2>1. AroundOK'
        BY <1>1, DiscoveryAssumption
           DEF SearchInv, AroundOK, registerDiscoveryPeer, SearchOp
    <2> QED
        BY <1>1, <2>1, CacheKept, PageKept DEF SearchInv, registerDiscoveryPeer
<1>2. ASSUME NEW p \in Peers, unregisterDiscoveryPeer(p)
      PROVE  SearchInv'
    <2>1. AroundOK'
        BY <1>2, DiscoveryAssumption
           DEF SearchInv, AroundOK, unregisterDiscoveryPeer, SearchOp
    <2> QED
        BY <1>2, <2>1, CacheKept, PageKept DEF SearchInv, unregisterDiscoveryPeer
<1>3. ASSUME NEW p \in Peers, SecondEnds(p)
      PROVE  SearchInv'
    <2>1. AroundOK'
        BY <1>3, DiscoveryAssumption DEF SearchInv, AroundOK, SecondEnds, page
    <2> QED
        BY <1>3, <2>1, CacheKept, PageKept DEF SearchInv, SecondEnds
<1>4. ASSUME NEW p \in Peers, handleInboundQuery(p)
      PROVE  SearchInv'
    <2>1. AroundOK'
        BY <1>4, MessageAround DEF SearchInv, handleInboundQuery
    <2> QED
        BY <1>4, <2>1, CacheKept, PageKept DEF SearchInv, handleInboundQuery, MessageOf
<1>5. ASSUME NEW e \in Entries, TorrentAdded(e)
      PROVE  SearchInv'
    <2>1. Put(active, e.model, e) \in OfSome(Entries) /\ Put(localCatalog, e.model, e) \in OfSome(Entries)
        BY PutType, EntryModel DEF SearchInv, AroundOK
    <2>2. AroundOK'
        BY <1>5, <2>1, DiscoveryAssumption
           DEF SearchInv, AroundOK, TorrentAdded, SearchOp, OfSome
    <2> QED
        BY <1>5, <2>2, CacheKept, PageKept DEF SearchInv, TorrentAdded
<1>6. ASSUME NEW m \in Models, TorrentRemoved(m)
      PROVE  SearchInv'
    <2>1. active' \in OfSome(Entries)
        <3>1. PICK A \in SUBSET Models : active \in [A -> Entries]
            BY DEF SearchInv, AroundOK, OfSome
        <3>2. active' \in [A \ {m} -> Entries]
            BY <1>6, <3>1 DEF TorrentRemoved
        <3> QED
            BY <3>2 DEF OfSome
    <2>2. ops' \in 0..MaxSearchOps
        BY <1>6, DiscoveryAssumption DEF SearchInv, AroundOK, TorrentRemoved, SearchOp
    <2>3. AroundOK'
        BY <1>6, <2>1, <2>2 DEF SearchInv, AroundOK, TorrentRemoved, OfSome
    <2> QED
        BY <1>6, <2>3, CacheKept, PageKept DEF SearchInv, TorrentRemoved
<1>7. ASSUME NEW k \in Creators, NEW l \in TrustLevel, KeyringChanges(k, l)
      PROVE  SearchInv'
    <2>1. AroundOK'
        BY <1>7, DiscoveryAssumption
           DEF SearchInv, AroundOK, KeyringChanges, SearchOp, OfSome
    <2> QED
        BY <1>7, <2>1, CacheKept, PageKept DEF SearchInv, KeyringChanges
<1>8. CASE UNCHANGED vars
    <2>1. AroundOK'
        BY <1>8 DEF SearchInv, AroundOK, vars
    <2> QED
        BY <1>8, <2>1, CacheKept, PageKept DEF SearchInv, vars, page
<1> QED
    BY <1>1, <1>2, <1>3, <1>4, <1>5, <1>6, <1>7, <1>8, AnnounceInv, ResponseInv, PerformInv, EndsInv
       DEF Next
-----------------------------------------------------------------------------
(***************************************************************************)
(* The slots of the peers.                                                 *)
(***************************************************************************)
LEMMA SameCardinality == \A S : P!Cardinality(S) = Cardinality(S)
BY DEF P!Cardinality, Cardinality

\* Sessions are finitely many and typed; the properties' counts follow.
PeersInv == P!TypeOK /\ IsFiniteSet(DOMAIN peers) /\ P!ServedWithinSlots

CountsOK ==
    /\ Cardinality(DOMAIN peers) <= maxGlobalPeers
    /\ \A t \in Torrents :
           /\ Cardinality(P!getPeersForTorrent(t)) <= maxPeersPerTorrent
           /\ Cardinality(P!Optimistic(t)) <= 1
           /\ Cardinality(P!Unchoked(t) \ P!Optimistic(t)) <= uploadSlots

LEMMA Counts == P!ServedWithinSlots <=> CountsOK
BY SameCardinality DEF P!ServedWithinSlots, CountsOK

LEMMA OneMore ==
    ASSUME NEW S, IsFiniteSet(S), NEW x, NEW n \in Nat, Cardinality(S) < n
    PROVE  IsFiniteSet(S \cup {x}) /\ Cardinality(S \cup {x}) <= n
<1>0. Cardinality(S) \in Nat
    BY FS_CardinalityType
<1>1. CASE x \in S
    <2>1. S \cup {x} = S
        BY <1>1
    <2> QED
        BY <1>0, <2>1
<1>2. CASE x \notin S
    <2>1. IsFiniteSet(S \cup {x}) /\ Cardinality(S \cup {x}) = Cardinality(S) + 1
        BY <1>2, FS_AddElement
    <2> QED
        BY <1>0, <2>1
<1> QED
    BY <1>1, <1>2

LEMMA NoMore ==
    ASSUME NEW S, IsFiniteSet(S), NEW T, T \subseteq S, NEW n \in Nat, Cardinality(S) <= n
    PROVE  IsFiniteSet(T) /\ Cardinality(T) <= n
BY FS_Subset, FS_CardinalityType

LEMMA SessionType ==
    ASSUME P!TypeOK, NEW k \in DOMAIN peers
    PROVE  /\ peers[k] \in P!PeerSession
           /\ peers[k].service \in {"choked", "regular", "optimistic"}
BY DEF P!TypeOK, P!PeerSession, P!Service

LEMMA PeersInit == P!Init => PeersInv
<1> SUFFICES ASSUME P!Init PROVE PeersInv
    OBVIOUS
<1>1. DOMAIN peers = {}
    BY DEF P!Init
<1>2. /\ IsFiniteSet({}) /\ Cardinality({}) = 0
    BY FS_EmptySet
<1>3. \A t : /\ P!getPeersForTorrent(t) = {} /\ P!Optimistic(t) = {}
              /\ P!Unchoked(t) \ P!Optimistic(t) = {}
    BY <1>1 DEF P!getPeersForTorrent, P!Optimistic, P!Unchoked
<1>4. CountsOK
    <2>1. Cardinality(DOMAIN peers) = 0
        BY <1>1, <1>2
    <2>2. \A t : /\ Cardinality(P!getPeersForTorrent(t)) = 0 /\ Cardinality(P!Optimistic(t)) = 0
                /\ Cardinality(P!Unchoked(t) \ P!Optimistic(t)) = 0
        BY <1>2, <1>3
    <2>3. 0 <= maxGlobalPeers /\ 0 <= maxPeersPerTorrent /\ 0 <= uploadSlots /\ 0 <= 1
        BY FindAssumption
    <2> QED
        BY <2>1, <2>2, <2>3 DEF CountsOK
<1> QED
    BY <1>1, <1>2, <1>4, Counts DEF PeersInv, P!TypeOK

\* What no step but a round does: serve.
ServiceKept ==
    /\ \A k \in DOMAIN peers' :
          \/ k \in DOMAIN peers /\ peers'[k].service = peers[k].service
          \/ peers'[k].service = "choked"
    /\ \A k \in DOMAIN peers \cap DOMAIN peers' : peers'[k].service = peers[k].service

LEMMA ServedKept ==
    ASSUME PeersInv, P!TypeOK', ServiceKept,
           IsFiniteSet(DOMAIN peers'), Cardinality(DOMAIN peers') <= maxGlobalPeers,
           \A t \in Torrents : Cardinality(P!getPeersForTorrent(t)') <= maxPeersPerTorrent
    PROVE  PeersInv' /\ P!FastestFirst
<1>1. ASSUME NEW t \in Torrents
      PROVE  /\ Cardinality(P!Optimistic(t)') <= 1
             /\ Cardinality((P!Unchoked(t) \ P!Optimistic(t))') <= uploadSlots
    <2>1. P!Optimistic(t)' \subseteq P!Optimistic(t)
        BY DEF ServiceKept, P!Optimistic, P!getPeersForTorrent
    <2>2. (P!Unchoked(t) \ P!Optimistic(t))' \subseteq P!Unchoked(t) \ P!Optimistic(t)
        BY DEF ServiceKept, P!Optimistic, P!Unchoked, P!getPeersForTorrent
    <2>3. /\ Cardinality(P!Optimistic(t)) <= 1
          /\ Cardinality(P!Unchoked(t) \ P!Optimistic(t)) <= uploadSlots
        BY Counts DEF PeersInv, CountsOK
    <2>4. IsFiniteSet(P!Optimistic(t)) /\ IsFiniteSet(P!Unchoked(t) \ P!Optimistic(t))
        BY FS_Subset DEF PeersInv, P!Optimistic, P!Unchoked, P!getPeersForTorrent
    <2> QED
        BY <2>1, <2>2, <2>3, <2>4, NoMore, FindAssumption
<1>2. P!ServedWithinSlots'
    <2>1. CountsOK'
        BY <1>1 DEF CountsOK
    <2>2. (P!ServedWithinSlots <=> CountsOK)'
        BY Counts, PTL
    <2> QED
        BY <2>1, <2>2
<1>3. P!FastestFirst
    BY DEF ServiceKept, P!FastestFirst
<1> QED
    BY <1>2, <1>3 DEF PeersInv

LEMMA AddPeerInv ==
    ASSUME PeersInv, NEW k \in Keys, P!addPeer(k)
    PROVE  PeersInv' /\ P!FastestFirst
<1>1. /\ k \notin DOMAIN peers
      /\ peers' = [j \in DOMAIN peers \cup {k} |-> IF j = k THEN P!NewSession ELSE peers[j]]
      /\ Cardinality(DOMAIN peers) < maxGlobalPeers
      /\ Cardinality(P!getPeersForTorrent(k[1])) < maxPeersPerTorrent
    BY SameCardinality DEF P!addPeer, P!MayConnect
<1>2. P!NewSession \in P!PeerSession /\ P!NewSession.service = "choked"
    BY FindAssumption DEF P!NewSession, P!PeerSession, P!Service
<1>3. DOMAIN peers' = DOMAIN peers \cup {k}
    BY <1>1
<1>4. P!TypeOK'
    BY <1>1, <1>2, <1>3 DEF PeersInv, P!TypeOK
<1>5. ServiceKept
    BY <1>1, <1>2, <1>3 DEF ServiceKept
<1>6. IsFiniteSet(DOMAIN peers') /\ Cardinality(DOMAIN peers') <= maxGlobalPeers
    BY <1>1, <1>3, OneMore, FindAssumption DEF PeersInv
<1>7. ASSUME NEW t \in Torrents
      PROVE  Cardinality(P!getPeersForTorrent(t)') <= maxPeersPerTorrent
    <2>1. IsFiniteSet(P!getPeersForTorrent(t))
        BY FS_Subset DEF PeersInv, P!getPeersForTorrent
    <2>2. Cardinality(P!getPeersForTorrent(t)) <= maxPeersPerTorrent
        BY Counts DEF PeersInv, CountsOK
    <2>3. CASE k[1] = t
        <3>1. P!getPeersForTorrent(t)' = P!getPeersForTorrent(t) \cup {k}
            BY <1>3, <2>3 DEF P!getPeersForTorrent
        <3> QED
            BY <1>1, <2>1, <2>3, <3>1, OneMore, FindAssumption
    <2>4. CASE k[1] # t
        <3>1. P!getPeersForTorrent(t)' = P!getPeersForTorrent(t)
            BY <1>3, <2>4 DEF P!getPeersForTorrent
        <3> QED
            BY <2>2, <3>1
    <2> QED
        BY <2>3, <2>4
<1> QED
    BY <1>4, <1>5, <1>6, <1>7, ServedKept

\* A step that adds no session and serves nobody.
LEMMA FewerInv ==
    ASSUME PeersInv, P!TypeOK', ServiceKept, DOMAIN peers' \subseteq DOMAIN peers
    PROVE  PeersInv' /\ P!FastestFirst
<1>1. IsFiniteSet(DOMAIN peers') /\ Cardinality(DOMAIN peers') <= maxGlobalPeers
    BY NoMore, Counts, FindAssumption DEF PeersInv, CountsOK
<1>2. ASSUME NEW t \in Torrents
      PROVE  Cardinality(P!getPeersForTorrent(t)') <= maxPeersPerTorrent
    <2>1. IsFiniteSet(P!getPeersForTorrent(t))
        BY FS_Subset DEF PeersInv, P!getPeersForTorrent
    <2>2. Cardinality(P!getPeersForTorrent(t)) <= maxPeersPerTorrent
        BY Counts DEF PeersInv, CountsOK
    <2>3. P!getPeersForTorrent(t)' \subseteq P!getPeersForTorrent(t)
        BY DEF P!getPeersForTorrent
    <2> QED
        BY <2>1, <2>2, <2>3, NoMore, FindAssumption
<1> QED
    BY <1>1, <1>2, ServedKept

\* A round serves those of its choice and chokes the others of the torrent.
LEMMA RoundInv ==
    ASSUME PeersInv, NEW t, NEW isSeeder \in BOOLEAN, P!recalculateChokeSlots(t, isSeeder)
    PROVE  PeersInv' /\ P!FastestFirst
<1>1. PICK R \in P!Fastest(t, isSeeder) : \E O \in P!OptimisticChoices(t, R) :
          peers' = P!Served(t, R, O)
    BY DEF P!recalculateChokeSlots
<1>2. PICK O \in P!OptimisticChoices(t, R) : peers' = P!Served(t, R, O)
    BY <1>1
<1>3. /\ R \subseteq P!Interested(t)
      /\ Cardinality(R) = P!Lesser(uploadSlots, Cardinality(P!Interested(t)))
      /\ \A r \in R, q \in P!Interested(t) \ R :
             P!SpeedOf(r, isSeeder) >= P!SpeedOf(q, isSeeder)
    BY SameCardinality DEF P!Fastest, P!kSubset
<1>4. O = {} \/ \E k \in P!Interested(t) \ R : O = {k}
    BY DEF P!OptimisticChoices
<1>5. IsFiniteSet(P!Interested(t)) /\ P!Interested(t) \subseteq DOMAIN peers
    BY FS_Subset DEF PeersInv, P!Interested, P!getPeersForTorrent
<1>6. Cardinality(R) <= uploadSlots
    <2>1. Cardinality(P!Interested(t)) \in Nat
        BY <1>5, FS_CardinalityType
    <2> QED
        BY <1>3, <2>1, FindAssumption DEF P!Lesser
<1>7. Cardinality(O) <= 1
    <2>1. Cardinality({}) = 0
        BY FS_EmptySet
    <2>2. CASE O = {}
        BY <2>1, <2>2
    <2>3. ASSUME NEW k, O = {k}
          PROVE  Cardinality(O) <= 1
        <3>1. Cardinality({k}) = 1
            BY FS_Singleton
        <3>2. Cardinality(O) = Cardinality({k})
            BY <2>3, Zenon
        <3> QED
            BY <3>1, <3>2
    <2> QED
        BY <1>4, <2>2, <2>3
<1>8. /\ DOMAIN peers' = DOMAIN peers
      /\ \A k \in DOMAIN peers : k[1] # t => peers'[k] = peers[k]
      /\ \A k \in DOMAIN peers : k[1] = t =>
             peers'[k] = [peers[k] EXCEPT !.service = CASE k \in R -> "regular"
                                                        [] k \in O -> "optimistic"
                                                        [] OTHER   -> "choked"]
    BY <1>2 DEF P!Served
<1>9. \A k \in DOMAIN peers : k[1] = t =>
          /\ peers'[k] \in P!PeerSession
          /\ peers'[k].service = CASE k \in R -> "regular"
                                   [] k \in O -> "optimistic"
                                   [] OTHER   -> "choked"
    BY <1>8 DEF PeersInv, P!TypeOK, P!PeerSession, P!Service
<1>10. P!TypeOK'
    BY <1>8, <1>9 DEF PeersInv, P!TypeOK
<1>11. CountsOK'
    <2>1. Cardinality(DOMAIN peers') <= maxGlobalPeers
        BY <1>8, Counts DEF PeersInv, CountsOK
    <2>2. ASSUME NEW u \in Torrents
          PROVE  /\ Cardinality(P!getPeersForTorrent(u)') <= maxPeersPerTorrent
                 /\ Cardinality(P!Optimistic(u)') <= 1
                 /\ Cardinality((P!Unchoked(u) \ P!Optimistic(u))') <= uploadSlots
        <3>1. /\ Cardinality(P!getPeersForTorrent(u)) <= maxPeersPerTorrent
              /\ Cardinality(P!Optimistic(u)) <= 1
              /\ Cardinality(P!Unchoked(u) \ P!Optimistic(u)) <= uploadSlots
            BY Counts DEF PeersInv, CountsOK
        <3>2. P!getPeersForTorrent(u)' = P!getPeersForTorrent(u)
            BY <1>8 DEF P!getPeersForTorrent
        <3>3. CASE u # t
            <4>1. /\ P!Optimistic(u)' = P!Optimistic(u)
                  /\ P!Unchoked(u)' = P!Unchoked(u)
                BY <1>8, <3>2, <3>3 DEF P!Optimistic, P!Unchoked, P!getPeersForTorrent
            <4> QED
                BY <3>1, <3>2, <4>1
        <3>4. CASE u = t
            <4>1. O \cap R = {} /\ O \subseteq P!getPeersForTorrent(t)
                  /\ R \subseteq P!getPeersForTorrent(t)
                BY <1>3, <1>4 DEF P!Interested
            <4>2. \A k \in P!getPeersForTorrent(t) :
                      peers'[k].service = CASE k \in R -> "regular"
                                            [] k \in O -> "optimistic"
                                            [] OTHER   -> "choked"
                BY <1>9 DEF P!getPeersForTorrent
            <4>3. P!Optimistic(t)' = O
                BY <1>8, <4>1, <4>2 DEF P!Optimistic, P!getPeersForTorrent
            <4>4. P!Unchoked(t)' = R \cup O
                BY <1>8, <4>1, <4>2 DEF P!Unchoked, P!getPeersForTorrent
            <4>5. (P!Unchoked(u) \ P!Optimistic(u))' = R
                BY <3>4, <4>1, <4>3, <4>4 DEF P!Unchoked, P!Optimistic, P!getPeersForTorrent
            <4>6. P!Optimistic(u)' = O
                BY <3>4, <4>3 DEF P!Optimistic, P!getPeersForTorrent
            <4> QED
                BY <1>6, <1>7, <3>1, <3>2, <4>5, <4>6
        <3> QED
            BY <3>3, <3>4
    <2> QED
        BY <2>1, <2>2 DEF CountsOK
<1>12. PeersInv'
    <2>1. (P!ServedWithinSlots <=> CountsOK)'
        BY Counts, PTL
    <2> QED
        BY <1>8, <1>10, <1>11, <2>1 DEF PeersInv
<1>13. P!FastestFirst
    <2> SUFFICES ASSUME NEW u \in Torrents, NEW k \in DOMAIN peers \cap DOMAIN peers',
                        k[1] = u, peers'[k].service # peers[k].service
                 PROVE  \A p, q \in P!Interested(u) :
                            peers'[p].service = "regular" /\ peers'[q].service # "regular"
                            => P!SpeedOf(p, isSeeder) >= P!SpeedOf(q, isSeeder)
        BY DEF P!FastestFirst
    <2>1. u = t
        BY <1>8
    <2>2. ASSUME NEW p \in P!Interested(t)
          PROVE  peers'[p].service = "regular" <=> p \in R
        <3>1. /\ p \in DOMAIN peers /\ p[1] = t
            BY DEF P!Interested, P!getPeersForTorrent
        <3>2. CASE p \in R
            <4>1. p \notin O
                BY <1>4, <3>2
            <4> QED
                BY <1>9, <3>1, <3>2, <4>1
        <3>3. CASE p \notin R
            BY <1>9, <3>1, <3>3
        <3> QED
            BY <3>2, <3>3
    <2> QED
        BY <1>3, <2>1, <2>2
<1> QED
    BY <1>12, <1>13

LEMMA PeersStep == ASSUME PeersInv, [P!Next]_peers
                   PROVE  PeersInv' /\ [P!FastestFirst]_peers
<1>1. ASSUME NEW k \in Keys, P!removePeer(k)
      PROVE  PeersInv' /\ P!FastestFirst
    <2>1. /\ DOMAIN peers' = DOMAIN peers \ {k}
          /\ \A j \in DOMAIN peers' : peers'[j] = peers[j]
        BY <1>1 DEF P!removePeer
    <2>2. P!TypeOK' /\ ServiceKept
        BY <2>1 DEF PeersInv, P!TypeOK, ServiceKept
    <2> QED
        BY <2>1, <2>2, FewerInv
<1>2. ASSUME NEW k \in Keys, NEW s \in Transfers, P!recordPeerTransfer(k, s)
      PROVE  PeersInv' /\ P!FastestFirst
    <2>1. /\ DOMAIN peers' = DOMAIN peers
          /\ \A j \in DOMAIN peers : peers'[j] = peers[j] \/ peers'[j] = [peers[j] EXCEPT !.speed = s]
        BY <1>2 DEF P!recordPeerTransfer
    <2>2. P!TypeOK' /\ ServiceKept
        BY <2>1 DEF PeersInv, P!TypeOK, P!PeerSession, ServiceKept
    <2> QED
        BY <2>1, <2>2, FewerInv
<1>3. ASSUME NEW k \in Keys, NEW b \in BOOLEAN, P!PeerTells(k, b)
      PROVE  PeersInv' /\ P!FastestFirst
    <2>1. /\ DOMAIN peers' = DOMAIN peers
          /\ \A j \in DOMAIN peers :
                 peers'[j] = peers[j] \/ peers'[j] = [peers[j] EXCEPT !.peerInterested = b]
        BY <1>3 DEF P!PeerTells
    <2>2. P!TypeOK' /\ ServiceKept
        BY <2>1 DEF PeersInv, P!TypeOK, P!PeerSession, ServiceKept
    <2> QED
        BY <2>1, <2>2, FewerInv
<1>4. CASE UNCHANGED peers
    <2>1. P!TypeOK' /\ IsFiniteSet(DOMAIN peers)'
        BY <1>4 DEF PeersInv, P!TypeOK
    <2>2. ServiceKept /\ DOMAIN peers' \subseteq DOMAIN peers
        BY <1>4 DEF ServiceKept
    <2> QED
        BY <1>4, <2>1, <2>2, FewerInv
<1> QED
    BY <1>1, <1>2, <1>3, <1>4, AddPeerInv, RoundInv DEF P!Next
-----------------------------------------------------------------------------
(***************************************************************************)
(* The verdict of the dialog.                                              *)
(***************************************************************************)
\* The one check that is heard is of the magnet typed, and there is none when
\* the dialog does not wait.
OneHeard ==
    /\ \A c \in checks : c.active => c.of = magnetInput /\ isVerifying
    /\ \A c, d \in checks : c.active /\ d.active => c = d

\* What VerdictOfInput says of every state.
VerdictIsOfInput ==
    ~isVerifying /\ ~failed /\ magnetInput # NoRequest
        => verifyResult # NoVerdict /\ verifyResult.of = magnetInput

VerifyInv == V!TypeOK /\ OneHeard /\ VerdictIsOfInput

LEMMA CheckType == ASSUME V!TypeOK, NEW c \in checks
                   PROVE  /\ c \in [of : Requests, phase : V!Phases, active : BOOLEAN]
                          /\ c.of \in Requests /\ c.active \in BOOLEAN
BY DEF V!TypeOK

LEMMA VerdictKind ==
    ASSUME NEW r \in Requests, NEW status \in V!Statuses
    PROVE  /\ V!Verdict(r, status) \in V!VerdictType
           /\ V!Verdict(r, status) # NoVerdict
           /\ V!Verdict(r, status).of = r
<1>1. /\ V!Verdict(r, status) \in V!VerdictType
      /\ V!Verdict(r, status).of = r
    BY DEF V!Verdict, V!VerdictType
<1> QED
    BY <1>1, FindAssumption

LEMMA EditType == ASSUME V!TypeOK, V!Edit
                  PROVE  edits' \in 0..MaxEdits
BY FindAssumption DEF V!TypeOK, V!Edit

LEMMA AbandonedType ==
    ASSUME V!TypeOK
    PROVE  /\ V!Abandoned \subseteq [of : Requests, phase : V!Phases, active : BOOLEAN]
           /\ \A c \in V!Abandoned : ~c.active
<1>1. \A c \in checks : /\ [c EXCEPT !.active = FALSE]
                              \in [of : Requests, phase : V!Phases, active : BOOLEAN]
                        /\ [c EXCEPT !.active = FALSE].active = FALSE
    BY CheckType
<1> QED
    BY <1>1 DEF V!Abandoned

LEMMA VerifyInit == V!Init => VerifyInv
<1> SUFFICES ASSUME V!Init PROVE VerifyInv
    OBVIOUS
<1>1. V!TypeOK
    <2>1. 0 \in 0..MaxAdding /\ 0 \in 0..MaxEdits
        BY FindAssumption
    <2>2. trustLevel \in V!Levels
        BY DEF V!Init, V!Levels
    <2>3. isVerifying \in BOOLEAN /\ failed \in BOOLEAN
        BY DEF V!Init
    <2> QED
        BY <2>1, <2>2, <2>3 DEF V!Init, V!TypeOK
<1>2. OneHeard /\ VerdictIsOfInput
    BY DEF V!Init, OneHeard, VerdictIsOfInput
<1> QED
    BY <1>1, <1>2 DEF VerifyInv

LEMMA TypesInv ==
    ASSUME VerifyInv, NEW r \in Requests, V!TypesMagnet(r)
    PROVE  VerifyInv'
<1> DEFINE new == [of |-> r, phase |-> "debounce", active |-> TRUE]
<1>1. V!TypeOK
    BY DEF VerifyInv
<1>2. /\ magnetInput' = r /\ isVerifying' = TRUE /\ failed' = FALSE
      /\ checks' = V!Abandoned \cup {new}
      /\ UNCHANGED <<trustLevel, verifyResult, adding>>
      /\ edits' \in 0..MaxEdits
    BY <1>1, EditType DEF V!TypesMagnet
<1>3. new \in [of : Requests, phase : V!Phases, active : BOOLEAN] /\ new.of = r
    BY DEF V!Phases
<1>4. checks' \subseteq [of : Requests, phase : V!Phases, active : BOOLEAN]
    BY <1>1, <1>2, <1>3, AbandonedType
<1>5. \A c \in checks' : c.active => c = new
    BY <1>1, <1>2, AbandonedType
<1>6. V!TypeOK'
    BY <1>1, <1>2, <1>4 DEF V!TypeOK
<1>7. OneHeard'
    <2> HIDE DEF new
    <2>1. \A c \in checks' : c.active => c.of = magnetInput' /\ isVerifying'
        BY <1>2, <1>3, <1>5
    <2>2. \A c, d \in checks' : c.active /\ d.active => c = d
        BY <1>5
    <2> QED
        BY <2>1, <2>2 DEF OneHeard
<1>8. VerdictIsOfInput'
    BY <1>2 DEF VerdictIsOfInput
<1> QED
    BY <1>6, <1>7, <1>8 DEF VerifyInv

LEMMA ClearsInv ==
    ASSUME VerifyInv, V!Clears, trustLevel' \in V!Levels, adding' \in 0..MaxAdding,
           edits' \in 0..MaxEdits
    PROVE  VerifyInv'
<1>1. V!TypeOK
    BY DEF VerifyInv
<1>2. /\ magnetInput' = NoRequest /\ isVerifying' = FALSE /\ failed' = FALSE
      /\ checks' = V!Abandoned /\ verifyResult' = NoVerdict
    BY DEF V!Clears
<1>3. /\ checks' \subseteq [of : Requests, phase : V!Phases, active : BOOLEAN]
      /\ \A c \in checks' : ~c.active
    BY <1>1, <1>2, AbandonedType
<1>4. V!TypeOK'
    BY <1>2, <1>3 DEF V!TypeOK
<1>5. OneHeard' /\ VerdictIsOfInput'
    BY <1>2, <1>3 DEF OneHeard, VerdictIsOfInput
<1> QED
    BY <1>4, <1>5 DEF VerifyInv

\* An answer that is heard is the magnet's own, and nothing is left to hear.
LEMMA AnswersInv ==
    ASSUME VerifyInv, NEW c \in checks, NEW verdict,
           verdict = NoVerdict \/ \E s \in V!Statuses : verdict = V!Verdict(c.of, s),
           V!Answers(c, verdict)
    PROVE  VerifyInv'
<1>1. V!TypeOK /\ c.of \in Requests /\ checks' = checks \ {c}
      /\ UNCHANGED <<trustLevel, magnetInput, adding, edits>>
    BY CheckType DEF VerifyInv, V!Answers
<1>2. CASE ~c.active
    <2>1. UNCHANGED <<isVerifying, verifyResult, failed>>
        BY <1>2 DEF V!Answers, V!Concerned
    <2>2. V!TypeOK'
        BY <1>1, <2>1 DEF V!TypeOK
    <2>3. OneHeard' /\ VerdictIsOfInput'
        BY <1>1, <2>1 DEF VerifyInv, OneHeard, VerdictIsOfInput
    <2> QED
        BY <2>2, <2>3 DEF VerifyInv
<1>3. CASE c.active
    <2>1. /\ isVerifying' = FALSE
          /\ verifyResult' = IF verdict = NoVerdict THEN verifyResult ELSE verdict
          /\ failed' = (verdict = NoVerdict)
        BY <1>3 DEF V!Answers, V!Concerned
    <2>2. c.of = magnetInput
        BY <1>3 DEF VerifyInv, OneHeard
    <2>3. verdict # NoVerdict => verdict \in V!VerdictType /\ verdict.of = magnetInput
        BY <1>1, <2>2, VerdictKind
    <2>4. V!TypeOK'
        <3>1. verifyResult' # NoVerdict => verifyResult' \in V!VerdictType
            BY <1>1, <2>1, <2>3 DEF V!TypeOK
        <3>2. checks' \subseteq [of : Requests, phase : V!Phases, active : BOOLEAN]
            BY <1>1 DEF V!TypeOK
        <3>3. isVerifying' \in BOOLEAN /\ failed' \in BOOLEAN
            BY <2>1
        <3>4. UNCHANGED V!VerdictType
            BY DEF V!VerdictType
        <3> QED
            BY <1>1, <3>1, <3>2, <3>3 DEF V!TypeOK, V!VerdictType
    <2>5. \A d \in checks' : ~d.active
        BY <1>1, <1>3 DEF VerifyInv, OneHeard
    <2>6. OneHeard'
        BY <2>5 DEF OneHeard
    <2>7. VerdictIsOfInput'
        BY <1>1, <2>1, <2>3 DEF VerdictIsOfInput
    <2> QED
        BY <2>4, <2>6, <2>7 DEF VerifyInv
<1> QED
    BY <1>2, <1>3

LEMMA GoesInv ==
    ASSUME VerifyInv, NEW c \in checks, NEW phase \in V!Phases, V!Goes(c, phase)
    PROVE  VerifyInv'
<1> DEFINE e == [c EXCEPT !.phase = phase]
<1>1. /\ V!TypeOK /\ checks' = (checks \ {c}) \cup {e}
      /\ UNCHANGED <<trustLevel, magnetInput, isVerifying, verifyResult, failed, adding, edits>>
    BY DEF VerifyInv, V!Goes
<1>2. /\ e \in [of : Requests, phase : V!Phases, active : BOOLEAN]
      /\ e.of = c.of /\ e.active = c.active
    BY <1>1, CheckType
<1> HIDE DEF e
<1>3. V!TypeOK'
    BY <1>1, <1>2 DEF V!TypeOK
<1>4. OneHeard'
    BY <1>1, <1>2 DEF VerifyInv, OneHeard
<1>5. VerdictIsOfInput'
    BY <1>1 DEF VerifyInv, VerdictIsOfInput
<1> QED
    BY <1>3, <1>4, <1>5 DEF VerifyInv

LEMMA VerifyStep == ASSUME VerifyInv, [V!Next]_V!vars
                    PROVE  VerifyInv'
<1>1. V!TypeOK
    BY DEF VerifyInv
<1>2. CASE V!EmptiesInput
    BY <1>1, <1>2, ClearsInv, EditType DEF V!EmptiesInput, V!TypeOK
<1>3. CASE V!MagnetAdded
    <2>1. adding' \in 0..MaxAdding
        BY <1>1, <1>3, FindAssumption DEF V!MagnetAdded, V!TypeOK
    <2> QED
        BY <1>1, <1>3, <2>1, ClearsInv DEF V!MagnetAdded, V!TypeOK
<1>4. ASSUME UNCHANGED <<magnetInput, isVerifying, verifyResult, checks, failed>>,
             trustLevel' \in V!Levels, adding' \in 0..MaxAdding, edits' \in 0..MaxEdits
      PROVE  VerifyInv'
    <2>1. V!TypeOK'
        BY <1>1, <1>4 DEF V!TypeOK
    <2>2. OneHeard' /\ VerdictIsOfInput'
        BY <1>4 DEF VerifyInv, OneHeard, VerdictIsOfInput
    <2> QED
        BY <2>1, <2>2 DEF VerifyInv
<1>5. CASE V!Submits
    <2>1. adding' \in 0..MaxAdding
        BY <1>1, <1>5, FindAssumption DEF V!Submits, V!TypeOK
    <2> QED
        BY <1>1, <1>4, <1>5, <2>1 DEF V!Submits, V!TypeOK
<1>6. ASSUME NEW l \in V!Levels, V!KeyringChanges(l)
      PROVE  VerifyInv'
    BY <1>1, <1>4, <1>6, EditType DEF V!KeyringChanges, V!TypeOK
<1>7. CASE UNCHANGED V!vars
    BY <1>1, <1>4, <1>7 DEF V!vars, V!TypeOK
<1>8. ASSUME NEW c \in checks, V!TimerFires(c)
      PROVE  VerifyInv'
    BY <1>8, GoesInv DEF V!TimerFires, V!Phases
<1>9. ASSUME NEW c \in checks, V!verifyPreDownload(c)
      PROVE  VerifyInv'
    <2>1. CASE V!Answers(c, NoVerdict)
        BY <2>1, AnswersInv
    <2>2. CASE ~V!Answers(c, NoVerdict)
        BY <1>9, <2>2, GoesInv DEF V!verifyPreDownload, V!Phases
    <2> QED
        BY <2>1, <2>2
<1>10. ASSUME NEW c \in checks, V!verifyCivitai(c)
       PROVE  VerifyInv'
    <2>1. CASE V!Answers(c, V!Verdict(c.of, "verified_civitai"))
        BY <2>1, AnswersInv DEF V!Statuses
    <2>2. CASE ~V!Answers(c, V!Verdict(c.of, "verified_civitai"))
        BY <1>10, <2>2, GoesInv DEF V!verifyCivitai, V!Phases
    <2> QED
        BY <2>1, <2>2
<1>11. ASSUME NEW c \in checks, V!verifyHuggingFace(c)
       PROVE  VerifyInv'
    <2>1. CASE V!Answers(c, V!Verdict(c.of, "verified_huggingface"))
        BY <2>1, AnswersInv DEF V!Statuses
    <2>2. CASE V!Goes(c, "custom")
        BY <2>2, GoesInv DEF V!Phases
    <2> QED
        BY <1>11, <2>1, <2>2 DEF V!verifyHuggingFace
<1>12. ASSUME NEW c \in checks, V!verifyCustomModel(c)
       PROVE  VerifyInv'
    <2>1. V!CustomStatus(c.of) \in V!Statuses
        BY DEF V!CustomStatus, V!Statuses
    <2> QED
        BY <1>12, <2>1, AnswersInv DEF V!verifyCustomModel
<1> QED
    BY <1>2, <1>3, <1>5, <1>6, <1>7, <1>8, <1>9, <1>10, <1>11, <1>12, TypesInv
       DEF V!Next, V!Steps
-----------------------------------------------------------------------------
(***************************************************************************)
(* The parts together.                                                     *)
(***************************************************************************)
LEMMA FindStart == FindInit => Init /\ P!Init /\ V!Init
BY DEF FindInit

LEMMA FindStep ==
    [FindNext]_<<part, vars, peers, verifyVars>>
        => [Next]_vars /\ [P!Next]_peers /\ [V!Next]_V!vars
<1> SUFFICES ASSUME [FindNext]_<<part, vars, peers, verifyVars>>
             PROVE  [Next]_vars /\ [P!Next]_peers /\ [V!Next]_V!vars
    OBVIOUS
<1>1. V!vars = verifyVars /\ V!vars' = verifyVars'
    BY DEF V!vars, verifyVars
<1>2. \/ Next /\ UNCHANGED <<peers, verifyVars>>
      \/ V!Next /\ UNCHANGED <<vars, peers>>
      \/ P!Next /\ UNCHANGED <<vars, verifyVars>>
      \/ UNCHANGED <<part, vars, peers, verifyVars>>
    BY DEF FindNext
<1> QED
    BY <1>1, <1>2

LEMMA FindParts == FindSpec => []SearchInv /\ []PeersInv /\ []VerifyInv
<1>1. FindSpec => []SearchInv
    BY FindStart, FindStep, SearchInit, SearchStep, PTL DEF FindSpec
<1>2. FindSpec => []PeersInv
    BY FindStart, FindStep, PeersInit, PeersStep, PTL DEF FindSpec
<1>3. FindSpec => []VerifyInv
    BY FindStart, FindStep, VerifyInit, VerifyStep, PTL DEF FindSpec
<1> QED
    BY <1>1, <1>2, <1>3, PTL

\* The types of the search, of the sessions and of the dialog; the cache of
\* models never holds more than it may, and its order is that of its models.
THEOREM FindTypeCorrect == FindSpec => []FindTypeOK
<1>1. SearchInv /\ PeersInv /\ VerifyInv => FindTypeOK
    BY SearchTypes DEF FindTypeOK, PeersInv, VerifyInv
<1> QED
    BY <1>1, FindParts, PTL

\* What the page shows has everything that was known when its search began, but
\* with the filter on what a peer told anew without a verified creator, and is
\* of the query that is typed when no search waits, unless one was answered
\* while older ones waited (performSearch, search).
THEOREM PageShows == FindSpec => []PageShowsFound
<1>1. SearchInv => PageShowsFound
    BY SearchTypes
<1> QED
    BY <1>1, FindParts, PTL

\* No torrent serves more than its slots and one, no limit on connections is
\* passed, and no round leaves a faster interested peer without the slot it
\* gives to a slower one (recalculateChokeSlots, addPeer).
THEOREM SlotsKept == FindSpec => SlotsToTheFastest
<1>1. FindSpec => []P!ServedWithinSlots
    <2>1. PeersInv => P!ServedWithinSlots
        BY DEF PeersInv
    <2> QED
        BY <2>1, FindParts, PTL
<1>2. FindSpec => P!FastestServed
    BY FindParts, FindStep, PeersStep, PTL DEF FindSpec, P!FastestServed
<1> QED
    BY <1>1, <1>2, PTL DEF SlotsToTheFastest

\* When no check waits and none failed, the verdict the dialog goes by is of the
\* magnet that is typed, however many checks of earlier ones are still under way
\* (DashboardView.tsx, verifyPreDownload).
THEOREM VerdictIsTyped == FindSpec => []VerdictIsOfInput
<1>1. VerifyInv => VerdictIsOfInput
    BY DEF VerifyInv
<1> QED
    BY <1>1, FindParts, PTL

\* So VerdictOfInput holds as soon as a verdict always comes, the half of it that
\* needs fairness.
COROLLARY VerdictOnceItComes == FindSpec /\ []<>(~isVerifying) => VerdictOfInput
<1> QED
    BY VerdictIsTyped, PTL DEF VerdictOfInput, V!VerdictOfInput, VerdictIsOfInput
=============================================================================
