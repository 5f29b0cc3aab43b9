----------------------------- MODULE Discovery -----------------------------
(***************************************************************************)
(* The search for models among the peers: the catalog of the own torrents, *)
(* the cache of what peers told, the searches that collect answers until   *)
(* their time is over (src/main/engine/discoveryEngine.ts), and the page   *)
(* that searches anew whenever what is typed changes                       *)
(* (src/renderer/components/DiscoveryView.tsx).                            *)
(*                                                                         *)
(* An entry is what a message or a manifest says of a model: the key it    *)
(* names as its creator's, and whether it is signed with it.  Two entries  *)
(* of one model may differ.  A query is the set of entries it matches, and *)
(* whether it asks for verified creators only.  Other details of entries,  *)
(* scores, counts of peers and the order of the results are left out.  A   *)
(* message has one entry; more of them are handled one after the other.    *)
(* The connections are external: nothing under src/ registers a peer yet.  *)
(***************************************************************************)
EXTENDS Integers, Sequences, FiniteSets, SequencesExt

CONSTANTS Models, Peers,
          Creators, NoKey,     \* the creators' keys; an entry may name none
          Entries, Queries,
          MAX_DISCOVERED_CACHE_SIZE, MAX_MESSAGES_PER_SEC_PER_PEER,
          MaxSearches, MaxSearchOps     \* bounds

EntryType == [model : Models, key : Creators \cup {NoKey}, signed : BOOLEAN]

ASSUME DiscoveryAssumption == /\ Entries \subseteq EntryType
                              /\ \A e \in Entries : e.signed => e.key # NoKey
                              /\ NoKey \notin Creators
                              /\ Queries \subseteq [matches : SUBSET Entries,
                                                   verifiedOnly : BOOLEAN]
                              /\ MAX_DISCOVERED_CACHE_SIZE \in Nat \ {0}
                              /\ MAX_MESSAGES_PER_SEC_PER_PEER \in Nat
                              /\ MaxSearches \in Nat
                              /\ MaxSearchOps \in Nat

VARIABLES
    active,            \* the engine's torrents: model -> entry
    keyring,           \* what the keyring says of each key
    localCatalog,      \* model -> entry
    discoveredCache,   \* model -> entry and the level it was given when it came
    lastSeen,          \* the cached models, the one seen longest ago first
    discoveryPeers,
    peerRateLimits,    \* messages of each peer in its current second
    pendingQueries,    \* the searches that wait, oldest first
    query,             \* what the page shows: the query typed,
    results,           \* the results and the query they are of,
    isLoading,
    overtaken,         \* a search was answered at once while older ones waited
    ops

vars == <<active, keyring, localCatalog, discoveredCache, lastSeen, discoveryPeers,
          peerRateLimits, pendingQueries, query, results, isLoading, overtaken, ops>>

page == <<query, results, isLoading, overtaken>>

TrustLevel == {"VerifiedCreator", "Community", "Untrusted", "Blocked"}

NoModels == [m \in {} |-> NoKey]

\* evaluateModelTrust: of the key that the entry names, by the keyring of this
\* moment, which knows keys and not names (verifyCreatorKey).
Trust(e) ==
    LET judged == IF e.key = NoKey THEN "unknown" ELSE keyring[e.key]
    IN IF judged \in {"Blocked", "VerifiedCreator", "Community"} THEN judged
       ELSE IF e.signed THEN "Community" ELSE "Untrusted"

Put(f, m, x) == [k \in DOMAIN f \cup {m} |-> IF k = m THEN x ELSE f[k]]

\* The models of which what came last names no verified creator.
Doubted(search, e) == IF Trust(e) = "VerifiedCreator" THEN search.doubted \ {e.model}
                      ELSE search.doubted \cup {e.model}

\* Mutant of Answered: an answer takes the place of what was found so far.
AnsweredAnew(search, e) == [search EXCEPT !.results = Put(NoModels, e.model, Trust(e)),
                                          !.doubted = Doubted(search, e)]

\* A waiting search adds an answer to its results; of two that tell of one
\* model the last one counts, whatever their levels.
Answered(search, e) == [search EXCEPT !.results = Put(@, e.model, Trust(e)),
                                      !.doubted = Doubted(search, e)]

\* Mutant of Oldest: room is made one model too late.
OldestTooLate(m) == IF m \notin DOMAIN discoveredCache
                       /\ Cardinality(DOMAIN discoveredCache) > MAX_DISCOVERED_CACHE_SIZE
                    THEN {Head(lastSeen)} ELSE {}

\* cacheDiscoveredModel, with the oldest entry evicted where it is full.
Oldest(m) == IF m \notin DOMAIN discoveredCache
                /\ Cardinality(DOMAIN discoveredCache) >= MAX_DISCOVERED_CACHE_SIZE
             THEN {Head(lastSeen)} ELSE {}

cacheDiscoveredModel(e) ==
    LET m == e.model
    IN /\ discoveredCache' = [k \in (DOMAIN discoveredCache \ Oldest(m)) \cup {m} |->
                                 IF k = m THEN [entry |-> e, level |-> Trust(e)]
                                 ELSE discoveredCache[k]]
       /\ \/ \E i \in DOMAIN lastSeen :
                 /\ lastSeen[i] \in Oldest(m) \cup {m}
                 /\ lastSeen' = Append(RemoveAt(lastSeen, i), m)
          \/ /\ \A i \in DOMAIN lastSeen : lastSeen[i] \notin Oldest(m) \cup {m}
             /\ lastSeen' = Append(lastSeen, m)
-----------------------------------------------------------------------------
SearchOp == ops < MaxSearchOps /\ ops' = ops + 1

\* checkPeerRateLimit: more messages of the same second are dropped.
MessageOf(p) ==
    /\ peerRateLimits[p] < MAX_MESSAGES_PER_SEC_PER_PEER
    /\ peerRateLimits' = [peerRateLimits EXCEPT ![p] = @ + 1]
    /\ UNCHANGED <<active, keyring, localCatalog, discoveryPeers, page, ops>>

SecondEnds(p) ==
    /\ peerRateLimits[p] > 0
    /\ peerRateLimits' = [peerRateLimits EXCEPT ![p] = 0]
    /\ UNCHANGED <<active, keyring, localCatalog, discoveredCache, lastSeen,
                   discoveryPeers, pendingQueries, page, ops>>

\* Answered from the local catalog, if the peer is registered.
handleInboundQuery(p) ==
    /\ MessageOf(p)
    /\ UNCHANGED <<discoveredCache, lastSeen, pendingQueries>>

\* A model that a peer announces, or sends to a search that has ended.
handleInboundAnnounce(p, e) ==
    /\ MessageOf(p)
    /\ IF Trust(e) = "Blocked" THEN UNCHANGED <<discoveredCache, lastSeen>>
       ELSE cacheDiscoveredModel(e)
    /\ UNCHANGED pendingQueries

\* Neither the query nor the peers that were asked are compared with it.
handleInboundResponse(p, i, e) ==
    /\ MessageOf(p)
    /\ IF Trust(e) = "Blocked" THEN UNCHANGED <<discoveredCache, lastSeen, pendingQueries>>
       ELSE /\ cacheDiscoveredModel(e)
            /\ pendingQueries' = [pendingQueries EXCEPT ![i] = Answered(@, e)]

registerDiscoveryPeer(p) ==
    /\ SearchOp
    /\ p \notin discoveryPeers /\ discoveryPeers' = discoveryPeers \cup {p}
    /\ UNCHANGED <<active, keyring, localCatalog, discoveredCache, lastSeen,
                   peerRateLimits, pendingQueries, page>>

unregisterDiscoveryPeer(p) ==
    /\ SearchOp
    /\ p \in discoveryPeers /\ discoveryPeers' = discoveryPeers \ {p}
    /\ peerRateLimits' = [peerRateLimits EXCEPT ![p] = 0]
    /\ UNCHANGED <<active, keyring, localCatalog, discoveredCache, lastSeen,
                   pendingQueries, page>>

\* The engine's table and the keyring change behind the search.  What is seeded
\* or restored is indexed at once, and a download at the next search, both with
\* the time of the indexing, of which no signature is; nothing is ever unindexed.
TorrentAdded(e) ==
    /\ SearchOp
    /\ ~e.signed
    /\ active' = Put(active, e.model, e)
    /\ localCatalog' \in {localCatalog, Put(localCatalog, e.model, e)}
    /\ UNCHANGED <<keyring, discoveredCache, lastSeen, discoveryPeers,
                   peerRateLimits, pendingQueries, page>>

TorrentRemoved(m) ==
    /\ SearchOp
    /\ m \in DOMAIN active
    /\ active' = [k \in DOMAIN active \ {m} |-> active[k]]
    /\ UNCHANGED <<keyring, localCatalog, discoveredCache, lastSeen, discoveryPeers,
                   peerRateLimits, pendingQueries, page>>

KeyringChanges(k, level) ==
    /\ SearchOp
    /\ keyring[k] # level /\ keyring' = [keyring EXCEPT ![k] = level]
    /\ UNCHANGED <<active, localCatalog, discoveredCache, lastSeen, discoveryPeers,
                   peerRateLimits, pendingQueries, page>>
-----------------------------------------------------------------------------
\* syncActiveSwarms adds to the catalog, and takes nothing from it.
Synced == [m \in DOMAIN active \cup DOMAIN localCatalog |->
              IF m \in DOMAIN active THEN active[m] ELSE localCatalog[m]]

\* What is known before anybody is asked: the local matches as the keyring sees
\* them now, the cached ones as it did when they came.
Known(q) ==
    LET own    == {m \in DOMAIN Synced : Synced[m] \in q.matches}
        cached == {m \in DOMAIN discoveredCache : discoveredCache[m].entry \in q.matches}
    IN [m \in own \cup cached |->
           IF m \in own THEN Trust(Synced[m]) ELSE discoveredCache[m].level]

\* rankDiscoveredModels keeps the verified ones, or all that are not blocked.
Ranked(q, found) ==
    {m \in DOMAIN found : IF q.verifiedOnly THEN found[m] = "VerifiedCreator"
                          ELSE found[m] # "Blocked"}

\* search, up to its wait, which there is only with peers.
Searches(q) ==
    /\ localCatalog' = Synced
    /\ IF discoveryPeers = {}
       THEN /\ results' = [of |-> q, models |-> Ranked(q, Known(q)),
                           known |-> Ranked(q, Known(q)), doubted |-> {}]
            /\ isLoading' = FALSE
            /\ overtaken' = (pendingQueries # <<>>)
            /\ UNCHANGED pendingQueries
       ELSE /\ pendingQueries' = Append(pendingQueries,
                   [of |-> q, results |-> Known(q), known |-> Ranked(q, Known(q)),
                    doubted |-> {}])
            /\ isLoading' = TRUE
            /\ overtaken' = (overtaken /\ pendingQueries # <<>>)
            /\ UNCHANGED results
    /\ UNCHANGED <<active, keyring, discoveredCache, lastSeen, discoveryPeers,
                   peerRateLimits>>

\* The effect of the page on every change, or its button and the Enter key.
performSearch(q) ==
    /\ SearchOp
    /\ Len(pendingQueries) < MaxSearches
    /\ query' = q
    /\ Searches(q)

\* The time of the oldest search is over first: all wait equally long.
SearchEnds ==
    /\ pendingQueries # <<>>
    /\ LET s == Head(pendingQueries)
       IN results' = [of |-> s.of, models |-> Ranked(s.of, s.results),
                      known |-> s.known, doubted |-> s.doubted]
    /\ pendingQueries' = Tail(pendingQueries)
    /\ isLoading' = FALSE
    /\ UNCHANGED <<active, keyring, localCatalog, discoveredCache, lastSeen,
                   discoveryPeers, peerRateLimits, query, overtaken, ops>>
-----------------------------------------------------------------------------
Init == /\ active = NoModels /\ localCatalog = NoModels
        /\ keyring = [k \in Creators |-> "unknown"]
        /\ discoveredCache = NoModels /\ lastSeen = <<>>
        /\ discoveryPeers = {} /\ peerRateLimits = [p \in Peers |-> 0]
        /\ pendingQueries = <<>>
        /\ query \in Queries
        /\ results = [of |-> query, models |-> {}, known |-> {}, doubted |-> {}]
        /\ isLoading = FALSE /\ overtaken = FALSE
        /\ ops = 0

Next == \/ \E p \in Peers :
              \/ registerDiscoveryPeer(p)
              \/ unregisterDiscoveryPeer(p)
              \/ SecondEnds(p)
              \/ handleInboundQuery(p)
              \/ \E e \in Entries :
                    \/ handleInboundAnnounce(p, e)
                    \/ \E i \in DOMAIN pendingQueries : handleInboundResponse(p, i, e)
        \/ \E e \in Entries : TorrentAdded(e)
        \/ \E m \in Models : TorrentRemoved(m)
        \/ \E k \in Creators, l \in TrustLevel : KeyringChanges(k, l)
        \/ \E q \in Queries : performSearch(q)
        \/ SearchEnds

Spec == Init /\ [][Next]_vars
-----------------------------------------------------------------------------
\* What there is of each of some models, such as an entry.
OfSome(S) == UNION {[M -> S] : M \in SUBSET Models}

\* A search that waits, and what is shown of it: known and doubted are history.
Search == [of : Queries, results : OfSome(TrustLevel),
           known : SUBSET Models, doubted : SUBSET Models]

Shown == [of : Queries, models : SUBSET Models,
          known : SUBSET Models, doubted : SUBSET Models]

TypeOK == /\ active \in OfSome(Entries) /\ localCatalog \in OfSome(Entries)
          /\ keyring \in [Creators -> TrustLevel \cup {"unknown"}]
          /\ discoveredCache \in OfSome([entry : Entries, level : TrustLevel \ {"Blocked"}])
          /\ Cardinality(DOMAIN discoveredCache) <= MAX_DISCOVERED_CACHE_SIZE
          /\ ToSet(lastSeen) = DOMAIN discoveredCache
          /\ lastSeen \in Seq(Models) /\ IsInjective(lastSeen)
          /\ discoveryPeers \subseteq Peers
          /\ peerRateLimits \in [Peers -> 0..MAX_MESSAGES_PER_SEC_PER_PEER]
          /\ pendingQueries \in Seq(Search) /\ Len(pendingQueries) <= MaxSearches
          /\ query \in Queries
          /\ results \in Shown
          /\ isLoading \in BOOLEAN /\ overtaken \in BOOLEAN
          /\ ops \in 0..MaxSearchOps

\* Nothing that was known when a search began is missing from what it shows,
\* though answers replace results and the cache evicts entries while it waits;
\* with the filter on, only those may be missing of which a peer then told without
\* a verified creator and none with one since: its word replaces what was known.
\* And when no search is under way what is shown
\* is of the query that is typed, unless the last peer left while one waited:
\* then a later search was answered at once, and the older answer came after it
\* (search, performSearch).
PageShowsFound ==
    /\ results.known \ results.models
          \subseteq IF results.of.verifiedOnly THEN results.doubted ELSE {}
    /\ pendingQueries = <<>> /\ ~overtaken => results.of = query
=============================================================================
