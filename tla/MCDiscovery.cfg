\* Two models, with two entries and one, and a cache that holds one; one peer, whose
\* second message in a second is dropped.  Four operations let a peer come, a
\* search wait, the peer go and another search be answered at once.  The bounds
\* end the behaviours, hence no deadlock check.
SPECIFICATION FindSpec
CHECK_DEADLOCK FALSE
CONSTANTS
    Models = {"m1", "m2"}
    Creators = {"k1"}
    NoKey = "none"
    Entries <- SomeEntries
    Peers = {p1}
    Queries <- SomeQueries
    MAX_DISCOVERED_CACHE_SIZE = 1
    MAX_MESSAGES_PER_SEC_PER_PEER = 1
    MaxSearches = 2
    MaxSearchOps = 4
    Torrents = {"t1", "t2"}
    Keys <- SomeKeys
    Transfers <- SomeTransfers
    maxPeersPerTorrent = 3
    maxGlobalPeers = 3
    uploadSlots = 1
    Requests <- SomeRequests
    MaxEdits = 3
    MaxAdding = 1
    NoRequest = NoRequest
    NoVerdict = NoVerdict
INVARIANTS
    FindTypeOK
    PageShowsFound
PROPERTIES
    VerdictOfInput
    SlotsToTheFastest
    EveryoneGetsATurn
