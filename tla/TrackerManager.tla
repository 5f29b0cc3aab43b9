--------------------------- MODULE TrackerManager ---------------------------
(***************************************************************************)
(* TrackerManager of src/src/main/engine/trackerManager.ts: the list of      *)
(* trackers to announce to and the blacklist it is filtered by, the          *)
(* synchronisations that fetch both, the three files they are kept in, and   *)
(* the rule by which a start or the daily timer synchronises.                *)
(*                                                                           *)
(* A synchronisation is a sequence of awaits: two fetches, then for each     *)
(* file an open that truncates it and a write.  The user may force one       *)
(* while another is under way.                                               *)
(***************************************************************************)
EXTENDS Naturals

CONSTANTS
    Trackers,      \* well-formed tracker URLs
    Builtins,      \* DEFAULT_BUILTIN_TRACKERS
    TrackerLists,  \* what the published trackers_all.txt may hold
    Blacklists,    \* what the published blacklist.txt may hold, as the trackers it matches
    Syncs,         \* calls of syncTrackers that may be under way at a time
    Interval,      \* SYNC_INTERVAL_MS, in ticks of the clock
    MaxNow,        \* bound: ticks of the clock
    MaxOps         \* bound: forced synchronisations and ends of the process

ASSUME TrackerAssumption ==
    /\ Builtins \subseteq Trackers
    /\ TrackerLists \subseteq SUBSET Trackers
    /\ Blacklists \subseteq SUBSET Trackers
    /\ Interval \in Nat \ {0}
    /\ MaxNow \in Nat \ {0}
    /\ MaxOps \in Nat

VARIABLES
    running,      \* between init and the end of the process
    active,       \* activeTrackers
    blacklist,    \* blacklist
    lastSync,     \* lastSyncTime; 0 is never
    isSyncing,    \* isSyncing
    due,          \* when the timer fires next
    phase,        \* where each call of syncTrackers is
    gotBlacklist, \* the blacklist it fetched
    gotTrackers,  \* the tracker list it fetched
    trackersFile, \* trackers_all.txt; a file that is not there reads like an empty one
    blacklistFile,\* blacklist.txt
    metaFile,     \* the time in tracker_sync.json, or Torn
    now,          \* the clock (external)
    lastAttempt,  \* history: when a synchronisation last began
    orderly,      \* history: in this process no save failed and no two synchronisations met
    budget        \* forced synchronisations and ends of the process left

memory == <<active, blacklist, lastSync>>
fetched == <<gotBlacklist, gotTrackers>>
disk == <<trackersFile, blacklistFile, metaFile>>
vars == <<running, memory, isSyncing, due, phase, fetched, disk, now, lastAttempt, orderly, budget>>

-----------------------------------------------------------------------------
Fetching == {"fetchingBlacklist", "fetchingTrackers"}
Saving == {"openingTrackers", "writingTrackers", "openingBlacklist", "writingBlacklist",
           "openingMeta", "writingMeta"}
Phases == {"idle", "hung"} \cup Fetching \cup Saving

UnderWay == {s \in Syncs : phase[s] \in Fetching \cup Saving}
Hangs == \E s \in Syncs : phase[s] = "hung"

\* Text that does not parse.
Torn == MaxNow + 1

\* filterTrackers, with isTrackerBlacklisted.  The ceiling of 100 is left out.
Filter(list, banned) == list \ banned

\* What a synchronisation leaves active.
SyncedList(list, banned) ==
    IF Filter(list, banned) # {} THEN Filter(list, banned) ELSE Filter(Builtins, banned)

\* Mutants, named after what they get wrong, stand before the definition they change.
LoadedListUnfiltered(list, banned) == IF list # {} THEN list ELSE Builtins

\* What loading leaves active: where nothing remains, the constructor's unfiltered list.
LoadedList(list, banned) ==
    IF Filter(list, banned) # {} THEN Filter(list, banned) ELSE Builtins

Spend == budget > 0 /\ budget' = budget - 1

-----------------------------------------------------------------------------
Goes(s, from, to) == phase[s] = from /\ phase' = [phase EXCEPT ![s] = to]

\* syncTrackers, up to the first await.
BeginSync(s) ==
    /\ Goes(s, "idle", "fetchingBlacklist")
    /\ isSyncing' = TRUE
    /\ lastAttempt' = now
    /\ orderly' = (orderly /\ UnderWay = {})

\* The user's synchronisation is forced.
UserSyncs(s) ==
    /\ running
    /\ BeginSync(s)
    /\ Spend
    /\ UNCHANGED <<running, memory, due, fetched, disk, now>>

\* The timer's is skipped while the flag is set.
TimerFires ==
    /\ running
    /\ now = due
    /\ due' = due + Interval
    /\ \/ ~isSyncing /\ \E s \in Syncs : BeginSync(s)
       \/ isSyncing /\ UNCHANGED <<phase, isSyncing, lastAttempt, orderly>>
    /\ UNCHANGED <<running, memory, fetched, disk, now, budget>>

\* The call returns; what it fetched is gone with it.
Returns(s) ==
    /\ phase' = [phase EXCEPT ![s] = "idle"]
    /\ gotBlacklist' = [gotBlacklist EXCEPT ![s] = {}]
    /\ gotTrackers' = [gotTrackers EXCEPT ![s] = {}]

BlacklistArrives(s) ==
    /\ Goes(s, "fetchingBlacklist", "fetchingTrackers")
    /\ \E list \in Blacklists : gotBlacklist' = [gotBlacklist EXCEPT ![s] = list]
    /\ UNCHANGED <<running, memory, isSyncing, due, gotTrackers, disk, now, lastAttempt, orderly,
                   budget>>

\* Update of the memory structures, between the second fetch and the save.
UpdateStoresDue(list, banned) ==
    /\ blacklist' = banned
    /\ active' = SyncedList(list, banned)
    /\ lastSync' = now + Interval
UpdateFilteredFirst(list, banned) ==
    /\ blacklist' = banned
    /\ active' = SyncedList(list, blacklist)
    /\ lastSync' = now
Update(list, banned) ==
    /\ blacklist' = banned
    /\ active' = SyncedList(list, banned)
    /\ lastSync' = now

TrackersArrive(s) ==
    /\ Goes(s, "fetchingTrackers", "openingTrackers")
    /\ \E list \in TrackerLists :
           /\ gotTrackers' = [gotTrackers EXCEPT ![s] = list]
           /\ Update(list, gotBlacklist[s])
    /\ UNCHANGED <<running, isSyncing, due, gotBlacklist, disk, now, lastAttempt, orderly, budget>>

\* An error, a timeout, or more than 5 MB.
FetchFailsKeepingFlag(s) ==
    /\ phase[s] \in Fetching
    /\ Returns(s)
    /\ UNCHANGED <<running, memory, isSyncing, due, disk, now, lastAttempt, orderly, budget>>
FetchFails(s) ==
    /\ phase[s] \in Fetching
    /\ Returns(s)
    /\ isSyncing' = FALSE
    /\ UNCHANGED <<running, memory, due, disk, now, lastAttempt, orderly, budget>>

\* The server closes the connection in the middle of the body: neither 'end' nor an error of
\* the request, and the timeout is gone with the socket.  The promise never settles.
FetchHangs(s) ==
    /\ phase[s] \in Fetching
    /\ phase' = [phase EXCEPT ![s] = "hung"]
    /\ UNCHANGED <<running, memory, isSyncing, due, fetched, disk, now, lastAttempt, orderly,
                   budget>>

-----------------------------------------------------------------------------
\* saveToDiskAsync: every file is truncated when it is opened.
FileOpens(s) ==
    /\ \/ /\ Goes(s, "openingTrackers", "writingTrackers")
          /\ trackersFile' = {}
          /\ UNCHANGED <<blacklistFile, metaFile>>
       \/ /\ Goes(s, "openingBlacklist", "writingBlacklist")
          /\ blacklistFile' = {}
          /\ UNCHANGED <<trackersFile, metaFile>>
       \/ /\ Goes(s, "openingMeta", "writingMeta")
          /\ metaFile' = Torn
          /\ UNCHANGED <<trackersFile, blacklistFile>>
    /\ UNCHANGED <<running, memory, isSyncing, due, fetched, now, lastAttempt, orderly, budget>>

\* Where another save has written since the truncation, the end of its longer text is left.
ListWrites(s) ==
    /\ \/ /\ Goes(s, "writingTrackers", "openingBlacklist")
          /\ \E rest \in SUBSET trackersFile : trackersFile' = gotTrackers[s] \cup rest
          /\ UNCHANGED <<blacklistFile, metaFile>>
       \/ /\ Goes(s, "writingBlacklist", "openingMeta")
          /\ \E rest \in SUBSET blacklistFile : blacklistFile' = gotBlacklist[s] \cup rest
          /\ UNCHANGED <<trackersFile, metaFile>>
    /\ UNCHANGED <<running, memory, isSyncing, due, fetched, now, lastAttempt, orderly, budget>>

\* The last write, and the finally of syncTrackers.
MetaWrites(s) ==
    /\ phase[s] = "writingMeta"
    /\ \/ metaFile' = lastSync
       \/ metaFile # Torn /\ metaFile' = Torn
    /\ Returns(s)
    /\ isSyncing' = FALSE
    /\ UNCHANGED <<running, memory, due, trackersFile, blacklistFile, now, lastAttempt, orderly,
                   budget>>

\* The disk refuses an open or a write: the rest is not saved.
SaveFails(s) ==
    /\ phase[s] \in Saving
    /\ Returns(s)
    /\ isSyncing' = FALSE
    /\ orderly' = FALSE
    /\ UNCHANGED <<running, memory, due, disk, now, lastAttempt, budget>>

-----------------------------------------------------------------------------
\* The process ends, at any point of a save.  A write under way is a truncated file.
Quit ==
    /\ running
    /\ running' = FALSE
    /\ phase' = [s \in Syncs |-> "idle"]
    /\ gotBlacklist' = [s \in Syncs |-> {}]
    /\ gotTrackers' = [s \in Syncs |-> {}]
    /\ isSyncing' = FALSE
    /\ Spend
    /\ UNCHANGED <<memory, due, disk, now, lastAttempt, orderly>>

\* The constructor's fields and loadFromDisk: what does not parse ends the loading.
Load ==
    \/ /\ metaFile # Torn
       /\ lastSync' = metaFile
       /\ blacklist' = blacklistFile
       /\ active' = LoadedList(trackersFile, blacklistFile)
    \/ metaFile = Torn /\ lastSync' = 0 /\ blacklist' = {} /\ active' = Builtins

\* init's shouldSync.
ShouldSyncOnlyOnce(last) == last = 0
ShouldSync(last) == last = 0 \/ now - last >= Interval

Start ==
    /\ ~running
    /\ running' = TRUE
    /\ Load
    /\ due' = now + Interval
    /\ orderly' = (metaFile # Torn)
    /\ \/ /\ ShouldSync(lastSync')
          /\ \E s \in Syncs : Goes(s, "idle", "fetchingBlacklist")
          /\ isSyncing' = TRUE
          /\ lastAttempt' = now
       \/ ~ShouldSync(lastSync') /\ UNCHANGED <<phase, isSyncing, lastAttempt>>
    /\ UNCHANGED <<fetched, disk, now, budget>>

\* A tick is hours: what is fetched or saved ends within it.
Tick ==
    /\ now < MaxNow
    /\ UnderWay = {}
    /\ running => now < due
    /\ now' = now + 1
    /\ UNCHANGED <<running, memory, isSyncing, due, phase, fetched, disk, lastAttempt, orderly,
                   budget>>

\* Before the first start.
Init ==
    /\ running = FALSE
    /\ active = Builtins
    /\ blacklist = {}
    /\ lastSync = 0
    /\ isSyncing = FALSE
    /\ due = 0
    /\ phase = [s \in Syncs |-> "idle"]
    /\ gotBlacklist = [s \in Syncs |-> {}]
    /\ gotTrackers = [s \in Syncs |-> {}]
    /\ trackersFile = {}
    /\ blacklistFile = {}
    /\ metaFile = 0
    /\ now = 1
    /\ lastAttempt = 0
    /\ orderly = TRUE
    /\ budget = MaxOps

SyncStep(s) ==
    \/ BlacklistArrives(s) \/ TrackersArrive(s) \/ FetchFails(s) \/ FetchHangs(s)
    \/ FileOpens(s) \/ ListWrites(s) \/ MetaWrites(s) \/ SaveFails(s)

Next ==
    \/ \E s \in Syncs : UserSyncs(s) \/ SyncStep(s)
    \/ TimerFires
    \/ Quit
    \/ Start
    \/ Tick

Spec == Init /\ [][Next]_vars

-----------------------------------------------------------------------------
\* Memory, files and calls hold what trackerManager.ts declares.
TypeOK ==
    /\ running \in BOOLEAN
    /\ active \subseteq Trackers
    /\ blacklist \subseteq Trackers
    /\ lastSync \in 0..MaxNow
    /\ isSyncing \in BOOLEAN
    /\ due \in Nat
    /\ phase \in [Syncs -> Phases]
    /\ gotBlacklist \in [Syncs -> SUBSET Trackers]
    /\ gotTrackers \in [Syncs -> SUBSET Trackers]
    /\ trackersFile \subseteq Trackers
    /\ blacklistFile \subseteq Trackers
    /\ metaFile \in 0..Torn
    /\ now \in 1..MaxNow
    /\ lastAttempt \in 0..MaxNow
    /\ orderly \in BOOLEAN
    /\ budget \in 0..MaxOps

\* The flag that makes the timer skip a synchronisation is only set while one has not
\* ended, also when forced ones overlap and clear each other's flag.
FlagMeansNotEnded == isSyncing => \E s \in Syncs : phase[s] # "idle"

\* A blacklisted tracker is announced to only where nothing else is left and the built-in
\* list stands in: the list is filtered by the blacklist it came with, however fetches of
\* several synchronisations, half saved files and restarts mix.
BlacklistedOnlyAsFallback == active \cap blacklist # {} => active = Builtins

\* Where no synchronisations overlapped and no save failed, a restart finds what the memory
\* holds, but for the fallback.
ReloadGivesMemory ==
    running /\ orderly /\ UnderWay = {} =>
        /\ blacklist = blacklistFile
        /\ lastSync = metaFile
        /\ Filter(trackersFile, blacklistFile) # {} => active = Filter(trackersFile, blacklistFile)

\* While the program runs, the last synchronisation began less than two intervals ago,
\* however restarts mix the timer's rule with the start's; unless a fetch was cut off.
AttemptedRecently == running /\ ~Hangs => now - lastAttempt < 2 * Interval

=============================================================================
