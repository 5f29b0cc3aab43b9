------------------------ MODULE TrackerManagerProofs ------------------------
(***************************************************************************)
(* Theorems about TrackerManager, for every set of trackers, every content   *)
(* of the published lists, every interval and every bound.                   *)
(***************************************************************************)
EXTENDS TrackerManager, TLAPS

LEMMA Numbers ==
    /\ Interval \in Nat /\ Interval > 0
    /\ MaxNow \in Nat /\ MaxNow > 0
    /\ MaxOps \in Nat
    /\ Torn \in Nat /\ Torn = MaxNow + 1
  BY TrackerAssumption DEF TrackerAssumption, Torn

\* The clock counts in natural numbers.
LEMMA Clock ==
    ASSUME TypeOK
    PROVE  now \in Nat /\ lastAttempt \in Nat /\ lastSync \in Nat /\ due \in Nat /\ metaFile \in Nat
  BY Numbers DEF TypeOK

LEMMA TypeStep == ASSUME TypeOK, Next PROVE TypeOK'
<1> USE TrackerAssumption DEF TrackerAssumption, TypeOK, memory, fetched, disk, Phases, Fetching,
        Saving, Torn
<1>1. ASSUME NEW s \in Syncs, UserSyncs(s) PROVE TypeOK'
  BY <1>1 DEF UserSyncs, BeginSync, Goes, Spend
<1>2. CASE TimerFires
  <2>1. due' \in Nat
    BY <1>2 DEF TimerFires
  <2>2. phase' \in [Syncs -> Phases] /\ isSyncing' \in BOOLEAN
    BY <1>2 DEF TimerFires, BeginSync, Goes
  <2>3. lastAttempt' \in 0..MaxNow /\ orderly' \in BOOLEAN
    BY <1>2 DEF TimerFires, BeginSync
  <2> QED
    BY <1>2, <2>1, <2>2, <2>3 DEF TimerFires
<1>3. ASSUME NEW s \in Syncs, BlacklistArrives(s) PROVE TypeOK'
  BY <1>3 DEF BlacklistArrives, Goes
<1>4. ASSUME NEW s \in Syncs, TrackersArrive(s) PROVE TypeOK'
  BY <1>4 DEF TrackersArrive, Update, SyncedList, Filter, Goes
<1>5. ASSUME NEW s \in Syncs, FetchFails(s) \/ FetchHangs(s) \/ SaveFails(s) PROVE TypeOK'
  BY <1>5 DEF FetchFails, FetchHangs, SaveFails, Returns
<1>6. ASSUME NEW s \in Syncs, FileOpens(s) PROVE TypeOK'
  BY <1>6 DEF FileOpens, Goes
<1>7. ASSUME NEW s \in Syncs, ListWrites(s) PROVE TypeOK'
  BY <1>7 DEF ListWrites, Goes
<1>8. ASSUME NEW s \in Syncs, MetaWrites(s) PROVE TypeOK'
  <2>1. phase' \in [Syncs -> Phases]
    BY <1>8 DEF MetaWrites, Returns
  <2>2. gotBlacklist' \in [Syncs -> SUBSET Trackers] /\ gotTrackers' \in [Syncs -> SUBSET Trackers]
    BY <1>8 DEF MetaWrites, Returns
  <2>3. metaFile' \in 0..Torn
    BY <1>8 DEF MetaWrites
  <2> QED
    BY <1>8, <2>1, <2>2, <2>3 DEF MetaWrites
<1>9. CASE Quit
  <2>1. phase' \in [Syncs -> Phases]
    BY <1>9 DEF Quit
  <2>2. gotBlacklist' \in [Syncs -> SUBSET Trackers] /\ gotTrackers' \in [Syncs -> SUBSET Trackers]
    BY <1>9 DEF Quit
  <2> QED
    <3>1. budget' \in 0..MaxOps
      BY <1>9 DEF Quit, Spend
    <3> QED
      BY <1>9, <2>1, <2>2, <3>1 DEF Quit
<1>10. CASE Start
  <2>1. active' \subseteq Trackers /\ blacklist' \subseteq Trackers /\ lastSync' \in 0..MaxNow
    BY <1>10 DEF Start, Load, LoadedList, Filter
  <2>2. orderly' \in BOOLEAN
    BY <1>10 DEF Start
  <2>3. due' \in Nat
    BY <1>10 DEF Start
  <2>4. phase' \in [Syncs -> Phases] /\ isSyncing' \in BOOLEAN /\ lastAttempt' \in 0..MaxNow
    <3>1. CASE UNCHANGED <<phase, isSyncing, lastAttempt>>
      BY <3>1
    <3>2. ASSUME NEW s \in Syncs, Goes(s, "idle", "fetchingBlacklist"), isSyncing' = TRUE,
                 lastAttempt' = now
          PROVE  phase' \in [Syncs -> Phases] /\ isSyncing' \in BOOLEAN /\ lastAttempt' \in 0..MaxNow
      BY <3>2 DEF Goes
    <3> QED
      BY <1>10, <3>1, <3>2 DEF Start
  <2> QED
    BY <1>10, <2>1, <2>2, <2>3, <2>4 DEF Start
<1>11. CASE Tick
  BY <1>11 DEF Tick
<1> QED
  BY <1>1, <1>2, <1>3, <1>4, <1>5, <1>6, <1>7, <1>8, <1>9, <1>10, <1>11 DEF Next, SyncStep

\* Memory, files and calls keep their types.
THEOREM TypeCorrect == Spec => []TypeOK
<1>1. ASSUME Init PROVE TypeOK
  <2>1. phase \in [Syncs -> Phases]
    BY <1>1 DEF Init, Phases
  <2>2. gotBlacklist \in [Syncs -> SUBSET Trackers] /\ gotTrackers \in [Syncs -> SUBSET Trackers]
    BY <1>1 DEF Init
  <2> QED
    <3>1. /\ lastSync \in 0..MaxNow /\ due \in Nat /\ metaFile \in 0..Torn
          /\ now \in 1..MaxNow /\ lastAttempt \in 0..MaxNow /\ budget \in 0..MaxOps
      BY <1>1, Numbers DEF Init
    <3>2. active \subseteq Trackers /\ blacklist \subseteq Trackers
      BY <1>1, TrackerAssumption DEF TrackerAssumption, Init
    <3> QED
      BY <1>1, <2>1, <2>2, <3>1, <3>2 DEF Init, TypeOK
<1>2. TypeOK /\ UNCHANGED vars => TypeOK'
  BY DEF TypeOK, vars, memory, fetched, disk
<1> QED
  BY <1>1, <1>2, TypeStep, PTL DEF Spec

-----------------------------------------------------------------------------
\* The flag and the fallback are inductive as they stand.
Plain == FlagMeansNotEnded /\ BlacklistedOnlyAsFallback

LEMMA PlainStep == ASSUME TypeOK, Plain, Next PROVE Plain'
<1> USE DEF Plain, FlagMeansNotEnded, BlacklistedOnlyAsFallback, TypeOK, memory, fetched, disk
<1>1. ASSUME NEW s \in Syncs, UserSyncs(s) PROVE Plain'
  BY <1>1 DEF UserSyncs, BeginSync, Goes
<1>2. CASE TimerFires
  BY <1>2 DEF TimerFires, BeginSync, Goes
<1>3. ASSUME NEW s \in Syncs, BlacklistArrives(s) PROVE Plain'
  BY <1>3 DEF BlacklistArrives, Goes
<1>4. ASSUME NEW s \in Syncs, TrackersArrive(s) PROVE Plain'
  <2>1. FlagMeansNotEnded'
    BY <1>4 DEF TrackersArrive, Goes
  <2>2. BlacklistedOnlyAsFallback'
    BY <1>4 DEF TrackersArrive, Update, SyncedList, Filter
  <2> QED
    BY <2>1, <2>2
<1>5. ASSUME NEW s \in Syncs, FetchFails(s) \/ FetchHangs(s) \/ SaveFails(s) PROVE Plain'
  BY <1>5 DEF FetchFails, FetchHangs, SaveFails
<1>6. ASSUME NEW s \in Syncs, FileOpens(s) \/ ListWrites(s) PROVE Plain'
  BY <1>6 DEF FileOpens, ListWrites, Goes
<1>7. ASSUME NEW s \in Syncs, MetaWrites(s) PROVE Plain'
  BY <1>7 DEF MetaWrites
<1>8. CASE Quit
  BY <1>8 DEF Quit
<1>9. CASE Start
  <2>1. FlagMeansNotEnded'
    BY <1>9 DEF Start, Goes
  <2>2. BlacklistedOnlyAsFallback'
    BY <1>9 DEF Start, Load, LoadedList, Filter
  <2> QED
    BY <2>1, <2>2
<1>10. CASE Tick
  BY <1>10 DEF Tick
<1> QED
  BY <1>1, <1>2, <1>3, <1>4, <1>5, <1>6, <1>7, <1>8, <1>9, <1>10 DEF Next, SyncStep

LEMMA PlainHolds == Spec => []Plain
<1>1. Init => Plain
  BY DEF Init, Plain, FlagMeansNotEnded, BlacklistedOnlyAsFallback
<1>2. Plain /\ UNCHANGED vars => Plain'
  BY DEF Plain, FlagMeansNotEnded, BlacklistedOnlyAsFallback, vars, memory
<1> QED
  BY <1>1, <1>2, PlainStep, TypeCorrect, PTL DEF Spec

\* The flag that stops the timer's synchronisations is never left set by overlapping ones.
THEOREM FlagHonest == Spec => []FlagMeansNotEnded
  BY PlainHolds, PTL DEF Plain

\* A blacklisted tracker is active only as the built-in fallback.
THEOREM BlacklistHeeded == Spec => []BlacklistedOnlyAsFallback
  BY PlainHolds, PTL DEF Plain

-----------------------------------------------------------------------------
\* Times: nothing was synchronised after the last attempt, an attempt under way is of this
\* tick, and the timer fires within two intervals of it.
Timely ==
    /\ lastSync <= lastAttempt
    /\ metaFile # Torn => metaFile <= lastAttempt
    /\ lastAttempt <= now
    /\ UnderWay # {} => lastAttempt = now
    /\ ~running => \A s \in Syncs : phase[s] = "idle"
    /\ running => now <= due
    /\ running /\ ~Hangs => due < lastAttempt + 2 * Interval

\* A call that begins here is of this tick.
LEMMA TimelyBegin ==
    ASSUME TypeOK, Timely, NEW s \in Syncs, BeginSync(s),
           UNCHANGED <<running, lastSync, metaFile, now>>,
           running, due' \in Nat, due' <= now + Interval \/ due' = due, due' >= now
    PROVE  Timely'
<1>1. lastAttempt <= lastAttempt' /\ lastAttempt' = now'
  BY DEF BeginSync, Timely
<1>2. ~Hangs' => ~Hangs
  BY DEF BeginSync, Goes, Hangs, TypeOK
<1>3. due' < lastAttempt' + 2 * Interval \/ Hangs'
  <2>1. due' < now + 2 * Interval \/ Hangs
    <3>1. CASE Hangs
      BY <3>1
    <3>2. CASE ~Hangs
      <4>1. due < lastAttempt + 2 * Interval /\ lastAttempt <= now
        BY <3>2 DEF Timely
      <4>2. now + Interval < now + 2 * Interval
        BY Numbers, Clock
      <4> QED
        BY <4>1, <4>2, Numbers, Clock
    <3> QED
      BY <3>1, <3>2
  <2> QED
    BY <1>1, <1>2, <2>1
<1> QED
  BY <1>1, <1>3 DEF Timely, TypeOK, Torn

LEMMA TimelyStep == ASSUME TypeOK, Plain, Timely, Next PROVE Timely'
<1>1. ASSUME NEW s \in Syncs, UserSyncs(s) PROVE Timely'
  <2>1. BeginSync(s) /\ running /\ UNCHANGED <<running, lastSync, metaFile, now, due>>
    BY <1>1 DEF UserSyncs, memory, disk
  <2> QED
    BY <2>1, TimelyBegin, Clock DEF Timely
<1>2. CASE TimerFires
  <2>1. /\ running /\ now = due /\ due' = now + Interval
        /\ UNCHANGED <<running, lastSync, metaFile, now>>
    BY <1>2 DEF TimerFires, memory, disk
  <2>2. CASE \E s \in Syncs : BeginSync(s)
    <3>1. due' \in Nat /\ due' >= now /\ due' <= now + Interval
      BY <2>1, Numbers, Clock
    <3> QED
      BY <2>1, <2>2, <3>1, TimelyBegin
  <2>3. CASE isSyncing /\ UNCHANGED <<phase, isSyncing, lastAttempt, orderly>>
    <3>1. UNCHANGED <<UnderWay, Hangs>>
      BY <2>3 DEF UnderWay, Hangs
    <3>2. Hangs \/ UnderWay # {}
      BY <2>3 DEF Plain, FlagMeansNotEnded, Hangs, UnderWay, TypeOK, Phases
    <3> QED
      BY <2>1, <2>3, <3>1, <3>2, TrackerAssumption
         DEF TrackerAssumption, Timely, TypeOK
  <2> QED
    BY <1>2, <2>2, <2>3 DEF TimerFires
<1>3. ASSUME NEW s \in Syncs, SyncStep(s) PROVE Timely'
  <2>1. s \in UnderWay /\ lastAttempt = now
    BY <1>3 DEF SyncStep, BlacklistArrives, TrackersArrive, FetchFails, FetchHangs, FileOpens,
           ListWrites, MetaWrites, SaveFails, Goes, UnderWay, Fetching, Saving, Timely
  <2>2. /\ UNCHANGED <<running, due, now, lastAttempt>>
        /\ lastSync' \in {lastSync, now}
        /\ metaFile' \in {metaFile, lastSync, Torn}
    BY <1>3 DEF SyncStep, BlacklistArrives, TrackersArrive, Update, FetchFails, FetchHangs,
           FileOpens, ListWrites, MetaWrites, SaveFails, memory, disk
  <2>3. ~Hangs' => ~Hangs
    <3>1. \A t \in Syncs : phase[t] = "hung" => phase'[t] = "hung"
      BY <1>3, <2>1 DEF SyncStep, BlacklistArrives, TrackersArrive, FetchFails, FetchHangs,
             FileOpens, ListWrites, MetaWrites, SaveFails, Goes, Returns, UnderWay, Fetching,
             Saving, TypeOK
    <3> QED
      BY <3>1 DEF Hangs
  <2>4. running
    BY <2>1 DEF Timely, UnderWay, Fetching, Saving, TypeOK
  <2> QED
    BY <2>1, <2>2, <2>3, <2>4 DEF Timely, TypeOK, Torn
<1>4. CASE Quit
  <2>1. ~running' /\ UNCHANGED <<lastSync, metaFile, now, lastAttempt>>
    BY <1>4 DEF Quit, memory, disk
  <2>2. \A s \in Syncs : phase'[s] = "idle"
    BY <1>4 DEF Quit
  <2>3. UnderWay' = {}
    BY <2>2 DEF UnderWay, Fetching, Saving
  <2> QED
    BY <2>1, <2>2, <2>3 DEF Timely
<1>5. CASE Start
  <2>1. /\ running' /\ due' = now + Interval /\ UNCHANGED <<metaFile, now>>
        /\ \A s \in Syncs : phase[s] = "idle"
    BY <1>5 DEF Start, disk, Timely
  <2>2. lastSync' <= lastAttempt /\ lastSync' \in Nat
    BY <1>5 DEF Start, Load, Timely, TypeOK, Torn
  <2>3. CASE ShouldSync(lastSync') /\ lastAttempt' = now
    BY <2>1, <2>2, <2>3, TrackerAssumption DEF TrackerAssumption, Timely, TypeOK, Torn
  <2>4. CASE ~ShouldSync(lastSync') /\ UNCHANGED <<phase, lastAttempt>>
    <3>1. UnderWay' = {}
      BY <2>1, <2>4 DEF UnderWay, Fetching, Saving
    <3>2. now < lastSync' + Interval
      <4>1. ~(now - lastSync' >= Interval)
        BY <2>4 DEF ShouldSync
      <4> QED
        BY <2>2, <4>1, Numbers, Clock
    <3> QED
      <4>1. due' < lastAttempt' + 2 * Interval
        BY <2>1, <2>2, <2>4, <3>2, Numbers, Clock
      <4>2. lastSync' <= lastAttempt' /\ lastAttempt' <= now' /\ now' <= due'
        BY <2>1, <2>2, <2>4, Numbers, Clock DEF Timely
      <4>3. metaFile' # Torn => metaFile' <= lastAttempt'
        BY <2>1, <2>4 DEF Timely
      <4> QED
        BY <2>1, <3>1, <4>1, <4>2, <4>3 DEF Timely
  <2> QED
    BY <1>5, <2>3, <2>4 DEF Start
<1>6. CASE Tick
  <2>1. /\ now' = now + 1 /\ UNCHANGED <<lastSync, metaFile, lastAttempt, phase, running, due>>
        /\ running => now < due
        /\ UnderWay = {}
    BY <1>6 DEF Tick, memory, disk
  <2>2. UnderWay' = {} /\ Hangs' = Hangs
    BY <2>1 DEF UnderWay, Hangs
  <2> QED
    BY <2>1, <2>2 DEF Timely, TypeOK
<1> QED
  BY <1>1, <1>2, <1>3, <1>4, <1>5, <1>6 DEF Next

LEMMA TimelyHolds == Spec => []Timely
<1>1. TypeOK /\ Init => Timely
  BY DEF Init, Timely, UnderWay, Fetching, Saving, Hangs
<1>2. Timely /\ UNCHANGED vars => Timely'
  BY DEF Timely, vars, memory, disk, UnderWay, Hangs
<1> QED
  BY <1>1, <1>2, TimelyStep, PlainHolds, TypeCorrect, PTL DEF Spec

\* While the program runs and no fetch hangs, the last synchronisation began less than two
\* intervals ago.
THEOREM AttemptsRecur == Spec => []AttemptedRecently
<1>1. TypeOK /\ Timely => AttemptedRecently
  BY Numbers, Clock DEF Timely, AttemptedRecently
<1> QED
  BY <1>1, TimelyHolds, TypeCorrect, PTL

-----------------------------------------------------------------------------
\* What a reload would find, and how far the save under way has brought it.
Reloads ==
    /\ blacklist = blacklistFile
    /\ lastSync = metaFile
    /\ Filter(trackersFile, blacklistFile) # {} => active = Filter(trackersFile, blacklistFile)

Progress(s) ==
    /\ phase[s] \in Saving =>
           blacklist = gotBlacklist[s] /\ active = SyncedList(gotTrackers[s], gotBlacklist[s])
    /\ phase[s] = "writingTrackers" => trackersFile = {}
    /\ phase[s] \in Saving \ {"openingTrackers", "writingTrackers"} =>
           trackersFile = gotTrackers[s]
    /\ phase[s] = "writingBlacklist" => blacklistFile = {}
    /\ phase[s] \in {"openingMeta", "writingMeta"} => blacklistFile = gotBlacklist[s]
    /\ phase[s] = "writingMeta" => metaFile = Torn

SavesInOrder ==
    running /\ orderly =>
        /\ \A s, t \in UnderWay : s = t
        /\ (\A s \in Syncs : phase[s] \notin Saving) => Reloads
        /\ \A s \in Syncs : Progress(s)

\* A synchronisation that begins with no other under way.
LEMMA OrderlyBegin ==
    ASSUME TypeOK, SavesInOrder, NEW s \in Syncs, BeginSync(s), running,
           UNCHANGED <<running, memory, fetched, disk>>
    PROVE  SavesInOrder'
<1> SUFFICES ASSUME orderly' PROVE SavesInOrder'
  BY DEF SavesInOrder
<1>1. orderly /\ UnderWay = {}
  BY DEF BeginSync
<1>2. \A t \in Syncs : phase[t] \notin Fetching \cup Saving
  BY <1>1 DEF UnderWay
<1>3. /\ phase'[s] = "fetchingBlacklist"
      /\ \A t \in Syncs \ {s} : phase'[t] = phase[t]
  BY DEF BeginSync, Goes, TypeOK
<1>4. \A t \in Syncs : phase'[t] \notin Saving
  BY <1>2, <1>3 DEF Saving
<1>5. Reloads'
  BY <1>1, <1>2 DEF SavesInOrder, Reloads, memory, disk
<1>6. \A t \in Syncs : Progress(t)'
  BY <1>4 DEF Progress, Saving
<1>7. \A t \in UnderWay' : t = s
  BY <1>2, <1>3 DEF UnderWay
<1> QED
  BY <1>5, <1>6, <1>7 DEF SavesInOrder

\* A step of the only synchronisation under way.
LEMMA OrderlySyncStep ==
    ASSUME TypeOK, Timely, SavesInOrder, NEW s \in Syncs, SyncStep(s)
    PROVE  SavesInOrder'
<1> SUFFICES ASSUME running', orderly' PROVE SavesInOrder'
  BY DEF SavesInOrder
<1>1. running /\ orderly /\ s \in UnderWay
  BY DEF SyncStep, BlacklistArrives, TrackersArrive, FetchFails, FetchHangs, FileOpens,
         ListWrites, MetaWrites, SaveFails, Goes, UnderWay, Fetching, Saving
<1>2. \A t \in Syncs \ {s} : phase[t] \notin Fetching \cup Saving
  BY <1>1 DEF SavesInOrder, UnderWay
<1>3. \A t \in Syncs \ {s} : phase'[t] = phase[t]
  BY DEF SyncStep, BlacklistArrives, TrackersArrive, FetchFails, FetchHangs, FileOpens,
         ListWrites, MetaWrites, SaveFails, Goes, Returns, TypeOK
<1>4. \A t \in UnderWay' : t = s
  BY <1>2, <1>3 DEF UnderWay
<1>5. \A t \in Syncs \ {s} : Progress(t)'
  BY <1>2, <1>3 DEF Progress, Saving
<1>6. SUFFICES (phase'[s] \notin Saving => Reloads') /\ Progress(s)'
  BY <1>4, <1>5 DEF SavesInOrder
<1>7. phase[s] \in Fetching => Reloads
  BY <1>1, <1>2 DEF SavesInOrder, Fetching, Saving
<1>8. Progress(s)
  BY <1>1 DEF SavesInOrder
<1>9. CASE BlacklistArrives(s)
  <2>1. phase[s] = "fetchingBlacklist" /\ phase'[s] = "fetchingTrackers"
    BY <1>9 DEF BlacklistArrives, Goes, TypeOK
  <2>2. UNCHANGED <<memory, disk>>
    BY <1>9 DEF BlacklistArrives
  <2> QED
    BY <1>7, <2>1, <2>2 DEF Progress, Reloads, Saving, Fetching, memory, disk
<1>10. CASE TrackersArrive(s)
  <2>1. phase'[s] = "openingTrackers"
    BY <1>10 DEF TrackersArrive, Goes, TypeOK
  <2>2. blacklist' = gotBlacklist'[s] /\ active' = SyncedList(gotTrackers'[s], gotBlacklist'[s])
    BY <1>10 DEF TrackersArrive, Update, TypeOK
  <2> QED
    BY <2>1, <2>2 DEF Progress, Saving, SyncedList
<1>11. CASE FetchFails(s) \/ FetchHangs(s)
  <2>1. phase[s] \in Fetching /\ phase'[s] \in {"idle", "hung"}
    BY <1>11 DEF FetchFails, FetchHangs, Returns, TypeOK
  <2>2. UNCHANGED <<memory, disk>>
    BY <1>11 DEF FetchFails, FetchHangs
  <2> QED
    BY <1>7, <2>1, <2>2 DEF Progress, Reloads, Saving, memory, disk
<1>12. CASE FileOpens(s)
  <2>1. UNCHANGED <<memory, fetched>>
    BY <1>12 DEF FileOpens
  <2>2. CASE /\ Goes(s, "openingTrackers", "writingTrackers")
             /\ trackersFile' = {}
             /\ UNCHANGED <<blacklistFile, metaFile>>
    BY <1>8, <2>1, <2>2 DEF Goes, TypeOK, Progress, Saving, SyncedList, memory, fetched
  <2>3. CASE /\ Goes(s, "openingBlacklist", "writingBlacklist")
             /\ blacklistFile' = {}
             /\ UNCHANGED <<trackersFile, metaFile>>
    BY <1>8, <2>1, <2>3 DEF Goes, TypeOK, Progress, Saving, SyncedList, memory, fetched
  <2>4. CASE /\ Goes(s, "openingMeta", "writingMeta")
             /\ metaFile' = Torn
             /\ UNCHANGED <<trackersFile, blacklistFile>>
    BY <1>8, <2>1, <2>4 DEF Goes, TypeOK, Progress, Saving, SyncedList, memory, fetched, Torn
  <2> QED
    BY <1>12, <2>2, <2>3, <2>4 DEF FileOpens
<1>13. CASE ListWrites(s)
  <2>1. UNCHANGED <<memory, fetched>>
    BY <1>13 DEF ListWrites
  <2>2. CASE /\ Goes(s, "writingTrackers", "openingBlacklist")
             /\ \E rest \in SUBSET trackersFile : trackersFile' = gotTrackers[s] \cup rest
             /\ UNCHANGED <<blacklistFile, metaFile>>
    <3>1. trackersFile' = gotTrackers[s]
      BY <1>8, <2>2 DEF Goes, Progress
    <3> QED
      BY <1>8, <2>1, <2>2, <3>1 DEF Goes, TypeOK, Progress, Saving, SyncedList, memory, fetched
  <2>3. CASE /\ Goes(s, "writingBlacklist", "openingMeta")
             /\ \E rest \in SUBSET blacklistFile : blacklistFile' = gotBlacklist[s] \cup rest
             /\ UNCHANGED <<trackersFile, metaFile>>
    <3>1. blacklistFile' = gotBlacklist[s]
      BY <1>8, <2>3 DEF Goes, Progress
    <3> QED
      BY <1>8, <2>1, <2>3, <3>1 DEF Goes, TypeOK, Progress, Saving, SyncedList, memory, fetched
  <2> QED
    BY <1>13, <2>2, <2>3 DEF ListWrites
<1>14. CASE MetaWrites(s)
  <2>1. phase[s] = "writingMeta" /\ phase'[s] = "idle"
    BY <1>14 DEF MetaWrites, Returns, TypeOK
  <2>2. metaFile' = lastSync /\ UNCHANGED <<memory, trackersFile, blacklistFile>>
    BY <1>8, <1>14, <2>1 DEF MetaWrites, Progress
  <2>3. Reloads'
    BY <1>8, <2>1, <2>2 DEF Reloads, Progress, SyncedList, Saving, memory
  <2> QED
    BY <2>1, <2>3 DEF Progress, Saving
<1>15. ~SaveFails(s)
  BY DEF SaveFails
<1> QED
  BY <1>9, <1>10, <1>11, <1>12, <1>13, <1>14, <1>15 DEF SyncStep

LEMMA OrderlyStep == ASSUME TypeOK, Timely, SavesInOrder, Next PROVE SavesInOrder'
<1>1. ASSUME NEW s \in Syncs, UserSyncs(s) PROVE SavesInOrder'
  BY <1>1, OrderlyBegin DEF UserSyncs
<1>2. CASE TimerFires
  <2>1. CASE \E s \in Syncs : BeginSync(s)
    BY <1>2, <2>1, OrderlyBegin DEF TimerFires
  <2>2. CASE isSyncing /\ UNCHANGED <<phase, isSyncing, lastAttempt, orderly>>
    BY <1>2, <2>2 DEF TimerFires, SavesInOrder, Reloads, Progress, UnderWay, memory, fetched, disk
  <2> QED
    BY <1>2, <2>1, <2>2 DEF TimerFires
<1>3. CASE Quit
  BY <1>3 DEF Quit, SavesInOrder
<1>4. CASE Start
  <2> SUFFICES ASSUME orderly' PROVE SavesInOrder'
    BY DEF SavesInOrder
  <2>1. \A s \in Syncs : phase[s] = "idle"
    BY <1>4 DEF Start, Timely
  <2>2. \A s, t \in UnderWay' : s = t
    BY <1>4, <2>1 DEF Start, Goes, UnderWay, Fetching, Saving, TypeOK
  <2>3. \A s \in Syncs : phase'[s] \notin Saving
    BY <1>4, <2>1 DEF Start, Goes, Saving, TypeOK
  <2>4. metaFile # Torn /\ UNCHANGED disk
    BY <1>4 DEF Start
  <2>5. Reloads'
    BY <1>4, <2>4 DEF Start, Load, LoadedList, Reloads, Torn, disk
  <2>6. \A s \in Syncs : Progress(s)'
    BY <2>3 DEF Progress, Saving
  <2> QED
    BY <2>2, <2>5, <2>6 DEF SavesInOrder
<1>5. CASE Tick
  BY <1>5 DEF Tick, SavesInOrder, Reloads, Progress, UnderWay, memory, fetched, disk
<1> QED
  BY <1>1, <1>2, <1>3, <1>4, <1>5, OrderlySyncStep DEF Next

\* Where no two synchronisations met and no save failed, a restart finds what memory holds.
THEOREM RestartsFaithful == Spec => []ReloadGivesMemory
<1>1. Init => SavesInOrder
  BY DEF Init, SavesInOrder
<1>2. SavesInOrder /\ UNCHANGED vars => SavesInOrder'
  BY DEF SavesInOrder, Reloads, Progress, UnderWay, vars, memory, fetched, disk
<1>3. SavesInOrder => ReloadGivesMemory
  <2> SUFFICES ASSUME SavesInOrder, running, orderly, UnderWay = {} PROVE Reloads
    BY DEF ReloadGivesMemory, Reloads
  <2>1. \A s \in Syncs : phase[s] \notin Saving
    BY DEF UnderWay
  <2> QED
    BY <2>1 DEF SavesInOrder
<1> QED
  BY <1>1, <1>2, <1>3, OrderlyStep, TimelyHolds, TypeCorrect, PTL DEF Spec

=============================================================================
