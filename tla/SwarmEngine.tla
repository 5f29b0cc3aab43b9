---------------------------- MODULE SwarmEngine ----------------------------
(***************************************************************************)
(* The torrent table of src/src/main/engine/swarmEngine.ts: the user's IPC  *)
(* handlers, the one second daemon poll (setInterval without a re-entrancy  *)
(* guard, so polls overlap), the awaits inside a download's completion, the *)
(* BitTorrent daemon behind fire-and-forget RPCs, the sharing policy that   *)
(* decides what may seed, the SQLite rows that survive a restart, and the   *)
(* restore that reads them back.                                            *)
(*                                                                          *)
(* JavaScript runs one callback at a time: an action is the code between    *)
(* two awaits.  Tracker announces, events and logging leave no engine state *)
(* and are left out; speeds and byte counts are left out; progressRatio is  *)
(* the boolean "complete".                                                  *)
(***************************************************************************)
EXTENDS Naturals, FiniteSets

CONSTANTS
    Hashes,    \* info hashes the user and the daemon deal with
    Private,   \* those whose path, file name or tags match an excluded pattern
    Polls,     \* polls that may be in flight together
    MaxId,     \* bound: torrent ids the daemon hands out
    MaxOps     \* bound: user operations, package builds and restarts

ASSUME SwarmAssumption ==
    /\ Private \subseteq Hashes
    /\ MaxId \in Nat
    /\ MaxOps \in Nat

VARIABLES
    torrents,    \* activeSwarms: Map<infoHash, SwarmTorrentStatus>
    torrentIds,  \* torrentIds: Map<infoHash, daemon id>; 0 is "no entry"
    manifests,   \* keys of manifests: Map<infoHash, SwarmManifest>
    policy,      \* SharingPolicyManager.policy
    form,        \* the copy of the policy's two lists the settings page holds
    polls,       \* the pollDaemon calls in flight
    adds,        \* addMagnet calls waiting for the daemon's answer
    packages,    \* hashes whose createPackageAndSeed is building its manifest
    daemon,      \* the daemon's torrent list (external)
    lastId,      \* the last id the daemon handed out (external)
    rpcs,        \* fire-and-forget RPCs on their way to the daemon
    db,          \* rows of swarm_transfers on disk
    dbOps,       \* statements handed to sqlite3 and not executed yet
    budget       \* user operations left

engineVars == <<torrents, torrentIds, manifests, policy, form, polls, adds, packages>>
outsideVars == <<daemon, lastId, rpcs, db, dbOps>>
vars == <<engineVars, outsideVars, budget>>

-----------------------------------------------------------------------------
States == {"queued", "downloading", "paused", "seeding", "verifying", "error"}
Modes == {"opt_in_only", "filter_blacklist", "disabled"}

Torrent == [state: States \cup {"absent"}, complete: BOOLEAN, local: BOOLEAN]
Absent == [state |-> "absent", complete |-> FALSE, local |-> FALSE]

\* What torrent-get says of one torrent; id 0 stands for "not listed".
DaemonTorrent == [id: 0..MaxId, status: 0..6, done: BOOLEAN]
Unlisted == [id |-> 0, status |-> 0, done |-> FALSE]

Row == [state: States \cup {"absent"}, local: BOOLEAN, manifest: BOOLEAN]
NoRow == [state |-> "absent", local |-> FALSE, manifest |-> FALSE]

Lists == [optedIn: SUBSET Hashes, blocked: SUBSET Hashes]
Policy == [mode: Modes, autoSeed: BOOLEAN, optedIn: SUBSET Hashes, blocked: SUBSET Hashes]
DefaultPolicy ==
    [mode |-> "opt_in_only", autoSeed |-> FALSE, optedIn |-> {}, blocked |-> {}]

Poll == [phase: {"idle", "waiting", "walking"}, snap: [Hashes -> DaemonTorrent],
         busy: SUBSET Hashes, attached: BOOLEAN]
IdlePoll == [phase |-> "idle", snap |-> [h \in Hashes |-> Unlisted],
             busy |-> {}, attached |-> FALSE]

Add == [phase: {"none", "sent", "answered"}, id: 0..MaxId]
NoAdd == [phase |-> "none", id |-> 0]

Rpc == [op: {"stop", "start", "remove"}, id: 1..MaxId]
DbOp == [op: {"save", "delete"}, hash: Hashes, row: Row]

-----------------------------------------------------------------------------
\* Mutants, named after what they get wrong, stand before the definition they change.
mapDaemonStatusByName(status) ==
    CASE status = 0 -> "stopped"
      [] status \in {1, 3, 5} -> "queued"
      [] status = 2 -> "verifying"
      [] status = 6 -> "seeding"
      [] OTHER -> "downloading"

\* Transmission's status code as a torrent state; an unknown code is downloading.
mapDaemonStatus(status) ==
    CASE status = 0 -> "paused"
      [] status \in {1, 3, 5} -> "queued"
      [] status = 2 -> "verifying"
      [] status = 6 -> "seeding"
      [] OTHER -> "downloading"

\* toggleModelOptIn: adding to one list removes from the other.
OptInList(p, h) ==
    [p EXCEPT !.optedIn = @ \cup {h}, !.blocked = @ \ {h}]
OptOutListKeepsOptIn(p, h) ==
    [p EXCEPT !.blocked = @ \cup {h}]
OptOutList(p, h) ==
    [p EXCEPT !.optedIn = @ \ {h}, !.blocked = @ \cup {h}]

\* evaluateModelSharePermission for a completed download.
CanShare(p, h) ==
    /\ p.mode # "disabled"
    /\ h \notin p.blocked
    /\ h \notin Private
    /\ p.mode = "opt_in_only" => h \in p.optedIn

\* What the poll's own enforcement looks at: neither autoSeedDownloads nor the patterns.
Forbidden(p, h) ==
    \/ p.mode = "disabled"
    \/ h \in p.blocked
    \/ p.mode = "opt_in_only" /\ h \notin p.optedIn

ListsOf(p) == [optedIn |-> p.optedIn, blocked |-> p.blocked]

Known(h) == torrents[h] # Absent

\* activeSwarms.set or .delete: a completion in flight keeps the object it was given,
\* which is no longer the one in the map.
Detach(h) ==
    [p \in Polls |-> IF h \in polls[p].busy
                     THEN [polls[p] EXCEPT !.attached = FALSE] ELSE polls[p]]

\* An RPC is sent only when the engine has an id for the torrent.
Send(op, id) == IF id = 0 THEN {} ELSE {[op |-> op, id |-> id]}

Save(h, t, manifest) ==
    [op |-> "save", hash |-> h,
     row |-> [state |-> t.state, local |-> t.local, manifest |-> manifest]]
Delete(h) == [op |-> "delete", hash |-> h, row |-> NoRow]

Spend == budget > 0 /\ budget' = budget - 1

-----------------------------------------------------------------------------
(* The user's operations (IPC handlers). *)

\* addMagnet up to its await: an unknown hash is offered to the daemon.
AddMagnet(h) ==
    /\ ~Known(h)
    /\ adds[h].phase = "none"
    /\ adds' = [adds EXCEPT ![h].phase = "sent"]
    /\ Spend
    /\ UNCHANGED <<torrents, torrentIds, manifests, policy, form, polls, packages, outsideVars>>

\* addMagnet after its await: the entry is set whatever the map holds by now.  A failed or
\* timed out RPC (phase still "sent") is swallowed and leaves no id.
AddMagnetReturns(h) ==
    /\ adds[h].phase # "none"
    /\ torrents' = [torrents EXCEPT ![h] = [Absent EXCEPT !.state = "queued"]]
    /\ polls' = Detach(h)
    /\ torrentIds' = IF adds[h].id > 0 THEN [torrentIds EXCEPT ![h] = adds[h].id]
                     ELSE torrentIds
    /\ adds' = [adds EXCEPT ![h] = NoAdd]
    /\ UNCHANGED <<manifests, policy, form, packages, outsideVars, budget>>

\* pauseTorrent as the user's IPC reaches it.
UserPauses(h) ==
    /\ Known(h)
    /\ torrents' = [torrents EXCEPT ![h].state = "paused"]
    /\ rpcs' = rpcs \cup Send("stop", torrentIds[h])
    /\ dbOps' = dbOps \cup {Save(h, torrents'[h], FALSE)}
    /\ Spend
    /\ UNCHANGED <<torrentIds, manifests, policy, form, polls, adds, packages, daemon, lastId, db>>

\* resumeTorrent: no policy is consulted.
UserResumes(h) ==
    /\ Known(h)
    /\ torrents' = [torrents EXCEPT
           ![h].state = IF torrents[h].complete THEN "seeding" ELSE "downloading"]
    /\ rpcs' = rpcs \cup Send("start", torrentIds[h])
    /\ dbOps' = dbOps \cup {Save(h, torrents'[h], FALSE)}
    /\ Spend
    /\ UNCHANGED <<torrentIds, manifests, policy, form, polls, adds, packages, daemon, lastId, db>>

\* removeTorrent: what both the IPC handler and the opt-out do to the engine.
Remove(h) ==
    /\ torrents' = [torrents EXCEPT ![h] = Absent]
    /\ polls' = Detach(h)
    /\ torrentIds' = [torrentIds EXCEPT ![h] = 0]
    /\ manifests' = manifests \ {h}
    /\ rpcs' = rpcs \cup Send("remove", torrentIds[h])
    /\ dbOps' = dbOps \cup {Delete(h)}

UserRemoves(h) ==
    /\ Known(h)
    /\ Remove(h)
    /\ Spend
    /\ UNCHANGED <<policy, form, adds, packages, daemon, lastId, db>>

\* sharing:toggleModelShare with optIn false, for a library model whose path is the
\* torrent's savePath: the torrent goes and its hash is blocked.  The page takes the
\* policy in the answer.
UserOptsOut(h) ==
    /\ Known(h) /\ torrents[h].local
    /\ Remove(h)
    /\ policy' = OptOutList(policy, h)
    /\ form' = ListsOf(policy')
    /\ Spend
    /\ UNCHANGED <<adds, packages, daemon, lastId, db>>

\* SettingsView sends only what changed; the page then takes the answer.
UserChangesPolicy(mode, autoSeed) ==
    /\ policy' = [policy EXCEPT !.mode = mode, !.autoSeed = autoSeed]
    /\ form' = ListsOf(policy')
    /\ Spend
    /\ UNCHANGED <<torrents, torrentIds, manifests, polls, adds, packages, outsideVars>>

\* BandwidthView sends its whole copy of the policy, the two lists included.
UserSavesForm(mode, autoSeed) ==
    /\ policy' = [mode |-> mode, autoSeed |-> autoSeed,
                  optedIn |-> form.optedIn, blocked |-> form.blocked]
    /\ Spend
    /\ UNCHANGED <<torrents, torrentIds, manifests, form, polls, adds, packages, outsideVars>>

\* fetchSharingPolicy.
PageRefreshes ==
    /\ form # ListsOf(policy)
    /\ form' = ListsOf(policy)
    /\ UNCHANGED <<torrents, torrentIds, manifests, policy, polls, adds, packages, outsideVars,
                   budget>>

\* createPackageAndSeed (and the package job) up to the await of buildSwarmManifest: the
\* candidate has no id yet, so the two lists of hashes are not looked at.
StartPackage(h) ==
    /\ packages' = packages \cup {h}
    /\ h \notin packages
    /\ policy.mode # "disabled" /\ h \notin Private
    /\ Spend
    /\ UNCHANGED <<torrents, torrentIds, manifests, policy, form, polls, adds, outsideVars>>

\* registerSeedingManifest: the policy is not evaluated again.
RegisterSeeding(h) ==
    /\ h \in packages
    /\ packages' = packages \ {h}
    /\ policy' = OptInList(policy, h)
    /\ manifests' = manifests \cup {h}
    /\ torrents' = [torrents EXCEPT
                        ![h] = [state |-> "seeding", complete |-> TRUE, local |-> TRUE]]
    /\ polls' = Detach(h)
    /\ dbOps' = dbOps \cup {Save(h, torrents'[h], TRUE)}
    /\ UNCHANGED <<torrentIds, form, adds, daemon, lastId, rpcs, db, budget>>

\* buildSwarmManifest throws.
PackageFails(h) ==
    /\ h \in packages
    /\ packages' = packages \ {h}
    /\ UNCHANGED <<torrents, torrentIds, manifests, policy, form, polls, adds, outsideVars, budget>>

-----------------------------------------------------------------------------
(* pollDaemon. *)

\* The request goes out and the daemon answers with its list as it is now; the answer
\* is still on its way.
PollStarts(p) ==
    /\ polls[p].phase = "idle"
    /\ polls' = [polls EXCEPT ![p].phase = "waiting", ![p].snap = daemon]
    /\ UNCHANGED <<torrents, torrentIds, manifests, policy, form, adds, packages, outsideVars, budget>>

\* The answer is lost or timed out, or it lists nothing.
PollSkips(p) ==
    /\ polls[p].phase = "waiting"
    /\ polls' = [polls EXCEPT ![p] = IdlePoll]
    /\ UNCHANGED <<torrents, torrentIds, manifests, policy, form, adds, packages, outsideVars, budget>>

\* The poll after dealing with h: the next torrent of the answer, or the end of the loop.
Walked(p, h) ==
    LET rest == [polls[p].snap EXCEPT ![h] = Unlisted]
    IN  IF \A g \in Hashes : rest[g] = Unlisted THEN IdlePoll
        ELSE [IdlePoll EXCEPT !.phase = "walking", !.snap = rest]

\* The poll is at the torrent h of its answer.
At(p, h) ==
    /\ polls[p].phase # "idle"
    /\ polls[p].busy = {}
    /\ polls[p].snap[h] # Unlisted

JustCompleted(h, dt) == Known(h) /\ ~torrents[h].complete /\ dt.done

\* The torrent as the daemon describes it, before and after the policy is enforced.
PolledKeepingPause(h, dt) ==
    [state |-> IF torrents[h].state = "paused" THEN "paused" ELSE mapDaemonStatus(dt.status),
     complete |-> dt.done, local |-> Known(h) /\ torrents[h].local]
Polled(h, dt) ==
    [state |-> mapDaemonStatus(dt.status), complete |-> dt.done,
     local |-> Known(h) /\ torrents[h].local]

PausesOnceSeeding(h, t) ==
    t.state = "seeding" /\ torrents[h].state # "seeding" /\ Forbidden(policy, h)
Pauses(h, t) == t.state = "seeding" /\ Forbidden(policy, h)

\* One turn of the loop for a torrent that did not just complete: it is added, or
\* overwritten with what the daemon says, and a seeding torrent the policy forbids is
\* paused (pauseTorrent) in the same turn.
PollTorrent(p, h) ==
    LET dt == polls[p].snap[h]
        polled == Polled(h, dt)
        pauses == Pauses(h, polled)
        torrent == IF pauses THEN [polled EXCEPT !.state = "paused"] ELSE polled
    IN  /\ At(p, h)
        /\ ~JustCompleted(h, dt)
        /\ torrentIds' = [torrentIds EXCEPT ![h] = dt.id]
        /\ torrents' = [torrents EXCEPT ![h] = torrent]
        /\ rpcs' = IF pauses THEN rpcs \cup Send("stop", dt.id) ELSE rpcs
        /\ dbOps' = IF pauses THEN dbOps \cup {Save(h, torrent, FALSE)} ELSE dbOps
        /\ polls' = [polls EXCEPT ![p] = Walked(p, h)]
        /\ UNCHANGED <<manifests, policy, form, adds, packages, daemon, lastId, db, budget>>

\* The end of handleDownloadCompleted: autoSeedDownloads and the policy as it is now decide.
SeedsUnlessForbidden(h) == policy.autoSeed /\ ~Forbidden(policy, h)
Seeds(h) == policy.autoSeed /\ CanShare(policy, h)
Settled(h) == IF Seeds(h) THEN "seeding" ELSE "paused"
Settle(h, id) == IF Seeds(h) THEN {} ELSE Send("stop", id)

\* The turn for a torrent that just completed.  contentInspector reads the file without
\* giving up the thread: a rejected file is marked and the daemon is told nothing; a
\* torrent without a manifest is settled in the same turn.  What the loop checks next is
\* implied by CanShare.
PollCompletes(p, h) ==
    LET dt == polls[p].snap[h]
    IN  /\ At(p, h)
        /\ JustCompleted(h, dt)
        /\ torrentIds' = [torrentIds EXCEPT ![h] = dt.id]
        /\ \/ /\ torrents' = [torrents EXCEPT ![h].state = "error", ![h].complete = TRUE]
              /\ UNCHANGED rpcs
           \/ /\ h \notin manifests
              /\ torrents' = [torrents EXCEPT ![h].state = Settled(h), ![h].complete = TRUE]
              /\ rpcs' = rpcs \cup Settle(h, dt.id)
        /\ polls' = [polls EXCEPT ![p] = Walked(p, h)]
        /\ UNCHANGED <<manifests, policy, form, adds, packages, daemon, lastId, db, dbOps, budget>>

\* contentInspector cannot read what the download left: a directory (a torrent of several
\* files), a locked or a vanished file.  Its exception ends the handler before any policy is
\* looked at and the whole poll with it, which pollDaemon's caller swallows; the torrent is
\* complete, so no later poll completes it again.
PollInspectionThrows(p, h) ==
    LET dt == polls[p].snap[h]
    IN  /\ At(p, h)
        /\ JustCompleted(h, dt)
        /\ torrentIds' = [torrentIds EXCEPT ![h] = dt.id]
        /\ torrents' = [torrents EXCEPT ![h].state = mapDaemonStatus(dt.status),
                                        ![h].complete = TRUE]
        /\ polls' = [polls EXCEPT ![p] = IdlePoll]
        /\ UNCHANGED <<manifests, policy, form, adds, packages, outsideVars, budget>>

\* With a manifest the handler awaits registerCompletedDownload, the torrent showing what
\* the daemon says.
PollAwaitsRegistration(p, h) ==
    LET dt == polls[p].snap[h]
    IN  /\ At(p, h)
        /\ JustCompleted(h, dt)
        /\ h \in manifests
        /\ torrentIds' = [torrentIds EXCEPT ![h] = dt.id]
        /\ torrents' = [torrents EXCEPT ![h].state = mapDaemonStatus(dt.status),
                                        ![h].complete = TRUE]
        /\ polls' = [polls EXCEPT ![p].phase = "walking", ![p].busy = {h},
                                  ![p].attached = TRUE]
        /\ UNCHANGED <<manifests, policy, form, adds, packages, outsideVars, budget>>

\* The registration answered, well or not.  The handler writes the object it was given,
\* the map's entry only while attached, and stops the id the map has by now.
CompletionSettles(p, h) ==
    /\ h \in polls[p].busy
    /\ torrents' = IF polls[p].attached THEN [torrents EXCEPT ![h].state = Settled(h)]
                   ELSE torrents
    /\ rpcs' = rpcs \cup Settle(h, torrentIds[h])
    /\ polls' = [polls EXCEPT ![p] = Walked(p, h)]
    /\ UNCHANGED <<torrentIds, manifests, policy, form, adds, packages, daemon, lastId, db, dbOps,
                   budget>>

-----------------------------------------------------------------------------
(* The daemon, its network and the disk (external). *)

\* torrent-add: a known hash answers with its id (torrent-duplicate); the answer may not
\* arrive (id 0).
DaemonAdds(h) ==
    LET fresh == daemon[h] = Unlisted
        id == IF fresh THEN lastId + 1 ELSE daemon[h].id
    IN  /\ adds[h].phase = "sent"
        /\ fresh => lastId < MaxId
        /\ lastId' = IF fresh THEN id ELSE lastId
        /\ daemon' = IF fresh THEN [daemon EXCEPT ![h] = [id |-> id, status |-> 4, done |-> FALSE]]
                     ELSE daemon
        /\ \E arrives \in BOOLEAN :
               adds' = [adds EXCEPT ![h] = [phase |-> "answered", id |-> IF arrives THEN id ELSE 0]]
        /\ UNCHANGED <<torrents, torrentIds, manifests, policy, form, polls, packages, rpcs, db,
                       dbOps, budget>>

\* A download reaches 100 per cent and the daemon goes on to seed it.
DaemonFinishes(h) ==
    /\ daemon[h].status = 4
    /\ daemon' = [daemon EXCEPT ![h].status = 6, ![h].done = TRUE]
    /\ UNCHANGED <<engineVars, lastId, rpcs, db, dbOps, budget>>

\* A torrent's record after an RPC that names its id.
Obey(op, dt) ==
    CASE op = "stop"   -> [dt EXCEPT !.status = 0]
      [] op = "start"  -> [dt EXCEPT !.status = IF dt.done THEN 6 ELSE 4]
      [] op = "remove" -> Unlisted

\* RPCs are separate HTTP requests: executed in any order, an unknown id does nothing.
DaemonExecutes(r) ==
    /\ r \in rpcs
    /\ rpcs' = rpcs \ {r}
    /\ daemon' = [h \in Hashes |-> IF daemon[h].id = r.id THEN Obey(r.op, daemon[h])
                                   ELSE daemon[h]]
    /\ UNCHANGED <<engineVars, lastId, db, dbOps, budget>>

\* Refused, timed out, or the daemon is not there: .catch(() => {}).
RpcLost(r) ==
    /\ r \in rpcs
    /\ rpcs' = rpcs \ {r}
    /\ UNCHANGED <<engineVars, daemon, lastId, db, dbOps, budget>>

\* sqlite3 runs statements of one connection in its thread pool, in no set order; a save
\* without a manifest keeps the one of the row (COALESCE).
DiskWrites(o) ==
    /\ o \in dbOps
    /\ dbOps' = dbOps \ {o}
    /\ db' = [db EXCEPT ![o.hash] =
                  IF o.op = "delete" THEN NoRow
                  ELSE [o.row EXCEPT !.manifest = @ \/ db[o.hash].manifest]]
    /\ UNCHANGED <<engineVars, daemon, lastId, rpcs, budget>>

-----------------------------------------------------------------------------
\* The process ends (crash or quit: nothing is flushed) and starts again: the memory is
\* gone, the policy is the default one, and restorePersistedSwarmTransfers opts in and
\* restores every row whose file is still there, before the window or a poll can act.
Restart ==
    \E found \in SUBSET {h \in Hashes : db[h] # NoRow} :
        /\ torrents' = [h \in Hashes |->
               IF h \in found
               THEN [state |-> db[h].state, complete |-> TRUE, local |-> db[h].local]
               ELSE Absent]
        /\ policy' = [DefaultPolicy EXCEPT !.optedIn = found]
        /\ form' = ListsOf(policy')
        /\ torrentIds' = [h \in Hashes |-> 0]
        /\ manifests' = {h \in found : db[h].local \/ db[h].manifest}
        /\ polls' = [p \in Polls |-> IdlePoll]
        /\ adds' = [h \in Hashes |-> NoAdd]
        /\ packages' = {}
        /\ dbOps' = {}
        /\ Spend
        /\ UNCHANGED <<daemon, lastId, rpcs, db>>

Init ==
    /\ torrents = [h \in Hashes |-> Absent]
    /\ torrentIds = [h \in Hashes |-> 0]
    /\ manifests = {}
    /\ policy = DefaultPolicy
    /\ form = ListsOf(DefaultPolicy)
    /\ polls = [p \in Polls |-> IdlePoll]
    /\ adds = [h \in Hashes |-> NoAdd]
    /\ packages = {}
    /\ daemon = [h \in Hashes |-> Unlisted]
    /\ lastId = 0
    /\ rpcs = {}
    /\ db = [h \in Hashes |-> NoRow]
    /\ dbOps = {}
    /\ budget = MaxOps

UserStep ==
    \/ \E h \in Hashes : \/ AddMagnet(h)
                         \/ UserPauses(h)
                         \/ UserResumes(h)
                         \/ UserRemoves(h)
                         \/ UserOptsOut(h)
                         \/ StartPackage(h)
    \/ \E mode \in Modes, autoSeed \in BOOLEAN : \/ UserChangesPolicy(mode, autoSeed)
                                                 \/ UserSavesForm(mode, autoSeed)
    \/ PageRefreshes

EngineStep ==
    \/ \E h \in Hashes : \/ AddMagnetReturns(h)
                         \/ RegisterSeeding(h)
                         \/ PackageFails(h)
    \/ \E p \in Polls : PollStarts(p) \/ PollSkips(p)
    \/ \E p \in Polls, h \in Hashes : \/ PollTorrent(p, h)
                                      \/ PollCompletes(p, h)
                                      \/ PollInspectionThrows(p, h)
                                      \/ PollAwaitsRegistration(p, h)
                                      \/ CompletionSettles(p, h)

OutsideStep ==
    \/ \E h \in Hashes : DaemonAdds(h) \/ DaemonFinishes(h)
    \/ \E r \in rpcs : DaemonExecutes(r) \/ RpcLost(r)
    \/ \E o \in dbOps : DiskWrites(o)

Next == UserStep \/ EngineStep \/ OutsideStep \/ Restart

Spec == Init /\ [][Next]_vars

\* The poll timer never stops, a request ends at the latest with its five second timeout
\* and a completion's awaits end.  The daemon is assumed to
\* answer some of the polls it is asked again and again, and to execute some of the stops
\* it is sent again and again: the code retries both for ever.
Fairness ==
    /\ \A p \in Polls : WF_vars(PollStarts(p)) /\ WF_vars(PollSkips(p))
    /\ \A p \in Polls, h \in Hashes : WF_vars(CompletionSettles(p, h))
    /\ \A h \in Hashes : SF_vars(\E p \in Polls : \/ PollTorrent(p, h)
                                           \/ PollCompletes(p, h)
                                           \/ PollInspectionThrows(p, h)
                                           \/ PollAwaitsRegistration(p, h))
    /\ \A id \in 1..MaxId : SF_vars(DaemonExecutes([op |-> "stop", id |-> id]))

FairSpec == Spec /\ Fairness

-----------------------------------------------------------------------------
(* Properties. *)

\* Every variable holds what its declaration in swarmEngine.ts says, with the daemon's and
\* the disk's contents of the shape the code reads back.
TypeOK ==
    /\ torrents \in [Hashes -> Torrent]
    /\ torrentIds \in [Hashes -> 0..MaxId]
    /\ manifests \subseteq Hashes
    /\ policy \in Policy
    /\ form \in Lists
    /\ polls \in [Polls -> Poll]
    /\ adds \in [Hashes -> Add]
    /\ packages \subseteq Hashes
    /\ daemon \in [Hashes -> DaemonTorrent]
    /\ lastId \in 0..MaxId
    /\ rpcs \subseteq Rpc
    /\ db \in [Hashes -> Row]
    /\ dbOps \subseteq DbOp
    /\ budget \in 0..MaxOps

\* toggleModelOptIn keeps a hash out of one list when it adds it to the other; updatePolicy
\* takes both lists from a page's copy that may be out of date.  Whatever the order of
\* packaging, opting out, saving and restarting, no hash is in both lists, where blocked
\* would silently win over an opt-in the page shows.
PolicyListsDisjoint == policy.optedIn \cap policy.blocked = {}

\* A download's end: it is not complete yet, or its completion handler is still waiting.
Completing(h) ==
    \/ Known(h) /\ ~torrents[h].complete
    \/ \E p \in Polls : h \in polls[p].busy /\ polls[p].attached

\* The step in which the inspection of a completed download throws.
InspectionThrows(h) == \E p \in Polls : PollInspectionThrows(p, h)

\* However the user changes the policy, packages, removes or adds the model while its
\* completion waits for RenegadeCMM, a download that comes to its end by itself is left
\* seeding only if autoSeedDownloads is on and the model may be shared at that moment, or
\* if the inspection of this very download threw.  That exception is the code's: a handler
\* that throws asks nobody, and what seeds then answers to the poll's weaker check alone
\* (Forbidden), which knows neither autoSeedDownloads nor the excluded patterns.
CompletionRespectsPolicy ==
    [][\A h \in Hashes :
           /\ Completing(h) /\ ~Completing(h)'
           /\ packages' = packages /\ budget' = budget
           /\ torrents'[h].state = "seeding"
           => \/ policy.autoSeed /\ CanShare(policy, h)
              \/ InspectionThrows(h)]_vars

\* Once the policy forbids a hash for good (sharing disabled, blocked, or not opted in),
\* the daemon stops seeding it for good: lost stops, resumes, restarts, stale answers,
\* overlapping polls and polls cut short by an exception only delay it.
ForbiddenEventuallyStopped ==
    \A h \in Hashes : <>[]Forbidden(policy, h) => <>[](daemon[h].status # 6)

\* When the user is done, the state shown for a torrent the daemon lists becomes the
\* daemon's and stays so: answers of overlapping polls applied out of order heal.
ViewConverges ==
    \A h \in Hashes :
        <>[](daemon[h] # Unlisted => torrents[h].state = mapDaemonStatus(daemon[h].status))

=============================================================================
