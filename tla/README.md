# RenegadeSwarm in TLA+

RenegadeSwarm is an Electron desktop application that shares AI model files over BitTorrent. The main process
(TypeScript, one JavaScript thread) keeps a table of torrents in memory, drives a Transmission compatible daemon
through JSON-RPC, stores transfers and the model catalog in SQLite, verifies and inspects what was downloaded, and
decides by a sharing policy what may be seeded. These modules model that process between its `await`s, together with
the daemon, the network, the disk and the user it reacts to.

Line numbers below are those of the files under `src/`; `PROJECT.json` maps every definition to them.

## 1. Inventory

| Component | Source (under `src/src/`) | State | Operations | Talks to |
|---|---|---|---|---|
| Swarm engine | `main/engine/swarmEngine.ts` | `activeSwarms`, `torrentIds`, `manifests` | add, pause, resume, remove, package, register, poll, complete, restore | daemon RPC, policy, trackers, CMM bridge, inspector |
| Daemon RPC client | `main/engine/daemonRpcEngine.ts` | session id | torrent-add/get/start/stop/remove, session-set | the daemon, over HTTP with a timeout |
| Sharing policy | `main/engine/sharingPolicyManager.ts`, `protocol/sharingPolicy.ts` | one policy object | update, toggle a hash, evaluate | engine, IPC, settings pages |
| Quarantine queue | `main/engine/syncQueue.ts`, `contentInspector.ts` | map of items, files in quarantine | enqueue, activate, pause, resume, cancel, complete | piece stream, inspector, CMM bridge |
| Piece stream | `main/engine/pieceStreamEngine.ts` | the `.part` file | write a piece, verify the file | disk |
| Package jobs | `main/engine/packageJobManager.ts`, `manifestBuilder.ts` | one job, its abort controller | start, cancel, clear, pipeline | engine, file hashing |
| Trackers | `main/engine/trackerManager.ts` | active list, blacklist, time of the last synchronisation | init, synchronise, load, save, announce | HTTP lists, UDP/HTTP trackers, disk |
| Discovery | `main/engine/discoveryEngine.ts` | local index, discovered catalog, peers' rate limits | index, search, handle messages, evaluate trust | keyring, peers |
| Keyring | `main/engine/keyringManager.ts`, `secureStorage.ts`, `protocol/keyring.ts` | identity, trusted and blocked keys, lockout | load, save, regenerate, trust, block | disk, OS key store |
| Pre-download verifier | `main/engine/preDownloadVerifier.ts` | none | look a hash up, judge | registries over HTTP, keyring |
| CMM bridge | `main/cmm/cmmDbBridge.ts` | local database, attached CMM database, settings | attach, status, transfers, register, update | SQLite |
| CMM folder router | `main/cmm/cmmFolderRouter.ts` | lists of folders, default, paths the dialogs returned | load, save, add, remove, choose, allow | bridge, engine, settings pages |
| Link to the sister application | `swarmDaemonServer.ts`, `renderer/App.tsx` | the page's budget of checks, what it was last told | check, detect, wake up | CMM's and the own HTTP server |
| Peer choking, bandwidth, DHT limits | `peerManager.ts`, `bandwidthScheduler.ts`, `dhtHardening.ts` | peers and slots; token buckets; query windows | choke rounds, refill, consume, limit | wire protocol |
| Wire protocol, validators | `protocol/*.ts` | none | frame, parse, validate | - |
| HTTP daemon server | `swarmDaemonServer.ts`, `daemonAuthToken.ts` | server, token | start, stop, handle a request | engine, sister application |
| IPC handlers and pages | `main/ipcHandlers.ts`, `renderer/` | pages' copies of main's state | every user operation | all of the above |
| Metadata extractor | `main/metadata/modelMetadataExtractor.ts` | none | ask files beside, header, catalog, CivitAI, Hugging Face; write back | bridge, registries |
| Forms and dialogs | `renderer/components/SeederView.tsx`, `DashboardView.tsx`, `DiscoveryView.tsx` | the form and its lock; the magnet and its verdict; query and results | import, browse, edit, submit; type, verify; search | IPC |
| Shell, telemetry | `main/index.ts`, `tray.ts`, `telemetry/` | windows, logs | start, quit, log | - |

Some of these are not wired into the running application yet: `SyncQueueManager`, `PieceStreamEngine`, `PeerManager`,
`BandwidthScheduler.consumeBandwidth`, `DhtHardeningManager`, the wire protocol and the peer side of discovery have
tests, but no production code calls them. They are modelled as what they offer to a caller: any order of the calls
their signatures allow.

### What is hard in this program

There is one thread, but almost every operation has an `await` in it, so that operations interleave at their awaits:
the poll of the daemon is started by `setInterval` every second without waiting for the one before; the completion of
a download waits for the CMM database; `addMagnet` waits for the daemon; a package is hashed for minutes between the
check of the policy and the registration. RPCs to the daemon are fired and their failures swallowed, SQLite statements
are handed over and not awaited, and nothing is flushed when the process ends. What makes each component correct:

* **Swarm engine and policy**: nothing is seeded that the policy forbids, at least in the long run; what the user
  asked for (removed, paused, blocked) is not undone by a stale answer; the table agrees with the daemon in the long
  run; a restart brings back only what the user allowed.
* **Quarantine queue**: nothing enters the library that was not verified and inspected, whatever overlaps; every item
  ends in a final state.
* **Piece stream**: a written piece stays written.
* **Package jobs**: one job at a time; a cancelled job never registers.
* **Trackers**: the lists in memory are filtered by the blacklist they came with; synchronisation never stops for
  good.
* **Discovery and keyring**: a blocked key is never shown as trusted; the lockout cannot be avoided; a key once stored
  is not lost.
* **Announces**: trackers list what is active and hear no more of what is not, in the long run.
* **CMM bridge and folders**: the flag does not claim an attachment there is not; a changed path takes effect; the
  saved settings and those in use agree in the long run; a CMM that is there is found, one that goes is noticed.
* **Metadata and the form**: the nearest source's word counts; what is locked as verified is of the file to be
  packaged.
* **Pages that ask while the user types** (magnet, search): what is shown is of what is typed.
* **Limits**: a window, bucket or slot count is never exceeded, and nobody starves.

`PROJECT.json` lists every hazard at its line, with the properties that cover it or why none does yet. Some properties
except what the code leaves open, and say nothing of the hazard there: `AttemptedRecently` and `TrackersFollow` while
a cut-off response hangs; the identity's and the lockout's on a disk that cuts a write off; `FormFollowsFile` for an
import answered after a dialog; `GrantedWithinBudget` counts the millisecond each call earns as earned; and
`VerdictOfInput` is of the magnet, not of the keyring, which may have changed since the verdict.

## 2. Modules

| Module | Models |
|---|---|
| `SwarmEngine` | the engine, its policy, the pages' copy of the policy, the daemon, RPCs, rows on disk |
| `SwarmEngineHistory` | `SwarmEngine` with a history variable, for what the repository's docs say of the past |
| `SwarmEngineProofs` | theorems about `SwarmEngine` |
| `MCSwarmEngine` | `SwarmEngine` for TLC |
| `SyncQueue`, `MCSyncQueue` | the quarantine queue, the files it moves, the inspection |
| `PieceStream` | `writePiece`: open, write, close |
| `SyncQueueProofs` | theorems about `SyncQueue` |
| `Keyring`, `KeyringProofs` | the creators' keys, the signing identity and its lockout, their two files and the key store; theorems |
| `PackageSpec` | what packaging promises: jobs one at a time, each ending once, seeding only by its own end |
| `PackageJob` | the packaging job, its pipeline and what the window is told; it implements `PackageSpec` |
| `PackagePage`, `PackageProofs` | `PackageJob` composed with the page, its requests and the messages to it; theorems about both |
| `TrackerManager`, `TrackerManagerProofs` | the tracker list and its blacklist, their synchronisation, files and timer; theorems |
| `Announces` | what the trackers are told: announces of operations and of sweeps over a snapshot, UDP and HTTP, cut-off answers |
| `BandwidthScheduler` | the token buckets, their refill by elapsed time and the change of a limit |
| `DhtHardening` | the window of queries and bytes, the pinned swarms |
| `MCNetwork`, `NetworkProofs` | `BandwidthScheduler`, `DhtHardening` and `Announces` in one instance for TLC; theorems about it |
| `CmmBridge` | ATTACH, DETACH, status checks, registrations and a changing path |
| `CmmFolders` | the router's lists, their loading, saving and use by dialogs and handlers |
| `SisterLink` | the page that looks for CMM, its budget, and the server that CMM wakes |
| `MetadataExtractor` | the order of the sources, what each field is taken from, the write-back |
| `SeederForm` | the form of the packaging page |
| `MCCmm`, `CmmProofs` | these five in one instance for TLC; theorems about it |
| `Discovery` | the search: catalog, cache, messages of peers, waiting searches, the page |
| `PreDownload` | the verification before a download and the dialog that asks for it |
| `PeerManager` | peers, upload slots, choke rounds |
| `MCDiscovery`, `DiscoveryProofs` | these three in one instance for TLC; theorems about it |

### SwarmEngine

An action is the code between two awaits. `torrents`, `torrentIds` and `manifests` are the engine's three maps;
`policy` is `SharingPolicyManager`'s object and `form` the copy that `BandwidthView` holds and sends back as a whole.
A poll (`polls[p]`) is the daemon's answer it is walking through (`snap`, from which every torrent it dealt with is
taken out), the hash whose completion it awaits (`busy`), and whether the object that completion holds is still the
one in the table (`attached`). `RegisterSeeding`, `AddMagnetReturns` and `Remove` put another object into the table or
take it out, so they detach.

* `handleDownloadCompleted` contains two awaits. `contentInspector.inspectFile` is an async function without an await
  of its own: its continuation runs before any other callback, so that it is not an interleaving point. It may throw
  (a directory, a file it may not open), which ends the handler and the poll: `PollInspectionThrows`.
  `registerCompletedDownload` is one, and is only reached with a manifest. Hence `PollCompletes` (one step) and
  `PollAwaitsRegistration` / `CompletionSettles` (two).
* `daemon`, `rpcs` and `lastId` are the daemon as the RPC client uses it. Every fire-and-forget RPC is a separate HTTP
  request: executed in any order (`DaemonExecutes`) or lost (`RpcLost`).
* `db` and `dbOps` are the rows of `swarm_transfers` and the statements sqlite3 was handed and has not executed, in no
  set order.
* `Restart` ends the process at any point and runs the constructor and `restorePersistedSwarmTransfers`.
* `Private` is the set of hashes whose path, name or tags match an excluded pattern. Patterns are strings; that a
  model matches one is decided once.

### SyncQueue

An item is an object in `items`; `queue` maps a hash to the item it has now, as the `Map` does. A call of
`handleDownloadComplete` keeps the item it looked up. The `.part` file belongs to the hash, not to the item.
`VerifyReads` is the moment the SHA-256 stream has read the file, and the code after the `await` is
`InspectionRejects`, `RenameFails` or `Promotes`, each one step, because inspection, rename and companion assets are
synchronous; an inspection that throws stands outside the handler's `try` and ends it as the item is
(`InspectionThrows`). `matched` and `unread` (the items so left) are history variables.

### PieceStream

`writePiece` opens with `w+`, writes at the piece's offset and closes, each behind an await.

### Keyring

Every operation of `KeyringManager` is synchronous, so that an operation and its write are one step, and all of what
is hard lies in starts. `ring` is `KeyringEngine.entries`, `ringFile` and `idFile` are the two files. `vault` is the
operating system's key store, which `secureStorage.ts` asks every time: while it is closed an identity is loaded
without its private key, and a renaming then writes it back without. `FaultyDisk` says whether a `writeFileSync` may
be refused or cut off; both exceptions are swallowed by the code, and a process that dies while it writes is a torn
write and then a `Restart`. `Restart` is `initStorage`: what throws while the keyring is read ends the loading of the
identity too. Keys are model values; an identity is the number of its key pair and whether its private half is there.

### TrackerManager

`phase[s]` is where a call of `syncTrackers` is: two fetches, then an open (which truncates) and a write for each of
the three files, each behind an await. Forced calls overlap with others; the timer's are skipped while `isSyncing`.
`FetchHangs` is the response that is cut off, which settles no promise: the error of such a response is dropped where
nobody listens to it, `isSyncing` stays set and the timer's synchronisations are skipped until the next restart or
forced one, the exception in `AttemptedRecently`. `Load` is what both `loadFromDisk` functions do: the metadata first,
and what does not parse ends the loading. A list is the set of trackers it names, a blacklist the set of trackers it
matches; a file that is not there reads like an empty one. The clock ticks in hours, what is fetched or saved ends
within a tick.

### PackageJob and PackagePage

The pipeline gives way only while it hashes a file: the inspections are async functions without an await of their own,
and `buildSwarmManifest` awaits only where it has to hash a preview that appeared after its turn (`latePreview`). An
abort destroys the stream and rejects its promise, and what follows are microtasks, so that `CancelJob` is one step
with the end of the pipeline. `pipeline[j]` is what job `j` awaits; that it belongs to the job shown (`job`) and to
the controller held (`controller`) is the invariant `JobShown` and not built in: `Reaches` writes into whatever job is
current, as `updateJobState` does. `registered` stands for the calls of `registerSeedingManifest`, which is
`SwarmEngine`'s `RegisterSeeding`. Consecutive broadcasts of equal snapshots are one, and progress is a broadcast of
the unchanged snapshot.

`PackagePage` puts `SeederView`'s state (`active`, `packaging`, `created`, `error`), the requests and the messages
around it. `ipcRenderer.invoke` and `webContents.send` use one ordered channel of the frame, so each direction is a
queue; that is Electron's behaviour, not this repository's. A mount has a number, because the answer to an earlier
mount sets the state of a component that is gone. `clearJob` broadcasts `null`, on which the page's callback throws
after it has set the active job: the rest of its state stays (`ShowsProgress`).

What the packaging page does *not* promise, and no property states: while a job runs, the progress bar may be gone for
a moment, when an attempt to start another job is refused or a cancellation of an earlier one is answered; the next
broadcast brings it back. After a restart the job is gone without an outcome; ROADMAP.md:12 asks that packaging
survive application restarts.

The three `MC` modules that gather several parts exist for TLC: `part` says which of the parts a behaviour moves. The
parts meet only through inputs (whether CMM is there, what is extracted of a file, what the keyring says) and share no
variable, so that moving two of them in one behaviour would add no state of either. Their constants have no values
but in the configurations; what is assumed of them is named (`NetworkAssumption`, `CmmAssumption`, `FindAssumption`,
beside the parts' own assumptions) and is all that the theorems rest on.

### Announces

A sweep (`announceAllActiveSwarms`) takes the active torrents of the table once and then, torrent after torrent,
awaits the announces to every tracker; the user's announces are waited for by nobody. `announces` holds those under
way: the UDP connect, the announce, its answer, or "hung" for an HTTP answer cut off, on which `fetchBinary` never
settles. `listed` is what a tracker believes; it takes what arrives in any order.

### BandwidthScheduler and DhtHardening

Bytes are counted in units that make each limit a whole number of units per millisecond, so that no token is a
fraction. Every call refills for one millisecond at least (`Math.max(0.001, ...)`), which `refills` counts; `granted`,
`start` and `since` are history. A limit of zero is unlimited in code and model. `DhtHardening` has the one counter of
queries and bytes whose window begins with the first query after the last window's end; `passed` is history, the bytes
let through up to each moment.

### CmmBridge and CmmFolders

`attached` is what SQLite has attached, `isAttached` what the code believes. A call (`calls[c]`) goes through the
request to CMM's server, DETACH, ATTACH, its query and the update of the transfer, each behind an await. That an
ATTACH of a name in use is taken for a success is `AttachSucceeds`.

`CmmFolders` has the sets of folders of the router, the settings in the database with the statements not yet written,
and the loads of the pages: `cmm:getStatus` configures the router, reads the settings in two awaits and applies them,
while folders are added, removed and chosen. `sessionDialogPaths` lets what a dialog returned pass. A path is a member
of a small tree (`Above`).

### SisterLink, MetadataExtractor and SeederForm

`SisterLink` is the part of `App.tsx` that polls CMM until its budget is spent, the calls under way (an answer may
come after a later call's), and the wakeup that CMM's start sends to the own server, which is lost before the page
listens or while the server has not started. `cmmConnected` is both the badge and what the polls go by: every render
copies the state into `cmmConnectedRef` (`App.tsx:166`), so that auto-detection and saved settings change it too.

`MetadataExtractor` walks `extractMetadata`: the files beside the model and its path, the header, the catalog, the
hash, then, only if something is missing, the registries, and the preview. A field is known by the source its value
came from; `offers` is what the sources have, `heard` (history) which of them answered, in their order. What a parser
makes of bytes is outside.

`SeederForm` has the form's fields, the lock and the verified copy that a restore brings back. The dialogs are not
modal and the extraction of an import runs beside them. A field is known by the file its text is of.

### Discovery, PreDownload and PeerManager

An entry is what a manifest or a message says of a model, known by the key it names as the creator's and by whether
that key signed it: `Trust` judges entries, not models, by the keyring of the moment they arrive, and two peers may
tell of one model differently. A query is the set of entries it matches and the filter on verified creators. `search`
answers at once without peers, and otherwise waits in `pendingQueries` for its time-out, collecting what
`handleInboundMessage` brings, of which the last word on a model counts; `discoveredCache` evicts the one seen longest
ago. The page starts a search whenever the query changes and shows every answer. `known` and `doubted` of a search
are history: what it would have shown when it began, and of which models a peer last told without a verified creator
while it waited.

`PreDownload` asks two registries, then lets signature and keyring decide, behind awaits; `DashboardView` starts a
check 400 ms after each edit and drops the answers of checks its effect has cleaned up. Manifests come with requests
of other callers of the handler.

`PeerManager` is the table of sessions. Rounds (`recalculateChokeSlots`) rank the interested peers of a torrent,
downloaders by what they give, seeds by what they take, and give the optimistic slot at random to one of the rest.

## 3. Runs

| Run | Shows |
|---|---|
| `swarm_overlap` | liveness of the enforcement and of the table, under `FairSpec`, with two overlapping polls |
| `swarm_policy` | the policy's lists and the end of a download whose inspection does not throw, with two torrents, one of them private |
| `swarm_permission` | a statement of the repository the code does not keep (section 6) |
| `sync_queue` | what reaches the library, what `Verified` means, that validation ends unless an inspection throws |
| `sync_queue_promotion`, `piece_stream` | two more such statements |
| `keyring` | blocks, the identity and the lockout over imports, restarts and closed key stores, on a disk that writes |
| `trackers` | the flag, the filtering, what a restart finds, and the rhythm of the synchronisations |
| `package_page` | the packaging jobs, that they implement `PackageSpec`, that they end, and what the page shows of them |
| `network` | what a bucket grants over any stretch of time, what passes a DHT window around its boundary, that trackers follow the table |
| `cmm` | the flag of the attachment and that a changed path takes effect, that folder settings converge, that the page follows CMM, whose word metadata are, and that the locked form is of its file |
| `discovery` | that a search loses nothing but what its filter then doubts, and is shown for its query, that a verdict is the input's own, that slots go to the fastest and everyone gets a turn |

### Bounds and why they are enough

* `Hashes`: one for what concerns one torrent (entries of the maps are independent, but for the policy, which
  `swarm_policy` covers with two, and the walk of a poll, which visits them in any order).
* `Polls`: two make one answer older than the other; a third adds no new order between two answers.
* `MaxId`: two ids let a torrent be removed and added again, so that a late stop names an id that is gone. With `MaxId
  = 1` (`swarm_policy`) a second add of a torrent the daemon removed is not answered.
* `MaxOps`: user operations, package builds and restarts share one budget of two or three: enough for remove-then-add,
  package-then-opt-out, save-of-an-old-form and one restart after any of them. The counterexamples of section 6 need
  at most three.
* `MaxItems = 3`: an honest and a hostile item, one of them enqueued a second time.

* `Keyring`: three keys, one default root, one placeholder, one neither: the three ways a start treats a key. `Lockout
  = 2` of `MaxNow = 3` ticks makes a generation too early, in time and late. Four operations are a generation, a
  renaming with the key store closed, a restart and another generation. The clock does not go back.
* `TrackerManager`: two synchronisations overlap in every way a third would; one built-in tracker and another, and
  published lists that are full, partial or empty, give every outcome of the filter. `Interval = 2` with six ticks
  reaches past two intervals. Three forced synchronisations or ends of the process. With both calls hung no further
  one can begin (a bound: the code has no such limit), and the clock stops at the next firing of the timer.

* `PackagePage`: two jobs are one that may be late and one that must not suffer from it; ids are given out once, so
  that a third adds none of its own. Two mounts, two requests and two messages under way (a broadcast that begins may
  bring up to four more): an answer to an earlier mount, a click between a request and its answer, and an answer older
  than a broadcast all happen.

* `network`: a second of two milliseconds and a limit of one: three bytes are more than the first bucket holds, and
  two calls in one millisecond are paid twice. A DHT window of two ticks, with packets of one and of all three bytes,
  has the boundary in every position up to tick four. One torrent, a UDP and an HTTP tracker, one sweep and two
  operations: a sweep older than a pause, and a resume that overtakes it. Torrents do not interact in a sweep, beyond
  the waiting that the hung answer has.
* `cmm`: two databases and two overlapping calls give every order of two DETACH/ATTACH pairs; one download. A folder
  inside another and one of the operating system; two loads and two changes. Two calls of the page and a budget of
  three: fewer overlap than the budget, on which `PageFollowsCmm` depends. Each source of metadata offers all it can
  or nothing (the files beside the model also a part), and a second extraction finds what the first wrote back. Two
  files, two dialogs, five steps of the user: an import, two dialogs, an unlock and an edit.
* `discovery`: two models with a cache for one, of the first two entries, of which one names no key; a creator whom
  the keyring may know in every way; one query for all, one for verified creators; one peer whose second message in a
  second is dropped, two searches, four operations: a creator trusted, a search that waits, an answer with another
  key. Two magnets, two manifests, three edits: `VerdictOfInput` says that checking ends once the edits do, not that
  it keeps up with a user who never stops typing. Three peers for one slot and the optimistic one, a fourth of another
  torrent for the limit of connections.

`network`, `cmm` and `discovery` stop with their bounds and are checked without deadlock detection. `trackers` stops
with the clock's bound. `MCSyncQueue` is checked without deadlock detection: when every item is settled and no further
one may be created (a bound), nothing is left to do. `PieceStream`, `SwarmEngine` and `PackagePage` never stop.

## 4. Fairness

* `PollStarts`, `PollSkips`: the timer never stops, and a request ends at the latest with its timeout.
* `CompletionSettles`: `registerCompletedDownload` ends in an answer or an error.
* The turns of a poll at a torrent are strongly fair: the daemon is assumed to answer *some* of the polls. A daemon
  that never answers is one the engine can do nothing about.
* `DaemonExecutes` of a stop is strongly fair: of stops sent again and again some arrive. The code sends one with
  every poll that finds a forbidden torrent seeding.
* `SyncQueue`: what a call waits for (a file stream, a database statement) ends.

* `PackagePage`: the main process serves requests, messages arrive, and a hash ends or fails (`Serve`, `Deliver`,
  `Works`); a file on a drive that never answers is outside.

* `Announces`: the minute timer fires, a sweep goes on, an announce settles for who waits for it (time-outs), unless
  its answer was cut off; of announces sent again and again to a tracker some get through (strong fairness).
* `CmmBridge`: a call goes on (time-outs, statements that end); as long as the page is told "connected" it checks
  again and again; of the attaches of a file that is there some succeed.
* `CmmFolders`: sqlite3 executes what it was handed, the page loads its status again and a load goes on. `SisterLink`:
  calls are answered, the page polls while its budget lasts, and CMM's wakeup gets through where somebody listens.
* `PreDownload`: the debounce ends and each request ends with its time-out of four seconds.
* `PeerManager`: `Math.random` picks each candidate for the optimistic slot now and then (strong fairness of
  `TurnOf`); the rounds come every time the timer fires.

Nothing is assumed of the user, of the disk's writes (but for the order in `CmmFolders`) or of restarts.

## 5. Proofs

`SwarmEngineProofs` proves, for every set of hashes, polls and every bound (`SwarmAssumption` is all that is assumed
of the constants):

* `TypeCorrect`: `Spec => []TypeOK`. One lemma per group of actions; helpers (`Walked`, `Detach`, `Polled`, `Obey`,
  `Settle`) have typing lemmas of their own.
* `ListsStayDisjoint`: `Spec => []PolicyListsDisjoint`. The property is not inductive: `UserSavesForm` takes both
  lists from the page's copy. The invariant `ListsDisjoint` adds that the copy's lists are disjoint, which holds
  because a page only ever takes over a whole policy.
* `CompletionsRespectPolicy`: `Spec => CompletionRespectsPolicy`. It needs `OneAtATime`: a poll waits for at most one
  completion and only while walking. Then a step that replaces one torrent's entry detaches no other's completion, and
  a poll that begins or skips ends none. The proof goes through the five turns of a poll (`TurnEnds`), of which the
  one whose inspection throws is the exception that the property names (`InspectionThrows`, section 6); every other
  step either leaves the completion waiting (`StillCompleting`) or is the user's own.

`SyncQueueProofs` (`TypeCorrect`, `OnlyMatchedPromoted`, `HostileStaysOut`, `VerifiedMeansPresent`,
`ValidatingAttended`):

* `Points`: what `queue` and the calls point at exists and has their hash; without it a step on an item says nothing
  of the file of its hash.
* `ReadsMatched`: a call that has read its file and found it matching has its hash in `matched`; with it
  `PromotedOnceMatched` is inductive.
* `HostileNeverPromoted` needs no history: inspection and rename are one step.
* `RegisteringInLibrary`: a call that waits for the registration has put its file into the library; with it
  `VerifiedIsInLibrary` is inductive, as nothing takes a file out of the library.
* `Attended`: an item shows Validating only while a call is at work on it, or it is in `unread`. It is the half of
  `ValidatingEnds` that needs no fairness.

`KeyringProofs` (`TypeCorrect` for every disk; `BlocksSurvive`, `IdentitySurvives`, `LockoutHolds` where
`~FaultyDisk`): a restart replaces memory by the files, so the invariants say of `ringFile` and `idFile` what the
properties say of `ring` and `identity` (`RulingsKept`, `Durable`); `IdsBounded` bounds the number of identities by
the budget spent, for the types.

`TrackerManagerProofs` (`TypeCorrect`, `FlagHonest`, `BlacklistHeeded`, `AttemptsRecur`, `RestartsFaithful`):

* `Plain`: the flag and the fallback are inductive as they stand, together with the types.
* `Timely`: no time of a success is later than the last attempt, a call under way began in this tick, and the timer is
  due less than two intervals after the last attempt. A start without a synchronisation is the case that needs it: the
  success it found on disk is less than one interval old, and its timer fires one interval later.
* `SavesInOrder`: of one orderly save, which of the three files already holds what memory holds.

`PackageProofs`, for any number of jobs, mounts, requests and messages under way; first of the manager on its own
(`TypeCorrect`, `JobShownTruthfully`, `OneAtATime`):

* `JobShown` is inductive together with the types; `OnePipeline` is what it says at a step of a pipeline.
* `OneAtATime` is the refinement `Spec => Package!Spec`. `StateOf` reads a job's abstract state off its pipeline, the
  registrations and the ids given out. A start is `Begin` (or `Falter`, when the file goes at that moment), completion
  is `Seed`, every failure, cancellation and end of the process `Fail`; all else stutters. `JobShown` is needed where
  cancelling aborts the pipeline of `controller`, which has to be the one that is shown.

then of the manager with its page (`JobPartAlone`, `PageTypeCorrect`, `PageJobShown`, `PageOneAtATime`,
`OutcomeShown`):

* `JobPartAlone`: every step of the two is one of the manager or leaves it alone; the types of the requests are needed
  for it, as the manager's specification only answers mounts there can be and only cancels ids it can have given.
* `OutcomeShown`: `PageShowsOutcome` speaks of states in which nothing is under way, and is not inductive. The
  invariant `PageInv` says what is true on the way there. Of each of the four things the page shows (the job, the
  manifest, the error, the bar) it says that it *settles*: among the messages under way one that sets it right comes
  after every one that sets it wrong, or none that sets it wrong is under way and it is right already (`Settles`); or
  else a request of this page that will be answered so is (`Pending`). `LastIsJob` and `EndTold` say the same of the
  broadcasts alone, for the page that is mounted next. After every step that changes the job the last broadcast is the
  new job, which settles everything at once (`JobAnnounced`, `Announced`); every other step appends one answer
  (`AnswerSettles`), takes one message (`DeliverSettles`) or changes what is asked (`MountSettles`, `ClickSettles`).
  Clearing has its own lemma, since its broadcast is of no job. The one order that could break it, an answer to
  `startJob` older than a broadcast, names the same job, which is what `JobAnnounced` allows after the broadcast.

`NetworkProofs`, for every limit, second, window and number of bytes (`TypeCorrect`, `BudgetKept` of the scheduler on
its own; `PartsAlone`, `NetworkTypeCorrect`, `NetworkBudgetKept`, `TwoBudgetsAtMost` of the composite):

* `GrantedWithinBudget` is inductive when what is left in the bucket is counted with what was granted. A refill adds
  the limit times the time that passed, one millisecond at least, and the clamp only takes away; the products are
  abbreviated and hidden, as they are not linear.
* `TwoBudgetsAtMost`: `AnyWindowWithinTwoBudgets` looks at stretches that begin and end anywhere. `DhtInv` adds that
  the counter covers what passed since its window began (`CounterCovers`), that what passed in any shorter stretch up to
  that beginning is within one budget (`OneBudgetBefore`), and that after the window's end nothing passes until the
  next one begins (`QuietAfter`): so a stretch never gets a share of three windows' budgets.

`CmmProofs`, for any number of calls, databases, folders, files and dialogs (`TypeCorrect`, `FlagHonest` of the bridge
on its own; `CmmPartsAlone`, `CmmTypeCorrect`, `CmmFlagHonest`, `NearestKept`, `VerifiedIsOfFile` of the composite):

* `CallsFollow`: a call that detaches or attaches has a database to attach, and one that marks a transfer has
  registered it.
* `FlagHonest`: a call at DETACH or ATTACH excuses the flag; only `attachDirect` takes a call from there, and it sets
  what is attached, finds it set, or clears the flag. A download marked as synced is in a catalog since its call was
  at "update", and no catalog shrinks.
* `CmmTypeCorrect`: the statements handed to sqlite3 are at most two for each operation on folders (`FolderInv`), and
  the page's budget does not fall below zero.
* `NearestKept`: `NearestWins` speaks of the end of an extraction. `ExtractInv` says of every place before it that a
  field holds the word of the first of the sources asked so far that had one (`NearestSoFar`), which each later source
  leaves alone.
* `VerifiedIsOfFile`: `FormInv` adds to `FormFollowsFile` what a restore would bring back, that nothing is under way on
  a page that is gone, and that until an import is answered its form is there or the file is not: the user who packages
  another model meanwhile is the case that needs it. No file is called "closed" (`CmmAssumption`).

`DiscoveryProofs`, for any models, peers, queries, magnets and slots (`FindTypeCorrect`, `PageShows`, `SlotsKept`,
`VerdictIsTyped`, `VerdictOnceItComes`):

* `PageShows`: `PageShowsFound` is about the search that was shown last. `SearchInv` says it of every search that
  still waits (`WaitingKeeps`: what was known when it began is among its results, or with the filter on among what
  was doubted since) and that the youngest of them, if
  none overtook it, is of the query typed (`YoungestIsTyped`).
* `SlotsKept`: the counts of peers and of those served are kept by every step as cardinalities of finite sets, with
  at most one optimistic peer per torrent; that the fastest come first is a fact of the one step that gives slots.
* `VerdictIsTyped` is the safety half of `VerdictOfInput`: at most one of the checks under way is still heard, and it
  is of the magnet typed (`OneHeard`). `VerdictOnceItComes` adds that nothing but the fairness of the checks is
  missing for the whole.

Every invariant that a passing run checks is stated by a theorem, and so is every action property. Only model-checked
are the liveness properties, which need fairness (`ForbiddenEventuallyStopped`, `ViewConverges`, `ValidatingEnds`,
`PackagingEnds`, `TrackersFollow`, `AttachmentHeals`, `FoldersConverge`, `PageFollowsCmm`, `EveryoneGetsATurn`, the
second half of `VerdictOfInput`), and the three runs that end in a violation.

## 6. Statements the code does not keep

Three are runs with `expect: violation`; `PROJECT.json` quotes the statement.

1. `OptedInOnceGranted`: the restore opts in every persisted row, and pausing a torrent writes one.
2. `PromotedIsWhole`: the rename takes the bytes that are there after the verification's read.
3. `WrittenPiecesStay`: opening with `w+` empties the file.

Others were met while modelling. The models contain the behaviour; no property asks for the statement, and where a
property would be broken by it, its exception says so.

* `swarmEngine.ts:506`: a poll's answer made before `removeTorrent` puts the torrent back into the table
  (`PollTorrent`), against tests/optInAutoSeed.test.ts:190, which tests removal without a poll under way.
* `swarmEngine.ts:535`: the poll after a failed inspection overwrites `error` with the daemon's `seeding`, against
  README.md:94 (files stay quarantined until the inspection clears them).
* `swarmEngine.ts:589`: `inspectFile` opens what the download left without a `try`; a directory (a torrent of several
  files) or a file it may not read makes the completion handler and the poll reject, which `swarmEngine.ts:72`
  swallows. The torrent stays as the daemon has it, seeding, with neither `autoSeedDownloads` nor the patterns asked,
  against README.md:119 ("never seeded without explicit user permission"). Later polls take it as completed before;
  what stops it is their weaker check alone (`Forbidden`: sharing disabled, blocked, not opted in where that is the
  mode), of which `ForbiddenEventuallyStopped` speaks. `PollInspectionThrows` has the behaviour, and
  `CompletionRespectsPolicy` excepts the step.
* `syncQueue.ts:203`: the same inspection stands before the `try` of `handleDownloadComplete`; its exception leaves
  the item "Validating" until it is cancelled or completed again (`InspectionThrows`, the exception in
  `ValidatingEnds`).
* `discoveryEngine.ts:224`, `:453`: of two answers about one model the last counts, whatever its trust. With "Verified
  Creators Only" on, a peer's answer that names no key or another one makes a model vanish that was known, in cache or
  among the own torrents, as a verified creator's (`Answered`, `Ranked`; the second case in `PageShowsFound`).
* `dhtHardening.ts:152` and `:168`, README.md:105, docs/ARCHITECTURE.md:132 and docs/PRIVACY_POLICY.md:47 promise less
  than 5 KB/s for the DHT. The counter is of windows that follow each other, and lets through just 5 KB in each: a
  second that lies across a boundary may carry twice that, which is all that `AnyWindowWithinTwoBudgets` says.
* docs/ARCHITECTURE.md:250-252: choking rounds are said to come every ten seconds and to go by the speed of the last
  twenty. `peerManager.ts:195` has one timer, of thirty seconds, for regular and optimistic slots, and
  `recordPeerTransfer` (`:128`) sets a peer's speed to the bytes of its last transfer. `PeerManager` is the code's.
* `keyringManager.ts:122`: a write of the identity that is cut off leaves a file that does not parse; the next start
  has no identity and hence no lockout, against README.md:121. `Keyring` with `FaultyDisk = TRUE` has these
  behaviours; the run `keyring` and the three theorems are about a disk that writes.
* `cmmDbBridge.ts:692`: `COALESCE(?, column)` replaces a value whenever there is a new one, against CHANGELOG.md:89,
  which says that existing customizations are kept (`CmmTakes`).
* `SeederView.tsx:240`: an import that is answered after a dialog sets the fields, but not the file: the lock then
  says "verified" of a form of another file (`overtaken`, the exception in `FormFollowsFile`).
* `swarmDaemonServer.ts:65` logs "Retrying" for a port in use and does not; a later `start()` returns as if the server
  ran (`SisterLink`'s "failed").
* `ROADMAP.md:12`: packaging does not survive a restart. `PRIVACY_POLICY.md:132`: discovered models do not expire,
  they are only evicted. `PRIVACY_POLICY.md:123`: the discovery catalog indexes every active torrent, opted in or not.
* A preview whose body never ends keeps the extraction, and with it the form's button, for ever:
  `downloadAndCachePreview` clears its time-out before it reads the body. A restart of the form after another tab
  never restores type, base model and version (`MountAgain`).

## 7. What is left out, and the plan

Left out for good: the contents of files and messages, cryptography (a library's), packet layout, path strings,
windows and layout of the pages, the log and the telemetry (nothing reads their state), the parsing of headers, web
pages and images, node ids of the DHT bound to addresses (a pure function of bytes), the wire protocol's encoding
(without state, and no code sends a message yet). `SettingsView` and `AboutView` are presentation around operations
modelled elsewhere.

Left out of single modules:

* `SwarmEngine`: a restart of the daemon (it renumbers its torrents), torrents other programs add to it, editing the
  excluded patterns, the 409 handshake of the RPC session, `session-set`.
* `Keyring`: names and notes, the test-only software sealing. `TrackerManager`: encodings, the ceiling of 100 trackers
  (it cuts a list), the validation of URLs.
* `BandwidthScheduler`: the ratio limit. `CmmBridge`: `close()` at the end of the process, the tables of CivitAI's
  models and versions, the installer, a DETACH that fails as locked, a status check that ends in its `catch`
  (`cmmDbBridge.ts:303`, which clears the flag) or waits for a request that never settles (`:145`); a later check
  attaches in each of these cases but the last. `CmmFolders`: the folder per model type.
* `SisterLink`: the server's token, its limit on requests and the routes that only forward to components modelled
  elsewhere.
* `Discovery`: titles, scores, statistics, the order of results; type and base model are part of what a query matches.
  `PreDownload`: what a registry tells of a model.

Planned, in this order:

1. The refinements worth stating: a library that only ever receives verified files (`SyncQueue` implements it); a list
   that is replaced as a whole (`TrackerManager` without overlaps).
2. The RPC client's handshake: two clients that invalidate each other's session id, a retry without a bound
   (`daemonRpcEngine.ts:136`).
3. `Discovery` composed with `Keyring`, so that a verdict is compared with the keyring's state of the time it is
   shown.
4. The restart of the daemon under the engine's `torrentIds`.

Theorems planned: the two refinements above.
