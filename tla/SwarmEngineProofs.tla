------------------------- MODULE SwarmEngineProofs -------------------------
(***************************************************************************)
(* Proofs about SwarmEngine, for every set of hashes and polls and every    *)
(* bound: the types, and that the two lists of the sharing policy stay      *)
(* disjoint.                                                                *)
(***************************************************************************)
EXTENDS SwarmEngine, TLAPS

-----------------------------------------------------------------------------
(* The helpers and the types. *)

LEMMA ConstantsTyped ==
    /\ Absent \in Torrent
    /\ Unlisted \in [id: {0}, status: {0}, done: {FALSE}]
    /\ NoRow \in Row
    /\ DefaultPolicy \in Policy
    /\ ListsOf(DefaultPolicy) \in Lists
BY DEF Absent, Unlisted, NoRow, DefaultPolicy, ListsOf, Modes, Torrent, Row, Policy, Lists

LEMMA StatusTyped == \A status \in 0..6 : mapDaemonStatus(status) \in States
BY DEF mapDaemonStatus, States

LEMMA UnlistedTyped == Unlisted \in DaemonTorrent /\ NoAdd \in Add
BY SwarmAssumption DEF Unlisted, NoAdd, DaemonTorrent, Add

LEMMA IdlePollTyped == IdlePoll \in Poll
BY UnlistedTyped DEF IdlePoll, Poll

LEMMA SendTyped ==
    ASSUME NEW op \in {"stop", "start", "remove"}, NEW id \in 0..MaxId
    PROVE  Send(op, id) \subseteq Rpc
BY SwarmAssumption DEF Send, Rpc

LEMMA SaveTyped ==
    ASSUME NEW h \in Hashes, NEW t \in Torrent, NEW manifest \in BOOLEAN
    PROVE  Save(h, t, manifest) \in DbOp /\ Delete(h) \in DbOp
BY ConstantsTyped DEF Save, Delete, DbOp, Row, Torrent

LEMMA TogglesTyped ==
    ASSUME NEW p \in Policy, NEW h \in Hashes
    PROVE  /\ OptInList(p, h) \in Policy
           /\ OptOutList(p, h) \in Policy
BY DEF OptInList, OptOutList, Policy

LEMMA ListsOfTyped ==
    ASSUME NEW p \in Policy
    PROVE  ListsOf(p) \in Lists
BY DEF ListsOf, Policy, Lists

LEMMA WalkedTyped ==
    ASSUME TypeOK, NEW p \in Polls, NEW h \in Hashes
    PROVE  Walked(p, h) \in Poll
BY IdlePollTyped, UnlistedTyped DEF TypeOK, Walked, IdlePoll, Poll

LEMMA DetachTyped ==
    ASSUME TypeOK, NEW h \in Hashes
    PROVE  Detach(h) \in [Polls -> Poll]
<1>1. \A p \in Polls : polls[p] \in Poll /\ [polls[p] EXCEPT !.attached = FALSE] \in Poll
  BY DEF TypeOK, Poll
<1> QED
  BY <1>1 DEF Detach

LEMMA PolledTyped ==
    ASSUME TypeOK, NEW h \in Hashes, NEW dt \in DaemonTorrent
    PROVE  Polled(h, dt) \in Torrent
BY StatusTyped DEF TypeOK, Polled, Known, Torrent, DaemonTorrent

LEMMA ObeyTyped ==
    ASSUME NEW dt \in DaemonTorrent, NEW r \in Rpc
    PROVE  Obey(r.op, dt) \in DaemonTorrent
BY UnlistedTyped DEF Obey, Rpc, DaemonTorrent

LEMMA InitTyped == Init => TypeOK
BY ConstantsTyped, UnlistedTyped, IdlePollTyped, SwarmAssumption DEF Init, TypeOK

-----------------------------------------------------------------------------
(* The steps and the types. *)

LEMMA SpendTyped ==
    ASSUME TypeOK, Spend
    PROVE  budget' \in 0..MaxOps
BY SwarmAssumption DEF TypeOK, Spend

LEMMA UserOperationsTyped ==
    ASSUME TypeOK, NEW h \in Hashes,
           AddMagnet(h) \/ UserPauses(h) \/ UserResumes(h) \/ StartPackage(h)
    PROVE  TypeOK'
<1>0. torrents[h] \in Torrent /\ torrentIds[h] \in 0..MaxId /\ budget' \in 0..MaxOps
  BY SpendTyped DEF TypeOK, AddMagnet, UserPauses, UserResumes, StartPackage
<1>1. CASE AddMagnet(h)
  BY <1>0, <1>1 DEF TypeOK, AddMagnet, outsideVars, Add
<1>2. CASE UserPauses(h)
  <2>1. torrents' \in [Hashes -> Torrent] /\ torrents'[h] \in Torrent
    BY <1>0, <1>2 DEF TypeOK, UserPauses, States, Torrent
  <2>2. dbOps' \subseteq DbOp
    BY <1>2, <2>1, SaveTyped DEF TypeOK, UserPauses
  <2>3. rpcs' \subseteq Rpc
    BY <1>0, <1>2, SendTyped DEF TypeOK, UserPauses
  <2> QED
    BY <1>0, <1>2, <2>1, <2>2, <2>3 DEF TypeOK, UserPauses
<1>3. CASE UserResumes(h)
  <2>1. torrents' \in [Hashes -> Torrent] /\ torrents'[h] \in Torrent
    BY <1>0, <1>3 DEF TypeOK, UserResumes, States, Torrent
  <2>2. dbOps' \subseteq DbOp
    BY <1>3, <2>1, SaveTyped DEF TypeOK, UserResumes
  <2>3. rpcs' \subseteq Rpc
    BY <1>0, <1>3, SendTyped DEF TypeOK, UserResumes
  <2> QED
    BY <1>0, <1>3, <2>1, <2>2, <2>3 DEF TypeOK, UserResumes
<1>4. CASE StartPackage(h)
  BY <1>0, <1>4 DEF TypeOK, StartPackage, outsideVars
<1> QED
  BY <1>1, <1>2, <1>3, <1>4

\* removeTorrent, with or without the opt-out's change of the policy.
LEMMA RemovalsTyped ==
    ASSUME TypeOK, NEW h \in Hashes, UserRemoves(h) \/ UserOptsOut(h)
    PROVE  TypeOK'
<1>0. Remove(h) /\ budget' \in 0..MaxOps
  BY SpendTyped DEF UserRemoves, UserOptsOut
<1>1. torrents' \in [Hashes -> Torrent] /\ polls' \in [Polls -> Poll]
  BY <1>0, ConstantsTyped, DetachTyped DEF TypeOK, Remove
<1>2. torrentIds' \in [Hashes -> 0..MaxId] /\ manifests' \subseteq Hashes
  BY <1>0, SwarmAssumption DEF TypeOK, Remove
<1>3. rpcs' \subseteq Rpc
  BY <1>0, SendTyped DEF TypeOK, Remove
<1>4. dbOps' \subseteq DbOp
  BY <1>0, SaveTyped, ConstantsTyped DEF TypeOK, Remove
<1>5. policy' \in Policy /\ form' \in Lists
  BY TogglesTyped, ListsOfTyped DEF TypeOK, UserRemoves, UserOptsOut
<1> QED
  BY <1>0, <1>1, <1>2, <1>3, <1>4, <1>5 DEF TypeOK, UserRemoves, UserOptsOut

LEMMA PolicyChangesTyped ==
    ASSUME TypeOK, NEW mode \in Modes, NEW autoSeed \in BOOLEAN,
           UserChangesPolicy(mode, autoSeed) \/ UserSavesForm(mode, autoSeed)
    PROVE  TypeOK'
<1>1. CASE UserChangesPolicy(mode, autoSeed)
  <2>1. policy' \in Policy
    BY <1>1 DEF TypeOK, UserChangesPolicy, Policy
  <2> QED
    BY <1>1, <2>1, ListsOfTyped, SpendTyped DEF TypeOK, UserChangesPolicy, outsideVars
<1>2. CASE UserSavesForm(mode, autoSeed)
  <2>1. policy' \in Policy
    BY <1>2 DEF TypeOK, UserSavesForm, Policy, Lists
  <2> QED
    BY <1>2, <2>1, SpendTyped DEF TypeOK, UserSavesForm, outsideVars
<1> QED
  BY <1>1, <1>2

LEMMA RefreshTyped ==
    ASSUME TypeOK, PageRefreshes
    PROVE  TypeOK'
BY ListsOfTyped DEF TypeOK, PageRefreshes, outsideVars

LEMMA ReturnsTyped ==
    ASSUME TypeOK, NEW h \in Hashes,
           AddMagnetReturns(h) \/ RegisterSeeding(h) \/ PackageFails(h)
    PROVE  TypeOK'
<1>1. CASE AddMagnetReturns(h)
  <2>1. torrents' \in [Hashes -> Torrent]
    BY <1>1 DEF TypeOK, AddMagnetReturns, Torrent, Absent, States
  <2>2. torrentIds' \in [Hashes -> 0..MaxId] /\ adds' \in [Hashes -> Add]
    BY <1>1, UnlistedTyped DEF TypeOK, AddMagnetReturns, Add
  <2> QED
    BY <1>1, <2>1, <2>2, DetachTyped DEF TypeOK, AddMagnetReturns, outsideVars
<1>2. CASE RegisterSeeding(h)
  <2>1. torrents' \in [Hashes -> Torrent] /\ torrents'[h] \in Torrent
    BY <1>2 DEF TypeOK, RegisterSeeding, Torrent, States
  <2>2. dbOps' \subseteq DbOp
    BY <1>2, <2>1, SaveTyped DEF TypeOK, RegisterSeeding
  <2>3. policy' \in Policy
    BY <1>2, TogglesTyped DEF TypeOK, RegisterSeeding
  <2> QED
    BY <1>2, <2>1, <2>2, <2>3, DetachTyped DEF TypeOK, RegisterSeeding
<1>3. CASE PackageFails(h)
  BY <1>3 DEF TypeOK, PackageFails, outsideVars
<1> QED
  BY <1>1, <1>2, <1>3

LEMMA PollEndsTyped ==
    ASSUME TypeOK, NEW p \in Polls, PollStarts(p) \/ PollSkips(p)
    PROVE  TypeOK'
<1>1. CASE PollStarts(p)
  <2>1. [polls[p] EXCEPT !.phase = "waiting", !.snap = daemon] \in Poll
    BY DEF TypeOK, Poll
  <2>2. polls' = [polls EXCEPT ![p] = [polls[p] EXCEPT !.phase = "waiting", !.snap = daemon]]
    BY <1>1 DEF TypeOK, PollStarts
  <2> QED
    BY <1>1, <2>1, <2>2 DEF TypeOK, PollStarts, outsideVars
<1>2. CASE PollSkips(p)
  BY <1>2, IdlePollTyped DEF TypeOK, PollSkips, outsideVars
<1> QED
  BY <1>1, <1>2

\* What a turn of the poll's loop reads.
LEMMA TurnTyped ==
    ASSUME TypeOK, NEW p \in Polls, NEW h \in Hashes
    PROVE  /\ polls[p] \in Poll
           /\ torrents[h] \in Torrent
           /\ polls[p].snap[h] \in DaemonTorrent
           /\ polls[p].snap[h].id \in 0..MaxId
           /\ polls[p].snap[h].status \in 0..6
           /\ mapDaemonStatus(polls[p].snap[h].status) \in States
<1>1. polls[p] \in Poll /\ torrents[h] \in Torrent
  BY DEF TypeOK
<1>2. polls[p].snap[h] \in DaemonTorrent
  BY <1>1 DEF Poll
<1>3. polls[p].snap[h].id \in 0..MaxId /\ polls[p].snap[h].status \in 0..6
  BY <1>2 DEF DaemonTorrent
<1> QED
  BY <1>1, <1>2, <1>3, StatusTyped

LEMMA PollTorrentTyped ==
    ASSUME TypeOK, NEW p \in Polls, NEW h \in Hashes, PollTorrent(p, h)
    PROVE  TypeOK'
<1> DEFINE dt == polls[p].snap[h]
           polled == Polled(h, dt)
           pauses == Pauses(h, polled)
           torrent == IF pauses THEN [polled EXCEPT !.state = "paused"] ELSE polled
<1>1. polled \in Torrent /\ dt.id \in 0..MaxId
  BY TurnTyped, PolledTyped
<1>2. torrent \in Torrent
  BY <1>1 DEF Torrent, States
<1>3. torrents' \in [Hashes -> Torrent] /\ torrentIds' \in [Hashes -> 0..MaxId]
  BY <1>1, <1>2 DEF TypeOK, PollTorrent
<1>4. rpcs' \subseteq Rpc
  BY <1>1, SendTyped DEF TypeOK, PollTorrent
<1>5. dbOps' \subseteq DbOp
  BY <1>2, SaveTyped DEF TypeOK, PollTorrent
<1>6. polls' \in [Polls -> Poll]
  BY WalkedTyped DEF TypeOK, PollTorrent
<1> QED
  BY <1>3, <1>4, <1>5, <1>6 DEF TypeOK, PollTorrent

LEMMA SettleTyped ==
    ASSUME NEW h \in Hashes, NEW id \in 0..MaxId
    PROVE  Settled(h) \in States /\ Settle(h, id) \subseteq Rpc
BY SendTyped DEF Settled, Settle, States

LEMMA PollCompletesTyped ==
    ASSUME TypeOK, NEW p \in Polls, NEW h \in Hashes, PollCompletes(p, h)
    PROVE  TypeOK'
<1> DEFINE dt == polls[p].snap[h]
<1>1. torrents[h] \in Torrent /\ dt.id \in 0..MaxId
  BY TurnTyped
<1>2. torrents' \in [Hashes -> Torrent]
  <2>1. "error" \in States /\ Settled(h) \in States
    BY <1>1, SettleTyped DEF States
  <2> QED
    BY <1>1, <2>1 DEF TypeOK, PollCompletes, Torrent
<1>3. torrentIds' \in [Hashes -> 0..MaxId]
  BY <1>1 DEF TypeOK, PollCompletes
<1>4. rpcs' \subseteq Rpc
  BY <1>1, SettleTyped DEF TypeOK, PollCompletes
<1>5. polls' \in [Polls -> Poll]
  BY WalkedTyped DEF TypeOK, PollCompletes
<1> QED
  BY <1>2, <1>3, <1>4, <1>5 DEF TypeOK, PollCompletes

\* The torrent as a completion shows it while its end is open, or for good after an exception.
LEMMA ShownTyped ==
    ASSUME TypeOK, NEW p \in Polls, NEW h \in Hashes,
           torrents' = [torrents EXCEPT ![h].state = mapDaemonStatus(polls[p].snap[h].status),
                                        ![h].complete = TRUE]
    PROVE  torrents' \in [Hashes -> Torrent]
<1> DEFINE shown == mapDaemonStatus(polls[p].snap[h].status)
<1>1. torrents[h] \in Torrent /\ shown \in States
  BY TurnTyped
<1>2. [torrents[h] EXCEPT !.state = shown, !.complete = TRUE] \in Torrent
  BY <1>1 DEF Torrent
<1>3. torrents' = [torrents EXCEPT ![h] = [torrents[h] EXCEPT !.state = shown, !.complete = TRUE]]
  BY DEF TypeOK
<1> HIDE DEF shown
<1> QED
  BY <1>2, <1>3 DEF TypeOK

LEMMA InspectionThrowsTyped ==
    ASSUME TypeOK, NEW p \in Polls, NEW h \in Hashes, PollInspectionThrows(p, h)
    PROVE  TypeOK'
<1>1. torrents' \in [Hashes -> Torrent]
  BY ShownTyped DEF PollInspectionThrows
<1>2. torrentIds' \in [Hashes -> 0..MaxId]
  BY TurnTyped DEF TypeOK, PollInspectionThrows
<1>3. polls' \in [Polls -> Poll]
  BY IdlePollTyped DEF TypeOK, PollInspectionThrows
<1> QED
  BY <1>1, <1>2, <1>3 DEF TypeOK, PollInspectionThrows, outsideVars

LEMMA CompletionTyped ==
    ASSUME TypeOK, NEW p \in Polls, NEW h \in Hashes,
           PollAwaitsRegistration(p, h) \/ CompletionSettles(p, h)
    PROVE  TypeOK'
<1>1. CASE PollAwaitsRegistration(p, h)
  <2>1. torrents' \in [Hashes -> Torrent]
    BY <1>1, ShownTyped DEF PollAwaitsRegistration
  <2>2. torrentIds' \in [Hashes -> 0..MaxId]
    BY <1>1, TurnTyped DEF TypeOK, PollAwaitsRegistration
  <2>3. polls' \in [Polls -> Poll]
    <3> DEFINE waiting == [polls[p] EXCEPT !.phase = "walking", !.busy = {h}, !.attached = TRUE]
    <3>1. waiting \in Poll
      BY TurnTyped DEF Poll
    <3>2. polls' = [polls EXCEPT ![p] = waiting]
      BY <1>1 DEF TypeOK, PollAwaitsRegistration
    <3> QED
      BY <3>1, <3>2 DEF TypeOK
  <2> QED
    BY <1>1, <2>1, <2>2, <2>3 DEF TypeOK, PollAwaitsRegistration, outsideVars
<1>2. CASE CompletionSettles(p, h)
  <2>1. torrentIds[h] \in 0..MaxId
    BY DEF TypeOK
  <2>2. torrents' \in [Hashes -> Torrent]
    BY <1>2, <2>1, SettleTyped DEF TypeOK, CompletionSettles, Torrent
  <2>3. rpcs' \subseteq Rpc
    BY <1>2, <2>1, SettleTyped DEF TypeOK, CompletionSettles
  <2>4. polls' \in [Polls -> Poll]
    BY <1>2, WalkedTyped DEF TypeOK, CompletionSettles
  <2> QED
    BY <1>2, <2>2, <2>3, <2>4 DEF TypeOK, CompletionSettles
<1> QED
  BY <1>1, <1>2

LEMMA DaemonTyped ==
    ASSUME TypeOK, NEW h \in Hashes, DaemonAdds(h) \/ DaemonFinishes(h)
    PROVE  TypeOK'
<1>1. CASE DaemonAdds(h)
  <2> DEFINE fresh == daemon[h] = Unlisted
             id == IF fresh THEN lastId + 1 ELSE daemon[h].id
  <2>1. daemon[h].id \in 0..MaxId /\ lastId \in 0..MaxId
    BY DEF TypeOK, DaemonTorrent
  <2>2. id \in 0..MaxId
    BY <1>1, <2>1, SwarmAssumption DEF DaemonAdds
  <2>3. lastId' \in 0..MaxId
    BY <1>1, <2>1, <2>2 DEF DaemonAdds
  <2>4. daemon' \in [Hashes -> DaemonTorrent]
    BY <1>1, <2>2 DEF TypeOK, DaemonAdds, DaemonTorrent
  <2>5. adds' \in [Hashes -> Add]
    BY <1>1, <2>2, SwarmAssumption DEF TypeOK, DaemonAdds, Add
  <2> QED
    BY <1>1, <2>3, <2>4, <2>5 DEF TypeOK, DaemonAdds
<1>2. CASE DaemonFinishes(h)
  <2>1. [daemon[h] EXCEPT !.status = 6, !.done = TRUE] \in DaemonTorrent
    <3>1. daemon[h] \in DaemonTorrent /\ 6 \in 0..6
      BY DEF TypeOK
    <3> QED
      BY <3>1 DEF DaemonTorrent
  <2>2. daemon' = [daemon EXCEPT ![h] = [daemon[h] EXCEPT !.status = 6, !.done = TRUE]]
    BY <1>2 DEF TypeOK, DaemonFinishes
  <2> QED
    BY <1>2, <2>1, <2>2 DEF TypeOK, DaemonFinishes, engineVars
<1> QED
  BY <1>1, <1>2

LEMMA RpcsTyped ==
    ASSUME TypeOK, NEW r \in rpcs, DaemonExecutes(r) \/ RpcLost(r)
    PROVE  TypeOK'
<1>1. daemon' \in [Hashes -> DaemonTorrent]
  BY ObeyTyped DEF TypeOK, DaemonExecutes, RpcLost
<1> QED
  BY <1>1 DEF TypeOK, DaemonExecutes, RpcLost, engineVars

LEMMA DiskTyped ==
    ASSUME TypeOK, NEW o \in dbOps, DiskWrites(o)
    PROVE  TypeOK'
<1>1. o.hash \in Hashes /\ o.row \in Row /\ db[o.hash] \in Row
  BY DEF TypeOK, DbOp
<1>2. [o.row EXCEPT !.manifest = @ \/ db[o.hash].manifest] \in Row
  BY <1>1 DEF Row
<1>3. db' \in [Hashes -> Row]
  BY <1>1, <1>2, ConstantsTyped DEF TypeOK, DiskWrites
<1> QED
  BY <1>3 DEF TypeOK, DiskWrites, engineVars

LEMMA RestartTyped ==
    ASSUME TypeOK, Restart
    PROVE  TypeOK'
<1>1. PICK found \in SUBSET {h \in Hashes : db[h] # NoRow} :
          /\ torrents' = [h \in Hashes |->
                 IF h \in found
                 THEN [state |-> db[h].state, complete |-> TRUE, local |-> db[h].local]
                 ELSE Absent]
          /\ policy' = [DefaultPolicy EXCEPT !.optedIn = found]
          /\ manifests' = {h \in found : db[h].local \/ db[h].manifest}
  BY DEF Restart
<1>2. torrents' \in [Hashes -> Torrent]
  BY <1>1, ConstantsTyped DEF TypeOK, Torrent, Row
<1>3. policy' \in Policy
  BY <1>1 DEF DefaultPolicy, Policy, Modes
<1>4. form' \in Lists
  BY <1>3, ListsOfTyped DEF Restart
<1>5. polls' \in [Polls -> Poll] /\ adds' \in [Hashes -> Add]
  BY IdlePollTyped, UnlistedTyped DEF Restart
<1>6. torrentIds' \in [Hashes -> 0..MaxId]
  BY SwarmAssumption DEF Restart
<1>7. budget' \in 0..MaxOps
  BY SpendTyped DEF Restart
<1> QED
  BY <1>1, <1>2, <1>3, <1>4, <1>5, <1>6, <1>7 DEF TypeOK, Restart

-----------------------------------------------------------------------------
\* Every step keeps every variable in its type, whatever the hashes, polls and bounds.
THEOREM TypeCorrect == Spec => []TypeOK
<1>1. Init => TypeOK
  BY InitTyped
<1>2. TypeOK /\ [Next]_vars => TypeOK'
  <2> SUFFICES ASSUME TypeOK, [Next]_vars PROVE TypeOK'
    OBVIOUS
  <2>1. CASE UserStep
    <3>1. ASSUME NEW h \in Hashes,
                 \/ AddMagnet(h) \/ UserPauses(h) \/ UserResumes(h) \/ StartPackage(h)
                 \/ UserRemoves(h) \/ UserOptsOut(h)
          PROVE  TypeOK'
      BY <3>1, UserOperationsTyped, RemovalsTyped
    <3>2. ASSUME NEW mode \in Modes, NEW autoSeed \in BOOLEAN,
                 UserChangesPolicy(mode, autoSeed) \/ UserSavesForm(mode, autoSeed)
          PROVE  TypeOK'
      BY <3>2, PolicyChangesTyped
    <3>3. CASE PageRefreshes
      BY <3>3, RefreshTyped
    <3> QED
      BY <2>1, <3>1, <3>2, <3>3 DEF UserStep
  <2>2. CASE EngineStep
    BY <2>2, ReturnsTyped, PollEndsTyped, PollTorrentTyped, PollCompletesTyped,
       InspectionThrowsTyped, CompletionTyped
    DEF EngineStep
  <2>3. CASE OutsideStep
    BY <2>3, DaemonTyped, RpcsTyped, DiskTyped DEF OutsideStep
  <2>4. CASE Restart
    BY <2>4, RestartTyped
  <2>5. CASE UNCHANGED vars
    BY <2>5 DEF TypeOK, vars, engineVars, outsideVars
  <2> QED
    BY <2>1, <2>2, <2>3, <2>4, <2>5 DEF Next
<1> QED
  BY <1>1, <1>2, PTL DEF Spec

-----------------------------------------------------------------------------
\* The turns of a poll's loop at the torrent h.
Turns(p, h) ==
    \/ PollTorrent(p, h)
    \/ PollCompletes(p, h)
    \/ PollInspectionThrows(p, h)
    \/ PollAwaitsRegistration(p, h)
    \/ CompletionSettles(p, h)

(* The two lists of the policy.  The page's copy comes back with the next form, so the  *)
(* invariant has to hold of that copy too.                                              *)
ListsDisjoint ==
    /\ policy.optedIn \cap policy.blocked = {}
    /\ form.optedIn \cap form.blocked = {}

LEMMA TogglesDisjoint ==
    ASSUME NEW p \in Policy, NEW h \in Hashes, p.optedIn \cap p.blocked = {}
    PROVE  /\ OptInList(p, h).optedIn \cap OptInList(p, h).blocked = {}
           /\ OptOutList(p, h).optedIn \cap OptOutList(p, h).blocked = {}
BY DEF OptInList, OptOutList, Policy

LEMMA ListsDisjointInductive == TypeOK /\ ListsDisjoint /\ [Next]_vars => ListsDisjoint'
<1> SUFFICES ASSUME TypeOK, ListsDisjoint, [Next]_vars PROVE ListsDisjoint'
  OBVIOUS
<1>0. policy \in Policy
  BY DEF TypeOK
<1>1. CASE UNCHANGED <<policy, form>>
  BY <1>1 DEF ListsDisjoint
<1>2. ASSUME NEW h \in Hashes, UserOptsOut(h) PROVE ListsDisjoint'
  BY <1>0, <1>2, TogglesDisjoint DEF ListsDisjoint, UserOptsOut, ListsOf
<1>3. ASSUME NEW h \in Hashes, RegisterSeeding(h) PROVE ListsDisjoint'
  BY <1>0, <1>3, TogglesDisjoint DEF ListsDisjoint, RegisterSeeding
<1>4. ASSUME NEW mode \in Modes, NEW autoSeed \in BOOLEAN, UserChangesPolicy(mode, autoSeed)
      PROVE  ListsDisjoint'
  BY <1>0, <1>4 DEF ListsDisjoint, UserChangesPolicy, ListsOf, Policy
<1>5. ASSUME NEW mode \in Modes, NEW autoSeed \in BOOLEAN, UserSavesForm(mode, autoSeed)
      PROVE  ListsDisjoint'
  BY <1>5 DEF ListsDisjoint, UserSavesForm
<1>6. CASE PageRefreshes
  BY <1>6 DEF ListsDisjoint, PageRefreshes, ListsOf
<1>7. CASE Restart
  <2>1. PICK found \in SUBSET Hashes : policy' = [DefaultPolicy EXCEPT !.optedIn = found]
    BY <1>7 DEF Restart
  <2>2. form' = ListsOf(policy')
    BY <1>7 DEF Restart
  <2> QED
    BY <2>1, <2>2 DEF ListsDisjoint, ListsOf, DefaultPolicy
<1>8. CASE UserStep
  BY <1>8, <1>1, <1>2, <1>4, <1>5, <1>6
  DEF UserStep, AddMagnet, UserPauses, UserResumes, UserRemoves, StartPackage
<1>9. CASE EngineStep
  <2>1. ASSUME NEW h \in Hashes, AddMagnetReturns(h) \/ PackageFails(h) PROVE ListsDisjoint'
    BY <2>1, <1>1 DEF AddMagnetReturns, PackageFails
  <2>2. ASSUME NEW p \in Polls, PollStarts(p) \/ PollSkips(p) PROVE ListsDisjoint'
    BY <2>2, <1>1 DEF PollStarts, PollSkips
  <2>3. ASSUME NEW p \in Polls, NEW h \in Hashes, Turns(p, h) PROVE ListsDisjoint'
    <3>1. UNCHANGED <<policy, form>>
      BY <2>3
      DEF Turns, PollTorrent, PollCompletes, PollInspectionThrows, PollAwaitsRegistration,
          CompletionSettles
    <3> QED
      BY <3>1, <1>1
  <2> QED
    BY <1>9, <1>3, <2>1, <2>2, <2>3 DEF EngineStep, Turns
<1>10. CASE OutsideStep
  BY <1>10, <1>1
  DEF OutsideStep, DaemonAdds, DaemonFinishes, DaemonExecutes, RpcLost, DiskWrites, engineVars
<1>11. CASE UNCHANGED vars
  BY <1>11, <1>1 DEF vars, engineVars
<1> QED
  BY <1>7, <1>8, <1>9, <1>10, <1>11 DEF Next

\* However packaging, opting out, saving a form that is out of date and restarting
\* interleave, no hash is both opted in and blocked.
THEOREM ListsStayDisjoint == Spec => []PolicyListsDisjoint
<1>1. Init => ListsDisjoint
  BY DEF Init, ListsDisjoint, ListsOf, DefaultPolicy
<1>2. ListsDisjoint => PolicyListsDisjoint
  BY DEF ListsDisjoint, PolicyListsDisjoint
<1> QED
  BY <1>1, <1>2, ListsDisjointInductive, TypeCorrect, PTL DEF Spec

-----------------------------------------------------------------------------
(* What a download's end may do.  A poll's loop is at one torrent at a time, so at most  *)
(* one completion of it waits: Detach touches no other one.                              *)
OneAtATime ==
    \A p \in Polls :
        /\ \A g, h \in polls[p].busy : g = h
        /\ polls[p].phase # "walking" => polls[p].busy = {}

LEMMA WalkedBusy ==
    ASSUME NEW p \in Polls, NEW h \in Hashes
    PROVE  Walked(p, h).busy = {}
BY DEF Walked, IdlePoll

LEMMA DetachBusy ==
    ASSUME TypeOK, NEW h \in Hashes, NEW p \in Polls
    PROVE  Detach(h)[p].busy = polls[p].busy
BY DEF TypeOK, Detach, Poll

LEMMA TurnBusy ==
    ASSUME TypeOK, NEW p \in Polls, NEW h \in Hashes, Turns(p, h)
    PROVE  /\ \/ polls'[p].busy = {h} /\ polls'[p].phase = "walking" /\ polls'[p].attached
              \/ polls'[p].busy = {}
           /\ \A q \in Polls \ {p} : polls'[q] = polls[q]
<1>1. polls[p] \in Poll /\ polls \in [Polls -> Poll]
  BY DEF TypeOK
<1>2. CASE PollAwaitsRegistration(p, h)
  <2> DEFINE waiting == [polls[p] EXCEPT !.phase = "walking", !.busy = {h}, !.attached = TRUE]
  <2>1. polls' = [polls EXCEPT ![p] = waiting]
    BY <1>1, <1>2 DEF PollAwaitsRegistration
  <2>2. waiting.busy = {h} /\ waiting.phase = "walking" /\ waiting.attached
    BY <1>1 DEF Poll
  <2> QED
    BY <1>1, <2>1, <2>2
<1>3. CASE ~PollAwaitsRegistration(p, h)
  <2>1. polls' = [polls EXCEPT ![p] = Walked(p, h)] \/ polls' = [polls EXCEPT ![p] = IdlePoll]
    BY <1>3 DEF Turns, PollTorrent, PollCompletes, PollInspectionThrows, CompletionSettles
  <2> QED
    BY <1>1, <2>1, WalkedBusy DEF IdlePoll
<1> QED
  BY <1>2, <1>3

\* The steps that leave every poll's wait as it is, detached or not.
LEMMA PollsUntouched ==
    ASSUME TypeOK, OneAtATime,
           \A p \in Polls : polls'[p].busy = polls[p].busy /\ polls'[p].phase = polls[p].phase
    PROVE  OneAtATime'
BY DEF OneAtATime

LEMMA PollEnds ==
    ASSUME TypeOK, OneAtATime, NEW p \in Polls, PollStarts(p) \/ PollSkips(p)
    PROVE  /\ polls[p].busy = {} /\ polls'[p].busy = {}
           /\ \A q \in Polls \ {p} : polls'[q] = polls[q]
<1>1. polls \in [Polls -> Poll] /\ polls[p] \in Poll /\ polls[p].busy = {}
  BY DEF TypeOK, OneAtATime, PollStarts, PollSkips
<1>2. CASE PollStarts(p)
  <2>1. polls' = [polls EXCEPT ![p] = [polls[p] EXCEPT !.phase = "waiting", !.snap = daemon]]
    BY <1>1, <1>2 DEF PollStarts
  <2>2. [polls[p] EXCEPT !.phase = "waiting", !.snap = daemon].busy = {}
    BY <1>1 DEF Poll
  <2> QED
    BY <1>1, <2>1, <2>2
<1>3. CASE PollSkips(p)
  BY <1>1, <1>3 DEF PollSkips, IdlePoll
<1> QED
  BY <1>2, <1>3

LEMMA OneAtATimeInductive == TypeOK /\ OneAtATime /\ [Next]_vars => OneAtATime'
<1> SUFFICES ASSUME TypeOK, OneAtATime, [Next]_vars PROVE OneAtATime'
  OBVIOUS
<1>1. CASE UNCHANGED polls
  BY <1>1 DEF OneAtATime
<1>2. ASSUME NEW h \in Hashes, polls' = Detach(h) PROVE OneAtATime'
  <2>1. \A p \in Polls : Detach(h)[p].busy = polls[p].busy /\ Detach(h)[p].phase = polls[p].phase
    BY DEF TypeOK, Detach, Poll
  <2> QED
    BY <1>2, <2>1, PollsUntouched
<1>3. ASSUME NEW p \in Polls, NEW h \in Hashes, Turns(p, h) PROVE OneAtATime'
  BY <1>3, TurnBusy DEF OneAtATime
<1>4. ASSUME NEW p \in Polls, PollStarts(p) \/ PollSkips(p) PROVE OneAtATime'
  BY <1>4, PollEnds DEF OneAtATime
<1>5. CASE Restart
  BY <1>5 DEF Restart, OneAtATime, IdlePoll
<1>6. CASE UserStep
  <2>1. ASSUME NEW h \in Hashes, UserRemoves(h) \/ UserOptsOut(h) PROVE OneAtATime'
    BY <2>1, <1>2 DEF UserRemoves, UserOptsOut, Remove
  <2>2. ASSUME NEW h \in Hashes, AddMagnet(h) \/ UserPauses(h) \/ UserResumes(h) \/ StartPackage(h)
        PROVE  UNCHANGED polls
    BY <2>2 DEF AddMagnet, UserPauses, UserResumes, StartPackage
  <2>3. ASSUME NEW mode \in Modes, NEW autoSeed \in BOOLEAN,
               UserChangesPolicy(mode, autoSeed) \/ UserSavesForm(mode, autoSeed)
        PROVE  UNCHANGED polls
    BY <2>3 DEF UserChangesPolicy, UserSavesForm
  <2>4. CASE PageRefreshes
    BY <2>4, <1>1 DEF PageRefreshes
  <2> QED
    BY <1>1, <1>6, <2>1, <2>2, <2>3, <2>4 DEF UserStep
<1>7. CASE EngineStep
  <2>1. ASSUME NEW h \in Hashes, AddMagnetReturns(h) \/ RegisterSeeding(h) PROVE OneAtATime'
    BY <2>1, <1>2 DEF AddMagnetReturns, RegisterSeeding
  <2>2. ASSUME NEW h \in Hashes, PackageFails(h) PROVE OneAtATime'
    BY <2>2, <1>1 DEF PackageFails
  <2> QED
    BY <1>7, <1>3, <1>4, <2>1, <2>2 DEF EngineStep, Turns
<1>8. CASE OutsideStep
  BY <1>8, <1>1
  DEF OutsideStep, DaemonAdds, DaemonFinishes, DaemonExecutes, RpcLost, DiskWrites, engineVars
<1>9. CASE UNCHANGED vars
  BY <1>9, <1>1 DEF vars, engineVars
<1> QED
  BY <1>5, <1>6, <1>7, <1>8, <1>9 DEF Next

\* A completion goes on waiting as long as neither its torrent nor its poll changes.
LEMMA StillCompleting ==
    ASSUME NEW h \in Hashes, Completing(h), torrents'[h] = torrents[h],
           \A p \in Polls : h \in polls[p].busy /\ polls[p].attached
                            => h \in polls'[p].busy /\ polls'[p].attached
    PROVE  Completing(h)'
BY DEF Completing, Known

\* Replacing the entry of one hash detaches no other hash's completion.
LEMMA DetachKeepsOthers ==
    ASSUME TypeOK, OneAtATime, NEW g \in Hashes, NEW h \in Hashes, g # h, polls' = Detach(g)
    PROVE  \A p \in Polls : h \in polls[p].busy /\ polls[p].attached
                            => h \in polls'[p].busy /\ polls'[p].attached
BY DEF OneAtATime, Detach

\* h comes to its end by itself and is left seeding.
EndsSeeding(h) ==
    /\ Completing(h) /\ ~Completing(h)'
    /\ packages' = packages /\ budget' = budget
    /\ torrents'[h].state = "seeding"

LEMMA TurnEnds ==
    ASSUME TypeOK, OneAtATime, NEW h \in Hashes, EndsSeeding(h),
           NEW p \in Polls, NEW g \in Hashes, Turns(p, g)
    PROVE  Seeds(h) \/ InspectionThrows(h)
<1>1. \A q \in Polls \ {p} : polls'[q] = polls[q]
  BY TurnBusy
<1>2. torrents[g] \in Torrent /\ torrents[h] \in Torrent /\ torrents \in [Hashes -> Torrent]
  BY DEF TypeOK
<1>3. CASE PollTorrent(p, g)
  <2> DEFINE dt == polls[p].snap[g]
             polled == Polled(g, dt)
             torrent == IF Pauses(g, polled) THEN [polled EXCEPT !.state = "paused"] ELSE polled
  <2>1. polls[p].busy = {}
    BY <1>3 DEF PollTorrent, At
  <2>2. torrents' = [torrents EXCEPT ![g] = torrent]
    BY <1>3 DEF PollTorrent
  <2>3. \A q \in Polls : h \in polls[q].busy /\ polls[q].attached
                         => h \in polls'[q].busy /\ polls'[q].attached
    BY <1>1, <2>1
  <2>4. torrents'[h] # torrents[h]
    BY <2>3, StillCompleting DEF EndsSeeding
  <2>5. h = g
    BY <1>2, <2>2, <2>4
  <2>6. Known(h) /\ ~torrents[h].complete
    BY <2>3 DEF EndsSeeding, Completing
  <2>7. ~dt.done
    BY <1>3, <2>5, <2>6 DEF PollTorrent, JustCompleted
  <2>8. polled.complete = dt.done
    BY DEF Polled
  <2>9. ~torrent.complete
    BY <2>7, <2>8 DEF Polled
  <2>10. torrents'[h] = torrent
    BY <1>2, <2>2, <2>5
  <2>11. torrents'[h] # Absent
    BY DEF EndsSeeding, Absent
  <2>12. Completing(h)'
    BY <2>9, <2>10, <2>11 DEF Completing, Known
  <2> QED
    BY <2>12 DEF EndsSeeding
<1>4. CASE PollCompletes(p, g)
  <2>1. polls[p].busy = {}
    BY <1>4 DEF PollCompletes, At
  <2>2. torrents'[h] # torrents[h]
    BY <1>1, <2>1, StillCompleting DEF EndsSeeding
  <2>3. \/ torrents' = [torrents EXCEPT ![g].state = "error", ![g].complete = TRUE]
        \/ torrents' = [torrents EXCEPT ![g].state = Settled(g), ![g].complete = TRUE]
    BY <1>4 DEF PollCompletes
  <2>4. h = g
    BY <1>2, <2>2, <2>3
  <2>5. torrents'[h].state = "error" \/ torrents'[h].state = Settled(h)
    BY <1>2, <2>3, <2>4 DEF Torrent
  <2> QED
    BY <2>5 DEF EndsSeeding, Settled
<1>5. CASE PollAwaitsRegistration(p, g)
  <2>1. polls[p].busy = {}
    BY <1>5 DEF PollAwaitsRegistration, At
  <2>2. torrents'[h] # torrents[h]
    BY <1>1, <2>1, StillCompleting DEF EndsSeeding
  <2>3. h = g
    BY <1>2, <1>5, <2>2 DEF PollAwaitsRegistration
  <2>4. polls'[p].busy = {h} /\ polls'[p].attached
    <3> DEFINE waiting == [polls[p] EXCEPT !.phase = "walking", !.busy = {g}, !.attached = TRUE]
    <3>1. polls' = [polls EXCEPT ![p] = waiting] /\ polls[p] \in Poll /\ polls \in [Polls -> Poll]
      BY <1>5 DEF TypeOK, PollAwaitsRegistration
    <3>2. waiting.busy = {g} /\ waiting.attached
      BY <3>1 DEF Poll
    <3> QED
      BY <2>3, <3>1, <3>2
  <2>5. Completing(h)'
    BY <2>4 DEF Completing
  <2> QED
    BY <2>5 DEF EndsSeeding
<1>6. CASE CompletionSettles(p, g)
  <2>1. polls[p].busy = {g}
    BY <1>6 DEF OneAtATime, CompletionSettles
  <2>2. CASE h # g \/ ~polls[p].attached
    <3>1. torrents'[h] = torrents[h]
      BY <1>2, <1>6, <2>2 DEF CompletionSettles
    <3>2. Completing(h)'
      BY <1>1, <2>1, <2>2, <3>1, StillCompleting DEF EndsSeeding
    <3> QED
      BY <3>2 DEF EndsSeeding
  <2>3. CASE h = g /\ polls[p].attached
    <3>1. torrents'[h].state = Settled(h)
      BY <1>2, <1>6, <2>3 DEF CompletionSettles, Torrent
    <3> QED
      BY <3>1 DEF EndsSeeding, Settled
  <2> QED
    BY <2>2, <2>3
<1>7. CASE PollInspectionThrows(p, g)
  <2>1. polls[p].busy = {}
    BY <1>7 DEF PollInspectionThrows, At
  <2>2. torrents'[h] # torrents[h]
    BY <1>1, <2>1, StillCompleting DEF EndsSeeding
  <2>3. h = g
    BY <1>2, <1>7, <2>2 DEF PollInspectionThrows
  <2> QED
    BY <1>7, <2>3 DEF InspectionThrows
<1> QED
  BY <1>3, <1>4, <1>5, <1>6, <1>7 DEF Turns

LEMMA NoSpendEnds ==
    ASSUME TypeOK, NEW h \in Hashes, EndsSeeding(h)
    PROVE  ~Spend
BY SwarmAssumption DEF TypeOK, EndsSeeding, Spend

LEMMA EndsRespectPolicy ==
    ASSUME TypeOK, OneAtATime, [Next]_vars, NEW h \in Hashes, EndsSeeding(h)
    PROVE  (policy.autoSeed /\ CanShare(policy, h)) \/ InspectionThrows(h)
<1> SUFFICES Seeds(h) \/ InspectionThrows(h)
  BY DEF Seeds
<1>1. CASE UNCHANGED <<torrents, polls>>
  BY <1>1, StillCompleting DEF EndsSeeding
<1>2. CASE UserStep
  BY <1>1, <1>2, NoSpendEnds
  DEF UserStep, AddMagnet, UserPauses, UserResumes, UserRemoves, UserOptsOut, StartPackage,
      UserChangesPolicy, UserSavesForm, PageRefreshes
<1>3. ASSUME NEW g \in Hashes, AddMagnetReturns(g) PROVE Seeds(h) \/ InspectionThrows(h)
  <2>1. torrents' = [torrents EXCEPT ![g] = [Absent EXCEPT !.state = "queued"]] /\ polls' = Detach(g)
    BY <1>3 DEF AddMagnetReturns
  <2>2. h # g
    BY <2>1 DEF TypeOK, EndsSeeding, Absent
  <2>3. torrents'[h] = torrents[h]
    BY <2>1, <2>2 DEF TypeOK
  <2> QED
    BY <2>1, <2>2, <2>3, DetachKeepsOthers, StillCompleting DEF EndsSeeding
<1>4. ASSUME NEW g \in Hashes, RegisterSeeding(g) \/ PackageFails(g) PROVE Seeds(h) \/ InspectionThrows(h)
  BY <1>4 DEF RegisterSeeding, PackageFails, EndsSeeding
<1>5. ASSUME NEW p \in Polls, PollStarts(p) \/ PollSkips(p) PROVE Seeds(h) \/ InspectionThrows(h)
  BY <1>5, PollEnds, StillCompleting DEF PollStarts, PollSkips, EndsSeeding
<1>6. CASE EngineStep
  BY <1>6, <1>3, <1>4, <1>5, TurnEnds DEF EngineStep, Turns
<1>7. CASE OutsideStep
  BY <1>7, <1>1
  DEF OutsideStep, DaemonAdds, DaemonFinishes, DaemonExecutes, RpcLost, DiskWrites, engineVars
<1>8. CASE Restart
  BY <1>8, NoSpendEnds DEF Restart
<1>9. CASE UNCHANGED vars
  BY <1>9, <1>1 DEF vars, engineVars
<1> QED
  BY <1>2, <1>6, <1>7, <1>8, <1>9 DEF Next

\* A download that comes to its end by itself is left seeding only if autoSeedDownloads is
\* on and the model may be shared at that moment, whatever happened while its completion
\* waited for RenegadeCMM - or if the inspection of this download threw in this very step,
\* the one way past the policy the code has.
THEOREM CompletionsRespectPolicy == Spec => CompletionRespectsPolicy
<1>1. Init => OneAtATime
  BY DEF Init, OneAtATime, IdlePoll
<1>2. TypeOK /\ OneAtATime /\ [Next]_vars
      => [\A h \in Hashes : EndsSeeding(h) => \/ policy.autoSeed /\ CanShare(policy, h)
                                              \/ InspectionThrows(h)]_vars
  BY EndsRespectPolicy
<1>3. CompletionRespectsPolicy
      <=> [][\A h \in Hashes : EndsSeeding(h) => \/ policy.autoSeed /\ CanShare(policy, h)
                                                 \/ InspectionThrows(h)]_vars
  BY DEF CompletionRespectsPolicy, EndsSeeding
<1> QED
  BY <1>1, <1>2, <1>3, TypeCorrect, OneAtATimeInductive, PTL DEF Spec

=============================================================================
