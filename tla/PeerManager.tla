---------------------------- MODULE PeerManager ----------------------------
(***************************************************************************)
(* The peers of all torrents and the upload slots they are given           *)
(* (src/main/engine/peerManager.ts): who may connect, and the tit-for-tat  *)
(* rounds that unchoke the fastest interested peers of a torrent and one   *)
(* more at random.                                                         *)
(*                                                                         *)
(* A session is known by its torrent and its peer.  Speeds are the last    *)
(* transfer reported; sums, addresses and bit fields are left out.  Peers  *)
(* that are equally fast keep the order of the table in the code; here     *)
(* either may come first.                                                  *)
(***************************************************************************)
EXTENDS Integers, FiniteSets, FiniteSetsExt

CONSTANTS Torrents,
          Keys,              \* the pairs of a torrent and a peer that may meet
          Transfers,         \* pairs <<downloaded, uploaded>> of one report
          maxPeersPerTorrent, maxGlobalPeers, uploadSlots

VARIABLE peers    \* the table of sessions: a function from keys to sessions

\* How the session is served: choked, in a regular slot, or by optimism.
Service == {"choked", "regular", "optimistic"}

PeerSession == [service : Service, peerInterested : BOOLEAN, speed : Transfers]

NewSession == [service |-> "choked", peerInterested |-> FALSE, speed |-> <<0, 0>>]

getPeersForTorrent(t) == {k \in DOMAIN peers : k[1] = t}

Unchoked(t) == {k \in getPeersForTorrent(t) : peers[k].service # "choked"}

Optimistic(t) == {k \in getPeersForTorrent(t) : peers[k].service = "optimistic"}

Interested(t) == {k \in getPeersForTorrent(t) : peers[k].peerInterested}
-----------------------------------------------------------------------------
MayConnectUncounted(k) == Cardinality(DOMAIN peers) < maxGlobalPeers

\* The early returns of addPeer: known already, or a limit is reached.
MayConnect(k) ==
    /\ k \notin DOMAIN peers
    /\ Cardinality(DOMAIN peers) < maxGlobalPeers
    /\ Cardinality(getPeersForTorrent(k[1])) < maxPeersPerTorrent

addPeer(k) ==
    /\ MayConnect(k)
    /\ peers' = [j \in DOMAIN peers \cup {k} |->
                    IF j = k THEN NewSession ELSE peers[j]]

removePeer(k) ==
    /\ k \in DOMAIN peers
    /\ peers' = [j \in DOMAIN peers \ {k} |-> peers[j]]

recordPeerTransfer(k, s) ==
    /\ k \in DOMAIN peers
    /\ peers' = [peers EXCEPT ![k].speed = s]

\* The wire's interested and not-interested messages.
PeerTells(k, b) ==
    /\ k \in DOMAIN peers
    /\ peers' = [peers EXCEPT ![k].peerInterested = b]

SpeedOf(k, isSeeder) == IF isSeeder THEN peers[k].speed[2] ELSE peers[k].speed[1]

Lesser(a, b) == IF a < b THEN a ELSE b

\* Mutant of Fastest: the list is not sorted.
AnyOfThem(t, isSeeder) ==
    kSubset(Lesser(uploadSlots, Cardinality(Interested(t))), Interested(t))

\* The first entries of the list sorted by speed.
Fastest(t, isSeeder) ==
    {R \in kSubset(Lesser(uploadSlots, Cardinality(Interested(t))), Interested(t)) :
        \A r \in R, q \in Interested(t) \ R : SpeedOf(r, isSeeder) >= SpeedOf(q, isSeeder)}

\* Mutant of OptimisticChoices: nobody gets the extra slot.
NoOptimism(t, R) == {{}}

\* One of the interested peers that got no slot, if there is one.
OptimisticChoices(t, R) ==
    IF Interested(t) \subseteq R THEN {{}} ELSE {{k} : k \in Interested(t) \ R}

\* Mutant of Served: the others are not choked again.
ServedWithoutChoking(t, R, O) ==
    [k \in DOMAIN peers |->
        CASE k \in R -> [peers[k] EXCEPT !.service = "regular"]
          [] k \in O -> [peers[k] EXCEPT !.service = "optimistic"]
          [] OTHER   -> peers[k]]

Served(t, R, O) ==
    [k \in DOMAIN peers |->
        IF k[1] # t THEN peers[k]
        ELSE [peers[k] EXCEPT !.service = CASE k \in R -> "regular"
                                            [] k \in O -> "optimistic"
                                            [] OTHER   -> "choked"]]

Recalculated(t, isSeeder, k) ==
    \E R \in Fastest(t, isSeeder) : \E O \in OptimisticChoices(t, R) :
        /\ k \in R \cup O \/ R \cup O = {}
        /\ peers' = Served(t, R, O)

recalculateChokeSlots(t, isSeeder) ==
    /\ getPeersForTorrent(t) # {}
    /\ \E R \in Fastest(t, isSeeder) : \E O \in OptimisticChoices(t, R) :
           peers' = Served(t, R, O)

\* The round of the timer, in which the random choice serves the peer k.
TurnOf(k) ==
    /\ k \in DOMAIN peers
    /\ Recalculated(k[1], FALSE, k)

Init == peers = [k \in {} |-> NewSession]

Next == \/ \E k \in Keys : \/ addPeer(k)
                           \/ removePeer(k)
                           \/ \E s \in Transfers : recordPeerTransfer(k, s)
                           \/ \E b \in BOOLEAN : PeerTells(k, b)
        \/ \E t \in Torrents, isSeeder \in BOOLEAN : recalculateChokeSlots(t, isSeeder)

\* The timer's rounds recur, and a choice by Math.random() is not avoided for
\* ever.
Fairness == \A k \in Keys : SF_peers(TurnOf(k))

Spec == Init /\ [][Next]_peers /\ Fairness
-----------------------------------------------------------------------------
TypeOK == /\ DOMAIN peers \subseteq Keys
          /\ \A k \in DOMAIN peers : peers[k] \in PeerSession

\* However peers come, go and lose interest between the rounds, no torrent
\* serves more than its slots and one (recalculateChokeSlots), and neither
\* limit on connections is passed (addPeer).
ServedWithinSlots ==
    /\ Cardinality(DOMAIN peers) <= maxGlobalPeers
    /\ \A t \in Torrents :
           /\ Cardinality(getPeersForTorrent(t)) <= maxPeersPerTorrent
           /\ Cardinality(Optimistic(t)) <= 1
           /\ Cardinality(Unchoked(t) \ Optimistic(t)) <= uploadSlots

\* What FastestServed asks of a step.
FastestFirst ==
    \A t \in Torrents :
        (\E k \in DOMAIN peers \cap DOMAIN peers' :
             k[1] = t /\ peers'[k].service # peers[k].service)
        => \E isSeeder \in BOOLEAN :
              \A p, q \in Interested(t) :
                  peers'[p].service = "regular" /\ peers'[q].service # "regular"
                  => SpeedOf(p, isSeeder) >= SpeedOf(q, isSeeder)

\* A round that gives a slot never leaves a faster interested peer without one
\* (docs/ARCHITECTURE.md:252, the fastest are unchoked): measured by the
\* speeds of that moment, and of the same torrent only.
FastestServed == [][FastestFirst]_peers

\* A peer that stays connected and interested is served again and again,
\* however slow it is (the optimistic unchoke).
EveryoneGetsATurn ==
    \A k \in Keys :
        []<>(k \in DOMAIN peers => peers[k].service # "choked" \/ ~peers[k].peerInterested)
=============================================================================
