---------------------------- MODULE MCDiscovery ----------------------------
(***************************************************************************)
(* Finding models and peers for TLC: the search, the verification before a *)
(* download, and the peers' slots.  They share no state, so that each      *)
(* behaviour moves one of them, its part.                                  *)
(***************************************************************************)
EXTENDS Discovery

CONSTANTS Torrents, Keys, Transfers,                                 \* PeerManager's
          maxPeersPerTorrent, maxGlobalPeers, uploadSlots,
          Requests, NoRequest, NoVerdict, MaxEdits, MaxAdding        \* PreDownload's

VARIABLES part, peers,
          trustLevel, magnetInput, isVerifying, verifyResult, checks, failed, adding,
          edits

P == INSTANCE PeerManager

V == INSTANCE PreDownload

ASSUME FindAssumption == /\ <<0, 0>> \in Transfers
                         /\ maxPeersPerTorrent \in Nat
                         /\ maxGlobalPeers \in Nat
                         /\ uploadSlots \in Nat
                         /\ Requests \subseteq V!RequestType
                         /\ NoVerdict \notin V!VerdictType
                         /\ MaxEdits \in Nat
                         /\ MaxAdding \in Nat

\* Three peers of one torrent compete for one slot and the optimistic one; the
\* fourth, of another torrent, competes for the connections.
SomeKeys == ({"t1"} \X {"p1", "p2", "p3"}) \cup {<<"t2", "p1">>}

SomeTransfers == {<<0, 0>>, <<1, 0>>, <<0, 1>>}

Asked(sha256, hfRepo, decodable, manifest) ==
    [sha256 |-> sha256, hfRepo |-> hfRepo, decodable |-> decodable, manifest |-> manifest]

\* Two magnets, one of which cannot be decoded, and two manifests.
SomeRequests == {Asked(TRUE, FALSE, TRUE, "none"),
                 Asked(FALSE, FALSE, FALSE, "none"),
                 Asked(TRUE, TRUE, TRUE, "signed"),
                 Asked(FALSE, FALSE, TRUE, "tampered")}

\* A model of which one entry names a creator and another does not, and one of
\* which entries are signed.
SomeEntries == {[model |-> "m1", key |-> "k1", signed |-> FALSE],
                [model |-> "m1", key |-> "none", signed |-> FALSE],
                [model |-> "m2", key |-> "k1", signed |-> TRUE]}

\* A query that matches every entry, and one for verified creators that matches
\* those that name a key.
SomeQueries == {[matches |-> SomeEntries, verifiedOnly |-> FALSE],
                [matches |-> {e \in SomeEntries : e.key # "none"}, verifiedOnly |-> TRUE]}

verifyVars == <<trustLevel, magnetInput, isVerifying, verifyResult, checks, failed,
                adding, edits>>

FindInit ==
    /\ part \in {"search", "verification", "peers"}
    /\ Init /\ P!Init /\ V!Init
    /\ part # "search" => query = CHOOSE q \in Queries : TRUE

FindNext ==
    /\ UNCHANGED part
    /\ \/ part = "search" /\ Next /\ UNCHANGED <<peers, verifyVars>>
       \/ part = "verification" /\ V!Next /\ UNCHANGED <<vars, peers>>
       \/ part = "peers" /\ P!Next /\ UNCHANGED <<vars, verifyVars>>

FindSpec ==
    /\ FindInit
    /\ [][FindNext]_<<part, vars, peers, verifyVars>>
    /\ P!Fairness
    /\ V!Fairness
-----------------------------------------------------------------------------
FindTypeOK == TypeOK /\ P!TypeOK /\ V!TypeOK

\* The verdict shown is that of the magnet typed (DashboardView.tsx).
VerdictOfInput == V!VerdictOfInput

\* No torrent serves more than its slots, and the fastest are served first
\* (peerManager.ts, recalculateChokeSlots).
SlotsToTheFastest == []P!ServedWithinSlots /\ P!FastestServed

\* The slow ones get their turn (peerManager.ts, the optimistic unchoke).
EveryoneGetsATurn == P!EveryoneGetsATurn
=============================================================================
