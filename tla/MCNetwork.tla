----------------------------- MODULE MCNetwork -----------------------------
(***************************************************************************)
(* The parts that deal with the network for TLC: the bandwidth buckets,    *)
(* the DHT's limits and the announces.  They share no state, so that each  *)
(* behaviour moves one of them, its part.                                  *)
(***************************************************************************)
EXTENDS BandwidthScheduler

CONSTANTS Hashes,
          Window, maxQueriesPerSecond, maxBytes, Packets, MaxDhtNow,   \* DhtHardening's
          UdpTrackers, HttpTrackers, Sweeps, MaxOps                    \* Announces'

ASSUME NetworkAssumption == /\ Window \in Nat \ {0}
                            /\ maxQueriesPerSecond \in Nat
                            /\ maxBytes \in Nat
                            /\ Packets \subseteq Nat
                            /\ MaxDhtNow \in Nat
                            /\ MaxOps \in Nat

VARIABLES part,
          allowedInfoHashes, queryCounter, bytesThisSecond, lastResetTime, dhtNow, passed,
          state, sweeps, announces, listed, ops

D == INSTANCE DhtHardening WITH MaxNow <- MaxDhtNow, now <- dhtNow

A == INSTANCE Announces

dhtVars == <<allowedInfoHashes, queryCounter, bytesThisSecond, lastResetTime, dhtNow, passed>>

announceVars == <<state, sweeps, announces, listed, ops>>

Parts == {"bandwidth", "dht", "announces"}

\* Where the announces are not moved nothing of them is due; where the buckets
\* are not, one setting of them is enough.
NetworkInit == /\ part \in Parts
               /\ Init /\ D!Init /\ A!Init
               /\ A!Active # {} => part = "announces"
               /\ limit # [d \in Directions |-> 0] => part = "bandwidth"

NetworkNext ==
    /\ UNCHANGED part
    /\ \/ /\ part = "bandwidth" /\ Next
          /\ UNCHANGED <<dhtVars, announceVars>>
       \/ /\ part = "dht" /\ D!Next
          /\ UNCHANGED <<vars, announceVars>>
       \/ /\ part = "announces" /\ A!Next
          /\ UNCHANGED <<vars, dhtVars>>

NetworkSpec ==
    /\ NetworkInit
    /\ [][NetworkNext]_<<part, vars, dhtVars, announceVars>>
    /\ A!Fairness
-----------------------------------------------------------------------------
NetworkTypeOK == TypeOK /\ D!TypeOK /\ A!TypeOK

\* Two budgets at most pass in a stretch of one window (dhtHardening.ts).
AnyWindowWithinTwoBudgets == D!AnyWindowWithinTwoBudgets

\* The trackers follow the state of the torrents (swarmEngine.ts,
\* announceAllActiveSwarms, pauseTorrent).
TrackersFollow == A!TrackersFollow
=============================================================================
