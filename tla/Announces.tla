----------------------------- MODULE Announces -----------------------------
(***************************************************************************)
(* What the trackers are told of the torrents: the announces of a pause, a *)
(* resume, a removal and a forced reannounce, which nobody waits for, and  *)
(* the sweeps of the minute timer, which walk a snapshot of the table and  *)
(* wait for every tracker before the next torrent                          *)
(* (src/main/engine/swarmEngine.ts, src/main/engine/trackerManager.ts).    *)
(*                                                                         *)
(* An announce is a UDP connect and a UDP announce, or one HTTP request.   *)
(* Counters, ports, peers and encodings are left out, and so is the time   *)
(* of five seconds: a time-out may come whenever no answer has.  Trackers  *)
(* forget a peer that no longer announces; they are external, and here     *)
(* they do not.                                                            *)
(***************************************************************************)
EXTENDS Integers, FiniteSets

CONSTANTS Hashes,
          UdpTrackers, HttpTrackers,   \* the trackers announced to
          Sweeps,                      \* sweeps that may overlap
          MaxOps                       \* bound: operations of the user

Trackers == UdpTrackers \cup HttpTrackers

VARIABLES
    state,       \* activeSwarms: the state of each torrent
    sweeps,      \* sweep -> the snapshot's torrents it has not begun
    announces,   \* announces under way
    listed,      \* what the trackers believe: pairs <<tracker, hash>>
    ops

vars == <<state, sweeps, announces, listed, ops>>

\* Who waits for an announce: the user's operations do not.
Callers == Sweeps \cup {"nobody"}

Events == {"started", "stopped", "update"}

\* Where an announce is: the UDP connect request, the announce itself, its
\* answer, or an answer that was cut off, which settles no promise (fetchBinary).
Phases == {"connect", "announce", "answer", "hung"}

Announce == [by : Callers, hash : Hashes, event : Events, tracker : Trackers, phase : Phases]

\* announceTorrent calls every tracker at once.
Calls(c, h, e) ==
    {[by |-> c, hash |-> h, event |-> e, tracker |-> t,
      phase |-> IF t \in UdpTrackers THEN "connect" ELSE "announce"] : t \in Trackers}

\* What a call of sweep s still waits for (Promise.allSettled).
Awaits(s) == {a \in announces : a.by = s}

\* Mutant of Active: only seeds are announced.
ActiveSeeds == {h \in Hashes : state[h] = "seeding"}

\* Mutant of Active: the filter is missing.
ActiveAll == {h \in Hashes : state[h] # "none"}

Active == {h \in Hashes : state[h] \in {"seeding", "downloading"}}
-----------------------------------------------------------------------------
UserOp == ops < MaxOps /\ ops' = ops + 1 /\ UNCHANGED <<sweeps, listed>>

pauseTorrent(h) ==
    /\ UserOp
    /\ state[h] # "none"
    /\ state' = [state EXCEPT ![h] = "paused"]
    /\ announces' = announces \cup Calls("nobody", h, "stopped")

\* Whether it is complete decides between seeding and downloading.
resumeTorrent(h) ==
    /\ UserOp
    /\ state[h] # "none"
    /\ \E s \in {"seeding", "downloading"} : state' = [state EXCEPT ![h] = s]
    /\ announces' = announces \cup Calls("nobody", h, "started")

\* Announced as stopped also if it is not in the table.
removeTorrent(h) ==
    /\ UserOp
    /\ state' = [state EXCEPT ![h] = "none"]
    /\ announces' = announces \cup Calls("nobody", h, "stopped")

\* The state of the torrent is not looked at.
reannounceTorrent(h) ==
    /\ UserOp
    /\ announces' = announces \cup Calls("nobody", h, "update")
    /\ UNCHANGED state

registerSeedingManifest(h) ==
    /\ UserOp
    /\ state' = [state EXCEPT ![h] = "seeding"]
    /\ announces' = announces \cup Calls("nobody", h, "started")
-----------------------------------------------------------------------------
\* The timer does not ask whether an earlier sweep has ended.  (Its call of
\* the start announces "started" instead, which says the same.)
announceAllActiveSwarms(s) ==
    /\ Awaits(s) = {} /\ sweeps[s] = {}
    /\ Active # {}
    /\ sweeps' = [sweeps EXCEPT ![s] = Active]
    /\ UNCHANGED <<state, announces, listed, ops>>

\* The next torrent of the snapshot, whatever has become of it.
SweepAnnounces(s, h) ==
    /\ Awaits(s) = {} /\ h \in sweeps[s]
    /\ sweeps' = [sweeps EXCEPT ![s] = @ \ {h}]
    /\ announces' = announces \cup Calls(s, h, "update")
    /\ UNCHANGED <<state, listed, ops>>
-----------------------------------------------------------------------------
Becomes(a, A) == /\ announces' = (announces \ {a}) \cup A
                 /\ UNCHANGED <<state, sweeps, ops>>

\* The answer to the connect request.
UdpConnected(a) == /\ a.phase = "connect"
                   /\ Becomes(a, {[a EXCEPT !.phase = "announce"]})
                   /\ UNCHANGED listed

\* The tracker takes the announce.
Hears(a) ==
    /\ a.phase = "announce"
    /\ listed' = IF a.event = "stopped" THEN listed \ {<<a.tracker, a.hash>>}
                 ELSE listed \cup {<<a.tracker, a.hash>>}
    /\ Becomes(a, IF a.by \in Sweeps THEN {[a EXCEPT !.phase = "answer"]} ELSE {})

\* An answer, a refusal, an error, or five seconds without any of them: the
\* promise is settled.  What was sent may still be under way.
Settles(a) ==
    /\ a.phase # "hung"
    /\ \/ Becomes(a, {})
       \/ a.phase = "announce" /\ a.by \in Sweeps /\ Becomes(a, {[a EXCEPT !.by = "nobody"]})
    /\ UNCHANGED listed

\* The connection ends in the middle of an HTTP response: no 'end' comes, the
\* request's error handler hears nothing of it, and the time-out is gone.
\* Where nobody waits that harms nobody.
CutOff(a) ==
    /\ a.phase = "answer" /\ a.tracker \in HttpTrackers
    /\ Becomes(a, {[a EXCEPT !.phase = "hung"]})
    /\ UNCHANGED listed
-----------------------------------------------------------------------------
Init == /\ state \in [Hashes -> {"none", "downloading"}]
        /\ sweeps = [s \in Sweeps |-> {}]
        /\ announces = {}
        /\ listed = {}
        /\ ops = 0

Next == \/ \E h \in Hashes : \/ pauseTorrent(h)
                             \/ resumeTorrent(h)
                             \/ removeTorrent(h)
                             \/ reannounceTorrent(h)
                             \/ registerSeedingManifest(h)
        \/ \E s \in Sweeps : \/ announceAllActiveSwarms(s)
                             \/ \E h \in Hashes : SweepAnnounces(s, h)
        \/ \E a \in announces : UdpConnected(a) \/ Hears(a) \/ Settles(a) \/ CutOff(a)

\* The tracker t takes an update of h that a sweep made.
HearsUpdate(t, h) ==
    \E a \in announces : /\ a.tracker = t /\ a.hash = h
                         /\ a.by \in Sweeps /\ a.event = "update"
                         /\ Hears(a)

Connects(t, h) ==
    \E a \in announces : /\ a.tracker = t /\ a.hash = h
                         /\ a.by \in Sweeps /\ a.event = "update"
                         /\ UdpConnected(a)

\* The timer fires again and again, every promise that is not hung settles,
\* and a tracker that is asked again and again answers some of the times.
Fairness ==
    /\ \A s \in Sweeps : /\ WF_vars(announceAllActiveSwarms(s))
                         /\ \A h \in Hashes : WF_vars(SweepAnnounces(s, h))
    /\ \A c \in Callers, h \in Hashes :
           WF_vars(\E a \in announces : a.by = c /\ a.hash = h /\ Settles(a))
    /\ \A t \in Trackers, h \in Hashes : /\ SF_vars(Connects(t, h))
                                         /\ SF_vars(HearsUpdate(t, h))

Spec == Init /\ [][Next]_vars /\ Fairness
-----------------------------------------------------------------------------
TypeOK == /\ state \in [Hashes -> {"none", "paused", "seeding", "downloading"}]
          /\ sweeps \in [Sweeps -> SUBSET Hashes]
          /\ announces \subseteq Announce
          /\ listed \subseteq Trackers \X Hashes
          /\ ops \in 0..MaxOps

Hung == \E a \in announces : a.phase = "hung"

Moving(h) == state[h] = "seeding" \/ state[h] = "downloading"

\* The first half of TrackersFollow.
ActiveIsListed ==
    \A t \in Trackers, h \in Hashes :
        []<>(Moving(h) /\ ~Hung => <<t, h>> \in listed)

\* The second half.
InactiveGoesQuiet ==
    \A h \in Hashes :
        []<>Moving(h) \/ <>[](\A a \in announces : a.hash = h => a.phase = "hung")

\* A torrent that stays active is listed by every tracker again and again,
\* whatever stale "stopped" is still under way, unless an answer was cut off:
\* then the sweep that waits for it ends nowhere (announceAllActiveSwarms).
\* Of one that stays paused or removed the trackers hear no more, though a
\* sweep may still announce it from an older snapshot.
TrackersFollow == ActiveIsListed /\ InactiveGoesQuiet
=============================================================================
