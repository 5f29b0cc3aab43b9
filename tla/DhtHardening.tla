---------------------------- MODULE DhtHardening ----------------------------
(***************************************************************************)
(* Pinned swarms and the rate limit of DHT queries                         *)
(* (src/main/engine/dhtHardening.ts).                                      *)
(*                                                                         *)
(* The limit counts queries and bytes in a window that the first packet    *)
(* after its end begins anew.  Node ids bound to addresses are bytes and   *)
(* left out.                                                               *)
(***************************************************************************)
EXTENDS Integers

CONSTANTS Hashes,
          Window,                       \* a second, in ticks of the clock
          maxQueriesPerSecond, maxBytes,
          Packets,                      \* sizes of packets
          MaxNow                        \* bound: the clock

VARIABLES allowedInfoHashes, queryCounter, bytesThisSecond, lastResetTime, now,
          passed      \* bytes let through up to each moment, for the property

vars == <<allowedInfoHashes, queryCounter, bytesThisSecond, lastResetTime, now,
          passed>>

\* A new window is due.
Expired == now - lastResetTime >= Window

Bytes == IF Expired THEN 0 ELSE bytesThisSecond

Queries == IF Expired THEN 0 ELSE queryCounter

\* Mutant of Counted: the new window keeps the old one's beginning.
CountedWithoutReset(queries, size) ==
    /\ queryCounter' = Queries + queries
    /\ bytesThisSecond' = Bytes + size
    /\ passed' = [passed EXCEPT ![now] = @ + size]
    /\ UNCHANGED <<allowedInfoHashes, lastResetTime, now>>

\* Queries and bytes are added to the window, which is renewed if it is due.
Counted(queries, size) ==
    /\ queryCounter' = Queries + queries
    /\ bytesThisSecond' = Bytes + size
    /\ lastResetTime' = IF Expired THEN now ELSE lastResetTime
    /\ passed' = [passed EXCEPT ![now] = @ + size]
    /\ UNCHANGED <<allowedInfoHashes, now>>

\* A refused packet renews the window too.
checkQueryRateLimit(size) ==
    IF Queries >= maxQueriesPerSecond \/ Bytes + size > maxBytes
    THEN Counted(0, 0)
    ELSE Counted(1, size)

checkBandwidthLimit(size) ==
    IF Bytes + size > maxBytes
    THEN Counted(0, 0)
    ELSE Counted(0, size)

pinSwarmInfoHash(h) ==
    /\ allowedInfoHashes' = allowedInfoHashes \cup {h}
    /\ UNCHANGED <<queryCounter, bytesThisSecond, lastResetTime, now, passed>>

unpinSwarmInfoHash(h) ==
    /\ allowedInfoHashes' = allowedInfoHashes \ {h}
    /\ UNCHANGED <<queryCounter, bytesThisSecond, lastResetTime, now, passed>>

Tick == /\ now < MaxNow
        /\ now' = now + 1
        /\ passed' = [passed EXCEPT ![now + 1] = passed[now]]
        /\ UNCHANGED <<allowedInfoHashes, queryCounter, bytesThisSecond, lastResetTime>>

Init == /\ allowedInfoHashes = {}
        /\ queryCounter = 0
        /\ bytesThisSecond = 0
        /\ lastResetTime = 0
        /\ now = 0
        /\ passed = [m \in 0..MaxNow |-> 0]

Next == \/ \E s \in Packets : checkQueryRateLimit(s) \/ checkBandwidthLimit(s)
        \/ \E h \in Hashes : pinSwarmInfoHash(h) \/ unpinSwarmInfoHash(h)
        \/ Tick

Spec == Init /\ [][Next]_vars
-----------------------------------------------------------------------------
TypeOK == /\ allowedInfoHashes \subseteq Hashes
          /\ queryCounter \in 0..maxQueriesPerSecond
          /\ bytesThisSecond \in 0..maxBytes
          /\ lastResetTime \in 0..now
          /\ now \in 0..MaxNow
          /\ passed \in [0..MaxNow -> Nat]

\* Bytes let through at the moments from first to last.
BytesIn(first, last) == passed[last] - (IF first = 0 THEN 0 ELSE passed[first - 1])

\* The windows are fixed, not sliding: around the end of one as much again may
\* follow, but never more than two budgets pass in any stretch as long as a
\* window, wherever the windows happen to begin (checkQueryRateLimit,
\* checkBandwidthLimit).
AnyWindowWithinTwoBudgets ==
    \A last \in 0..now : \A first \in 0..last :
        last < first + Window => BytesIn(first, last) <= 2 * maxBytes
=============================================================================
