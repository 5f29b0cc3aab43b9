------------------------- MODULE BandwidthScheduler -------------------------
(***************************************************************************)
(* The token buckets of the two directions                                 *)
(* (src/main/engine/bandwidthScheduler.ts).                                *)
(*                                                                         *)
(* Time is counted in milliseconds and bytes in units that make every      *)
(* limit a whole number of units per millisecond; then no token is ever    *)
(* a fraction.  A limit of 0 means unlimited, with Virtual in its place.   *)
(***************************************************************************)
EXTENDS Integers

CONSTANTS Second,      \* milliseconds in a second
          Limits,      \* the limits the user may set, in units per millisecond
          Virtual,     \* the capacity that stands for "unlimited"
          MaxBytes,    \* bound: bytes of one request
          MaxNow,      \* bound: the clock
          MaxRefills   \* bound: refills under one setting

Directions == {"download", "upload"}

ASSUME BandwidthAssumption == /\ Second \in Nat \ {0}
                              /\ Limits \subseteq Nat
                              /\ Virtual \in Nat
                              /\ MaxBytes \in Nat
                              /\ MaxNow \in Nat
                              /\ MaxRefills \in Nat

VARIABLES
    limit,      \* settings: maxDownloadSpeedKbps, maxUploadSpeedKbps
    tokens,     \* downloadBucketTokens, uploadBucketTokens
    lastTokenRefillTime,
    now,        \* Date.now()
    \* What was granted since the limit was set, for the properties:
    granted,    \* bytes in each direction
    start,      \* tokens there were when the limit was set
    since,      \* when the limit was set
    refills     \* refills since

vars == <<limit, tokens, lastTokenRefillTime, now, granted, start, since, refills>>

Smaller(a, b) == IF a < b THEN a ELSE b

Greater(a, b) == IF a > b THEN a ELSE b

\* Units per millisecond.
Rate(d) == IF limit[d] > 0 THEN limit[d] ELSE Virtual

\* Milliseconds a refill pays for: at least one, even if none has passed.
Elapsed == Greater(1, now - lastTokenRefillTime)

\* Mutant of Refilled: the clock is read in seconds.
RefilledBySeconds(d) == Smaller(2 * Rate(d) * Second, tokens[d] + Rate(d) * Second * Elapsed)

\* A refill, clamped to twice the capacity of a second.
Refilled(d) == Smaller(2 * Rate(d) * Second, tokens[d] + Rate(d) * Elapsed)

\* Mutant of Grant: what is asked for is given.
GrantAsked(d, bytes) == bytes

Grant(d, bytes) == IF limit[d] = 0 THEN bytes ELSE Smaller(bytes, Refilled(d))

\* consumeBandwidth refills both buckets and takes what it grants from one;
\* without a limit it takes nothing.
consumeBandwidth(d, bytes) ==
    /\ refills < MaxRefills
    /\ tokens' = [e \in Directions |->
                     IF e = d /\ limit[d] > 0 THEN Refilled(e) - Grant(e, bytes)
                     ELSE Refilled(e)]
    /\ granted' = [granted EXCEPT ![d] = IF limit[d] = 0 THEN @ ELSE @ + Grant(d, bytes)]
    /\ lastTokenRefillTime' = now
    /\ refills' = refills + 1
    /\ UNCHANGED <<limit, now, start, since>>

\* getStats refills too.
getStats ==
    /\ refills < MaxRefills
    /\ tokens' = [e \in Directions |-> Refilled(e)]
    /\ lastTokenRefillTime' = now
    /\ refills' = refills + 1
    /\ UNCHANGED <<limit, now, granted, start, since>>

\* updateSettings changes the limit and leaves the buckets as they are.
updateSettings(d, l) ==
    /\ limit' = [limit EXCEPT ![d] = l]
    /\ start' = tokens
    /\ since' = lastTokenRefillTime
    /\ granted' = [e \in Directions |-> 0]
    /\ refills' = 0
    /\ UNCHANGED <<tokens, lastTokenRefillTime, now>>

Tick == /\ now < MaxNow
        /\ now' = now + 1
        /\ UNCHANGED <<limit, tokens, lastTokenRefillTime, granted, start, since, refills>>

\* The constructor fills each bucket with the capacity of one second.
Init == /\ limit \in [Directions -> Limits]
        /\ tokens = [d \in Directions |-> Rate(d) * Second]
        /\ start = tokens
        /\ granted = [d \in Directions |-> 0]
        /\ lastTokenRefillTime = 0
        /\ now = 0
        /\ since = 0
        /\ refills = 0

Next == \/ \E d \in Directions, b \in 1..MaxBytes : consumeBandwidth(d, b)
        \/ \E d \in Directions, l \in Limits : updateSettings(d, l)
        \/ getStats
        \/ Tick

Spec == Init /\ [][Next]_vars
-----------------------------------------------------------------------------
TypeOK == /\ limit \in [Directions -> Limits]
          /\ tokens \in [Directions -> Nat]
          /\ granted \in [Directions -> Nat]
          /\ start \in [Directions -> Nat]
          /\ lastTokenRefillTime \in 0..now
          /\ since \in 0..lastTokenRefillTime
          /\ now \in Nat
          /\ refills \in Nat

\* Under a limit no more is granted than what was in the bucket, the limit's
\* share of the time that passed, and one millisecond's share for every call:
\* refillBuckets never counts less than a millisecond (Math.max(0.001, ...)).
GrantedWithinBudget ==
    \A d \in Directions :
        limit[d] > 0 =>
            granted[d] + tokens[d]
                <= start[d] + limit[d] * (lastTokenRefillTime - since + refills)
=============================================================================
