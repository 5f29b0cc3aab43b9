--------------------------- MODULE NetworkProofs ---------------------------
(***************************************************************************)
(* Proofs about the parts that deal with the network: the budget of a      *)
(* bucket (BandwidthScheduler), the bytes that pass in any stretch of time *)
(* (DhtHardening), and the types of all three parts of MCNetwork.          *)
(***************************************************************************)
EXTENDS MCNetwork, TLAPS

(***************************************************************************)
(* The bandwidth buckets.                                                  *)
(***************************************************************************)

LEMMA SmallerType == ASSUME NEW a \in Nat, NEW b \in Nat
                     PROVE  /\ Smaller(a, b) \in Nat
                            /\ Smaller(a, b) <= a
                            /\ Smaller(a, b) <= b
BY DEF Smaller

\* A refill is a number and no more than what there was and what time gives.
LEMMA RefilledType ==
    ASSUME TypeOK, NEW d \in Directions
    PROVE  /\ Refilled(d) \in Nat
           /\ limit[d] > 0 =>
                Refilled(d) <= tokens[d] + limit[d] * (now - lastTokenRefillTime + 1)
<1>1. limit[d] \in Nat /\ tokens[d] \in Nat /\ Rate(d) \in Nat
    BY BandwidthAssumption DEF TypeOK, Rate
<1>2. now - lastTokenRefillTime \in Nat
    BY DEF TypeOK
<1>3. Elapsed \in Nat /\ Elapsed <= now - lastTokenRefillTime + 1
    BY <1>2 DEF Elapsed, Greater
<1>4. 2 * Rate(d) * Second \in Nat /\ Rate(d) * Elapsed \in Nat
    BY <1>1, <1>3, BandwidthAssumption
<1>5. Refilled(d) \in Nat /\ Refilled(d) <= tokens[d] + Rate(d) * Elapsed
    <2> DEFINE paid == Rate(d) * Elapsed
               full == 2 * Rate(d) * Second
    <2>1. paid \in Nat /\ full \in Nat /\ tokens[d] + paid \in Nat
        BY <1>1, <1>4
    <2>2. Refilled(d) = Smaller(full, tokens[d] + paid)
        BY DEF Refilled
    <2> HIDE DEF paid, full
    <2>3. Refilled(d) \in Nat /\ Refilled(d) <= tokens[d] + paid
        BY <2>1, <2>2, SmallerType
    <2> QED
        BY <2>3 DEF paid
<1>6. ASSUME limit[d] > 0
      PROVE  Rate(d) * Elapsed <= limit[d] * (now - lastTokenRefillTime + 1)
    <2>1. Rate(d) = limit[d]
        BY <1>6 DEF Rate
    <2> QED
        BY <2>1, <1>1, <1>2, <1>3
<1>7. ASSUME limit[d] > 0
      PROVE  limit[d] * (now - lastTokenRefillTime + 1) \in Nat
    BY <1>1, <1>2
<1> QED
    BY <1>1, <1>4, <1>5, <1>6, <1>7
-----------------------------------------------------------------------------
LEMMA GrantType ==
    ASSUME TypeOK, NEW d \in Directions, NEW bytes \in Nat
    PROVE  /\ Grant(d, bytes) \in Nat
           /\ limit[d] > 0 => Refilled(d) - Grant(d, bytes) \in Nat
<1>1. Refilled(d) \in Nat /\ limit[d] \in Nat
    BY RefilledType, BandwidthAssumption DEF TypeOK
<1>2. Smaller(bytes, Refilled(d)) \in Nat /\ Smaller(bytes, Refilled(d)) <= Refilled(d)
    BY <1>1, SmallerType
<1> QED
    BY <1>1, <1>2 DEF Grant

LEMMA InitTypeOK == Init => TypeOK
<1> SUFFICES ASSUME Init PROVE TypeOK
    OBVIOUS
<1>1. \A d \in Directions : Rate(d) \in Nat
    BY BandwidthAssumption DEF Init, Rate
<1>2. \A d \in Directions : Rate(d) * Second \in Nat
    BY <1>1, BandwidthAssumption
<1> QED
    BY <1>2 DEF Init, TypeOK

LEMMA ConsumeType ==
    ASSUME TypeOK, NEW d \in Directions, NEW bytes \in 1..MaxBytes,
           consumeBandwidth(d, bytes)
    PROVE  TypeOK'
<1>1. bytes \in Nat
    BY BandwidthAssumption
<1>2. \A e \in Directions :
          /\ Refilled(e) \in Nat
          /\ Grant(e, bytes) \in Nat
          /\ limit[e] > 0 => Refilled(e) - Grant(e, bytes) \in Nat
    BY <1>1, RefilledType, GrantType
<1>3. tokens' \in [Directions -> Nat]
    BY <1>2 DEF consumeBandwidth
<1>4. granted' \in [Directions -> Nat]
    BY <1>2 DEF consumeBandwidth, TypeOK
<1>5. lastTokenRefillTime' \in 0..now' /\ since' \in 0..lastTokenRefillTime'
    BY DEF consumeBandwidth, TypeOK
<1> QED
    BY <1>3, <1>4, <1>5 DEF consumeBandwidth, TypeOK

\* Type correctness.
THEOREM TypeCorrect == Spec => []TypeOK
<1>1. ASSUME TypeOK, [Next]_vars
      PROVE  TypeOK'
    <2>1. CASE \E d \in Directions, b \in 1..MaxBytes : consumeBandwidth(d, b)
        BY <1>1, <2>1, ConsumeType
    <2>2. ASSUME NEW d \in Directions, NEW l \in Limits, updateSettings(d, l)
          PROVE  TypeOK'
        BY <1>1, <2>2 DEF updateSettings, TypeOK
    <2>3. CASE getStats
        <3>1. tokens' \in [Directions -> Nat]
            BY <1>1, <2>3, RefilledType DEF getStats
        <3>2. lastTokenRefillTime' \in 0..now' /\ since' \in 0..lastTokenRefillTime'
            BY <1>1, <2>3 DEF getStats, TypeOK
        <3> QED
            BY <1>1, <2>3, <3>1, <3>2 DEF getStats, TypeOK
    <2>4. CASE Tick
        BY <1>1, <2>4 DEF Tick, TypeOK
    <2>5. CASE UNCHANGED vars
        BY <1>1, <2>5 DEF vars, TypeOK
    <2> QED
        BY <1>1, <2>1, <2>2, <2>3, <2>4, <2>5 DEF Next
<1> QED
    BY <1>1, InitTypeOK, PTL DEF Spec
-----------------------------------------------------------------------------
LEMMA Numbers ==
    ASSUME TypeOK, NEW e \in Directions
    PROVE  /\ limit[e] \in Nat /\ granted[e] \in Nat /\ tokens[e] \in Nat /\ start[e] \in Nat
           /\ lastTokenRefillTime \in Nat /\ since \in Nat /\ now \in Nat /\ refills \in Nat
<1>1. limit[e] \in Limits /\ granted[e] \in Nat /\ tokens[e] \in Nat /\ start[e] \in Nat
    BY DEF TypeOK
<1>2. lastTokenRefillTime \in Nat /\ now \in Nat /\ refills \in Nat
    BY DEF TypeOK
<1>3. since \in Nat
    BY <1>2 DEF TypeOK
<1> QED
    BY <1>1, <1>2, <1>3, BandwidthAssumption

\* One more refill of e, of which less is taken than was there.
LEMMA RefillWithinBudget ==
    ASSUME TypeOK, GrantedWithinBudget, NEW e \in Directions, limit[e] > 0,
           NEW taken \in Nat, taken <= Refilled(e)
    PROVE  granted[e] + taken + (Refilled(e) - taken)
               <= start[e] + limit[e] * (now - since + (refills + 1))
<1>1. /\ limit[e] \in Nat /\ granted[e] \in Nat /\ tokens[e] \in Nat /\ start[e] \in Nat
      /\ lastTokenRefillTime \in Nat /\ since \in Nat /\ now \in Nat /\ refills \in Nat
    BY Numbers
<1>2. Refilled(e) \in Nat
      /\ Refilled(e) <= tokens[e] + limit[e] * (now - lastTokenRefillTime + 1)
    BY RefilledType
<1>3. granted[e] + tokens[e]
          <= start[e] + limit[e] * (lastTokenRefillTime - since + refills)
    BY DEF GrantedWithinBudget
<1>4. limit[e] * (lastTokenRefillTime - since + refills)
          + limit[e] * (now - lastTokenRefillTime + 1)
        = limit[e] * (now - since + (refills + 1))
    BY <1>1
<1> DEFINE before == limit[e] * (lastTokenRefillTime - since + refills)
           more == limit[e] * (now - lastTokenRefillTime + 1)
           after == limit[e] * (now - since + (refills + 1))
<1>5. before \in Int /\ more \in Int /\ after \in Int
    BY <1>1
<1> HIDE DEF before, more, after
<1>6. before + more = after
    BY <1>4 DEF before, more, after
<1>7. granted[e] + Refilled(e) <= start[e] + after
    <2>1. Refilled(e) <= tokens[e] + more /\ granted[e] + tokens[e] <= start[e] + before
        BY <1>2, <1>3 DEF before, more
    <2> QED
        BY <2>1, <1>1, <1>2, <1>5, <1>6
<1> QED
    BY <1>1, <1>2, <1>7 DEF after

\* Under a limit no more is granted than the bucket held, the limit's share of
\* the time that passed and one millisecond's for every call.
THEOREM BudgetKept == Spec => []GrantedWithinBudget
<1>1. Init => GrantedWithinBudget
    <2> SUFFICES ASSUME Init, NEW d \in Directions, limit[d] > 0
                 PROVE  granted[d] + tokens[d]
                            <= start[d] + limit[d] * (lastTokenRefillTime - since + refills)
        BY DEF GrantedWithinBudget
    <2>1. limit[d] \in Nat /\ start[d] \in Nat /\ tokens[d] = start[d] /\ granted[d] = 0
        BY InitTypeOK, BandwidthAssumption DEF Init, TypeOK
    <2>2. lastTokenRefillTime - since + refills = 0
        BY DEF Init
    <2> QED
        BY <2>1, <2>2
<1>2. ASSUME TypeOK, GrantedWithinBudget, [Next]_vars
      PROVE  GrantedWithinBudget'
    <2>1. ASSUME NEW d \in Directions, NEW b \in 1..MaxBytes, consumeBandwidth(d, b)
          PROVE  GrantedWithinBudget'
        <3> SUFFICES ASSUME NEW e \in Directions, limit[e] > 0
                     PROVE  granted'[e] + tokens'[e]
                                <= start[e] + limit[e] * (now - since + (refills + 1))
            BY <2>1 DEF consumeBandwidth, GrantedWithinBudget
        <3> DEFINE taken == IF e = d THEN Grant(d, b) ELSE 0
        <3>1. taken \in Nat /\ taken <= Refilled(e) /\ Refilled(e) \in Nat
            BY <1>2, GrantType, RefilledType, BandwidthAssumption
        <3>2. granted'[e] = granted[e] + taken /\ tokens'[e] = Refilled(e) - taken
            BY <1>2, <2>1, <3>1 DEF consumeBandwidth, TypeOK
        <3> HIDE DEF taken
        <3> QED
            BY <1>2, <3>1, <3>2, RefillWithinBudget
    <2>2. ASSUME NEW d \in Directions, NEW l \in Limits, updateSettings(d, l)
          PROVE  GrantedWithinBudget'
        <3> SUFFICES ASSUME NEW e \in Directions
                     PROVE  0 + tokens[e] <= tokens[e]
                                + limit'[e] * (lastTokenRefillTime - lastTokenRefillTime + 0)
            BY <2>2 DEF updateSettings, GrantedWithinBudget
        <3>1. tokens[e] \in Nat /\ lastTokenRefillTime \in Nat /\ limit'[e] \in Nat
            <4>1. limit' \in [Directions -> Limits]
                BY <1>2, <2>2 DEF TypeOK, updateSettings
            <4> QED
                BY <1>2, <4>1, Numbers, BandwidthAssumption
        <3>2. lastTokenRefillTime - lastTokenRefillTime + 0 = 0
            BY <3>1
        <3> QED
            BY <3>1, <3>2
    <2>3. CASE getStats
        <3> SUFFICES ASSUME NEW e \in Directions, limit[e] > 0
                     PROVE  granted[e] + Refilled(e)
                                <= start[e] + limit[e] * (now - since + (refills + 1))
            BY <2>3 DEF getStats, GrantedWithinBudget
        <3>1. Refilled(e) \in Nat /\ granted[e] \in Nat
            BY <1>2, RefilledType DEF TypeOK
        <3>2. granted[e] + 0 + (Refilled(e) - 0)
                  <= start[e] + limit[e] * (now - since + (refills + 1))
            BY <1>2, <3>1, RefillWithinBudget
        <3> QED
            BY <3>1, <3>2
    <2>4. CASE Tick
        BY <1>2, <2>4 DEF Tick, GrantedWithinBudget
    <2>5. CASE UNCHANGED vars
        BY <1>2, <2>5 DEF vars, GrantedWithinBudget
    <2> QED
        BY <1>2, <2>1, <2>2, <2>3, <2>4, <2>5 DEF Next
<1> QED
    BY <1>1, <1>2, TypeCorrect, PTL DEF Spec
-----------------------------------------------------------------------------
(***************************************************************************)
(* The rate limit of the DHT.                                              *)
(***************************************************************************)
\* What had passed before the moment m.
Before(m) == IF m = 0 THEN 0 ELSE passed[m - 1]

\* Nothing that passed is taken back.
Grows == \A m \in 0..dhtNow : /\ Before(m) <= passed[m]
                              /\ \A k \in 0..m : Before(k) <= Before(m)

\* The counter has at least what passed since the window began.
CounterCovers == passed[dhtNow] - Before(lastResetTime) <= bytesThisSecond

\* In a stretch that ends where the window begins one budget passed.
OneBudgetBefore ==
    \A first \in 0..lastResetTime :
        lastResetTime < first + Window => Before(lastResetTime) - Before(first) <= maxBytes

\* After its end nothing passes without a new window.
QuietAfter == \A m \in 0..dhtNow : m >= lastResetTime + Window => passed[m] = Before(m)

DhtInv == /\ D!TypeOK
          /\ Grows
          /\ CounterCovers
          /\ OneBudgetBefore
          /\ QuietAfter
          /\ AnyWindowWithinTwoBudgets

LEMMA ClockType == ASSUME D!TypeOK
                   PROVE  /\ dhtNow \in Nat /\ dhtNow <= MaxDhtNow
                          /\ lastResetTime \in Nat /\ lastResetTime <= dhtNow
                          /\ bytesThisSecond \in Nat /\ bytesThisSecond <= maxBytes
                          /\ queryCounter \in Nat /\ queryCounter <= maxQueriesPerSecond
                          /\ Window \in Nat /\ Window > 0 /\ maxBytes \in Nat
                          /\ maxQueriesPerSecond \in Nat /\ MaxDhtNow \in Nat
BY NetworkAssumption DEF D!TypeOK

LEMMA BeforeType == ASSUME D!TypeOK, NEW m \in 0..dhtNow
                    PROVE  Before(m) \in Nat /\ passed[m] \in Nat /\ m \in Nat
<1>1. m \in 0..MaxDhtNow /\ (m # 0 => m - 1 \in 0..MaxDhtNow) /\ m \in Nat
    BY ClockType
<1>2. passed[m] \in Nat /\ (m # 0 => passed[m - 1] \in Nat)
    BY <1>1 DEF D!TypeOK
<1> QED
    BY <1>1, <1>2 DEF Before

LEMMA StretchBytes == ASSUME NEW first, NEW last
                      PROVE  D!BytesIn(first, last) = passed[last] - Before(first)
BY DEF D!BytesIn, Before

LEMMA DhtInit == D!Init => DhtInv
<1> SUFFICES ASSUME D!Init PROVE DhtInv
    OBVIOUS
<1>1. D!TypeOK
    BY NetworkAssumption DEF D!Init, D!TypeOK
<1>2. dhtNow = 0 /\ lastResetTime = 0 /\ bytesThisSecond = 0 /\ passed[0] = 0 /\ Before(0) = 0
    BY NetworkAssumption DEF D!Init, Before
<1>3. \A m \in 0..dhtNow : m = 0
    BY <1>2
<1>4. Grows /\ CounterCovers /\ OneBudgetBefore /\ QuietAfter
    BY <1>2, <1>3, NetworkAssumption DEF Grows, CounterCovers, OneBudgetBefore, QuietAfter
<1>5. AnyWindowWithinTwoBudgets
    BY <1>2, <1>3, StretchBytes, NetworkAssumption
       DEF AnyWindowWithinTwoBudgets, D!AnyWindowWithinTwoBudgets
<1> QED
    BY <1>1, <1>4, <1>5 DEF DhtInv

\* At the present moment the property follows from the other parts: the stretch
\* lies in the window, or its beginning saw one budget and its end another.
TwoBudgetsToNow ==
    \A first \in 0..dhtNow :
        dhtNow < first + Window => passed[dhtNow] - Before(first) <= 2 * maxBytes

LEMMA TwoBudgetsNow ==
    D!TypeOK /\ Grows /\ CounterCovers /\ OneBudgetBefore => TwoBudgetsToNow
<1> SUFFICES ASSUME D!TypeOK, Grows, CounterCovers, OneBudgetBefore,
                    NEW first \in 0..dhtNow, dhtNow < first + Window
             PROVE  passed[dhtNow] - Before(first) <= 2 * maxBytes
    BY DEF TwoBudgetsToNow
<1>1. /\ first \in Nat /\ Before(first) \in Nat /\ passed[dhtNow] \in Nat
      /\ lastResetTime \in 0..dhtNow /\ Before(lastResetTime) \in Nat
    BY BeforeType, ClockType
<1>2. passed[dhtNow] - Before(lastResetTime) <= maxBytes
    BY <1>1, ClockType DEF CounterCovers
<1>3. CASE first <= lastResetTime
    <2>1. Before(lastResetTime) - Before(first) <= maxBytes
        BY <1>1, <1>3, ClockType DEF OneBudgetBefore
    <2> QED
        BY <1>1, <1>2, <2>1, ClockType
<1>4. CASE first > lastResetTime
    <2>1. Before(lastResetTime) <= Before(first)
        BY <1>1, <1>4, ClockType DEF Grows
    <2> QED
        BY <1>1, <1>2, <2>1, ClockType
<1> QED
    BY <1>1, <1>3, <1>4, ClockType
-----------------------------------------------------------------------------
\* What a check adds stays in the budget.
LEMMA WindowType ==
    ASSUME D!TypeOK
    PROVE  D!Bytes \in 0..maxBytes /\ D!Queries \in 0..maxQueriesPerSecond
BY ClockType DEF D!Bytes, D!Queries

LEMMA CountedType ==
    ASSUME D!TypeOK, NEW queries \in Nat, NEW size \in Nat, D!Counted(queries, size),
           D!Queries + queries <= maxQueriesPerSecond, D!Bytes + size <= maxBytes
    PROVE  D!TypeOK'
<1>1. queryCounter' \in 0..maxQueriesPerSecond /\ bytesThisSecond' \in 0..maxBytes
    BY WindowType, ClockType DEF D!Counted
<1>2. lastResetTime' \in 0..dhtNow' /\ dhtNow' \in 0..MaxDhtNow
    BY ClockType DEF D!Counted
<1>3. dhtNow \in 0..MaxDhtNow /\ passed[dhtNow] \in Nat
    BY ClockType, BeforeType
<1>4. passed' \in [0..MaxDhtNow -> Nat]
    BY <1>3 DEF D!Counted, D!TypeOK
<1> QED
    BY <1>1, <1>2, <1>4 DEF D!Counted, D!TypeOK

LEMMA CountedKeeps ==
    ASSUME DhtInv, NEW queries \in Nat, NEW size \in Nat, D!Counted(queries, size),
           D!Queries + queries <= maxQueriesPerSecond, D!Bytes + size <= maxBytes
    PROVE  DhtInv'
<1>1. D!TypeOK /\ D!TypeOK'
    BY CountedType DEF DhtInv
<1>2. dhtNow' = dhtNow /\ dhtNow \in Nat /\ dhtNow \in 0..dhtNow
    BY <1>1, ClockType DEF D!Counted
<1>3. \A m \in 0..dhtNow : /\ m \in Nat
                           /\ Before(m) \in Nat /\ passed[m] \in Nat
                           /\ Before(m)' = Before(m)
                           /\ m # dhtNow => passed'[m] = passed[m]
    <2> SUFFICES ASSUME NEW m \in 0..dhtNow
                 PROVE  /\ m \in Nat
                        /\ Before(m) \in Nat /\ passed[m] \in Nat
                        /\ Before(m)' = Before(m)
                        /\ m # dhtNow => passed'[m] = passed[m]
        OBVIOUS
    <2>1. m \in 0..MaxDhtNow /\ (m # 0 => m - 1 \in 0..MaxDhtNow /\ m - 1 # dhtNow)
        BY <1>1, ClockType
    <2>2. passed' = [passed EXCEPT ![dhtNow] = @ + size]
        BY DEF D!Counted
    <2>3. /\ m # dhtNow => passed'[m] = passed[m]
          /\ m # 0 => passed'[m - 1] = passed[m - 1]
        BY <1>1, <2>1, <2>2 DEF D!TypeOK
    <2> QED
        BY <1>1, <2>3, BeforeType DEF Before
<1>4. passed'[dhtNow] = passed[dhtNow] + size
    <2>1. dhtNow \in 0..MaxDhtNow
        BY <1>1, ClockType
    <2> QED
        BY <1>1, <2>1 DEF D!TypeOK, D!Counted
<1>5. Grows'
    <2>1. ASSUME NEW m \in 0..dhtNow
          PROVE  /\ Before(m)' <= passed'[m]
                 /\ \A k \in 0..m : Before(k)' <= Before(m)'
        <3>1. Before(m) <= passed[m] /\ \A k \in 0..m : Before(k) <= Before(m) /\ k \in 0..dhtNow
            BY <1>2 DEF DhtInv, Grows
        <3>2. \A k \in 0..m : Before(k)' = Before(k)
            BY <1>3, <3>1
        <3> QED
            BY <1>3, <1>4, <3>1, <3>2
    <2> QED
        BY <1>2, <2>1 DEF Grows
<1>6. lastResetTime \in 0..dhtNow /\ lastResetTime' \in 0..dhtNow
    BY <1>1, <1>2 DEF D!TypeOK
<1>7. CounterCovers' /\ OneBudgetBefore'
    <2>1. CASE D!Expired
        <3>1. lastResetTime' = dhtNow /\ bytesThisSecond' = size
            BY <2>1 DEF D!Counted, D!Bytes
        <3>2. passed[dhtNow] = Before(dhtNow)
            BY <1>1, <1>2, <2>1, ClockType DEF DhtInv, QuietAfter, D!Expired
        <3>3. CounterCovers'
            BY <1>2, <1>3, <1>4, <3>1, <3>2 DEF CounterCovers
        <3>4. ASSUME NEW first \in 0..dhtNow, dhtNow < first + Window
              PROVE  Before(dhtNow) - Before(first)' <= maxBytes
            <4>1. lastResetTime \in 0..first
                BY <1>1, <2>1, <3>4, ClockType DEF D!Expired
            <4>2. Before(lastResetTime) <= Before(first)
                BY <4>1 DEF DhtInv, Grows
            <4>3. passed[dhtNow] - Before(lastResetTime) <= bytesThisSecond
                BY DEF DhtInv, CounterCovers
            <4> QED
                BY <1>1, <1>2, <1>3, <1>6, <3>2, <4>2, <4>3, ClockType
        <3>5. Before(lastResetTime)' = Before(dhtNow)
            BY <1>2, <1>3, <3>1 DEF Before
        <3> QED
            BY <3>1, <3>3, <3>4, <3>5 DEF OneBudgetBefore
    <2>2. CASE ~D!Expired
        <3>1. lastResetTime' = lastResetTime /\ bytesThisSecond' = bytesThisSecond + size
            BY <2>2 DEF D!Counted, D!Bytes
        <3>2. CounterCovers'
            <4>1. passed[dhtNow] - Before(lastResetTime) <= bytesThisSecond
                BY DEF DhtInv, CounterCovers
            <4>2. passed'[dhtNow'] = passed[dhtNow] + size
                BY <1>2, <1>4
            <4>3. Before(lastResetTime)' = Before(lastResetTime)
                BY <1>3, <1>6, <3>1 DEF Before
            <4> QED
                BY <1>1, <1>2, <1>3, <1>6, <3>1, <4>1, <4>2, <4>3, ClockType DEF CounterCovers
        <3>3. \A first \in 0..lastResetTime : first \in 0..dhtNow
            BY <1>6, <1>2
        <3>4. \A first \in 0..lastResetTime :
                  lastResetTime < first + Window
                      => Before(lastResetTime)' - Before(first)' <= maxBytes
            BY <1>3, <1>6, <3>1, <3>3 DEF DhtInv, OneBudgetBefore, Before
        <3>5. OneBudgetBefore'
            BY <3>1, <3>4 DEF OneBudgetBefore, Before
        <3> QED
            BY <3>2, <3>5
    <2> QED
        BY <2>1, <2>2
<1>8. QuietAfter'
    <2>1. dhtNow < lastResetTime' + Window
        BY <1>1, ClockType DEF D!Counted, D!Expired
    <2> QED
        BY <1>1, <1>2, <1>6, <2>1, ClockType DEF QuietAfter
<1>9. AnyWindowWithinTwoBudgets'
    <2> SUFFICES ASSUME NEW last \in 0..dhtNow, NEW first \in 0..last, last < first + Window
                 PROVE  passed'[last] - Before(first)' <= 2 * maxBytes
        BY <1>2 DEF AnyWindowWithinTwoBudgets, D!AnyWindowWithinTwoBudgets, D!BytesIn, Before
    <2>1. first \in 0..dhtNow
        BY <1>2
    <2>2. CASE last = dhtNow
        <3>1. (D!TypeOK /\ Grows /\ CounterCovers /\ OneBudgetBefore => TwoBudgetsToNow)'
            BY TwoBudgetsNow, PTL
        <3>2. TwoBudgetsToNow'
            BY <1>1, <1>5, <1>7, <3>1
        <3> QED
            BY <1>2, <2>1, <2>2, <3>2 DEF TwoBudgetsToNow, Before
    <2>3. CASE last # dhtNow
        <3>1. passed[last] - Before(first) <= 2 * maxBytes
            BY StretchBytes
               DEF DhtInv, AnyWindowWithinTwoBudgets, D!AnyWindowWithinTwoBudgets
        <3> QED
            BY <1>3, <2>1, <2>3, <3>1
    <2> QED
        BY <2>2, <2>3
<1> QED
    BY <1>1, <1>5, <1>7, <1>8, <1>9 DEF DhtInv
-----------------------------------------------------------------------------
LEMMA DhtTick ==
    ASSUME DhtInv, D!Tick
    PROVE  DhtInv'
<1>1. /\ D!TypeOK
      /\ dhtNow \in Nat /\ dhtNow' = dhtNow + 1 /\ dhtNow + 1 <= MaxDhtNow
      /\ lastResetTime' = lastResetTime /\ bytesThisSecond' = bytesThisSecond
      /\ lastResetTime \in 0..dhtNow
      /\ passed' = [passed EXCEPT ![dhtNow + 1] = passed[dhtNow]]
    BY ClockType DEF DhtInv, D!Tick, D!TypeOK
<1>2. passed[dhtNow] \in Nat
    BY <1>1, BeforeType
<1>3. D!TypeOK'
    <2>1. passed' \in [0..MaxDhtNow -> Nat]
        BY <1>1, <1>2 DEF D!TypeOK
    <2>2. dhtNow' \in 0..MaxDhtNow /\ lastResetTime' \in 0..dhtNow'
        BY <1>1, ClockType
    <2> QED
        BY <1>1, <2>1, <2>2 DEF D!TypeOK, D!Tick
<1>4. /\ passed'[dhtNow + 1] = passed[dhtNow]
      /\ \A m : m = dhtNow + 1 => Before(m)' = passed[dhtNow]
    <2>1. dhtNow \in 0..MaxDhtNow /\ dhtNow + 1 \in 0..MaxDhtNow /\ dhtNow + 1 # 0
          /\ (dhtNow + 1) - 1 = dhtNow /\ dhtNow # dhtNow + 1
        BY <1>1, ClockType
    <2>2. passed'[dhtNow + 1] = passed[dhtNow] /\ passed'[dhtNow] = passed[dhtNow]
        BY <1>1, <2>1 DEF D!TypeOK
    <2> QED
        BY <1>1, <2>1, <2>2 DEF Before
<1>5. \A m \in 0..dhtNow : /\ m \in Nat /\ Before(m) \in Nat /\ passed[m] \in Nat
                           /\ Before(m)' = Before(m) /\ passed'[m] = passed[m]
    <2> SUFFICES ASSUME NEW m \in 0..dhtNow
                 PROVE  /\ m \in Nat /\ Before(m) \in Nat /\ passed[m] \in Nat
                        /\ Before(m)' = Before(m) /\ passed'[m] = passed[m]
        OBVIOUS
    <2>1. /\ m \in 0..MaxDhtNow /\ m # dhtNow + 1
          /\ m # 0 => m - 1 \in 0..MaxDhtNow /\ m - 1 # dhtNow + 1
        BY <1>1, ClockType
    <2>2. passed'[m] = passed[m] /\ (m # 0 => passed'[m - 1] = passed[m - 1])
        BY <1>1, <2>1 DEF D!TypeOK
    <2> QED
        BY <1>1, <2>2, BeforeType DEF Before
<1>6. \A m \in 0..dhtNow' : m \in 0..dhtNow \/ m = dhtNow + 1
    BY <1>1
<1>7. Grows'
    <2>1. ASSUME NEW m \in 0..dhtNow
          PROVE  /\ Before(m)' <= passed'[m]
                 /\ \A k \in 0..m : Before(k)' <= Before(m)'
        <3>1. Before(m) <= passed[m] /\ \A k \in 0..m : Before(k) <= Before(m) /\ k \in 0..dhtNow
            BY <1>1 DEF DhtInv, Grows
        <3>2. \A k \in 0..m : Before(k)' = Before(k)
            BY <1>5, <3>1
        <3> QED
            BY <1>5, <3>1, <3>2
    <2>2. \A m : m = dhtNow + 1 => Before(m)' <= passed'[m]
        BY <1>1, <1>2, <1>4
    <2>3. ASSUME NEW m, m = dhtNow + 1, NEW k \in 0..m
          PROVE  Before(k)' <= Before(m)'
        <3>1. CASE k \in 0..dhtNow
            <4>1. Before(k) <= Before(dhtNow) /\ Before(dhtNow) <= passed[dhtNow]
                BY <1>1, <3>1 DEF DhtInv, Grows
            <4> QED
                BY <1>1, <1>2, <1>4, <1>5, <2>3, <3>1, <4>1
        <3>2. CASE k = m
            BY <1>2, <1>4, <2>3, <3>2
        <3> QED
            BY <1>1, <2>3, <3>1, <3>2
    <2> QED
        BY <1>1, <1>6, <2>1, <2>2, <2>3 DEF Grows
<1>8. CounterCovers'
    BY <1>1, <1>4, <1>5 DEF DhtInv, CounterCovers, Before
<1>9. OneBudgetBefore'
    <2>1. ASSUME NEW first \in 0..lastResetTime, lastResetTime < first + Window
          PROVE  Before(lastResetTime)' - Before(first)' <= maxBytes
        <3>1. first \in 0..dhtNow
            BY <1>1
        <3>2. Before(lastResetTime) - Before(first) <= maxBytes
            BY <2>1 DEF DhtInv, OneBudgetBefore
        <3>3. Before(first)' = Before(first)
            BY <1>5, <3>1
        <3>4. Before(lastResetTime)' = Before(lastResetTime)
            BY <1>1, <1>5 DEF Before
        <3> QED
            BY <3>2, <3>3, <3>4
    <2> QED
        BY <1>1, <2>1 DEF OneBudgetBefore, Before
<1>10. QuietAfter'
    <2>1. ASSUME NEW m \in 0..dhtNow', m >= lastResetTime + Window
          PROVE  passed'[m] = Before(m)'
        <3>1. CASE m \in 0..dhtNow
            BY <1>5, <2>1, <3>1 DEF DhtInv, QuietAfter
        <3>2. CASE m = dhtNow + 1
            BY <1>1, <1>4, <3>2
        <3> QED
            BY <1>6, <3>1, <3>2
    <2> QED
        BY <1>1, <2>1 DEF QuietAfter
<1>11. AnyWindowWithinTwoBudgets'
    <2> SUFFICES ASSUME NEW last \in 0..dhtNow', NEW first \in 0..last, last < first + Window
                 PROVE  passed'[last] - Before(first)' <= 2 * maxBytes
        BY DEF AnyWindowWithinTwoBudgets, D!AnyWindowWithinTwoBudgets, D!BytesIn, Before
    <2>1. \A m \in 0..dhtNow : \A k \in 0..m :
              m < k + Window => passed[m] - Before(k) <= 2 * maxBytes
        BY StretchBytes DEF DhtInv, AnyWindowWithinTwoBudgets, D!AnyWindowWithinTwoBudgets
    <2>2. CASE last \in 0..dhtNow
        <3>1. first \in 0..dhtNow
            BY <1>1, <2>2
        <3> QED
            BY <1>5, <2>1, <2>2, <3>1
    <2>3. CASE last = dhtNow + 1
        <3>1. CASE first = dhtNow + 1
            BY <1>1, <1>2, <1>4, <2>3, <3>1, ClockType
        <3>2. CASE first \in 0..dhtNow
            <4>1. dhtNow < first + Window
                BY <1>1, <2>3, <3>2, ClockType
            <4>2. passed[dhtNow] - Before(first) <= 2 * maxBytes
                BY <1>1, <2>1, <3>2, <4>1
            <4> QED
                BY <1>1, <1>4, <1>5, <2>3, <3>2, <4>2
        <3> QED
            BY <1>1, <2>3, <3>1, <3>2
    <2> QED
        BY <1>6, <2>2, <2>3
<1> QED
    BY <1>3, <1>7, <1>8, <1>9, <1>10, <1>11 DEF DhtInv

LEMMA DhtStep == ASSUME DhtInv, [D!Next]_D!vars
                 PROVE  DhtInv'
<1> USE DEF DhtInv
<1>1. /\ D!Queries + 0 <= maxQueriesPerSecond /\ D!Bytes + 0 <= maxBytes
      /\ D!Bytes \in Nat /\ D!Queries \in Nat
    BY WindowType, ClockType
<1>2. ASSUME NEW size \in Packets, D!checkQueryRateLimit(size)
      PROVE  DhtInv'
    <2>1. size \in Nat
        BY NetworkAssumption
    <2>2. CASE D!Queries >= maxQueriesPerSecond \/ D!Bytes + size > maxBytes
        BY <1>1, <1>2, <2>2, CountedKeeps DEF D!checkQueryRateLimit
    <2>3. CASE ~(D!Queries >= maxQueriesPerSecond \/ D!Bytes + size > maxBytes)
        <3>1. D!Counted(1, size)
            BY <1>2, <2>3 DEF D!checkQueryRateLimit
        <3>2. D!Queries + 1 <= maxQueriesPerSecond /\ D!Bytes + size <= maxBytes
            BY <1>1, <2>1, <2>3, ClockType
        <3> QED
            BY <2>1, <3>1, <3>2, CountedKeeps
    <2> QED
        BY <2>2, <2>3
<1>3. ASSUME NEW size \in Packets, D!checkBandwidthLimit(size)
      PROVE  DhtInv'
    <2>1. size \in Nat
        BY NetworkAssumption
    <2>2. CASE D!Bytes + size > maxBytes
        BY <1>1, <1>3, <2>2, CountedKeeps DEF D!checkBandwidthLimit
    <2>3. CASE ~(D!Bytes + size > maxBytes)
        <3>1. D!Counted(0, size)
            BY <1>3, <2>3 DEF D!checkBandwidthLimit
        <3>2. D!Bytes + size <= maxBytes
            BY <1>1, <2>1, <2>3, ClockType
        <3> QED
            BY <1>1, <2>1, <3>1, <3>2, CountedKeeps
    <2> QED
        BY <2>2, <2>3
<1>4. ASSUME UNCHANGED <<queryCounter, bytesThisSecond, lastResetTime, dhtNow, passed>>,
             (allowedInfoHashes \subseteq Hashes)'
      PROVE  DhtInv'
    BY <1>4 DEF D!TypeOK, Grows, CounterCovers, OneBudgetBefore, QuietAfter, Before,
                AnyWindowWithinTwoBudgets, D!AnyWindowWithinTwoBudgets, D!BytesIn
<1>5. ASSUME NEW h \in Hashes, D!pinSwarmInfoHash(h) \/ D!unpinSwarmInfoHash(h)
      PROVE  DhtInv'
    <2>1. (allowedInfoHashes \subseteq Hashes)'
        BY <1>5 DEF D!pinSwarmInfoHash, D!unpinSwarmInfoHash, D!TypeOK
    <2> QED
        BY <1>4, <1>5, <2>1 DEF D!pinSwarmInfoHash, D!unpinSwarmInfoHash
<1>6. CASE UNCHANGED D!vars
    BY <1>4, <1>6 DEF D!vars, D!TypeOK
<1> QED
    BY <1>2, <1>3, <1>5, <1>6, DhtTick DEF D!Next
-----------------------------------------------------------------------------
(***************************************************************************)
(* The announces.                                                          *)
(***************************************************************************)
LEMMA CallsType ==
    ASSUME NEW c \in A!Callers, NEW h \in Hashes, NEW e \in A!Events
    PROVE  A!Calls(c, h, e) \subseteq A!Announce
BY DEF A!Calls, A!Announce, A!Phases

LEMMA AnnounceInit == A!Init => A!TypeOK
<1> SUFFICES ASSUME A!Init PROVE A!TypeOK
    OBVIOUS
<1>1. state \in [Hashes -> {"none", "paused", "seeding", "downloading"}]
    <2>1. \A s \in [Hashes -> {"none", "downloading"}] :
              s \in [Hashes -> {"none", "paused", "seeding", "downloading"}]
        OBVIOUS
    <2> QED
        BY <2>1 DEF A!Init
<1>2. sweeps \in [Sweeps -> SUBSET Hashes]
    BY DEF A!Init
<1> QED
    BY <1>1, <1>2, NetworkAssumption DEF A!Init, A!TypeOK

\* An operation of the user announces one torrent, which nobody waits for.
LEMMA UserOpType ==
    ASSUME A!TypeOK, A!UserOp, NEW h \in Hashes,
           NEW e \in A!Events, announces' = announces \cup A!Calls("nobody", h, e),
           \/ UNCHANGED state
           \/ \E s \in {"none", "paused", "seeding", "downloading"} :
                  state' = [state EXCEPT ![h] = s]
    PROVE  A!TypeOK'
<1>1. announces' \subseteq A!Announce
    BY CallsType DEF A!TypeOK, A!Callers
<1>2. state' \in [Hashes -> {"none", "paused", "seeding", "downloading"}]
    BY DEF A!TypeOK
<1>3. ops' \in 0..MaxOps
    BY NetworkAssumption DEF A!UserOp, A!TypeOK
<1> QED
    BY <1>1, <1>2, <1>3 DEF A!UserOp, A!TypeOK

LEMMA BecomesType ==
    ASSUME A!TypeOK, NEW a \in announces, NEW S, S \subseteq A!Announce, A!Becomes(a, S),
           listed' \subseteq A!Trackers \X Hashes
    PROVE  A!TypeOK'
BY DEF A!Becomes, A!TypeOK

LEMMA AnnounceStep == ASSUME A!TypeOK, [A!Next]_A!vars
                      PROVE  A!TypeOK'
<1>1. ASSUME NEW h \in Hashes,
             \/ A!pauseTorrent(h)
             \/ A!resumeTorrent(h)
             \/ A!removeTorrent(h)
             \/ A!reannounceTorrent(h)
             \/ A!registerSeedingManifest(h)
      PROVE  A!TypeOK'
    <2>1. {"started", "stopped", "update"} \subseteq A!Events
        BY DEF A!Events
    <2>2. CASE A!pauseTorrent(h)
        BY <2>1, <2>2, UserOpType DEF A!pauseTorrent
    <2>3. CASE A!resumeTorrent(h)
        BY <2>1, <2>3, UserOpType DEF A!resumeTorrent
    <2>4. CASE A!removeTorrent(h)
        BY <2>1, <2>4, UserOpType DEF A!removeTorrent
    <2>5. CASE A!reannounceTorrent(h)
        BY <2>1, <2>5, UserOpType DEF A!reannounceTorrent
    <2>6. CASE A!registerSeedingManifest(h)
        BY <2>1, <2>6, UserOpType DEF A!registerSeedingManifest
    <2> QED
        BY <1>1, <2>2, <2>3, <2>4, <2>5, <2>6
<1>2. ASSUME NEW s \in Sweeps, A!announceAllActiveSwarms(s)
      PROVE  A!TypeOK'
    <2>1. A!Active \in SUBSET Hashes
        BY DEF A!Active
    <2> QED
        BY <1>2, <2>1 DEF A!announceAllActiveSwarms, A!TypeOK
<1>3. ASSUME NEW s \in Sweeps, NEW h \in Hashes, A!SweepAnnounces(s, h)
      PROVE  A!TypeOK'
    <2>1. announces' \subseteq A!Announce
        BY <1>3, CallsType DEF A!SweepAnnounces, A!TypeOK, A!Callers, A!Events
    <2>2. sweeps' \in [Sweeps -> SUBSET Hashes]
        BY <1>3 DEF A!SweepAnnounces, A!TypeOK
    <2> QED
        BY <1>3, <2>1, <2>2 DEF A!SweepAnnounces, A!TypeOK
<1>4. ASSUME NEW a \in announces, A!UdpConnected(a) \/ A!Hears(a) \/ A!Settles(a) \/ A!CutOff(a)
      PROVE  A!TypeOK'
    <2>1. a \in A!Announce /\ listed \subseteq A!Trackers \X Hashes
        BY DEF A!TypeOK
    <2>2. /\ \A p \in A!Phases : [a EXCEPT !.phase = p] \in A!Announce
          /\ [a EXCEPT !.by = "nobody"] \in A!Announce
        BY <2>1 DEF A!Announce, A!Callers
    <2>3. CASE A!UdpConnected(a)
        BY <2>1, <2>2, <2>3, BecomesType DEF A!UdpConnected, A!Phases
    <2>4. CASE A!Hears(a)
        <3>1. listed' \subseteq A!Trackers \X Hashes
            BY <2>1, <2>4 DEF A!Hears, A!Announce
        <3> QED
            BY <2>2, <2>4, <3>1, BecomesType DEF A!Hears, A!Phases
    <2>5. CASE A!Settles(a)
        <3>1. A!Becomes(a, {}) \/ A!Becomes(a, {[a EXCEPT !.by = "nobody"]})
            BY <2>5 DEF A!Settles
        <3> QED
            BY <2>1, <2>2, <2>5, <3>1, BecomesType DEF A!Settles
    <2>6. CASE A!CutOff(a)
        BY <2>1, <2>2, <2>6, BecomesType DEF A!CutOff, A!Phases
    <2> QED
        BY <1>4, <2>3, <2>4, <2>5, <2>6
<1>5. CASE UNCHANGED A!vars
    BY <1>5 DEF A!vars, A!TypeOK
<1> QED
    BY <1>1, <1>2, <1>3, <1>4, <1>5 DEF A!Next
-----------------------------------------------------------------------------
(***************************************************************************)
(* The parts together.                                                     *)
(***************************************************************************)
\* What the behaviours of the parts together start with and what their steps do
\* to each part.
LEMMA PartsInit == NetworkInit => Init /\ D!Init /\ A!Init
BY DEF NetworkInit

LEMMA PartsStep ==
    [NetworkNext]_<<part, vars, dhtVars, announceVars>>
        => [Next]_vars /\ [D!Next]_D!vars /\ [A!Next]_A!vars
<1> SUFFICES ASSUME [NetworkNext]_<<part, vars, dhtVars, announceVars>>
             PROVE  [Next]_vars /\ [D!Next]_D!vars /\ [A!Next]_A!vars
    OBVIOUS
<1>1. D!vars = dhtVars /\ A!vars = announceVars
      /\ D!vars' = dhtVars' /\ A!vars' = announceVars'
    BY DEF D!vars, A!vars, dhtVars, announceVars
<1>2. \/ Next /\ UNCHANGED <<dhtVars, announceVars>>
      \/ D!Next /\ UNCHANGED <<vars, announceVars>>
      \/ A!Next /\ UNCHANGED <<vars, dhtVars>>
      \/ UNCHANGED <<part, vars, dhtVars, announceVars>>
    BY DEF NetworkNext
<1> QED
    BY <1>1, <1>2

\* Each part on its own does what its specification says: the composition only
\* puts them side by side.
THEOREM PartsAlone == NetworkSpec => Spec /\ D!Spec
BY PartsInit, PartsStep, PTL DEF NetworkSpec, Spec, D!Spec

\* The types of the buckets, of the DHT's counters and of the announces.
THEOREM NetworkTypeCorrect == NetworkSpec => []NetworkTypeOK
<1>1. NetworkSpec => []TypeOK
    BY PartsAlone, TypeCorrect, PTL
<1>2. NetworkSpec => []D!TypeOK
    <2>1. NetworkSpec => []DhtInv
        BY PartsInit, PartsStep, DhtInit, DhtStep, PTL DEF NetworkSpec
    <2>2. DhtInv => D!TypeOK
        BY DEF DhtInv
    <2> QED
        BY <2>1, <2>2, PTL
<1>3. NetworkSpec => []A!TypeOK
    BY PartsInit, PartsStep, AnnounceInit, AnnounceStep, PTL DEF NetworkSpec
<1>4. TypeOK /\ D!TypeOK /\ A!TypeOK => NetworkTypeOK
    BY DEF NetworkTypeOK
<1> QED
    BY <1>1, <1>2, <1>3, <1>4, PTL

\* The budget of a bucket holds among the other parts as well.
THEOREM NetworkBudgetKept == NetworkSpec => []GrantedWithinBudget
BY PartsAlone, BudgetKept, PTL

\* In any stretch of time as long as a window no more than two budgets of the
\* DHT's bytes are let through, wherever the windows begin
\* (checkQueryRateLimit, checkBandwidthLimit).
THEOREM TwoBudgetsAtMost == NetworkSpec => []AnyWindowWithinTwoBudgets
<1>1. DhtInv => AnyWindowWithinTwoBudgets
    BY DEF DhtInv
<1> QED
    BY <1>1, PartsInit, PartsStep, DhtInit, DhtStep, PTL DEF NetworkSpec
=============================================================================
