-------------------------- MODULE SyncQueueProofs --------------------------
(***************************************************************************)
(* Proofs about SyncQueue, for every set of hashes and calls and every       *)
(* bound: the types, what reaches the library, and what Verified means.      *)
(***************************************************************************)
EXTENDS SyncQueue, SequenceTheorems, TLAPS

-----------------------------------------------------------------------------
Item == [hash: Hashes, state: SyncQueueState]

\* A call at work, and an entry of the queue, point at an item of their own hash.
Points ==
    /\ \A h \in Hashes : queue[h] # 0 => items[queue[h]].hash = h
    /\ \A c \in Calls : calls[c].phase # "idle" =>
           /\ calls[c].hash \in Hashes
           /\ calls[c].item \in 1..Len(items)
           /\ items[calls[c].item].hash = calls[c].hash

Typed == TypeOK /\ Points

LEMMA TransitionTyped ==
    ASSUME Typed, NEW i \in 1..Len(items), NEW state \in SyncQueueState, transition(i, state)
    PROVE  /\ items' \in Seq(Item)
           /\ Len(items') = Len(items)
           /\ \A j \in 1..Len(items) : items'[j].hash = items[j].hash
           /\ items'[i].state = state
           /\ \A j \in 1..Len(items) : j # i => items'[j] = items[j]
<1>1. items \in Seq(Item) /\ items[i] \in Item
  <2>1. items \in Seq(Item)
    BY DEF Typed, TypeOK, Item
  <2> QED
    BY <2>1, ElementOfSeq
<1>2. [items[i] EXCEPT !.state = state] \in Item
  BY <1>1 DEF Item
<1>3. items' = [items EXCEPT ![i] = [items[i] EXCEPT !.state = state]]
  BY <1>1 DEF transition
<1>4. [items[i] EXCEPT !.state = state].hash = items[i].hash
      /\ [items[i] EXCEPT !.state = state].state = state
  BY <1>1 DEF Item
<1>5. /\ items' \in Seq(Item) /\ Len(items') = Len(items)
      /\ \A j \in 1..Len(items) :
             items'[j] = IF j = i THEN [items[i] EXCEPT !.state = state] ELSE items[j]
  BY <1>1, <1>2, <1>3, ExceptSeq
<1> QED
  BY <1>4, <1>5

LEMMA QueuedItem ==
    ASSUME Typed, NEW h \in Hashes, Found(h)
    PROVE  queue[h] \in 1..Len(items) /\ items[queue[h]].hash = h
BY DEF Typed, TypeOK, Points, Found

\* What a transition of one item leaves to show of a step that moves no call to another item.
LEMMA ItemsStepTyped ==
    ASSUME Typed, NEW i \in 1..Len(items), NEW state \in SyncQueueState, transition(i, state),
           queue' \in [Hashes -> 0..Len(items)],
           \A h \in Hashes : queue'[h] = queue[h] \/ queue'[h] = 0,
           calls' \in [Calls -> Call],
           \A c \in Calls : \/ calls'[c].phase = "idle"
                            \/ /\ calls'[c].hash \in Hashes
                               /\ calls'[c].item \in 1..Len(items)
                               /\ items[calls'[c].item].hash = calls'[c].hash,
           part' \in [Hashes -> Contents], library' \in [Hashes -> Contents],
           matched' \subseteq Hashes
    PROVE  Typed'
<1>1. items' \in Seq(Item) /\ Len(items') = Len(items)
      /\ \A j \in 1..Len(items) : items'[j].hash = items[j].hash
  BY TransitionTyped
<1>2. \A h \in Hashes : queue'[h] # 0 => queue'[h] \in 1..Len(items) /\ items[queue'[h]].hash = h
  BY DEF Typed, TypeOK, Points
<1>3. unread' \subseteq 1..MaxItems
  BY DEF Typed, TypeOK, transition
<1> QED
  BY <1>1, <1>2, <1>3 DEF Typed, TypeOK, Points, Item

LEMMA StatesTyped ==
    {"Quarantine", "Validating", "Queued", "Active", "Verified", "Paused", "Cancelled", "Failed"}
        \subseteq SyncQueueState
BY DEF SyncQueueState

LEMMA CallsUntouched ==
    ASSUME Typed
    PROVE  \A c \in Calls : \/ calls[c].phase = "idle"
                            \/ /\ calls[c].hash \in Hashes
                               /\ calls[c].item \in 1..Len(items)
                               /\ items[calls[c].item].hash = calls[c].hash
BY DEF Typed, Points

LEMMA EnqueueTyped ==
    ASSUME Typed, NEW h \in Hashes, enqueueModel(h)
    PROVE  Typed'
<1> DEFINE new == [hash |-> h, state |-> "Queued"]
<1>1. items \in Seq(Item) /\ new \in Item /\ Len(items) \in Nat
  BY DEF Typed, TypeOK, Item, SyncQueueState
<1>2. items' = Append(items, new) /\ Len(items) < MaxItems
  BY DEF enqueueModel
<1>3. /\ items' \in Seq(Item) /\ Len(items') = Len(items) + 1
      /\ \A j \in 1..Len(items) : items'[j] = items[j]
      /\ items'[Len(items) + 1] = new
  BY <1>1, <1>2
<1>4. queue' \in [Hashes -> 0..Len(items')]
  BY <1>1, <1>3 DEF Typed, TypeOK, enqueueModel
<1>5. Len(items') \in 0..MaxItems
  BY <1>1, <1>2, <1>3, QueueAssumption
<1>6. \A g \in Hashes : queue'[g] # 0 => items'[queue'[g]].hash = g
  BY <1>1, <1>3 DEF Typed, TypeOK, Points, enqueueModel
<1>7. \A c \in Calls : calls'[c].phase # "idle" =>
           /\ calls'[c].hash \in Hashes
           /\ calls'[c].item \in 1..Len(items')
           /\ items'[calls'[c].item].hash = calls'[c].hash
  BY <1>1, <1>3 DEF Typed, TypeOK, Points, enqueueModel
<1> QED
  BY <1>3, <1>4, <1>5, <1>6, <1>7 DEF Typed, TypeOK, Points, Item, enqueueModel

LEMMA UserMovesTyped ==
    ASSUME Typed, NEW h \in Hashes,
           markActive(h) \/ pauseItem(h) \/ resumeItem(h) \/ cancelItem(h)
    PROVE  Typed'
<1>1. queue[h] \in 1..Len(items)
  BY QueuedItem DEF markActive, pauseItem, resumeItem, Move, cancelItem
<1>2. PICK state \in {"Active", "Paused", "Cancelled"} : transition(queue[h], state)
  BY DEF markActive, pauseItem, resumeItem, Move, cancelItem
<1>3. /\ queue' \in [Hashes -> 0..Len(items)]
      /\ \A g \in Hashes : queue'[g] = queue[g] \/ queue'[g] = 0
  <2>1. queue' = queue \/ queue' = [queue EXCEPT ![h] = 0]
    BY DEF markActive, pauseItem, resumeItem, Move, cancelItem
  <2>2. queue \in [Hashes -> 0..Len(items)] /\ 0 \in 0..Len(items)
    BY <1>1 DEF Typed, TypeOK
  <2> QED
    BY <2>1, <2>2
<1>4. part' \in [Hashes -> Contents]
  BY DEF Typed, TypeOK, markActive, pauseItem, resumeItem, Move, cancelItem, Contents
<1>5. UNCHANGED <<calls, library, matched>>
  BY DEF markActive, pauseItem, resumeItem, Move, cancelItem
<1> QED
  BY <1>1, <1>2, <1>3, <1>4, <1>5, StatesTyped, CallsUntouched, ItemsStepTyped DEF Typed, TypeOK

LEMMA CompleteTyped ==
    ASSUME Typed, NEW c \in Calls, NEW h \in Hashes, handleDownloadComplete(c, h)
    PROVE  Typed'
<1>1. queue[h] \in 1..Len(items) /\ items[queue[h]].hash = h
  BY QueuedItem DEF handleDownloadComplete
<1>2. PICK state \in {"Quarantine", "Validating"} : transition(queue[h], state)
  BY DEF handleDownloadComplete
<1> DEFINE call == [phase |-> "verifying", hash |-> h, item |-> queue[h], matches |-> FALSE]
<1>3. call \in Call
  <2>1. Len(items) \in 0..MaxItems
    BY DEF Typed, TypeOK
  <2>2. queue[h] \in 0..MaxItems
    BY <1>1, <2>1, QueueAssumption
  <2> QED
    BY <2>2 DEF Call
<1>4. calls' = calls \/ calls' = [calls EXCEPT ![c] = call]
  BY DEF handleDownloadComplete
<1>5. calls' \in [Calls -> Call]
  BY <1>3, <1>4 DEF Typed, TypeOK
<1>6. \A d \in Calls : \/ calls'[d].phase = "idle"
                       \/ /\ calls'[d].hash \in Hashes
                          /\ calls'[d].item \in 1..Len(items)
                          /\ items[calls'[d].item].hash = calls'[d].hash
  <2>1. call.hash = h /\ call.item = queue[h]
    OBVIOUS
  <2>2. calls \in [Calls -> Call]
    BY DEF Typed, TypeOK
  <2> HIDE DEF call
  <2>3. CASE calls' = calls
    BY <2>3, CallsUntouched
  <2>4. CASE calls' = [calls EXCEPT ![c] = call]
    <3>1. ASSUME NEW d \in Calls, d # c PROVE calls'[d] = calls[d]
      BY <2>2, <2>4, <3>1
    <3>2. calls'[c] = call
      BY <2>2, <2>4
    <3> QED
      BY <1>1, <2>1, <3>1, <3>2, CallsUntouched
  <2> QED
    BY <1>4, <2>3, <2>4
<1> QED
  BY <1>1, <1>2, <1>5, <1>6, StatesTyped, ItemsStepTyped DEF Typed, TypeOK, handleDownloadComplete

\* A call that is at work points at an item of its hash.
LEMMA CallAtWork ==
    ASSUME Typed, NEW c \in Calls, calls[c].phase # "idle"
    PROVE  /\ calls[c] \in Call
           /\ calls[c].hash \in Hashes
           /\ calls[c].item \in 1..Len(items)
           /\ items[calls[c].item].hash = calls[c].hash
BY DEF Typed, TypeOK, Points

LEMMA IdleCallTyped == IdleCall \in Call
BY QueueAssumption DEF IdleCall, Call

\* The handler's ways out: the item gets its state, the call is idle again.
LEMMA EndsTyped ==
    ASSUME Typed, NEW c \in Calls, calls[c].phase # "idle", NEW state \in SyncQueueState,
           transition(calls[c].item, state), calls' = [calls EXCEPT ![c] = IdleCall],
           UNCHANGED <<queue, part, library, matched>>
    PROVE  Typed'
<1>1. calls' \in [Calls -> Call]
  BY IdleCallTyped DEF Typed, TypeOK
<1>2. \A d \in Calls : \/ calls'[d].phase = "idle"
                       \/ /\ calls'[d].hash \in Hashes
                          /\ calls'[d].item \in 1..Len(items)
                          /\ items[calls'[d].item].hash = calls'[d].hash
  BY CallsUntouched DEF Typed, TypeOK, IdleCall
<1> QED
  BY <1>1, <1>2, CallAtWork, ItemsStepTyped DEF Typed, TypeOK

\* The steps that move a call on and leave the items alone.
LEMMA GoesOnTyped ==
    ASSUME Typed, NEW c \in Calls, calls[c].phase # "idle",
           NEW phase \in {"read", "registering"}, NEW matches \in BOOLEAN,
           calls' = [calls EXCEPT ![c].phase = phase, ![c].matches = matches],
           UNCHANGED <<queue, items>>,
           part' \in [Hashes -> Contents], library' \in [Hashes -> Contents],
           matched' \subseteq Hashes, UNCHANGED unread
    PROVE  Typed'
<1> DEFINE call == [calls[c] EXCEPT !.phase = phase, !.matches = matches]
<1>1. call \in Call /\ call.hash = calls[c].hash /\ call.item = calls[c].item
  BY CallAtWork DEF Call
<1>2. calls' = [calls EXCEPT ![c] = call]
  BY DEF Typed, TypeOK
<1>3. calls' \in [Calls -> Call]
  BY <1>1, <1>2 DEF Typed, TypeOK
<1>4. \A d \in Calls : calls'[d].phase # "idle" =>
           /\ calls'[d].hash \in Hashes
           /\ calls'[d].item \in 1..Len(items)
           /\ items[calls'[d].item].hash = calls'[d].hash
  BY <1>1, <1>2, CallAtWork DEF Typed, TypeOK, Points
<1> QED
  BY <1>3, <1>4 DEF Typed, TypeOK, Points

LEMMA ContinuesTyped ==
    ASSUME Typed, NEW c \in Calls, Continues(c)
    PROVE  Typed'
<1>0. calls[c].phase # "idle"
  BY DEF Continues, VerifyReads, MismatchQuarantined, InspectionRejects, InspectionThrows,
         RenameFails, Promotes, Registered, Inspection
<1>1. CASE VerifyReads(c)
  <2>1. matched' \subseteq Hashes
    BY <1>0, <1>1, CallAtWork DEF Typed, TypeOK, VerifyReads
  <2>2. (part[calls[c].hash] = "whole") \in BOOLEAN
    OBVIOUS
  <2> QED
    BY <1>0, <1>1, <2>1, <2>2, GoesOnTyped DEF Typed, TypeOK, VerifyReads
<1>2. CASE MismatchQuarantined(c) \/ InspectionRejects(c) \/ RenameFails(c) \/ Registered(c)
  BY <1>0, <1>2, EndsTyped, StatesTyped
  DEF MismatchQuarantined, InspectionRejects, RenameFails, Registered, GivesUp
<1>3. CASE Promotes(c)
  <2>1. calls[c] \in Call /\ calls[c].hash \in Hashes
    BY <1>0, CallAtWork
  <2>2. library' \in [Hashes -> Contents] /\ part' \in [Hashes -> Contents]
    BY <1>3, <2>1 DEF Typed, TypeOK, Promotes, Contents
  <2>3. calls' = [calls EXCEPT ![c].phase = "registering", ![c].matches = calls[c].matches]
    BY <1>3, <2>1 DEF Typed, TypeOK, Promotes, Call
  <2>4. calls[c].matches \in BOOLEAN
    BY <2>1 DEF Call
  <2> QED
    BY <1>0, <1>3, <2>2, <2>3, <2>4, GoesOnTyped DEF Typed, TypeOK, Promotes
<1>4. CASE InspectionThrows(c)
  <2>1. calls[c].item \in 1..Len(items) /\ Len(items) \in 0..MaxItems
    BY <1>0, CallAtWork DEF Typed, TypeOK
  <2>2. unread' \subseteq 1..MaxItems
    <3>1. calls[c].item \in 1..MaxItems
      BY <2>1, QueueAssumption
    <3>2. unread' \subseteq unread \cup {calls[c].item}
      BY <1>4 DEF InspectionThrows
    <3> QED
      BY <3>1, <3>2 DEF Typed, TypeOK
  <2>3. calls' \in [Calls -> Call] /\ \A d \in Calls : calls'[d] = calls[d] \/ calls'[d].phase = "idle"
    BY <1>4, IdleCallTyped DEF Typed, TypeOK, InspectionThrows, IdleCall
  <2> QED
    BY <1>4, <2>2, <2>3 DEF Typed, TypeOK, Points, InspectionThrows
<1> QED
  BY <1>1, <1>2, <1>3, <1>4 DEF Continues

LEMMA TypedInductive == Typed /\ [Next]_vars => Typed'
<1> SUFFICES ASSUME Typed, [Next]_vars PROVE Typed'
  OBVIOUS
<1>1. ASSUME NEW h \in Hashes, DownloaderWrites(h) PROVE Typed'
  BY <1>1 DEF Typed, TypeOK, Points, DownloaderWrites, Contents
<1>2. CASE UNCHANGED vars
  BY <1>2 DEF Typed, TypeOK, Points, vars
<1> QED
  BY <1>1, <1>2, EnqueueTyped, UserMovesTyped, CompleteTyped, ContinuesTyped DEF Next

LEMMA InitTyped == Init => Typed
BY IdleCallTyped, QueueAssumption DEF Init, Typed, TypeOK, Points, Contents, IdleCall

\* Queue, items, calls and files keep their types.
THEOREM TypeCorrect == Spec => []TypeOK
<1>1. Typed => TypeOK
  BY DEF Typed
<1> QED
  BY <1>1, InitTyped, TypedInductive, PTL DEF Spec

-----------------------------------------------------------------------------
(* Who still looks after an item that shows Validating: the safety half of ValidatingEnds. *)
AtWorkOn(c, i) == calls[c].phase # "idle" /\ calls[c].item = i
Attended ==
    \A i \in 1..Len(items) :
        items[i].state = "Validating" => i \in unread \/ \E c \in Calls : AtWorkOn(c, i)

\* A step that sets the state of one item and ends at most a call for that item.
LEMMA SettingKeepsAttended ==
    ASSUME Typed, Attended, NEW i \in 1..Len(items), NEW state \in SyncQueueState,
           transition(i, state),
           \A c \in Calls : calls'[c] = calls[c] \/ calls[c].phase = "idle" \/ calls[c].item = i,
           state = "Validating" => \E c \in Calls : AtWorkOn(c, i)'
    PROVE  Attended'
<1>1. /\ Len(items') = Len(items) /\ items'[i].state = state
      /\ \A j \in 1..Len(items) : j # i => items'[j] = items[j]
  BY TransitionTyped
<1>2. unread' = unread \ {i}
  BY DEF transition
<1>3. SUFFICES ASSUME NEW j \in 1..Len(items), items'[j].state = "Validating"
      PROVE  j \in unread' \/ \E c \in Calls : AtWorkOn(c, j)'
  BY <1>1 DEF Attended
<1>4. CASE j = i
  BY <1>1, <1>3, <1>4
<1>5. CASE j # i
  <2>1. items[j].state = "Validating"
    BY <1>1, <1>3, <1>5
  <2>2. CASE j \in unread
    BY <1>2, <1>5, <2>2
  <2>3. ASSUME NEW c \in Calls, AtWorkOn(c, j) PROVE AtWorkOn(c, j)'
    BY <1>5, <2>3 DEF AtWorkOn
  <2> QED
    BY <2>1, <2>2, <2>3 DEF Attended
<1> QED
  BY <1>4, <1>5

LEMMA CallBegins ==
    ASSUME Typed, NEW c \in Calls, NEW h \in Hashes, handleDownloadComplete(c, h)
    PROVE  /\ calls[c].phase = "idle"
           /\ \A d \in Calls \ {c} : calls'[d] = calls[d]
           /\ \/ transition(queue[h], "Quarantine") /\ UNCHANGED calls
              \/ transition(queue[h], "Validating") /\ AtWorkOn(c, queue[h])'
<1> DEFINE call == [phase |-> "verifying", hash |-> h, item |-> queue[h], matches |-> FALSE]
<1>1. call.phase = "verifying" /\ call.item = queue[h] /\ calls \in [Calls -> Call]
  BY DEF Typed, TypeOK
<1>2. calls[c].phase = "idle"
  BY DEF handleDownloadComplete
<1>3. \/ transition(queue[h], "Quarantine") /\ UNCHANGED calls
      \/ transition(queue[h], "Validating") /\ calls' = [calls EXCEPT ![c] = call]
  BY DEF handleDownloadComplete
<1> HIDE DEF call
<1>4. CASE UNCHANGED calls
  BY <1>1, <1>2, <1>3, <1>4
<1>5. CASE transition(queue[h], "Validating") /\ calls' = [calls EXCEPT ![c] = call]
  <2>1. calls'[c] = call /\ \A d \in Calls \ {c} : calls'[d] = calls[d]
    BY <1>1, <1>5
  <2>2. queue[h]' = queue[h]
    BY DEF handleDownloadComplete
  <2>3. AtWorkOn(c, queue[h])'
    BY <1>1, <2>1, <2>2 DEF AtWorkOn
  <2> QED
    BY <1>2, <1>5, <2>1, <2>3
<1> QED
  BY <1>3, <1>4, <1>5

LEMMA AttendedInductive == Typed /\ Attended /\ [Next]_vars => Attended'
<1> SUFFICES ASSUME Typed, Attended, [Next]_vars PROVE Attended'
  OBVIOUS
<1>0. calls \in [Calls -> Call] /\ \A c \in Calls : calls[c] \in Call
  BY DEF Typed, TypeOK
<1>1. ASSUME NEW h \in Hashes, enqueueModel(h) PROVE Attended'
  <2> DEFINE new == [hash |-> h, state |-> "Queued"]
  <2>1. items \in Seq(Item) /\ new \in Item
    BY DEF Typed, TypeOK, Item, SyncQueueState
  <2>2. items' = Append(items, new) /\ UNCHANGED <<calls, unread>>
    BY <1>1 DEF enqueueModel
  <2>3. /\ Len(items') = Len(items) + 1
        /\ \A j \in 1..Len(items) : items'[j] = items[j]
        /\ items'[Len(items) + 1].state = "Queued"
    BY <2>1, <2>2
  <2> QED
    BY <2>1, <2>2, <2>3 DEF Attended, AtWorkOn
<1>2. ASSUME NEW h \in Hashes, markActive(h) \/ pauseItem(h) \/ resumeItem(h) \/ cancelItem(h)
      PROVE  Attended'
  <2>1. queue[h] \in 1..Len(items)
    BY <1>2, QueuedItem DEF markActive, pauseItem, resumeItem, Move, cancelItem
  <2>2. PICK state \in {"Active", "Paused", "Cancelled"} : transition(queue[h], state)
    BY <1>2 DEF markActive, pauseItem, resumeItem, Move, cancelItem
  <2>3. UNCHANGED calls
    BY <1>2 DEF markActive, pauseItem, resumeItem, Move, cancelItem
  <2> QED
    BY <2>1, <2>2, <2>3, StatesTyped, SettingKeepsAttended
<1>3. ASSUME NEW c \in Calls, NEW h \in Hashes, handleDownloadComplete(c, h) PROVE Attended'
  <2>1. PICK i \in 1..Len(items) : i = queue[h]
    BY <1>3, QueuedItem DEF handleDownloadComplete
  <2>2. \A d \in Calls : calls'[d] = calls[d] \/ calls[d].phase = "idle"
    BY <1>3, CallBegins
  <2>3. PICK state \in {"Quarantine", "Validating"} :
            /\ transition(i, state)
            /\ state = "Validating" => AtWorkOn(c, i)'
    <3>1. queue' = queue
      BY <1>3 DEF handleDownloadComplete
    <3>2. AtWorkOn(c, queue[h])' => AtWorkOn(c, i)'
      BY <2>1, <3>1 DEF AtWorkOn
    <3> QED
      BY <1>3, <2>1, <3>2, CallBegins
  <2> QED
    BY <2>1, <2>2, <2>3, StatesTyped, SettingKeepsAttended
<1>4. ASSUME NEW c \in Calls,
             MismatchQuarantined(c) \/ InspectionRejects(c) \/ RenameFails(c) \/ Registered(c)
      PROVE  Attended'
  <2>1. calls[c].item \in 1..Len(items)
    BY <1>4, CallAtWork
    DEF MismatchQuarantined, InspectionRejects, RenameFails, Registered, Inspection
  <2>2. PICK state \in {"Quarantine", "Failed", "Verified"} : transition(calls[c].item, state)
    BY <1>4 DEF MismatchQuarantined, InspectionRejects, RenameFails, Registered, GivesUp
  <2>3. \A d \in Calls : calls'[d] = calls[d] \/ d = c
    BY <1>0, <1>4 DEF MismatchQuarantined, InspectionRejects, RenameFails, Registered, GivesUp
  <2> QED
    BY <2>1, <2>2, <2>3, StatesTyped, SettingKeepsAttended
<1>5. ASSUME NEW c \in Calls, InspectionThrows(c) PROVE Attended'
  <2>1. \A d \in Calls : calls'[d] = calls[d] \/ d = c
    BY <1>0, <1>5 DEF InspectionThrows
  <2>2. /\ UNCHANGED items
        /\ unread' = unread \cup {i \in {calls[c].item} : items[i].state = "Validating"}
    BY <1>5 DEF InspectionThrows
  <2>3. ASSUME NEW i \in 1..Len(items), items[i].state = "Validating",
               NEW d \in Calls, AtWorkOn(d, i)
        PROVE  i \in unread' \/ AtWorkOn(d, i)'
    BY <2>1, <2>2, <2>3 DEF AtWorkOn
  <2> QED
    BY <2>2, <2>3 DEF Attended
<1>6. ASSUME NEW c \in Calls, VerifyReads(c) \/ Promotes(c) PROVE Attended'
  <2>1. UNCHANGED <<items, unread>>
    BY <1>6 DEF VerifyReads, Promotes
  <2>2. PICK phase \in {"read", "registering"}, matches \in BOOLEAN :
            calls' = [calls EXCEPT ![c] = [calls[c] EXCEPT !.phase = phase, !.matches = matches]]
    <3>1. CASE VerifyReads(c)
      BY <1>0, <3>1 DEF VerifyReads
    <3>2. CASE Promotes(c)
      <4>1. calls' = [calls EXCEPT ![c] = [calls[c] EXCEPT !.phase = "registering"]]
        BY <1>0, <3>2 DEF Promotes
      <4>2. calls[c].matches \in BOOLEAN
            /\ [calls[c] EXCEPT !.phase = "registering"]
               = [calls[c] EXCEPT !.phase = "registering", !.matches = calls[c].matches]
        BY <1>0 DEF Call
      <4> QED
        BY <4>1, <4>2
    <3> QED
      BY <1>6, <3>1, <3>2
  <2>3. [calls[c] EXCEPT !.phase = phase, !.matches = matches].item = calls[c].item
        /\ [calls[c] EXCEPT !.phase = phase, !.matches = matches].phase = phase
    BY <1>0 DEF Call
  <2>4. \A d \in Calls, i \in 1..Len(items) : AtWorkOn(d, i) => AtWorkOn(d, i)'
    BY <1>0, <2>2, <2>3 DEF AtWorkOn
  <2> QED
    BY <2>1, <2>4 DEF Attended
<1>7. ASSUME NEW h \in Hashes, DownloaderWrites(h) PROVE Attended'
  BY <1>7 DEF DownloaderWrites, Attended, AtWorkOn
<1>8. CASE UNCHANGED vars
  BY <1>8 DEF Attended, AtWorkOn, vars
<1> QED
  BY <1>1, <1>2, <1>3, <1>4, <1>5, <1>6, <1>7, <1>8 DEF Next, Continues

\* An item shows Validating only while a completion handler is at work on this very item, or
\* after the inspection of it threw: with every handler's end, the rename's failure and the
\* call that finds nothing included, no other item is left behind.
THEOREM ValidatingAttended == Spec => []Attended
<1>1. Init => Attended
  BY DEF Init, Attended
<1> QED
  BY <1>1, AttendedInductive, InitTyped, TypedInductive, PTL DEF Spec

-----------------------------------------------------------------------------
(* What reaches the library.  A read that matched leaves its hash in matched for good, and  *)
(* only a call with such a read goes on to the inspection.                                  *)
ReadsMatched ==
    /\ \A c \in Calls : calls[c].phase = "read" /\ calls[c].matches => calls[c].hash \in matched
    /\ \A h \in Hashes : library[h] # "none" => h \in matched

\* A call that moved its file into the library only has its registration to wait for.
RegisteringInLibrary ==
    /\ \A c \in Calls : calls[c].phase = "registering" => library[calls[c].hash] # "none"
    /\ VerifiedIsInLibrary

\* The one step that changes the library takes a file that the inspection let pass.
LEMMA PromotesWhat ==
    ASSUME Typed, NEW c \in Calls, Promotes(c)
    PROVE  /\ calls[c].hash \in Hashes
           /\ calls[c].phase = "read" /\ calls[c].matches
           /\ part[calls[c].hash] # "none"
           /\ calls[c].hash \in Hostile => part[calls[c].hash] # "whole"
           /\ library' = [library EXCEPT ![calls[c].hash] = part[calls[c].hash]]
           /\ calls'[c].phase = "registering" /\ calls'[c].hash = calls[c].hash
           /\ \A d \in Calls \ {c} : calls'[d] = calls[d]
           /\ UNCHANGED <<items, matched>>
<1>1. calls[c].phase = "read"
  BY DEF Promotes, Inspection
<1>2. calls[c] \in Call /\ calls[c].hash \in Hashes
  BY <1>1, CallAtWork
<1>3. [calls[c] EXCEPT !.phase = "registering"].phase = "registering"
      /\ [calls[c] EXCEPT !.phase = "registering"].hash = calls[c].hash
  BY <1>2 DEF Call
<1>4. calls' = [calls EXCEPT ![c] = [calls[c] EXCEPT !.phase = "registering"]]
  BY DEF Typed, TypeOK, Promotes
<1>5. calls \in [Calls -> Call]
  BY DEF Typed, TypeOK
<1>6. calls'[c].phase = "registering" /\ calls'[c].hash = calls[c].hash
      /\ \A d \in Calls \ {c} : calls'[d] = calls[d]
  BY <1>3, <1>4, <1>5
<1> QED
  BY <1>1, <1>2, <1>6 DEF Promotes, Inspection

LEMMA ReadWhat ==
    ASSUME Typed, NEW c \in Calls, VerifyReads(c)
    PROVE  /\ calls'[c].hash = calls[c].hash
           /\ calls'[c].matches = (part[calls[c].hash] = "whole")
           /\ calls'[c].phase = "read"
           /\ \A d \in Calls \ {c} : calls'[d] = calls[d]
<1> DEFINE call == [calls[c] EXCEPT !.phase = "read", !.matches = (part[calls[c].hash] = "whole")]
<1>1. calls[c] \in Call /\ calls \in [Calls -> Call]
  BY DEF Typed, TypeOK
<1>2. calls' = [calls EXCEPT ![c] = call]
  BY <1>1 DEF VerifyReads
<1>3. /\ call.hash = calls[c].hash /\ call.phase = "read"
      /\ call.matches = (part[calls[c].hash] = "whole")
  BY <1>1 DEF Call
<1> QED
  BY <1>1, <1>2, <1>3

\* A call that begins or ends is neither read nor registering.
LEMMA CallsElsewhere ==
    ASSUME Typed, NEW c \in Calls,
           \/ \E h \in Hashes : handleDownloadComplete(c, h)
           \/ MismatchQuarantined(c) \/ InspectionRejects(c) \/ InspectionThrows(c)
           \/ RenameFails(c) \/ Registered(c)
    PROVE  /\ UNCHANGED <<library, matched>>
           /\ \A d \in Calls : calls'[d] = calls[d] \/ calls'[d].phase \in {"idle", "verifying"}
<1>1. calls \in [Calls -> Call]
  BY DEF Typed, TypeOK
<1>2. CASE \E h \in Hashes : handleDownloadComplete(c, h)
  <2>1. PICK h \in Hashes : handleDownloadComplete(c, h)
    BY <1>2
  <2> DEFINE call == [phase |-> "verifying", hash |-> h, item |-> queue[h], matches |-> FALSE]
  <2>2. calls' = calls \/ calls' = [calls EXCEPT ![c] = call]
    BY <2>1 DEF handleDownloadComplete
  <2>3. UNCHANGED <<library, matched>>
    BY <2>1 DEF handleDownloadComplete
  <2> QED
    BY <1>1, <2>2, <2>3
<1>3. CASE \/ MismatchQuarantined(c) \/ InspectionRejects(c) \/ InspectionThrows(c)
           \/ RenameFails(c) \/ Registered(c)
  <2>1. calls' = [calls EXCEPT ![c] = IdleCall] /\ UNCHANGED <<library, matched>>
    BY <1>3 DEF MismatchQuarantined, InspectionRejects, InspectionThrows, RenameFails, Registered,
                GivesUp
  <2> QED
    BY <1>1, <2>1 DEF IdleCall
<1> QED
  BY <1>2, <1>3

LEMMA UserAndDownloader ==
    ASSUME NEW h \in Hashes,
           \/ enqueueModel(h) \/ markActive(h) \/ pauseItem(h) \/ resumeItem(h)
           \/ cancelItem(h) \/ DownloaderWrites(h)
    PROVE  UNCHANGED <<calls, library, matched>>
BY DEF enqueueModel, markActive, pauseItem, resumeItem, Move, cancelItem, DownloaderWrites

LEMMA ReadsMatchedInductive == Typed /\ ReadsMatched /\ [Next]_vars => ReadsMatched'
<1> SUFFICES ASSUME Typed, ReadsMatched, [Next]_vars PROVE ReadsMatched'
  OBVIOUS
<1>1. ASSUME NEW h \in Hashes,
             \/ enqueueModel(h) \/ markActive(h) \/ pauseItem(h) \/ resumeItem(h)
             \/ cancelItem(h) \/ DownloaderWrites(h)
      PROVE  ReadsMatched'
  BY <1>1, UserAndDownloader DEF ReadsMatched
<1>2. ASSUME NEW c \in Calls,
             \/ \E h \in Hashes : handleDownloadComplete(c, h)
             \/ MismatchQuarantined(c) \/ InspectionRejects(c) \/ InspectionThrows(c)
             \/ RenameFails(c) \/ Registered(c)
      PROVE  ReadsMatched'
  BY <1>2, CallsElsewhere DEF ReadsMatched
<1>3. ASSUME NEW c \in Calls, VerifyReads(c) PROVE ReadsMatched'
  <2>1. /\ matched' = IF part[calls[c].hash] = "whole" THEN matched \cup {calls[c].hash} ELSE matched
        /\ UNCHANGED library
    BY <1>3 DEF VerifyReads
  <2>2. ASSUME NEW d \in Calls, calls'[d].phase = "read", calls'[d].matches
        PROVE  calls'[d].hash \in matched'
    <3>1. CASE d = c
      <4>1. part[calls[c].hash] = "whole" /\ calls'[c].hash = calls[c].hash
        BY <1>3, <2>2, <3>1, ReadWhat
      <4> QED
        BY <2>1, <3>1, <4>1
    <3>2. CASE d # c
      <4>1. calls'[d] = calls[d]
        BY <1>3, <3>2, ReadWhat
      <4> QED
        BY <2>1, <2>2, <4>1 DEF ReadsMatched
    <3> QED
      BY <3>1, <3>2
  <2>3. \A h \in Hashes : library'[h] # "none" => h \in matched'
    BY <2>1 DEF ReadsMatched
  <2> QED
    BY <2>2, <2>3 DEF ReadsMatched
<1>4. ASSUME NEW c \in Calls, Promotes(c) PROVE ReadsMatched'
  <2>1. calls[c].hash \in matched
    BY <1>4, PromotesWhat DEF ReadsMatched
  <2>2. \A h \in Hashes : library'[h] # "none" => h \in matched'
    <3>1. library \in [Hashes -> Contents]
      BY DEF Typed, TypeOK
    <3> QED
      BY <1>4, <2>1, <3>1, PromotesWhat DEF ReadsMatched
  <2>3. ASSUME NEW d \in Calls, calls'[d].phase = "read", calls'[d].matches
        PROVE  calls'[d].hash \in matched'
    <3>1. calls'[d] = calls[d] /\ matched' = matched
      BY <1>4, <2>3, PromotesWhat
    <3> QED
      BY <2>3, <3>1 DEF ReadsMatched
  <2> QED
    BY <2>2, <2>3 DEF ReadsMatched
<1>5. CASE UNCHANGED vars
  BY <1>5 DEF ReadsMatched, vars
<1> QED
  BY <1>1, <1>2, <1>3, <1>4, <1>5 DEF Next, Continues

\* Nothing is in the library for a hash whose quarantined bytes never matched the SHA256 of
\* its manifest, however completions, cancellations and new items of the hash overlap.
THEOREM OnlyMatchedPromoted == Spec => []PromotedOnceMatched
<1>1. Init => ReadsMatched
  BY DEF Init, ReadsMatched, IdleCall
<1>2. ReadsMatched => PromotedOnceMatched
  BY DEF ReadsMatched, PromotedOnceMatched
<1> QED
  BY <1>1, <1>2, ReadsMatchedInductive, InitTyped, TypedInductive, PTL DEF Spec

LEMMA HostileInductive == Typed /\ HostileNeverPromoted /\ [Next]_vars => HostileNeverPromoted'
<1> SUFFICES ASSUME Typed, HostileNeverPromoted, [Next]_vars PROVE HostileNeverPromoted'
  OBVIOUS
<1>1. CASE UNCHANGED library
  BY <1>1 DEF HostileNeverPromoted
<1>2. ASSUME NEW c \in Calls, Promotes(c) PROVE HostileNeverPromoted'
  BY <1>2, PromotesWhat, QueueAssumption DEF HostileNeverPromoted, Typed, TypeOK
<1>3. ASSUME NEW c \in Calls, VerifyReads(c) PROVE HostileNeverPromoted'
  BY <1>1, <1>3 DEF VerifyReads
<1>4. CASE UNCHANGED vars
  BY <1>1, <1>4 DEF vars
<1> QED
  BY <1>1, <1>2, <1>3, <1>4, UserAndDownloader, CallsElsewhere DEF Next, Continues

\* A payload the content inspection rejects never enters the library whole.
THEOREM HostileStaysOut == Spec => []HostileNeverPromoted
<1>1. Init => HostileNeverPromoted
  BY QueueAssumption DEF Init, HostileNeverPromoted
<1> QED
  BY <1>1, HostileInductive, InitTyped, TypedInductive, PTL DEF Spec

LEMMA VerifiedInductive ==
    Typed /\ RegisteringInLibrary /\ [Next]_vars => RegisteringInLibrary'
<1> SUFFICES ASSUME Typed, RegisteringInLibrary, [Next]_vars PROVE RegisteringInLibrary'
  OBVIOUS
<1>0. library \in [Hashes -> Contents] /\ \A c \in Calls : calls[c].phase # "idle" => calls[c].hash \in Hashes
  BY CallAtWork DEF Typed, TypeOK
<1>1. ASSUME NEW i \in 1..Len(items), NEW state \in SyncQueueState \ {"Verified"},
             transition(i, state), UNCHANGED library
      PROVE  VerifiedIsInLibrary'
  BY <1>1, TransitionTyped DEF RegisteringInLibrary, VerifiedIsInLibrary
<1>2. ASSUME NEW h \in Hashes, enqueueModel(h) PROVE RegisteringInLibrary'
  <2> DEFINE new == [hash |-> h, state |-> "Queued"]
  <2>1. items \in Seq(Item) /\ new \in Item
    BY DEF Typed, TypeOK, Item, SyncQueueState
  <2>2. items' = Append(items, new) /\ UNCHANGED <<calls, library>>
    BY <1>2 DEF enqueueModel
  <2>3. /\ Len(items') = Len(items) + 1
        /\ \A j \in 1..Len(items) : items'[j] = items[j]
        /\ items'[Len(items) + 1].state = "Queued"
    BY <2>1, <2>2
  <2> QED
    BY <2>1, <2>2, <2>3 DEF RegisteringInLibrary, VerifiedIsInLibrary
<1>3. ASSUME NEW h \in Hashes, markActive(h) \/ pauseItem(h) \/ resumeItem(h) \/ cancelItem(h)
      PROVE  RegisteringInLibrary'
  <2>1. queue[h] \in 1..Len(items)
    BY <1>3, QueuedItem DEF markActive, pauseItem, resumeItem, Move, cancelItem
  <2>2. PICK state \in {"Active", "Paused", "Cancelled"} : transition(queue[h], state)
    BY <1>3 DEF markActive, pauseItem, resumeItem, Move, cancelItem
  <2>3. UNCHANGED <<calls, library>>
    BY <1>3, UserAndDownloader
  <2> QED
    BY <1>1, <2>1, <2>2, <2>3, StatesTyped DEF RegisteringInLibrary
<1>4. ASSUME NEW h \in Hashes, DownloaderWrites(h) PROVE RegisteringInLibrary'
  BY <1>4 DEF DownloaderWrites, RegisteringInLibrary, VerifiedIsInLibrary
<1>5. ASSUME NEW c \in Calls, NEW h \in Hashes, handleDownloadComplete(c, h)
      PROVE  RegisteringInLibrary'
  <2>1. queue[h] \in 1..Len(items)
    BY <1>5, QueuedItem DEF handleDownloadComplete
  <2>2. PICK state \in {"Quarantine", "Validating"} : transition(queue[h], state)
    BY <1>5 DEF handleDownloadComplete
  <2> QED
    BY <1>1, <1>5, <2>1, <2>2, StatesTyped, CallsElsewhere DEF RegisteringInLibrary
<1>6. ASSUME NEW c \in Calls, MismatchQuarantined(c) \/ InspectionRejects(c) \/ RenameFails(c)
      PROVE  RegisteringInLibrary'
  <2>1. calls[c].item \in 1..Len(items)
    BY <1>6, CallAtWork DEF MismatchQuarantined, InspectionRejects, RenameFails, Inspection
  <2>2. PICK state \in {"Quarantine", "Failed"} : transition(calls[c].item, state)
    BY <1>6 DEF MismatchQuarantined, InspectionRejects, RenameFails, GivesUp
  <2> QED
    BY <1>1, <1>6, <2>1, <2>2, StatesTyped, CallsElsewhere DEF RegisteringInLibrary
<1>7. ASSUME NEW c \in Calls, VerifyReads(c) PROVE RegisteringInLibrary'
  <2>1. UNCHANGED <<items, library>>
    BY <1>7 DEF VerifyReads
  <2>2. VerifiedIsInLibrary'
    BY <2>1 DEF RegisteringInLibrary, VerifiedIsInLibrary
  <2>3. \A d \in Calls : calls'[d].phase = "registering" => d # c /\ calls'[d] = calls[d]
    BY <1>7, ReadWhat
  <2> QED
    BY <2>1, <2>2, <2>3 DEF RegisteringInLibrary
<1>8. ASSUME NEW c \in Calls, Promotes(c) PROVE RegisteringInLibrary'
  <2>1. \A h \in Hashes : library[h] # "none" => library'[h] # "none"
    BY <1>0, <1>8, PromotesWhat
  <2>2. library'[calls[c].hash] # "none"
    BY <1>0, <1>8, PromotesWhat
  <2>3. \A i \in 1..Len(items) : items[i].hash \in Hashes
    <3>1. items \in Seq(Item)
      BY DEF Typed, TypeOK, Item
    <3>2. \A i \in 1..Len(items) : items[i] \in Item
      BY <3>1, ElementOfSeq
    <3> QED
      BY <3>2 DEF Item
  <2>4. VerifiedIsInLibrary'
    BY <1>8, <2>1, <2>3, PromotesWhat DEF RegisteringInLibrary, VerifiedIsInLibrary
  <2> QED
    BY <1>0, <1>8, <2>1, <2>2, <2>4, PromotesWhat DEF RegisteringInLibrary
<1>9. ASSUME NEW c \in Calls, Registered(c) PROVE RegisteringInLibrary'
  <2>1. /\ calls[c].item \in 1..Len(items)
        /\ items[calls[c].item].hash = calls[c].hash
        /\ library[calls[c].hash] # "none"
    BY <1>9, CallAtWork DEF Registered, RegisteringInLibrary
  <2>2. transition(calls[c].item, "Verified") /\ UNCHANGED library
    BY <1>9 DEF Registered
  <2>3. VerifiedIsInLibrary'
    BY <2>1, <2>2, TransitionTyped, StatesTyped DEF RegisteringInLibrary, VerifiedIsInLibrary
  <2> QED
    BY <1>9, <2>2, <2>3, CallsElsewhere DEF RegisteringInLibrary
<1>10. CASE UNCHANGED vars
  BY <1>10 DEF RegisteringInLibrary, VerifiedIsInLibrary, vars
<1>11. ASSUME NEW c \in Calls, InspectionThrows(c) PROVE RegisteringInLibrary'
  <2>1. UNCHANGED <<items, library>>
    BY <1>11 DEF InspectionThrows
  <2> QED
    BY <1>11, <2>1, CallsElsewhere DEF RegisteringInLibrary, VerifiedIsInLibrary
<1> QED
  BY <1>2, <1>3, <1>4, <1>5, <1>6, <1>7, <1>8, <1>9, <1>10, <1>11 DEF Next, Continues

\* An item is Verified only with a file in the library, also when another call or another
\* item of its hash took the file out of quarantine first.
THEOREM VerifiedMeansPresent == Spec => []VerifiedIsInLibrary
<1>1. Init => RegisteringInLibrary
  BY DEF Init, RegisteringInLibrary, VerifiedIsInLibrary, IdleCall
<1>2. RegisteringInLibrary => VerifiedIsInLibrary
  BY DEF RegisteringInLibrary
<1> QED
  BY <1>1, <1>2, VerifiedInductive, InitTyped, TypedInductive, PTL DEF Spec

=============================================================================
