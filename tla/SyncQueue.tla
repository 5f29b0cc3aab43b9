----------------------------- MODULE SyncQueue -----------------------------
(***************************************************************************)
(* The quarantine of src/src/main/engine/syncQueue.ts: items that move      *)
(* through the queue, the file each of them has in quarantine, and the      *)
(* completion handler that verifies that file, inspects it and renames it   *)
(* into the model library.                                                  *)
(*                                                                          *)
(* An item is an object: the handler keeps the one it looked up, while the  *)
(* queue may have dropped or replaced it.  The file belongs to the hash:    *)
(* every item of a hash has the same path.  inspectFile, renameSync and     *)
(* saveCompanionAssets never give up the thread, so that what follows the   *)
(* read of the file is one step up to the registration with RenegadeCMM.    *)
(***************************************************************************)
EXTENDS Naturals, Sequences

CONSTANTS
    Hashes,    \* info hashes of the models that are enqueued
    Hostile,   \* those whose payload, once whole, the content inspection rejects
    Calls,     \* handleDownloadComplete calls that may be in flight together
    MaxItems   \* bound: items ever enqueued

ASSUME QueueAssumption ==
    /\ Hostile \subseteq Hashes
    /\ MaxItems \in Nat

VARIABLES
    queue,    \* queue: Map<infoHash, item>, as the item's index; 0 is "no entry"
    items,    \* every item created so far: its hash and its state
    calls,    \* the handleDownloadComplete calls in flight
    part,     \* the .part file in quarantine
    library,  \* the file at finalDestinationPath
    matched,  \* history: hashes whose quarantined bytes once matched the manifest's SHA256
    unread    \* history: items left Validating by an inspection that threw

vars == <<queue, items, calls, part, library, matched, unread>>

-----------------------------------------------------------------------------
SyncQueueState == {"Quarantine", "Validating", "Queued", "Active", "Completed", "Verified",
                   "Rejected", "Paused", "Cancelled", "Failed"}

\* The bytes of a file: none, all of those the manifest hashes, or anything else.
Contents == {"none", "partial", "whole"}

Call == [phase: {"idle", "verifying", "read", "registering"},
         hash: Hashes \cup {"none"}, item: 0..MaxItems, matches: BOOLEAN]
IdleCall == [phase |-> "idle", hash |-> "none", item |-> 0, matches |-> FALSE]

\* The item a caller finds under a hash.
Found(h) == queue[h] # 0
State(h) == items[queue[h]].state

\* transition: where two follow each other without an await, the last one stays.
transition(i, state) ==
    /\ items' = [items EXCEPT ![i].state = state]
    /\ unread' = unread \ {i}

\* markActive, pauseItem, resumeItem: only from the state they expect.
Move(h, from, to) ==
    /\ Found(h) /\ State(h) = from
    /\ transition(queue[h], to)
    /\ UNCHANGED <<queue, calls, part, library, matched>>

-----------------------------------------------------------------------------
\* Mutants, named after what they get wrong, stand before the definition they change.
enqueueModelOffByOne(h) ==
    /\ Len(items) < MaxItems
    /\ items' = Append(items, [hash |-> h, state |-> "Queued"])
    /\ queue' = [queue EXCEPT ![h] = Len(items) + 2]
    /\ UNCHANGED <<calls, part, library, matched, unread>>

\* A new item replaces the one the queue had, whatever its state; a .part file stays.
enqueueModel(h) ==
    /\ Len(items) < MaxItems
    /\ items' = Append(items, [hash |-> h, state |-> "Queued"])
    /\ queue' = [queue EXCEPT ![h] = Len(items) + 1]
    /\ UNCHANGED <<calls, part, library, matched, unread>>

markActive(h) == Move(h, "Queued", "Active")
pauseItem(h) == Move(h, "Active", "Paused")
resumeItem(h) == Move(h, "Paused", "Active")

\* From any state; the handler of a completion in flight is not told.
cancelItem(h) ==
    /\ Found(h)
    /\ transition(queue[h], "Cancelled")
    /\ part' = [part EXCEPT ![h] = "none"]
    /\ queue' = [queue EXCEPT ![h] = 0]
    /\ UNCHANGED <<calls, library, matched>>

\* handleDownloadComplete up to the await of verifyEntireFileSha256.  No state is asked
\* for: a second call for the same item is not turned away.  Without a file the
\* verification fails at once.
handleDownloadComplete(c, h) ==
    /\ calls[c].phase = "idle"
    /\ Found(h)
    /\ IF part[h] = "none"
       THEN transition(queue[h], "Quarantine") /\ UNCHANGED calls
       ELSE /\ transition(queue[h], "Validating")
            /\ calls' = [calls EXCEPT ![c] = [phase |-> "verifying", hash |-> h,
                                              item |-> queue[h], matches |-> FALSE]]
    /\ UNCHANGED <<queue, part, library, matched>>

\* The stream has read the bytes that are there now; its 'end' event is still to come.
VerifyReads(c) ==
    LET h == calls[c].hash
    IN  /\ calls[c].phase = "verifying"
        /\ calls' = [calls EXCEPT ![c].phase = "read", ![c].matches = part[h] = "whole"]
        /\ matched' = IF part[h] = "whole" THEN matched \cup {h} ELSE matched
        /\ UNCHANGED <<queue, items, part, library, unread>>

\* The handler ends without a promotion and leaves its item in this state.
GivesUp(c, state) ==
    /\ transition(calls[c].item, state)
    /\ calls' = [calls EXCEPT ![c] = IdleCall]
    /\ UNCHANGED <<queue, part, library, matched>>

MismatchQuarantined(c) ==
    /\ calls[c].phase = "read" /\ ~calls[c].matches
    /\ GivesUp(c, "Quarantine")

InspectionIgnoresMismatch(c, passes) ==
    LET file == part[calls[c].hash]
    IN  /\ calls[c].phase = "read"
        /\ file = "none" \/ (file = "whole" /\ calls[c].hash \in Hostile) => ~passes
        /\ file = "whole" /\ calls[c].hash \notin Hostile => passes
InspectionOfExistence(c, passes) ==
    /\ calls[c].phase = "read" /\ calls[c].matches
    /\ passes = (part[calls[c].hash] # "none")

\* inspectFile looks at the header of the file that is there by now: a whole hostile
\* payload and a missing file never pass, other bytes may or may not.
Inspection(c, passes) ==
    LET file == part[calls[c].hash]
    IN  /\ calls[c].phase = "read" /\ calls[c].matches
        /\ file = "none" \/ (file = "whole" /\ calls[c].hash \in Hostile) => ~passes
        /\ file = "whole" /\ calls[c].hash \notin Hostile => passes

InspectionRejects(c) ==
    /\ Inspection(c, FALSE)
    /\ GivesUp(c, "Quarantine")

\* inspectFile stands outside the handler's try: a file that cannot be read at that moment
\* (locked, or taken away between two of its system calls) ends the handler by an exception
\* that writes nothing to the item.
InspectionThrows(c) ==
    /\ calls[c].phase = "read" /\ calls[c].matches
    /\ part[calls[c].hash] # "none"
    /\ calls' = [calls EXCEPT ![c] = IdleCall]
    /\ unread' = unread \cup {i \in {calls[c].item} : items[i].state = "Validating"}
    /\ UNCHANGED <<queue, items, part, library, matched>>

RenameFailsAsVerified(c) ==
    /\ Inspection(c, TRUE)
    /\ GivesUp(c, "Verified")
RenameFailsSilently(c) ==
    /\ Inspection(c, TRUE)
    /\ calls' = [calls EXCEPT ![c] = IdleCall]
    /\ UNCHANGED <<queue, items, part, library, matched, unread>>

\* mkdirSync or renameSync throws.
RenameFails(c) ==
    /\ Inspection(c, TRUE)
    /\ GivesUp(c, "Failed")

\* The rename takes whatever is at the path and replaces what the library had.
Promotes(c) ==
    LET h == calls[c].hash
    IN  /\ Inspection(c, TRUE)
        /\ library' = [library EXCEPT ![h] = part[h]]
        /\ part' = [part EXCEPT ![h] = "none"]
        /\ calls' = [calls EXCEPT ![c].phase = "registering"]
        /\ UNCHANGED <<queue, items, matched, unread>>

\* registerCompletedDownload answered; its result is not looked at.
Registered(c) ==
    /\ calls[c].phase = "registering"
    /\ transition(calls[c].item, "Verified")
    /\ calls' = [calls EXCEPT ![c] = IdleCall]
    /\ UNCHANGED <<queue, part, library, matched>>

\* The downloader writes bytes of an active item (external).
DownloaderWrites(h) ==
    /\ Found(h) /\ State(h) = "Active"
    /\ \E bytes \in {"partial", "whole"} : part' = [part EXCEPT ![h] = bytes]
    /\ UNCHANGED <<queue, items, calls, library, matched, unread>>

-----------------------------------------------------------------------------
Init ==
    /\ queue = [h \in Hashes |-> 0]
    /\ items = <<>>
    /\ calls = [c \in Calls |-> IdleCall]
    /\ part = [h \in Hashes |-> "none"]
    /\ library = [h \in Hashes |-> "none"]
    /\ matched = {}
    /\ unread = {}

Continues(c) ==
    \/ VerifyReads(c)
    \/ MismatchQuarantined(c)
    \/ InspectionRejects(c)
    \/ InspectionThrows(c)
    \/ RenameFails(c)
    \/ Promotes(c)
    \/ Registered(c)

Next ==
    \/ \E h \in Hashes : \/ enqueueModel(h)
                         \/ markActive(h)
                         \/ pauseItem(h)
                         \/ resumeItem(h)
                         \/ cancelItem(h)
                         \/ DownloaderWrites(h)
    \/ \E c \in Calls, h \in Hashes : handleDownloadComplete(c, h)
    \/ \E c \in Calls : Continues(c)

Spec == Init /\ [][Next]_vars

\* What a call waits for (a file stream, a database write) always ends.
FairSpec == Spec /\ \A c \in Calls : WF_vars(Continues(c))

-----------------------------------------------------------------------------
\* The queue points at items of its own hash, calls at items of theirs, and every field
\* holds a value its TypeScript type allows.
TypeOK ==
    /\ items \in Seq([hash: Hashes, state: SyncQueueState])
    /\ Len(items) \in 0..MaxItems
    /\ queue \in [Hashes -> 0..Len(items)]
    /\ calls \in [Calls -> Call]
    /\ part \in [Hashes -> Contents]
    /\ library \in [Hashes -> Contents]
    /\ matched \subseteq Hashes
    /\ unread \subseteq 1..MaxItems

\* Nothing enters the library for a hash none of whose downloads ever matched the SHA256 of
\* the manifest, whatever calls overlap and whatever is cancelled and enqueued again.
PromotedOnceMatched == \A h \in Hashes : library[h] # "none" => h \in matched

\* A payload the content inspection rejects is never in the library whole: not through a
\* second call, nor through a call whose item was cancelled or replaced meanwhile.
HostileNeverPromoted == \A h \in Hostile : library[h] # "whole"

\* An item is Verified only with a file in the library, also when a second call for it found
\* the quarantine empty, or another item of its hash was promoted first.
VerifiedIsInLibrary ==
    \A i \in 1..Len(items) : items[i].state = "Verified" => library[items[i].hash] # "none"

\* No item stays Validating for ever, with two calls at work on it, its rename failing or
\* its mismatch found by one call and not by the other - unless its inspection threw: that
\* way out of the handler writes no state, and the item waits for the user to cancel it or
\* for another completion, which again has to end.
Validating(i) == i <= Len(items) /\ items[i].state = "Validating"
ValidatingEnds == \A i \in 1..MaxItems : Validating(i) ~> (~Validating(i) \/ i \in unread)

\* Only bytes that passed the SHA256 verification are promoted to the library.
PromotedIsWhole == \A h \in Hashes : library[h] # "partial"

=============================================================================
