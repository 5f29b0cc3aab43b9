----------------------------- MODULE CmmBridge -----------------------------
(***************************************************************************)
(* The bridge to the database of RenegadeCMM (src/main/cmm/cmmDbBridge.ts) *)
(* which is attached to the connection of the own one.  What is attached   *)
(* and what the flag isAttached says are two things: every call reads the  *)
(* flag, and sends its DETACH and ATTACH behind an await, among those of   *)
(* other calls.                                                            *)
(*                                                                         *)
(* The rows, columns and statements of the catalog are left out, but for   *)
(* whether a finished download is in it.  The own database opens; its      *)
(* table of transfers is modelled with the engine.                         *)
(***************************************************************************)
EXTENDS Integers, FiniteSets

CONSTANTS Paths,      \* paths at which a CMM database may be
          NoPath,     \* the empty path
          Hashes,
          Calls,      \* calls that may overlap
          MaxOps      \* bound: changes by the user and by CMM

ASSUME BridgeAssumption == NoPath \notin Paths /\ MaxOps \in Nat

VARIABLES
    exists,        \* paths at which there is a file
    cmmDbPath, isAttached,
    attached,      \* the database that is attached to the connection
    connected,     \* lastStatusResult.connected
    calls,         \* where each call is
    catalog,       \* CMM database -> downloads registered in it
    synced,        \* rows of swarm_transfers with cmm_synced
    ops

vars == <<exists, cmmDbPath, isAttached, attached, connected, calls, catalog, synced, ops>>

\* A status check, the calls that read the catalog or update rows of it, which
\* are alike here, and the registration of a download, by its hash.
Kinds == {"status", "models"} \cup Hashes

Call == [kind : Kinds, at : {"idle", "api", "detach", "attach", "query", "update"},
         target : Paths \cup {NoPath}]

Idle == [kind |-> "status", at |-> "idle", target |-> NoPath]

At(c, place) == calls[c].at = place

Goes(c, place) == calls' = [calls EXCEPT ![c].at = place]

Ends(c) == calls' = [calls EXCEPT ![c] = Idle]

\* What a status check answers; the other calls leave the last answer.
Answers(c, b) == connected' = IF calls[c].kind = "status" THEN b ELSE connected
-----------------------------------------------------------------------------
\* discoverCmmDbPath takes the first of the candidates; any may be that.
Discovered == IF exists = {} THEN {NoPath} ELSE exists

getCmmDbPath == IF cmmDbPath = NoPath THEN Discovered ELSE {cmmDbPath}

\* checkCmmStatus up to the request to CMM's own server, of 800 ms at most.
CheckBegins(c) ==
    /\ At(c, "idle")
    /\ \E p \in getCmmDbPath :
           /\ cmmDbPath' = p
           /\ calls' = [calls EXCEPT ![c] = [kind |-> "status", at |-> "api",
                           target |-> IF p \in exists THEN p ELSE NoPath]]
    /\ UNCHANGED <<exists, isAttached, attached, connected, catalog, synced, ops>>

\* Mutant of FirstStatement: what is attached is kept.
ReusesAttached == IF isAttached THEN "query" ELSE "attach"

\* Where attachCmmDatabase begins, by the flag.
FirstStatement == IF isAttached THEN "detach" ELSE "attach"

\* The request has ended: whatever it said, the file decides.
CheckContinues(c) ==
    /\ At(c, "api")
    /\ LET p == calls[c].target
       IN IF p = NoPath
          THEN /\ isAttached' = FALSE
               /\ connected' = FALSE
               /\ Ends(c)
          ELSE IF p \notin exists
          THEN /\ connected' = FALSE
               /\ Ends(c)
               /\ UNCHANGED isAttached
          ELSE /\ Goes(c, FirstStatement)
               /\ UNCHANGED <<isAttached, connected>>
    /\ UNCHANGED <<exists, cmmDbPath, attached, catalog, synced, ops>>

\* getLocalModels, getModelById, updateModelMetadata and
\* registerCompletedDownload attach only if the flag is not set.
CallBegins(c, kind) ==
    /\ At(c, "idle")
    /\ calls' = [calls EXCEPT ![c] =
                    IF isAttached THEN [kind |-> kind, at |-> "query", target |-> cmmDbPath]
                    ELSE IF cmmDbPath \in exists
                    THEN [kind |-> kind, at |-> "attach", target |-> cmmDbPath]
                    ELSE Idle]
    /\ UNCHANGED <<exists, cmmDbPath, isAttached, attached, connected, catalog, synced, ops>>

\* An error, nothing being attached, is ignored.
Detaches(c) ==
    /\ At(c, "detach")
    /\ attached' = NoPath
    /\ Goes(c, "attach")
    /\ UNCHANGED <<exists, cmmDbPath, isAttached, connected, catalog, synced, ops>>

\* Mutant of AttachFails: the flag stays.
AttachFailsQuietly(c) ==
    /\ attached = NoPath
    /\ Answers(c, FALSE)
    /\ Ends(c)
    /\ UNCHANGED <<isAttached, attached>>

AttachFails(c) ==
    /\ attached = NoPath
    /\ isAttached' = FALSE
    /\ Answers(c, FALSE)
    /\ Ends(c)
    /\ UNCHANGED attached

\* "already in use" counts as success, whichever database it is.
AttachSucceeds(c) ==
    /\ attached' = IF attached = NoPath THEN calls[c].target ELSE attached
    /\ isAttached' = TRUE
    /\ Goes(c, "query")
    /\ UNCHANGED connected

attachDirect(c) ==
    /\ At(c, "attach")
    /\ AttachSucceeds(c) \/ AttachFails(c)
    /\ UNCHANGED <<exists, cmmDbPath, catalog, synced, ops>>

\* The statements on the catalog.  Those of a status check and of a metadata
\* update swallow their errors; a registration without a catalog fails.
Queries(c) ==
    /\ At(c, "query")
    /\ Answers(c, TRUE)
    /\ IF calls[c].kind \in Hashes /\ attached # NoPath
       THEN /\ catalog' = [catalog EXCEPT ![attached] = @ \cup {calls[c].kind}]
            /\ Goes(c, "update")
       ELSE Ends(c) /\ UNCHANGED catalog
    /\ UNCHANGED <<exists, cmmDbPath, isAttached, attached, synced, ops>>

\* registerCompletedDownload marks the transfer.
MarksSynced(c) ==
    /\ At(c, "update")
    /\ synced' = synced \cup {calls[c].kind}
    /\ Ends(c)
    /\ UNCHANGED <<exists, cmmDbPath, isAttached, attached, connected, catalog, ops>>
-----------------------------------------------------------------------------
Op == ops < MaxOps /\ ops' = ops + 1

\* cmm:configureSync, up to its status check.
setCmmDbPath(p, c) ==
    /\ Op
    /\ At(c, "idle")
    /\ cmmDbPath' = p
    /\ isAttached' = FALSE
    /\ calls' = [calls EXCEPT ![c] = [kind |-> "status", at |-> "api",
                    target |-> IF p \in exists THEN p ELSE NoPath]]
    /\ UNCHANGED <<exists, attached, connected, catalog, synced>>

\* CMM is installed, or its folder goes away.
FilesChange(p) ==
    /\ Op
    /\ exists' = IF p \in exists THEN exists \ {p} ELSE exists \cup {p}
    /\ UNCHANGED <<cmmDbPath, isAttached, attached, connected, calls, catalog, synced>>

Init == /\ exists \in SUBSET Paths
        /\ cmmDbPath \in Discovered
        /\ isAttached = FALSE
        /\ attached = NoPath
        /\ connected = FALSE
        /\ calls = [c \in Calls |-> Idle]
        /\ catalog = [p \in Paths |-> {}]
        /\ synced = {}
        /\ ops = 0

Steps(c) == \/ CheckContinues(c)
            \/ Detaches(c)
            \/ attachDirect(c)
            \/ Queries(c)
            \/ MarksSynced(c)

Next == \/ \E c \in Calls : \/ CheckBegins(c)
                            \/ \E k \in Kinds \ {"status"} : CallBegins(c, k)
                            \/ \E p \in Paths : setCmmDbPath(p, c)
                            \/ Steps(c)
        \/ \E p \in Paths : FilesChange(p)

\* The page checks again as long as the last answer was "connected"; without
\* that its budget may be spent.
PageChecks == connected /\ \E c \in Calls : CheckBegins(c)

\* A file that is there can be attached now and then.
Attaches(c) == At(c, "attach") /\ AttachSucceeds(c)
                  /\ UNCHANGED <<exists, cmmDbPath, catalog, synced, ops>>

Fairness == /\ SF_vars(PageChecks)
            /\ \A c \in Calls : WF_vars(Steps(c)) /\ SF_vars(Attaches(c))

Spec == Init /\ [][Next]_vars /\ Fairness
-----------------------------------------------------------------------------
TypeOK == /\ exists \subseteq Paths
          /\ cmmDbPath \in Paths \cup {NoPath}
          /\ isAttached \in BOOLEAN
          /\ attached \in Paths \cup {NoPath}
          /\ connected \in BOOLEAN
          /\ calls \in [Calls -> Call]
          /\ catalog \in [Paths -> SUBSET Hashes]
          /\ synced \subseteq Hashes
          /\ ops \in 0..MaxOps

\* When no DETACH or ATTACH is under way, the flag means that some database is
\* attached: otherwise every later call would skip the attaching and fail
\* (getLocalModels, registerCompletedDownload).  And a download marked as synced
\* is in a catalog, if not always in that of the path now set: no detaching by
\* another call falls unnoticed between the two.
FlagMeansAttached ==
    /\ isAttached /\ (\A c \in Calls : ~At(c, "detach") /\ ~At(c, "attach"))
           => attached # NoPath
    /\ \A h \in synced : \E p \in Paths : h \in catalog[p]

\* As long as the page is told that CMM is connected, the database attached is
\* again and again the one that is configured: the old one, which stays
\* attached after setCmmDbPath, is let go of by a later check.
AttachmentHeals == []<>(connected /\ cmmDbPath \in exists => attached = cmmDbPath)
=============================================================================
