----------------------------- MODULE CmmProofs -----------------------------
(***************************************************************************)
(* Proofs about the link to RenegadeCMM: the flag of the bridge to its     *)
(* database (CmmBridge), the types of the folders (CmmFolders) and of the  *)
(* page's calls (SisterLink), the nearest source of an extraction          *)
(* (MetadataExtractor), the form it goes into (SeederForm), and all of     *)
(* them together, as MCCmm puts them side by side.                         *)
(***************************************************************************)
EXTENDS MCCmm, SequenceTheorems, TLAPS

(***************************************************************************)
(* The bridge.                                                             *)
(***************************************************************************)

\* A call that detaches or attaches has a database to attach, and one that marks
\* a transfer has registered it.
CallsFollow ==
    \A c \in Calls :
        /\ At(c, "detach") \/ At(c, "attach") => calls[c].target \in Paths
        /\ At(c, "update") => /\ calls[c].kind \in Hashes
                              /\ \E p \in Paths : calls[c].kind \in catalog[p]

\* Every step is one of these.
LEMMA Cases ==
    ASSUME [Next]_vars
    PROVE  \/ \E c \in Calls : \/ CheckBegins(c)
                               \/ CheckContinues(c)
                               \/ Detaches(c)
                               \/ attachDirect(c)
                               \/ Queries(c)
                               \/ MarksSynced(c)
           \/ \E c \in Calls, k \in Kinds \ {"status"} : CallBegins(c, k)
           \/ \E c \in Calls, p \in Paths : setCmmDbPath(p, c)
           \/ \E p \in Paths : FilesChange(p)
           \/ UNCHANGED vars
BY DEF Next, Steps

LEMMA IdleType == Idle \in Call
BY DEF Idle, Call, Kinds

LEMMA InitTypeOK == Init => TypeOK
<1> SUFFICES ASSUME Init PROVE TypeOK
    OBVIOUS
<1>1. cmmDbPath \in Paths \cup {NoPath} /\ exists \subseteq Paths
    BY DEF Init, Discovered
<1>2. calls \in [Calls -> Call]
    BY IdleType DEF Init
<1>3. catalog \in [Paths -> SUBSET Hashes]
    BY DEF Init
<1>4. isAttached \in BOOLEAN /\ connected \in BOOLEAN /\ attached \in Paths \cup {NoPath}
    BY DEF Init
<1>5. synced \subseteq Hashes /\ ops \in 0..MaxOps
    BY BridgeAssumption DEF Init
<1> QED
    BY <1>1, <1>2, <1>3, <1>4, <1>5 DEF TypeOK

LEMMA CheckType == ASSUME TypeOK, NEW c \in Calls, CheckBegins(c) \/ CheckContinues(c)
                   PROVE  TypeOK'
<1>1. CASE CheckBegins(c)
    <2>1. PICK p \in getCmmDbPath :
              /\ cmmDbPath' = p
              /\ calls' = [calls EXCEPT ![c] = [kind |-> "status", at |-> "api",
                              target |-> IF p \in exists THEN p ELSE NoPath]]
        BY <1>1 DEF CheckBegins
    <2>2. p \in Paths \cup {NoPath}
        BY <2>1 DEF getCmmDbPath, Discovered, TypeOK
    <2> QED
        BY <1>1, <2>1, <2>2 DEF CheckBegins, TypeOK, Call, Kinds
<1>2. CASE CheckContinues(c)
    <2>1. calls[c] \in Call
        BY DEF TypeOK
    <2>2. \/ calls' = [calls EXCEPT ![c] = Idle]
          \/ calls' = [calls EXCEPT ![c].at = FirstStatement]
        BY <1>2 DEF CheckContinues, Goes, Ends
    <2>3. calls' \in [Calls -> Call]
        BY <2>1, <2>2, IdleType DEF TypeOK, Call, FirstStatement
    <2>4. isAttached' \in BOOLEAN /\ connected' \in BOOLEAN
        BY <1>2 DEF CheckContinues, TypeOK
    <2> QED
        BY <1>2, <2>3, <2>4 DEF CheckContinues, TypeOK
<1> QED
    BY <1>1, <1>2

LEMMA CallType == ASSUME TypeOK, NEW c \in Calls, NEW k \in Kinds, CallBegins(c, k)
                  PROVE  TypeOK'
<1>1. calls' \in [Calls -> Call]
    BY DEF CallBegins, TypeOK, Call, Kinds, Idle
<1> QED
    BY <1>1 DEF CallBegins, TypeOK

LEMMA StatementType ==
    ASSUME TypeOK, CallsFollow, NEW c \in Calls,
           Detaches(c) \/ attachDirect(c) \/ Queries(c) \/ MarksSynced(c)
    PROVE  TypeOK'
<1>1. calls[c] \in Call
    BY DEF TypeOK
<1>2. CASE Detaches(c)
    BY <1>1, <1>2 DEF Detaches, TypeOK, Call, Goes
<1>3. CASE attachDirect(c)
    <2>1. CASE AttachSucceeds(c)
        BY <1>1, <1>3, <2>1 DEF attachDirect, AttachSucceeds, TypeOK, Call, Goes
    <2>2. CASE AttachFails(c)
        BY <1>1, <1>3, <2>2 DEF attachDirect, AttachFails, TypeOK, Call, Kinds, Ends, Idle, Answers
    <2> QED
        BY <1>3, <2>1, <2>2 DEF attachDirect
<1>4. CASE Queries(c)
    <2>1. connected' \in BOOLEAN
        BY <1>4 DEF Queries, Answers, TypeOK
    <2>2. calls' \in [Calls -> Call] /\ catalog' \in [Paths -> SUBSET Hashes]
        <3>1. CASE calls[c].kind \in Hashes /\ attached # NoPath
            BY <1>1, <1>4, <3>1 DEF Queries, TypeOK, Call, Goes
        <3>2. CASE ~(calls[c].kind \in Hashes /\ attached # NoPath)
            BY <1>4, <3>2 DEF Queries, TypeOK, Call, Kinds, Ends, Idle
        <3> QED
            BY <3>1, <3>2
    <2> QED
        BY <1>4, <2>1, <2>2 DEF Queries, TypeOK
<1>5. CASE MarksSynced(c)
    <2>1. calls' \in [Calls -> Call]
        BY <1>5 DEF MarksSynced, TypeOK, Call, Kinds, Ends, Idle
    <2>2. synced' \subseteq Hashes
        BY <1>1, <1>5 DEF MarksSynced, TypeOK, CallsFollow
    <2> QED
        BY <1>5, <2>1, <2>2 DEF MarksSynced, TypeOK
<1> QED
    BY <1>2, <1>3, <1>4, <1>5

LEMMA UserType ==
    ASSUME TypeOK,
           \/ \E c \in Calls, p \in Paths : setCmmDbPath(p, c)
           \/ \E p \in Paths : FilesChange(p)
    PROVE  TypeOK'
<1>1. ASSUME NEW c \in Calls, NEW p \in Paths, setCmmDbPath(p, c)
      PROVE  TypeOK'
    <2>1. [kind |-> "status", at |-> "api",
           target |-> IF p \in exists THEN p ELSE NoPath] \in Call
        BY DEF Call, Kinds
    <2>2. calls' \in [Calls -> Call]
        BY <1>1, <2>1 DEF setCmmDbPath, TypeOK
    <2>3. ops' \in 0..MaxOps
        BY <1>1, BridgeAssumption DEF setCmmDbPath, Op, TypeOK
    <2>4. cmmDbPath' \in Paths \cup {NoPath} /\ isAttached' \in BOOLEAN
        BY <1>1 DEF setCmmDbPath
    <2> QED
        BY <1>1, <2>2, <2>3, <2>4 DEF setCmmDbPath, TypeOK
<1>2. ASSUME NEW p \in Paths, FilesChange(p)
      PROVE  TypeOK'
    BY <1>2, BridgeAssumption DEF FilesChange, Op, TypeOK
<1> QED
    BY <1>1, <1>2

LEMMA StepType == ASSUME TypeOK, CallsFollow, [Next]_vars PROVE TypeOK'
<1>1. CASE UNCHANGED vars
    BY <1>1 DEF vars, TypeOK
<1> QED
    BY <1>1, Cases, CheckType, CallType, StatementType, UserType
-----------------------------------------------------------------------------
\* The call of a step goes somewhere; the others stay, and no catalog shrinks.
LEMMA OthersFollow ==
    ASSUME CallsFollow, NEW c \in Calls, NEW call, calls' = [calls EXCEPT ![c] = call],
           TypeOK, TypeOK',
           \A p \in Paths : catalog[p] \subseteq catalog'[p],
           call.at \in {"detach", "attach"} => call.target \in Paths,
           call.at = "update" => call.kind \in Hashes
                                 /\ \E p \in Paths : call.kind \in catalog'[p]
    PROVE  CallsFollow'
<1> SUFFICES ASSUME NEW d \in Calls
             PROVE  /\ calls'[d].at \in {"detach", "attach"} => calls'[d].target \in Paths
                    /\ calls'[d].at = "update" =>
                          /\ calls'[d].kind \in Hashes
                          /\ \E p \in Paths : calls'[d].kind \in catalog'[p]
    BY DEF CallsFollow, At
<1>1. CASE d = c
    BY <1>1 DEF TypeOK
<1>2. CASE d # c
    <2>1. calls'[d] = calls[d]
        BY <1>2 DEF TypeOK
    <2> QED
        BY <2>1 DEF CallsFollow, At
<1> QED
    BY <1>1, <1>2

LEMMA StepFollows == ASSUME TypeOK, CallsFollow, [Next]_vars PROVE CallsFollow'
<1> USE StepType
<1>1. ASSUME NEW c \in Calls, CheckBegins(c) \/ (\E p \in Paths : setCmmDbPath(p, c))
      PROVE  CallsFollow'
    <2>1. PICK t \in Paths \cup {NoPath} :
              calls' = [calls EXCEPT ![c] = [kind |-> "status", at |-> "api", target |-> t]]
        <3>1. CASE CheckBegins(c)
            BY <3>1 DEF CheckBegins, getCmmDbPath, Discovered, TypeOK
        <3>2. CASE \E p \in Paths : setCmmDbPath(p, c)
            BY <3>2 DEF setCmmDbPath
        <3> QED
            BY <1>1, <3>1, <3>2
    <2>2. UNCHANGED catalog
        BY <1>1 DEF CheckBegins, setCmmDbPath
    <2> QED
        BY <2>1, <2>2, OthersFollow
<1>2. ASSUME NEW c \in Calls, CheckContinues(c)
      PROVE  CallsFollow'
    <2>1. calls[c] \in Call /\ UNCHANGED catalog
        BY <1>2 DEF TypeOK, CheckContinues
    <2>2. CASE calls' = [calls EXCEPT ![c] = Idle]
        BY <2>1, <2>2, OthersFollow DEF Idle
    <2>3. CASE Goes(c, FirstStatement) /\ calls[c].target # NoPath
        <3>1. calls' = [calls EXCEPT ![c] = [calls[c] EXCEPT !.at = FirstStatement]]
            BY <2>1, <2>3 DEF Goes, TypeOK
        <3>2. calls[c].target \in Paths
            BY <2>1, <2>3 DEF Call
        <3> DEFINE call == [calls[c] EXCEPT !.at = FirstStatement]
        <3>3. call.target \in Paths /\ call.at # "update"
            BY <2>1, <3>2 DEF Call, FirstStatement
        <3>4. /\ TypeOK'
              /\ calls' = [calls EXCEPT ![c] = call]
              /\ \A p \in Paths : catalog[p] \subseteq catalog'[p]
            BY <2>1, <3>1, StepType
        <3> HIDE DEF call
        <3> QED
            BY <3>3, <3>4, OthersFollow
    <2> QED
        BY <1>2, <2>2, <2>3 DEF CheckContinues, Ends
<1>3. ASSUME NEW c \in Calls, NEW k \in Kinds \ {"status"}, CallBegins(c, k)
      PROVE  CallsFollow'
    <2> DEFINE call == IF isAttached THEN [kind |-> k, at |-> "query", target |-> cmmDbPath]
                       ELSE IF cmmDbPath \in exists
                       THEN [kind |-> k, at |-> "attach", target |-> cmmDbPath]
                       ELSE Idle
    <2>1. call.at # "update" /\ (call.at \in {"detach", "attach"} => call.target \in Paths)
        BY DEF TypeOK, Idle
    <2>2. /\ TypeOK'
          /\ calls' = [calls EXCEPT ![c] = call]
          /\ \A p \in Paths : catalog[p] \subseteq catalog'[p]
        BY <1>3, StepType DEF CallBegins
    <2> HIDE DEF call
    <2> QED
        BY <2>1, <2>2, OthersFollow
<1>4. ASSUME NEW c \in Calls, Detaches(c)
      PROVE  CallsFollow'
    <2>1. calls[c] \in Call /\ calls[c].target \in Paths
        BY <1>4 DEF TypeOK, Detaches, CallsFollow
    <2>2. calls' = [calls EXCEPT ![c] = [calls[c] EXCEPT !.at = "attach"]]
        BY <1>4, <2>1 DEF Detaches, Goes, TypeOK
    <2> QED
        BY <1>4, <2>1, <2>2, OthersFollow DEF Detaches, Call
<1>5. ASSUME NEW c \in Calls, attachDirect(c)
      PROVE  CallsFollow'
    <2>1. calls[c] \in Call /\ UNCHANGED catalog
        BY <1>5 DEF TypeOK, attachDirect
    <2>2. CASE AttachSucceeds(c)
        <3>1. calls' = [calls EXCEPT ![c] = [calls[c] EXCEPT !.at = "query"]]
            BY <2>1, <2>2 DEF AttachSucceeds, Goes, TypeOK
        <3> QED
            BY <2>1, <3>1, OthersFollow DEF Call
    <2>3. CASE AttachFails(c)
        BY <2>1, <2>3, OthersFollow DEF AttachFails, Ends, Idle
    <2> QED
        BY <1>5, <2>2, <2>3 DEF attachDirect
<1>6. ASSUME NEW c \in Calls, Queries(c)
      PROVE  CallsFollow'
    <2>1. calls[c] \in Call /\ calls[c].at = "query"
        BY <1>6 DEF TypeOK, Queries, At
    <2>2. CASE calls[c].kind \in Hashes /\ attached # NoPath
        <3>1. attached \in Paths
            BY <2>2 DEF TypeOK
        <3>2. /\ catalog' = [catalog EXCEPT ![attached] = @ \cup {calls[c].kind}]
              /\ calls' = [calls EXCEPT ![c] = [calls[c] EXCEPT !.at = "update"]]
            BY <1>6, <2>1, <2>2 DEF Queries, Goes, TypeOK
        <3>3. calls[c].kind \in catalog'[attached]
              /\ \A p \in Paths : catalog[p] \subseteq catalog'[p]
            BY <3>1, <3>2 DEF TypeOK
        <3> QED
            BY <2>1, <2>2, <3>1, <3>2, <3>3, OthersFollow DEF Call
    <2>3. CASE ~(calls[c].kind \in Hashes /\ attached # NoPath)
        BY <1>6, <2>3, OthersFollow DEF Queries, Ends, Idle
    <2> QED
        BY <2>2, <2>3
<1>7. ASSUME NEW c \in Calls, MarksSynced(c)
      PROVE  CallsFollow'
    BY <1>7, OthersFollow DEF MarksSynced, Ends, Idle
<1>8. ASSUME NEW p \in Paths, FilesChange(p)
      PROVE  CallsFollow'
    BY <1>8 DEF FilesChange, CallsFollow, At
<1>9. CASE UNCHANGED vars
    BY <1>9 DEF vars, CallsFollow, At
<1> QED
    BY <1>1, <1>2, <1>3, <1>4, <1>5, <1>6, <1>7, <1>8, <1>9, Cases

\* Types, and what a call has done when it is where it is.
THEOREM TypeCorrect == Spec => [](TypeOK /\ CallsFollow)
<1>1. Init => CallsFollow
    BY DEF Init, CallsFollow, At, Idle
<1> QED
    BY <1>1, InitTypeOK, StepType, StepFollows, PTL DEF Spec
-----------------------------------------------------------------------------
\* A step that leaves the flag unset, or a call at DETACH or ATTACH, or changes
\* neither the flag nor what is attached nor a call that is there.
LEMMA FlagKept ==
    ASSUME TypeOK, TypeOK', CallsFollow, FlagMeansAttached, [Next]_vars,
           isAttached', \A c \in Calls : ~At(c, "detach")' /\ ~At(c, "attach")'
    PROVE  attached' # NoPath
<1>1. ASSUME NEW c \in Calls, NEW call, calls' = [calls EXCEPT ![c] = call],
             isAttached' = isAttached, attached' = attached,
             ~At(c, "detach"), ~At(c, "attach")
      PROVE  attached' # NoPath
    <2>1. \A d \in Calls : ~At(d, "detach") /\ ~At(d, "attach")
        <3> SUFFICES ASSUME NEW d \in Calls, d # c PROVE ~At(d, "detach") /\ ~At(d, "attach")
            BY <1>1
        <3>1. calls'[d] = calls[d]
            BY <1>1 DEF TypeOK
        <3> QED
            BY <3>1 DEF At
    <2> QED
        BY <1>1, <2>1 DEF FlagMeansAttached
<1>2. ASSUME NEW c \in Calls, CheckBegins(c)
      PROVE  attached' # NoPath
    BY <1>1, <1>2 DEF CheckBegins, At
<1>3. ASSUME NEW c \in Calls, CheckContinues(c)
      PROVE  attached' # NoPath
    <2>1. isAttached' = isAttached /\ attached' = attached
        BY <1>3 DEF CheckContinues
    <2>2. PICK call : calls' = [calls EXCEPT ![c] = call]
        BY <1>3 DEF CheckContinues, Goes, Ends
    <2>3. ~At(c, "detach") /\ ~At(c, "attach")
        BY <1>3 DEF CheckContinues, At
    <2> QED
        BY <1>1, <2>1, <2>2, <2>3
<1>4. ASSUME NEW c \in Calls, Detaches(c)
      PROVE  attached' # NoPath
    <2>1. At(c, "attach")'
        BY <1>4 DEF Detaches, Goes, At, TypeOK, Call
    <2> QED
        BY <2>1
<1>5. ASSUME NEW c \in Calls, attachDirect(c)
      PROVE  attached' # NoPath
    <2>1. calls[c].target \in Paths
        BY <1>5 DEF attachDirect, CallsFollow
    <2> QED
        BY <1>5, <2>1, BridgeAssumption DEF attachDirect, AttachSucceeds, AttachFails
<1>6. ASSUME NEW c \in Calls, Queries(c)
      PROVE  attached' # NoPath
    <2>1. PICK call : calls' = [calls EXCEPT ![c] = call]
        BY <1>6 DEF Queries, Goes, Ends
    <2> QED
        BY <1>1, <1>6, <2>1 DEF Queries, At
<1>7. ASSUME NEW c \in Calls, MarksSynced(c)
      PROVE  attached' # NoPath
    BY <1>1, <1>7 DEF MarksSynced, Ends, At
<1>8. ASSUME NEW c \in Calls, NEW k \in Kinds \ {"status"}, CallBegins(c, k)
      PROVE  attached' # NoPath
    BY <1>1, <1>8 DEF CallBegins, At
<1>9. ASSUME NEW c \in Calls, NEW p \in Paths, setCmmDbPath(p, c)
      PROVE  attached' # NoPath
    BY <1>9 DEF setCmmDbPath
<1>10. CASE UNCHANGED vars \/ \E p \in Paths : FilesChange(p)
    BY <1>10 DEF vars, FilesChange, FlagMeansAttached, At
<1> QED
    BY <1>2, <1>3, <1>4, <1>5, <1>6, <1>7, <1>8, <1>9, <1>10, Cases

\* A download that is marked is in a catalog, and no catalog shrinks.
LEMMA SyncedKept ==
    ASSUME TypeOK, CallsFollow, FlagMeansAttached, [Next]_vars
    PROVE  \A h \in synced' : \E p \in Paths : h \in catalog'[p]
<1>1. \A p \in Paths : catalog[p] \subseteq catalog'[p]
    <2>1. ASSUME NEW c \in Calls, Queries(c)
          PROVE  \A p \in Paths : catalog[p] \subseteq catalog'[p]
        BY <2>1 DEF Queries, TypeOK
    <2> QED
        BY <2>1, Cases DEF CheckBegins, CheckContinues, Detaches, attachDirect, MarksSynced,
                           CallBegins, setCmmDbPath, FilesChange, vars
<1>2. \A h \in synced' : h \in synced \/ \E p \in Paths : h \in catalog[p]
    <2>1. ASSUME NEW c \in Calls, MarksSynced(c)
          PROVE  \A h \in synced' : h \in synced \/ \E p \in Paths : h \in catalog[p]
        BY <2>1 DEF MarksSynced, CallsFollow
    <2> QED
        BY <2>1, Cases DEF CheckBegins, CheckContinues, Detaches, attachDirect, Queries,
                           CallBegins, setCmmDbPath, FilesChange, vars
<1> QED
    BY <1>1, <1>2 DEF FlagMeansAttached

\* The flag isAttached is set in vain only while a call detaches or attaches,
\* however many calls overlap, and a download marked as synced is in a catalog.
THEOREM FlagHonest == Spec => []FlagMeansAttached
<1>1. Init => FlagMeansAttached
    BY DEF Init, FlagMeansAttached
<1>2. TypeOK /\ CallsFollow /\ TypeOK' /\ FlagMeansAttached /\ [Next]_vars => FlagMeansAttached'
    <2> SUFFICES ASSUME TypeOK, CallsFollow, TypeOK', FlagMeansAttached, [Next]_vars
                 PROVE  FlagMeansAttached'
        OBVIOUS
    <2>1. isAttached' /\ (\A c \in Calls : ~At(c, "detach")' /\ ~At(c, "attach")')
              => attached' # NoPath
        BY FlagKept
    <2> QED
        BY <2>1, SyncedKept DEF FlagMeansAttached, At
<1> QED
    BY <1>1, <1>2, TypeCorrect, PTL DEF Spec
-----------------------------------------------------------------------------
(***************************************************************************)
(* The folders and the settings they are kept in.                          *)
(***************************************************************************)

\* What is queued for the settings is of their types.
Statement == {F!Custom(folders) : folders \in SUBSET Folders}
                 \cup {F!Default(f) : f \in Folders \cup {NoFolder}}

\* No operation of the user queues more than two statements.
FolderInv == /\ F!TypeOK
             /\ writes \in Seq(Statement)
             /\ Len(writes) <= 2 * folderOps

LEMMA FolderCounts ==
    ASSUME folderOps \in 0..MaxFolderOps, F!FolderOp
    PROVE  /\ folderOps' \in 0..MaxFolderOps
           /\ 2 * folderOps + 2 <= 2 * folderOps'
           /\ 2 * folderOps' <= 2 * MaxFolderOps
BY CmmAssumption DEF F!FolderOp

\* Statements of the right types go to the end of those queued.
LEMMA SavesTyped ==
    ASSUME FolderInv, F!FolderOp, NEW settings \in Seq(Statement), Len(settings) <= 2,
           writes' = writes \o settings
    PROVE  /\ writes' \in Seq(Statement)
           /\ Len(writes') <= 2 * folderOps'
           /\ Len(writes') <= 2 * MaxFolderOps
           /\ folderOps' \in 0..MaxFolderOps
<1>1. folderOps \in 0..MaxFolderOps
    BY DEF FolderInv, F!TypeOK
<1>2. writes' \in Seq(Statement) /\ Len(writes') = Len(writes) + Len(settings)
    BY ConcatProperties DEF FolderInv
<1>3. Len(writes) \in Nat /\ Len(settings) \in Nat
    BY LenProperties DEF FolderInv
<1> QED
    BY <1>1, <1>2, <1>3, FolderCounts, CmmAssumption DEF FolderInv

\* Nothing queued: the bounds stay those of before.
LEMMA WritesStay ==
    ASSUME FolderInv, UNCHANGED writes, F!FolderOp \/ UNCHANGED folderOps
    PROVE  /\ writes' \in Seq(Statement)
           /\ Len(writes') <= 2 * folderOps'
           /\ Len(writes') <= 2 * MaxFolderOps
           /\ folderOps' \in 0..MaxFolderOps
<1>1. folderOps \in 0..MaxFolderOps /\ Len(writes) \in Nat
    BY LenProperties DEF FolderInv, F!TypeOK
<1> QED
    BY <1>1, FolderCounts, CmmAssumption DEF FolderInv, F!TypeOK

LEMMA DefaultTyped ==
    ASSUME F!TypeOK, NEW choices \in SUBSET Folders, F!DefaultOr(choices)
    PROVE  defaultDownloadFolder' \in Folders \cup {NoFolder}
BY DEF F!TypeOK, F!DefaultOr

\* A status check goes on, to a place of its own.
LEMMA LoadTyped ==
    ASSUME F!TypeOK, NEW l \in Loads,
           NEW place \in {"idle", "configure", "detect", "status", "read", "apply"}
    PROVE  [loads EXCEPT ![l].at = place]
               \in [Loads -> [at : {"idle", "configure", "detect", "status", "read", "apply"},
                              persisted : F!Settings]]
BY DEF F!TypeOK

LEMMA NothingTyped ==
    /\ F!NoSettings \in F!Settings
    /\ F!NoLoad \in [at : {"idle", "configure", "detect", "status", "read", "apply"},
                     persisted : F!Settings]
BY DEF F!NoSettings, F!Settings, F!NoLoad

LEMMA FolderInit == F!Init => FolderInv
<1> SUFFICES ASSUME F!Init PROVE FolderInv
    OBVIOUS
<1>1. db \in F!Settings
    BY NothingTyped DEF F!Init, F!Settings
<1>2. loads \in [Loads -> [at : {"idle", "configure", "detect", "status", "read", "apply"},
                           persisted : F!Settings]]
    BY NothingTyped DEF F!Init
<1>3. /\ writes \in Seq(Statement)
      /\ folderOps \in 0..MaxFolderOps
      /\ Len(writes) <= 2 * folderOps /\ Len(writes) <= 2 * MaxFolderOps
    BY CmmAssumption, EmptySeq DEF F!Init
<1> QED
    BY <1>1, <1>2, <1>3 DEF F!Init, F!TypeOK, FolderInv

\* What the user does to the folders is saved.
LEMMA FolderUser ==
    ASSUME FolderInv, NEW f \in Folders,
           \/ F!recordSessionDialogPath(f)
           \/ F!addModelFolder(f)
           \/ F!removeModelFolder(f)
           \/ F!setDefaultDownloadFolder(f)
    PROVE  FolderInv'
<1>1. CASE F!recordSessionDialogPath(f)
    <2>1. sessionDialogPaths' \subseteq Folders
        BY <1>1 DEF F!recordSessionDialogPath, FolderInv, F!TypeOK
    <2> QED
        BY <1>1, <2>1, WritesStay DEF F!recordSessionDialogPath, F!router, FolderInv, F!TypeOK
<1>2. CASE F!addModelFolder(f)
    <2>1. customFolders' \subseteq Folders /\ defaultDownloadFolder' \in Folders \cup {NoFolder}
        BY <1>2, DefaultTyped DEF F!addModelFolder, FolderInv, F!TypeOK
    <2>2. <<F!Custom(customFolders'), F!Default(defaultDownloadFolder')>> \in Seq(Statement)
        BY <2>1 DEF Statement
    <2>3. PICK settings \in Seq(Statement) : Len(settings) <= 2 /\ writes' = writes \o settings
        <3>1. writes' = writes \o <<F!Custom(customFolders'), F!Default(defaultDownloadFolder')>>
            BY <1>2 DEF F!addModelFolder, F!Saves
        <3>2. Len(<<F!Custom(customFolders'), F!Default(defaultDownloadFolder')>>) <= 2
            OBVIOUS
        <3> SUFFICES \E settings \in Seq(Statement) :
                         Len(settings) <= 2 /\ writes' = writes \o settings
            OBVIOUS
        <3> WITNESS <<F!Custom(customFolders'), F!Default(defaultDownloadFolder')>> \in Seq(Statement)
        <3> QED
            BY <3>1, <3>2
    <2>4. /\ writes' \in Seq(Statement) /\ Len(writes') <= 2 * folderOps'
          /\ Len(writes') <= 2 * MaxFolderOps /\ folderOps' \in 0..MaxFolderOps
        BY <1>2, <2>3, SavesTyped DEF F!addModelFolder
    <2> QED
        BY <1>2, <2>1, <2>4 DEF F!addModelFolder, FolderInv, F!TypeOK
<1>3. CASE F!removeModelFolder(f)
    <2>1. /\ customFolders' \subseteq Folders /\ cmmFolders' \subseteq Folders
          /\ defaultDownloadFolder' \in Folders \cup {NoFolder}
        BY <1>3 DEF F!removeModelFolder, FolderInv, F!TypeOK
    <2>2. <<F!Custom(customFolders'), F!Default(defaultDownloadFolder')>> \in Seq(Statement)
        BY <2>1 DEF Statement
    <2>3. PICK settings \in Seq(Statement) : Len(settings) <= 2 /\ writes' = writes \o settings
        <3>1. writes' = writes \o <<F!Custom(customFolders'), F!Default(defaultDownloadFolder')>>
            BY <1>3 DEF F!removeModelFolder, F!Saves
        <3>2. Len(<<F!Custom(customFolders'), F!Default(defaultDownloadFolder')>>) <= 2
            OBVIOUS
        <3> SUFFICES \E settings \in Seq(Statement) :
                         Len(settings) <= 2 /\ writes' = writes \o settings
            OBVIOUS
        <3> WITNESS <<F!Custom(customFolders'), F!Default(defaultDownloadFolder')>> \in Seq(Statement)
        <3> QED
            BY <3>1, <3>2
    <2>4. /\ writes' \in Seq(Statement) /\ Len(writes') <= 2 * folderOps'
          /\ Len(writes') <= 2 * MaxFolderOps /\ folderOps' \in 0..MaxFolderOps
        BY <1>3, <2>3, SavesTyped DEF F!removeModelFolder
    <2> QED
        BY <1>3, <2>1, <2>4 DEF F!removeModelFolder, FolderInv, F!TypeOK
<1>4. CASE F!setDefaultDownloadFolder(f)
    <2>1. <<F!Default(f)>> \in Seq(Statement)
        BY DEF Statement
    <2>2. PICK settings \in Seq(Statement) : Len(settings) <= 2 /\ writes' = writes \o settings
        <3>1. writes' = writes \o <<F!Default(f)>>
            BY <1>4 DEF F!setDefaultDownloadFolder, F!Saves
        <3>2. Len(<<F!Default(f)>>) <= 2
            OBVIOUS
        <3> SUFFICES \E settings \in Seq(Statement) :
                         Len(settings) <= 2 /\ writes' = writes \o settings
            OBVIOUS
        <3> WITNESS <<F!Default(f)>> \in Seq(Statement)
        <3> QED
            BY <3>1, <3>2
    <2>3. /\ writes' \in Seq(Statement) /\ Len(writes') <= 2 * folderOps'
          /\ Len(writes') <= 2 * MaxFolderOps /\ folderOps' \in 0..MaxFolderOps
        BY <1>4, <2>2, SavesTyped DEF F!setDefaultDownloadFolder
    <2> QED
        BY <1>4, <2>3 DEF F!setDefaultDownloadFolder, FolderInv, F!TypeOK
<1> QED
    BY <1>1, <1>2, <1>3, <1>4

\* Checks that begin.
LEMMA FolderChecks ==
    ASSUME FolderInv, NEW l \in Loads,
           (\E f \in Folders : F!configureSync(f, l)) \/ F!autoDetect(l) \/ F!getStatus(l)
    PROVE  FolderInv'
<1>1. ASSUME NEW f \in Folders, F!configureSync(f, l)
      PROVE  FolderInv'
    <2>1. sessionDialogPaths' \subseteq Folders
        BY <1>1 DEF F!configureSync, FolderInv, F!TypeOK
    <2>2. CASE f \in System
        BY <1>1, <2>1, <2>2, WritesStay DEF F!configureSync, F!router, FolderInv, F!TypeOK
    <2>3. CASE f \notin System
        <3>1. defaultDownloadFolder' \in Folders \cup {NoFolder}
            BY <1>1, <2>3, DefaultTyped DEF F!configureSync, FolderInv
        <3>2. loads' \in [Loads -> [at : {"idle", "configure", "detect", "status", "read",
                                          "apply"}, persisted : F!Settings]]
            <4>1. loads' = [loads EXCEPT ![l].at = "configure"]
                BY <1>1, <2>3 DEF F!configureSync
            <4> QED
                BY <4>1, LoadTyped DEF FolderInv
        <3> QED
            BY <1>1, <2>1, <2>3, <3>1, <3>2, WritesStay DEF F!configureSync, FolderInv, F!TypeOK
    <2> QED
        BY <2>2, <2>3
<1>2. CASE F!autoDetect(l)
    <2>1. loads' \in [Loads -> [at : {"idle", "configure", "detect", "status", "read",
                                      "apply"}, persisted : F!Settings]]
        BY <1>2, LoadTyped DEF F!autoDetect, FolderInv
    <2> QED
        BY <1>2, <2>1, WritesStay DEF F!autoDetect, F!router, FolderInv, F!TypeOK
<1>3. CASE F!getStatus(l)
    <2>1. loads' \in [Loads -> [at : {"idle", "configure", "detect", "status", "read",
                                      "apply"}, persisted : F!Settings]]
        BY <1>3, LoadTyped DEF F!getStatus, FolderInv
    <2> QED
        BY <1>3, <2>1, WritesStay DEF F!getStatus, F!router, FolderInv, F!TypeOK
<1> QED
    BY <1>1, <1>2, <1>3

LEMMA StatusKept == ASSUME FolderInv, NEW l \in Loads, F!StatusArrives(l) PROVE FolderInv'
<1>1. PICK report \in Reports :
          /\ folderStatus' = report.connected
          /\ IF report.connected \/ loads[l].at = "detect"
             THEN F!syncCmmFolders(report)
             ELSE UNCHANGED F!router
          /\ sessionDialogPaths' = IF loads[l].at = "detect"
                                   THEN sessionDialogPaths \cup ({report.root} \ {NoFolder})
                                   ELSE sessionDialogPaths
    BY DEF F!StatusArrives
<1>2. /\ report.connected \in BOOLEAN
      /\ report.root \in Folders \cup {NoFolder}
      /\ report.folders \subseteq Folders
    BY CmmAssumption
<1>3. folderStatus' \in BOOLEAN /\ sessionDialogPaths' \subseteq Folders
    BY <1>1, <1>2 DEF FolderInv, F!TypeOK
<1>4. /\ rootPath' \in Folders \cup {NoFolder}
      /\ defaultDownloadFolder' \in Folders \cup {NoFolder}
      /\ cmmFolders' \subseteq Folders /\ customFolders' \subseteq Folders
    <2>1. CASE UNCHANGED F!router
        BY <2>1 DEF F!router, FolderInv, F!TypeOK
    <2>2. CASE F!syncCmmFolders(report)
        <3> DEFINE root == {report.root} \ {NoFolder}
        <3>1. root \subseteq Folders
            BY <1>2
        <3>2. defaultDownloadFolder' \in Folders \cup {NoFolder}
            BY <1>2, <2>2, <3>1, DefaultTyped DEF F!syncCmmFolders, FolderInv
        <3> QED
            BY <1>2, <2>2, <3>1, <3>2 DEF F!syncCmmFolders, FolderInv, F!TypeOK
    <2> QED
        BY <1>1, <2>1, <2>2
<1>5. loads' \in [Loads -> [at : {"idle", "configure", "detect", "status", "read", "apply"},
                            persisted : F!Settings]]
    BY DEF F!StatusArrives, FolderInv, F!TypeOK
<1> QED
    BY <1>3, <1>4, <1>5, WritesStay DEF F!StatusArrives, FolderInv, F!TypeOK

LEMMA LoadsKept ==
    ASSUME FolderInv, NEW l \in Loads, F!getPersistedAppSettings(l) \/ F!Applies(l)
    PROVE  FolderInv'
<1>1. CASE F!getPersistedAppSettings(l)
    <2>1. loads' \in [Loads -> [at : {"idle", "configure", "detect", "status", "read",
                                      "apply"}, persisted : F!Settings]]
        BY <1>1 DEF F!getPersistedAppSettings, FolderInv, F!TypeOK
    <2> QED
        BY <1>1, <2>1, WritesStay DEF F!getPersistedAppSettings, F!router, FolderInv, F!TypeOK
<1>2. CASE F!Applies(l)
    <2> DEFINE loaded == loads[l].persisted
               added == loaded.customFolders \ F!Listed
    <2>1. loaded.customFolders \subseteq Folders
          /\ loaded.defaultFolder \in Folders \cup {NoFolder}
        BY DEF FolderInv, F!TypeOK, F!Settings
    <2>2. customFolders' = customFolders \cup added
        BY <1>2 DEF F!Applies
    <2>3. /\ rootPath' \in Folders \cup {NoFolder}
          /\ defaultDownloadFolder' \in Folders \cup {NoFolder}
        <3>1. CASE loaded.defaultFolder = NoFolder
            <4>1. F!DefaultOr(added) /\ UNCHANGED rootPath
                BY <1>2, <3>1 DEF F!Applies
            <4> QED
                BY <2>1, <4>1, DefaultTyped DEF FolderInv, F!TypeOK
        <3>2. CASE loaded.defaultFolder # NoFolder
            BY <1>2, <2>1, <3>2 DEF F!Applies, F!LoadedDefault
        <3> QED
            BY <3>1, <3>2
    <2>4. loads' \in [Loads -> [at : {"idle", "configure", "detect", "status", "read",
                                      "apply"}, persisted : F!Settings]]
        BY <1>2, NothingTyped DEF F!Applies, FolderInv, F!TypeOK
    <2>5. customFolders' \subseteq Folders
        BY <2>1, <2>2 DEF FolderInv, F!TypeOK
    <2> HIDE DEF loaded, added
    <2> QED
        BY <1>2, <2>3, <2>4, <2>5, WritesStay DEF F!Applies, FolderInv, F!TypeOK
<1> QED
    BY <1>1, <1>2

\* The first statement sets its setting.
LEMMA DiskKept == ASSUME FolderInv, F!DiskWrites PROVE FolderInv'
<1>1. writes \in Seq(Statement) /\ writes # <<>>
    BY DEF FolderInv, F!DiskWrites
<1>2. /\ Head(writes) \in Statement
      /\ Tail(writes) \in Seq(Statement) /\ Len(Tail(writes)) = Len(writes) - 1
    BY <1>1, HeadTailProperties
<1>3. db' = [db EXCEPT ![Head(writes).key] = Head(writes).value]
    BY DEF F!DiskWrites
<1>4. db' \in F!Settings
    <2>1. ASSUME NEW folders \in SUBSET Folders, Head(writes) = F!Custom(folders)
          PROVE  db' \in F!Settings
        BY <1>3, <2>1 DEF FolderInv, F!TypeOK, F!Settings, F!Custom
    <2>2. ASSUME NEW f \in Folders \cup {NoFolder}, Head(writes) = F!Default(f)
          PROVE  db' \in F!Settings
        BY <1>3, <2>2 DEF FolderInv, F!TypeOK, F!Settings, F!Default
    <2> QED
        BY <1>2, <2>1, <2>2 DEF Statement
<1>5. /\ writes' \in Seq(Statement)
      /\ Len(writes') <= 2 * folderOps' /\ Len(writes') <= 2 * MaxFolderOps
    <2>1. Len(writes) \in Nat /\ folderOps \in Nat /\ MaxFolderOps \in Nat
        BY <1>1, LenProperties, CmmAssumption DEF FolderInv, F!TypeOK
    <2> QED
        BY <1>2, <2>1 DEF F!DiskWrites, FolderInv, F!TypeOK
<1> QED
    BY <1>4, <1>5 DEF F!DiskWrites, F!router, FolderInv, F!TypeOK

LEMMA RestartKept == ASSUME FolderInv, F!Restart PROVE FolderInv'
<1>1. folderOps' \in 0..MaxFolderOps
    BY FolderCounts DEF F!Restart, FolderInv, F!TypeOK
<1>2. /\ writes' \in Seq(Statement)
      /\ Len(writes') <= 2 * folderOps' /\ Len(writes') <= 2 * MaxFolderOps
    BY <1>1, CmmAssumption, EmptySeq DEF F!Restart
<1>3. loads' \in [Loads -> [at : {"idle", "configure", "detect", "status", "read", "apply"},
                            persisted : F!Settings]]
    BY NothingTyped DEF F!Restart
<1> QED
    BY <1>1, <1>2, <1>3 DEF F!Restart, FolderInv, F!TypeOK

LEMMA FolderStep == ASSUME FolderInv, [F!Next]_F!vars PROVE FolderInv'
<1>1. CASE UNCHANGED F!vars
    BY <1>1 DEF F!vars, FolderInv, F!TypeOK
<1> QED
    BY <1>1, FolderUser, FolderChecks, StatusKept, LoadsKept, DiskKept, RestartKept
       DEF F!Next, F!Steps
-----------------------------------------------------------------------------
(***************************************************************************)
(* The page's calls.                                                       *)
(***************************************************************************)

LEMMA LinkInit == L!Init => L!TypeOK
<1> SUFFICES ASSUME L!Init PROVE L!TypeOK
    OBVIOUS
<1>1. cmmProbeBudgetRef \in 0..Budget /\ events \in 0..MaxEvents
    BY CmmAssumption DEF L!Init
<1>2. pageCalls \in [Slots -> [kind : {"check", "detect", "models"},
                              at : {"idle", "asked", "yes", "no"}]]
    BY DEF L!Init, L!NoCall
<1> QED
    BY <1>1, <1>2 DEF L!Init, L!TypeOK

\* A call that is asked, or has ended, is a call; the budget is held at zero.
LEMMA LinkTypes ==
    ASSUME L!TypeOK
    PROVE  /\ L!NoCall \in [kind : {"check", "detect", "models"},
                            at : {"idle", "asked", "yes", "no"}]
           /\ \A kind \in {"check", "detect", "models"} :
                  L!Asked(kind) \in [kind : {"check", "detect", "models"},
                                     at : {"idle", "asked", "yes", "no"}]
           /\ L!Spent \in 0..Budget
           /\ Budget \in 0..Budget
           /\ events < MaxEvents => events + 1 \in 0..MaxEvents
<1>1. Budget \in Nat /\ MaxEvents \in Nat
    BY CmmAssumption
<1>2. L!Spent \in 0..Budget
    BY <1>1 DEF L!Spent, L!TypeOK
<1> QED
    BY <1>1, <1>2 DEF L!NoCall, L!Asked, L!TypeOK

LEMMA LinkReturns == ASSUME L!TypeOK, NEW s \in Slots, L!Returns(s) PROVE L!TypeOK'
<1>1. CASE L!CheckReturns(s)
    BY <1>1, LinkTypes DEF L!Returns, L!CheckReturns, L!TypeOK
<1>2. CASE L!DetectReturns(s)
    BY <1>2, LinkTypes DEF L!Returns, L!DetectReturns, L!TypeOK
<1>3. CASE L!ModelsReturn(s)
    BY <1>3, LinkTypes DEF L!Returns, L!ModelsReturn, L!TypeOK
<1> QED
    BY <1>1, <1>2, <1>3 DEF L!Returns

LEMMA LinkCalls ==
    ASSUME L!TypeOK, NEW s \in Slots,
           L!Poll(s) \/ L!Retry(s) \/ L!Detect(s) \/ L!Answers(s) \/ L!PokeArrives(s)
    PROVE  L!TypeOK'
<1>1. CASE L!Poll(s)
    BY <1>1, LinkTypes DEF L!Poll, L!TypeOK
<1>2. CASE L!Retry(s)
    BY <1>2, LinkTypes DEF L!Retry, L!Event, L!CheckManually, L!TypeOK
<1>3. CASE L!Detect(s)
    BY <1>3, LinkTypes DEF L!Detect, L!Event, L!TypeOK
<1>4. CASE L!Answers(s)
    BY <1>4 DEF L!Answers, L!TypeOK
<1>5. CASE L!PokeArrives(s)
    BY <1>5, LinkTypes DEF L!PokeArrives, L!CheckManually, L!TypeOK
<1> QED
    BY <1>1, <1>2, <1>3, <1>4, <1>5

LEMMA LinkStep == ASSUME L!TypeOK, [L!Next]_L!vars PROVE L!TypeOK'
<1>1. CASE L!ServerStarts \/ L!PokeRefused
    BY <1>1 DEF L!ServerStarts, L!PokeRefused, L!TypeOK
<1>2. ASSUME NEW s \in Slots, NEW m \in Slots, L!Mount(s, m)
      PROVE  L!TypeOK'
    BY <1>2, LinkTypes DEF L!Mount, L!TypeOK
<1>3. CASE L!CmmStarts \/ L!CmmStops
    BY <1>3, LinkTypes DEF L!CmmStarts, L!CmmStops, L!Event, L!TypeOK
<1>4. CASE UNCHANGED L!vars
    BY <1>4 DEF L!vars, L!TypeOK
<1> QED
    BY <1>1, <1>2, <1>3, <1>4, LinkReturns, LinkCalls DEF L!Next

-----------------------------------------------------------------------------
(***************************************************************************)
(* The metadata of a model.                                                *)
(***************************************************************************)

\* What heard may hold: RenegadeCMM says nothing of the fields that count here.
Answering == X!Sources \cup {"cmm", "civitai without preview"}

\* While the extraction runs, a field has the nearest word of those heard so far,
\* or none was said and nothing is found: a name is guessed last of all.
NearestSoFar(f) ==
    \/ X!Unsaid(f) /\ found[f] \in IF at = "write" THEN {NoPath, "fileName"} ELSE {NoPath}
    \/ X!FromNearest(f)

ExtractInv == /\ X!TypeOK
              /\ heard \in Seq(Answering)
              /\ at # "idle" => \A f \in X!NearestFields : NearestSoFar(f)

LEMMA FillsType ==
    ASSUME NEW values \in [X!Fields -> X!Origins \cup {NoPath}], NEW source \in X!Origins,
           NEW fields
    PROVE  /\ X!Fills(values, source, fields) \in [X!Fields -> X!Origins \cup {NoPath}]
           /\ X!Replaces(values, source, fields) \in [X!Fields -> X!Origins \cup {NoPath}]
           /\ \A f \in X!Fields :
                 /\ X!Fills(values, source, fields)[f] =
                        IF f \in fields /\ values[f] = NoPath THEN source ELSE values[f]
                 /\ X!Replaces(values, source, fields)[f] =
                        IF f \in fields THEN source ELSE values[f]
BY DEF X!Fills, X!Replaces

LEMMA SourceTypes == /\ X!Sources \subseteq X!Origins
                     /\ X!NearestFields \subseteq X!Fields \ X!Columns
                     /\ {"fileName", "computed"} \subseteq X!Origins
BY DEF X!Sources, X!Origins, X!NearestFields, X!Fields, X!Columns

\* A source's word is a source, hence something.
LEMMA WordsSay ==
    ASSUME NEW source, NEW f, X!Says(source, f)
    PROVE  X!Word(source) \in X!Sources /\ X!Word(source) # NoPath
<1>1. X!Word(source) \in X!Sources
    BY DEF X!Says, X!Word, X!Sources
<1> QED
    BY <1>1, SourceTypes, CmmAssumption

\* Those that have something for the field.
Sayers(f) == {s \in Answering : X!Says(s, f)}

\* The same in terms of them.
SayersMean ==
    heard \in Seq(Answering) =>
        \A f \in X!NearestFields :
            /\ X!Unsaid(f) <=> \A i \in 1..Len(heard) : heard[i] \notin Sayers(f)
            /\ X!FromNearest(f) <=>
                   \E i \in 1..Len(heard) : /\ heard[i] \in Sayers(f)
                                            /\ \A j \in 1..(i - 1) : heard[j] \notin Sayers(f)
                                            /\ found[f] = X!Word(heard[i])

LEMMA BySayers == SayersMean
<1> SUFFICES ASSUME NEW f \in X!NearestFields, heard \in Seq(Answering)
             PROVE  /\ X!Unsaid(f) <=> \A i \in 1..Len(heard) : heard[i] \notin Sayers(f)
                    /\ X!FromNearest(f) <=>
                           \E i \in 1..Len(heard) :
                               /\ heard[i] \in Sayers(f)
                               /\ \A j \in 1..(i - 1) : heard[j] \notin Sayers(f)
                               /\ found[f] = X!Word(heard[i])
    BY DEF SayersMean
<1>1. DOMAIN heard = 1..Len(heard) /\ Len(heard) \in Nat
    OBVIOUS
<1>2. \A i \in 1..Len(heard) : X!Says(heard[i], f) <=> heard[i] \in Sayers(f)
    BY DEF Sayers
<1>3. \A i \in 1..Len(heard) : \A j \in 1..(i - 1) : j \in 1..Len(heard)
    BY <1>1
<1> QED
    BY <1>1, <1>2, <1>3 DEF X!Unsaid, X!FromNearest

\* The source that answers next fills what is not found yet: its word is the
\* nearest, or there was one, or none has something still.
LEMMA NextHeard ==
    ASSUME ExtractInv, at # "idle", at # "write", NEW source \in Answering,
           heard' = Append(heard, source), offers' = offers,
           NEW f \in X!NearestFields,
           found[f] # NoPath => found'[f] = found[f],
           found[f] = NoPath /\ X!Says(source, f) => found'[f] = X!Word(source)
    PROVE  /\ heard' \in Seq(Answering)
           /\ \/ X!Unsaid(f)' /\ found[f] = NoPath /\ ~X!Says(source, f)
              \/ X!FromNearest(f)'
<1>1. /\ heard' \in Seq(Answering)
      /\ Len(heard) \in Nat /\ Len(heard') = Len(heard) + 1
      /\ heard'[Len(heard) + 1] = source
      /\ \A i \in 1..Len(heard) : heard'[i] = heard[i]
    BY DEF ExtractInv
<1>2. Sayers(f)' = Sayers(f)
    BY DEF Sayers, X!Says
<1>3. SayersMean'
    BY BySayers, PTL
<1>4. X!Unsaid(f)' <=> \A i \in 1..Len(heard') : heard'[i] \notin Sayers(f)
    <2>1. X!Unsaid(f)' <=> \A i \in 1..Len(heard') : heard'[i] \notin Sayers(f)'
        BY <1>1, <1>3 DEF SayersMean
    <2> QED
        BY <2>1, <1>2
<1>5. X!FromNearest(f)' <=>
          \E i \in 1..Len(heard') : /\ heard'[i] \in Sayers(f)
                                    /\ \A j \in 1..(i - 1) : heard'[j] \notin Sayers(f)
                                    /\ found'[f] = X!Word(heard'[i])
    <2>1. X!FromNearest(f)' <=>
              \E i \in 1..Len(heard') :
                  /\ heard'[i] \in Sayers(f)'
                  /\ \A j \in 1..(i - 1) : heard'[j] \notin Sayers(f)'
                  /\ found'[f] = X!Word(heard'[i])
        BY <1>1, <1>3 DEF SayersMean
    <2> QED
        BY <2>1, <1>2
<1>6. NearestSoFar(f)
    BY DEF ExtractInv
<1>7. X!Says(source, f) <=> source \in Sayers(f)
    BY DEF Sayers
<1>8. CASE X!FromNearest(f)
    <2>1. PICK i \in 1..Len(heard) : /\ heard[i] \in Sayers(f)
                                     /\ \A j \in 1..(i - 1) : heard[j] \notin Sayers(f)
                                     /\ found[f] = X!Word(heard[i])
        BY <1>8, BySayers DEF SayersMean, ExtractInv
    <2>2. found'[f] = found[f]
        BY <2>1, WordsSay DEF Sayers
    <2>3. i \in 1..Len(heard') /\ heard'[i] = heard[i]
          /\ \A j \in 1..(i - 1) : heard'[j] = heard[j]
        BY <1>1
    <2> QED
        BY <1>1, <1>5, <2>1, <2>2, <2>3
<1>9. CASE X!Unsaid(f) /\ found[f] = NoPath
    <2>1. \A j \in 1..Len(heard) : heard[j] \notin Sayers(f)
        BY <1>9, BySayers DEF SayersMean, ExtractInv
    <2>2. CASE source \in Sayers(f)
        <3>1. found'[f] = X!Word(source)
            BY <1>7, <1>9, <2>2
        <3>2. Len(heard) + 1 \in 1..Len(heard')
              /\ \A j \in 1..(Len(heard) + 1 - 1) : heard'[j] \notin Sayers(f)
            BY <1>1, <2>1
        <3> QED
            BY <1>1, <1>5, <2>2, <3>1, <3>2
    <2>3. CASE source \notin Sayers(f)
        <3>1. \A j \in 1..Len(heard') : heard'[j] \notin Sayers(f)
            BY <1>1, <2>1, <2>3
        <3> QED
            BY <1>1, <1>4, <1>7, <1>9, <2>3, <3>1
    <2> QED
        BY <2>2, <2>3
<1> QED
    BY <1>1, <1>6, <1>8, <1>9 DEF NearestSoFar

\* None answers, and what is found of the field stays.
LEMMA NobodyHeard ==
    ASSUME ExtractInv, at # "idle", at # "write", heard' = heard, offers' = offers,
           NEW f \in X!NearestFields, found[f] # NoPath => found'[f] = found[f]
    PROVE  /\ heard' \in Seq(Answering)
           /\ \/ X!Unsaid(f)' /\ found[f] = NoPath
              \/ X!FromNearest(f)'
<1>1. Sayers(f)' = Sayers(f) /\ heard \in Seq(Answering)
    BY DEF Sayers, X!Says, ExtractInv
<1>2. SayersMean'
    BY BySayers, PTL
<1>3. NearestSoFar(f)
    BY DEF ExtractInv
<1>4. CASE X!FromNearest(f)
    <2>1. PICK i \in 1..Len(heard) : /\ heard[i] \in Sayers(f)
                                     /\ \A j \in 1..(i - 1) : heard[j] \notin Sayers(f)
                                     /\ found[f] = X!Word(heard[i])
        BY <1>1, <1>4, BySayers DEF SayersMean
    <2>2. found'[f] = found[f]
        BY <2>1, WordsSay DEF Sayers
    <2> QED
        BY <1>1, <1>2, <2>1, <2>2 DEF SayersMean
<1>5. CASE X!Unsaid(f)
    BY <1>1, <1>2, <1>3, <1>5, BySayers DEF SayersMean, NearestSoFar
<1> QED
    BY <1>1, <1>3, <1>4, <1>5 DEF NearestSoFar

\* The extraction goes from one source to the next.
Asking == {"header", "cmm", "hash", "civitai", "huggingface", "preview"}

LEMMA ExtractInit == X!Init => ExtractInv
<1> SUFFICES ASSUME X!Init PROVE ExtractInv
    OBVIOUS
<1>1. offers \in [X!Sources -> SUBSET X!Fields]
    BY CmmAssumption DEF X!Init
<1>2. row \in [X!Columns -> X!Origins \cup {NoPath}]
      /\ found \in [X!Fields -> X!Origins \cup {NoPath}]
    BY DEF X!Init, X!Nothing
<1>3. extractions \in 0..MaxExtractions /\ heard \in Seq(Answering)
    BY CmmAssumption, EmptySeq DEF X!Init
<1> QED
    BY <1>1, <1>2, <1>3 DEF X!Init, X!TypeOK, ExtractInv

\* Beside the file and in its path: the first two words.
LEMMA ExtractBegins == ASSUME ExtractInv, X!extractMetadata PROVE ExtractInv'
<1> DEFINE first == X!Fills(X!Nothing, "path", offers["path"])
           then == X!Replaces(first, "companion", offers["companion"])
<1>1. {"path", "companion"} \subseteq X!Sources /\ {"path", "companion"} \subseteq X!Origins
    BY DEF X!Sources, X!Origins
<1>2. X!Nothing \in [X!Fields -> X!Origins \cup {NoPath}]
      /\ \A f \in X!Fields : X!Nothing[f] = NoPath
    BY DEF X!Nothing
<1>3. /\ first \in [X!Fields -> X!Origins \cup {NoPath}]
      /\ \A f \in X!Fields : first[f] = IF f \in offers["path"] THEN "path" ELSE NoPath
    BY <1>1, <1>2, FillsType
<1> HIDE DEF first
<1>4. /\ then \in [X!Fields -> X!Origins \cup {NoPath}]
      /\ \A f \in X!Fields : then[f] = IF f \in offers["companion"] THEN "companion"
                                       ELSE first[f]
    BY <1>1, <1>3, FillsType
<1> HIDE DEF then
<1>5. found' = then /\ heard' = <<"companion", "path">> /\ at' = "header"
      /\ offers' = offers
    BY DEF X!extractMetadata, first, then
<1>6. X!TypeOK'
    <2>1. extractions' \in 0..MaxExtractions
        BY CmmAssumption DEF X!extractMetadata, ExtractInv, X!TypeOK
    <2> QED
        BY <1>4, <1>5, <2>1 DEF X!extractMetadata, ExtractInv, X!TypeOK
<1>7. /\ heard' \in Seq(Answering) /\ Len(heard') = 2
      /\ heard'[1] = "companion" /\ heard'[2] = "path"
    BY <1>5 DEF Answering, X!Sources
<1>8. SayersMean'
    BY BySayers, PTL
<1>9. ASSUME NEW f \in X!NearestFields
      PROVE  NearestSoFar(f)'
    <2>1. f \in X!Fields
        BY SourceTypes
    <2>2. /\ "companion" \in Sayers(f)' <=> f \in offers["companion"]
          /\ "path" \in Sayers(f)' <=> f \in offers["path"]
        BY <1>1, <1>5 DEF Sayers, X!Says, Answering
    <2>3. CASE f \in offers["companion"]
        <3>1. found'[f] = X!Word(heard'[1]) /\ heard'[1] \in Sayers(f)'
            BY <1>4, <1>5, <1>7, <2>1, <2>2, <2>3 DEF X!Word
        <3>2. 1 \in 1..Len(heard') /\ \A j \in 1..(1 - 1) : heard'[j] \notin Sayers(f)'
            BY <1>7
        <3> QED
            BY <1>7, <1>8, <3>1, <3>2 DEF SayersMean, NearestSoFar
    <2>4. CASE f \notin offers["companion"] /\ f \in offers["path"]
        <3>1. found'[f] = X!Word(heard'[2]) /\ heard'[2] \in Sayers(f)'
            BY <1>3, <1>4, <1>5, <1>7, <2>1, <2>2, <2>4 DEF X!Word
        <3>2. 2 \in 1..Len(heard') /\ \A j \in 1..(2 - 1) : heard'[j] \notin Sayers(f)'
            BY <1>7, <2>2, <2>4
        <3> QED
            BY <1>7, <1>8, <3>1, <3>2 DEF SayersMean, NearestSoFar
    <2>5. CASE f \notin offers["companion"] /\ f \notin offers["path"]
        <3>1. found'[f] = NoPath
            BY <1>3, <1>4, <1>5, <2>1, <2>5
        <3>2. \A i \in 1..Len(heard') : heard'[i] \notin Sayers(f)'
            BY <1>7, <2>2, <2>5
        <3> QED
            BY <1>5, <1>7, <1>8, <3>1, <3>2 DEF SayersMean, NearestSoFar
    <2> QED
        BY <2>3, <2>4, <2>5
<1> QED
    BY <1>6, <1>7, <1>9 DEF ExtractInv

\* What the next place needs when the extraction goes on to another source.
LEMMA GoesOn ==
    ASSUME ExtractInv, at # "idle", NEW place \in Asking, X!Goes(place),
           found' \in [X!Fields -> X!Origins \cup {NoPath}], isLlm' \in BOOLEAN,
           heard' \in Seq(Answering),
           \A f \in X!NearestFields : \/ X!Unsaid(f)' /\ found'[f] = NoPath
                                      \/ X!FromNearest(f)'
    PROVE  ExtractInv'
<1>1. X!TypeOK'
    BY DEF X!Goes, Asking, ExtractInv, X!TypeOK
<1>2. at' # "write"
    BY DEF X!Goes, Asking
<1> QED
    BY <1>1, <1>2 DEF ExtractInv, NearestSoFar

LEMMA ExtractHeader == ASSUME ExtractInv, X!readSafetensorsMetadata PROVE ExtractInv'
<1>1. /\ at = "header" /\ found' = X!Fills(found, "header", offers["header"])
      /\ heard' = Append(heard, "header") /\ X!Goes("cmm") /\ isLlm' = isLlm
      /\ offers' = offers
    BY DEF X!readSafetensorsMetadata, X!Hears, X!Goes
<1>2. found \in [X!Fields -> X!Origins \cup {NoPath}] /\ isLlm \in BOOLEAN
    BY DEF ExtractInv, X!TypeOK
<1>3. "header" \in X!Origins /\ "header" \in Answering
    BY DEF X!Origins, X!Sources, Answering
<1>4. /\ found' \in [X!Fields -> X!Origins \cup {NoPath}]
      /\ \A f \in X!Fields : found'[f] = IF f \in offers["header"] /\ found[f] = NoPath
                                         THEN "header" ELSE found[f]
    BY <1>1, <1>2, <1>3, FillsType
<1>5. ASSUME NEW f \in X!NearestFields
      PROVE  /\ heard' \in Seq(Answering)
             /\ \/ X!Unsaid(f)' /\ found'[f] = NoPath
                \/ X!FromNearest(f)'
    <2>1. f \in X!Fields
        BY SourceTypes
    <2>2. (X!Says("header", f) <=> f \in offers["header"]) /\ X!Word("header") = "header"
        BY DEF X!Says, X!Sources, X!Word
    <2> QED
        BY <1>1, <1>3, <1>4, <2>1, <2>2, NextHeard
<1>6. heard' \in Seq(Answering)
    BY <1>1, <1>3 DEF ExtractInv
<1>7. "cmm" \in Asking
    BY DEF Asking
<1> QED
    BY <1>1, <1>2, <1>4, <1>5, <1>6, <1>7, GoesOn

\* The catalog has no column for the fields that count.
LEMMA ExtractCmm == ASSUME ExtractInv, X!CmmAnswers PROVE ExtractInv'
<1>1. at = "cmm" /\ X!Goes("hash") /\ isLlm' = isLlm /\ offers' = offers
    BY DEF X!CmmAnswers, X!Goes
<1>2. /\ found \in [X!Fields -> X!Origins \cup {NoPath}] /\ isLlm \in BOOLEAN
      /\ row \in [X!Columns -> X!Origins \cup {NoPath}]
      /\ heard \in Seq(Answering)
    BY DEF ExtractInv, X!TypeOK
<1>3. "cmm" \in Answering /\ "hash" \in Asking
    BY DEF Answering, Asking
<1>4. /\ found' \in [X!Fields -> X!Origins \cup {NoPath}]
      /\ \A f \in X!NearestFields : found'[f] = found[f]
      /\ heard' = Append(heard, "cmm") \/ heard' = heard
    BY <1>2, SourceTypes DEF X!CmmAnswers, X!Hears
<1>5. heard' \in Seq(Answering)
    BY <1>2, <1>3, <1>4
<1>6. ASSUME NEW f \in X!NearestFields
      PROVE  \/ X!Unsaid(f)' /\ found'[f] = NoPath
             \/ X!FromNearest(f)'
    <2>1. ~X!Says("cmm", f)
        BY DEF X!Says, X!Sources
    <2>2. CASE heard' = Append(heard, "cmm")
        BY <1>1, <1>3, <1>4, <2>1, <2>2, NextHeard
    <2>3. CASE heard' = heard
        BY <1>1, <1>4, <2>3, NobodyHeard
    <2> QED
        BY <1>4, <2>2, <2>3
<1> QED
    BY <1>1, <1>2, <1>3, <1>4, <1>5, <1>6, GoesOn

LEMMA ExtractHash == ASSUME ExtractInv, X!computeFileSha256 PROVE ExtractInv'
<1>1. PICK llm \in BOOLEAN, hashed \in SUBSET {"sha256"} :
          /\ isLlm' = llm
          /\ found' = X!Fills(X!Fills(found, "fileName", IF llm THEN {"modelType"} ELSE {}),
                              "computed", hashed)
    BY DEF X!computeFileSha256
<1>2. at = "hash" /\ X!Goes("civitai") /\ heard' = heard /\ offers' = offers
    BY DEF X!computeFileSha256, X!Goes
<1>3. found \in [X!Fields -> X!Origins \cup {NoPath}] /\ heard \in Seq(Answering)
    BY DEF ExtractInv, X!TypeOK
<1> DEFINE named == X!Fills(found, "fileName", IF llm THEN {"modelType"} ELSE {})
<1>4. /\ named \in [X!Fields -> X!Origins \cup {NoPath}]
      /\ \A f \in X!Fields : f # "modelType" => named[f] = found[f]
    BY <1>3, SourceTypes, FillsType
<1>5. found' = X!Fills(named, "computed", hashed)
    BY <1>1
<1> HIDE DEF named
<1>6. /\ found' \in [X!Fields -> X!Origins \cup {NoPath}]
      /\ \A f \in X!Fields : f # "sha256" => found'[f] = named[f]
    <2>1. "computed" \in X!Origins /\ \A f : f # "sha256" => f \notin hashed
        BY SourceTypes
    <2> QED
        BY <1>4, <1>5, <2>1, FillsType
<1>7. ASSUME NEW f \in X!NearestFields
      PROVE  \/ X!Unsaid(f)' /\ found'[f] = NoPath
             \/ X!FromNearest(f)'
    <2>1. found'[f] = found[f]
        BY <1>4, <1>6 DEF X!NearestFields, X!Fields
    <2> QED
        BY <1>2, <2>1, NobodyHeard
<1>8. "civitai" \in Asking
    BY DEF Asking
<1> QED
    BY <1>1, <1>2, <1>3, <1>6, <1>7, <1>8, GoesOn

\* Name, type and number are none of the fields that count.
LEMMA TakenType ==
    ASSUME ExtractInv, NEW fields \in SUBSET X!Fields
    PROVE  /\ X!TakenFromCivitai(fields) \in [X!Fields -> X!Origins \cup {NoPath}]
           /\ \A f \in X!NearestFields :
                  X!TakenFromCivitai(fields)[f] =
                      IF f \in fields /\ found[f] = NoPath THEN "civitai" ELSE found[f]
<1> DEFINE overriding == {"title", "modelType", "civitaiModelId"}
           replaced == X!Replaces(found, "civitai", fields \cap overriding)
<1>1. found \in [X!Fields -> X!Origins \cup {NoPath}] /\ "civitai" \in X!Origins
    BY DEF ExtractInv, X!TypeOK, X!Origins, X!Sources
<1>2. /\ replaced \in [X!Fields -> X!Origins \cup {NoPath}]
      /\ \A f \in X!Fields : f \notin overriding => replaced[f] = found[f]
    BY <1>1, FillsType
<1>3. X!TakenFromCivitai(fields) = X!Fills(replaced, "civitai", fields)
    BY DEF X!TakenFromCivitai
<1> HIDE DEF replaced
<1>4. /\ X!TakenFromCivitai(fields) \in [X!Fields -> X!Origins \cup {NoPath}]
      /\ \A f \in X!Fields : X!TakenFromCivitai(fields)[f] =
             IF f \in fields /\ replaced[f] = NoPath THEN "civitai" ELSE replaced[f]
    BY <1>1, <1>2, <1>3, FillsType
<1>5. \A f \in X!NearestFields : f \in X!Fields /\ f \notin overriding
    BY DEF X!NearestFields, X!Fields
<1> QED
    BY <1>2, <1>4, <1>5

LEMMA ExtractCivitai == ASSUME ExtractInv, X!CivitaiAnswers PROVE ExtractInv'
<1>1. at = "civitai" /\ X!Goes("huggingface") /\ isLlm' = isLlm /\ offers' = offers
    BY DEF X!CivitaiAnswers, X!Goes
<1>2. /\ found \in [X!Fields -> X!Origins \cup {NoPath}] /\ isLlm \in BOOLEAN
      /\ heard \in Seq(Answering) /\ offers["civitai"] \subseteq X!Fields
    BY DEF ExtractInv, X!TypeOK, X!Sources
<1>3. {"civitai", "civitai without preview"} \subseteq Answering /\ "huggingface" \in Asking
    BY DEF Answering, Asking, X!Sources
<1>4. ASSUME NEW source \in Answering, NEW fields \in SUBSET X!Fields,
             found' = X!TakenFromCivitai(fields), heard' = Append(heard, source),
             \A f : X!Says(source, f) <=> f \in fields, X!Word(source) = "civitai"
      PROVE  ExtractInv'
    <2>1. /\ found' \in [X!Fields -> X!Origins \cup {NoPath}]
          /\ \A f \in X!NearestFields :
                 found'[f] = IF f \in fields /\ found[f] = NoPath THEN "civitai" ELSE found[f]
        BY <1>4, TakenType
    <2>2. heard' \in Seq(Answering)
        BY <1>2, <1>4
    <2>3. ASSUME NEW f \in X!NearestFields
          PROVE  \/ X!Unsaid(f)' /\ found'[f] = NoPath
                 \/ X!FromNearest(f)'
        BY <1>1, <1>4, <2>1, NextHeard
    <2> QED
        BY <1>1, <1>2, <1>3, <2>1, <2>2, <2>3, GoesOn
<1>5. CASE found' = X!TakenFromCivitai(offers["civitai"]) /\ X!Hears("civitai")
    <2>1. (\A f : X!Says("civitai", f) <=> f \in offers["civitai"])
          /\ X!Word("civitai") = "civitai"
        BY DEF X!Says, X!Sources, X!Word
    <2> QED
        BY <1>2, <1>3, <1>4, <1>5, <2>1 DEF X!Hears
<1>6. CASE found' = X!TakenFromCivitai(offers["civitai"] \ {"preview"})
           /\ X!Hears("civitai without preview")
    <2>1. (\A f : X!Says("civitai without preview", f)
                      <=> f \in offers["civitai"] \ {"preview"})
          /\ X!Word("civitai without preview") = "civitai"
        BY DEF X!Says, X!Sources, X!Word
    <2> QED
        BY <1>2, <1>3, <1>4, <1>6, <2>1 DEF X!Hears
<1>7. CASE UNCHANGED <<found, heard>>
    <2>1. ASSUME NEW f \in X!NearestFields
          PROVE  \/ X!Unsaid(f)' /\ found'[f] = NoPath
                 \/ X!FromNearest(f)'
        BY <1>1, <1>7, NobodyHeard
    <2> QED
        BY <1>1, <1>2, <1>3, <1>7, <2>1, GoesOn
<1> QED
    BY <1>5, <1>6, <1>7 DEF X!CivitaiAnswers

LEMMA ExtractHuggingFace == ASSUME ExtractInv, X!HuggingFaceAnswers PROVE ExtractInv'
<1>1. at = "huggingface" /\ X!Goes("preview") /\ isLlm' = isLlm /\ offers' = offers
    BY DEF X!HuggingFaceAnswers, X!Goes
<1>2. /\ found \in [X!Fields -> X!Origins \cup {NoPath}] /\ isLlm \in BOOLEAN
      /\ heard \in Seq(Answering)
    BY DEF ExtractInv, X!TypeOK
<1>3. "huggingface" \in Answering /\ "preview" \in Asking /\ "huggingface" \in X!Origins
    BY DEF Answering, Asking, X!Sources, X!Origins
<1>4. CASE UNCHANGED <<found, heard>>
    <2>1. ASSUME NEW f \in X!NearestFields
          PROVE  \/ X!Unsaid(f)' /\ found'[f] = NoPath
                 \/ X!FromNearest(f)'
        BY <1>1, <1>4, NobodyHeard
    <2> QED
        BY <1>1, <1>2, <1>3, <1>4, <2>1, GoesOn
<1>5. CASE X!Hears("huggingface") /\ ~UNCHANGED <<found, heard>>
    <2> DEFINE guessed == IF found["title"] = "fileName" THEN {"title"} ELSE {}
               offered == offers["huggingface"]
               replaced == X!Replaces(found, "huggingface", guessed \cap offered)
    <2>1. found' = X!Fills(replaced, "huggingface", offered)
        BY <1>5 DEF X!HuggingFaceAnswers
    <2>2. /\ replaced \in [X!Fields -> X!Origins \cup {NoPath}]
          /\ \A f \in X!Fields : f # "title" => replaced[f] = found[f]
        BY <1>2, <1>3, FillsType
    <2>3. \A f : X!Says("huggingface", f) <=> f \in offered
        BY DEF X!Says, X!Sources
    <2> HIDE DEF replaced, offered
    <2>4. /\ found' \in [X!Fields -> X!Origins \cup {NoPath}]
          /\ \A f \in X!Fields : found'[f] = IF f \in offered /\ replaced[f] = NoPath
                                             THEN "huggingface" ELSE replaced[f]
        BY <1>3, <2>1, <2>2, FillsType
    <2>5. \A f \in X!NearestFields : f \in X!Fields /\ f # "title"
        BY DEF X!NearestFields, X!Fields
    <2>6. X!Word("huggingface") = "huggingface"
        BY DEF X!Word
    <2>7. heard' = Append(heard, "huggingface") /\ heard' \in Seq(Answering)
        BY <1>2, <1>3, <1>5 DEF X!Hears
    <2>8. ASSUME NEW f \in X!NearestFields
          PROVE  \/ X!Unsaid(f)' /\ found'[f] = NoPath
                 \/ X!FromNearest(f)'
        BY <1>1, <1>3, <2>2, <2>3, <2>4, <2>5, <2>6, <2>7, NextHeard
    <2> QED
        BY <1>1, <1>2, <1>3, <2>4, <2>7, <2>8, GoesOn
<1> QED
    BY <1>4, <1>5 DEF X!HuggingFaceAnswers

\* A name is guessed where nothing was said.
LEMMA ExtractGuesses == ASSUME ExtractInv, X!Guesses PROVE ExtractInv'
<1> DEFINE inspected == IF found["preview"] = NoPath THEN found
                        ELSE X!Fills(found, "workflow", offers["workflow"])
<1>1. /\ at = "preview" /\ at' = "write" /\ X!Goes("write") /\ isLlm' = isLlm
      /\ offers' = offers
      /\ found' = X!Fills(inspected, "fileName", {"title", "baseModel"})
      /\ heard' = IF found["preview"] = NoPath THEN heard ELSE Append(heard, "workflow")
    BY DEF X!Guesses, X!Goes
<1>2. /\ found \in [X!Fields -> X!Origins \cup {NoPath}] /\ isLlm \in BOOLEAN
      /\ heard \in Seq(Answering)
    BY DEF ExtractInv, X!TypeOK
<1>3. "workflow" \in Answering /\ {"workflow", "fileName"} \subseteq X!Origins
    BY DEF Answering, X!Sources, X!Origins
<1>4. /\ inspected \in [X!Fields -> X!Origins \cup {NoPath}]
      /\ \A f \in X!Fields :
             inspected[f] = IF found["preview"] # NoPath /\ f \in offers["workflow"]
                                /\ found[f] = NoPath THEN "workflow" ELSE found[f]
    BY <1>2, <1>3, FillsType
<1> HIDE DEF inspected
<1>5. /\ found' \in [X!Fields -> X!Origins \cup {NoPath}]
      /\ \A f \in X!Fields : found'[f] = IF f \in {"title", "baseModel"} /\ inspected[f] = NoPath
                                         THEN "fileName" ELSE inspected[f]
    BY <1>1, <1>3, <1>4, FillsType
<1>6. heard' \in Seq(Answering)
    BY <1>1, <1>2, <1>3
<1>7. ASSUME NEW f \in X!NearestFields
      PROVE  \/ X!Unsaid(f)' /\ found'[f] \in {NoPath, "fileName"}
             \/ X!FromNearest(f)'
    <2>1. f \in X!Fields
        BY SourceTypes
    <2>2. (X!Says("workflow", f) <=> f \in offers["workflow"]) /\ X!Word("workflow") = "workflow"
        BY DEF X!Says, X!Sources, X!Word
    <2>3. found[f] # NoPath => found'[f] = found[f]
        BY <1>4, <1>5, <2>1
    <2>4. CASE found["preview"] = NoPath
        <3>1. inspected[f] = found[f]
            BY <1>4, <2>1, <2>4
        <3>2. \/ X!Unsaid(f)' /\ found[f] = NoPath
              \/ X!FromNearest(f)'
            BY <1>1, <2>3, <2>4, NobodyHeard
        <3> QED
            BY <1>5, <2>1, <3>1, <3>2
    <2>5. CASE found["preview"] # NoPath
        <3>1. inspected[f] = IF f \in offers["workflow"] /\ found[f] = NoPath
                             THEN "workflow" ELSE found[f]
            BY <1>4, <2>1, <2>5
        <3>2. found[f] = NoPath /\ X!Says("workflow", f) => found'[f] = X!Word("workflow")
            BY <1>5, <2>1, <2>2, <3>1, SourceTypes, CmmAssumption, <1>3
        <3>3. \/ X!Unsaid(f)' /\ found[f] = NoPath /\ ~X!Says("workflow", f)
              \/ X!FromNearest(f)'
            BY <1>1, <1>3, <2>3, <2>5, <3>2, NextHeard
        <3> QED
            BY <1>5, <2>1, <2>2, <3>1, <3>3
    <2> QED
        BY <2>4, <2>5
<1>8. X!TypeOK'
    BY <1>1, <1>2, <1>5 DEF X!Goes, ExtractInv, X!TypeOK
<1> QED
    BY <1>1, <1>6, <1>7, <1>8 DEF ExtractInv, NearestSoFar

\* What was heard and found stays when neither it nor what is offered changes.
LEMMA ExtractUnmoved ==
    ASSUME ExtractInv, X!TypeOK', UNCHANGED <<offers, at, found, heard>>
    PROVE  ExtractInv'
<1>1. ASSUME NEW f \in X!NearestFields
      PROVE  NearestSoFar(f)' <=> NearestSoFar(f)
    <2>1. \A s : X!Says(s, f)' <=> X!Says(s, f)
        BY DEF X!Says
    <2>2. X!Unsaid(f)' <=> X!Unsaid(f)
        BY <2>1 DEF X!Unsaid
    <2>3. X!FromNearest(f)' <=> X!FromNearest(f)
        BY <2>1 DEF X!FromNearest
    <2> QED
        BY <2>2, <2>3 DEF NearestSoFar
<1>2. at' # "idle" => \A f \in X!NearestFields : NearestSoFar(f)'
    BY <1>1 DEF ExtractInv
<1>3. heard' \in Seq(Answering)
    BY DEF ExtractInv
<1> QED
    BY <1>2, <1>3 DEF ExtractInv

\* The catalog takes what was found, or RenegadeCMM changes it: what was heard
\* and found stays.
LEMMA ExtractRow ==
    ASSUME ExtractInv, X!CmmTakes \/ \E c \in X!Columns : X!RowChanges(c)
    PROVE  ExtractInv'
<1>1. CASE X!CmmTakes
    <2>1. row' \in [X!Columns -> X!Origins \cup {NoPath}]
        <3>1. X!Columns \subseteq X!Fields
            BY DEF X!Columns, X!Fields
        <3> QED
            BY <1>1, <3>1 DEF X!CmmTakes, ExtractInv, X!TypeOK
    <2> QED
        BY <1>1, <2>1 DEF X!CmmTakes, ExtractInv, X!TypeOK
<1>2. ASSUME NEW c \in X!Columns, X!RowChanges(c)
      PROVE  ExtractInv'
    <2>1. row' \in [X!Columns -> X!Origins \cup {NoPath}]
        BY <1>2 DEF X!RowChanges, ExtractInv, X!TypeOK, X!Origins
    <2>2. extractions' \in 0..MaxExtractions
        BY <1>2, CmmAssumption DEF X!RowChanges, ExtractInv, X!TypeOK
    <2>3. UNCHANGED <<offers, isLlm, at, found, heard>>
        BY <1>2 DEF X!RowChanges
    <2>4. X!TypeOK'
        BY <2>1, <2>2, <2>3 DEF ExtractInv, X!TypeOK
    <2> QED
        BY <2>3, <2>4, ExtractUnmoved
<1> QED
    BY <1>1, <1>2

LEMMA ExtractStep == ASSUME ExtractInv, [X!Next]_X!vars PROVE ExtractInv'
<1>1. CASE UNCHANGED X!vars
    <2>1. UNCHANGED <<offers, isLlm, row, at, found, heard, extractions>>
        BY <1>1 DEF X!vars
    <2>2. X!TypeOK'
        BY <2>1 DEF ExtractInv, X!TypeOK
    <2> QED
        BY <2>1, <2>2, ExtractUnmoved
<1> QED
    BY <1>1, ExtractBegins, ExtractHeader, ExtractCmm, ExtractHash, ExtractCivitai,
       ExtractHuggingFace, ExtractGuesses, ExtractRow DEF X!Next
-----------------------------------------------------------------------------
(***************************************************************************)
(* The form of the packaging page.                                         *)
(***************************************************************************)

\* The texts of a form are of the file that is set, or of none.
Follows(texts) == \A f \in S!Fields : texts[f] \in {modelFilePath, "user", NoPath}

\* What makes the property inductive: nothing is under way on a page that is
\* gone, a locked form has one to be restored, which follows the file as well,
\* and until an import is answered its form is there or the file is not.
FormInv ==
    /\ ~shown => /\ importing = NoPath
                 /\ \A d \in Dialogs : dialogs[d] = "closed"
                 /\ ~isMetadataLocked /\ ~verified.given /\ ~overtaken
    /\ isMetadataLocked => verified.given
    /\ importing # NoPath => ~overtaken /\ (verified.given \/ modelFilePath = NoPath)
    /\ verified.given /\ modelFilePath # NoPath /\ ~overtaken
           => Follows(form) /\ Follows(verified.form)

FormState == S!TypeOK /\ FormInv
-----------------------------------------------------------------------------
LEMMA FormCounts == ASSUME S!TypeOK, steps < MaxSteps, steps' = steps + 1
                    PROVE  steps' \in 0..MaxSteps
BY CmmAssumption DEF S!TypeOK

LEMMA EmptyType == S!Empty \in [S!Fields -> S!Texts] /\ S!NoVerified \in [form : [S!Fields -> S!Texts], given : BOOLEAN]
BY DEF S!Empty, S!NoVerified, S!Texts

LEMMA FormInit == ASSUME S!Init PROVE FormState
<1>1. S!NoJob \in [file : Paths \cup {NoPath}, form : [S!Fields -> S!Texts]]
    BY EmptyType DEF S!NoJob
<1>2. S!TypeOK
    <2>1. dialogs \in [Dialogs -> Paths \cup {"closed", "open"}]
        BY DEF S!Init
    <2>2. steps \in 0..MaxSteps
        BY CmmAssumption DEF S!Init
    <2> QED
        BY <1>1, <2>1, <2>2, EmptyType DEF S!Init, S!TypeOK
<1> QED
    BY <1>2 DEF FormState, S!Init, FormInv, S!NoVerified

\* Mounts and the end of a page.
LEMMA FormPage == ASSUME FormState, S!MountWithImport \/ S!MountAgain \/ S!Unmount
                 PROVE  FormState'
<1> USE DEF FormState
<1>1. CASE S!MountWithImport
    <2> DEFINE next == [f \in S!Fields |-> IF f \in {"title", "ids", "modelType"}
                                         THEN initialModel ELSE NoPath]
    <2>1. initialModel \in Paths
        BY <1>1 DEF S!MountWithImport, S!TypeOK
    <2>2. /\ form' = next /\ verified' = [form |-> [next EXCEPT !["version"] = NoPath],
                                          given |-> TRUE]
          /\ isMetadataLocked' = TRUE /\ shown' = TRUE
          /\ modelFilePath' = initialModel /\ importing' = initialModel
          /\ overtaken' = overtaken
        BY <1>1 DEF S!MountWithImport, S!ApplyAndLock
    <2>3. next \in [S!Fields -> {initialModel, NoPath}]
          /\ [next EXCEPT !["version"] = NoPath] \in [S!Fields -> {initialModel, NoPath}]
        OBVIOUS
    <2>4. steps' \in 0..MaxSteps
        BY <1>1, FormCounts DEF S!MountWithImport
    <2> HIDE DEF next
    <2>5. S!TypeOK'
        <3>1. form' \in [S!Fields -> S!Texts] /\ verified' \in [form : [S!Fields -> S!Texts], given : BOOLEAN]
            BY <2>1, <2>2, <2>3 DEF S!Texts
        <3> QED
            BY <1>1, <2>1, <2>2, <2>4, <3>1 DEF S!MountWithImport, S!TypeOK
    <2>6. ~overtaken
        BY <1>1 DEF FormInv, S!MountWithImport
    <2>7. Follows(form)' /\ Follows(verified.form)'
        BY <2>2, <2>3 DEF Follows
    <2> QED
        BY <2>2, <2>5, <2>6, <2>7 DEF FormInv
<1>2. CASE S!MountAgain
    <2>1. job.form \in [S!Fields -> S!Texts] /\ job.file \in Paths \cup {NoPath}
        BY DEF S!TypeOK
    <2>2. form' \in [S!Fields -> S!Texts]
        BY <1>2, <2>1 DEF S!MountAgain, S!Texts
    <2>3. S!TypeOK'
        BY <1>2, <2>1, <2>2, FormCounts DEF S!MountAgain, S!TypeOK
    <2> QED
        BY <1>2, <2>3 DEF S!MountAgain, FormInv
<1>3. CASE S!Unmount
    <2>1. S!TypeOK'
        BY <1>3, EmptyType, FormCounts DEF S!Unmount, S!Step, S!TypeOK
    <2> QED
        BY <1>3, <2>1 DEF S!Unmount, FormInv, S!NoVerified
<1> QED
    BY <1>1, <1>2, <1>3

LEMMA FormImport == ASSUME FormState, S!ImportAnswers
                   PROVE  FormState'
<1> USE DEF FormState
<1>1. importing \in Paths /\ importing # NoPath /\ shown
    BY DEF S!ImportAnswers, FormInv, S!TypeOK
<1>2. CASE UNCHANGED <<form, verified, isMetadataLocked, overtaken>>
    BY <1>1, <1>2 DEF S!ImportAnswers, S!TypeOK, FormInv, Follows
<1>3. ASSUME NEW told \in SUBSET {"details", "preview"},
             S!ApplyAndLock([f \in S!Fields |->
                             IF f = "version" THEN form[f]
                             ELSE IF f \in {"details", "preview"} \ told THEN NoPath
                             ELSE importing], FALSE),
             overtaken' = (modelFilePath # importing)
      PROVE  FormState'
    <2> DEFINE next == [f \in S!Fields |-> IF f = "version" THEN form[f]
                                         ELSE IF f \in {"details", "preview"} \ told THEN NoPath
                                         ELSE importing]
    <2>1. /\ form' = next /\ verified' = [form |-> [next EXCEPT !["version"] = NoPath], given |-> TRUE]
          /\ isMetadataLocked' = TRUE
        BY <1>3 DEF S!ApplyAndLock
    <2>2. \A f \in S!Fields : next[f] \in {importing, NoPath} \/ next[f] = form[f]
        OBVIOUS
    <2>3. next \in [S!Fields -> S!Texts]
          /\ [next EXCEPT !["version"] = NoPath] \in [S!Fields -> S!Texts]
        BY <1>1 DEF S!TypeOK, S!Texts
    <2>4. \A f \in S!Fields : [next EXCEPT !["version"] = NoPath][f] \in {next[f], NoPath}
        OBVIOUS
    <2> HIDE DEF next
    <2>5. S!TypeOK'
        BY <1>3, <2>1, <2>3 DEF S!ImportAnswers, S!TypeOK
    <2>6. ASSUME modelFilePath = importing
          PROVE  Follows(form)' /\ Follows(verified.form)'
        <3>1. Follows(form)
            BY <1>1, <2>6 DEF FormInv
        <3> QED
            BY <2>1, <2>2, <2>4, <2>6, <3>1 DEF Follows, S!ImportAnswers
    <2> QED
        BY <1>1, <1>3, <2>1, <2>5, <2>6 DEF FormInv, S!ImportAnswers
<1> QED
    BY <1>2, <1>3 DEF S!ImportAnswers

LEMMA FormDialog == ASSUME FormState, NEW d \in Dialogs,
                          S!Browse(d) \/ (\E m \in Paths : S!Picks(d, m)) \/ S!BrowseFails(d)
                   PROVE  FormState'
<1> USE DEF FormState
<1>1. shown
    BY DEF S!Browse, S!Step, S!Picks, S!BrowseFails, FormInv
<1>2. S!TypeOK'
    <2>1. dialogs' \in [Dialogs -> Paths \cup {"closed", "open"}]
        BY DEF S!Browse, S!Picks, S!BrowseFails, S!TypeOK
    <2>2. steps' \in 0..MaxSteps
        BY FormCounts DEF S!Browse, S!Step, S!Picks, S!BrowseFails, S!TypeOK
    <2>3. isExtracting' \in BOOLEAN
        BY DEF S!Browse, S!Picks, S!BrowseFails, S!TypeOK
    <2> QED
        BY <2>1, <2>2, <2>3 DEF S!Browse, S!Picks, S!BrowseFails, S!TypeOK
<1> QED
    <2>1. UNCHANGED <<shown, modelFilePath, form, verified, isMetadataLocked, importing,
                      overtaken>>
        BY DEF S!Browse, S!Picks, S!BrowseFails
    <2> QED
        BY <1>1, <1>2, <2>1 DEF FormInv, Follows

LEMMA FormBrowse == ASSUME FormState, NEW d \in Dialogs, S!BrowseAnswers(d)
                   PROVE  FormState'
<1> USE DEF FormState
<1>1. PICK told \in SUBSET (S!Fields \ S!Certain) :
          /\ S!ApplyAndLock(S!AppliedOf(dialogs[d], told), TRUE)
          /\ modelFilePath' = dialogs[d]
          /\ overtaken' = FALSE
    BY DEF S!BrowseAnswers
<1>2. S!AppliedOf(dialogs[d], told) \in [S!Fields -> {dialogs[d], NoPath}]
    BY DEF S!AppliedOf
<1>3. /\ form' = S!AppliedOf(dialogs[d], told)
      /\ verified' = [form |-> S!AppliedOf(dialogs[d], told), given |-> TRUE]
      /\ isMetadataLocked' = TRUE
    BY <1>1 DEF S!ApplyAndLock
<1>4. dialogs[d] \in Paths /\ shown
    BY CmmAssumption DEF S!BrowseAnswers, FormInv
<1>5. S!TypeOK'
    <2>1. form' \in [S!Fields -> S!Texts] /\ verified' \in [form : [S!Fields -> S!Texts], given : BOOLEAN]
        BY <1>2, <1>3, <1>4 DEF S!Texts
    <2>2. dialogs' \in [Dialogs -> Paths \cup {"closed", "open"}]
        BY DEF S!BrowseAnswers, S!TypeOK
    <2> QED
        BY <1>1, <1>3, <1>4, <2>1, <2>2 DEF S!BrowseAnswers, S!TypeOK
<1>6. Follows(form)' /\ Follows(verified.form)'
    BY <1>1, <1>2, <1>3 DEF Follows
<1> QED
    BY <1>1, <1>3, <1>4, <1>5, <1>6 DEF S!BrowseAnswers, FormInv

\* What the user does to the form.
LEMMA FormUser == ASSUME FormState,
                        \/ S!Unlock \/ S!RestoreVerified \/ S!BrowsePreview \/ S!Submit \/ S!PackageAnother
                        \/ \E f \in S!Fields : S!Edit(f)
                        \/ \E m \in Paths : S!Import(m)
                 PROVE  FormState'
<1> USE DEF FormState
<1>1. CASE S!Unlock
    <2>1. S!TypeOK'
        BY <1>1, FormCounts DEF S!Unlock, S!Step, S!TypeOK
    <2> QED
        BY <1>1, <2>1 DEF S!Unlock, S!Step, FormInv, Follows
<1>2. CASE S!RestoreVerified
    <2>1. S!TypeOK'
        BY <1>2, FormCounts DEF S!RestoreVerified, S!Step, S!TypeOK
    <2> QED
        BY <1>2, <2>1 DEF S!RestoreVerified, S!Step, FormInv, Follows
<1>3. CASE S!BrowsePreview
    <2>1. /\ form' \in [S!Fields -> S!Texts]
          /\ \A f \in S!Fields : form'[f] \in {form[f], "user"}
        <3>1. form' = [form EXCEPT !["preview"] = "user"]
              \/ form' = [form EXCEPT !["preview"] = "user", !["details"] = "user"]
            BY <1>3 DEF S!BrowsePreview
        <3> QED
            BY <3>1 DEF S!TypeOK, S!Texts
    <2>2. S!TypeOK'
        BY <1>3, <2>1, FormCounts DEF S!BrowsePreview, S!Step, S!TypeOK
    <2> QED
        BY <1>3, <2>1, <2>2 DEF S!BrowsePreview, S!Step, FormInv, Follows
<1>4. CASE S!Submit
    <2>1. S!TypeOK'
        BY <1>4, FormCounts DEF S!Submit, S!Step, S!TypeOK, S!pageVars
    <2> QED
        BY <1>4, <2>1 DEF S!Submit, S!Step, FormInv, Follows, S!pageVars
<1>5. CASE S!PackageAnother
    <2>1. form' \in [S!Fields -> S!Texts]
        BY <1>5 DEF S!PackageAnother, S!TypeOK, S!Texts
    <2>2. job' \in [file : Paths \cup {NoPath}, form : [S!Fields -> S!Texts]]
        BY <1>5, EmptyType DEF S!PackageAnother, S!NoJob
    <2>3. S!TypeOK'
        BY <1>5, <2>1, <2>2, EmptyType, FormCounts DEF S!PackageAnother, S!Step, S!TypeOK
    <2> QED
        BY <1>5, <2>3 DEF S!PackageAnother, S!Step, FormInv, S!NoVerified
<1>6. ASSUME NEW f \in S!Fields, S!Edit(f)
      PROVE  FormState'
    <2>1. /\ form' \in [S!Fields -> S!Texts]
          /\ \A g \in S!Fields : form'[g] \in {form[g], "user"}
        BY <1>6 DEF S!Edit, S!TypeOK, S!Texts
    <2>2. S!TypeOK'
        BY <1>6, <2>1, FormCounts DEF S!Edit, S!Step, S!TypeOK
    <2> QED
        BY <1>6, <2>1, <2>2 DEF S!Edit, S!Step, FormInv, Follows
<1>7. ASSUME NEW m \in Paths, S!Import(m)
      PROVE  FormState'
    <2>1. S!TypeOK'
        BY <1>7, FormCounts DEF S!Import, S!TypeOK, S!pageVars
    <2> QED
        BY <1>7, <2>1 DEF S!Import, FormInv, Follows, S!pageVars
<1> QED
    BY <1>1, <1>2, <1>3, <1>4, <1>5, <1>6, <1>7

LEMMA FormStep == ASSUME FormState, [S!Next]_S!vars PROVE FormState'
<1>1. CASE UNCHANGED S!vars
    BY <1>1 DEF S!vars, FormState, S!TypeOK, FormInv, Follows
<1>2. CASE S!Next
    <2>1. CASE S!MountWithImport \/ S!MountAgain \/ S!Unmount
        BY <2>1, FormPage
    <2>2. CASE S!ImportAnswers
        BY <2>2, FormImport
    <2>3. CASE \E d \in Dialogs : S!Browse(d) \/ S!BrowseFails(d) \/ \E m \in Paths : S!Picks(d, m)
        BY <2>3, FormDialog
    <2>4. CASE \E d \in Dialogs : S!BrowseAnswers(d)
        BY <2>4, FormBrowse
    <2>5. CASE \/ S!Unlock \/ S!RestoreVerified \/ S!BrowsePreview \/ S!Submit \/ S!PackageAnother
               \/ \E f \in S!Fields : S!Edit(f)
               \/ \E m \in Paths : S!Import(m)
        BY <2>5, FormUser
    <2> QED
        BY <1>2, <2>1, <2>2, <2>3, <2>4, <2>5 DEF S!Next
<1> QED
    BY <1>1, <1>2
-----------------------------------------------------------------------------
(***************************************************************************)
(* The parts together.                                                     *)
(***************************************************************************)

LEMMA CmmStart == CmmInit => Init /\ F!Init /\ L!Init /\ X!Init /\ S!Init
BY DEF CmmInit

LEMMA CmmStep ==
    [CmmNext]_<<part, vars, folderVars, linkVars, extractorVars, formVars>>
        => /\ [Next]_vars /\ [F!Next]_F!vars /\ [L!Next]_L!vars
           /\ [X!Next]_X!vars /\ [S!Next]_S!vars
<1> SUFFICES ASSUME [CmmNext]_<<part, vars, folderVars, linkVars, extractorVars, formVars>>
             PROVE  /\ [Next]_vars /\ [F!Next]_F!vars /\ [L!Next]_L!vars
                    /\ [X!Next]_X!vars /\ [S!Next]_S!vars
    OBVIOUS
<1>1. /\ F!vars = folderVars /\ F!vars' = folderVars'
      /\ L!vars = linkVars /\ L!vars' = linkVars'
      /\ X!vars = extractorVars /\ X!vars' = extractorVars'
      /\ S!vars = formVars /\ S!vars' = formVars'
    BY DEF F!vars, folderVars, L!vars, linkVars, X!vars, extractorVars, S!vars, formVars
<1>2. \/ Next /\ UNCHANGED <<folderVars, linkVars, extractorVars, formVars>>
      \/ F!Next /\ UNCHANGED <<vars, linkVars, extractorVars, formVars>>
      \/ L!Next /\ UNCHANGED <<vars, folderVars, extractorVars, formVars>>
      \/ X!Next /\ UNCHANGED <<vars, folderVars, linkVars, formVars>>
      \/ S!Next /\ UNCHANGED <<vars, folderVars, linkVars, extractorVars>>
      \/ UNCHANGED <<part, vars, folderVars, linkVars, extractorVars, formVars>>
    BY DEF CmmNext
<1> QED
    BY <1>1, <1>2

\* Each part on its own does what its specification says, its fairness included:
\* the composition only puts them side by side.
THEOREM CmmPartsAlone == CmmSpec => Spec /\ F!Spec /\ L!Spec /\ X!Spec /\ S!Spec
BY CmmStart, CmmStep, PTL DEF CmmSpec, Spec, F!Spec, L!Spec, X!Spec, S!Spec

\* The types of the bridge, the folders, the page's calls, the extraction and the
\* form, and the bounds of what they queue and count.
THEOREM CmmTypeCorrect == CmmSpec => []CmmTypeOK
<1>1. CmmSpec => []TypeOK
    BY CmmPartsAlone, TypeCorrect, PTL
<1>2. CmmSpec => []F!TypeOK
    <2>1. FolderInv => F!TypeOK
        BY DEF FolderInv
    <2> QED
        BY <2>1, CmmPartsAlone, FolderInit, FolderStep, PTL DEF F!Spec
<1>3. CmmSpec => []L!TypeOK
    BY CmmPartsAlone, LinkInit, LinkStep, PTL DEF L!Spec
<1>4. CmmSpec => []X!TypeOK
    <2>1. ExtractInv => X!TypeOK
        BY DEF ExtractInv
    <2> QED
        BY <2>1, CmmPartsAlone, ExtractInit, ExtractStep, PTL DEF X!Spec
<1>5. CmmSpec => []S!TypeOK
    <2>1. FormState => S!TypeOK
        BY DEF FormState
    <2> QED
        BY <2>1, CmmPartsAlone, FormInit, FormStep, PTL DEF S!Spec
<1>6. TypeOK /\ F!TypeOK /\ L!TypeOK /\ X!TypeOK /\ S!TypeOK => CmmTypeOK
    BY DEF CmmTypeOK
<1> QED
    BY <1>1, <1>2, <1>3, <1>4, <1>5, <1>6, PTL

\* The flag of the bridge is as honest among the other parts.
THEOREM CmmFlagHonest == CmmSpec => []FlagMeansAttached
BY CmmPartsAlone, FlagHonest, PTL

\* Of a creator, a base model, a description, tags and a preview the nearest
\* source's word is what the extraction ends with, whatever the sources offer and
\* whichever of them answer; and nothing that was said is lost (extractMetadata).
THEOREM NearestKept == CmmSpec => []NearestWins
<1>1. ExtractInv => NearestWins
    BY DEF ExtractInv, NearestSoFar, NearestWins, X!NearestWins
<1> QED
    BY <1>1, CmmPartsAlone, ExtractInit, ExtractStep, PTL DEF X!Spec

\* What is locked as verified is of the file to be packaged, however many dialogs
\* and imports overlap, unless an import was answered after a dialog
\* (handleBrowseModelFile and the effect of initialModel).
THEOREM VerifiedIsOfFile == CmmSpec => []FormFollowsFile
<1>1. FormState => FormFollowsFile
    BY DEF FormState, FormInv, FormFollowsFile, S!FormFollowsFile, Follows
<1> QED
    BY <1>1, CmmPartsAlone, FormInit, FormStep, PTL DEF S!Spec
=============================================================================
