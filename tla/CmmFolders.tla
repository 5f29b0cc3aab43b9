---------------------------- MODULE CmmFolders ----------------------------
(***************************************************************************)
(* The model folders: those CMM reports and those the user adds, the       *)
(* default for downloads, which paths may be used at all                   *)
(* (src/main/cmm/cmmFolderRouter.ts), and how the handlers keep them in    *)
(* the settings (src/main/ipcHandlers.ts, src/main/cmm/cmmDbBridge.ts).    *)
(*                                                                         *)
(* Every status check ends by loading the settings, behind two awaits,     *)
(* while the user's changes save them.  Lists are sets here, so that the   *)
(* first of a list is any of it.  The folders for kinds of models, names   *)
(* of files and devices are left out.                                      *)
(***************************************************************************)
EXTENDS Integers, Sequences

CONSTANTS Folders, None,
          Above,      \* folder -> the folders it is in, itself included
          System,     \* folders of the operating system
          Reports,    \* what a status check may answer
          Loads,      \* status checks that may overlap
          MaxFolderOps

VARIABLES rootPath, defaultDownloadFolder, cmmFolders, customFolders,
          sessionDialogPaths,
          db,         \* app_settings
          writes,     \* statements queued for it
          loads,      \* status checks under way
          connected,  \* what the last check answered
          ops

vars == <<rootPath, defaultDownloadFolder, cmmFolders, customFolders,
          sessionDialogPaths, db, writes, loads, connected, ops>>

router == <<rootPath, defaultDownloadFolder, cmmFolders, customFolders>>

Listed == cmmFolders \cup customFolders

Settings == [customFolders : SUBSET Folders, defaultFolder : Folders \cup {None}]

NoSettings == [customFolders |-> {}, defaultFolder |-> None]

NoLoad == [at |-> "idle", persisted |-> NoSettings]

\* computeDestination without a target: what a download goes to.
EffectiveRoots == IF defaultDownloadFolder # None THEN {defaultDownloadFolder}
                  ELSE IF rootPath # None THEN {rootPath}
                  ELSE IF cmmFolders # {} THEN cmmFolders
                  ELSE IF customFolders # {} THEN customFolders ELSE {None}

isPathAllowed(f) ==
    /\ f \notin System
    /\ Above[f] \cap (sessionDialogPaths \cup {rootPath, defaultDownloadFolder} \cup Listed) # {}

\* The default is kept, or is any of Choices where there was none.
DefaultOr(Choices) ==
    \/ defaultDownloadFolder # None /\ UNCHANGED defaultDownloadFolder
    \/ defaultDownloadFolder = None /\ Choices = {} /\ UNCHANGED defaultDownloadFolder
    \/ defaultDownloadFolder = None /\ defaultDownloadFolder' \in Choices

\* With a root the root is the first of the list.
syncCmmFolders(report) ==
    LET root == {report.root} \ {None}
    IN /\ rootPath' = IF root = {} THEN rootPath ELSE report.root
       /\ cmmFolders' = root \cup report.folders
       /\ DefaultOr(IF root = {} THEN report.folders ELSE root)
       /\ UNCHANGED customFolders

\* savePersistedAppSettings: one statement per setting.
Saves(settings) == writes' = writes \o settings

Custom(folders) == [key |-> "customFolders", value |-> folders]

Default(f) == [key |-> "defaultFolder", value |-> f]
-----------------------------------------------------------------------------
FolderOp == ops < MaxFolderOps /\ ops' = ops + 1

\* dialog:openDirectory and the other dialogs.
recordSessionDialogPath(f) ==
    /\ FolderOp
    /\ f \notin sessionDialogPaths
    /\ sessionDialogPaths' = sessionDialogPaths \cup {f}
    /\ UNCHANGED <<router, db, writes, loads, connected>>

addModelFolder(f) ==
    /\ FolderOp
    /\ isPathAllowed(f) /\ f \notin Listed
    /\ customFolders' = customFolders \cup {f}
    /\ DefaultOr({f})
    /\ Saves(<<Custom(customFolders'), Default(defaultDownloadFolder')>>)
    /\ UNCHANGED <<rootPath, cmmFolders, sessionDialogPaths, db, loads, connected>>

\* A folder that is the default is replaced by the first that is left.
removeModelFolder(f) ==
    /\ FolderOp
    /\ customFolders' = customFolders \ {f}
    /\ cmmFolders' = cmmFolders \ {f}
    /\ IF defaultDownloadFolder # f THEN UNCHANGED defaultDownloadFolder
       ELSE defaultDownloadFolder' \in
                IF cmmFolders' # {} THEN cmmFolders'
                ELSE IF customFolders' # {} THEN customFolders' ELSE {None}
    /\ Saves(<<Custom(customFolders'), Default(defaultDownloadFolder')>>)
    /\ UNCHANGED <<rootPath, sessionDialogPaths, db, loads, connected>>

setDefaultDownloadFolder(f) ==
    /\ FolderOp
    /\ isPathAllowed(f)
    /\ defaultDownloadFolder' = f
    /\ rootPath' = f
    /\ Saves(<<Default(f)>>)
    /\ UNCHANGED <<cmmFolders, customFolders, sessionDialogPaths, db, loads, connected>>

\* cmm:configureSync with a root, which counts as chosen in a dialog even where
\* it is then refused; up to its status check, which loads nothing.
configureSync(root, l) ==
    /\ FolderOp
    /\ loads[l].at = "idle"
    /\ sessionDialogPaths' = sessionDialogPaths \cup {root}
    /\ IF root \in System THEN UNCHANGED <<router, loads>>
       ELSE /\ rootPath' = root
            /\ DefaultOr({root})
            /\ loads' = [loads EXCEPT ![l].at = "configure"]
            /\ UNCHANGED <<cmmFolders, customFolders>>
    /\ UNCHANGED <<db, writes, connected>>

autoDetect(l) ==
    /\ FolderOp
    /\ loads[l].at = "idle"
    /\ loads' = [loads EXCEPT ![l].at = "detect"]
    /\ UNCHANGED <<router, sessionDialogPaths, db, writes, connected>>

getStatus(l) ==
    /\ loads[l].at = "idle"
    /\ loads' = [loads EXCEPT ![l].at = "status"]
    /\ UNCHANGED <<router, sessionDialogPaths, db, writes, connected, ops>>
-----------------------------------------------------------------------------
\* checkCmmStatus answers, to any of the three.
StatusArrives(l) ==
    /\ loads[l].at \in {"configure", "detect", "status"}
    /\ \E report \in Reports :
           /\ connected' = report.connected
           /\ IF report.connected \/ loads[l].at = "detect"
              THEN syncCmmFolders(report)
              ELSE UNCHANGED router
           /\ sessionDialogPaths' = IF loads[l].at = "detect"
                                    THEN sessionDialogPaths \cup ({report.root} \ {None})
                                    ELSE sessionDialogPaths
    /\ loads' = [loads EXCEPT ![l].at = IF @ = "status" THEN "read" ELSE "idle"]
    /\ UNCHANGED <<db, writes, ops>>

getPersistedAppSettings(l) ==
    /\ loads[l].at = "read"
    /\ loads' = [loads EXCEPT ![l] = [at |-> "apply", persisted |-> db]]
    /\ UNCHANGED <<router, sessionDialogPaths, db, writes, connected, ops>>

\* Mutant of LoadedDefault: only where there is none yet.
LoadedDefaultOnce(f) == IF defaultDownloadFolder = None THEN f ELSE defaultDownloadFolder

LoadedDefault(f) == f

\* cmm:getStatus after its second await.  addCustomFolder refuses what is
\* listed, also by CMM alone.
Applies(l) ==
    /\ loads[l].at = "apply"
    /\ LET loaded == loads[l].persisted
           added == loaded.customFolders \ Listed
       IN /\ customFolders' = customFolders \cup added
          /\ IF loaded.defaultFolder = None
             THEN DefaultOr(added) /\ UNCHANGED rootPath
             ELSE /\ defaultDownloadFolder' = LoadedDefault(loaded.defaultFolder)
                  /\ rootPath' = defaultDownloadFolder'
    /\ loads' = [loads EXCEPT ![l] = NoLoad]
    /\ UNCHANGED <<cmmFolders, sessionDialogPaths, db, writes, connected, ops>>

DiskWrites ==
    /\ writes # <<>>
    /\ db' = [db EXCEPT ![Head(writes).key] = Head(writes).value]
    /\ writes' = Tail(writes)
    /\ UNCHANGED <<router, sessionDialogPaths, loads, connected, ops>>

\* Between any two statements; the next start knows no folder and no dialog.
Restart ==
    /\ FolderOp
    /\ rootPath' = None /\ defaultDownloadFolder' = None
    /\ cmmFolders' = {} /\ customFolders' = {} /\ sessionDialogPaths' = {}
    /\ writes' = <<>> /\ connected' = FALSE
    /\ loads' = [l \in Loads |-> NoLoad]
    /\ UNCHANGED db
-----------------------------------------------------------------------------
Init == /\ rootPath = None /\ defaultDownloadFolder = None
        /\ cmmFolders = {} /\ customFolders = {} /\ sessionDialogPaths = {}
        /\ \E f \in Folders \ System :
               db \in {NoSettings, [customFolders |-> {f}, defaultFolder |-> f]}
        /\ writes = <<>> /\ connected = FALSE
        /\ loads = [l \in Loads |-> NoLoad]
        /\ ops = 0

Steps(l) == StatusArrives(l) \/ getPersistedAppSettings(l) \/ Applies(l)

Next == \/ \E f \in Folders : \/ recordSessionDialogPath(f)
                              \/ addModelFolder(f)
                              \/ removeModelFolder(f)
                              \/ setDefaultDownloadFolder(f)
        \/ \E l \in Loads : \/ \E f \in Folders : configureSync(f, l)
                            \/ autoDetect(l)
                            \/ getStatus(l)
                            \/ Steps(l)
        \/ DiskWrites
        \/ Restart

\* The page's checks recur while the last one answered "connected".
PageLoads(l) == connected /\ getStatus(l)

Fairness == /\ WF_vars(DiskWrites)
            /\ \A l \in Loads : WF_vars(PageLoads(l)) /\ WF_vars(Steps(l))

Spec == Init /\ [][Next]_vars /\ Fairness
-----------------------------------------------------------------------------
TypeOK == /\ rootPath \in Folders \cup {None}
          /\ defaultDownloadFolder \in Folders \cup {None}
          /\ cmmFolders \subseteq Folders /\ customFolders \subseteq Folders
          /\ sessionDialogPaths \subseteq Folders
          /\ db \in Settings
          /\ Len(writes) <= 2 * MaxFolderOps
          /\ loads \in [Loads -> [at : {"idle", "configure", "detect", "status", "read",
                                        "apply"}, persisted : Settings]]
          /\ connected \in BOOLEAN
          /\ ops \in 0..MaxFolderOps

\* However adding, removing and choosing a default fall between the reading and
\* the applying of the settings, and whichever of two saves came last before a
\* restart: while CMM is connected, what is saved is listed and the default in
\* use is the saved one, again and again (cmm:getStatus).
FoldersConverge ==
    []<>(connected /\ writes = <<>>
         => /\ db.customFolders \subseteq Listed
            /\ db.defaultFolder # None => {db.defaultFolder} = EffectiveRoots)
=============================================================================
