------------------------------- MODULE MCCmm -------------------------------
(***************************************************************************)
(* The link to RenegadeCMM for TLC: its database, its folders, the page    *)
(* that looks for it, and the metadata of a model, which come from its     *)
(* catalog and go into the form of the packaging page.  What one of them   *)
(* needs of another is an input: whether CMM is there, the rows of the     *)
(* catalog, what an extraction finds.  So they share no state, and each    *)
(* behaviour moves one of them, its part.                                  *)
(***************************************************************************)
EXTENDS CmmBridge

VARIABLES part,
          rootPath, defaultDownloadFolder, cmmFolders, customFolders,
          sessionDialogPaths, db, writes, loads, folderStatus, folderOps,
          server, mounted, reachable, poke, pageCalls, cmmConnected,
          cmmProbeBudgetRef, events,
          offers, isLlm, row, at, found, heard, extractions,
          initialModel, shown, modelFilePath, form, verified, isMetadataLocked,
          isExtracting, importing, dialogs, job, overtaken, steps

\* CMM's folders, the page's calls, the extractions, and the form.
CONSTANTS Folders, NoFolder, Above, System, Reports, Loads, MaxFolderOps,
          Slots, Budget, MaxEvents,
          Offerings, MaxExtractions,
          Dialogs, MaxSteps

F == INSTANCE CmmFolders WITH
        None <- NoFolder,
        connected <- folderStatus,
        ops <- folderOps

L == INSTANCE SisterLink WITH calls <- pageCalls

X == INSTANCE MetadataExtractor WITH
        None <- NoPath,
        catalog <- row,
        count <- extractions

S == INSTANCE SeederForm WITH
        Models <- Paths,
        None <- NoPath,
        mounted <- shown

\* What CMM reports is of its folders; a place or a source is no file, and none.
ASSUME CmmAssumption ==
    /\ Reports \subseteq [connected : BOOLEAN, root : Folders \cup {NoFolder},
                          folders : SUBSET Folders]
    /\ Offerings \subseteq [X!Sources -> SUBSET X!Fields]
    /\ NoPath \notin X!Origins
    /\ "closed" \notin Paths
    /\ {MaxFolderOps, Budget, MaxEvents, MaxExtractions, MaxSteps} \subseteq Nat

\* Folder b is in a; s is the operating system's.
TreeAbove == [f \in Folders |-> IF f = "b" THEN {"a", "b"} ELSE {f}]

\* CMM reports a root, or it is away and reports none.
SomeReports == {[connected |-> TRUE, root |-> "a", folders |-> {"a"}],
                [connected |-> FALSE, root |-> NoFolder, folders |-> {}]}

\* A source offers all it can or nothing, and the files beside the model also a
\* part.
Full == [path |-> {"modelType"},
         companion |-> {"title", "baseModel", "tags", "hfRepoId", "sha256"},
         header |-> {"title", "creator", "baseModel", "description", "tags", "modelType"},
         civitai |-> {"title", "creator", "baseModel", "description", "tags", "preview",
                      "modelType", "civitaiModelId"},
         huggingface |-> {"title", "creator", "baseModel", "description", "tags",
                          "modelType", "hfRepoId"},
         workflow |-> {"description", "tags"}]

SomeOfferings == {[Full EXCEPT !["path"] = p, !["companion"] = c, !["header"] = h,
                               !["civitai"] = v, !["workflow"] = w] :
                     p \in {{}, Full.path}, h \in {{}, Full.header},
                     c \in {{}, {"creator", "preview"}, Full.companion},
                     v \in {{}, Full.civitai}, w \in {{}, Full.workflow}}

extractorVars == <<offers, isLlm, row, at, found, heard, extractions>>

formVars == <<initialModel, shown, modelFilePath, form, verified, isMetadataLocked,
              isExtracting, importing, dialogs, job, overtaken, steps>>

folderVars == <<rootPath, defaultDownloadFolder, cmmFolders, customFolders,
                sessionDialogPaths, db, writes, loads, folderStatus, folderOps>>

linkVars == <<server, mounted, reachable, poke, pageCalls, cmmConnected,
              cmmProbeBudgetRef, events>>

\* One initial state of the other parts is enough, in which nothing is due.
CmmInit ==
    /\ part \in {"bridge", "folders", "page", "extractor", "form"}
    /\ Init /\ F!Init /\ L!Init /\ X!Init /\ S!Init
    /\ part # "bridge" => exists = {}
    /\ part # "folders" => db = F!NoSettings
    /\ part # "page" => ~reachable
    /\ part # "extractor" => offers = Full

CmmNext ==
    /\ UNCHANGED part
    /\ \/ part = "bridge" /\ Next /\ UNCHANGED <<folderVars, linkVars, extractorVars, formVars>>
       \/ part = "folders" /\ F!Next /\ UNCHANGED <<vars, linkVars, extractorVars, formVars>>
       \/ part = "page" /\ L!Next /\ UNCHANGED <<vars, folderVars, extractorVars, formVars>>
       \/ part = "extractor" /\ X!Next /\ UNCHANGED <<vars, folderVars, linkVars, formVars>>
       \/ part = "form" /\ S!Next /\ UNCHANGED <<vars, folderVars, linkVars, extractorVars>>

\* Only the part that moves has steps to be fair to.
CmmSpec ==
    /\ CmmInit
    /\ [][CmmNext]_<<part, vars, folderVars, linkVars, extractorVars, formVars>>
    /\ Fairness
    /\ F!Fairness
    /\ L!Fairness
-----------------------------------------------------------------------------
CmmTypeOK == TypeOK /\ F!TypeOK /\ L!TypeOK /\ X!TypeOK /\ S!TypeOK

\* The settings that are saved are those in use (cmmFolderRouter.ts).
FoldersConverge == F!FoldersConverge

\* A CMM that stays is found, one that goes is noticed (App.tsx).
PageFollowsCmm == L!PageFollowsCmm

\* The nearest source's word counts (modelMetadataExtractor.ts).
NearestWins == X!NearestWins

\* What is locked as verified is of the file (SeederView.tsx).
FormFollowsFile == S!FormFollowsFile
=============================================================================
