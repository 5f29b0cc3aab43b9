----------------------------- MODULE SeederForm -----------------------------
(***************************************************************************)
(* The form of the packaging page (src/renderer/components/SeederView.tsx) *)
(* that is filled in from what is extracted of a model file.  An import    *)
(* from the CMM view, any number of file dialogs and the user write to it; *)
(* the dialogs are not modal, and an extraction may take long or, when the *)
(* body of a preview image never ends, for ever.  The page lives as long   *)
(* as its tab is shown; the last request to package outlives it.           *)
(*                                                                         *)
(* Fields written alike are one field here, known by the file their text   *)
(* was extracted from, None for an empty or default one, or "user".  What  *)
(* an extraction comes to is modelled in MetadataExtractor, and a job in   *)
(* PackagePage.                                                            *)
(***************************************************************************)
EXTENDS Integers

CONSTANTS Models,       \* model files
          None,
          Dialogs,      \* dialogs and their extractions that may overlap
          MaxSteps      \* bound: what the user does

\* ids are the numbers at CivitAI and Hugging Face; details the creator, the
\* description and the tags.
Fields == {"title", "ids", "modelType", "details", "baseModel", "version", "preview"}

Texts == Models \cup {None, "user"}

VARIABLES
    initialModel,   \* the import, kept by App: every mount begins with it
    mounted,
    modelFilePath, form,
    verified,       \* verifiedDataRef: a form, or none
    isMetadataLocked, isExtracting,
    importing,      \* the import whose extraction is under way
    dialogs,        \* dialog -> "closed", "open", or the file in extraction
    job,            \* the request last packaged, as the main process keeps it
    overtaken,      \* an import was answered after a dialog, for the property
    steps

vars == <<initialModel, mounted, modelFilePath, form, verified, isMetadataLocked,
          isExtracting, importing, dialogs, job, overtaken, steps>>

pageVars == <<modelFilePath, form, verified, isMetadataLocked, isExtracting,
              importing, dialogs, overtaken>>

Empty == [f \in Fields |-> None]

NoVerified == [form |-> Empty, given |-> FALSE]

NoJob == [file |-> None, form |-> Empty]

Step == mounted /\ steps < MaxSteps /\ steps' = steps + 1

\* What is extracted of a model always has these; the others may be empty.
Certain == {"title", "modelType", "baseModel", "version"}

\* applyAndLockVerifiedMetadata sets the fields it is given; what is restored
\* later has the default version where none was given.
ApplyAndLock(next, givenVersion) ==
    /\ form' = next
    /\ verified' = [form |-> IF givenVersion THEN next ELSE [next EXCEPT !["version"] = None],
                    given |-> TRUE]
    /\ isMetadataLocked' = TRUE
-----------------------------------------------------------------------------
\* The tab is shown: the import is applied, its title, numbers and type, and
\* its extraction begins.
MountWithImport ==
    /\ steps < MaxSteps /\ steps' = steps + 1
    /\ ~mounted /\ mounted' = TRUE
    /\ initialModel # None
    /\ modelFilePath' = initialModel
    /\ ApplyAndLock([f \in Fields |-> IF f \in {"title", "ids", "modelType"} THEN initialModel
                                      ELSE None], FALSE)
    /\ isExtracting' = TRUE
    /\ importing' = initialModel
    /\ UNCHANGED <<initialModel, dialogs, job, overtaken>>

\* Without an import the form is restored from the last job, where it is empty:
\* the type, the base model and the version never are.
MountAgain ==
    /\ steps < MaxSteps /\ steps' = steps + 1
    /\ ~mounted /\ mounted' = TRUE
    /\ initialModel = None
    /\ modelFilePath' = job.file
    /\ form' = [job.form EXCEPT !["modelType"] = None, !["baseModel"] = None, !["version"] = None]
    /\ UNCHANGED <<initialModel, verified, isMetadataLocked, isExtracting, importing,
                   dialogs, job, overtaken>>

\* Another tab is shown: the state of the page is gone, and the answers to its
\* requests with it.
Unmount ==
    /\ Step
    /\ mounted' = FALSE
    /\ modelFilePath' = None /\ form' = Empty /\ verified' = NoVerified
    /\ isMetadataLocked' = FALSE /\ isExtracting' = FALSE
    /\ importing' = None /\ dialogs' = [d \in Dialogs |-> "closed"]
    /\ overtaken' = FALSE
    /\ UNCHANGED <<initialModel, job>>

\* The CMM view hands a model over, and shows the page.
Import(m) ==
    /\ ~mounted /\ steps < MaxSteps /\ steps' = steps + 1
    /\ initialModel' = m
    /\ UNCHANGED <<mounted, pageVars, job>>

\* The import's file is not set again: a dialog may have set another.
ImportAnswers ==
    /\ importing # None
    /\ \/ \E found \in SUBSET {"details", "preview"} :
              /\ ApplyAndLock([f \in Fields |->
                                  IF f = "version" THEN form[f]
                                  ELSE IF f \in {"details", "preview"} \ found THEN None
                                  ELSE importing], FALSE)
              /\ overtaken' = (modelFilePath # importing)
       \/ UNCHANGED <<form, verified, isMetadataLocked, overtaken>>
    /\ importing' = None
    /\ isExtracting' = FALSE
    /\ UNCHANGED <<initialModel, mounted, modelFilePath, dialogs, job, steps>>

\* handleBrowseModelFile: the button is not disabled meanwhile.
Browse(d) ==
    /\ Step
    /\ dialogs[d] = "closed"
    /\ dialogs' = [dialogs EXCEPT ![d] = "open"]
    /\ isExtracting' = TRUE
    /\ UNCHANGED <<initialModel, mounted, modelFilePath, form, verified, isMetadataLocked,
                   importing, job, overtaken>>

Picks(d, m) ==
    /\ dialogs[d] = "open"
    /\ dialogs' = [dialogs EXCEPT ![d] = m]
    /\ UNCHANGED <<initialModel, mounted, modelFilePath, form, verified, isMetadataLocked,
                   isExtracting, importing, job, overtaken, steps>>

\* Mutant of AppliedOf: what was not found stays as it was.
AppliedWhereGiven(m, found) ==
    [f \in Fields |-> IF f \in Certain \cup found THEN m ELSE form[f]]

\* The answer to a dialog sets every field.
AppliedOf(m, found) == [f \in Fields |-> IF f \in Certain \cup found THEN m ELSE None]

BrowseAnswers(d) ==
    /\ dialogs[d] \in Models
    /\ \E found \in SUBSET (Fields \ Certain) :
           /\ ApplyAndLock(AppliedOf(dialogs[d], found), TRUE)
           /\ modelFilePath' = dialogs[d]
           /\ overtaken' = FALSE
    /\ dialogs' = [dialogs EXCEPT ![d] = "closed"]
    /\ isExtracting' = FALSE
    /\ UNCHANGED <<initialModel, mounted, importing, job, steps>>

\* The user cancels, or the file cannot be read.
BrowseFails(d) ==
    /\ dialogs[d] # "closed"
    /\ dialogs' = [dialogs EXCEPT ![d] = "closed"]
    /\ isExtracting' = FALSE
    /\ UNCHANGED <<initialModel, mounted, modelFilePath, form, verified, isMetadataLocked,
                   importing, job, overtaken, steps>>
-----------------------------------------------------------------------------
Unlock ==
    /\ Step
    /\ isMetadataLocked /\ isMetadataLocked' = FALSE
    /\ UNCHANGED <<initialModel, mounted, modelFilePath, form, verified, isExtracting,
                   importing, dialogs, job, overtaken>>

Edit(f) ==
    /\ Step
    /\ ~isMetadataLocked
    /\ form' = [form EXCEPT ![f] = "user"]
    /\ UNCHANGED <<initialModel, mounted, modelFilePath, verified, isMetadataLocked,
                   isExtracting, importing, dialogs, job, overtaken>>

\* handleBrowsePreviewFile, its dialog as one step; a prompt in the image is
\* taken for a description that is missing.
BrowsePreview ==
    /\ Step
    /\ form' \in {[form EXCEPT !["preview"] = "user"]} \cup
                 (IF form["details"] = None
                  THEN {[form EXCEPT !["preview"] = "user", !["details"] = "user"]} ELSE {})
    /\ UNCHANGED <<initialModel, mounted, modelFilePath, verified, isMetadataLocked,
                   isExtracting, importing, dialogs, job, overtaken>>

\* handleRestoreVerifiedMetadata
RestoreVerified ==
    /\ Step
    /\ verified.given /\ ~isMetadataLocked
    /\ form' = verified.form
    /\ isMetadataLocked' = TRUE
    /\ UNCHANGED <<initialModel, mounted, modelFilePath, verified, isExtracting,
                   importing, dialogs, job, overtaken>>

\* handleSubmit
Submit ==
    /\ Step
    /\ ~isExtracting /\ modelFilePath # None
    /\ job' = [file |-> modelFilePath, form |-> form]
    /\ UNCHANGED <<initialModel, mounted, pageVars>>

\* handlePackageAnother, once the job is complete, leaves what it does not name.
PackageAnother ==
    /\ Step
    /\ job # NoJob /\ job' = NoJob
    /\ modelFilePath' = None
    /\ form' = [form EXCEPT !["title"] = None, !["preview"] = None]
    /\ verified' = NoVerified
    /\ isMetadataLocked' = FALSE
    /\ UNCHANGED <<initialModel, mounted, isExtracting, importing, dialogs, overtaken>>
-----------------------------------------------------------------------------
Init == /\ initialModel = None /\ mounted = FALSE
        /\ modelFilePath = None /\ form = Empty /\ verified = NoVerified
        /\ isMetadataLocked = FALSE /\ isExtracting = FALSE
        /\ importing = None /\ dialogs = [d \in Dialogs |-> "closed"]
        /\ job = NoJob
        /\ overtaken = FALSE /\ steps = 0

Next == \/ MountWithImport \/ MountAgain \/ Unmount
        \/ ImportAnswers
        \/ \E m \in Models : Import(m) \/ \E d \in Dialogs : Picks(d, m)
        \/ \E d \in Dialogs : Browse(d) \/ BrowseAnswers(d) \/ BrowseFails(d)
        \/ Unlock \/ RestoreVerified
        \/ \E f \in Fields : Edit(f)
        \/ BrowsePreview \/ Submit \/ PackageAnother

Spec == Init /\ [][Next]_vars
-----------------------------------------------------------------------------
TypeOK == /\ initialModel \in Models \cup {None} /\ mounted \in BOOLEAN
          /\ modelFilePath \in Models \cup {None}
          /\ form \in [Fields -> Texts]
          /\ verified \in [form : [Fields -> Texts], given : BOOLEAN]
          /\ isMetadataLocked \in BOOLEAN /\ isExtracting \in BOOLEAN
          /\ importing \in Models \cup {None}
          /\ dialogs \in [Dialogs -> Models \cup {"closed", "open"}]
          /\ job \in [file : Models \cup {None}, form : [Fields -> Texts]]
          /\ overtaken \in BOOLEAN /\ steps \in 0..MaxSteps

\* What can be submitted under the lock, as verified, is of the file that is
\* submitted, in every field that is not empty or the user's choice of a
\* preview: whichever dialogs and imports ran at once, and whatever was in the
\* form before.  Only an import that is answered after a dialog breaks it, as it
\* sets the fields without the file (handleBrowseModelFile and the effect of
\* initialModel).
FormFollowsFile ==
    isMetadataLocked /\ ~isExtracting /\ modelFilePath # None /\ ~overtaken =>
        \A f \in Fields : form[f] \in {modelFilePath, "user", None}
=============================================================================
