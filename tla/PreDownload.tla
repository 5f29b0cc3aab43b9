---------------------------- MODULE PreDownload ----------------------------
(***************************************************************************)
(* The verification before a download (src/main/engine/                    *)
(* preDownloadVerifier.ts): two registries are asked, each for four        *)
(* seconds at most, then the manifest's signature and the keyring decide;  *)
(* and the dialog that starts one 400 ms after every change of the magnet  *)
(* (src/renderer/components/DashboardView.tsx).                            *)
(*                                                                         *)
(* The dialog sends a magnet only; a manifest comes from other callers of  *)
(* the handler, whose requests are treated alike.  Titles, tags, scores    *)
(* and warnings are left out.                                              *)
(***************************************************************************)
EXTENDS Integers

CONSTANTS Requests,     \* what is asked about
          NoRequest,    \* an input without a magnet
          NoVerdict,
          MaxEdits,     \* bound: changes of the input and of the keyring
          MaxAdding     \* bound: magnets being added at once

VARIABLES
    trustLevel,     \* of the manifests' key in the keyring
    magnetInput,
    isVerifying, verifyResult,
    checks,         \* checks under way; those of an earlier input are not active
    failed,         \* the check of the present input came back as an error
    adding,         \* magnets being added
    edits

vars == <<trustLevel, magnetInput, isVerifying, verifyResult, checks, failed, adding, edits>>

\* What a request carries: a hash of the file, a repository, a manifest; and
\* whether its name can be decoded (decodeURIComponent).
RequestType == [sha256 : BOOLEAN, hfRepo : BOOLEAN, decodable : BOOLEAN,
                manifest : {"none", "unsigned", "tampered", "signed"}]

Phases == {"debounce", "asked", "civitai", "huggingface", "custom"}

Levels == {"unknown", "VerifiedCreator", "Community", "Untrusted", "Blocked"}

Statuses == {"verified_civitai", "verified_huggingface", "verified_custom_trusted",
             "verified_custom_untrusted", "mismatch", "rejected"}

VerdictType == [of : Requests, status : Statuses, canProceed : BOOLEAN]

Verdict(r, status) ==
    [of |-> r, status |-> status, canProceed |-> status \notin {"mismatch", "rejected"}]

\* verifyCustomModel.
CustomStatus(r) ==
    CASE r.manifest = "tampered" -> "mismatch"
      [] r.manifest = "signed" /\ trustLevel = "Blocked" -> "rejected"
      [] r.manifest = "signed" /\ trustLevel # "Untrusted" -> "verified_custom_trusted"
      [] OTHER -> "verified_custom_untrusted"
-----------------------------------------------------------------------------
Edit == edits < MaxEdits /\ edits' = edits + 1

\* The effect's end before its next turn: an earlier check goes on unheard, or
\* its timer is cleared.
Abandoned == {[c EXCEPT !.active = FALSE] : c \in {d \in checks : d.phase # "debounce"}}

\* The effect on a change of the input.  The verdict of the last one stays
\* until that of the next arrives.
TypesMagnet(r) ==
    /\ Edit
    /\ r # magnetInput /\ magnetInput' = r
    /\ checks' = Abandoned \cup {[of |-> r, phase |-> "debounce", active |-> TRUE]}
    /\ isVerifying' = TRUE
    /\ failed' = FALSE
    /\ UNCHANGED <<trustLevel, verifyResult, adding>>

Clears == /\ magnetInput' = NoRequest
          /\ checks' = Abandoned
          /\ isVerifying' = FALSE
          /\ verifyResult' = NoVerdict
          /\ failed' = FALSE

\* The user empties the input.
EmptiesInput == /\ Edit
                /\ magnetInput # NoRequest
                /\ Clears
                /\ UNCHANGED <<trustLevel, adding>>

\* handleAdd, with the button enabled.
Submits == /\ magnetInput # NoRequest
           /\ verifyResult # NoVerdict => verifyResult.canProceed
           /\ adding < MaxAdding /\ adding' = adding + 1
           /\ UNCHANGED <<trustLevel, magnetInput, isVerifying, verifyResult, checks,
                          failed, edits>>

\* After its await it clears the input, whatever has been typed since.
MagnetAdded == /\ adding > 0 /\ adding' = adding - 1
               /\ Clears
               /\ UNCHANGED <<trustLevel, edits>>

KeyringChanges(level) == /\ Edit
                         /\ trustLevel # level /\ trustLevel' = level
                         /\ UNCHANGED <<magnetInput, isVerifying, verifyResult, checks, failed,
                                        adding>>
-----------------------------------------------------------------------------
\* Mutant of Concerned: the answer to a replaced check is taken too.
ConcernedByAll(c) == TRUE

\* The flag of the effect: only the last input's check is heard.
Concerned(c) == c.active

\* An answer; an error, as of a name that cannot be decoded, leaves the verdict.
Answers(c, verdict) ==
    /\ checks' = checks \ {c}
    /\ IF Concerned(c)
       THEN /\ isVerifying' = FALSE
            /\ verifyResult' = IF verdict = NoVerdict THEN verifyResult ELSE verdict
            /\ failed' = (verdict = NoVerdict)
       ELSE UNCHANGED <<isVerifying, verifyResult, failed>>
    /\ UNCHANGED <<trustLevel, magnetInput, adding, edits>>

Goes(c, phase) ==
    /\ checks' = (checks \ {c}) \cup {[c EXCEPT !.phase = phase]}
    /\ UNCHANGED <<trustLevel, magnetInput, isVerifying, verifyResult, failed,
                   adding, edits>>

TimerFires(c) == c.phase = "debounce" /\ Goes(c, "asked")

\* verifyPreDownload up to its first request.
verifyPreDownload(c) ==
    /\ c.phase = "asked"
    /\ IF ~c.of.decodable THEN Answers(c, NoVerdict)
       ELSE Goes(c, IF c.of.sha256 THEN "civitai"
                    ELSE IF c.of.hfRepo THEN "huggingface" ELSE "custom")

\* It knows the hash: whatever the manifest says is not looked at.
verifyCivitai(c) ==
    /\ c.phase = "civitai"
    /\ \/ Answers(c, Verdict(c.of, "verified_civitai"))
       \/ Goes(c, IF c.of.hfRepo THEN "huggingface" ELSE "custom")

verifyHuggingFace(c) ==
    /\ c.phase = "huggingface"
    /\ Answers(c, Verdict(c.of, "verified_huggingface")) \/ Goes(c, "custom")

verifyCustomModel(c) ==
    /\ c.phase = "custom"
    /\ Answers(c, Verdict(c.of, CustomStatus(c.of)))

Steps == \E c \in checks : \/ TimerFires(c)
                           \/ verifyPreDownload(c)
                           \/ verifyCivitai(c)
                           \/ verifyHuggingFace(c)
                           \/ verifyCustomModel(c)
-----------------------------------------------------------------------------
Init == /\ trustLevel = "unknown"
        /\ magnetInput = NoRequest
        /\ isVerifying = FALSE /\ verifyResult = NoVerdict
        /\ checks = {} /\ failed = FALSE /\ adding = 0
        /\ edits = 0

Next == \/ \E r \in Requests : TypesMagnet(r)
        \/ EmptiesInput
        \/ Submits
        \/ MagnetAdded
        \/ \E l \in Levels : KeyringChanges(l)
        \/ Steps

\* Every request to a registry ends, by its answer or by its time.
Fairness == WF_vars(Steps)

Spec == Init /\ [][Next]_vars /\ Fairness
-----------------------------------------------------------------------------
TypeOK == /\ trustLevel \in Levels
          /\ magnetInput \in Requests \cup {NoRequest}
          /\ isVerifying \in BOOLEAN /\ failed \in BOOLEAN
          /\ verifyResult # NoVerdict =>
                verifyResult \in VerdictType
          /\ checks \subseteq [of : Requests, phase : Phases, active : BOOLEAN]
          /\ adding \in 0..MaxAdding
          /\ edits \in 0..MaxEdits

\* Once no check is under way for the input, the verdict the dialog goes by is
\* the input's own, unless its check came back as an error: then the one of an
\* earlier magnet stays.  Whatever was typed in between, the checking ends once the
\* user stops, as edits are bounded (MaxEdits).
VerdictOfInput ==
    /\ [](~isVerifying /\ ~failed /\ magnetInput # NoRequest
          => verifyResult # NoVerdict /\ verifyResult.of = magnetInput)
    /\ []<>(~isVerifying)
=============================================================================
