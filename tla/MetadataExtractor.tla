------------------------- MODULE MetadataExtractor -------------------------
(***************************************************************************)
(* What is found out about a model file (src/main/metadata/                *)
(* modelMetadataExtractor.ts): from the files beside it, its header, the   *)
(* catalog of RenegadeCMM, CivitAI and Hugging Face, one after another and *)
(* most of them behind an await; and what of it is written back into the   *)
(* catalog (src/main/cmm/cmmDbBridge.ts).                                  *)
(*                                                                         *)
(* A value is known by the source it came from; texts, their cleaning and  *)
(* the parsing of headers and answers are left out.  Of the tags, which    *)
(* are united, only the first source is kept.  The type Checkpoint, which  *)
(* is said of whatever is not known better, is that of no source.          *)
(***************************************************************************)
EXTENDS Integers, Sequences

CONSTANTS Offerings,        \* what the sources may offer of a model
          None,
          MaxExtractions    \* bound: extractions and changes by RenegadeCMM

Fields == {"title", "creator", "baseModel", "description", "tags", "preview",
           "modelType", "civitaiModelId", "hfRepoId", "sha256"}

Sources == {"path", "companion", "header", "civitai", "huggingface", "workflow"}

\* Columns of cmm.local_models that are read.
Columns == {"title", "modelType", "civitaiModelId", "hfRepoId", "sha256"}

Origins == Sources \cup {"fileName", "computed", "own"}

VARIABLES
    offers,     \* source -> the fields it has something for
    isLlm,
    catalog,    \* the model's row: where each column's value came from
    at,         \* where the extraction is
    found,      \* field -> where its value came from
    heard,      \* the sources that answered, nearest first, for the property
    count

vars == <<offers, isLlm, catalog, at, found, heard, count>>

Nothing == [f \in Fields |-> None]

\* What a source offers fills what is missing.
Fills(values, source, fields) ==
    [f \in Fields |-> IF f \in fields /\ values[f] = None THEN source ELSE values[f]]

Replaces(values, source, fields) ==
    [f \in Fields |-> IF f \in fields THEN source ELSE values[f]]

Goes(place) == at' = place /\ UNCHANGED <<offers, catalog, count>>

Hears(source) == heard' = Append(heard, source)
-----------------------------------------------------------------------------
\* discoverCompanionFiles, before any await; what is beside the file overrides
\* the type its path suggests.
extractMetadata ==
    /\ at = "idle" /\ count < MaxExtractions
    /\ count' = count + 1
    /\ found' = Replaces(Fills(Nothing, "path", offers["path"]), "companion",
                         offers["companion"])
    /\ heard' = <<"companion", "path">>
    /\ at' = "header"
    /\ UNCHANGED <<offers, isLlm, catalog>>

readSafetensorsMetadata ==
    /\ at = "header"
    /\ found' = Fills(found, "header", offers["header"])
    /\ Hears("header")
    /\ Goes("cmm")
    /\ UNCHANGED isLlm

\* getLocalModels lists a hundred rows; the model's need not be among them.
CmmAnswers ==
    /\ at = "cmm"
    /\ \/ /\ found' = [f \in Fields |-> IF f \in Columns /\ found[f] = None THEN catalog[f]
                                        ELSE found[f]]
          /\ Hears("cmm")
       \/ UNCHANGED <<found, heard>>
    /\ Goes("hash")
    /\ UNCHANGED isLlm

\* By its name, place and type it is an LLM or not (isLlmModel).  A file that
\* is too large, or cannot be read, has no hash.
computeFileSha256 ==
    /\ at = "hash"
    /\ \E llm \in BOOLEAN, hashed \in SUBSET {"sha256"} :
           /\ isLlm' = llm
           /\ found' = Fills(Fills(found, "fileName", IF llm THEN {"modelType"} ELSE {}),
                             "computed", hashed)
    /\ Goes("civitai")
    /\ UNCHANGED heard

needsCivitaiLookup ==
    /\ ~isLlm
    /\ found["sha256"] # None
    /\ \E f \in {"title", "creator", "baseModel", "description", "tags", "preview"} :
           found[f] = None

\* Mutant of TakenFromCivitai: the registry's word counts for every field.
AllTakenFromCivitai(fields) == Replaces(found, "civitai", fields)

\* Name, type and number of the registry override what was found nearer.
TakenFromCivitai(fields) ==
    LET overriding == {"title", "modelType", "civitaiModelId"}
    IN Fills(Replaces(found, "civitai", fields \cap overriding), "civitai", fields)

\* fetchCivitaiMetadataByHash; the preview is one more request, which may fail.
CivitaiAnswers ==
    /\ at = "civitai"
    /\ \/ /\ needsCivitaiLookup
          /\ found' = TakenFromCivitai(offers["civitai"])
          /\ Hears("civitai")
       \/ /\ needsCivitaiLookup
          /\ found' = TakenFromCivitai(offers["civitai"] \ {"preview"})
          /\ Hears("civitai without preview")
       \/ UNCHANGED <<found, heard>>
    /\ Goes("huggingface")
    /\ UNCHANGED isLlm

needsHfLookup ==
    \/ found["creator"] = None
    \/ found["tags"] = None
    \/ found["hfRepoId"] = None /\ isLlm

\* fetchHuggingFaceMetadata; a title that an earlier extraction made of the
\* file's name, and the catalog kept, is none.
HuggingFaceAnswers ==
    /\ at = "huggingface"
    /\ \/ /\ needsHfLookup
          /\ LET guessed == IF found["title"] = "fileName" THEN {"title"} ELSE {}
                 offered == offers["huggingface"]
             IN found' = Fills(Replaces(found, "huggingface", guessed \cap offered),
                               "huggingface", offered)
          /\ Hears("huggingface")
       \/ UNCHANGED <<found, heard>>
    /\ Goes("preview")
    /\ UNCHANGED isLlm

\* inspectImageWorkflowMetadata of the preview, and the names that are guessed.
Guesses ==
    /\ at = "preview"
    /\ LET inspected == IF found["preview"] = None THEN found
                        ELSE Fills(found, "workflow", offers["workflow"])
       IN found' = Fills(inspected, "fileName", {"title", "baseModel"})
    /\ heard' = IF found["preview"] = None THEN heard ELSE Append(heard, "workflow")
    /\ Goes("write")
    /\ UNCHANGED isLlm

\* updateModelMetadata sets every column it has a value for, if it is attached;
\* for the type it always has one.
CmmTakes ==
    /\ at = "write"
    /\ \/ catalog' = [c \in Columns |-> IF found[c] = None /\ c # "modelType"
                                      THEN catalog[c] ELSE found[c]]
       \/ UNCHANGED catalog
    /\ at' = "idle"
    /\ UNCHANGED <<offers, isLlm, found, heard, count>>

\* RenegadeCMM, or its user, changes a column.
RowChanges(c) ==
    /\ count < MaxExtractions /\ count' = count + 1
    /\ catalog' = [catalog EXCEPT ![c] = "own"]
    /\ UNCHANGED <<offers, isLlm, at, found, heard>>
-----------------------------------------------------------------------------
Init == /\ offers \in Offerings
        /\ isLlm = FALSE
        /\ catalog = [c \in Columns |-> None]
        /\ at = "idle" /\ found = Nothing /\ heard = <<>>
        /\ count = 0

Next == \/ extractMetadata
        \/ readSafetensorsMetadata
        \/ CmmAnswers
        \/ computeFileSha256
        \/ CivitaiAnswers
        \/ HuggingFaceAnswers
        \/ Guesses
        \/ CmmTakes
        \/ \E c \in Columns : RowChanges(c)

Spec == Init /\ [][Next]_vars
-----------------------------------------------------------------------------
TypeOK == /\ offers \in [Sources -> SUBSET Fields]
          /\ isLlm \in BOOLEAN
          /\ catalog \in [Columns -> Origins \cup {None}]
          /\ at \in {"idle", "header", "cmm", "hash", "civitai", "huggingface", "preview", "write"}
          /\ found \in [Fields -> Origins \cup {None}]
          /\ count \in 0..MaxExtractions

\* What a source that answered has for a field.
Says(source, f) ==
    \/ source \in Sources /\ f \in offers[source]
    \/ source = "civitai without preview" /\ f \in offers["civitai"] \ {"preview"}

\* The source that answered under this name.
Word(source) == IF source = "civitai without preview" THEN "civitai" ELSE source

\* No source that answered has something for the field.
Unsaid(f) == \A i \in DOMAIN heard : ~Says(heard[i], f)

\* What is found is the word of the nearest one that has.
FromNearest(f) == \E i \in DOMAIN heard : /\ Says(heard[i], f)
                                          /\ \A j \in 1..(i - 1) : ~Says(heard[j], f)
                                          /\ found[f] = Word(heard[i])

\* Fields for which nothing overrides what was found nearer.
NearestFields == {"creator", "baseModel", "description", "tags", "preview"}

\* Of a creator, a base model, a description, tags and a preview the nearest
\* source's word is what the extraction ends with, whichever of the later ones
\* answer, and whichever need not be asked; and nothing that was said is lost
\* (extractMetadata).
NearestWins ==
    at = "write" =>
        \A f \in NearestFields : \/ Unsaid(f) /\ found[f] \in {None, "fileName"}
                                 \/ FromNearest(f)
=============================================================================
