----------------------------- MODULE PackageJob -----------------------------
(***************************************************************************)
(* PackageJobManager of src/src/main/engine/packageJobManager.ts: the one    *)
(* packaging job the main process keeps, the pipeline that hashes, inspects  *)
(* and registers its files, and what the manager tells the window.           *)
(*                                                                           *)
(* The pipeline gives way only while a file is being hashed.  What lies      *)
(* between two hashes is one step, and so is an abort with the rejection it   *)
(* causes: the continuations are microtasks, which run before the next       *)
(* request is served.                                                        *)
(***************************************************************************)
EXTENDS Naturals, Sequences

CONSTANTS
    Jobs,        \* job ids that randomUUID may return
    Pages,       \* mounts of the page, which the answers are for
    None,        \* null
    MaxChannel   \* bound: messages on the way to the window

VARIABLES
    job,         \* currentJob
    controller,  \* the job whose AbortController abortController is
    pipeline,    \* what each job's pipeline awaits
    registered,  \* the jobs whose manifest registerSeedingManifest was given
    used,        \* ids given out so far
    channel      \* messages sent to the window and not yet received (external)

vars == <<job, controller, pipeline, registered, used, channel>>

-----------------------------------------------------------------------------
Running == {"hashing", "validating", "generating_manifest", "seeding"}
Ended == {"completed", "error"}
Snapshots == [id : Jobs, phase : Running \cup Ended]

ASSUME PackageAssumption ==
    /\ None \notin Jobs \cup Snapshots
    /\ MaxChannel \in Nat \ {0}

\* Which file is being hashed: the model, the preview, or a preview that was not there when
\* its turn came and is by the time the manifest is built.
Stages == {"none", "model", "preview", "latePreview"}

Messages ==
    [kind : {"progress"}, job : Snapshots \cup {None}]
        \cup [kind : {"active"}, page : Pages, job : Snapshots \cup {None}]
        \cup [kind : {"started"}, page : Pages, job : Snapshots]
        \cup [kind : {"refused", "cancelled", "cleared"}, page : Pages]

Progress(snapshot) == [kind |-> "progress", job |-> snapshot]

Room == Len(channel) < MaxChannel

At(j, phase) == [id |-> j, phase |-> phase]

\* A pipeline goes through the phases; updateJobState writes them into whatever job is current
\* and broadcasts each.
Reaches(phases) ==
    IF job = None \/ phases = <<>>
    THEN UNCHANGED <<job, channel>>
    ELSE /\ job' = [job EXCEPT !.phase = phases[Len(phases)]]
         /\ channel' = channel \o
                [i \in DOMAIN phases |-> Progress([job EXCEPT !.phase = phases[i]])]

Awaits(j, stage) == pipeline' = [pipeline EXCEPT ![j] = stage]

-----------------------------------------------------------------------------
\* Mutants, named after what they get wrong, stand before the definition they change.
BusyUnlessBuilding == job # None /\ job.phase \in Running \ {"generating_manifest"}

Busy == job # None /\ job.phase \in Running

Answer(kind, page) == channel' = Append(channel, [kind |-> kind, page |-> page])

\* startJob throws: a job is under way, the file is missing or forbidden, the path or the
\* sharing policy does not allow it.
StartRefused(page) ==
    /\ Answer("refused", page)
    /\ UNCHANGED <<job, controller, pipeline, registered, used>>

\* A job that was just created, with what the window is told and then the answer, which is the
\* job as it was before anything was awaited.
NewJob(j, phase, news, page) ==
    /\ ~Busy
    /\ job' = At(j, phase)
    /\ controller' = j
    /\ used' = used \cup {j}
    /\ channel' = channel \o news
           \o <<[kind |-> "started", page |-> page, job |-> At(j, "hashing")]>>
    /\ UNCHANGED registered

\* startJob, with the pipeline up to its first await.
StartJob(page) ==
    \E j \in Jobs \ used :
        /\ NewJob(j, "hashing", <<Progress(At(j, "hashing"))>>, page)
        /\ Awaits(j, "model")

\* startJob, where the pipeline throws before its first await, because the file has just gone:
\* its catch runs before the answer is sent.
StartFails(page) ==
    \E j \in Jobs \ used :
        /\ NewJob(j, "error", <<Progress(At(j, "hashing")), Progress(At(j, "error"))>>, page)
        /\ UNCHANGED pipeline

\* getActiveJob.
GetActiveJob(page) ==
    /\ channel' = Append(channel, [kind |-> "active", page |-> page, job |-> job])
    /\ UNCHANGED <<job, controller, pipeline, registered, used>>

Cancellable(id) == Busy /\ id \in {None, job.id}

Aborted == IF controller = None THEN pipeline ELSE [pipeline EXCEPT ![controller] = "none"]

CancelKeepsPipeline(id, page) ==
    IF Cancellable(id)
    THEN /\ job' = [job EXCEPT !.phase = "error"]
         /\ controller' = None
         /\ channel' = channel \o <<Progress(job'), [kind |-> "cancelled", page |-> page]>>
         /\ UNCHANGED <<pipeline, registered, used>>
    ELSE /\ Answer("cancelled", page)
         /\ UNCHANGED <<job, controller, pipeline, registered, used>>

\* cancelJob: the aborted stream's promise is rejected, and the pipeline ends in a catch that
\* has nothing left to do.
CancelJob(id, page) ==
    IF Cancellable(id)
    THEN /\ job' = [job EXCEPT !.phase = "error"]
         /\ controller' = None
         /\ pipeline' = Aborted
         /\ channel' = channel \o <<Progress(job'), [kind |-> "cancelled", page |-> page]>>
         /\ UNCHANGED <<registered, used>>
    ELSE /\ Answer("cancelled", page)
         /\ UNCHANGED <<job, controller, pipeline, registered, used>>

ClearLeavesIdleJob(page) ==
    /\ job # None /\ ~Busy
    /\ job' = At(job.id, "idle")
    /\ controller' = None
    /\ channel' = Append(channel, [kind |-> "cleared", page |-> page])
    /\ UNCHANGED <<pipeline, registered, used>>

\* clearJob.
ClearJob(page) ==
    IF job # None /\ ~Busy
    THEN /\ job' = None
         /\ controller' = None
         /\ channel' = channel \o <<Progress(None), [kind |-> "cleared", page |-> page]>>
         /\ UNCHANGED <<pipeline, registered, used>>
    ELSE /\ Answer("cleared", page)
         /\ UNCHANGED <<job, controller, pipeline, registered, used>>

-----------------------------------------------------------------------------
\* A chunk was read: at most one broadcast in 75 ms.
HashProgresses(j) ==
    /\ pipeline[j] # "none"
    /\ job # None
    /\ Room
    /\ channel' = Append(channel, Progress(job))
    /\ UNCHANGED <<job, controller, pipeline, registered, used>>

FailureUnrecorded(j, phases) ==
    /\ Awaits(j, "none")
    /\ Reaches(phases)
    /\ UNCHANGED <<controller, registered, used>>

\* The pipeline throws after it went through the phases; startJob's catch records it if the
\* job is still the current one.
FailsAfter(j, phases) ==
    /\ Awaits(j, "none")
    /\ IF job # None /\ job.id = j
       THEN Reaches(Append(phases, "error"))
       ELSE Reaches(phases)
    /\ UNCHANGED <<controller, registered, used>>

\* The stream errors (computeFileSha256).
HashFails(j) ==
    /\ pipeline[j] # "none"
    /\ FailsAfter(j, <<>>)

\* The model is hashed and there is a preview to hash.
PreviewNext(j) ==
    /\ pipeline[j] = "model"
    /\ Reaches(<<"hashing">>)
    /\ Awaits(j, "preview")
    /\ UNCHANGED <<controller, registered, used>>

\* The rest of the pipeline, from the last hash on.
Hashed(j) == pipeline[j] \in {"model", "preview"}

\* The inspection finds the contents invalid, or buildSwarmManifest throws.
ValidationFails(j) ==
    /\ Hashed(j)
    /\ \/ FailsAfter(j, <<"validating">>)
       \/ FailsAfter(j, <<"validating", "generating_manifest">>)

\* A preview that appeared after its turn is hashed by buildSwarmManifest.
PreviewAppears(j) ==
    /\ pipeline[j] = "model"
    /\ Reaches(<<"validating", "generating_manifest">>)
    /\ Awaits(j, "latePreview")
    /\ UNCHANGED <<controller, registered, used>>

\* registerSeedingManifest and the job's completion.
Completes(j) ==
    /\ \/ Hashed(j) /\ Reaches(<<"validating", "generating_manifest", "seeding", "completed">>)
       \/ pipeline[j] = "latePreview" /\ Reaches(<<"seeding", "completed">>)
    /\ registered' = registered \cup {j}
    /\ controller' = None
    /\ Awaits(j, "none")
    /\ UNCHANGED used

\* What awaits a hash goes on.
PipelineContinues(j) ==
    PreviewNext(j) \/ HashFails(j) \/ ValidationFails(j) \/ PreviewAppears(j) \/ Completes(j)

Received == channel # <<>> /\ channel' = Tail(channel)

\* The window receives a message; what the page does with it is PackagePage's.
Receive == Received /\ UNCHANGED <<job, controller, pipeline, registered, used>>

\* The process ends, with the job and whatever was on its way to the window.
Quit ==
    /\ job' = None
    /\ controller' = None
    /\ pipeline' = [j \in Jobs |-> "none"]
    /\ channel' = <<>>
    /\ UNCHANGED <<registered, used>>

Request(page) ==
    /\ Room
    /\ \/ StartJob(page)
       \/ StartFails(page)
       \/ StartRefused(page)
       \/ GetActiveJob(page)
       \/ \E id \in Jobs \cup {None} : CancelJob(id, page)
       \/ ClearJob(page)

-----------------------------------------------------------------------------
Init ==
    /\ job = None
    /\ controller = None
    /\ pipeline = [j \in Jobs |-> "none"]
    /\ registered = {}
    /\ used = {}
    /\ channel = <<>>

Next ==
    \/ \E page \in Pages : Request(page)
    \/ \E j \in Jobs : HashProgresses(j) \/ PipelineContinues(j)
    \/ Receive
    \/ Quit

Spec == Init /\ [][Next]_vars

-----------------------------------------------------------------------------
\* The state keeps its shape.
TypeOK ==
    /\ job \in Snapshots \cup {None}
    /\ controller \in Jobs \cup {None}
    /\ pipeline \in [Jobs -> Stages]
    /\ registered \subseteq Jobs
    /\ used \subseteq Jobs
    /\ channel \in Seq(Messages)

\* The job the manager shows is the job there is: a pipeline awaits a hash exactly when the
\* current job is shown as running, it is that job's pipeline, its controller is the one that
\* cancelling aborts, and a job shown as over was registered exactly when it is shown as
\* completed.  It is about cancelling, starting again at once and clearing (cancelJob,
\* startJob, clearJob) between any two hashes, and quitting.
JobShown ==
    /\ \A j \in Jobs : pipeline[j] # "none" => Busy /\ job.id = j /\ controller = j
    /\ Busy => pipeline[job.id] # "none"
    /\ job # None => (job.phase = "completed" <=> job.id \in registered)
    /\ job # None => job.id \in used
    /\ registered \subseteq used

\* PackageSpec's state of a job.
StateOf(j) ==
    CASE pipeline[j] # "none" -> "running"
      [] pipeline[j] = "none" /\ j \in registered -> "seeded"
      [] pipeline[j] = "none" /\ j \in used \ registered -> "failed"
      [] OTHER -> "unused"

Package == INSTANCE PackageSpec WITH state <- [j \in Jobs |-> StateOf(j)]

\* The manager is the packaging that PackageSpec describes: no two pipelines ever run, a job
\* that was cancelled or failed never registers its model, and no job ends twice.
OneJobAtATime == Package!Spec

=============================================================================
