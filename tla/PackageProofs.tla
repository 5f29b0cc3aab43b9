---------------------------- MODULE PackageProofs ----------------------------
(***************************************************************************)
(* Theorems about the packaging of models, for any number of jobs and of      *)
(* mounts of the page and any bounds on what is under way: about the main     *)
(* process on its own (PackageJob), and about it and its page (PackagePage).  *)
(***************************************************************************)
EXTENDS PackagePage, TLAPS

Phases == Running \cup Ended

LEMMA ChannelGrows ==
    ASSUME channel \in Seq(Messages), NEW news \in Seq(Messages), channel' = channel \o news
    PROVE  channel' \in Seq(Messages)
  OBVIOUS

LEMMA BroadcastIsMessage ==
    ASSUME NEW snapshot \in Snapshots \cup {None}
    PROVE  Progress(snapshot) \in Messages
  BY DEF Progress, Messages

\* updateJobState keeps the shape of the job and of what is on its way.
LEMMA ReachesType ==
    ASSUME TypeOK, NEW phases \in Seq(Phases), Reaches(phases)
    PROVE  /\ job' \in Snapshots \cup {None}
           /\ channel' \in Seq(Messages)
<1>1. CASE job = None \/ phases = <<>>
  BY <1>1 DEF Reaches, TypeOK
<1>2. CASE job # None /\ phases # <<>>
  <2> DEFINE news == [i \in DOMAIN phases |-> Progress([job EXCEPT !.phase = phases[i]])]
  <2>1. job \in Snapshots
    BY <1>2 DEF TypeOK
  <2>2. \A i \in DOMAIN phases : [job EXCEPT !.phase = phases[i]] \in Snapshots
    BY <2>1 DEF Snapshots, Phases
  <2>3. Len(phases) \in DOMAIN phases
    BY <1>2
  <2>4. job' \in Snapshots
    BY <1>2, <2>2, <2>3 DEF Reaches
  <2>5. \A i \in DOMAIN phases : Progress([job EXCEPT !.phase = phases[i]]) \in Messages
    BY <2>2, BroadcastIsMessage
  <2>6. DOMAIN phases = 1..Len(phases) /\ Len(phases) \in Nat
    OBVIOUS
  <2>7. news \in Seq(Messages)
    BY <2>5, <2>6
  <2>8. channel' = channel \o news
    BY <1>2 DEF Reaches
  <2> QED
    BY <2>4, <2>7, <2>8, ChannelGrows DEF TypeOK
<1> QED
  BY <1>1, <1>2

\* So does the end of a pipeline that throws.
LEMMA FailsType ==
    ASSUME TypeOK, NEW j \in Jobs, NEW phases \in Seq(Phases), FailsAfter(j, phases)
    PROVE  TypeOK'
<1>1. pipeline' \in [Jobs -> Stages]
  BY DEF FailsAfter, Awaits, TypeOK, Stages
<1>2. job' \in Snapshots \cup {None} /\ channel' \in Seq(Messages)
  <2>1. CASE job # None /\ job.id = j
    <3>1. Append(phases, "error") \in Seq(Phases)
      BY DEF Phases, Ended
    <3> QED
      BY <2>1, <3>1, ReachesType DEF FailsAfter
  <2>2. CASE ~(job # None /\ job.id = j)
    BY <2>2, ReachesType DEF FailsAfter
  <2> QED
    BY <2>1, <2>2
<1> QED
  BY <1>1, <1>2 DEF FailsAfter, TypeOK

LEMMA PhaseLists ==
    /\ <<>> \in Seq(Phases)
    /\ <<"hashing">> \in Seq(Phases)
    /\ <<"validating">> \in Seq(Phases)
    /\ <<"validating", "generating_manifest">> \in Seq(Phases)
    /\ <<"seeding", "completed">> \in Seq(Phases)
    /\ <<"validating", "generating_manifest", "seeding", "completed">> \in Seq(Phases)
  BY DEF Phases, Running, Ended

LEMMA AwaitsType ==
    ASSUME TypeOK, NEW j \in Jobs, NEW stage \in Stages, Awaits(j, stage)
    PROVE  pipeline' \in [Jobs -> Stages]
  BY DEF Awaits, TypeOK

LEMMA PipelineType ==
    ASSUME TypeOK, NEW j \in Jobs, PipelineContinues(j)
    PROVE  TypeOK'
<1>1. CASE PreviewNext(j)
  <2>1. pipeline' \in [Jobs -> Stages]
    BY <1>1, AwaitsType DEF PreviewNext, Stages
  <2>2. job' \in Snapshots \cup {None} /\ channel' \in Seq(Messages)
    BY <1>1, ReachesType, PhaseLists DEF PreviewNext
  <2> QED
    BY <1>1, <2>1, <2>2 DEF PreviewNext, TypeOK
<1>2. CASE HashFails(j)
  BY <1>2, FailsType, PhaseLists DEF HashFails
<1>3. CASE ValidationFails(j)
  BY <1>3, FailsType, PhaseLists DEF ValidationFails
<1>4. CASE PreviewAppears(j)
  <2>1. pipeline' \in [Jobs -> Stages]
    BY <1>4, AwaitsType DEF PreviewAppears, Stages
  <2>2. job' \in Snapshots \cup {None} /\ channel' \in Seq(Messages)
    BY <1>4, ReachesType, PhaseLists DEF PreviewAppears
  <2> QED
    BY <1>4, <2>1, <2>2 DEF PreviewAppears, TypeOK
<1>5. CASE Completes(j)
  <2>1. pipeline' \in [Jobs -> Stages]
    BY <1>5, AwaitsType DEF Completes, Stages
  <2>2. job' \in Snapshots \cup {None} /\ channel' \in Seq(Messages)
    BY <1>5, ReachesType, PhaseLists DEF Completes
  <2> QED
    BY <1>5, <2>1, <2>2 DEF Completes, TypeOK
<1> QED
  BY <1>1, <1>2, <1>3, <1>4, <1>5 DEF PipelineContinues

LEMMA RequestType ==
    ASSUME TypeOK, NEW p \in Pages, Request(p)
    PROVE  TypeOK'
<1> USE DEF TypeOK
<1>1. ASSUME NEW kind \in {"refused", "cancelled", "cleared"}, Answer(kind, p)
      PROVE  channel' \in Seq(Messages)
  BY <1>1 DEF Answer, Messages
<1>2. ASSUME NEW j \in Jobs, NEW phase \in Phases, NEW news \in Seq(Messages),
             NewJob(j, phase, news, p)
      PROVE  /\ job' \in Snapshots /\ controller' \in Jobs /\ used' \subseteq Jobs
             /\ registered' \subseteq Jobs /\ channel' \in Seq(Messages)
  <2>1. At(j, phase) \in Snapshots /\ At(j, "hashing") \in Snapshots
    BY DEF At, Snapshots, Phases, Running
  <2> DEFINE answer == [kind |-> "started", page |-> p, job |-> At(j, "hashing")]
  <2>2. answer \in Messages
    BY <2>1 DEF Messages
  <2>3. channel' = channel \o news \o <<answer>>
    BY <1>2 DEF NewJob
  <2>4. channel' \in Seq(Messages)
    BY <2>2, <2>3
  <2> QED
    BY <1>2, <2>1, <2>4 DEF NewJob
<1>3. \A j \in Jobs : Progress(At(j, "hashing")) \in Messages /\ Progress(At(j, "error")) \in Messages
  BY BroadcastIsMessage DEF At, Snapshots, Running, Ended
<1>4. CASE StartJob(p)
  <2>1. PICK j \in Jobs \ used :
           NewJob(j, "hashing", <<Progress(At(j, "hashing"))>>, p) /\ Awaits(j, "model")
    BY <1>4 DEF StartJob
  <2>2. <<Progress(At(j, "hashing"))>> \in Seq(Messages) /\ "hashing" \in Phases
    BY <1>3 DEF Phases, Running
  <2>3. pipeline' \in [Jobs -> Stages]
    BY <2>1, AwaitsType DEF Stages
  <2> QED
    BY <1>2, <2>1, <2>2, <2>3
<1>5. CASE StartFails(p)
  <2>1. PICK j \in Jobs \ used :
           /\ NewJob(j, "error", <<Progress(At(j, "hashing")), Progress(At(j, "error"))>>, p)
           /\ UNCHANGED pipeline
    BY <1>5 DEF StartFails
  <2>2. <<Progress(At(j, "hashing")), Progress(At(j, "error"))>> \in Seq(Messages) /\ "error" \in Phases
    BY <1>3 DEF Phases, Ended
  <2> QED
    BY <1>2, <2>1, <2>2
<1>6. CASE StartRefused(p)
  BY <1>1, <1>6 DEF StartRefused
<1>7. CASE GetActiveJob(p)
  BY <1>7 DEF GetActiveJob, Messages
<1>8. ASSUME NEW id \in Jobs \cup {None}, CancelJob(id, p) PROVE TypeOK'
  <2>1. CASE Cancellable(id)
    <3>1. job \in Snapshots
      BY <2>1 DEF Cancellable, Busy
    <3>2. job' \in Snapshots
      BY <1>8, <2>1, <3>1 DEF CancelJob, Snapshots, Ended
    <3>3. pipeline' \in [Jobs -> Stages]
      BY <1>8, <2>1 DEF CancelJob, Aborted, Stages
    <3>4. [kind |-> "cancelled", page |-> p] \in Messages
      BY DEF Messages
    <3>5. Progress(job') \in Messages
      BY <3>2, BroadcastIsMessage
    <3>6. channel' = channel \o <<Progress(job'), [kind |-> "cancelled", page |-> p]>>
      BY <1>8, <2>1 DEF CancelJob
    <3> QED
      BY <1>8, <2>1, <3>2, <3>3, <3>4, <3>5, <3>6 DEF CancelJob
  <2>2. CASE ~Cancellable(id)
    BY <1>1, <1>8, <2>2 DEF CancelJob
  <2> QED
    BY <2>1, <2>2
<1>9. CASE ClearJob(p)
  <2>1. CASE job # None /\ ~Busy
    <3>1. [kind |-> "cleared", page |-> p] \in Messages
      BY DEF Messages
    <3>2. Progress(None) \in Messages
      BY BroadcastIsMessage
    <3>3. channel' = channel \o <<Progress(None), [kind |-> "cleared", page |-> p]>>
      BY <1>9, <2>1 DEF ClearJob
    <3>4. channel' \in Seq(Messages)
      BY <3>1, <3>2, <3>3
    <3> QED
      BY <1>9, <2>1, <3>4 DEF ClearJob
  <2>2. CASE ~(job # None /\ ~Busy)
    BY <1>1, <1>9, <2>2 DEF ClearJob
  <2> QED
    BY <2>1, <2>2
<1> QED
  BY <1>4, <1>5, <1>6, <1>7, <1>8, <1>9 DEF Request

LEMMA TypeStep == ASSUME TypeOK, [Next]_vars PROVE TypeOK'
<1>1. ASSUME NEW p \in Pages, Request(p) PROVE TypeOK'
  BY <1>1, RequestType
<1>2. ASSUME NEW j \in Jobs, HashProgresses(j) PROVE TypeOK'
  <2>1. Progress(job) \in Messages
    BY BroadcastIsMessage DEF TypeOK
  <2> QED
    BY <1>2, <2>1 DEF HashProgresses, TypeOK
<1>3. ASSUME NEW j \in Jobs, PipelineContinues(j) PROVE TypeOK'
  BY <1>3, PipelineType
<1>4. CASE Receive
  BY <1>4 DEF Receive, Received, TypeOK
<1>5. CASE Quit
  BY <1>5 DEF Quit, TypeOK, Stages
<1>6. CASE UNCHANGED vars
  BY <1>6 DEF vars, TypeOK
<1> QED
  BY <1>1, <1>2, <1>3, <1>4, <1>5, <1>6 DEF Next

\* The state keeps its shape, whoever asks for what between two hashes.
THEOREM TypeCorrect == Spec => []TypeOK
<1>1. Init => TypeOK
  BY DEF Init, TypeOK, Stages
<1> QED
  BY <1>1, TypeStep, PTL DEF Spec

-----------------------------------------------------------------------------
\* What a broadcast of phases does to the current job.
LEMMA ReachesJob ==
    ASSUME TypeOK, job # None, NEW phases \in Seq(Phases), phases # <<>>, Reaches(phases)
    PROVE  job' \in Snapshots /\ job'.id = job.id /\ job'.phase = phases[Len(phases)]
<1>1. job \in Snapshots
  BY DEF TypeOK
<1>2. Len(phases) \in DOMAIN phases
  OBVIOUS
<1>3. phases[Len(phases)] \in Phases
  BY <1>2
<1> QED
  BY <1>1, <1>3 DEF Reaches, Snapshots, Phases

\* The one pipeline there is.
LEMMA OnePipeline ==
    ASSUME TypeOK, JobShown, NEW j \in Jobs, pipeline[j] # "none"
    PROVE  /\ Busy /\ job \in Snapshots /\ job.id = j /\ controller = j
           /\ \A other \in Jobs \ {j} : pipeline[other] = "none"
           /\ j \in used /\ j \notin registered
  BY DEF JobShown, TypeOK, Busy, Running, Ended, Snapshots

\* A pipeline that ends leaves none, and the job as it ended.
LEMMA EndShown ==
    ASSUME TypeOK, JobShown, NEW j \in Jobs, pipeline[j] # "none", Awaits(j, "none"),
           job' \in Snapshots, job'.id = j, job'.phase \in Ended,
           job'.phase = "completed" <=> j \in registered', registered' \subseteq used, used' = used
    PROVE  JobShown'
<1>1. \A other \in Jobs : pipeline'[other] = "none"
  BY OnePipeline DEF Awaits, TypeOK
<1>2. ~Busy'
  BY DEF Busy, Running, Ended
<1>3. j \in used
  BY OnePipeline
<1> QED
  BY <1>1, <1>2, <1>3 DEF JobShown

LEMMA FailureShown ==
    ASSUME TypeOK, JobShown, NEW j \in Jobs, pipeline[j] # "none",
           NEW phases \in Seq(Phases), FailsAfter(j, phases)
    PROVE  JobShown'
<1>1. job \in Snapshots /\ job.id = j /\ job # None /\ j \notin registered
  BY OnePipeline DEF Busy
<1>2. Append(phases, "error") \in Seq(Phases) /\ Append(phases, "error") # <<>>
  BY DEF Phases, Ended
<1>3. Append(phases, "error")[Len(Append(phases, "error"))] = "error"
  OBVIOUS
<1>4. Reaches(Append(phases, "error"))
  BY <1>1 DEF FailsAfter
<1>5. job' \in Snapshots /\ job'.id = j /\ job'.phase = "error"
  BY <1>1, <1>2, <1>3, <1>4, ReachesJob
<1>6. Awaits(j, "none") /\ registered' = registered /\ used' = used
  BY DEF FailsAfter
<1>7. registered \subseteq used
  BY DEF JobShown
<1> QED
  BY <1>1, <1>5, <1>6, <1>7, EndShown DEF Ended

\* A pipeline that goes on to another hash.
LEMMA HashingGoesOn ==
    ASSUME TypeOK, JobShown, NEW j \in Jobs, pipeline[j] # "none",
           NEW stage \in Stages \ {"none"}, Awaits(j, stage),
           NEW phases \in Seq(Phases), phases # <<>>, phases[Len(phases)] \in Running,
           Reaches(phases), UNCHANGED <<controller, registered, used>>
    PROVE  JobShown'
<1>1. job \in Snapshots /\ job.id = j /\ job # None /\ controller = j /\ j \in used /\ j \notin registered
  BY OnePipeline DEF Busy
<1>2. job' \in Snapshots /\ job'.id = j /\ job'.phase \in Running
  BY <1>1, ReachesJob
<1>3. pipeline'[j] # "none" /\ \A other \in Jobs \ {j} : pipeline'[other] = "none"
  BY OnePipeline DEF Awaits, TypeOK
<1>4. job' # None
  BY <1>2, PackageAssumption DEF PackageAssumption
<1>5. Busy'
  BY <1>2, <1>4 DEF Busy
<1>6. job'.phase # "completed"
  BY <1>2 DEF Running
<1>7. registered' \subseteq used'
  BY DEF JobShown
<1> QED
  BY <1>1, <1>2, <1>3, <1>5, <1>6, <1>7 DEF JobShown

LEMMA PipelineShown ==
    ASSUME TypeOK, JobShown, NEW j \in Jobs, PipelineContinues(j)
    PROVE  JobShown'
<1>1. CASE PreviewNext(j)
  BY <1>1, HashingGoesOn, PhaseLists DEF PreviewNext, Stages, Running
<1>2. CASE HashFails(j)
  BY <1>2, FailureShown, PhaseLists DEF HashFails
<1>3. CASE ValidationFails(j)
  BY <1>3, FailureShown, PhaseLists DEF ValidationFails, Hashed
<1>4. CASE PreviewAppears(j)
  BY <1>4, HashingGoesOn, PhaseLists DEF PreviewAppears, Stages, Running
<1>5. CASE Completes(j)
  <2>1. pipeline[j] # "none"
    BY <1>5 DEF Completes, Hashed
  <2>2. job # None /\ job \in Snapshots /\ job.id = j /\ j \in used
    BY <2>1, OnePipeline DEF Busy
  <2>3. PICK phases \in {<<"validating", "generating_manifest", "seeding", "completed">>,
                         <<"seeding", "completed">>} : Reaches(phases)
    BY <1>5 DEF Completes
  <2>4. phases \in Seq(Phases) /\ phases # <<>> /\ phases[Len(phases)] = "completed"
    <3>1. CASE phases = <<"seeding", "completed">>
      BY <3>1, PhaseLists
    <3>2. CASE phases = <<"validating", "generating_manifest", "seeding", "completed">>
      BY <3>2, PhaseLists
    <3> QED
      BY <2>3, <3>1, <3>2
  <2>5. job' \in Snapshots /\ job'.id = j /\ job'.phase = "completed"
    BY <2>2, <2>3, <2>4, ReachesJob
  <2>6. Awaits(j, "none") /\ registered' = registered \cup {j} /\ used' = used
    BY <1>5 DEF Completes
  <2>7. registered' \subseteq used /\ j \in registered'
    BY <2>2, <2>6 DEF JobShown
  <2> QED
    BY <2>1, <2>5, <2>6, <2>7, EndShown DEF Ended
<1> QED
  BY <1>1, <1>2, <1>3, <1>4, <1>5 DEF PipelineContinues

LEMMA RequestShown ==
    ASSUME TypeOK, JobShown, NEW p \in Pages, Request(p)
    PROVE  JobShown'
<1>1. ASSUME UNCHANGED <<job, controller, pipeline, registered, used>> PROVE JobShown'
  BY <1>1 DEF JobShown, Busy
<1>2. CASE StartJob(p)
  <2>1. PICK j \in Jobs \ used :
           /\ job' = At(j, "hashing") /\ controller' = j /\ used' = used \cup {j}
           /\ ~Busy /\ registered' = registered /\ Awaits(j, "model")
    BY <1>2 DEF StartJob, NewJob
  <2>2. \A other \in Jobs : pipeline[other] = "none"
    BY <2>1, OnePipeline
  <2>3. pipeline'[j] = "model" /\ \A other \in Jobs \ {j} : pipeline'[other] = "none"
    BY <2>1, <2>2 DEF Awaits, TypeOK
  <2>4. job' \in Snapshots /\ job'.id = j /\ job'.phase = "hashing"
    BY <2>1 DEF At, Snapshots, Running
  <2>5. Busy'
    BY <2>4, PackageAssumption DEF Busy, PackageAssumption, Running
  <2>6. registered' = registered /\ registered \subseteq used
    BY <2>1 DEF JobShown
  <2> QED
    BY <2>1, <2>3, <2>4, <2>5, <2>6 DEF JobShown
<1>3. CASE StartFails(p)
  <2>1. PICK j \in Jobs \ used :
           /\ job' = At(j, "error") /\ used' = used \cup {j}
           /\ ~Busy /\ registered' = registered /\ pipeline' = pipeline
    BY <1>3 DEF StartFails, NewJob
  <2>2. \A other \in Jobs : pipeline'[other] = "none"
    BY <2>1, OnePipeline
  <2>3. job'.id = j /\ job'.phase = "error"
    BY <2>1 DEF At
  <2>4. ~Busy'
    BY <2>3 DEF Busy, Running
  <2>5. registered' \subseteq used' /\ j \notin registered'
    BY <2>1 DEF JobShown
  <2> QED
    BY <2>1, <2>2, <2>3, <2>4, <2>5 DEF JobShown
<1>4. CASE StartRefused(p) \/ GetActiveJob(p)
  BY <1>1, <1>4 DEF StartRefused, GetActiveJob
<1>5. ASSUME NEW id \in Jobs \cup {None}, CancelJob(id, p) PROVE JobShown'
  <2>1. CASE Cancellable(id)
    <3>1. Busy /\ job \in Snapshots /\ job.id \in Jobs
      BY <2>1 DEF Cancellable, Busy, TypeOK, Snapshots
    <3>2. pipeline[job.id] # "none" /\ controller = job.id /\ job.id # None
      BY <3>1, PackageAssumption DEF JobShown, PackageAssumption
    <3>3. job' \in Snapshots /\ job'.id = job.id /\ job'.phase = "error"
      BY <1>5, <2>1, <3>1 DEF CancelJob, Snapshots, Ended
    <3>4. Awaits(job.id, "none") /\ registered' = registered /\ used' = used
      BY <1>5, <2>1, <3>2 DEF CancelJob, Aborted, Awaits
    <3>5. registered \subseteq used /\ job.id \notin registered
      BY <3>1, <3>2, OnePipeline DEF JobShown
    <3> QED
      BY <3>1, <3>2, <3>3, <3>4, <3>5, EndShown DEF Ended
  <2>2. CASE ~Cancellable(id)
    BY <1>1, <1>5, <2>2 DEF CancelJob
  <2> QED
    BY <2>1, <2>2
<1>6. CASE ClearJob(p)
  <2>1. CASE job # None /\ ~Busy
    BY <1>6, <2>1 DEF ClearJob, JobShown, Busy
  <2>2. CASE ~(job # None /\ ~Busy)
    BY <1>1, <1>6, <2>2 DEF ClearJob
  <2> QED
    BY <2>1, <2>2
<1> QED
  BY <1>2, <1>3, <1>4, <1>5, <1>6 DEF Request

LEMMA ShownStep == ASSUME TypeOK, JobShown, [Next]_vars PROVE JobShown'
<1>1. ASSUME UNCHANGED <<job, controller, pipeline, registered, used>> PROVE JobShown'
  BY <1>1 DEF JobShown, Busy
<1>2. ASSUME NEW p \in Pages, Request(p) PROVE JobShown'
  BY <1>2, RequestShown
<1>3. ASSUME NEW j \in Jobs, HashProgresses(j) PROVE JobShown'
  BY <1>1, <1>3 DEF HashProgresses
<1>4. ASSUME NEW j \in Jobs, PipelineContinues(j) PROVE JobShown'
  BY <1>4, PipelineShown
<1>5. CASE Receive \/ UNCHANGED vars
  BY <1>1, <1>5 DEF Receive, vars
<1>6. CASE Quit
  BY <1>6 DEF Quit, JobShown, Busy
<1> QED
  BY <1>2, <1>3, <1>4, <1>5, <1>6 DEF Next

\* Whatever is cancelled, cleared and started again between two hashes, the only pipeline is the
\* shown job's, cancelling would abort it, and a job is shown as completed if and only if its
\* manifest was registered.
THEOREM JobShownTruthfully == Spec => []JobShown
<1>1. Init => JobShown
  BY DEF Init, JobShown, Busy
<1> QED
  BY <1>1, ShownStep, TypeCorrect, PTL DEF Spec

-----------------------------------------------------------------------------
\* A step that leaves the pipelines, the registrations and the ids leaves PackageSpec's state.
LEMMA StateStays ==
    ASSUME UNCHANGED <<pipeline, registered, used>>
    PROVE  UNCHANGED [j \in Jobs |-> StateOf(j)]
  BY DEF StateOf

LEMMA JobFails ==
    ASSUME TypeOK, JobShown, NEW j \in Jobs, pipeline[j] # "none", Awaits(j, "none"),
           UNCHANGED <<registered, used>>
    PROVE  Package!Fail(j)
<1>1. StateOf(j) = "running"
  BY DEF StateOf
<1>2. pipeline'[j] = "none" /\ \A other \in Jobs \ {j} : pipeline'[other] = pipeline[other]
  BY DEF Awaits, TypeOK
<1>3. StateOf(j)' = "failed"
  BY <1>2, OnePipeline DEF StateOf
<1>4. \A other \in Jobs \ {j} : StateOf(other)' = StateOf(other)
  BY <1>2 DEF StateOf
<1> QED
  BY <1>1, <1>3, <1>4 DEF Package!Fail, Package!Goes

LEMMA HashingStutters ==
    ASSUME TypeOK, NEW j \in Jobs, pipeline[j] # "none", NEW stage \in Stages \ {"none"},
           Awaits(j, stage), UNCHANGED <<registered, used>>
    PROVE  UNCHANGED [k \in Jobs |-> StateOf(k)]
<1>1. pipeline'[j] # "none" /\ \A other \in Jobs \ {j} : pipeline'[other] = pipeline[other]
  BY DEF Awaits, TypeOK
<1>2. \A k \in Jobs : StateOf(k)' = StateOf(k)
  BY <1>1 DEF StateOf
<1> QED
  BY <1>2

LEMMA RequestRefines ==
    ASSUME TypeOK, JobShown, NEW p \in Pages, Request(p)
    PROVE  [Package!Next]_([j \in Jobs |-> StateOf(j)])
<1>1. CASE StartJob(p)
  <2>1. PICK j \in Jobs \ used :
           used' = used \cup {j} /\ ~Busy /\ registered' = registered /\ Awaits(j, "model")
    BY <1>1 DEF StartJob, NewJob
  <2>2. \A other \in Jobs : pipeline[other] = "none"
    BY <2>1, OnePipeline
  <2>3. \A other \in Jobs : StateOf(other) # "running"
    BY <2>2 DEF StateOf
  <2>4. j \notin registered /\ registered' = registered
    BY <2>1 DEF JobShown
  <2>5. StateOf(j) = "unused"
    BY <2>2, <2>4 DEF StateOf
  <2>6. pipeline'[j] = "model" /\ \A other \in Jobs \ {j} : pipeline'[other] = pipeline[other]
    BY <2>1 DEF Awaits, TypeOK
  <2>7. StateOf(j)' = "running"
    BY <2>6 DEF StateOf
  <2>8. \A other \in Jobs \ {j} : StateOf(other)' = StateOf(other)
    BY <2>1, <2>4, <2>6 DEF StateOf
  <2>9. Package!Begin(j)
    BY <2>3, <2>5, <2>7, <2>8 DEF Package!Begin, Package!Idle, Package!Goes
  <2> QED
    BY <2>9 DEF Package!Next
<1>2. CASE StartFails(p)
  <2>1. PICK j \in Jobs \ used :
           used' = used \cup {j} /\ ~Busy /\ registered' = registered /\ pipeline' = pipeline
    BY <1>2 DEF StartFails, NewJob
  <2>2. \A other \in Jobs : pipeline[other] = "none"
    BY <2>1, OnePipeline
  <2>3. \A other \in Jobs : StateOf(other) # "running"
    BY <2>2 DEF StateOf
  <2>4. j \notin registered
    BY <2>1 DEF JobShown
  <2>5. StateOf(j) = "unused"
    BY <2>2, <2>4 DEF StateOf
  <2>6. StateOf(j)' = "failed"
    BY <2>1, <2>2, <2>4 DEF StateOf
  <2>7. \A other \in Jobs \ {j} : StateOf(other)' = StateOf(other)
    BY <2>1 DEF StateOf
  <2>8. Package!Falter(j)
    BY <2>3, <2>5, <2>6, <2>7 DEF Package!Falter, Package!Idle, Package!Goes
  <2> QED
    BY <2>8 DEF Package!Next
<1>3. CASE StartRefused(p) \/ GetActiveJob(p) \/ ClearJob(p)
  BY <1>3, StateStays DEF StartRefused, GetActiveJob, ClearJob
<1>4. ASSUME NEW id \in Jobs \cup {None}, CancelJob(id, p)
      PROVE  [Package!Next]_([j \in Jobs |-> StateOf(j)])
  <2>1. CASE Cancellable(id)
    <3>1. Busy /\ job.id \in Jobs
      BY <2>1 DEF Cancellable, Busy, TypeOK, Snapshots
    <3>2. pipeline[job.id] # "none" /\ controller = job.id /\ job.id # None
      BY <3>1, PackageAssumption DEF JobShown, PackageAssumption
    <3>3. Awaits(job.id, "none") /\ registered' = registered /\ used' = used
      BY <1>4, <2>1, <3>2 DEF CancelJob, Aborted, Awaits
    <3>4. Package!Fail(job.id)
      BY <3>1, <3>2, <3>3, JobFails
    <3> QED
      BY <3>1, <3>4 DEF Package!Next
  <2>2. CASE ~Cancellable(id)
    BY <1>4, <2>2, StateStays DEF CancelJob
  <2> QED
    BY <2>1, <2>2
<1> QED
  BY <1>1, <1>2, <1>3, <1>4 DEF Request

LEMMA PipelineRefines ==
    ASSUME TypeOK, JobShown, NEW j \in Jobs, PipelineContinues(j)
    PROVE  [Package!Next]_([k \in Jobs |-> StateOf(k)])
<1>1. CASE PreviewNext(j)
  BY <1>1, HashingStutters DEF PreviewNext, Stages
<1>2. CASE PreviewAppears(j)
  BY <1>2, HashingStutters DEF PreviewAppears, Stages
<1>3. CASE HashFails(j) \/ ValidationFails(j)
  <2>1. pipeline[j] # "none" /\ Awaits(j, "none") /\ UNCHANGED <<registered, used>>
    BY <1>3 DEF HashFails, ValidationFails, Hashed, FailsAfter
  <2>2. Package!Fail(j)
    BY <2>1, JobFails
  <2> QED
    BY <2>2 DEF Package!Next
<1>4. CASE Completes(j)
  <2>1. pipeline[j] # "none" /\ Awaits(j, "none") /\ registered' = registered \cup {j} /\ used' = used
    BY <1>4 DEF Completes, Hashed
  <2>2. StateOf(j) = "running"
    BY <2>1 DEF StateOf
  <2>3. pipeline'[j] = "none" /\ \A other \in Jobs \ {j} : pipeline'[other] = pipeline[other]
    BY <2>1 DEF Awaits, TypeOK
  <2>4. StateOf(j)' = "seeded"
    BY <2>1, <2>3 DEF StateOf
  <2>5. \A other \in Jobs \ {j} : StateOf(other)' = StateOf(other)
    BY <2>1, <2>3 DEF StateOf
  <2>6. Package!Seed(j)
    BY <2>2, <2>4, <2>5 DEF Package!Seed, Package!Goes
  <2> QED
    BY <2>6 DEF Package!Next
<1> QED
  BY <1>1, <1>2, <1>3, <1>4 DEF PipelineContinues

\* Quitting fails the job under way, if there is one.
LEMMA QuitRefines ==
    ASSUME TypeOK, JobShown, Quit
    PROVE  [Package!Next]_([k \in Jobs |-> StateOf(k)])
<1>1. CASE \A j \in Jobs : pipeline[j] = "none"
  <2>1. \A j \in Jobs : StateOf(j)' = StateOf(j)
    BY <1>1 DEF Quit, StateOf
  <2> QED
    BY <2>1
<1>2. ASSUME NEW j \in Jobs, pipeline[j] # "none"
      PROVE  [Package!Next]_([k \in Jobs |-> StateOf(k)])
  <2>1. \A other \in Jobs \ {j} : pipeline[other] = "none"
    BY <1>2, OnePipeline
  <2>2. pipeline' = [pipeline EXCEPT ![j] = "none"]
    BY <2>1 DEF Quit, TypeOK
  <2>3. Package!Fail(j)
    BY <1>2, <2>2, JobFails DEF Quit, Awaits
  <2> QED
    BY <2>3 DEF Package!Next
<1> QED
  BY <1>1, <1>2

LEMMA StepRefines ==
    ASSUME TypeOK, JobShown, [Next]_vars
    PROVE  [Package!Next]_([j \in Jobs |-> StateOf(j)])
<1>1. ASSUME NEW p \in Pages, Request(p) PROVE [Package!Next]_([j \in Jobs |-> StateOf(j)])
  BY <1>1, RequestRefines
<1>2. ASSUME NEW j \in Jobs, HashProgresses(j) PROVE [Package!Next]_([k \in Jobs |-> StateOf(k)])
  BY <1>2, StateStays DEF HashProgresses
<1>3. ASSUME NEW j \in Jobs, PipelineContinues(j) PROVE [Package!Next]_([k \in Jobs |-> StateOf(k)])
  BY <1>3, PipelineRefines
<1>4. CASE Receive \/ UNCHANGED vars
  BY <1>4, StateStays DEF Receive, vars
<1>5. CASE Quit
  BY <1>5, QuitRefines
<1> QED
  BY <1>1, <1>2, <1>3, <1>4, <1>5 DEF Next

\* The manager implements PackageSpec: jobs run one at a time, each ends once, and only the end
\* of its own pipeline seeds a job's model.
THEOREM OneAtATime == Spec => OneJobAtATime
<1>1. Init => Package!Init
  BY DEF Init, Package!Init, StateOf
<1> QED
  BY <1>1, StepRefines, TypeCorrect, JobShownTruthfully, PTL
     DEF Spec, OneJobAtATime, Package!Spec

-----------------------------------------------------------------------------
(***************************************************************************)
(* The page.                                                               *)
(***************************************************************************)

\* Among the messages a good one comes after every bad one.
Ends(messages, good, bad) ==
    \E i \in DOMAIN messages :
        /\ messages[i] \in good
        /\ \A k \in DOMAIN messages : k > i => messages[k] \notin bad

Never(messages, bad) == \A i \in DOMAIN messages : messages[i] \notin bad

\* What is shown is as it is due once the messages have arrived.
Settles(messages, good, bad, shown, due) ==
    Ends(messages, good, bad) \/ (Never(messages, bad) /\ shown = due)

LEMMA Appended ==
    ASSUME NEW old \in Seq(Messages), NEW message \in Messages, NEW good, NEW bad
    PROVE  /\ message \in good => Ends(Append(old, message), good, bad)
           /\ message \notin bad =>
                 /\ Ends(old, good, bad) => Ends(Append(old, message), good, bad)
                 /\ Never(old, bad) => Never(Append(old, message), bad)
<1> DEFINE now == Append(old, message)
<1>1. /\ Len(old) \in Nat /\ DOMAIN old = 1..Len(old)
      /\ DOMAIN now = 1..(Len(old) + 1)
      /\ now[Len(old) + 1] = message
      /\ \A i \in 1..Len(old) : now[i] = old[i]
  OBVIOUS
<1> HIDE DEF now
<1>2. message \in good => Ends(now, good, bad)
  BY <1>1 DEF Ends
<1>3. ASSUME message \notin bad, Ends(old, good, bad)
      PROVE  Ends(now, good, bad)
  <2>1. PICK i \in 1..Len(old) : /\ old[i] \in good
                                 /\ \A k \in 1..Len(old) : k > i => old[k] \notin bad
    BY <1>1, <1>3 DEF Ends
  <2>2. \A k \in 1..(Len(old) + 1) : k > i => now[k] \notin bad
    BY <1>1, <1>3, <2>1
  <2> QED
    BY <1>1, <2>1, <2>2 DEF Ends
<1>4. ASSUME message \notin bad, Never(old, bad)
      PROVE  Never(now, bad)
  BY <1>1, <1>4 DEF Never
<1> QED
  BY <1>2, <1>3, <1>4 DEF now

LEMMA Taken ==
    ASSUME NEW old \in Seq(Messages), old # <<>>, NEW good, NEW bad
    PROVE  /\ Ends(old, good, bad) => \/ Ends(Tail(old), good, bad)
                                      \/ Head(old) \in good /\ Never(Tail(old), bad)
           /\ Never(old, bad) => Head(old) \notin bad /\ Never(Tail(old), bad)
<1> DEFINE rest == Tail(old)
<1>1. /\ Len(old) \in Nat \ {0} /\ DOMAIN old = 1..Len(old)
      /\ DOMAIN rest = 1..(Len(old) - 1)
      /\ Head(old) = old[1]
      /\ \A i \in 1..(Len(old) - 1) : rest[i] = old[i + 1]
  OBVIOUS
<1> HIDE DEF rest
<1>2. ASSUME Ends(old, good, bad)
      PROVE  Ends(rest, good, bad) \/ (Head(old) \in good /\ Never(rest, bad))
  <2>1. PICK i \in 1..Len(old) : /\ old[i] \in good
                                 /\ \A k \in 1..Len(old) : k > i => old[k] \notin bad
    BY <1>1, <1>2 DEF Ends
  <2>2. \A k \in 1..(Len(old) - 1) : k + 1 \in 1..Len(old) /\ (k + 1 > i => rest[k] \notin bad)
    BY <1>1, <2>1
  <2>3. CASE i = 1
    BY <1>1, <2>1, <2>2, <2>3 DEF Never
  <2>4. CASE i # 1
    <3>1. i - 1 \in 1..(Len(old) - 1) /\ rest[i - 1] = old[i]
      BY <1>1, <2>4
    <3>2. \A k \in 1..(Len(old) - 1) : k > i - 1 => rest[k] \notin bad
      BY <1>1, <2>2
    <3> QED
      BY <1>1, <2>1, <3>1, <3>2 DEF Ends
  <2> QED
    BY <2>3, <2>4
<1>3. ASSUME Never(old, bad)
      PROVE  Head(old) \notin bad /\ Never(rest, bad)
  <2>1. \A k \in 1..(Len(old) - 1) : k + 1 \in 1..Len(old)
    BY <1>1
  <2> QED
    BY <1>1, <1>3, <2>1 DEF Never
<1> QED
  BY <1>2, <1>3 DEF rest

-----------------------------------------------------------------------------
IdOf(snapshot) == IF snapshot = None THEN None ELSE snapshot.id

\* Broadcasts, those of some phases, and what else tells the page p a phase.
Broadcasts == {m \in Messages : m.kind = "progress"}

BroadcastsOf(phases) == {m \in Broadcasts : m.job # None /\ m.job.phase \in phases}

ToldTo(p, phases) ==
    BroadcastsOf(phases) \cup {m \in Messages : /\ m.kind = "active" /\ m.page = p
                                                /\ m.job # None /\ m.job.phase \in phases}

AnswersTo(p, kinds) == {m \in Messages : m.kind \in kinds /\ m.page = p}

\* What makes the page p set its active job, and to which.
SetsActive(p) == Broadcasts \cup AnswersTo(p, {"started", "cleared"})
                     \cup {m \in Messages : m.kind = "active" /\ m.page = p /\ m.job # None}

Knows(p, id) == {m \in SetsActive(p) : id = IF m.kind = "cleared" THEN None ELSE IdOf(m.job)}

\* What makes its error go, and come.
ErrorGoes(p) == BroadcastsOf(Phases \ {"error"}) \cup AnswersTo(p, {"cleared"})

ErrorComes(p) == ToldTo(p, {"error"}) \cup AnswersTo(p, {"refused"})

\* The page has sent a request of the kind, which is not served yet.
Pending(kind) == \E i \in DOMAIN requests : requests[i].kind = kind /\ requests[i].page = page

\* When the messages under way have arrived, the page knows the job, has its
\* manifest or its error, and shows no progress bar.
ActiveSettles ==
    LET known == Knows(page, IdOf(job))
    IN Settles(channel, known, SetsActive(page) \ known, IdOf(active), IdOf(job))

CreatedSettles ==
    Settles(channel, ToldTo(page, {"completed"}), AnswersTo(page, {"cleared"}), created, TRUE)

ErrorSettles == Settles(channel, ErrorComes(page), ErrorGoes(page), error, TRUE)

BarGoes(p) == ToldTo(p, Ended) \cup AnswersTo(p, {"refused", "cancelled"})

BarSettles == Settles(channel, BarGoes(page), ToldTo(page, Running), packaging, FALSE)

\* What they do not settle a request that is under way does.
PageSettles ==
    page # 0 /\ ~Busy =>
        /\ ActiveSettles \/ (job # None /\ Pending("active"))
        /\ job # None /\ job.phase = "completed" => CreatedSettles \/ Pending("active")
        /\ job # None /\ job.phase = "error"
               => ErrorSettles \/ Pending("active") \/ Pending("start")
        /\ BarSettles \/ Pending("start")

\* The last broadcast under way is the job as it is, and the end of a job that
\* is over is told after it was told to run: for the page that is mounted next.
LastIsJob == Settles(channel, {Progress(job)}, Broadcasts \ {Progress(job)}, TRUE, TRUE)

EndTold == ~Busy => Settles(channel, BroadcastsOf(Ended), BroadcastsOf(Running), TRUE, TRUE)

Asks == [kind : {"active", "start", "cancel", "clear"}, page : Pages, id : Jobs \cup {None}]

\* Requests and answers are of mounts there have been.
OfMounts ==
    /\ page \in {0, mounts}
    /\ \A i \in DOMAIN requests : requests[i].page <= mounts
    /\ \A i \in DOMAIN channel : channel[i].kind # "progress" => channel[i].page <= mounts

PageInv == /\ PageTypeOK /\ JobShown
           /\ requests \in Seq(Asks)
           /\ OfMounts /\ LastIsJob /\ EndTold /\ PageSettles

-----------------------------------------------------------------------------
\* The last thing told is the job as it is, but for what the answers to its own
\* start and cancelling say.
JobAnnounced ==
    /\ job # None
    /\ \E i \in DOMAIN channel :
          /\ channel[i] = Progress(job)
          /\ \A k \in DOMAIN channel : k > i =>
                \/ channel[k].kind = "cancelled"
                \/ channel[k].kind = "started" /\ channel[k].job # None /\ channel[k].job.id = job.id

\* That settles everything, whatever the page was and had asked for.
LEMMA Announced == TypeOK /\ JobAnnounced => LastIsJob /\ EndTold /\ PageSettles
<1> SUFFICES ASSUME TypeOK, JobAnnounced PROVE LastIsJob /\ EndTold /\ PageSettles
  OBVIOUS
<1>1. PICK i \in DOMAIN channel :
          /\ channel[i] = Progress(job)
          /\ \A k \in DOMAIN channel : k > i =>
                \/ channel[k].kind = "cancelled"
                \/ channel[k].kind = "started" /\ channel[k].job # None /\ channel[k].job.id = job.id
  BY DEF JobAnnounced
<1>2. job \in Snapshots /\ job # None /\ channel \in Seq(Messages)
  BY DEF TypeOK, JobAnnounced
<1>3. /\ Progress(job) \in Messages /\ Progress(job).kind = "progress"
      /\ Progress(job).job = job
  BY <1>2, BroadcastIsMessage DEF Progress
<1>4. \A k \in DOMAIN channel : channel[k] \in Messages
  BY <1>2
<1>5. job.phase \in Running \cup Ended
  BY <1>2 DEF Snapshots
<1>6. LastIsJob
  <2>1. \A k \in DOMAIN channel : k > i => channel[k] \notin Broadcasts
    BY <1>1 DEF Broadcasts
  <2> QED
    BY <1>1, <2>1 DEF LastIsJob, Settles, Ends
<1>7. EndTold
  <2> SUFFICES ASSUME ~Busy PROVE Ends(channel, BroadcastsOf(Ended), BroadcastsOf(Running))
    BY DEF EndTold, Settles
  <2>1. channel[i] \in BroadcastsOf(Ended)
    BY <1>1, <1>2, <1>3, <1>5 DEF BroadcastsOf, Broadcasts, Busy
  <2>2. \A k \in DOMAIN channel : k > i => channel[k] \notin BroadcastsOf(Running)
    BY <1>1 DEF BroadcastsOf, Broadcasts
  <2> QED
    BY <2>1, <2>2 DEF Ends
<1>8. ActiveSettles
  <2> DEFINE known == Knows(page, IdOf(job))
  <2>1. channel[i] \in known
    BY <1>1, <1>3 DEF Knows, SetsActive, Broadcasts
  <2>2. ASSUME NEW k \in DOMAIN channel, k > i, channel[k] \in SetsActive(page)
        PROVE  channel[k] \in known
    <3>1. channel[k].kind = "started" /\ channel[k].job # None /\ channel[k].job.id = job.id
      BY <1>1, <2>2 DEF SetsActive, Broadcasts, AnswersTo
    <3> QED
      BY <1>2, <2>2, <3>1 DEF Knows, IdOf
  <2> HIDE DEF known
  <2>3. Ends(channel, known, SetsActive(page) \ known)
    BY <2>1, <2>2 DEF Ends
  <2> QED
    BY <2>3 DEF ActiveSettles, Settles, known
<1>9. job.phase = "completed" => CreatedSettles
  <2> SUFFICES ASSUME job.phase = "completed" PROVE CreatedSettles
    OBVIOUS
  <2>1. channel[i] \in ToldTo(page, {"completed"})
    BY <1>1, <1>2, <1>3 DEF ToldTo, BroadcastsOf, Broadcasts
  <2>2. \A k \in DOMAIN channel : k > i => channel[k] \notin AnswersTo(page, {"cleared"})
    BY <1>1 DEF AnswersTo
  <2> QED
    BY <2>1, <2>2 DEF Ends, Settles, CreatedSettles
<1>10. job.phase = "error" => ErrorSettles
  <2> SUFFICES ASSUME job.phase = "error" PROVE ErrorSettles
    OBVIOUS
  <2>1. channel[i] \in ErrorComes(page)
    BY <1>1, <1>2, <1>3 DEF ErrorComes, ToldTo, BroadcastsOf, Broadcasts
  <2>2. \A k \in DOMAIN channel : k > i => channel[k] \notin ErrorGoes(page)
    BY <1>1 DEF ErrorGoes, BroadcastsOf, Broadcasts, AnswersTo
  <2> QED
    BY <2>1, <2>2 DEF Ends, Settles, ErrorSettles
<1>11. ~Busy => BarSettles
  <2> SUFFICES ASSUME ~Busy PROVE BarSettles
    OBVIOUS
  <2>1. channel[i] \in BarGoes(page)
    BY <1>1, <1>2, <1>3, <1>5 DEF BarGoes, ToldTo, BroadcastsOf, Broadcasts, Busy
  <2>2. \A k \in DOMAIN channel : k > i => channel[k] \notin ToldTo(page, Running)
    BY <1>1 DEF ToldTo, BroadcastsOf, Broadcasts
  <2> QED
    BY <2>1, <2>2 DEF Ends, Settles, BarSettles
<1> QED
  BY <1>6, <1>7, <1>8, <1>9, <1>10, <1>11 DEF PageSettles

-----------------------------------------------------------------------------
\* Both processes' types, and those of the requests between them.
PageTyped == PageTypeOK /\ requests \in Seq(Asks)

LEMMA HeadAsks ==
    ASSUME PageTyped, requests # <<>>
    PROVE  /\ Head(requests) \in Asks /\ Tail(requests) \in Seq(Asks)
           /\ Head(requests).page \in Pages /\ Head(requests).id \in Jobs \cup {None}
<1>1. requests \in Seq(Asks)
  BY DEF PageTyped
<1>2. Head(requests) \in Asks /\ Tail(requests) \in Seq(Asks)
  BY <1>1
<1> QED
  BY <1>2 DEF Asks

LEMMA HeadMessage ==
    ASSUME TypeOK, channel # <<>>
    PROVE  Head(channel) \in Messages /\ Tail(channel) \in Seq(Messages)
<1>1. channel \in Seq(Messages)
  BY DEF TypeOK
<1> QED
  BY <1>1

\* What the page does, the main process does as the client's part leaves it.
LEMMA PageStep == PageTyped /\ [PageNext]_allVars => [Next]_vars
<1> SUFFICES ASSUME PageTyped, [PageNext]_allVars PROVE [Next]_vars
  OBVIOUS
<1>1. CASE Mount \/ Unmount \/ Submit \/ ClickCancel \/ ClickAnother
  BY <1>1 DEF Mount, Unmount, Submit, ClickCancel, ClickAnother
<1>2. CASE Serve
  <2>1. Request(Head(requests).page) /\ Head(requests).page \in Pages
    BY <1>2, HeadAsks DEF Serve, Request
  <2> QED
    BY <2>1 DEF Next
<1>3. CASE Deliver
  BY <1>3 DEF Deliver, Next
<1>4. CASE Quits
  BY <1>4 DEF Quits, Next
<1>5. ASSUME NEW j \in Jobs, Works(j) \/ Streams(j) PROVE [Next]_vars
  BY <1>5 DEF Works, Streams, Next
<1>6. CASE UNCHANGED allVars
  BY <1>6 DEF allVars
<1> QED
  BY <1>1, <1>2, <1>3, <1>4, <1>5, <1>6 DEF PageNext

\* What the page shows has its type, whatever arrives.
LEMMA DeliverType ==
    ASSUME PageTyped, Deliver
    PROVE  /\ active' \in Snapshots \cup {None}
           /\ packaging' \in BOOLEAN /\ created' \in BOOLEAN /\ error' \in BOOLEAN
<1> DEFINE message == Head(channel)
<1>1. message \in Messages
  BY HeadMessage DEF PageTyped, PageTypeOK, Deliver, Receive, Received
<1>2. /\ active \in Snapshots \cup {None}
      /\ packaging \in BOOLEAN /\ created \in BOOLEAN /\ error \in BOOLEAN
  BY DEF PageTyped, PageTypeOK
<1>3. CASE UNCHANGED view
  BY <1>2, <1>3 DEF view
<1>4. CASE message.kind = "progress" /\ ShowsProgress(message.job)
  <2>1. message.job \in Snapshots \cup {None}
    BY <1>1, <1>4 DEF Messages
  <2>2. active' \in Snapshots \cup {None}
    BY <1>4, <2>1 DEF ShowsProgress
  <2>3. CASE message.job = None
    BY <1>2, <1>4, <2>2, <2>3 DEF ShowsProgress
  <2>4. CASE message.job # None
    <3>1. /\ packaging' = (message.job.phase \in Running)
          /\ created' = (created \/ message.job.phase = "completed")
          /\ error' = (message.job.phase = "error")
      BY <1>4, <2>4 DEF ShowsProgress
    <3>2. /\ (message.job.phase \in Running) \in BOOLEAN
          /\ (created \/ message.job.phase = "completed") \in BOOLEAN
          /\ (message.job.phase = "error") \in BOOLEAN
      OBVIOUS
    <3>3. packaging' \in BOOLEAN /\ created' \in BOOLEAN /\ error' \in BOOLEAN
      BY <3>1, <3>2, Zenon
    <3> QED
      BY <2>2, <3>3
  <2> QED
    BY <2>3, <2>4
<1>5. CASE message.kind = "active" /\ ShowsActive(message.job)
  <2>1. message.job \in Snapshots \cup {None}
    BY <1>1, <1>5 DEF Messages
  <2>2. CASE message.job = None
    BY <1>2, <1>5, <2>2 DEF ShowsActive, view
  <2>3. CASE message.job # None
    <3>1. /\ active' = message.job
          /\ packaging' = (message.job.phase \in Running)
          /\ created' = (created \/ message.job.phase = "completed")
          /\ error' = (error \/ message.job.phase = "error")
      BY <1>5, <2>3 DEF ShowsActive
    <3>2. /\ (message.job.phase \in Running) \in BOOLEAN
          /\ (created \/ message.job.phase = "completed") \in BOOLEAN
          /\ (error \/ message.job.phase = "error") \in BOOLEAN
      OBVIOUS
    <3>3. packaging' \in BOOLEAN /\ created' \in BOOLEAN /\ error' \in BOOLEAN
      BY <3>1, <3>2, Zenon
    <3> QED
      BY <2>1, <3>1, <3>3
  <2> QED
    BY <2>2, <2>3
<1>6. CASE message.kind = "started" /\ ShowsStarted(message.job)
  <2>1. message.job \in Snapshots
    BY <1>1, <1>6 DEF Messages
  <2> QED
    BY <1>2, <1>6, <2>1 DEF ShowsStarted
<1>7. CASE ShowsRefusal \/ ShowsCancelled \/ ShowsCleared
  BY <1>2, <1>7 DEF ShowsRefusal, ShowsCancelled, ShowsCleared
<1> QED
  BY <1>3, <1>4, <1>5, <1>6, <1>7 DEF Deliver

LEMMA PageTypeStep == PageTyped /\ [PageNext]_allVars => PageTyped'
<1> SUFFICES ASSUME PageTyped, [PageNext]_allVars PROVE PageTyped'
  OBVIOUS
<1>1. TypeOK'
  BY PageStep, TypeStep DEF PageTyped, PageTypeOK
<1>2. /\ page \in Pages \cup {0} /\ mounts \in Nat
      /\ active \in Snapshots \cup {None}
      /\ packaging \in BOOLEAN /\ created \in BOOLEAN /\ error \in BOOLEAN
      /\ requests \in Seq(Asks)
  BY DEF PageTyped, PageTypeOK
<1> SUFFICES /\ page' \in Pages \cup {0} /\ mounts' \in Nat
             /\ active' \in Snapshots \cup {None}
             /\ packaging' \in BOOLEAN /\ created' \in BOOLEAN /\ error' \in BOOLEAN
             /\ requests' \in Seq(Asks)
  BY <1>1 DEF PageTyped, PageTypeOK
<1>3. ASSUME NEW kind \in {"active", "start", "cancel", "clear"}, NEW p \in Pages,
             NEW id \in Jobs \cup {None}
      PROVE  Append(requests, [kind |-> kind, page |-> p, id |-> id]) \in Seq(Asks)
  <2>1. [kind |-> kind, page |-> p, id |-> id] \in Asks
    BY DEF Asks
  <2> QED
    BY <1>2, <2>1
<1>4. CASE Mount
  <2>1. page' \in Pages /\ mounts' \in Nat /\ page' = mounts'
    BY <1>2, <1>4 DEF Mount
  <2>2. requests' \in Seq(Asks)
    BY <1>3, <1>4, <2>1 DEF Mount
  <2> QED
    BY <1>4, <2>1, <2>2 DEF Mount, BlankView
<1>5. CASE Unmount
  BY <1>2, <1>5 DEF Unmount, BlankView
<1>6. CASE Submit
  BY <1>2, <1>3, <1>6 DEF Submit, Send
<1>7. CASE ClickCancel
  <2>1. active # None => active.id \in Jobs
    BY <1>2 DEF Snapshots
  <2> QED
    BY <1>2, <1>3, <1>7, <2>1 DEF ClickCancel, view
<1>8. CASE ClickAnother
  BY <1>2, <1>3, <1>8 DEF ClickAnother, Send, view
<1>9. CASE Serve
  BY <1>2, <1>9, HeadAsks DEF Serve, view
<1>10. CASE Deliver
  BY <1>2, <1>10, DeliverType DEF Deliver
<1>11. CASE Quits
  <2>1. requests' \in Seq(Asks) /\ page' = 0 /\ mounts' = mounts
    BY <1>11 DEF Quits
  <2> QED
    BY <1>2, <1>11, <2>1 DEF Quits, BlankView
<1>12. CASE UNCHANGED pageVars
  BY <1>2, <1>12 DEF pageVars, view
<1> QED
  BY <1>4, <1>5, <1>6, <1>7, <1>8, <1>9, <1>10, <1>11, <1>12 DEF PageNext, Works, Streams, allVars

LEMMA PageTypedAtFirst == PageInit => PageTyped
<1> SUFFICES ASSUME PageInit PROVE PageTyped
  OBVIOUS
<1>1. TypeOK
  BY DEF PageInit, Init, TypeOK, Stages
<1>2. requests \in Seq(Asks) /\ page = 0 /\ mounts = 0
  BY DEF PageInit
<1>3. /\ active \in Snapshots \cup {None}
      /\ packaging \in BOOLEAN /\ created \in BOOLEAN /\ error \in BOOLEAN
  BY DEF PageInit
<1> QED
  BY <1>1, <1>2, <1>3 DEF PageTyped, PageTypeOK

LEMMA PageTypedAlways == PageSpec => []PageTyped
  BY PageTypedAtFirst, PageTypeStep, PTL DEF PageSpec

\* Both processes' state keeps its shape, whatever the page asks for and is told.
THEOREM PageTypeCorrect == PageSpec => []PageTypeOK
  BY PageTypedAlways, PTL DEF PageTyped

\* With its page, the main process does only what it may do on its own, so that
\* what is proved about it holds of the two.
THEOREM JobPartAlone == PageSpec => Spec
<1>1. PageInit => Init
  BY DEF PageInit
<1> QED
  BY <1>1, PageStep, PageTypedAlways, PTL DEF PageSpec, Spec

\* So the job shown is the job there is,
THEOREM PageJobShown == PageSpec => []JobShown
  BY JobPartAlone, JobShownTruthfully, PTL

\* and jobs run one at a time.
THEOREM PageOneAtATime == PageSpec => OneJobAtATime
  BY JobPartAlone, OneAtATime, PTL

-----------------------------------------------------------------------------
\* A good message settles it, and one that is not bad leaves it settled.
LEMMA SettlesSent ==
    ASSUME NEW old \in Seq(Messages), NEW message \in Messages, NEW good, NEW bad,
           NEW shown, NEW due
    PROVE  LET now == Append(old, message) IN
           /\ message \in good => Settles(now, good, bad, shown, due)
           /\ message \notin bad /\ Settles(old, good, bad, shown, due)
                  => Settles(now, good, bad, shown, due)
  BY Appended DEF Settles

\* It stays settled if what the message brings is as it is due.
LEMMA SettlesTaken ==
    ASSUME NEW old \in Seq(Messages), old # <<>>, NEW good, NEW bad,
           NEW shown, NEW now, NEW due, Settles(old, good, bad, shown, due),
           Head(old) \in good => now = due,
           Head(old) \notin bad /\ shown = due => now = due
    PROVE  Settles(Tail(old), good, bad, now, due)
  BY Taken DEF Settles

\* A request stays pending until it is served, and is when it is sent.
LEMMA PendingServed ==
    ASSUME requests \in Seq(Asks), requests # <<>>, requests' = Tail(requests), page' = page,
           NEW kind, Pending(kind)
    PROVE  Pending(kind)' \/ (Head(requests).kind = kind /\ Head(requests).page = page)
<1>1. PICK i \in DOMAIN requests : requests[i].kind = kind /\ requests[i].page = page
  BY DEF Pending
<1>2. Len(requests) \in Nat \ {0} /\ DOMAIN requests = 1..Len(requests) /\ Head(requests) = requests[1]
  OBVIOUS
<1>3. /\ DOMAIN Tail(requests) = 1..(Len(requests) - 1)
      /\ \A k \in 1..(Len(requests) - 1) : Tail(requests)[k] = requests[k + 1]
  OBVIOUS
<1>4. CASE i = 1
  BY <1>1, <1>2, <1>4
<1>5. CASE i # 1
  <2>1. i - 1 \in 1..(Len(requests) - 1) /\ Tail(requests)[i - 1] = requests[i]
    BY <1>2, <1>3, <1>5
  <2>2. i - 1 \in DOMAIN requests' /\ requests'[i - 1] = requests[i]
    BY <1>3, <2>1
  <2> QED
    BY <1>1, <2>2 DEF Pending
<1> QED
  BY <1>4, <1>5

LEMMA PendingSent ==
    ASSUME requests \in Seq(Asks), NEW request, requests' = Append(requests, request)
    PROVE  /\ \A kind : page' = page /\ Pending(kind) => Pending(kind)'
           /\ \A kind : request.kind = kind /\ request.page = page' => Pending(kind)'
<1>1. /\ Len(requests) \in Nat /\ DOMAIN requests = 1..Len(requests)
      /\ DOMAIN requests' = 1..(Len(requests) + 1)
      /\ requests'[Len(requests) + 1] = request
      /\ \A i \in 1..Len(requests) : requests'[i] = requests[i]
  OBVIOUS
<1>2. ASSUME NEW kind, page' = page, Pending(kind) PROVE Pending(kind)'
  BY <1>1, <1>2 DEF Pending
<1>3. ASSUME NEW kind, request.kind = kind, request.page = page' PROVE Pending(kind)'
  BY <1>1, <1>3 DEF Pending
<1> QED
  BY <1>2, <1>3

-----------------------------------------------------------------------------
\* A request that is served, and what is told meanwhile, leave no stranger on the way.
LEMMA MountsKept ==
    ASSUME OfMounts, mounts \in Nat, requests \in Seq(Asks), channel \in Seq(Messages),
           NEW news \in Seq(Messages), channel' = channel \o news,
           \A i \in DOMAIN news : news[i].kind # "progress" => news[i].page <= mounts,
           requests' = requests \/ (requests # <<>> /\ requests' = Tail(requests)),
           page' = page, mounts' = mounts
    PROVE  OfMounts'
<1>1. \A i \in DOMAIN requests' : requests'[i].page <= mounts
  <2>1. CASE requests' = requests
    BY <2>1 DEF OfMounts
  <2>2. CASE requests # <<>> /\ requests' = Tail(requests)
    <3>1. /\ DOMAIN requests' = 1..(Len(requests) - 1)
          /\ \A i \in 1..(Len(requests) - 1) :
                i + 1 \in DOMAIN requests /\ requests'[i] = requests[i + 1]
      BY <2>2
    <3> QED
      BY <3>1 DEF OfMounts
  <2> QED
    BY <2>1, <2>2
<1>2. ASSUME NEW i \in DOMAIN channel', channel'[i].kind # "progress"
      PROVE  channel'[i].page <= mounts
  <2>1. /\ Len(channel) \in Nat /\ Len(news) \in Nat
        /\ DOMAIN channel = 1..Len(channel) /\ DOMAIN news = 1..Len(news)
        /\ DOMAIN channel' = 1..(Len(channel) + Len(news))
    OBVIOUS
  <2>2. CASE i <= Len(channel)
    <3>1. i \in DOMAIN channel /\ channel'[i] = channel[i]
      BY <2>1, <2>2
    <3> QED
      BY <1>2, <3>1 DEF OfMounts
  <2>3. CASE i > Len(channel)
    <3>1. i - Len(channel) \in DOMAIN news /\ channel'[i] = news[i - Len(channel)]
      BY <2>1, <2>3
    <3> QED
      BY <1>2, <3>1
  <2> QED
    BY <2>1, <2>2, <2>3
<1> QED
  BY <1>1, <1>2 DEF OfMounts

\* The job is announced where the last told of it is as it is.
LEMMA ToldLast ==
    ASSUME channel \in Seq(Messages), NEW news \in Seq(Messages), channel' = channel \o news,
           job' # None, NEW i \in DOMAIN news, news[i] = Progress(job'),
           \A k \in DOMAIN news : k > i =>
              \/ news[k].kind = "cancelled"
              \/ news[k].kind = "started" /\ news[k].job # None /\ news[k].job.id = job'.id
    PROVE  JobAnnounced'
<1>1. /\ Len(channel) \in Nat /\ Len(news) \in Nat
      /\ DOMAIN channel = 1..Len(channel) /\ DOMAIN news = 1..Len(news)
      /\ DOMAIN channel' = 1..(Len(channel) + Len(news))
      /\ \A k \in 1..Len(news) : channel'[Len(channel) + k] = news[k]
  OBVIOUS
<1>2. Len(channel) + i \in DOMAIN channel' /\ channel'[Len(channel) + i] = Progress(job')
  BY <1>1
<1>3. ASSUME NEW k \in DOMAIN channel', k > Len(channel) + i
      PROVE  \/ channel'[k].kind = "cancelled"
             \/ channel'[k].kind = "started" /\ channel'[k].job # None /\ channel'[k].job.id = job'.id
  <2>1. k - Len(channel) \in DOMAIN news /\ k - Len(channel) > i /\ channel'[k] = news[k - Len(channel)]
    BY <1>1, <1>3
  <2> QED
    BY <2>1
<1> QED
  BY <1>2, <1>3 DEF JobAnnounced

\* As it is after the phases of a pipeline,
LEMMA ReachesAnnounces ==
    ASSUME TypeOK, OfMounts, mounts \in Nat, requests \in Seq(Asks), job # None,
           NEW phases \in Seq(Phases), phases # <<>>, Reaches(phases), UNCHANGED pageVars
    PROVE  JobAnnounced' /\ OfMounts'
<1> DEFINE news == [i \in DOMAIN phases |-> Progress([job EXCEPT !.phase = phases[i]])]
<1>1. /\ job' = [job EXCEPT !.phase = phases[Len(phases)]]
      /\ channel' = channel \o news
  BY DEF Reaches
<1>2. job \in Snapshots /\ channel \in Seq(Messages)
  BY DEF TypeOK
<1>3. \A i \in DOMAIN phases : Progress([job EXCEPT !.phase = phases[i]]) \in Messages
  <2>1. \A i \in DOMAIN phases : [job EXCEPT !.phase = phases[i]] \in Snapshots
    BY <1>2 DEF Snapshots, Phases
  <2> QED
    BY <2>1, BroadcastIsMessage
<1>4. DOMAIN phases = 1..Len(phases) /\ Len(phases) \in Nat /\ Len(phases) \in DOMAIN phases
  OBVIOUS
<1>5. news \in Seq(Messages) /\ DOMAIN news = 1..Len(phases)
  BY <1>3, <1>4
<1>6. news[Len(phases)] = Progress(job')
  BY <1>1, <1>4
<1>7. \A i \in DOMAIN news : news[i].kind = "progress"
  BY DEF Progress
<1> HIDE DEF news
<1>8. job' # None
  BY <1>2, ReachesJob, PackageAssumption DEF PackageAssumption
<1>9. JobAnnounced'
  <2>1. Len(phases) \in DOMAIN news /\ \A k \in DOMAIN news : ~(k > Len(phases))
    BY <1>4, <1>5
  <2> QED
    BY <1>1, <1>2, <1>5, <1>6, <1>8, <2>1, ToldLast
<1>10. OfMounts'
  BY <1>1, <1>2, <1>5, <1>7, MountsKept DEF pageVars
<1> QED
  BY <1>9, <1>10

\* after every step of a pipeline,
LEMMA WorkAnnounces ==
    ASSUME TypeOK, JobShown, OfMounts, mounts \in Nat, requests \in Seq(Asks),
           NEW j \in Jobs, Works(j) \/ Streams(j)
    PROVE  JobAnnounced' /\ OfMounts'
<1>1. pipeline[j] # "none" /\ UNCHANGED pageVars
  BY DEF Works, Streams, PipelineContinues, HashProgresses, PreviewNext, HashFails, ValidationFails,
         PreviewAppears, Completes, Hashed
<1>2. job # None /\ job.id = j /\ job \in Snapshots
  BY <1>1, OnePipeline DEF Busy
<1>3. CASE Streams(j)
  <2>1. Progress(job) \in Messages /\ Progress(job).kind = "progress"
    BY <1>2, BroadcastIsMessage DEF Progress
  <2> DEFINE news == <<Progress(job)>>
  <2>2. news \in Seq(Messages) /\ channel \in Seq(Messages)
    BY <2>1 DEF TypeOK
  <2>3. channel' = channel \o news /\ job' = job
    BY <1>3, <2>2 DEF Streams, HashProgresses
  <2>4. 1 \in DOMAIN news /\ (\A k \in DOMAIN news : k = 1 /\ ~(k > 1)) /\ news[1] = Progress(job)
    OBVIOUS
  <2> HIDE DEF news
  <2>5. JobAnnounced'
    BY <1>2, <2>2, <2>3, <2>4, ToldLast
  <2>6. OfMounts'
    BY <1>1, <2>1, <2>2, <2>3, <2>4, MountsKept DEF pageVars
  <2> QED
    BY <2>5, <2>6
<1>4. CASE Works(j)
  <2>1. ASSUME NEW phases \in Seq(Phases), FailsAfter(j, phases)
        PROVE  JobAnnounced' /\ OfMounts'
    <3>1. Append(phases, "error") \in Seq(Phases) /\ Append(phases, "error") # <<>>
      BY DEF Phases, Ended
    <3> QED
      BY <1>1, <1>2, <2>1, <3>1, ReachesAnnounces DEF FailsAfter
  <2>2. CASE HashFails(j) \/ ValidationFails(j)
    BY <2>1, <2>2, PhaseLists DEF HashFails, ValidationFails
  <2>3. CASE PreviewNext(j)
    BY <1>1, <1>2, <2>3, PhaseLists, ReachesAnnounces DEF PreviewNext
  <2>4. CASE PreviewAppears(j)
    BY <1>1, <1>2, <2>4, PhaseLists, ReachesAnnounces DEF PreviewAppears
  <2>5. CASE Completes(j)
    BY <1>1, <1>2, <2>5, PhaseLists, ReachesAnnounces DEF Completes
  <2> QED
    BY <1>4, <2>2, <2>3, <2>4, <2>5 DEF Works, PipelineContinues
<1> QED
  BY <1>3, <1>4

\* when a job starts,
LEMMA StartAnnounces ==
    ASSUME TypeOK, NEW p \in Pages, StartJob(p) \/ StartFails(p)
    PROVE  /\ JobAnnounced'
           /\ \E news \in Seq(Messages) :
                 /\ channel' = channel \o news
                 /\ \A i \in DOMAIN news : news[i].kind # "progress" => news[i].page = p
<1>1. channel \in Seq(Messages)
  BY DEF TypeOK
<1>2. PICK j \in Jobs :
         \/ NewJob(j, "hashing", <<Progress(At(j, "hashing"))>>, p)
         \/ NewJob(j, "error", <<Progress(At(j, "hashing")), Progress(At(j, "error"))>>, p)
  BY DEF StartJob, StartFails
<1> DEFINE hashing == Progress(At(j, "hashing"))
           failed == Progress(At(j, "error"))
           answer == [kind |-> "started", page |-> p, job |-> At(j, "hashing")]
<1>3. At(j, "hashing") \in Snapshots /\ At(j, "error") \in Snapshots
  BY DEF At, Snapshots, Running, Ended
<1>4. At(j, "hashing") # None /\ At(j, "error") # None /\ At(j, "hashing").id = j /\ At(j, "error").id = j
  BY <1>3, PackageAssumption DEF PackageAssumption, At
<1>5. /\ hashing \in Messages /\ hashing.kind = "progress"
      /\ failed \in Messages /\ failed.kind = "progress"
      /\ answer \in Messages /\ answer.kind = "started" /\ answer.page = p
      /\ answer.job = At(j, "hashing")
  BY <1>3, BroadcastIsMessage DEF Progress, Messages
<1>6. CASE NewJob(j, "hashing", <<Progress(At(j, "hashing"))>>, p)
  <2>1. job' = At(j, "hashing") /\ channel' = channel \o <<hashing>> \o <<answer>>
    BY <1>6 DEF NewJob
  <2> DEFINE news == <<hashing, answer>>
  <2> HIDE DEF hashing, failed, answer
  <2>2. /\ channel' = channel \o news /\ news \in Seq(Messages) /\ DOMAIN news = 1..2
        /\ news[1] = hashing /\ news[2] = answer
    BY <1>1, <1>5, <2>1
  <2>3. news[1] = Progress(job')
    BY <2>1, <2>2 DEF hashing
  <2> HIDE DEF news
  <2>4. 1 \in DOMAIN news /\ \A k \in DOMAIN news : k > 1 =>
           news[k].kind = "started" /\ news[k].job # None /\ news[k].job.id = job'.id
    BY <1>4, <1>5, <2>1, <2>2
  <2>5. JobAnnounced'
    BY <1>1, <1>4, <2>1, <2>2, <2>3, <2>4, ToldLast
  <2>6. \A i \in DOMAIN news : news[i].kind # "progress" => news[i].page = p
    BY <1>5, <2>2
  <2> QED
    BY <2>2, <2>5, <2>6
<1>7. CASE NewJob(j, "error", <<Progress(At(j, "hashing")), Progress(At(j, "error"))>>, p)
  <2>1. job' = At(j, "error") /\ channel' = channel \o <<hashing, failed>> \o <<answer>>
    BY <1>7 DEF NewJob
  <2> DEFINE news == <<hashing, failed, answer>>
  <2> HIDE DEF hashing, failed, answer
  <2>2. /\ channel' = channel \o news /\ news \in Seq(Messages) /\ DOMAIN news = 1..3
        /\ news[1] = hashing /\ news[2] = failed /\ news[3] = answer
    BY <1>1, <1>5, <2>1
  <2>3. news[2] = Progress(job')
    BY <2>1, <2>2 DEF failed
  <2> HIDE DEF news
  <2>4. 2 \in DOMAIN news /\ \A k \in DOMAIN news : k > 2 =>
           news[k].kind = "started" /\ news[k].job # None /\ news[k].job.id = job'.id
    BY <1>4, <1>5, <2>1, <2>2
  <2>5. JobAnnounced'
    BY <1>1, <1>4, <2>1, <2>2, <2>3, <2>4, ToldLast
  <2>6. \A i \in DOMAIN news : news[i].kind # "progress" => news[i].page = p
    BY <1>5, <2>2
  <2> QED
    BY <2>2, <2>5, <2>6
<1> QED
  BY <1>2, <1>6, <1>7

\* and when it is cancelled.
LEMMA CancelAnnounces ==
    ASSUME TypeOK, NEW p \in Pages, NEW id \in Jobs \cup {None}, CancelJob(id, p), Cancellable(id)
    PROVE  /\ JobAnnounced'
           /\ \E news \in Seq(Messages) :
                 /\ channel' = channel \o news
                 /\ \A i \in DOMAIN news : news[i].kind # "progress" => news[i].page = p
<1>1. channel \in Seq(Messages) /\ job \in Snapshots
  BY DEF TypeOK, Cancellable, Busy
<1>2. /\ job' = [job EXCEPT !.phase = "error"]
      /\ channel' = channel \o <<Progress(job'), [kind |-> "cancelled", page |-> p]>>
  BY DEF CancelJob
<1>3. PICK now \in Snapshots : now = job'
  BY <1>1, <1>2 DEF Snapshots, Ended
<1> DEFINE told == Progress(now)
           answer == [kind |-> "cancelled", page |-> p]
           news == <<told, answer>>
<1>4. /\ told \in Messages /\ told.kind = "progress" /\ now # None
      /\ answer \in Messages /\ answer.kind = "cancelled" /\ answer.page = p
  BY <1>3, BroadcastIsMessage, PackageAssumption DEF Progress, Messages, PackageAssumption
<1>5. channel' = channel \o news /\ told = Progress(job')
  BY <1>2, <1>3
<1> HIDE DEF told, answer
<1>6. news \in Seq(Messages) /\ DOMAIN news = 1..2 /\ news[1] = told /\ news[2] = answer
  BY <1>4
<1> HIDE DEF news
<1>7. 1 \in DOMAIN news /\ (\A k \in DOMAIN news : k > 1 => news[k].kind = "cancelled")
      /\ news[1] = Progress(job')
  BY <1>4, <1>5, <1>6
<1>8. JobAnnounced'
  BY <1>1, <1>3, <1>4, <1>5, <1>6, <1>7, ToldLast
<1>9. \A i \in DOMAIN news : news[i].kind # "progress" => news[i].page = p
  BY <1>4, <1>6
<1> QED
  BY <1>5, <1>6, <1>8, <1>9

-----------------------------------------------------------------------------
\* An answer to the request served, from which the asking page learns what it had asked for.
AnswersHead(message) ==
    /\ message.page = Head(requests).page
    /\ \/ Head(requests).kind = "active" /\ message.kind = "active" /\ message.job = job
       \/ Head(requests).kind = "start" /\ message.kind = "refused"
       \/ Head(requests).kind = "cancel" /\ message.kind = "cancelled"
       \/ Head(requests).kind = "clear" /\ message.kind = "cleared" /\ (job = None \/ Busy)

LEMMA AnswerSettles ==
    ASSUME PageInv, requests # <<>>, requests' = Tail(requests),
           NEW message \in Messages, AnswersHead(message), channel' = Append(channel, message),
           UNCHANGED <<job, page, mounts, view>>
    PROVE  OfMounts' /\ LastIsJob' /\ EndTold' /\ PageSettles'
<1>1. /\ channel \in Seq(Messages) /\ requests \in Seq(Asks) /\ mounts \in Nat
      /\ job \in Snapshots \cup {None} /\ message.kind # "progress"
      /\ OfMounts /\ LastIsJob /\ EndTold /\ PageSettles
  BY DEF PageInv, PageTypeOK, TypeOK, AnswersHead
<1>2. Len(requests) \in Nat \ {0} /\ Head(requests) = requests[1] /\ 1 \in DOMAIN requests
  BY <1>1
<1>3. OfMounts'
  <2>1. message.page <= mounts
    BY <1>1, <1>2 DEF OfMounts, AnswersHead
  <2> DEFINE news == <<message>>
  <2>2. news \in Seq(Messages) /\ DOMAIN news = 1..1 /\ news[1] = message /\ channel' = channel \o news
    BY <1>1
  <2> HIDE DEF news
  <2>3. \A i \in DOMAIN news : news[i].kind # "progress" => news[i].page <= mounts
    BY <2>1, <2>2
  <2> QED
    BY <1>1, <2>2, <2>3, MountsKept
<1>4. message \notin Broadcasts
  BY <1>1 DEF Broadcasts
<1>5. LastIsJob'
  BY <1>1, <1>4, SettlesSent DEF LastIsJob
<1>6. Busy' <=> Busy
  BY DEF Busy
<1>7. EndTold'
  BY <1>1, <1>4, <1>6, SettlesSent DEF EndTold, BroadcastsOf
<1>8. ASSUME page # 0, ~Busy
      PROVE  /\ ActiveSettles' \/ (job' # None /\ Pending("active")')
             /\ job' # None /\ job'.phase = "completed" => CreatedSettles' \/ Pending("active")'
             /\ job' # None /\ job'.phase = "error"
                    => ErrorSettles' \/ Pending("active")' \/ Pending("start")'
             /\ BarSettles' \/ Pending("start")'
  <2>1. \A kind : Pending(kind) =>
           Pending(kind)' \/ (Head(requests).kind = kind /\ message.page = page)
    BY <1>1, PendingServed DEF AnswersHead
  <2>2. active' = active /\ packaging' = packaging /\ created' = created /\ error' = error
    BY DEF view
  <2>3. ActiveSettles' \/ (job' # None /\ Pending("active")')
    <3> DEFINE known == Knows(page, IdOf(job))
    <3>1. message \in SetsActive(page) => message \in known
      BY <1>1, <1>8 DEF AnswersHead, SetsActive, Knows, Broadcasts, AnswersTo, IdOf
    <3>2. job # None /\ Head(requests).kind = "active" /\ message.page = page => message \in known
      BY <1>1, <3>1 DEF AnswersHead, SetsActive
    <3> HIDE DEF known
    <3>3. /\ message \in known => ActiveSettles'
          /\ ActiveSettles /\ message \notin SetsActive(page) \ known => ActiveSettles'
      BY <1>1, <2>2, SettlesSent DEF ActiveSettles, known
    <3>4. ActiveSettles \/ (job # None /\ Pending("active"))
      BY <1>1, <1>8 DEF PageSettles
    <3> QED
      BY <2>1, <3>1, <3>2, <3>3, <3>4
  <2>4. ASSUME job # None, job.phase = "completed" PROVE CreatedSettles' \/ Pending("active")'
    <3>1. message \notin AnswersTo(page, {"cleared"})
      BY <1>8, <2>4 DEF AnswersHead, AnswersTo
    <3>2. Head(requests).kind = "active" /\ message.page = page
             => message \in ToldTo(page, {"completed"})
      BY <2>4 DEF AnswersHead, ToldTo
    <3>3. /\ message \in ToldTo(page, {"completed"}) => CreatedSettles'
          /\ CreatedSettles => CreatedSettles'
      BY <1>1, <2>2, <3>1, SettlesSent DEF CreatedSettles
    <3>4. CreatedSettles \/ Pending("active")
      BY <1>1, <1>8, <2>4 DEF PageSettles
    <3> QED
      BY <2>1, <3>2, <3>3, <3>4
  <2>5. ASSUME job # None, job.phase = "error"
        PROVE  ErrorSettles' \/ Pending("active")' \/ Pending("start")'
    <3>1. message \notin ErrorGoes(page)
      BY <1>1, <1>8, <2>5 DEF AnswersHead, AnswersTo, ErrorGoes, BroadcastsOf, Broadcasts
    <3>2. /\ Head(requests).kind = "active" /\ message.page = page => message \in ErrorComes(page)
          /\ Head(requests).kind = "start" /\ message.page = page => message \in ErrorComes(page)
      BY <2>5 DEF AnswersHead, ErrorComes, ToldTo, AnswersTo
    <3>3. /\ message \in ErrorComes(page) => ErrorSettles'
          /\ ErrorSettles => ErrorSettles'
      BY <1>1, <2>2, <3>1, SettlesSent DEF ErrorSettles
    <3>4. ErrorSettles \/ Pending("active") \/ Pending("start")
      BY <1>1, <1>8, <2>5 DEF PageSettles
    <3> QED
      BY <2>1, <3>2, <3>3, <3>4
  <2>6. BarSettles' \/ Pending("start")'
    <3>1. message \notin ToldTo(page, Running)
      BY <1>1, <1>8 DEF AnswersHead, ToldTo, BroadcastsOf, Broadcasts, Busy
    <3>2. Head(requests).kind = "start" /\ message.page = page => message \in BarGoes(page)
      BY DEF AnswersHead, BarGoes, AnswersTo
    <3>3. /\ message \in BarGoes(page) => BarSettles'
          /\ BarSettles => BarSettles'
      BY <1>1, <2>2, <3>1, SettlesSent DEF BarSettles
    <3>4. BarSettles \/ Pending("start")
      BY <1>1, <1>8 DEF PageSettles
    <3> QED
      BY <2>1, <3>2, <3>3, <3>4
  <2> QED
    BY <2>3, <2>4, <2>5, <2>6
<1>9. PageSettles'
  BY <1>6, <1>8 DEF PageSettles
<1> QED
  BY <1>3, <1>5, <1>7, <1>9

\* Clearing tells every page that there is no job.
LEMMA ClearSettles ==
    ASSUME PageInv, requests # <<>>, requests' = Tail(requests), Head(requests).kind = "clear",
           job # None, ~Busy, ClearJob(Head(requests).page), UNCHANGED <<page, mounts, view>>
    PROVE  OfMounts' /\ LastIsJob' /\ EndTold' /\ PageSettles'
<1>1. /\ channel \in Seq(Messages) /\ requests \in Seq(Asks) /\ mounts \in Nat
      /\ OfMounts /\ EndTold /\ PageSettles
  BY DEF PageInv, PageTypeOK, TypeOK
<1> DEFINE answer == [kind |-> "cleared", page |-> Head(requests).page]
           told == Progress(None)
           between == Append(channel, told)
<1>2. /\ answer.page \in Pages /\ answer.page <= mounts
      /\ answer \in Messages /\ answer.kind = "cleared"
  <2>1. Head(requests) \in Asks /\ Head(requests) = requests[1] /\ 1 \in DOMAIN requests
    BY <1>1
  <2> QED
    BY <2>1 DEF OfMounts, PageInv, Asks, Messages
<1>3. told \in Messages /\ told.kind = "progress" /\ told.job = None
  BY BroadcastIsMessage DEF Progress
<1>4. job' = None /\ channel' = channel \o <<told, answer>>
  BY DEF ClearJob
<1>5. told = Progress(job')
  BY <1>4
<1> HIDE DEF answer, told
<1>6. between \in Seq(Messages) /\ channel' = Append(between, answer)
  BY <1>1, <1>2, <1>3, <1>4
<1>7. ~Busy'
  BY <1>4 DEF Busy
<1>8. OfMounts'
  <2> DEFINE news == <<told, answer>>
  <2>1. news \in Seq(Messages) /\ DOMAIN news = 1..2 /\ news[1] = told /\ news[2] = answer
    BY <1>2, <1>3
  <2> HIDE DEF news
  <2>2. \A i \in DOMAIN news : news[i].kind # "progress" => news[i].page <= mounts
    BY <1>2, <1>3, <2>1
  <2>3. channel' = channel \o news
    BY <1>4 DEF news
  <2> QED
    BY <1>1, <2>1, <2>2, <2>3, MountsKept
<1> HIDE DEF between
<1>9. ASSUME NEW good, NEW bad, told \notin bad, answer \notin bad
      PROVE  /\ \A shown, due : Settles(channel, good, bad, shown, due)
                   => Settles(channel', good, bad, shown, due)
             /\ told \in good => \A shown, due : Settles(channel', good, bad, shown, due)
  BY <1>1, <1>2, <1>3, <1>6, <1>9, SettlesSent DEF between
<1>10. LastIsJob'
  <2>1. told \notin Broadcasts \ {told} /\ answer \notin Broadcasts \ {told} /\ told \in {told}
    BY <1>2 DEF Broadcasts
  <2> QED
    BY <1>5, <1>9, <2>1 DEF LastIsJob
<1>11. EndTold'
  <2>1. told \notin BroadcastsOf(Running) /\ answer \notin BroadcastsOf(Running)
    BY <1>2, <1>3 DEF BroadcastsOf, Broadcasts
  <2> QED
    BY <1>1, <1>9, <2>1 DEF EndTold
<1>12. page # 0 => ActiveSettles'
  <2> DEFINE known == Knows(page, None)
  <2>1. told \in known
    BY <1>3 DEF Knows, SetsActive, Broadcasts, IdOf
  <2>2. answer \notin SetsActive(page) \ known
    BY <1>2 DEF Knows, SetsActive, Broadcasts, AnswersTo
  <2> HIDE DEF known
  <2>3. \A shown, due : Settles(channel', known, SetsActive(page) \ known, shown, due)
    BY <1>9, <2>1, <2>2
  <2>4. IdOf(job') = None /\ page' = page
    BY <1>4 DEF IdOf
  <2> QED
    BY <2>3, <2>4 DEF ActiveSettles, known
<1>13. page # 0 => BarSettles' \/ Pending("start")'
  <2>1. told \notin ToldTo(page, Running) /\ answer \notin ToldTo(page, Running)
    BY <1>2, <1>3 DEF ToldTo, BroadcastsOf, Broadcasts
  <2>2. Pending("start") => Pending("start")'
    BY <1>1, PendingServed
  <2>3. packaging' = packaging /\ page' = page
    BY DEF view
  <2>4. BarSettles => BarSettles'
    BY <1>9, <2>1, <2>3 DEF BarSettles
  <2> QED
    BY <1>1, <2>2, <2>4 DEF PageSettles
<1> QED
  BY <1>4, <1>8, <1>10, <1>11, <1>12, <1>13 DEF PageSettles

\* The main process serves a request.
LEMMA ServeSettles ==
    ASSUME PageInv, TypeOK', Serve
    PROVE  OfMounts' /\ LastIsJob' /\ EndTold' /\ PageSettles'
<1> DEFINE asked == Head(requests)
<1>1. /\ TypeOK /\ channel \in Seq(Messages) /\ requests \in Seq(Asks) /\ mounts \in Nat
      /\ OfMounts /\ job \in Snapshots \cup {None}
  BY DEF PageInv, PageTypeOK, TypeOK
<1>2. requests # <<>> /\ requests' = Tail(requests) /\ UNCHANGED <<page, mounts, view>>
  BY DEF Serve
<1>3. asked \in Asks /\ asked = requests[1] /\ 1 \in DOMAIN requests
  BY <1>1, <1>2
<1>4. asked.page \in Pages /\ asked.id \in Jobs \cup {None} /\ asked.page <= mounts
  BY <1>1, <1>3 DEF Asks, OfMounts
<1> HIDE DEF asked
<1>5. ASSUME JobAnnounced',
             \E news \in Seq(Messages) :
                /\ channel' = channel \o news
                /\ \A i \in DOMAIN news : news[i].kind # "progress" => news[i].page = asked.page
      PROVE  OfMounts' /\ LastIsJob' /\ EndTold' /\ PageSettles'
  <2>1. (LastIsJob /\ EndTold /\ PageSettles)'
    <3>1. (TypeOK /\ JobAnnounced => LastIsJob /\ EndTold /\ PageSettles)'
      BY Announced, PTL
    <3> QED
      BY <1>5, <3>1
  <2>2. OfMounts'
    BY <1>1, <1>2, <1>4, <1>5, MountsKept
  <2> QED
    BY <2>1, <2>2
<1>6. ASSUME NEW message \in Messages, AnswersHead(message), channel' = Append(channel, message),
             job' = job
      PROVE  OfMounts' /\ LastIsJob' /\ EndTold' /\ PageSettles'
  BY <1>2, <1>6, AnswerSettles
<1>7. CASE asked.kind = "active" /\ GetActiveJob(asked.page)
  <2>1. [kind |-> "active", page |-> asked.page, job |-> job] \in Messages
    BY <1>1, <1>4 DEF Messages
  <2> QED
    BY <1>6, <1>7, <2>1 DEF GetActiveJob, AnswersHead, asked
<1>8. CASE asked.kind = "start" /\ (StartJob(asked.page) \/ StartFails(asked.page))
  BY <1>1, <1>4, <1>5, <1>8, StartAnnounces
<1>9. CASE asked.kind = "start" /\ StartRefused(asked.page)
  <2>1. [kind |-> "refused", page |-> asked.page] \in Messages
    BY <1>4 DEF Messages
  <2> QED
    BY <1>6, <1>9, <2>1 DEF StartRefused, Answer, AnswersHead, asked
<1>10. CASE asked.kind = "cancel" /\ CancelJob(asked.id, asked.page)
  <2>1. CASE Cancellable(asked.id)
    BY <1>1, <1>4, <1>5, <1>10, <2>1, CancelAnnounces
  <2>2. CASE ~Cancellable(asked.id)
    <3>1. [kind |-> "cancelled", page |-> asked.page] \in Messages
      BY <1>4 DEF Messages
    <3> QED
      BY <1>6, <1>10, <2>2, <3>1 DEF CancelJob, Answer, AnswersHead, asked
  <2> QED
    BY <2>1, <2>2
<1>11. CASE asked.kind = "clear" /\ ClearJob(asked.page)
  <2>1. CASE job # None /\ ~Busy
    BY <1>2, <1>11, <2>1, ClearSettles DEF asked
  <2>2. CASE ~(job # None /\ ~Busy)
    <3>1. [kind |-> "cleared", page |-> asked.page] \in Messages
      BY <1>4 DEF Messages
    <3> QED
      BY <1>6, <1>11, <2>2, <3>1 DEF ClearJob, Answer, AnswersHead, asked
  <2> QED
    BY <2>1, <2>2
<1> QED
  BY <1>7, <1>8, <1>9, <1>10, <1>11 DEF Serve, asked

-----------------------------------------------------------------------------
\* A page that is mounted afresh is told by what is under way or by the answer it asks for.
LEMMA MountSettles ==
    ASSUME PageInv, Mount
    PROVE  OfMounts' /\ LastIsJob' /\ EndTold' /\ PageSettles'
<1>1. /\ channel \in Seq(Messages) /\ requests \in Seq(Asks) /\ mounts \in Nat
      /\ OfMounts /\ LastIsJob /\ EndTold
  BY DEF PageInv, PageTypeOK, TypeOK
<1> DEFINE request == [kind |-> "active", page |-> page', id |-> None]
<1>2. /\ page' = mounts + 1 /\ mounts' = mounts + 1
      /\ requests' = Append(requests, request)
      /\ active' = None /\ packaging' = FALSE
      /\ job' = job /\ channel' = channel
  BY DEF Mount, BlankView, vars
<1>3. Pending("active")'
  BY <1>1, <1>2, PendingSent
<1>4. Busy' <=> Busy
  BY <1>2 DEF Busy
<1>5. LastIsJob' /\ EndTold'
  BY <1>1, <1>2, <1>4 DEF LastIsJob, EndTold
<1>6. OfMounts'
  <2>1. \A i \in DOMAIN requests' : requests'[i].page <= mounts + 1
    <3>1. /\ DOMAIN requests' = 1..(Len(requests) + 1) /\ DOMAIN requests = 1..Len(requests)
          /\ Len(requests) \in Nat /\ requests'[Len(requests) + 1] = request
          /\ \A i \in 1..Len(requests) : requests'[i] = requests[i] /\ requests[i] \in Asks
      BY <1>1, <1>2
    <3>2. \A i \in 1..Len(requests) : requests[i].page <= mounts /\ requests[i].page \in Nat
      BY <1>1, <3>1, PageAssumption DEF OfMounts, Asks, PageAssumption
    <3>3. request.page = mounts + 1
      BY <1>2
    <3> QED
      BY <1>1, <3>1, <3>2, <3>3
  <2>2. \A i \in DOMAIN channel : channel[i].kind # "progress"
           => channel[i].page <= mounts /\ channel[i].page \in Nat
    <3>1. \A i \in DOMAIN channel : channel[i] \in Messages
      BY <1>1
    <3> QED
      BY <1>1, <3>1, PageAssumption DEF OfMounts, Messages, PageAssumption
  <2>3. \A i \in DOMAIN channel' : channel'[i].kind # "progress" => channel'[i].page <= mounts'
    BY <1>1, <1>2, <2>2
  <2> QED
    BY <1>2, <2>1, <2>3 DEF OfMounts
<1>7. PICK p \in Nat : p = page' /\ p = mounts + 1
  BY <1>1, <1>2
<1>8. \A i \in DOMAIN channel : channel[i] \in Messages /\
         (channel[i].kind # "progress" => channel[i].page # p)
  <2>1. \A i \in DOMAIN channel : channel[i] \in Messages
    BY <1>1
  <2>2. \A i \in DOMAIN channel : channel[i].kind # "progress" => channel[i].page \in Nat
    BY <2>1, PageAssumption DEF Messages, PageAssumption
  <2> QED
    BY <1>1, <1>7, <2>1, <2>2 DEF OfMounts
<1>9. job = None => ActiveSettles'
  <2> SUFFICES ASSUME job = None PROVE ActiveSettles'
    OBVIOUS
  <2> DEFINE known == Knows(p, None)
  <2>1. Settles(channel, {Progress(None)}, Broadcasts \ {Progress(None)}, TRUE, TRUE)
    BY <1>1 DEF LastIsJob
  <2>2. \A i \in DOMAIN channel :
           /\ channel[i] \in {Progress(None)} => channel[i] \in known
           /\ channel[i] \in SetsActive(p) \ known => channel[i] \in Broadcasts \ {Progress(None)}
    <3>1. Progress(None) \in known
      BY BroadcastIsMessage DEF Progress, Knows, SetsActive, Broadcasts, IdOf
    <3>2. \A i \in DOMAIN channel : channel[i] \in SetsActive(p) => channel[i] \in Broadcasts
      BY <1>8 DEF SetsActive, AnswersTo, Broadcasts
    <3> QED
      BY <3>1, <3>2
  <2> HIDE DEF known
  <2>3. Settles(channel, known, SetsActive(p) \ known, None, None)
    BY <2>1, <2>2 DEF Settles, Ends, Never
  <2>4. IdOf(job') = None /\ IdOf(active') = None
    BY <1>2 DEF IdOf
  <2> QED
    BY <1>2, <1>7, <2>3, <2>4 DEF ActiveSettles, known
<1>10. ~Busy => BarSettles'
  <2> SUFFICES ASSUME ~Busy PROVE BarSettles'
    OBVIOUS
  <2>1. Settles(channel, BroadcastsOf(Ended), BroadcastsOf(Running), TRUE, TRUE)
    BY <1>1 DEF EndTold
  <2>2. \A i \in DOMAIN channel :
           /\ channel[i] \in BroadcastsOf(Ended) => channel[i] \in BarGoes(p)
           /\ channel[i] \in ToldTo(p, Running) => channel[i] \in BroadcastsOf(Running)
    BY <1>8 DEF BarGoes, ToldTo
  <2>3. Settles(channel, BarGoes(p), ToldTo(p, Running), FALSE, FALSE)
    BY <2>1, <2>2 DEF Settles, Ends, Never
  <2> QED
    BY <1>2, <1>7, <2>3 DEF BarSettles
<1>11. PageSettles'
  BY <1>2, <1>3, <1>4, <1>9, <1>10 DEF PageSettles
<1> QED
  BY <1>5, <1>6, <1>11

\* What the page does itself leaves what is under way, or asks for more.
LEMMA ClickSettles ==
    ASSUME PageInv, Submit \/ ClickCancel \/ ClickAnother
    PROVE  OfMounts' /\ LastIsJob' /\ EndTold' /\ PageSettles'
<1>1. /\ requests \in Seq(Asks) /\ mounts \in Nat
      /\ OfMounts /\ LastIsJob /\ EndTold /\ PageSettles
  BY DEF PageInv, PageTypeOK
<1>2. /\ page # 0 /\ page' = page /\ mounts' = mounts
      /\ job' = job /\ channel' = channel /\ active' = active /\ created' = created
  BY DEF Submit, ClickCancel, ClickAnother, vars, view
<1>3. PICK request : requests' = Append(requests, request) /\ request.page = page
  <2>1. CASE Submit
    BY <2>1 DEF Submit, Send
  <2>2. CASE ClickCancel
    BY <2>2 DEF ClickCancel
  <2>3. CASE ClickAnother
    BY <2>3 DEF ClickAnother, Send
  <2> QED
    BY <2>1, <2>2, <2>3
<1>4. Busy' <=> Busy
  BY <1>2 DEF Busy
<1>5. LastIsJob' /\ EndTold'
  BY <1>1, <1>2, <1>4 DEF LastIsJob, EndTold
<1>6. OfMounts'
  <2>1. /\ DOMAIN requests' = 1..(Len(requests) + 1) /\ DOMAIN requests = 1..Len(requests)
        /\ Len(requests) \in Nat /\ requests'[Len(requests) + 1] = request
        /\ \A i \in 1..Len(requests) : requests'[i] = requests[i]
    BY <1>1, <1>3
  <2>2. request.page <= mounts
    BY <1>1, <1>2, <1>3 DEF OfMounts
  <2>3. \A i \in DOMAIN requests' : requests'[i].page <= mounts
    BY <1>1, <2>1, <2>2 DEF OfMounts
  <2> QED
    BY <1>1, <1>2, <2>3 DEF OfMounts
<1>7. \A kind : Pending(kind) => Pending(kind)'
  BY <1>1, <1>2, <1>3, PendingSent
<1>8. ActiveSettles' <=> ActiveSettles
  BY <1>2 DEF ActiveSettles
<1>9. CreatedSettles' <=> CreatedSettles
  BY <1>2 DEF CreatedSettles
<1>10. CASE Submit
  <2>1. Pending("start")'
    <3>1. requests' = Append(requests, [kind |-> "start", page |-> page, id |-> None])
      BY <1>10 DEF Submit, Send
    <3> QED
      BY <1>1, <1>2, <3>1, PendingSent
  <2> QED
    BY <1>1, <1>2, <1>4, <1>5, <1>6, <1>7, <1>8, <1>9, <2>1 DEF PageSettles
<1>11. CASE ClickCancel \/ ClickAnother
  <2>1. error' = error /\ packaging' = packaging
    BY <1>11 DEF ClickCancel, ClickAnother, view
  <2>2. (ErrorSettles' <=> ErrorSettles) /\ (BarSettles' <=> BarSettles)
    BY <1>2, <2>1 DEF ErrorSettles, BarSettles
  <2> QED
    BY <1>1, <1>2, <1>4, <1>5, <1>6, <1>7, <1>8, <1>9, <2>2 DEF PageSettles
<1> QED
  BY <1>10, <1>11

-----------------------------------------------------------------------------
\* What a message does to each part of what the page shows.
LEMMA MessageShows ==
    ASSUME PageTyped, page # 0, Deliver
    PROVE  LET message == Head(channel) IN
           /\ message \in SetsActive(page)
                  => IdOf(active') = IF message.kind = "cleared" THEN None ELSE IdOf(message.job)
           /\ message \notin SetsActive(page) => active' = active
           /\ message \in ToldTo(page, {"completed"}) => created' = TRUE
           /\ message \notin AnswersTo(page, {"cleared"}) /\ created = TRUE => created' = TRUE
           /\ message \in ErrorComes(page) => error' = TRUE
           /\ message \notin ErrorGoes(page) /\ error = TRUE => error' = TRUE
           /\ message \in BarGoes(page) => packaging' = FALSE
           /\ message \notin ToldTo(page, Running) /\ packaging = FALSE => packaging' = FALSE
<1> DEFINE message == Head(channel)
<1>1. message \in Messages
  BY HeadMessage DEF PageTyped, PageTypeOK, Deliver, Receive, Received
<1>2. packaging \in BOOLEAN /\ created \in BOOLEAN /\ error \in BOOLEAN
  BY DEF PageTyped, PageTypeOK
<1>3. /\ Concerns(message) =>
            \/ message.kind = "progress" /\ ShowsProgress(message.job)
            \/ message.kind = "active" /\ ShowsActive(message.job)
            \/ message.kind = "started" /\ ShowsStarted(message.job)
            \/ message.kind = "refused" /\ ShowsRefusal
            \/ message.kind = "cancelled" /\ ShowsCancelled
            \/ message.kind = "cleared" /\ ShowsCleared
      /\ ~Concerns(message) => UNCHANGED view
  BY DEF Deliver
<1>4. Concerns(message) <=> message.kind = "progress" \/ message.page = page
  BY DEF Concerns
<1>5. message.kind = "progress" \/ message.kind = "active" \/ message.kind = "started" =>
          message.job \in Snapshots \cup {None}
  BY <1>1 DEF Messages
<1>6. message.job \in Snapshots => message.job.phase \in Running \cup Ended
  BY DEF Snapshots
<1> HIDE DEF message
<1>7. message \in SetsActive(page)
          => IdOf(active') = IF message.kind = "cleared" THEN None ELSE IdOf(message.job)
  BY <1>3, <1>4 DEF SetsActive, Broadcasts, AnswersTo, IdOf, ShowsProgress, ShowsActive,
                    ShowsStarted, ShowsCleared
<1>8. message \notin SetsActive(page) => active' = active
  BY <1>1, <1>3, <1>4 DEF SetsActive, Broadcasts, AnswersTo, ShowsActive, ShowsRefusal,
                          ShowsCancelled, view
<1>9. message \in ToldTo(page, {"completed"}) => created' = TRUE
  BY <1>2, <1>3, <1>4 DEF ToldTo, BroadcastsOf, Broadcasts, ShowsProgress, ShowsActive
<1>10. message \notin AnswersTo(page, {"cleared"}) /\ created = TRUE => created' = TRUE
  BY <1>1, <1>2, <1>3, <1>4 DEF AnswersTo, ShowsProgress, ShowsActive, ShowsStarted, ShowsRefusal,
                                ShowsCancelled, view
<1>11. message \in ErrorComes(page) => error' = TRUE
  BY <1>2, <1>3, <1>4 DEF ErrorComes, ToldTo, AnswersTo, BroadcastsOf, Broadcasts, ShowsProgress,
                          ShowsActive, ShowsRefusal
<1>12. message \notin ErrorGoes(page) /\ error = TRUE => error' = TRUE
  BY <1>1, <1>2, <1>3, <1>4, <1>5, <1>6
     DEF ErrorGoes, AnswersTo, BroadcastsOf, Broadcasts, Phases, ShowsProgress, ShowsActive,
         ShowsStarted, ShowsRefusal, ShowsCancelled, view
<1>13. message \in BarGoes(page) => packaging' = FALSE
  <2>1. \A phase \in Ended : phase \notin Running
    BY DEF Running, Ended
  <2>2. ASSUME message.job # None, message.job.phase \in Ended,
               ShowsProgress(message.job) \/ ShowsActive(message.job)
        PROVE  packaging' = FALSE
    <3>1. packaging' = (message.job.phase \in Running)
      BY <2>2 DEF ShowsProgress, ShowsActive
    <3>2. (message.job.phase \in Running) = FALSE
      BY <2>1, <2>2
    <3> QED
      BY <3>1, <3>2, Zenon
  <2>3. message \in ToldTo(page, Ended) => packaging' = FALSE
    BY <1>3, <1>4, <2>2 DEF ToldTo, BroadcastsOf, Broadcasts
  <2>4. message \in AnswersTo(page, {"refused", "cancelled"}) => packaging' = FALSE
    BY <1>3, <1>4 DEF AnswersTo, ShowsRefusal, ShowsCancelled
  <2> QED
    BY <2>3, <2>4 DEF BarGoes
<1>14. message \notin ToldTo(page, Running) /\ packaging = FALSE => packaging' = FALSE
  BY <1>1, <1>2, <1>3, <1>4, <1>5
     DEF ToldTo, BroadcastsOf, Broadcasts, ShowsProgress, ShowsActive, ShowsStarted, ShowsRefusal,
         ShowsCancelled, ShowsCleared, view
<1> QED
  BY <1>7, <1>8, <1>9, <1>10, <1>11, <1>12, <1>13, <1>14 DEF message

\* A message arrives.
LEMMA DeliverSettles ==
    ASSUME PageInv, PageTyped, Deliver
    PROVE  OfMounts' /\ LastIsJob' /\ EndTold' /\ PageSettles'
<1>1. /\ channel \in Seq(Messages) /\ requests \in Seq(Asks) /\ mounts \in Nat
      /\ OfMounts /\ LastIsJob /\ EndTold /\ PageSettles
  BY DEF PageInv, PageTypeOK, TypeOK
<1>2. /\ channel # <<>> /\ channel' = Tail(channel) /\ job' = job
      /\ page' = page /\ mounts' = mounts /\ requests' = requests
  BY DEF Deliver, Receive, Received
<1>3. Busy' <=> Busy
  BY <1>2 DEF Busy
<1>4. OfMounts'
  <2>1. /\ DOMAIN channel' = 1..(Len(channel) - 1)
        /\ \A i \in 1..(Len(channel) - 1) : i + 1 \in DOMAIN channel /\ channel'[i] = channel[i + 1]
    BY <1>1, <1>2
  <2> QED
    BY <1>1, <1>2, <2>1 DEF OfMounts
<1>5. LastIsJob' /\ EndTold'
  BY <1>1, <1>2, <1>3, SettlesTaken DEF LastIsJob, EndTold
<1>6. \A kind : Pending(kind)' <=> Pending(kind)
  BY <1>2 DEF Pending
<1>7. ASSUME page # 0
      PROVE  /\ ActiveSettles => ActiveSettles'
             /\ job # None /\ job.phase = "completed" /\ CreatedSettles => CreatedSettles'
             /\ ErrorSettles => ErrorSettles'
             /\ BarSettles => BarSettles'
  <2> DEFINE message == Head(channel)
             known == Knows(page, IdOf(job))
             others == SetsActive(page) \ known
  <2>1. /\ message \in SetsActive(page)
                => IdOf(active') = IF message.kind = "cleared" THEN None ELSE IdOf(message.job)
        /\ message \notin SetsActive(page) => active' = active
        /\ message \in ToldTo(page, {"completed"}) => created' = TRUE
        /\ message \notin AnswersTo(page, {"cleared"}) /\ created = TRUE => created' = TRUE
        /\ message \in ErrorComes(page) => error' = TRUE
        /\ message \notin ErrorGoes(page) /\ error = TRUE => error' = TRUE
        /\ message \in BarGoes(page) => packaging' = FALSE
        /\ message \notin ToldTo(page, Running) /\ packaging = FALSE => packaging' = FALSE
    BY <1>7, MessageShows
  <2>2. message \in known => IdOf(active') = IdOf(job)
    BY <2>1 DEF Knows
  <2>3. message \notin others /\ IdOf(active) = IdOf(job) => IdOf(active') = IdOf(job)
    BY <2>1, <2>2
  <2> HIDE DEF known, others
  <2>4. Settles(channel, known, others, IdOf(active), IdOf(job))
            => Settles(channel', known, others, IdOf(active'), IdOf(job))
    BY <1>1, <1>2, <2>2, <2>3, SettlesTaken
  <2>5. ActiveSettles => ActiveSettles'
    BY <1>2, <2>4 DEF ActiveSettles, known, others
  <2>6. CreatedSettles => CreatedSettles'
    BY <1>1, <1>2, <2>1, SettlesTaken DEF CreatedSettles
  <2>7. ErrorSettles => ErrorSettles'
    BY <1>1, <1>2, <2>1, SettlesTaken DEF ErrorSettles
  <2>8. BarSettles => BarSettles'
    BY <1>1, <1>2, <2>1, SettlesTaken DEF BarSettles
  <2> QED
    BY <2>5, <2>6, <2>7, <2>8
<1>8. PageSettles'
  BY <1>1, <1>2, <1>3, <1>6, <1>7 DEF PageSettles
<1> QED
  BY <1>4, <1>5, <1>8

-----------------------------------------------------------------------------
LEMMA PageInvStep == PageInv /\ [PageNext]_allVars => PageInv'
<1> SUFFICES ASSUME PageInv, [PageNext]_allVars PROVE PageInv'
  OBVIOUS
<1>1. PageTyped /\ TypeOK /\ JobShown /\ mounts \in Nat /\ requests \in Seq(Asks)
      /\ OfMounts /\ LastIsJob /\ EndTold /\ PageSettles
  BY DEF PageInv, PageTyped, PageTypeOK
<1>2. PageTyped' /\ TypeOK'
  <2>1. PageTyped'
    BY <1>1, PageTypeStep
  <2> QED
    BY <2>1 DEF PageTyped, PageTypeOK
<1>3. JobShown'
  BY <1>1, PageStep, ShownStep
<1> SUFFICES OfMounts' /\ LastIsJob' /\ EndTold' /\ PageSettles'
  BY <1>2, <1>3 DEF PageInv, PageTyped
<1>4. CASE Mount
  BY <1>4, MountSettles
<1>5. CASE Unmount
  <2>1. /\ page' = 0 /\ job' = job /\ channel' = channel /\ requests' = requests
        /\ mounts' = mounts
    BY <1>5 DEF Unmount, vars
  <2>2. Busy' <=> Busy
    BY <2>1 DEF Busy
  <2> QED
    BY <1>1, <2>1, <2>2 DEF OfMounts, LastIsJob, EndTold, PageSettles
<1>6. CASE Submit \/ ClickCancel \/ ClickAnother
  BY <1>6, ClickSettles
<1>7. CASE Serve
  BY <1>2, <1>7, ServeSettles
<1>8. CASE Deliver
  BY <1>1, <1>8, DeliverSettles
<1>9. CASE Quits
  <2>1. page' = 0 /\ channel' = <<>> /\ requests' = <<>> /\ mounts' = mounts
    BY <1>9 DEF Quits, Quit
  <2> QED
    BY <2>1 DEF OfMounts, LastIsJob, EndTold, PageSettles, Settles, Never
<1>10. ASSUME NEW j \in Jobs, Works(j) \/ Streams(j)
       PROVE  OfMounts' /\ LastIsJob' /\ EndTold' /\ PageSettles'
  <2>1. JobAnnounced' /\ OfMounts'
    BY <1>1, <1>10, WorkAnnounces
  <2>2. (TypeOK /\ JobAnnounced => LastIsJob /\ EndTold /\ PageSettles)'
    BY Announced, PTL
  <2> QED
    BY <1>2, <2>1, <2>2
<1>11. CASE UNCHANGED allVars
  <2>1. /\ job' = job /\ channel' = channel /\ page' = page /\ mounts' = mounts
        /\ requests' = requests /\ active' = active /\ packaging' = packaging
        /\ created' = created /\ error' = error
    BY <1>11 DEF allVars, vars, pageVars, view
  <2>2. /\ Busy' <=> Busy
        /\ \A kind : Pending(kind)' <=> Pending(kind)
    BY <2>1 DEF Busy, Pending
  <2> QED
    BY <1>1, <2>1, <2>2 DEF OfMounts, LastIsJob, EndTold, PageSettles, ActiveSettles,
                            CreatedSettles, ErrorSettles, BarSettles
<1> QED
  BY <1>4, <1>5, <1>6, <1>7, <1>8, <1>9, <1>10, <1>11 DEF PageNext

LEMMA SettledShows == PageInv => PageShowsOutcome
<1> SUFFICES ASSUME PageInv, page # 0, requests = <<>>, channel = <<>>, ~Busy
    PROVE  /\ ~packaging
           /\ IF job = None THEN active = None ELSE active # None /\ active.id = job.id
           /\ job # None /\ job.phase = "completed" => created
           /\ job # None /\ job.phase = "error" => error
  BY DEF PageShowsOutcome
<1>1. /\ job \in Snapshots \cup {None} /\ active \in Snapshots \cup {None}
      /\ packaging \in BOOLEAN /\ PageSettles
  BY DEF PageInv, PageTypeOK, TypeOK
<1>2. \A kind : ~Pending(kind)
  BY DEF Pending
<1>3. \A good, bad, shown, due : Settles(channel, good, bad, shown, due) => shown = due
  BY DEF Settles, Ends
<1>4. IdOf(active) = IdOf(job) /\ packaging = FALSE
  BY <1>1, <1>2, <1>3 DEF PageSettles, ActiveSettles, BarSettles
<1>5. IF job = None THEN active = None ELSE active # None /\ active.id = job.id
  <2>1. \A snapshot \in Snapshots : snapshot.id \in Jobs /\ snapshot.id # None /\ snapshot # None
    BY PackageAssumption DEF Snapshots, PackageAssumption
  <2> QED
    BY <1>1, <1>4, <2>1 DEF IdOf
<1>6. job # None /\ job.phase = "completed" => created
  BY <1>1, <1>2, <1>3 DEF PageSettles, CreatedSettles
<1>7. job # None /\ job.phase = "error" => error
  BY <1>1, <1>2, <1>3 DEF PageSettles, ErrorSettles
<1> QED
  BY <1>4, <1>5, <1>6, <1>7

\* Whatever was clicked, left and shown again while the job ran, the page that has heard
\* everything shows the job's manifest or its error, without a progress bar.
THEOREM OutcomeShown == PageSpec => []PageShowsOutcome
<1>1. PageInit => PageInv
  <2> SUFFICES ASSUME PageInit PROVE PageInv
    OBVIOUS
  <2>1. JobShown
    BY DEF PageInit, Init, JobShown, Busy
  <2>2. page = 0 /\ requests = <<>> /\ channel = <<>>
    BY DEF PageInit, Init
  <2>3. PageTypeOK /\ requests \in Seq(Asks)
    BY PageTypedAtFirst DEF PageTyped
  <2>4. OfMounts /\ PageSettles
    BY <2>2 DEF OfMounts, PageSettles
  <2>5. LastIsJob /\ EndTold
    BY <2>2 DEF LastIsJob, EndTold, Settles, Never
  <2> QED
    BY <2>1, <2>3, <2>4, <2>5 DEF PageInv
<1>2. PageSpec => []PageInv
  BY <1>1, PageInvStep, PTL DEF PageSpec
<1> QED
  BY <1>2, SettledShows, PTL

=============================================================================
