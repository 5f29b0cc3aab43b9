----------------------------- MODULE PackagePage -----------------------------
(***************************************************************************)
(* PackageJob with its one client: the page of                               *)
(* src/src/renderer/components/SeederView.tsx, which the user leaves and      *)
(* comes back to while a job runs, and the requests and messages between the  *)
(* two.  Requests arrive in the order they were sent, and so do the           *)
(* messages: Electron carries the broadcasts and the answers over the         *)
(* frame's one channel.                                                      *)
(***************************************************************************)
EXTENDS PackageJob

CONSTANT MaxRequests   \* bound: requests on the way to the main process

ASSUME PageAssumption ==
    /\ Pages \subseteq Nat \ {0}
    /\ MaxRequests \in Nat \ {0}

VARIABLES
    page,      \* which mount of the page there is; 0 is none
    mounts,    \* mounts so far
    active,    \* activeJob
    packaging, \* isPackaging
    created,   \* whether there is a createdManifest
    error,     \* whether there is an error
    requests   \* requests sent and not yet served (external)

view == <<active, packaging, created, error>>
pageVars == <<page, mounts, view, requests>>
allVars == <<vars, pageVars>>

-----------------------------------------------------------------------------
Send(kind) ==
    /\ Len(requests) < MaxRequests
    /\ requests' = Append(requests, [kind |-> kind, page |-> page, id |-> None])

BlankView == active' = None /\ packaging' = FALSE /\ created' = FALSE /\ error' = FALSE

\* The tab is opened: a fresh state, the subscription and a request for the current job.
Mount ==
    /\ page = 0
    /\ mounts + 1 \in Pages
    /\ mounts' = mounts + 1
    /\ page' = mounts'
    /\ BlankView
    /\ Len(requests) < MaxRequests
    /\ requests' = Append(requests, [kind |-> "active", page |-> page', id |-> None])
    /\ UNCHANGED vars

\* The tab is left.
Unmount ==
    /\ page # 0
    /\ page' = 0
    /\ BlankView
    /\ UNCHANGED <<vars, mounts, requests>>

\* handleSubmit, up to its await; the button is there without a manifest and off while packaging.
Submit ==
    /\ page # 0
    /\ ~created /\ ~packaging
    /\ error' = FALSE
    /\ packaging' = TRUE
    /\ Send("start")
    /\ UNCHANGED <<vars, page, mounts, active, created>>

\* handleCancelPackaging, up to its await; without an active job it cancels any.
ClickCancel ==
    /\ page # 0
    /\ packaging
    /\ Len(requests) < MaxRequests
    /\ requests' = Append(requests, [kind |-> "cancel", page |-> page,
                                     id |-> IF active = None THEN None ELSE active.id])
    /\ UNCHANGED <<vars, page, mounts, view>>

\* handlePackageAnother, up to its await.
ClickAnother ==
    /\ page # 0
    /\ created
    /\ Send("clear")
    /\ UNCHANGED <<vars, page, mounts, view>>

\* The main process serves the next request.
Serve ==
    /\ requests # <<>>
    /\ Room
    /\ requests' = Tail(requests)
    /\ LET request == Head(requests) IN
          \/ request.kind = "active" /\ GetActiveJob(request.page)
          \/ /\ request.kind = "start"
             /\ \/ StartJob(request.page)
                \/ StartFails(request.page)
                \/ StartRefused(request.page)
          \/ request.kind = "cancel" /\ CancelJob(request.id, request.page)
          \/ request.kind = "clear" /\ ClearJob(request.page)
    /\ UNCHANGED <<page, mounts, view>>

-----------------------------------------------------------------------------
ErrorKeepsPackaging(snapshot) ==
    /\ active' = snapshot
    /\ IF snapshot = None
       THEN UNCHANGED <<packaging, created, error>>
       ELSE /\ packaging' = (snapshot.phase # "completed")
            /\ created' = (created \/ snapshot.phase = "completed")
            /\ error' = (snapshot.phase = "error")

\* onPackageProgress: after a null it throws, with the active job already set.
ShowsProgress(snapshot) ==
    /\ active' = snapshot
    /\ IF snapshot = None
       THEN UNCHANGED <<packaging, created, error>>
       ELSE /\ packaging' = (snapshot.phase \in Running)
            /\ created' = (created \/ snapshot.phase = "completed")
            /\ error' = (snapshot.phase = "error")

\* The answer to the request made on mounting.
ShowsActive(snapshot) ==
    IF snapshot = None
    THEN UNCHANGED view
    ELSE /\ active' = snapshot
         /\ packaging' = (snapshot.phase \in Running)
         /\ created' = (created \/ snapshot.phase = "completed")
         /\ error' = (error \/ snapshot.phase = "error")

RefusalKeepsPackaging == error' = TRUE /\ UNCHANGED <<packaging, active, created>>

\* handleSubmit, after its await.
ShowsRefusal == error' = TRUE /\ packaging' = FALSE /\ UNCHANGED <<active, created>>
ShowsStarted(snapshot) == active' = snapshot /\ UNCHANGED <<packaging, created, error>>

\* handleCancelPackaging, after its await, whatever the answer.
ShowsCancelled == packaging' = FALSE /\ UNCHANGED <<active, created, error>>

\* handlePackageAnother, after its await, whatever the answer.
ShowsCleared == active' = None /\ created' = FALSE /\ error' = FALSE /\ UNCHANGED packaging

\* A broadcast goes to the page there is, an answer to the page that asked.
Concerns(message) == page # 0 /\ (message.kind = "progress" \/ message.page = page)

Deliver ==
    /\ Receive
    /\ LET message == Head(channel) IN
          IF Concerns(message)
          THEN \/ message.kind = "progress" /\ ShowsProgress(message.job)
               \/ message.kind = "active" /\ ShowsActive(message.job)
               \/ message.kind = "started" /\ ShowsStarted(message.job)
               \/ message.kind = "refused" /\ ShowsRefusal
               \/ message.kind = "cancelled" /\ ShowsCancelled
               \/ message.kind = "cleared" /\ ShowsCleared
          ELSE UNCHANGED view
    /\ UNCHANGED <<page, mounts, requests>>

Streams(j) == HashProgresses(j) /\ UNCHANGED pageVars

Works(j) == PipelineContinues(j) /\ UNCHANGED pageVars

\* The program ends, with its window.
Quits ==
    /\ Quit
    /\ page' = 0
    /\ requests' = <<>>
    /\ BlankView
    /\ UNCHANGED mounts

-----------------------------------------------------------------------------
PageInit ==
    /\ Init
    /\ page = 0 /\ mounts = 0
    /\ active = None /\ packaging = FALSE /\ created = FALSE /\ error = FALSE
    /\ requests = <<>>

PageNext ==
    \/ Mount \/ Unmount \/ Submit \/ ClickCancel \/ ClickAnother
    \/ Serve
    \/ Deliver
    \/ Quits
    \/ \E j \in Jobs : Works(j) \/ Streams(j)

\* Requests are served and messages delivered, and a hash ends or fails.
Fairness ==
    /\ WF_allVars(Serve)
    /\ WF_allVars(Deliver)
    /\ \A j \in Jobs : WF_allVars(Works(j))

PageSpec == PageInit /\ [][PageNext]_allVars /\ Fairness

-----------------------------------------------------------------------------
\* Both processes' state keeps its shape.
PageTypeOK ==
    /\ TypeOK
    /\ page \in Pages \cup {0} /\ mounts \in Nat
    /\ active \in Snapshots \cup {None}
    /\ {packaging, created, error} \subseteq BOOLEAN

\* When nothing is on the way between them and no job runs, the page shows what became of the
\* job, its manifest or its error, and no progress bar, and knows the job by its id.  It is
\* about a page that was left and mounted again, about answers that arrive after later clicks,
\* and about the answer to startJob, which may be older than the broadcast before it.
PageShowsOutcome ==
    page # 0 /\ requests = <<>> /\ channel = <<>> /\ ~Busy =>
        /\ ~packaging
        /\ IF job = None THEN active = None ELSE active # None /\ active.id = job.id
        /\ job # None /\ job.phase = "completed" => created
        /\ job # None /\ job.phase = "error" => error

\* A job ends, completed, failed or cancelled, so that a new one can be started;
\* and the page does not show its progress bar for ever: it learns of the end,
\* by a broadcast, by the answer to a click or when it is shown again.
PackagingEnds == (Busy ~> ~Busy) /\ (packaging ~> ~packaging)

=============================================================================
