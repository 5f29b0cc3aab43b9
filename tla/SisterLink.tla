----------------------------- MODULE SisterLink -----------------------------
(***************************************************************************)
(* How the page learns that RenegadeCMM is there: its own checks, which    *)
(* stop when a budget of failures is spent, and the poke CMM sends to the  *)
(* daemon server when it starts (src/renderer/App.tsx,                     *)
(* src/main/engine/swarmDaemonServer.ts, src/main/index.ts).               *)
(*                                                                         *)
(* CMM is external: it is reachable while a status check finds its         *)
(* database, and pokes once when it becomes so, with the token of the      *)
(* shared file.  Tokens, sockets and what the page shows besides the badge *)
(* are left out.                                                           *)
(***************************************************************************)
EXTENDS Integers

CONSTANTS Slots,        \* calls of the page that may overlap
          Budget,       \* failed checks until the page stops asking
          MaxEvents     \* bound: changes of CMM, clicks of the user

VARIABLES
    server,         \* the daemon server: "starting", "on" or "failed"
    mounted,        \* the page listens
    reachable,      \* CMM
    poke,           \* CMM's request is under way
    calls,          \* slot -> a call of the page
    cmmConnected,   \* what the page shows, and what its polls go by: every render
                    \* copies the state into the ref the polls read
    cmmProbeBudgetRef,
    events

vars == <<server, mounted, reachable, poke, calls, cmmConnected,
          cmmProbeBudgetRef, events>>

NoCall == [kind |-> "check", at |-> "idle"]

Asked(kind) == [kind |-> kind, at |-> "asked"]

Idle == {s \in Slots : calls[s].at = "idle"}

Event == events < MaxEvents /\ events' = events + 1

\* Mutant of CheckManually: a check like those of the timer.
CheckByBudget(s) ==
    /\ s \in Idle
    /\ calls' = IF cmmConnected \/ cmmProbeBudgetRef > 0
                THEN [calls EXCEPT ![s] = Asked("check")] ELSE calls
    /\ UNCHANGED <<cmmConnected, cmmProbeBudgetRef>>

\* checkCmmStatus(true).
CheckManually(s) == /\ s \in Idle
                    /\ calls' = [calls EXCEPT ![s] = Asked("check")]
                    /\ cmmProbeBudgetRef' = Budget
                    /\ UNCHANGED cmmConnected

\* checkCmmStatus(false), of the timer and of the window's focus.
Poll(s) ==
    /\ mounted /\ s \in Idle
    /\ cmmConnected \/ cmmProbeBudgetRef > 0
    /\ calls' = [calls EXCEPT ![s] = Asked("check")]
    /\ UNCHANGED <<server, mounted, reachable, poke, cmmConnected,
                   cmmProbeBudgetRef, events>>

\* handleManualRetryCmm.
Retry(s) ==
    /\ Event
    /\ mounted
    /\ CheckManually(s)
    /\ UNCHANGED <<server, mounted, reachable, poke>>

\* handleAutoDetectCmm and handleSyncCmmConfig.
Detect(s) ==
    /\ Event
    /\ mounted /\ s \in Idle
    /\ calls' = [calls EXCEPT ![s] = Asked("detect")]
    /\ UNCHANGED <<server, mounted, reachable, poke, cmmConnected,
                   cmmProbeBudgetRef>>

\* The main process looks: a check finds the database; of the models, which
\* are read from it, there may be none.
Answers(s) ==
    /\ calls[s].at = "asked"
    /\ \E found \in BOOLEAN :
           /\ IF calls[s].kind = "models" THEN found => reachable ELSE found = reachable
           /\ calls' = [calls EXCEPT ![s].at = IF found THEN "yes" ELSE "no"]
    /\ UNCHANGED <<server, mounted, reachable, poke, cmmConnected,
                   cmmProbeBudgetRef, events>>

\* Mutant of Spent: the budget is not held at zero.
SpentBelowZero == cmmProbeBudgetRef - 1

\* The budget after a check that found nothing.
Spent == IF cmmProbeBudgetRef > 0 THEN cmmProbeBudgetRef - 1 ELSE 0

\* A check that connects anew fetches the models.
CheckReturns(s) ==
    /\ calls[s].kind = "check"
    /\ cmmConnected' = (calls[s].at = "yes")
    /\ cmmProbeBudgetRef' = IF calls[s].at = "yes" THEN Budget ELSE Spent
    /\ calls' = [calls EXCEPT ![s] =
                    IF calls[s].at = "yes" /\ ~cmmConnected THEN Asked("models") ELSE NoCall]

\* The badge changes, and with it what the polls go by; the budget stays.
DetectReturns(s) ==
    /\ calls[s].kind = "detect"
    /\ cmmConnected' = (calls[s].at = "yes")
    /\ calls' = [calls EXCEPT ![s] = IF calls[s].at = "yes" THEN Asked("models") ELSE NoCall]
    /\ UNCHANGED cmmProbeBudgetRef

\* fetchCmmModels: any model proves the connection.
ModelsReturn(s) ==
    /\ calls[s].kind = "models"
    /\ IF calls[s].at = "yes"
       THEN cmmConnected' = TRUE /\ cmmProbeBudgetRef' = Budget
       ELSE UNCHANGED <<cmmConnected, cmmProbeBudgetRef>>
    /\ calls' = [calls EXCEPT ![s] = NoCall]

Returns(s) ==
    /\ calls[s].at \in {"yes", "no"}
    /\ CheckReturns(s) \/ DetectReturns(s) \/ ModelsReturn(s)
    /\ UNCHANGED <<server, mounted, reachable, poke, events>>
-----------------------------------------------------------------------------
\* createWindow waits for the server, which may find its port taken.
ServerStarts ==
    /\ server = "starting"
    /\ server' \in {"on", "failed"}
    /\ UNCHANGED <<mounted, reachable, poke, calls, cmmConnected,
                   cmmProbeBudgetRef, events>>

\* Then the page is loaded; it checks and fetches the models.
Mount(s, m) ==
    /\ server # "starting" /\ ~mounted
    /\ mounted' = TRUE
    /\ s # m /\ calls' = [calls EXCEPT ![s] = Asked("check"), ![m] = Asked("models")]
    /\ UNCHANGED <<server, reachable, poke, cmmConnected,
                   cmmProbeBudgetRef, events>>

\* Route /api/sister/wakeup: before the page listens nobody hears of it.
PokeArrives(s) ==
    /\ poke /\ server = "on"
    /\ poke' = FALSE
    /\ IF mounted THEN CheckManually(s)
       ELSE UNCHANGED <<calls, cmmConnected, cmmProbeBudgetRef>>
    /\ UNCHANGED <<server, mounted, reachable, events>>

\* Nothing listens at the port.
PokeRefused ==
    /\ poke /\ server # "on"
    /\ poke' = FALSE
    /\ UNCHANGED <<server, mounted, reachable, calls, cmmConnected,
                   cmmProbeBudgetRef, events>>

CmmStarts == /\ Event
             /\ ~reachable /\ reachable' = TRUE
             /\ poke' = TRUE
             /\ UNCHANGED <<server, mounted, calls, cmmConnected,
                            cmmProbeBudgetRef>>

CmmStops == /\ Event
            /\ reachable /\ reachable' = FALSE
            /\ UNCHANGED <<server, mounted, poke, calls, cmmConnected,
                           cmmProbeBudgetRef>>
-----------------------------------------------------------------------------
Init == /\ server = "starting" /\ mounted = FALSE
        /\ reachable \in BOOLEAN
        /\ poke = FALSE
        /\ calls = [s \in Slots |-> NoCall]
        /\ cmmConnected = FALSE
        /\ cmmProbeBudgetRef = Budget
        /\ events = 0

Next == \/ ServerStarts
        \/ \E s, m \in Slots : Mount(s, m)
        \/ \E s \in Slots : \/ Poll(s)
                            \/ Retry(s)
                            \/ Detect(s)
                            \/ Answers(s)
                            \/ Returns(s)
                            \/ PokeArrives(s)
        \/ PokeRefused
        \/ CmmStarts
        \/ CmmStops

\* Every call returns, the timer fires again and again, and CMM's request gets
\* through where somebody listens.
Fairness ==
    /\ \A s \in Slots : WF_vars(Answers(s)) /\ WF_vars(Returns(s))
    /\ WF_vars(\E s \in Slots : Poll(s))
    /\ WF_vars(\E s \in Slots : PokeArrives(s))

Spec == Init /\ [][Next]_vars /\ Fairness
-----------------------------------------------------------------------------
TypeOK == /\ server \in {"starting", "on", "failed"}
          /\ mounted \in BOOLEAN /\ reachable \in BOOLEAN /\ poke \in BOOLEAN
          /\ calls \in [Slots -> [kind : {"check", "detect", "models"},
                                  at : {"idle", "asked", "yes", "no"}]]
          /\ cmmConnected \in BOOLEAN
          /\ cmmProbeBudgetRef \in 0..Budget
          /\ events \in 0..MaxEvents

\* While page and server listen, a CMM that stays reachable is found, even after
\* the budget was spent and with late answers of earlier checks under way, as
\* long as fewer of these overlap than the budget; and one that is gone is
\* noticed (checkCmmStatus, /api/sister/wakeup).
PageFollowsCmm ==
    /\ []<>(mounted /\ server = "on" /\ reachable => cmmConnected)
    /\ []<>(cmmConnected => reachable)
=============================================================================
