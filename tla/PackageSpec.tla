---------------------------- MODULE PackageSpec ----------------------------
(***************************************************************************)
(* What the packaging of models promises, whatever its phases, streams and   *)
(* progress: jobs run one at a time, each ends once, and a job's model is    *)
(* seeded by its end and not otherwise.                                     *)
(***************************************************************************)
CONSTANT Jobs

VARIABLE state   \* of each job

Init == state = [j \in Jobs |-> "unused"]

Goes(j, from, to) == state[j] = from /\ state' = [state EXCEPT ![j] = to]

Idle == \A j \in Jobs : state[j] # "running"

Begin(j) == Idle /\ Goes(j, "unused", "running")

\* A job may fail as it begins.
Falter(j) == Idle /\ Goes(j, "unused", "failed")

Seed(j) == Goes(j, "running", "seeded")

Fail(j) == Goes(j, "running", "failed")

Next == \E j \in Jobs : Begin(j) \/ Falter(j) \/ Seed(j) \/ Fail(j)

Spec == Init /\ [][Next]_state

=============================================================================
