------------------------- MODULE SwarmEngineHistory -------------------------
(***************************************************************************)
(* SwarmEngine with a history variable, for a property of what the user    *)
(* asked earlier.  It follows the steps and constrains none of them.       *)
(***************************************************************************)
EXTENDS SwarmEngine

VARIABLE granted    \* hashes whose sharing the user asked for (a package was started)

historyVars == <<vars, granted>>

HistoryInit == Init /\ granted = {}

HistoryNext ==
    \/ /\ UserStep \/ EngineStep \/ OutsideStep
       /\ granted' = granted \cup packages'
    \/ /\ Restart
       /\ UNCHANGED granted

HistorySpec == HistoryInit /\ [][HistoryNext]_historyVars

-----------------------------------------------------------------------------
\* "completed downloads are never seeded without explicit user permission": a hash is
\* opted in only if the user once asked to share it, before or after a restart.
OptedInOnceGranted == policy.optedIn \subseteq granted

=============================================================================
