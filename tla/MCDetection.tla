----------------------------- MODULE MCDetection -----------------------------
(***************************************************************************)
(* The pure functions of detection/, which share nothing: the search for   *)
(* scenarios over every small log, and the bands of risk under every       *)
(* accepted configuration.  One of the two is looked at at a time.         *)
(***************************************************************************)
EXTENDS MCCorrelationEngine, RiskBands

VARIABLE focus

\* The bands rest at one configuration while logs are looked at, and the log
\* is empty while the bands are.
DetectionInit ==
    /\ focus \in {"scenarios", "bands"}
    /\ LogInit /\ Init
    /\ focus = "bands" \/ \A s \in 0..3 : limits[s] = s
    /\ focus = "scenarios" \/ DOMAIN ancestry = {"other"}

DetectionNext ==
    /\ UNCHANGED focus
    /\ \/ focus = "scenarios" /\ Insert /\ UNCHANGED vars
       \/ focus = "bands" /\ Next /\ UNCHANGED <<log, ancestry>>

DetectionSpec == DetectionInit /\ [][DetectionNext]_<<focus, vars, log, ancestry>>
=============================================================================
