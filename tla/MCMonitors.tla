------------------------------- MODULE MCMonitors -------------------------------
(***************************************************************************)
(* The four polling monitors over small worlds.  Each has its threads and  *)
(* its queue to itself and they share nothing but the database, to which   *)
(* they only append: a behaviour of all is the behaviours of each, so one  *)
(* is looked at at a time and the others are not started.                  *)
(***************************************************************************)
EXTENDS ProcessMonitor, NetworkMonitor, PersistenceMonitor, LogMonitor, TLC

VARIABLE focus   \* the monitor that runs

vars == <<focus, processVars, networkVars, persistenceVars, logVars>>

BackendMC == [p \in Places |-> p]

Init ==
    /\ focus \in {"process", "network", "persistence", "log"}
    /\ ProcessInit /\ (focus = "process" \/ \A p \in Pids : alive[p] = 0)
    /\ NetworkInit /\ (focus = "network" \/ open = {})
    /\ PersistenceInit /\ (focus = "persistence" \/ \A p \in Places : installed[p] = None)
    /\ LogInit

Next ==
    /\ UNCHANGED focus
    /\ \/ focus = "process" /\ ProcessNext /\ UNCHANGED <<networkVars, persistenceVars, logVars>>
       \/ focus = "network" /\ NetworkNext /\ UNCHANGED <<processVars, persistenceVars, logVars>>
       \/ focus = "persistence" /\ PersistenceNext /\ UNCHANGED <<processVars, networkVars, logVars>>
       \/ focus = "log" /\ LogNext /\ UNCHANGED <<processVars, networkVars, persistenceVars>>

Spec == Init /\ [][Next]_vars /\ NetworkFairness

MonitorsTypeOK == ProcessTypeOK /\ NetworkTypeOK /\ PersistenceTypeOK /\ LogTypeOK
=============================================================================
