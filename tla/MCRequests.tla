------------------------------- MODULE MCRequests -------------------------------
(***************************************************************************)
(* What the agent is asked to do, over small worlds: to end a process, to  *)
(* quarantine and restore files, to rotate its token, to check the pages a *)
(* browser opens.  The parts share no state, so one is looked at at a time.*)
(* Files are looked at twice: with one thread of the API beside the file   *)
(* monitor and the automatic responses, and with two threads, which also   *)
(* disable entries of startup folders, while the file monitor's writer is  *)
(* held up.                                                                *)
(***************************************************************************)
EXTENDS KillProcess, Quarantine, TokenStore, Navigation, TLC

CONSTANT Second   \* the thread that is idle while the file monitor writes

VARIABLE focus    \* what is looked at

vars == <<focus, processVars, kill, quarantineVars, tokenVars, navigationVars>>

\* The process with the second life of a pid that is not the agent's.
ProtectedMC == {<<p, 2>> : p \in Pids \ OwnPids}

Init ==
    /\ focus \in {"kill", "scanned", "overlapping", "token", "navigation"}
    /\ ProcessInit /\ KillInit
    /\ focus = "kill" \/ \A p \in Pids : alive[p] = 1
    /\ focus = "kill" \/ \A k \in Kills : kill[k].pid \in OwnPids
    /\ QuarantineInit /\ TokenInit
    /\ NavigationInit /\ (focus = "navigation" \/ paired)

KillPart ==
    KillNext /\ UNCHANGED <<quarantineVars, tokenVars, navigationVars>>
FilePart ==
    QuarantineNext /\ UNCHANGED <<processVars, kill, tokenVars, navigationVars>>
TokenPart ==
    TokenNext /\ UNCHANGED <<processVars, kill, quarantineVars, navigationVars>>
NavigationPart ==
    NavigationNext /\ UNCHANGED <<processVars, kill, quarantineVars, tokenVars>>

Next ==
    /\ UNCHANGED focus
    /\ \/ focus = "kill" /\ KillPart
       \/ /\ focus = "scanned" /\ FilePart /\ handler'[Second].at = "idle"
          /\ \A t \in Threads : handler'[t].op # "startup"
       \/ focus = "overlapping" /\ FilePart /\ inHand' = {}
       \/ focus = "token" /\ TokenPart
       \/ focus = "navigation" /\ NavigationPart

Spec == Init /\ [][Next]_vars

RequestsTypeOK ==
    ProcessTypeOK /\ KillTypeOK /\ QuarantineTypeOK /\ TokenTypeOK /\ NavigationTypeOK
=============================================================================
