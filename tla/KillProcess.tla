----------------------------- MODULE KillProcess -----------------------------
(***************************************************************************)
(* kill_process of response/actions.py, asked for by a confirmed request   *)
(* to /response/kill-process or by an automatic response: overlapping         *)
(* requests against processes that end on their own and whose pids are     *)
(* given to others between any two of their steps.                         *)
(***************************************************************************)
EXTENDS ProcessMonitor

CONSTANTS
    Kills,      \* requests that may be under way at once
    OwnPids,    \* the pids of the agent itself
    Protected   \* the lives whose name is in PROTECTED_PROCESS_NAMES

ASSUME KillAssumption == OwnPids \subseteq Pids /\ Protected \subseteq Pids \X Life

VARIABLE
    kill    \* by request: its step, its psutil.Process, and the lives it signalled

KillTypeOK ==
    /\ \A k \in Kills : kill[k].at \in {"found", "terminated", "overdue", "killed", "succeeded"}
           => kill[k].life # 0
    /\ kill \in [Kills -> [at : {"idle", "asked", "found", "terminated", "overdue", "killed",
                                 "succeeded", "logged", "refused", "raised"},
                           pid : Pids, life : 0..MaxLives, hit : SUBSET (Pids \X Life)]]

KillInit ==
    /\ \A p \in OwnPids : alive[p] # 0
    /\ \E p \in Pids : kill = [k \in Kills |-> [at |-> "idle", pid |-> p, life |-> 0, hit |-> {}]]

Running(k) == alive[kill[k].pid] = kill[k].life

KillAt(k, step) == kill' = [kill EXCEPT ![k].at = step]
-----------------------------------------------------------------------------
Ask(k) ==
    /\ kill[k].at \in {"idle", "logged", "refused", "raised"}
    /\ \E p \in Pids :
           kill' = [kill EXCEPT ![k] = [at |-> "asked", pid |-> p, life |-> 0, hit |-> {}]]
    /\ UNCHANGED processVars

\* Fault: NoSuchProcess of the name is let pass.
LookUpGone(k) ==
    /\ kill[k].at = "asked"
    /\ LET p == kill[k].pid
       IN kill' = [kill EXCEPT ![k].life = alive[p],
                               ![k].at = IF p \in OwnPids THEN "refused" ELSE "found"]
    /\ UNCHANGED processVars

\* The process is looked up, and refused if it is the agent, gone or protected.
LookUp(k) ==
    /\ kill[k].at = "asked"
    /\ LET p == kill[k].pid
           refused == p \in OwnPids \/ alive[p] = 0 \/ <<p, alive[p]>> \in Protected
       IN kill' = [kill EXCEPT ![k].life = alive[p],
                               ![k].at = IF refused THEN "refused" ELSE "found"]
    /\ UNCHANGED processVars

\* Fault: the signal goes to whatever bears the pid.
SignalPid(k, step) ==
    /\ alive[kill[k].pid] # 0
    /\ kill' = [kill EXCEPT ![k].at = step,
                            ![k].hit = @ \cup {<<kill[k].pid, alive[kill[k].pid]>>}]

\* psutil compares the creation time before it signals; access denied by
\* the system becomes a ResponseActionError.
Signal(k, step) ==
    /\ Running(k)
    /\ \/ kill' = [kill EXCEPT ![k].at = step, ![k].hit = @ \cup {<<kill[k].pid, kill[k].life>>}]
       \/ KillAt(k, "refused")

Terminate(k) ==
    /\ kill[k].at = "found" /\ Signal(k, "terminated")
    /\ UNCHANGED processVars

\* wait(timeout=3) gives up on the first signal ...
WaitTimesOut(k) ==
    /\ kill[k].at = "terminated" /\ Running(k)
    /\ KillAt(k, "overdue")
    /\ UNCHANGED processVars

ForceKill(k) ==
    /\ kill[k].at = "overdue" /\ Signal(k, "killed")
    /\ UNCHANGED processVars

\* ... and on the second: TimeoutExpired reaches the caller.
ForceTimesOut(k) ==
    /\ kill[k].at = "killed" /\ Running(k)
    /\ KillAt(k, "raised")
    /\ UNCHANGED processVars

\* Wherever the process is found gone, the action has succeeded.
FindGone(k) ==
    /\ kill[k].at \in {"found", "terminated", "overdue", "killed"} /\ ~Running(k)
    /\ KillAt(k, "succeeded")
    /\ UNCHANGED processVars

\* log_admin_action and the commit of the event row, which may raise.
LogKill(k) ==
    /\ kill[k].at = "succeeded"
    /\ \E end \in {"logged", "raised"} : KillAt(k, end)
    /\ UNCHANGED processVars

KillStep(k) ==
    \/ Ask(k) \/ LogKill(k) \/ LookUp(k) \/ Terminate(k) \/ WaitTimesOut(k) \/ ForceKill(k)
    \/ ForceTimesOut(k) \/ FindGone(k)

\* Processes come and go meanwhile; the agent outlives its requests.
KillWorld ==
    /\ \E p \in Pids : Spawn(p) \/ (p \notin OwnPids /\ Exit(p))
    /\ UNCHANGED kill

KillNext == KillWorld \/ \E k \in Kills : KillStep(k)

KillSpec == ProcessInit /\ KillInit /\ [][KillNext]_<<processVars, kill>>
-----------------------------------------------------------------------------
(* Properties *)

(***************************************************************************)
(* A request signals no other process than the one whose name it checked:  *)
(* not the next bearer of the pid, not a protected one, not the agent; and *)
(* when it is logged as a success that process is gone (kill_process of    *)
(* response/actions.py, with its two waits and the second signal).         *)
(***************************************************************************)
KillEndsItsTarget ==
    \A k \in Kills :
        /\ kill[k].hit \subseteq {<<kill[k].pid, kill[k].life>>} \ Protected
        /\ kill[k].hit # {} => kill[k].pid \notin OwnPids
        /\ kill[k].at \in {"succeeded", "logged"} => ~Running(k)
=============================================================================
