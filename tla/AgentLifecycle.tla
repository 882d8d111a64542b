---------------------------- MODULE AgentLifecycle ----------------------------
(***************************************************************************)
(* Who starts, finds, owns and stops the local agent: the processes of one *)
(* machine that share its port.  A GUI process hosts an agent on a thread  *)
(* of its own when it finds none (agent/server.py, gui/agent_controller.py,*)
(* gui/app.py, gui/pages/dashboard.py); a "--serve" process only serves.   *)
(*                                                                         *)
(* An attempt is one uvicorn server on its thread.  uvicorn runs the       *)
(* application's startup, which starts the monitors, before it binds the   *)
(* port, and its shutdown after the port is closed or could not be bound.  *)
(* The 5 s a caller gives its own attempt are taken to be enough for that  *)
(* attempt to have bound the port or failed to; any wait may give up on an *)
(* agent that is bound but does not answer.                                *)
(***************************************************************************)
EXTENDS Naturals, FiniteSets

CONSTANTS
    Guis, Servers,  \* the processes of the machine
    MaxAttempts,    \* bound: attempts of one process
    MayStall,       \* TRUE: a bound agent may stop answering for a while
    MayLeave        \* TRUE: the user stops agents and quits; processes are killed

ASSUME AgentLifecycleAssumption ==
    /\ Guis \cap Servers = {}
    /\ MaxAttempts \in Nat
    /\ {MayStall, MayLeave} \subseteq BOOLEAN

Processes == Guis \cup Servers
Attempt == 1..MaxAttempts

VARIABLES
    stage,     \* each attempt's: "none", "starting", "serving", "closing", "ended"
    toExit,    \* server.should_exit of each attempt
    stalled,   \* the bound agent is not answering
    hiccup,    \* history: a bound agent has stalled, or has failed a status request
    main,      \* the main thread of each process
    worker,    \* the thread that runs controller.start() or stop()
    mine,      \* the attempt of the start() under way, or 0
    handle,    \* AgentController.handle: the attempt it holds, or 0
    reachable, \* AgentController.reachable
    buttons,   \* the dashboard's buttons that are enabled
    replaced   \* history: the attempts of each window that lived when Start was clicked

agentVars == <<stage, toExit, stalled, hiccup>>
controllerVars == <<handle, reachable, replaced>>
guiVars == <<worker, mine, controllerVars, buttons>>
vars == <<agentVars, main, guiVars>>

TypeOK ==
    /\ stage \in [Processes -> [Attempt -> {"none", "starting", "serving", "closing", "ended"}]]
    /\ toExit \in [Processes -> [Attempt -> BOOLEAN]]
    /\ {stalled, hiccup} \subseteq BOOLEAN
    /\ main \in [Processes -> {"down", "launching", "open", "leaving"}]
    /\ worker \in [Guis -> {"idle", "first", "second", "third", "found", "failed",
                            "stopping", "showing", "sorry"}]
    /\ mine \in [Guis -> 0..MaxAttempts]
    /\ handle \in [Guis -> 0..MaxAttempts]
    /\ reachable \in [Guis -> BOOLEAN]
    /\ buttons \in [Guis -> SUBSET {"start", "stop"}]
    /\ replaced \in [Guis -> SUBSET Attempt]
    /\ Cardinality({a \in Processes \X Attempt : stage[a[1]][a[2]] = "serving"}) <= 1

Init ==
    /\ stage = [p \in Processes |-> [n \in Attempt |-> "none"]]
    /\ toExit = [p \in Processes |-> [n \in Attempt |-> FALSE]]
    /\ stalled = FALSE /\ hiccup = FALSE
    /\ main = [p \in Processes |-> "down"]
    /\ worker = [g \in Guis |-> "idle"]
    /\ mine = [g \in Guis |-> 0]
    /\ handle = [g \in Guis |-> 0]
    /\ reachable = [g \in Guis |-> FALSE]
    /\ buttons = [g \in Guis |-> {}]
    /\ replaced = [g \in Guis |-> {}]
-----------------------------------------------------------------------------
(* The attempts: uvicorn's thread. *)

Bound == \E p \in Processes, n \in Attempt : stage[p][n] = "serving"

\* What wait_for_agent_ready finds: somebody answers /health.
Answering == Bound /\ ~stalled

\* An attempt that nobody has told to stop, bound or about to be.
Living(p, n) == stage[p][n] \in {"starting", "serving"} /\ ~toExit[p][n]

Becomes(p, n, s) == stage' = [stage EXCEPT ![p][n] = s]

\* The attempt a process makes next.
Fresh(p, n) ==
    /\ stage[p][n] = "none"
    /\ \A m \in 1..(n - 1) : stage[p][m] # "none"

\* Fault: the attempt that cannot bind the port leaves its monitors running.
BindOrLinger(p, n) ==
    /\ stage[p][n] = "starting"
    /\ ~Bound
    /\ Becomes(p, n, "serving")
    /\ UNCHANGED <<toExit, stalled, hiccup, main, guiVars>>

\* Fault: the port may be shared (SO_REUSEPORT).
BindShared(p, n) ==
    /\ stage[p][n] = "starting"
    /\ Becomes(p, n, "serving")
    /\ UNCHANGED <<toExit, stalled, hiccup, main, guiVars>>

\* The monitors run; now the port: one attempt has it, the others fail.
Bind(p, n) ==
    /\ stage[p][n] = "starting"
    /\ Becomes(p, n, IF Bound THEN "closing" ELSE "serving")
    /\ UNCHANGED <<toExit, stalled, hiccup, main, guiVars>>

\* The main loop sees should_exit: the port is closed.
StopServing(p, n) ==
    /\ stage[p][n] = "serving"
    /\ toExit[p][n]
    /\ Becomes(p, n, "closing")
    /\ UNCHANGED <<toExit, stalled, hiccup, main, guiVars>>

\* The application's shutdown has stopped the monitors: the thread ends, and
\* with it a "--serve" process.
EndThread(p, n) ==
    /\ stage[p][n] = "closing"
    /\ Becomes(p, n, "ended")
    /\ main' = IF p \in Servers THEN [main EXCEPT ![p] = "down"] ELSE main
    /\ UNCHANGED <<toExit, stalled, hiccup, guiVars>>

Stall ==
    /\ MayStall /\ ~stalled
    /\ stalled' = TRUE /\ hiccup' = TRUE
    /\ UNCHANGED <<stage, toExit, main, guiVars>>

Recover == stalled /\ stalled' = FALSE /\ UNCHANGED <<stage, toExit, hiccup, main, guiVars>>

\* Ctrl-C on a "--serve" process.
Interrupt(p) ==
    /\ MayLeave /\ p \in Servers
    /\ \E n \in Attempt : stage[p][n] = "serving" /\ toExit' = [toExit EXCEPT ![p][n] = TRUE]
    /\ UNCHANGED <<stage, stalled, hiccup, main, guiVars>>

\* run_agent.
Serve(p) ==
    /\ p \in Servers /\ main[p] = "down"
    /\ \E n \in Attempt : Fresh(p, n) /\ Becomes(p, n, "starting")
    /\ main' = [main EXCEPT ![p] = "open"]
    /\ UNCHANGED <<toExit, stalled, hiccup, guiVars>>
-----------------------------------------------------------------------------
(* ensure_agent_running, by run_gui's main thread or the Start button's. *)

Worker(g, from, to) == worker[g] = from /\ worker' = [worker EXCEPT ![g] = to]

\* run_gui.
Launch(g) ==
    /\ main[g] = "down"
    /\ main' = [main EXCEPT ![g] = "launching"]
    /\ Worker(g, "idle", "first")
    /\ UNCHANGED <<agentVars, mine, controllerVars, buttons>>

\* Fault: start() takes the result's reachability and not its handle.
ReturnReachable(g, found, attempt) ==
    /\ reachable' = [reachable EXCEPT ![g] = found]
    /\ mine' = [mine EXCEPT ![g] = 0]
    /\ UNCHANGED <<handle, replaced>>

\* AgentController.start takes over what the call returns.
Return(g, found, attempt) ==
    /\ reachable' = [reachable EXCEPT ![g] = found]
    /\ handle' = [handle EXCEPT ![g] = attempt]
    /\ mine' = [mine EXCEPT ![g] = 0]
    /\ UNCHANGED replaced

\* An agent is already running: it belongs to whoever started it.
FindRunning(g) ==
    /\ Answering
    /\ Worker(g, "first", "showing")
    /\ Return(g, TRUE, 0)
    /\ UNCHANGED <<agentVars, main, buttons>>

\* None answers within 0.5 s: start_agent_in_background.
StartOwn(g) ==
    /\ ~Answering
    /\ Worker(g, "first", "second")
    /\ \E n \in Attempt :
          /\ Fresh(g, n)
          /\ Becomes(g, n, "starting")
          /\ mine' = [mine EXCEPT ![g] = n]
    /\ UNCHANGED <<toExit, stalled, hiccup, main, controllerVars, buttons>>

\* Somebody answers /health: taken for the attempt just started.
FindOwn(g) ==
    /\ Answering
    /\ Worker(g, "second", "showing")
    /\ Return(g, TRUE, mine[g])
    /\ UNCHANGED <<agentVars, main, buttons>>

\* Nobody has answered for 5 s.
GiveUp(g) ==
    /\ ~Answering
    /\ Worker(g, "second", "third")
    /\ stage[g][mine[g]] # "starting"
    /\ UNCHANGED <<agentVars, main, mine, controllerVars, buttons>>

\* Fault: the attempt is dropped without being stopped.
RecheckNoStop(g) ==
    /\ Worker(g, "third", IF Answering THEN "found" ELSE "failed")
    /\ UNCHANGED <<agentVars, main, mine, controllerVars, buttons>>

\* The last look for a winner; either way the attempt is told to stop.
Recheck(g) ==
    /\ Worker(g, "third", IF Answering THEN "found" ELSE "failed")
    /\ toExit' = [toExit EXCEPT ![g][mine[g]] = TRUE]
    /\ UNCHANGED <<stage, stalled, hiccup, main, mine, controllerVars, buttons>>

\* thread.join(5 s) comes back, whether the attempt has ended or not.  A click
\* that failed is reported; a failed launch just opens the window.
Drop(g) ==
    /\ \/ Worker(g, "found", "showing") /\ Return(g, TRUE, 0)
       \/ Worker(g, "failed", IF main[g] = "open" THEN "sorry" ELSE "showing") /\ Return(g, FALSE, 0)
    /\ UNCHANGED <<agentVars, main, buttons>>
-----------------------------------------------------------------------------
(* The window: DashboardPage and the end of run_gui. *)

\* refresh: Start is enabled when the status request fails, Stop when this
\* process's controller holds a handle.  That request may fail although /health
\* answers: 401, 500, no token file.
Refresh(g) ==
    \E answered \in {Answering, FALSE} :
        /\ buttons' = [buttons EXCEPT ![g] = (IF answered THEN {} ELSE {"start"})
                                        \cup (IF handle[g] = 0 THEN {} ELSE {"stop"})]
        /\ hiccup' = (hiccup \/ answered # Answering)

\* The window opens, or a click's worker has ended.
Show(g) ==
    /\ \/ Worker(g, "showing", "idle") /\ Refresh(g)
       \/ /\ Worker(g, "sorry", "idle")
          /\ buttons' = [buttons EXCEPT ![g] = {"start"}] /\ UNCHANGED hiccup
    /\ main' = [main EXCEPT ![g] = IF @ = "launching" THEN "open" ELSE @]
    /\ UNCHANGED <<stage, toExit, stalled, mine, controllerVars>>

AtRest(g) == main[g] = "open" /\ worker[g] = "idle"

\* The page's timer; while a click is under way the buttons stay disabled.
TimerRefresh(g) ==
    /\ AtRest(g)
    /\ Refresh(g)
    /\ UNCHANGED <<stage, toExit, stalled, main, worker, mine, controllerVars>>

ClickStart(g) ==
    /\ AtRest(g) /\ "start" \in buttons[g]
    /\ \E n \in Attempt : Fresh(g, n)
    /\ Worker(g, "idle", "first")
    /\ buttons' = [buttons EXCEPT ![g] = {}]
    /\ replaced' = [replaced EXCEPT ![g] = @ \cup {n \in Attempt : Living(g, n)}]
    /\ UNCHANGED <<agentVars, main, mine, handle, reachable>>

StopHandle(g) == toExit' = [toExit EXCEPT ![g][handle[g]] = TRUE]

\* controller.stop: the handle's server is told to exit and joined.
ClickStop(g) ==
    /\ MayLeave
    /\ AtRest(g) /\ "stop" \in buttons[g]
    /\ StopHandle(g)
    /\ Worker(g, "idle", "stopping")
    /\ buttons' = [buttons EXCEPT ![g] = {}]
    /\ UNCHANGED <<stage, stalled, hiccup, main, mine, controllerVars>>

Stopped(g) ==
    /\ Worker(g, "stopping", "showing")
    /\ Return(g, FALSE, 0)
    /\ UNCHANGED <<agentVars, main, buttons>>

\* A process's threads end with it, and its port and buttons with them.
Gone(p) ==
    /\ main' = [main EXCEPT ![p] = "down"]
    /\ stage' = [stage EXCEPT ![p] = [n \in Attempt |-> IF @[n] = "none" THEN "none" ELSE "ended"]]
    /\ IF p \in Guis
       THEN /\ worker' = [worker EXCEPT ![p] = "idle"]
            /\ mine' = [mine EXCEPT ![p] = 0]
            /\ handle' = [handle EXCEPT ![p] = 0]
            /\ reachable' = [reachable EXCEPT ![p] = FALSE]
            /\ buttons' = [buttons EXCEPT ![p] = {}]
            /\ replaced' = [replaced EXCEPT ![p] = {}]
       ELSE UNCHANGED guiVars
    /\ UNCHANGED <<toExit, stalled, hiccup>>

\* Exit, whatever the workers do: an owned agent is stopped first.
Quit(g) ==
    /\ MayLeave
    /\ main[g] = "open"
    /\ \/ handle[g] = 0 /\ Gone(g)
       \/ /\ handle[g] # 0
          /\ StopHandle(g)
          /\ main' = [main EXCEPT ![g] = "leaving"]
          /\ UNCHANGED <<stage, stalled, hiccup, guiVars>>

Leave(g) ==
    /\ main[g] = "leaving"
    /\ Gone(g)

Kill(p) == MayLeave /\ main[p] # "down" /\ Gone(p)
-----------------------------------------------------------------------------
Thread(p) == \E n \in Attempt : Bind(p, n) \/ StopServing(p, n) \/ EndThread(p, n)

Controller(g) ==
    \/ FindRunning(g) \/ StartOwn(g) \/ FindOwn(g) \/ GiveUp(g) \/ Recheck(g) \/ Drop(g)
    \/ Show(g) \/ Stopped(g) \/ Leave(g)

Next ==
    \/ Stall \/ Recover
    \/ \E p \in Processes : Thread(p) \/ Serve(p) \/ Interrupt(p) \/ Kill(p)
    \/ \E g \in Guis : \/ Controller(g) \/ Launch(g) \/ TimerRefresh(g)
                       \/ ClickStart(g) \/ ClickStop(g) \/ Quit(g)

SafeSpec == Init /\ [][Next]_vars

\* The threads run, and the waits of a call come to their end.
Spec ==
    /\ SafeSpec
    /\ \A p \in Processes : WF_vars(Thread(p))
    /\ \A g \in Guis : WF_vars(Controller(g))
-----------------------------------------------------------------------------
\* Nobody else has used the port, and every request was answered by the agent
\* that was there.
Alone(g) == ~hiccup /\ \A p \in Processes \ {g}, n \in Attempt : stage[p][n] = "none"

(* "Single source of truth for whether this GUI process started (and thus     *)
(* owns) the agent": in no order of clicks, launches, exits and lost races is *)
(* an agent that a window hosts out of reach of its buttons: its controller   *)
(* holds it, its start() is about to hand it over, or it was told to stop.    *)
(* Only a click on Start while it runs can lose it, since start() takes over  *)
(* whatever the call returns; and a window alone with an agent that answers   *)
(* every request does not offer that click.                                   *)
AgentsAreOwned ==
    \A g \in Guis, n \in Attempt :
        /\ Living(g, n) => n \in {mine[g], handle[g]} \cup replaced[g]
        /\ Alone(g) => n \notin replaced[g]

(* The same words, taken as they are: at rest, a window that hosts the agent  *)
(* it is connected to holds its handle.                                       *)
OwnsWhatItStarted ==
    \A g \in Guis, n \in Attempt :
        AtRest(g) /\ reachable[g] /\ stage[g][n] = "serving" /\ ~toExit[g][n] => handle[g] = n

(* Whatever ensure_agent_running returns, the attempt it made is handed over  *)
(* or has been told to stop: the next attempt finds no zombie on the port.    *)
NoZombie ==
    [][\A g \in Guis :
          mine[g] # 0 /\ mine'[g] = 0 /\ main'[g] # "down" =>
              handle'[g] = mine[g] \/ toExit[g][mine[g]]]_vars

Live == {a \in Processes \X Attempt : stage[a[1]][a[2]] \in {"starting", "serving", "closing"}}

(* However many processes start at once: in the end one agent runs, with one  *)
(* set of monitors, and every window that opened is connected to it.          *)
RaceSettles ==
    \A g \in Guis : main[g] = "launching" ~>
        [](/\ Cardinality(Live) = 1 /\ Bound
           /\ main[g] = "open" /\ reachable[g])
=============================================================================
