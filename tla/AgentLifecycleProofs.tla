------------------------ MODULE AgentLifecycleProofs ------------------------
(***************************************************************************)
(* For any number of windows, "--serve" processes and attempts: the port   *)
(* has one owner, start() neither hands over nor leaves behind an attempt  *)
(* by mistake, and a window loses the agent it hosts only to a click on    *)
(* Start, which one that is alone with an agent that answers never offers. *)
(***************************************************************************)
EXTENDS AgentLifecycle, FiniteSetTheorems, TLAPS

Stages == {"none", "starting", "serving", "closing", "ended"}
Workers == {"idle", "first", "second", "third", "found", "failed", "stopping", "showing", "sorry"}

Types ==
    /\ stage \in [Processes -> [Attempt -> Stages]]
    /\ toExit \in [Processes -> [Attempt -> BOOLEAN]]
    /\ {stalled, hiccup} \subseteq BOOLEAN
    /\ main \in [Processes -> {"down", "launching", "open", "leaving"}]
    /\ worker \in [Guis -> Workers]
    /\ mine \in [Guis -> 0..MaxAttempts]
    /\ handle \in [Guis -> 0..MaxAttempts]
    /\ reachable \in [Guis -> BOOLEAN]
    /\ buttons \in [Guis -> SUBSET {"start", "stop"}]
    /\ replaced \in [Guis -> SUBSET Attempt]

OnePort ==
    \A p, q \in Processes : \A n, m \in Attempt :
        stage[p][n] = "serving" /\ stage[q][m] = "serving" => p = q /\ n = m

\* A call of start() that has made its attempt has it in mine until it returns.
Calling == {"second", "third", "found", "failed"}

\* What a window's thread has in hand at each of its steps.
InHand(g) ==
    /\ worker[g] \in Calling <=> mine[g] # 0
    /\ worker[g] \in {"found", "failed"} => toExit[g][mine[g]]
    /\ worker[g] # "idle" => buttons[g] = {}
    /\ main[g] = "down" => /\ worker[g] = "idle" /\ buttons[g] = {}
                           /\ \A n \in Attempt : stage[g][n] \in {"none", "ended"}

Controllers == (stalled => hiccup) /\ \A g \in Guis : InHand(g)

\* An attempt that lives and that Start was not clicked over.
Own(g, n) == Living(g, n) /\ n \notin replaced[g]

\* Where a window's own attempts are: none is left when start() or stop() is
\* about to put the call's result in place of the handle.
KeepsItsAgent(g) ==
    /\ \A n \in Attempt : Own(g, n) => n \in {mine[g], handle[g]}
    /\ worker[g] \in {"first", "found", "failed", "stopping"} => \A n \in Attempt : ~Own(g, n)
    /\ worker[g] \in {"second", "third"} => \A n \in Attempt : Own(g, n) => n = mine[g]

\* What a window alone on the machine knows of its attempts.  When it makes
\* one, none of those before it lives; while it is starting nobody answers,
\* so that an answer is its own, and Start is not offered while one lives.
KnowsItsAgent(g) ==
    /\ replaced[g] = {}
    /\ worker[g] = "sorry" \/ "start" \in buttons[g] => \A n \in Attempt : ~Living(g, n)
    /\ \A n \in Attempt :
           stage[g][n] = "starting" =>
               /\ n = mine[g] /\ worker[g] = "second"
               /\ \A m \in Attempt : stage[g][m] # "serving"

Owned == \A g \in Guis : KeepsItsAgent(g) /\ (Alone(g) => KnowsItsAgent(g))

IInv == Types /\ OnePort /\ Controllers /\ Owned
-----------------------------------------------------------------------------
(* What the pieces of an action do, attempt by attempt and window by window. *)

\* An attempt that moves moves alone.
LEMMA BecomesIs ==
    ASSUME Types, NEW p \in Processes, NEW n \in Attempt, NEW s \in Stages, Becomes(p, n, s)
    PROVE  /\ stage' \in [Processes -> [Attempt -> Stages]]
           /\ \A q \in Processes, m \in Attempt :
                 stage'[q][m] = IF q = p /\ m = n THEN s ELSE stage[q][m]
           /\ \A q \in Processes \ {p} : stage'[q] = stage[q]
  <1>1. stage \in [Processes -> [Attempt -> Stages]]  BY DEF Types
  <1>2. stage' = [stage EXCEPT ![p] = [stage[p] EXCEPT ![n] = s]]
    BY Zenon DEF Becomes
  <1>3. [stage[p] EXCEPT ![n] = s] \in [Attempt -> Stages]  BY <1>1
  <1> QED BY <1>1, <1>2, <1>3

\* An attempt that is told to exit is told alone; nobody is told to go on.
LEMMA ToldIs ==
    ASSUME Types, NEW p \in Processes, NEW n, toExit' = [toExit EXCEPT ![p][n] = TRUE]
    PROVE  /\ toExit' \in [Processes -> [Attempt -> BOOLEAN]]
           /\ \A q \in Processes, m \in Attempt : toExit[q][m] => toExit'[q][m]
           /\ n \in Attempt => toExit'[p][n]
           /\ \A q \in Processes \ {p} : toExit'[q] = toExit[q]
  <1>1. toExit \in [Processes -> [Attempt -> BOOLEAN]]  BY DEF Types
  <1>2. toExit[p] \in [Attempt -> BOOLEAN]  BY <1>1
  <1> DEFINE row == [toExit[p] EXCEPT ![n] = TRUE]
  <1>3. toExit' = [toExit EXCEPT ![p] = row]
    OBVIOUS
  <1>4. /\ row \in [Attempt -> BOOLEAN]
        /\ \A m \in Attempt : toExit[p][m] => row[m]
        /\ n \in Attempt => row[n]
    BY <1>2
  <1> HIDE DEF row
  <1>5. toExit' \in [Processes -> [Attempt -> BOOLEAN]] /\ toExit'[p] = row
        /\ \A q \in Processes \ {p} : toExit'[q] = toExit[q]
    BY <1>1, <1>3, <1>4
  <1>6. ASSUME NEW q \in Processes, NEW m \in Attempt, toExit[q][m]
        PROVE  toExit'[q][m]
    BY <1>4, <1>5, <1>6
  <1> QED BY <1>4, <1>5, <1>6

\* The threads of a process that has gone have ended; nobody else's have.
LEMMA GoneIs ==
    ASSUME Types, NEW p \in Processes, Gone(p)
    PROVE  /\ stage' \in [Processes -> [Attempt -> Stages]]
           /\ \A n \in Attempt : stage'[p][n] = IF stage[p][n] = "none" THEN "none" ELSE "ended"
           /\ \A q \in Processes \ {p} : stage'[q] = stage[q] /\ main'[q] = main[q]
           /\ main'[p] = "down"
           /\ main' \in [Processes -> {"down", "launching", "open", "leaving"}]
  <1>1. stage \in [Processes -> [Attempt -> Stages]]
        /\ main \in [Processes -> {"down", "launching", "open", "leaving"}]
    BY DEF Types
  <1> DEFINE row == [n \in Attempt |-> IF stage[p][n] = "none" THEN "none" ELSE "ended"]
  <1>2. stage' = [stage EXCEPT ![p] = row]  BY Zenon DEF Gone
  <1>3. row \in [Attempt -> Stages]  BY DEF Stages
  <1>4. \A n \in Attempt : row[n] = IF stage[p][n] = "none" THEN "none" ELSE "ended"  OBVIOUS
  <1> HIDE DEF row
  <1>5. stage' \in [Processes -> [Attempt -> Stages]] /\ stage'[p] = row
        /\ \A q \in Processes \ {p} : stage'[q] = stage[q]
    BY <1>1, <1>2, <1>3
  <1>6. main' = [main EXCEPT ![p] = "down"]  BY DEF Gone
  <1> QED BY <1>1, <1>4, <1>5, <1>6

\* The rest of what a process's end leaves: its own window, if it has one, at rest.
LEMMA GoneLeaves ==
    ASSUME Types, NEW p \in Processes, Gone(p), NEW g \in Guis
    PROVE  /\ worker' \in [Guis -> Workers] /\ mine' \in [Guis -> 0..MaxAttempts]
           /\ handle' \in [Guis -> 0..MaxAttempts] /\ reachable' \in [Guis -> BOOLEAN]
           /\ buttons' \in [Guis -> SUBSET {"start", "stop"}]
           /\ replaced' \in [Guis -> SUBSET Attempt]
           /\ g = p => /\ worker'[g] = "idle" /\ mine'[g] = 0 /\ handle'[g] = 0
                       /\ buttons'[g] = {} /\ replaced'[g] = {}
           /\ g # p => /\ worker'[g] = worker[g] /\ mine'[g] = mine[g] /\ handle'[g] = handle[g]
                       /\ buttons'[g] = buttons[g] /\ replaced'[g] = replaced[g]
  <1>1. 0 \in 0..MaxAttempts  BY AgentLifecycleAssumption DEF AgentLifecycleAssumption
  <1>2. CASE p \in Guis
    <2>1. /\ worker' = [worker EXCEPT ![p] = "idle"] /\ mine' = [mine EXCEPT ![p] = 0]
          /\ handle' = [handle EXCEPT ![p] = 0] /\ reachable' = [reachable EXCEPT ![p] = FALSE]
          /\ buttons' = [buttons EXCEPT ![p] = {}] /\ replaced' = [replaced EXCEPT ![p] = {}]
      BY <1>2 DEF Gone
    <2> QED BY <1>1, <1>2, <2>1 DEF Types, Workers
  <1>3. CASE p \notin Guis
    BY <1>3 DEF Gone, Types, guiVars, controllerVars
  <1> QED BY <1>2, <1>3

\* A worker's step is its own.
LEMMA WorkerIs ==
    ASSUME Types, NEW g \in Guis, NEW from, NEW to \in Workers, Worker(g, from, to)
    PROVE  /\ worker' \in [Guis -> Workers]
           /\ worker[g] = from /\ worker'[g] = to
           /\ \A h \in Guis \ {g} : worker'[h] = worker[h]
  BY DEF Types, Worker

\* So is what the controller takes over.
LEMMA ReturnIs ==
    ASSUME Types, NEW g \in Guis, NEW found \in BOOLEAN, NEW a \in 0..MaxAttempts,
           Return(g, found, a)
    PROVE  /\ reachable' \in [Guis -> BOOLEAN]
           /\ handle' \in [Guis -> 0..MaxAttempts] /\ mine' \in [Guis -> 0..MaxAttempts]
           /\ handle'[g] = a /\ mine'[g] = 0 /\ replaced' = replaced
           /\ \A h \in Guis \ {g} : handle'[h] = handle[h] /\ mine'[h] = mine[h]
  <1>1. 0 \in 0..MaxAttempts  BY AgentLifecycleAssumption DEF AgentLifecycleAssumption
  <1> QED BY <1>1 DEF Types, Return

\* And what its buttons show.
LEMMA RefreshIs ==
    ASSUME Types, NEW g \in Guis, Refresh(g)
    PROVE  /\ buttons' \in [Guis -> SUBSET {"start", "stop"}] /\ hiccup' \in BOOLEAN
           /\ hiccup => hiccup'
           /\ "start" \in buttons'[g] => ~Answering \/ hiccup'
           /\ \A h \in Guis \ {g} : buttons'[h] = buttons[h]
  <1> PICK answered \in {Answering, FALSE} :
          /\ buttons' = [buttons EXCEPT ![g] = (IF answered THEN {} ELSE {"start"})
                                          \cup (IF handle[g] = 0 THEN {} ELSE {"stop"})]
          /\ hiccup' = (hiccup \/ answered # Answering)
    BY DEF Refresh
  <1> DEFINE shown == (IF answered THEN {} ELSE {"start"}) \cup (IF handle[g] = 0 THEN {} ELSE {"stop"})
  <1>1. shown \in SUBSET {"start", "stop"} /\ ("start" \in shown => ~answered)  OBVIOUS
  <1>2. buttons' = [buttons EXCEPT ![g] = shown]  OBVIOUS
  <1>3. Answering \in BOOLEAN  BY DEF Answering, Bound
  <1>4. hiccup' \in BOOLEAN /\ (hiccup => hiccup') /\ (~answered => ~Answering \/ hiccup')
    BY <1>3 DEF Types
  <1> HIDE DEF shown
  <1> QED BY <1>1, <1>2, <1>4 DEF Types
-----------------------------------------------------------------------------
(* What every step keeps. *)

\* The invariant holds before anything has been started.
LEMMA InitHolds == Init => IInv
  <1> SUFFICES ASSUME Init PROVE IInv
    OBVIOUS
  <1>1. 0 \in 0..MaxAttempts  BY AgentLifecycleAssumption DEF AgentLifecycleAssumption
  <1>2. Types
    BY <1>1 DEF Init, Types, Stages, Workers
  <1>3. \A p \in Processes, n \in Attempt : stage[p][n] = "none"
    BY DEF Init
  <1>4. \A g \in Guis : /\ worker[g] = "idle" /\ mine[g] = 0 /\ buttons[g] = {} /\ g \in Processes
                       /\ replaced[g] = {}
    BY DEF Init, Processes
  <1>5. OnePort
    BY <1>3 DEF OnePort
  <1>6. Controllers
    BY <1>3, <1>4 DEF Controllers, InHand, Calling, Init
  <1>7. \A g \in Guis : KeepsItsAgent(g) /\ KnowsItsAgent(g)
    BY <1>3, <1>4 DEF KeepsItsAgent, Own, KnowsItsAgent, Living
  <1> QED BY <1>2, <1>5, <1>6, <1>7 DEF IInv, Owned

\* A window's process is a process of the machine.
LEMMA GuiIsProcess == \A g \in Guis : g \in Processes
  BY DEF Processes

\* Every variable keeps its type: first the threads' steps,
LEMMA TypesOfThread ==
    ASSUME Types, NEW p \in Processes, Thread(p)
    PROVE  Types'
  <1> PICK n \in Attempt : Bind(p, n) \/ StopServing(p, n) \/ EndThread(p, n)
    BY DEF Thread
  <1>1. PICK s \in Stages : Becomes(p, n, s)
    <2>1. CASE Bind(p, n)
      BY <2>1 DEF Bind, Stages
    <2>2. CASE StopServing(p, n)
      BY <2>2 DEF StopServing, Stages
    <2>3. CASE EndThread(p, n)
      BY <2>3 DEF EndThread, Stages
    <2> QED BY <2>1, <2>2, <2>3
  <1>2. stage' \in [Processes -> [Attempt -> Stages]]
    BY <1>1, BecomesIs
  <1>3. UNCHANGED <<toExit, stalled, hiccup, guiVars>>
    BY DEF Bind, StopServing, EndThread
  <1>4. main' \in [Processes -> {"down", "launching", "open", "leaving"}]
    <2>1. main \in [Processes -> {"down", "launching", "open", "leaving"}]  BY DEF Types
    <2>2. main' = main \/ main' = [main EXCEPT ![p] = "down"]
      BY DEF Bind, StopServing, EndThread
    <2> QED BY <2>1, <2>2
  <1> QED BY <1>2, <1>3, <1>4 DEF Types, guiVars, controllerVars

\* then those of the machine,
LEMMA TypesOfMachine ==
    ASSUME Types, NEW p \in Processes, Serve(p) \/ Interrupt(p) \/ Gone(p)
    PROVE  Types'
  <1>1. CASE Serve(p)
    <2> PICK n \in Attempt : Becomes(p, n, "starting")
      BY <1>1 DEF Serve
    <2>1. stage' \in [Processes -> [Attempt -> Stages]]
      BY BecomesIs DEF Stages
    <2>2. main' = [main EXCEPT ![p] = "open"] /\ UNCHANGED <<toExit, stalled, hiccup, guiVars>>
      BY <1>1 DEF Serve
    <2> QED BY <2>1, <2>2 DEF Types, guiVars, controllerVars
  <1>2. CASE Interrupt(p)
    <2> PICK n \in Attempt : toExit' = [toExit EXCEPT ![p][n] = TRUE]
      BY <1>2 DEF Interrupt
    <2>1. toExit' \in [Processes -> [Attempt -> BOOLEAN]]
      BY ToldIs
    <2> QED BY <1>2, <2>1 DEF Interrupt, Types, guiVars, controllerVars
  <1>3. CASE Gone(p)
    <2>1. /\ stage' \in [Processes -> [Attempt -> Stages]]
          /\ main' \in [Processes -> {"down", "launching", "open", "leaving"}]
      BY <1>3, GoneIs
    <2>2. UNCHANGED <<toExit, stalled, hiccup>>
      BY <1>3 DEF Gone
    <2>3. /\ worker' \in [Guis -> Workers] /\ mine' \in [Guis -> 0..MaxAttempts]
          /\ handle' \in [Guis -> 0..MaxAttempts] /\ reachable' \in [Guis -> BOOLEAN]
          /\ buttons' \in [Guis -> SUBSET {"start", "stop"}]
          /\ replaced' \in [Guis -> SUBSET Attempt]
      <3>1. CASE p \in Guis
        BY <1>3, <3>1, GoneLeaves
      <3>2. CASE p \notin Guis
        BY <1>3, <3>2 DEF Gone, Types, guiVars, controllerVars
      <3> QED BY <3>1, <3>2
    <2> QED BY <2>1, <2>2, <2>3 DEF Types
  <1> QED BY <1>1, <1>2, <1>3

\* then those of ensure_agent_running,
LEMMA TypesOfController ==
    ASSUME Types, NEW g \in Guis,
           \/ FindRunning(g) \/ StartOwn(g) \/ FindOwn(g) \/ GiveUp(g)
           \/ Recheck(g) \/ Drop(g) \/ Stopped(g)
    PROVE  Types'
  <1> g \in Processes  BY GuiIsProcess
  <1>0. 0 \in 0..MaxAttempts /\ mine[g] \in 0..MaxAttempts
    BY AgentLifecycleAssumption DEF AgentLifecycleAssumption, Types
  <1>1. CASE FindRunning(g)
    <2>1. Worker(g, "first", "showing") /\ Return(g, TRUE, 0)
      BY <1>1 DEF FindRunning
    <2>2. worker' \in [Guis -> Workers]
      BY <2>1, WorkerIs DEF Workers
    <2>3. /\ reachable' \in [Guis -> BOOLEAN] /\ handle' \in [Guis -> 0..MaxAttempts]
          /\ mine' \in [Guis -> 0..MaxAttempts] /\ replaced' = replaced
      BY <1>0, <2>1, ReturnIs
    <2> QED BY <1>1, <2>2, <2>3 DEF FindRunning, Types, agentVars
  <1>2. CASE StartOwn(g)
    <2>1. Worker(g, "first", "second")
      BY <1>2 DEF StartOwn
    <2>2. worker' \in [Guis -> Workers]
      BY <2>1, WorkerIs DEF Workers
    <2>3. PICK n \in Attempt : Becomes(g, n, "starting") /\ mine' = [mine EXCEPT ![g] = n]
      BY <1>2 DEF StartOwn
    <2>4. stage' \in [Processes -> [Attempt -> Stages]]
      BY <2>3, BecomesIs DEF Stages
    <2>5. mine' \in [Guis -> 0..MaxAttempts]
      <3>1. n \in 0..MaxAttempts  BY DEF Attempt
      <3> QED BY <2>3, <3>1 DEF Types
    <2> QED BY <1>2, <2>2, <2>4, <2>5 DEF StartOwn, Types, controllerVars
  <1>3. CASE FindOwn(g)
    <2>1. Worker(g, "second", "showing") /\ Return(g, TRUE, mine[g])
      BY <1>3 DEF FindOwn
    <2>2. worker' \in [Guis -> Workers]
      BY <2>1, WorkerIs DEF Workers
    <2>3. /\ reachable' \in [Guis -> BOOLEAN] /\ handle' \in [Guis -> 0..MaxAttempts]
          /\ mine' \in [Guis -> 0..MaxAttempts] /\ replaced' = replaced
      BY <1>0, <2>1, ReturnIs
    <2> QED BY <1>3, <2>2, <2>3 DEF FindOwn, Types, agentVars
  <1>4. CASE GiveUp(g)
    <2>1. Worker(g, "second", "third")
      BY <1>4 DEF GiveUp
    <2>2. worker' \in [Guis -> Workers]
      BY <2>1, WorkerIs DEF Workers
    <2> QED BY <1>4, <2>2 DEF GiveUp, Types, agentVars, controllerVars
  <1>5. CASE Recheck(g)
    <2>1. Worker(g, "third", IF Answering THEN "found" ELSE "failed")
          /\ toExit' = [toExit EXCEPT ![g][mine[g]] = TRUE]
      BY <1>5 DEF Recheck
    <2>2. worker' \in [Guis -> Workers]
      BY <2>1, WorkerIs DEF Workers
    <2>3. toExit' \in [Processes -> [Attempt -> BOOLEAN]]
      BY <2>1, ToldIs
    <2> QED BY <1>5, <2>2, <2>3 DEF Recheck, Types, controllerVars
  <1>6. CASE Drop(g)
    <2>1. PICK from, w \in Workers, b \in BOOLEAN : Worker(g, from, w) /\ Return(g, b, 0)
      <3>1. {"found", "failed", "showing", "sorry"} \subseteq Workers  BY DEF Workers
      <3>2. CASE Worker(g, "found", "showing") /\ Return(g, TRUE, 0)
        BY <3>1, <3>2
      <3>3. CASE Worker(g, "failed", "sorry") /\ Return(g, FALSE, 0)
        BY <3>1, <3>3
      <3>4. CASE Worker(g, "failed", "showing") /\ Return(g, FALSE, 0)
        BY <3>1, <3>4
      <3> QED BY <1>6, <3>2, <3>3, <3>4 DEF Drop
    <2>2. worker' \in [Guis -> Workers]
      BY <2>1, WorkerIs
    <2>3. /\ reachable' \in [Guis -> BOOLEAN] /\ handle' \in [Guis -> 0..MaxAttempts]
          /\ mine' \in [Guis -> 0..MaxAttempts] /\ replaced' = replaced
      BY <1>0, <2>1, ReturnIs
    <2> QED BY <1>6, <2>2, <2>3 DEF Drop, Types, agentVars
  <1>7. CASE Stopped(g)
    <2>1. Worker(g, "stopping", "showing") /\ Return(g, FALSE, 0)
      BY <1>7 DEF Stopped
    <2>2. worker' \in [Guis -> Workers]
      BY <2>1, WorkerIs DEF Workers
    <2>3. /\ reachable' \in [Guis -> BOOLEAN] /\ handle' \in [Guis -> 0..MaxAttempts]
          /\ mine' \in [Guis -> 0..MaxAttempts] /\ replaced' = replaced
      BY <1>0, <2>1, ReturnIs
    <2> QED BY <1>7, <2>2, <2>3 DEF Stopped, Types, agentVars
  <1> QED BY <1>1, <1>2, <1>3, <1>4, <1>5, <1>6, <1>7

\* and those of the window.
LEMMA TypesOfWindow ==
    ASSUME Types, NEW g \in Guis,
           \/ Show(g) \/ Launch(g) \/ TimerRefresh(g) \/ ClickStart(g) \/ ClickStop(g)
           \/ Quit(g) \/ Leave(g)
    PROVE  Types'
  <1> g \in Processes  BY GuiIsProcess
  <1>1. CASE Show(g)
    <2>1. PICK from : Worker(g, from, "idle")
      BY <1>1 DEF Show
    <2>2. worker' \in [Guis -> Workers]
      BY <2>1, WorkerIs DEF Workers
    <2>3. buttons' \in [Guis -> SUBSET {"start", "stop"}] /\ hiccup' \in BOOLEAN
      <3>1. CASE Refresh(g)
        BY <3>1, RefreshIs
      <3>2. CASE buttons' = [buttons EXCEPT ![g] = {"start"}] /\ UNCHANGED hiccup
        BY <3>2 DEF Types
      <3> QED BY <1>1, <3>1, <3>2 DEF Show
    <2>4. main' \in [Processes -> {"down", "launching", "open", "leaving"}]
      BY <1>1 DEF Show, Types
    <2> QED BY <1>1, <2>2, <2>3, <2>4 DEF Show, Types, controllerVars
  <1>2. CASE Launch(g)
    <2>1. worker' \in [Guis -> Workers]
      BY <1>2, WorkerIs DEF Launch, Workers
    <2> QED BY <1>2, <2>1 DEF Launch, Types, agentVars, controllerVars
  <1>3. CASE TimerRefresh(g)
    <2>1. buttons' \in [Guis -> SUBSET {"start", "stop"}] /\ hiccup' \in BOOLEAN
      BY <1>3, RefreshIs DEF TimerRefresh
    <2> QED BY <1>3, <2>1 DEF TimerRefresh, Types, controllerVars
  <1>4. CASE ClickStart(g)
    <2>1. worker' \in [Guis -> Workers]
      BY <1>4, WorkerIs DEF ClickStart, Workers
    <2>2. replaced' \in [Guis -> SUBSET Attempt]
      BY <1>4 DEF ClickStart, Types
    <2> QED BY <1>4, <2>1, <2>2 DEF ClickStart, Types, agentVars
  <1>5. CASE ClickStop(g)
    <2>1. worker' \in [Guis -> Workers]
      BY <1>5, WorkerIs DEF ClickStop, Workers
    <2>2. toExit' \in [Processes -> [Attempt -> BOOLEAN]]
      BY <1>5, ToldIs DEF ClickStop, StopHandle
    <2> QED BY <1>5, <2>1, <2>2 DEF ClickStop, Types, controllerVars
  <1>6. CASE Quit(g)
    <2>1. CASE Gone(g)
      BY <2>1, TypesOfMachine
    <2>2. CASE StopHandle(g) /\ main' = [main EXCEPT ![g] = "leaving"]
               /\ UNCHANGED <<stage, stalled, hiccup, guiVars>>
      <3>1. toExit' \in [Processes -> [Attempt -> BOOLEAN]]
        BY <2>2, ToldIs DEF StopHandle
      <3> QED BY <2>2, <3>1 DEF Types, guiVars, controllerVars
    <2> QED BY <1>6, <2>1, <2>2 DEF Quit
  <1>7. CASE Leave(g)
    BY <1>7, TypesOfMachine DEF Leave
  <1> QED BY <1>1, <1>2, <1>3, <1>4, <1>5, <1>6, <1>7

\* All of them together.
LEMMA TypesStep ==
    ASSUME Types, [Next]_vars
    PROVE  Types'
  <1>1. CASE Stall \/ Recover
    BY <1>1 DEF Stall, Recover, Types, guiVars, controllerVars
  <1>2. CASE \E p \in Processes : Thread(p) \/ Serve(p) \/ Interrupt(p) \/ Kill(p)
    BY <1>2, TypesOfThread, TypesOfMachine DEF Kill
  <1>3. CASE \E g \in Guis : \/ Controller(g) \/ Launch(g) \/ TimerRefresh(g)
                             \/ ClickStart(g) \/ ClickStop(g) \/ Quit(g)
    BY <1>3, TypesOfController, TypesOfWindow DEF Controller
  <1>4. CASE UNCHANGED vars
    BY <1>4 DEF vars, agentVars, guiVars, controllerVars, Types
  <1> QED BY <1>1, <1>2, <1>3, <1>4 DEF Next
-----------------------------------------------------------------------------
(* How attempts move, and one owner for the port. *)

\* A step moves no attempt, moves one on, to the port only if it is free, or
\* ends those of a process.
LEMMA StageMoves ==
    ASSUME [Next]_vars
    PROVE  \/ stage' = stage
           \/ \E p \in Processes, n \in Attempt, s \in Stages \ {"none"} :
                 Becomes(p, n, s) /\ (s = "serving" => ~Bound)
           \/ \E p \in Processes : Gone(p)
  <1>0. {"starting", "serving", "closing", "ended"} \subseteq Stages \ {"none"}
    BY DEF Stages
  <1>1. CASE Stall \/ Recover \/ UNCHANGED vars
    BY <1>1 DEF Stall, Recover, vars, agentVars
  <1>2. ASSUME NEW p \in Processes, Thread(p) \/ Serve(p) \/ Interrupt(p) \/ Kill(p)
        PROVE  \/ stage' = stage
               \/ \E n \in Attempt, s \in Stages \ {"none"} :
                     Becomes(p, n, s) /\ (s = "serving" => ~Bound)
               \/ Gone(p)
    <2>1. CASE Thread(p)
      <3> PICK n \in Attempt : Bind(p, n) \/ StopServing(p, n) \/ EndThread(p, n)
        BY <2>1 DEF Thread
      <3>1. CASE Bind(p, n) /\ Bound
        <4>1. Becomes(p, n, "closing")
          BY <3>1 DEF Bind
        <4> QED BY <1>0, <4>1
      <3>2. CASE Bind(p, n) /\ ~Bound
        <4>1. Becomes(p, n, "serving")
          BY <3>2 DEF Bind
        <4> QED BY <1>0, <3>2, <4>1
      <3>3. CASE StopServing(p, n)
        BY <1>0, <3>3 DEF StopServing
      <3>4. CASE EndThread(p, n)
        BY <1>0, <3>4 DEF EndThread
      <3> QED BY <3>1, <3>2, <3>3, <3>4
    <2>2. CASE Serve(p)
      <3>1. PICK n \in Attempt : Becomes(p, n, "starting")
        BY <2>2 DEF Serve
      <3> QED BY <1>0, <3>1
    <2>3. CASE Interrupt(p)
      BY <2>3 DEF Interrupt
    <2>4. CASE Kill(p)
      BY <2>4 DEF Kill
    <2> QED BY <1>2, <2>1, <2>2, <2>3, <2>4
  <1>3. ASSUME NEW g \in Guis,
               \/ Controller(g) \/ Launch(g) \/ TimerRefresh(g)
               \/ ClickStart(g) \/ ClickStop(g) \/ Quit(g)
        PROVE  \/ stage' = stage
               \/ \E n \in Attempt, s \in Stages \ {"none"} :
                     Becomes(g, n, s) /\ (s = "serving" => ~Bound)
               \/ Gone(g)
    <2>1. CASE StartOwn(g)
      <3>1. PICK n \in Attempt : Becomes(g, n, "starting")
        BY <2>1 DEF StartOwn
      <3> QED BY <1>0, <3>1
    <2>2. CASE Quit(g)
      BY <2>2 DEF Quit
    <2>3. CASE Leave(g)
      BY <2>3 DEF Leave
    <2>4. CASE \/ FindRunning(g) \/ FindOwn(g) \/ GiveUp(g) \/ Recheck(g) \/ Drop(g)
               \/ Show(g) \/ Stopped(g) \/ Launch(g) \/ TimerRefresh(g)
               \/ ClickStart(g) \/ ClickStop(g)
      BY <2>4 DEF FindRunning, FindOwn, GiveUp, Recheck, Drop, Show, Stopped, Launch,
                  TimerRefresh, ClickStart, ClickStop, agentVars
    <2> QED BY <1>3, <2>1, <2>2, <2>3, <2>4 DEF Controller
  <1> QED BY <1>1, <1>2, <1>3, GuiIsProcess, Zenon DEF Next

\* An attempt that has been made stays made, and a hiccup is remembered: a
\* window that is alone after a step was alone before it.
LEMMA AloneBefore ==
    ASSUME Types, [Next]_vars, NEW g \in Guis, Alone(g)'
    PROVE  Alone(g)
  <1>1. ASSUME NEW p \in Processes, NEW n \in Attempt, stage'[p][n] = "none"
        PROVE  stage[p][n] = "none"
    <2>1. CASE stage' = stage
      BY <1>1, <2>1
    <2>2. ASSUME NEW q \in Processes, NEW m \in Attempt, NEW s \in Stages \ {"none"},
                 Becomes(q, m, s)
          PROVE  stage[p][n] = "none"
      BY <1>1, <2>2, BecomesIs
    <2>3. ASSUME NEW q \in Processes, Gone(q)
          PROVE  stage[p][n] = "none"
      <3>1. CASE p = q
        BY <1>1, <2>3, <3>1, GoneIs
      <3>2. CASE p # q
        BY <1>1, <2>3, <3>2, GoneIs
      <3> QED BY <3>1, <3>2
    <2> QED BY <2>1, <2>2, <2>3, StageMoves
  <1>2. hiccup => hiccup'
    BY DEF Next, Stall, Recover, Thread, Bind, StopServing, EndThread, Serve, Interrupt, Kill, Gone,
           Controller, FindRunning, StartOwn, FindOwn, GiveUp, Recheck, Drop, Show, Stopped,
           Leave, Launch, TimerRefresh, ClickStart, ClickStop, Quit, Refresh, vars, agentVars
  <1> QED BY <1>1, <1>2 DEF Alone

\* Only a free port is bound.
LEMMA OnePortStep ==
    ASSUME Types, OnePort, [Next]_vars
    PROVE  OnePort'
  <1>1. CASE stage' = stage
    BY <1>1 DEF OnePort
  <1>2. ASSUME NEW p \in Processes, NEW n \in Attempt, NEW s \in Stages,
               Becomes(p, n, s), s = "serving" => ~Bound
        PROVE  OnePort'
    <2> SUFFICES ASSUME NEW q \in Processes, NEW r \in Processes,
                        NEW m \in Attempt, NEW k \in Attempt,
                        stage'[q][m] = "serving", stage'[r][k] = "serving"
                 PROVE  q = r /\ m = k
      BY DEF OnePort
    <2>1. \A t \in Processes, l \in Attempt :
             stage'[t][l] = IF t = p /\ l = n THEN s ELSE stage[t][l]
      BY <1>2, BecomesIs
    <2>2. CASE s = "serving"
      BY <1>2, <2>1, <2>2 DEF Bound
    <2>3. CASE s # "serving"
      <3>1. stage[q][m] = "serving" /\ stage[r][k] = "serving"
        BY <2>1, <2>3
      <3> QED BY <3>1 DEF OnePort
    <2> QED BY <2>2, <2>3
  <1>3. ASSUME NEW p \in Processes, Gone(p)
        PROVE  OnePort'
    <2>1. \A q \in Processes, m \in Attempt : stage'[q][m] = "serving" => stage[q][m] = "serving"
      <3> SUFFICES ASSUME NEW q \in Processes, NEW m \in Attempt, stage'[q][m] = "serving"
                   PROVE  stage[q][m] = "serving"
        OBVIOUS
      <3>1. CASE q = p
        BY <1>3, <3>1, GoneIs
      <3>2. CASE q # p
        BY <1>3, <3>2, GoneIs
      <3> QED BY <3>1, <3>2
    <2> QED BY <2>1 DEF OnePort
  <1> QED BY <1>1, <1>2, <1>3, StageMoves
-----------------------------------------------------------------------------
(* Steps that are not a window's own leave it as it was. *)

Untouched(g) ==
    /\ stage'[g] = stage[g] /\ toExit'[g] = toExit[g] /\ main'[g] = main[g]
    /\ worker'[g] = worker[g] /\ mine'[g] = mine[g]
    /\ handle'[g] = handle[g] /\ buttons'[g] = buttons[g] /\ replaced'[g] = replaced[g]

\* Another process's threads, exit or interrupt are not this one's.
LEMMA OthersThreads ==
    ASSUME Types, NEW g \in Guis, NEW p \in Processes \ {g},
           Thread(p) \/ Serve(p) \/ Interrupt(p) \/ Gone(p)
    PROVE  Untouched(g)
  <1> g \in Processes  BY GuiIsProcess
  <1>0. main \in [Processes -> {"down", "launching", "open", "leaving"}]  BY DEF Types
  <1>1. CASE Thread(p)
    <2> PICK n \in Attempt : Bind(p, n) \/ StopServing(p, n) \/ EndThread(p, n)
      BY <1>1 DEF Thread
    <2>1. PICK s \in Stages : Becomes(p, n, s)
      <3>1. CASE Bind(p, n)
        BY <3>1 DEF Bind, Stages
      <3>2. CASE StopServing(p, n)
        BY <3>2 DEF StopServing, Stages
      <3>3. CASE EndThread(p, n)
        BY <3>3 DEF EndThread, Stages
      <3> QED BY <3>1, <3>2, <3>3
    <2>2. stage'[g] = stage[g]
      BY <2>1, BecomesIs
    <2>3. main'[g] = main[g]
      <3>1. main' = main \/ main' = [main EXCEPT ![p] = "down"]
        BY DEF Bind, StopServing, EndThread
      <3> QED BY <1>0, <3>1
    <2> QED BY <2>2, <2>3 DEF Bind, StopServing, EndThread, Untouched, guiVars, controllerVars
  <1>2. CASE Serve(p)
    <2> PICK n \in Attempt : Becomes(p, n, "starting")
      BY <1>2 DEF Serve
    <2>1. stage'[g] = stage[g]
      BY BecomesIs DEF Stages
    <2>2. main'[g] = main[g]
      BY <1>0, <1>2 DEF Serve
    <2> QED BY <1>2, <2>1, <2>2 DEF Serve, Untouched, guiVars, controllerVars
  <1>3. CASE Interrupt(p)
    <2> PICK n \in Attempt : toExit' = [toExit EXCEPT ![p][n] = TRUE]
      BY <1>3 DEF Interrupt
    <2>1. toExit'[g] = toExit[g]
      BY ToldIs
    <2> QED BY <1>3, <2>1 DEF Interrupt, Untouched, guiVars, controllerVars
  <1>4. CASE Gone(p)
    <2>1. stage'[g] = stage[g] /\ main'[g] = main[g]
      BY <1>4, GoneIs
    <2>2. /\ worker'[g] = worker[g] /\ mine'[g] = mine[g]
          /\ handle'[g] = handle[g] /\ buttons'[g] = buttons[g] /\ replaced'[g] = replaced[g]
      BY <1>4, GoneLeaves
    <2>3. toExit' = toExit
      BY <1>4 DEF Gone
    <2> QED BY <2>1, <2>2, <2>3 DEF Untouched
  <1> QED BY <1>1, <1>2, <1>3, <1>4

\* Nor is another window's start(), stop() or click.
LEMMA OthersWindows ==
    ASSUME Types, NEW g \in Guis, NEW h \in Guis \ {g},
           \/ Controller(h) \/ Launch(h) \/ TimerRefresh(h)
           \/ ClickStart(h) \/ ClickStop(h) \/ Quit(h)
    PROVE  Untouched(g)
  <1> g \in Processes /\ h \in Processes  BY GuiIsProcess
  <1>0. /\ main \in [Processes -> {"down", "launching", "open", "leaving"}]
        /\ worker \in [Guis -> Workers] /\ buttons \in [Guis -> SUBSET {"start", "stop"}]
        /\ mine \in [Guis -> 0..MaxAttempts] /\ handle \in [Guis -> 0..MaxAttempts]
        /\ replaced \in [Guis -> SUBSET Attempt]
    BY DEF Types
  <1>1. CASE FindRunning(h) \/ FindOwn(h) \/ GiveUp(h) \/ Drop(h) \/ Stopped(h)
    <2>1. worker'[g] = worker[g]
      BY <1>0, <1>1 DEF FindRunning, FindOwn, GiveUp, Drop, Stopped, Worker
    <2>2. mine'[g] = mine[g] /\ handle'[g] = handle[g] /\ replaced'[g] = replaced[g]
      BY <1>0, <1>1 DEF FindRunning, FindOwn, GiveUp, Drop, Stopped, Return, controllerVars
    <2>3. UNCHANGED <<agentVars, main, buttons>>
      BY <1>1 DEF FindRunning, FindOwn, GiveUp, Drop, Stopped
    <2> QED BY <2>1, <2>2, <2>3 DEF Untouched, agentVars
  <1>2. CASE StartOwn(h)
    <2> PICK n \in Attempt : Becomes(h, n, "starting") /\ mine' = [mine EXCEPT ![h] = n]
      BY <1>2 DEF StartOwn
    <2>1. stage'[g] = stage[g]
      BY BecomesIs DEF Stages
    <2>2. worker'[g] = worker[g] /\ mine'[g] = mine[g]
      BY <1>0, <1>2 DEF StartOwn, Worker
    <2> QED BY <1>2, <2>1, <2>2 DEF StartOwn, Untouched, controllerVars
  <1>3. CASE Recheck(h)
    <2>1. toExit'[g] = toExit[g]
      BY <1>3, ToldIs DEF Recheck
    <2>2. worker'[g] = worker[g]
      BY <1>0, <1>3 DEF Recheck, Worker
    <2> QED BY <1>3, <2>1, <2>2 DEF Recheck, Untouched, controllerVars
  <1>4. CASE Show(h) \/ TimerRefresh(h) \/ ClickStart(h)
    <2>1. worker'[g] = worker[g] /\ buttons'[g] = buttons[g] /\ main'[g] = main[g]
      BY <1>0, <1>4 DEF Show, TimerRefresh, ClickStart, Worker, Refresh
    <2>2. UNCHANGED <<stage, toExit, mine, handle>> /\ replaced'[g] = replaced[g]
      BY <1>0, <1>4 DEF Show, TimerRefresh, ClickStart, agentVars, controllerVars
    <2> QED BY <2>1, <2>2 DEF Untouched
  <1>5. CASE Launch(h)
    <2>1. worker'[g] = worker[g] /\ main'[g] = main[g]
      BY <1>0, <1>5 DEF Launch, Worker
    <2> QED BY <1>5, <2>1 DEF Launch, Untouched, agentVars, controllerVars
  <1>6. CASE ClickStop(h)
    <2>1. toExit'[g] = toExit[g]
      BY <1>6, ToldIs DEF ClickStop, StopHandle
    <2>2. worker'[g] = worker[g] /\ buttons'[g] = buttons[g]
      BY <1>0, <1>6 DEF ClickStop, Worker
    <2> QED BY <1>6, <2>1, <2>2 DEF ClickStop, Untouched, controllerVars
  <1>7. CASE Gone(h)
    BY <1>7, OthersThreads
  <1>8. CASE StopHandle(h) /\ main' = [main EXCEPT ![h] = "leaving"]
             /\ UNCHANGED <<stage, stalled, hiccup, guiVars>>
    <2>1. toExit'[g] = toExit[g]
      BY <1>8, ToldIs DEF StopHandle
    <2>2. main'[g] = main[g]
      BY <1>0, <1>8
    <2> QED BY <1>8, <2>1, <2>2 DEF Untouched, guiVars, controllerVars
  <1> QED BY <1>1, <1>2, <1>3, <1>4, <1>5, <1>6, <1>7, <1>8 DEF Controller, Quit, Leave
-----------------------------------------------------------------------------
(* A window's own steps.                                                    *)

\* What a window has in hand, and what it knows while it is alone.
Knows(g) == InHand(g) /\ KeepsItsAgent(g) /\ (Alone(g) => KnowsItsAgent(g))

\* ... and still does after a step, if that leaves no request unanswered.
KnowsAfter(g) ==
    InHand(g)' /\ KeepsItsAgent(g)' /\ (Alone(g) /\ ~hiccup' => KnowsItsAgent(g)')

\* A window that is alone has an answer from its own agent or from none.
LEMMA AloneAnswers ==
    ASSUME Controllers, NEW g \in Guis, Alone(g)
    PROVE  /\ Answering <=> Bound
           /\ Bound <=> \E n \in Attempt : stage[g][n] = "serving"
  <1>1. ~stalled  BY DEF Controllers, Alone
  <1>2. \A p \in Processes, n \in Attempt : stage[p][n] = "serving" => p = g
    BY DEF Alone
  <1> QED BY <1>1, <1>2, GuiIsProcess DEF Answering, Bound

\* Steps of others: nothing that the window relies on has moved.
LEMMA UntouchedKnows ==
    ASSUME NEW g \in Guis, Knows(g), Untouched(g)
    PROVE  KnowsAfter(g)
  <1>1. \A n \in Attempt : Living(g, n)' = Living(g, n) /\ Own(g, n)' = Own(g, n)
    BY DEF Living, Own, Untouched
  <1>2. InHand(g)'
    BY DEF Knows, InHand, Untouched
  <1>3. KeepsItsAgent(g)'
    BY <1>1 DEF Knows, KeepsItsAgent, Untouched
  <1>4. Alone(g) => KnowsItsAgent(g)'
    BY <1>1 DEF Knows, KnowsItsAgent, Untouched
  <1> QED BY <1>2, <1>3, <1>4 DEF KnowsAfter

\* Its thread binds the port if it is the only one, and lets go of it.
LEMMA ThreadKnows ==
    ASSUME Types, Controllers, NEW g \in Guis, Knows(g), Thread(g)
    PROVE  KnowsAfter(g)
  <1> g \in Processes /\ g \notin Servers
    BY GuiIsProcess, AgentLifecycleAssumption DEF AgentLifecycleAssumption
  <1> PICK n \in Attempt : Bind(g, n) \/ StopServing(g, n) \/ EndThread(g, n)
    BY DEF Thread
  <1>1. /\ toExit' = toExit /\ main' = main /\ worker' = worker /\ mine' = mine
        /\ handle' = handle /\ buttons' = buttons /\ replaced' = replaced
    BY DEF Bind, StopServing, EndThread, guiVars, controllerVars
  <1>2. PICK s \in Stages : /\ Becomes(g, n, s)
                            /\ stage[g][n] \in {"starting", "serving", "closing"}
                            /\ \/ s \in {"closing", "ended"}
                               \/ s = "serving" /\ ~Bound /\ stage[g][n] = "starting"
    <2>1. CASE Bind(g, n)
      <3>1. CASE Bound
        BY <2>1, <3>1 DEF Bind, Stages
      <3>2. CASE ~Bound
        BY <2>1, <3>2 DEF Bind, Stages
      <3> QED BY <3>1, <3>2
    <2>2. CASE StopServing(g, n)
      BY <2>2 DEF StopServing, Stages
    <2>3. CASE EndThread(g, n)
      BY <2>3 DEF EndThread, Stages
    <2> QED BY <2>1, <2>2, <2>3
  <1>3. \A m \in Attempt : stage'[g][m] = IF m = n THEN s ELSE stage[g][m]
    BY <1>2, BecomesIs
  <1>4. InHand(g)'
    BY <1>1, <1>2, <1>3 DEF Knows, InHand
  <1>5. \A m \in Attempt : Living(g, m)' => Living(g, m)
    BY <1>1, <1>2, <1>3 DEF Living
  <1>6. KeepsItsAgent(g)'
    BY <1>1, <1>5 DEF Knows, KeepsItsAgent, Own
  <1>7. ASSUME Alone(g)
        PROVE  KnowsItsAgent(g)'
    <2>1. KnowsItsAgent(g)  BY <1>7 DEF Knows
    <2>2. CASE s \in {"closing", "ended"}
      <3>2. \A m \in Attempt : stage'[g][m] \in {"starting", "serving"} => stage'[g][m] = stage[g][m]
        BY <1>3, <2>2
      <3> QED BY <1>1, <1>5, <2>1, <3>2 DEF KnowsItsAgent
    <2>3. CASE s = "serving" /\ ~Bound /\ stage[g][n] = "starting"
      <3>1. n = mine[g] /\ worker[g] = "second"
        BY <2>1, <2>3 DEF KnowsItsAgent
      <3>2. \A m \in Attempt : stage'[g][m] # "starting"
        BY <1>3, <2>1, <2>3, <3>1 DEF KnowsItsAgent
      <3> QED BY <1>1, <1>5, <2>1, <3>1, <3>2 DEF KnowsItsAgent
    <2> QED BY <1>2, <2>2, <2>3
  <1> QED BY <1>4, <1>6, <1>7 DEF KnowsAfter

\* Its process ends, and everything of its with it.
LEMMA GoneKnows ==
    ASSUME Types, NEW g \in Guis, Gone(g)
    PROVE  KnowsAfter(g)
  <1> g \in Processes  BY GuiIsProcess
  <1>1. worker'[g] = "idle" /\ mine'[g] = 0 /\ buttons'[g] = {} /\ replaced'[g] = {}
    BY GoneLeaves
  <1>2. \A n \in Attempt : stage'[g][n] \in {"none", "ended"}
    BY GoneIs
  <1>3. \A n \in Attempt : ~Living(g, n)'
    BY <1>2 DEF Living
  <1>4. InHand(g)'
    BY <1>1, <1>2 DEF InHand, Calling
  <1>5. KeepsItsAgent(g)' /\ KnowsItsAgent(g)'
    BY <1>1, <1>2, <1>3 DEF KeepsItsAgent, Own, KnowsItsAgent
  <1> QED BY <1>4, <1>5 DEF KnowsAfter

\* start() makes an attempt when nobody answers: none of the earlier ones lives.
LEMMA StartOwnKnows ==
    ASSUME Types, Controllers, NEW g \in Guis, Knows(g), StartOwn(g)
    PROVE  KnowsAfter(g)
  <1> g \in Processes  BY GuiIsProcess
  <1> PICK n \in Attempt : Fresh(g, n) /\ Becomes(g, n, "starting") /\ mine' = [mine EXCEPT ![g] = n]
    BY DEF StartOwn
  <1>1. worker[g] = "first" /\ worker'[g] = "second"
    BY DEF StartOwn, Types, Worker
  <1>2. /\ toExit' = toExit /\ main' = main /\ handle' = handle /\ buttons' = buttons
        /\ replaced' = replaced
    BY DEF StartOwn, controllerVars
  <1>3. mine'[g] = n /\ n # 0
    BY AgentLifecycleAssumption DEF Types, Attempt, AgentLifecycleAssumption
  <1>4. \A m \in Attempt : stage'[g][m] = IF m = n THEN "starting" ELSE stage[g][m]
    BY BecomesIs DEF Stages
  <1>5. InHand(g)'
    BY <1>1, <1>2, <1>3 DEF Knows, InHand, Calling
  <1>6. \A m \in Attempt : Own(g, m)' => m = n
    <2>1. \A m \in Attempt : ~Own(g, m)
      BY <1>1 DEF Knows, KeepsItsAgent
    <2> QED BY <1>2, <1>4, <2>1 DEF Own, Living
  <1>7. KeepsItsAgent(g)'
    BY <1>1, <1>3, <1>6 DEF KeepsItsAgent
  <1>8. ASSUME Alone(g)
        PROVE  KnowsItsAgent(g)'
    <2>1. KnowsItsAgent(g)  BY <1>8 DEF Knows
    <2>2. \A m \in Attempt : stage[g][m] # "starting"
      BY <1>1, <2>1 DEF KnowsItsAgent
    <2>3. \A m \in Attempt : stage[g][m] # "serving"
      BY <1>8, AloneAnswers DEF StartOwn
    <2>4. buttons'[g] = {}
      BY <1>1, <1>2 DEF Knows, InHand
    <2> QED BY <1>1, <1>2, <1>3, <1>4, <2>1, <2>2, <2>3, <2>4 DEF KnowsItsAgent
  <1> QED BY <1>5, <1>7, <1>8 DEF KnowsAfter

\* The other steps of start(): what it finds is its own, or nothing lives.
LEMMA CallKnows ==
    ASSUME Types, Controllers, NEW g \in Guis, Knows(g),
           FindRunning(g) \/ FindOwn(g) \/ GiveUp(g) \/ Stopped(g)
    PROVE  KnowsAfter(g)
  <1> g \in Processes  BY GuiIsProcess
  <1>0. 0 \in 0..MaxAttempts /\ mine[g] \in 0..MaxAttempts
    BY AgentLifecycleAssumption DEF AgentLifecycleAssumption, Types
  <1>1. /\ stage' = stage /\ toExit' = toExit /\ main' = main /\ buttons' = buttons
        /\ replaced' = replaced
    BY <1>0, ReturnIs DEF FindRunning, FindOwn, GiveUp, Stopped, agentVars, controllerVars
  <1>2. \A n \in Attempt : Living(g, n)' = Living(g, n) /\ Own(g, n)' = Own(g, n)
    BY <1>1 DEF Living, Own
  <1>3. CASE FindRunning(g)
    <2>1. worker[g] = "first" /\ worker'[g] = "showing"
      BY <1>3, WorkerIs DEF FindRunning, Workers
    <2>2. mine'[g] = 0 /\ handle'[g] = 0
      BY <1>0, <1>3, ReturnIs DEF FindRunning
    <2>3. InHand(g)'
      BY <1>1, <2>1, <2>2 DEF Knows, InHand, Calling
    <2>4. KeepsItsAgent(g)'
      BY <1>2, <2>1, <2>2 DEF Knows, KeepsItsAgent
    <2>5. Alone(g) => KnowsItsAgent(g)'
      BY <1>1, <1>2, <2>1, <2>2 DEF Knows, InHand, KnowsItsAgent
    <2> QED BY <2>3, <2>4, <2>5 DEF KnowsAfter
  <1>4. CASE FindOwn(g)
    <2>1. worker[g] = "second" /\ worker'[g] = "showing"
      BY <1>4, WorkerIs DEF FindOwn, Workers
    <2>2. mine'[g] = 0 /\ handle'[g] = mine[g]
      BY <1>0, <1>4, ReturnIs DEF FindOwn
    <2>3. InHand(g)'
      BY <1>1, <2>1, <2>2 DEF Knows, InHand, Calling
    <2>4. KeepsItsAgent(g)'
      BY <1>2, <2>1, <2>2 DEF Knows, KeepsItsAgent
    <2>5. ASSUME Alone(g)
          PROVE  KnowsItsAgent(g)'
      <3>1. KnowsItsAgent(g)  BY <2>5 DEF Knows
      <3>2. PICK n \in Attempt : stage[g][n] = "serving"
        BY <1>4, <2>5, AloneAnswers DEF FindOwn
      <3>3. \A m \in Attempt : stage[g][m] # "starting"
        BY <3>1, <3>2 DEF KnowsItsAgent
      <3>4. buttons'[g] = {}
        BY <1>1, <2>1 DEF Knows, InHand
      <3> QED BY <1>1, <1>2, <2>1, <3>1, <3>3, <3>4 DEF KnowsItsAgent
    <2> QED BY <2>3, <2>4, <2>5 DEF KnowsAfter
  <1>5. CASE GiveUp(g)
    <2>1. worker[g] = "second" /\ worker'[g] = "third"
      BY <1>5, WorkerIs DEF GiveUp, Workers
    <2>2. mine' = mine /\ handle' = handle /\ stage[g][mine[g]] # "starting"
      BY <1>5 DEF GiveUp, controllerVars
    <2>3. InHand(g)'
      BY <1>1, <2>1, <2>2 DEF Knows, InHand, Calling
    <2>4. KeepsItsAgent(g)'
      BY <1>2, <2>1, <2>2 DEF Knows, KeepsItsAgent
    <2>5. Alone(g) => KnowsItsAgent(g)'
      BY <1>1, <1>2, <2>1, <2>2 DEF Knows, InHand, KnowsItsAgent
    <2> QED BY <2>3, <2>4, <2>5 DEF KnowsAfter
  <1>6. CASE Stopped(g)
    <2>1. worker[g] = "stopping" /\ worker'[g] = "showing"
      BY <1>6, WorkerIs DEF Stopped, Workers
    <2>2. mine'[g] = 0 /\ handle'[g] = 0
      BY <1>0, <1>6, ReturnIs DEF Stopped
    <2>3. InHand(g)'
      BY <1>1, <2>1, <2>2 DEF Knows, InHand, Calling
    <2>4. KeepsItsAgent(g)'
      BY <1>2, <2>1, <2>2 DEF Knows, KeepsItsAgent
    <2>5. Alone(g) => KnowsItsAgent(g)'
      BY <1>1, <1>2, <2>1, <2>2 DEF Knows, InHand, KnowsItsAgent
    <2> QED BY <2>3, <2>4, <2>5 DEF KnowsAfter
  <1> QED BY <1>3, <1>4, <1>5, <1>6

\* The attempt that nobody answered for is told to stop before it is dropped.
LEMMA DropKnows ==
    ASSUME Types, Controllers, NEW g \in Guis, Knows(g), Recheck(g) \/ Drop(g)
    PROVE  KnowsAfter(g)
  <1> g \in Processes  BY GuiIsProcess
  <1>0. 0 \in 0..MaxAttempts /\ mine[g] \in 0..MaxAttempts
    BY AgentLifecycleAssumption DEF AgentLifecycleAssumption, Types
  <1>1. CASE Recheck(g)
    <2>1. worker[g] = "third" /\ worker'[g] \in {"found", "failed"}
      BY <1>1, WorkerIs DEF Recheck, Workers
    <2>2. /\ stage' = stage /\ main' = main /\ mine' = mine /\ handle' = handle
          /\ buttons' = buttons /\ toExit' = [toExit EXCEPT ![g][mine[g]] = TRUE]
          /\ replaced' = replaced
      BY <1>1 DEF Recheck, controllerVars
    <2>3. mine[g] \in Attempt
      BY <1>0, <2>1 DEF Knows, InHand, Calling, Attempt
    <2>4. /\ toExit'[g][mine[g]]
          /\ \A m \in Attempt : toExit[g][m] => toExit'[g][m]
      BY <2>2, <2>3, ToldIs
    <2>5. \A n \in Attempt : Living(g, n)' => Living(g, n) /\ n # mine[g]
      BY <2>2, <2>4 DEF Living
    <2>6. InHand(g)'
      BY <2>1, <2>2, <2>4 DEF Knows, InHand, Calling
    <2>7. KeepsItsAgent(g)'
      <3>1. \A n \in Attempt : ~Own(g, n)'
        BY <2>1, <2>2, <2>5 DEF Knows, KeepsItsAgent, Own
      <3> QED BY <3>1 DEF KeepsItsAgent
    <2>8. Alone(g) => KnowsItsAgent(g)'
      BY <2>1, <2>2, <2>5 DEF Knows, InHand, KnowsItsAgent
    <2> QED BY <2>6, <2>7, <2>8 DEF KnowsAfter
  <1>2. CASE Drop(g)
    <2>1. PICK from \in {"found", "failed"}, w \in {"showing", "sorry"}, b \in BOOLEAN :
              Worker(g, from, w) /\ Return(g, b, 0)
      <3>1. CASE Worker(g, "found", "showing") /\ Return(g, TRUE, 0)
        BY <3>1
      <3>2. CASE Worker(g, "failed", "sorry") /\ Return(g, FALSE, 0)
        BY <3>2
      <3>3. CASE Worker(g, "failed", "showing") /\ Return(g, FALSE, 0)
        BY <3>3
      <3> QED BY <1>2, <3>1, <3>2, <3>3 DEF Drop
    <2>2. worker[g] \in {"found", "failed"} /\ worker'[g] \in {"showing", "sorry"}
      BY <2>1, WorkerIs DEF Workers
    <2>3. mine'[g] = 0 /\ handle'[g] = 0
      BY <1>0, <2>1, ReturnIs
    <2>4. /\ stage' = stage /\ toExit' = toExit /\ main' = main /\ buttons' = buttons
          /\ replaced' = replaced
      BY <1>0, <1>2, <2>1, ReturnIs DEF Drop, agentVars
    <2>5. \A n \in Attempt : Living(g, n)' = Living(g, n) /\ Own(g, n)' = Own(g, n)
      BY <2>4 DEF Living, Own
    <2>6. \A n \in Attempt : ~Own(g, n)
      BY <2>2 DEF Knows, KeepsItsAgent
    <2>7. InHand(g)'
      BY <2>2, <2>3, <2>4 DEF Knows, InHand, Calling
    <2>8. KeepsItsAgent(g)'
      BY <2>5, <2>6 DEF KeepsItsAgent
    <2>9. Alone(g) => KnowsItsAgent(g)'
      BY <2>2, <2>4, <2>5, <2>6 DEF Knows, KnowsItsAgent, Own
    <2> QED BY <2>7, <2>8, <2>9 DEF KnowsAfter
  <1> QED BY <1>1, <1>2

\* Start is shown only when no agent answers: none of this window's lives.
LEMMA ShowKnows ==
    ASSUME Types, Controllers, NEW g \in Guis, Knows(g), Show(g) \/ TimerRefresh(g)
    PROVE  KnowsAfter(g)
  <1> g \in Processes  BY GuiIsProcess
  <1>1. /\ stage' = stage /\ toExit' = toExit /\ mine' = mine /\ handle' = handle
        /\ replaced' = replaced
    BY DEF Show, TimerRefresh, controllerVars
  <1>2. \A n \in Attempt : Living(g, n)' = Living(g, n) /\ Own(g, n)' = Own(g, n)
    BY <1>1 DEF Living, Own
  <1>3. worker[g] \in {"showing", "sorry", "idle"} /\ worker'[g] = "idle"
        /\ (worker[g] = "idle" => main[g] = "open")
    <2>1. CASE Show(g)
      BY <2>1, WorkerIs DEF Show, Workers
    <2>2. CASE TimerRefresh(g)
      BY <2>2 DEF TimerRefresh, AtRest
    <2> QED BY <2>1, <2>2
  <1>4. main'[g] # "down"
    <2>1. main[g] # "down"
      BY <1>3 DEF Knows, InHand
    <2> QED BY <2>1 DEF Show, TimerRefresh, Types
  <1>5. InHand(g)'
    BY <1>1, <1>3, <1>4 DEF Knows, InHand, Calling
  <1>6. ASSUME Alone(g), ~hiccup', "start" \in buttons'[g], NEW n \in Attempt
        PROVE  ~Living(g, n)
    <2>1. KnowsItsAgent(g)  BY <1>6 DEF Knows
    <2>2. CASE worker[g] = "sorry"
      BY <2>1, <2>2 DEF KnowsItsAgent
    <2>3. CASE worker[g] # "sorry"
      <3>1. Refresh(g)
        BY <2>3, WorkerIs DEF Show, TimerRefresh, Workers
      <3>2. ~Answering
        BY <1>6, <3>1, RefreshIs
      <3>3. \A m \in Attempt : stage[g][m] # "serving"
        BY <1>6, <3>2, AloneAnswers
      <3> QED BY <1>3, <2>1, <3>3 DEF KnowsItsAgent, Living
    <2> QED BY <2>2, <2>3
  <1>7. KeepsItsAgent(g)'
    BY <1>1, <1>2, <1>3 DEF Knows, KeepsItsAgent
  <1>8. ASSUME Alone(g), ~hiccup'
        PROVE  KnowsItsAgent(g)'
    <2>1. KnowsItsAgent(g)  BY <1>8 DEF Knows
    <2> QED BY <1>1, <1>2, <1>3, <1>6, <1>8, <2>1 DEF KnowsItsAgent
  <1> QED BY <1>5, <1>7, <1>8 DEF KnowsAfter

\* Start and Stop hand the window to a worker; a launch finds it down.
LEMMA ClickKnows ==
    ASSUME Types, Controllers, NEW g \in Guis, Knows(g),
           ClickStart(g) \/ ClickStop(g) \/ Launch(g)
    PROVE  KnowsAfter(g)
  <1> g \in Processes  BY GuiIsProcess
  <1>1. stage' = stage /\ mine' = mine /\ handle' = handle
    BY DEF ClickStart, ClickStop, Launch, agentVars, controllerVars
  <1>2. CASE ClickStart(g)
    <2>1. worker[g] = "idle" /\ worker'[g] = "first"
      BY <1>2, WorkerIs DEF ClickStart, Workers
    <2>2. toExit' = toExit /\ main' = main /\ buttons'[g] = {} /\ "start" \in buttons[g]
      BY <1>2 DEF ClickStart, agentVars, Types
    <2>3. \A n \in Attempt : Living(g, n)' = Living(g, n)
      BY <1>1, <2>2 DEF Living
    <2>4. replaced'[g] = replaced[g] \cup {n \in Attempt : Living(g, n)}
      BY <1>2 DEF ClickStart, Types
    <2>5. InHand(g)'
      BY <1>1, <2>1, <2>2 DEF Knows, InHand, Calling
    <2>6. KeepsItsAgent(g)'
      BY <2>1, <2>3, <2>4 DEF KeepsItsAgent, Own
    <2>7. ASSUME Alone(g)
          PROVE  KnowsItsAgent(g)'
      <3>1. KnowsItsAgent(g)  BY <2>7 DEF Knows
      <3>2. \A n \in Attempt : ~Living(g, n)
        BY <2>2, <3>1 DEF KnowsItsAgent
      <3>3. replaced'[g] = {}
        BY <2>4, <3>1, <3>2 DEF KnowsItsAgent
      <3> QED BY <1>1, <2>1, <2>2, <2>3, <3>1, <3>2, <3>3 DEF KnowsItsAgent
    <2> QED BY <2>5, <2>6, <2>7 DEF KnowsAfter
  <1>3. CASE ClickStop(g)
    <2>1. worker[g] = "idle" /\ worker'[g] = "stopping"
      BY <1>3, WorkerIs DEF ClickStop, Workers
    <2>2. /\ main' = main /\ buttons'[g] = {} /\ main[g] = "open" /\ replaced' = replaced
          /\ toExit' = [toExit EXCEPT ![g][handle[g]] = TRUE]
      BY <1>3 DEF ClickStop, StopHandle, AtRest, Types, controllerVars
    <2>3. /\ handle[g] \in Attempt => toExit'[g][handle[g]]
          /\ \A m \in Attempt : toExit[g][m] => toExit'[g][m]
      BY <2>2, ToldIs
    <2>4. mine[g] = 0
      BY <2>1 DEF Knows, InHand, Calling
    <2>5. \A n \in Attempt : Living(g, n)' => Living(g, n) /\ n # handle[g]
      BY <1>1, <2>3 DEF Living
    <2>6. 0 \notin Attempt
      BY DEF Attempt
    <2>7. InHand(g)'
      BY <1>1, <2>1, <2>2, <2>4 DEF Knows, InHand, Calling
    <2>8. \A n \in Attempt : ~Own(g, n)'
      BY <2>2, <2>4, <2>5, <2>6 DEF Knows, KeepsItsAgent, Own
    <2>9. KeepsItsAgent(g)'
      BY <2>8 DEF KeepsItsAgent
    <2>10. ASSUME Alone(g)
           PROVE  KnowsItsAgent(g)'
      <3>1. KnowsItsAgent(g)  BY <2>10 DEF Knows
      <3> QED BY <1>1, <2>1, <2>2, <3>1 DEF KnowsItsAgent
    <2> QED BY <2>7, <2>9, <2>10 DEF KnowsAfter
  <1>4. CASE Launch(g)
    <2>1. worker[g] = "idle" /\ worker'[g] = "first"
      BY <1>4, WorkerIs DEF Launch, Workers
    <2>2. /\ toExit' = toExit /\ main'[g] = "launching" /\ buttons' = buttons /\ main[g] = "down"
          /\ replaced' = replaced
      BY <1>4 DEF Launch, agentVars, controllerVars, Types
    <2>3. \A n \in Attempt : ~Living(g, n)' /\ stage'[g][n] # "starting"
      BY <1>1, <2>2 DEF Living, Knows, InHand
    <2>4. InHand(g)'
      BY <1>1, <2>1, <2>2 DEF Knows, InHand, Calling
    <2>5. KeepsItsAgent(g)'
      BY <2>3 DEF KeepsItsAgent, Own
    <2>6. Alone(g) => KnowsItsAgent(g)'
      BY <1>1, <2>1, <2>2, <2>3 DEF Knows, InHand, KnowsItsAgent
    <2> QED BY <2>4, <2>5, <2>6 DEF KnowsAfter
  <1> QED BY <1>2, <1>3, <1>4

\* Exit with an agent of its own: it is told to stop, and so is no longer one
\* that lives.
LEMMA QuitKnows ==
    ASSUME Types, Controllers, NEW g \in Guis, Knows(g), main[g] = "open",
           StopHandle(g), main' = [main EXCEPT ![g] = "leaving"],
           UNCHANGED <<stage, stalled, hiccup, guiVars>>
    PROVE  KnowsAfter(g)
  <1> g \in Processes  BY GuiIsProcess
  <1>1. /\ stage' = stage /\ worker' = worker /\ mine' = mine /\ handle' = handle
        /\ buttons' = buttons /\ replaced' = replaced
    BY DEF guiVars, controllerVars
  <1>2. main'[g] = "leaving"
    BY DEF Types
  <1>3. \A m \in Attempt : toExit[g][m] => toExit'[g][m]
    BY ToldIs DEF StopHandle
  <1>4. \A n \in Attempt : Living(g, n)' => Living(g, n)
    BY <1>1, <1>3 DEF Living
  <1>5. worker[g] \in {"found", "failed"} => mine[g] \in Attempt
    BY DEF Types, Knows, InHand, Calling, Attempt
  <1>6. InHand(g)'
    BY <1>1, <1>2, <1>3, <1>5 DEF Knows, InHand
  <1>7. KeepsItsAgent(g)'
    BY <1>1, <1>4 DEF Knows, KeepsItsAgent, Own
  <1>8. ASSUME Alone(g)
        PROVE  KnowsItsAgent(g)'
    BY <1>1, <1>4, <1>8 DEF Knows, KnowsItsAgent
  <1> QED BY <1>6, <1>7, <1>8 DEF KnowsAfter
-----------------------------------------------------------------------------
(* The invariant, and what follows from it. *)

\* Every step leaves every window with what it has in hand and what it knows.
LEMMA WindowStep ==
    ASSUME Types, Controllers, NEW g \in Guis, Knows(g), [Next]_vars
    PROVE  KnowsAfter(g)
  <1>1. CASE Stall \/ Recover \/ UNCHANGED vars
    <2>1. Untouched(g)
      BY <1>1 DEF Stall, Recover, vars, agentVars, guiVars, controllerVars, Untouched
    <2> QED BY <2>1, UntouchedKnows
  <1>2. ASSUME NEW p \in Processes, Thread(p) \/ Serve(p) \/ Interrupt(p) \/ Kill(p)
        PROVE  KnowsAfter(g)
    <2>1. CASE p # g
      <3>1. Untouched(g)
        BY <1>2, <2>1, OthersThreads DEF Kill
      <3> QED BY <3>1, UntouchedKnows
    <2>2. CASE p = g
      <3>1. g \notin Servers
        BY AgentLifecycleAssumption DEF AgentLifecycleAssumption
      <3>2. Thread(g) \/ Gone(g)
        BY <1>2, <2>2, <3>1 DEF Serve, Interrupt, Kill
      <3> QED BY <3>2, ThreadKnows, GoneKnows
    <2> QED BY <2>1, <2>2
  <1>3. ASSUME NEW h \in Guis,
               \/ Controller(h) \/ Launch(h) \/ TimerRefresh(h)
               \/ ClickStart(h) \/ ClickStop(h) \/ Quit(h)
        PROVE  KnowsAfter(g)
    <2>1. CASE h # g
      <3>1. Untouched(g)
        BY <1>3, <2>1, OthersWindows
      <3> QED BY <3>1, UntouchedKnows
    <2>2. CASE h = g
      <3>1. CASE Quit(g)
        BY <3>1, GoneKnows, QuitKnows DEF Quit
      <3>2. CASE Controller(g)
        BY <3>2, StartOwnKnows, CallKnows, DropKnows, ShowKnows, GoneKnows DEF Controller, Leave
      <3>3. CASE Launch(g) \/ TimerRefresh(g) \/ ClickStart(g) \/ ClickStop(g)
        BY <3>3, ShowKnows, ClickKnows
      <3> QED BY <1>3, <2>2, <3>1, <3>2, <3>3
    <2> QED BY <2>1, <2>2
  <1> QED BY <1>1, <1>2, <1>3, Zenon DEF Next

\* The invariant is inductive.
LEMMA StepKeeps == IInv /\ [Next]_vars => IInv'
  <1> SUFFICES ASSUME IInv, [Next]_vars PROVE IInv'
    OBVIOUS
  <1>1. Types /\ OnePort /\ Controllers /\ Owned
    BY DEF IInv
  <1>2. Types' /\ OnePort'
    BY <1>1, TypesStep, OnePortStep
  <1>3. \A g \in Guis : Knows(g)
    BY <1>1 DEF Controllers, Owned, Knows
  <1>4. Controllers'
    <2>1. (stalled => hiccup)'
      BY <1>1 DEF Controllers, Next, Stall, Recover, Thread, Bind, StopServing, EndThread, Serve,
             Interrupt, Kill, Gone, Controller, FindRunning, StartOwn, FindOwn, GiveUp, Recheck,
             Drop, Show, Stopped, Leave, Launch, TimerRefresh, ClickStart, ClickStop, Quit,
             Refresh, vars, agentVars
    <2>2. \A g \in Guis : InHand(g)'
      BY <1>1, <1>3, WindowStep DEF KnowsAfter
    <2> QED BY <2>1, <2>2 DEF Controllers
  <1>5. Owned'
    <2> SUFFICES ASSUME NEW g \in Guis
                 PROVE  KeepsItsAgent(g)' /\ (Alone(g)' => KnowsItsAgent(g)')
      BY DEF Owned
    <2>1. KnowsAfter(g)
      BY <1>1, <1>3, WindowStep
    <2>2. Alone(g)' => Alone(g) /\ ~hiccup'
      BY <1>1, AloneBefore DEF Alone
    <2> QED BY <2>1, <2>2 DEF KnowsAfter
  <1> QED BY <1>2, <1>4, <1>5 DEF IInv

\* It holds of every state the machine can be in.
LEMMA Invariance == SafeSpec => []IInv
  BY InitHolds, StepKeeps, PTL DEF SafeSpec

\* A set without two different members has at most one.
LEMMA AtMostOne ==
    ASSUME NEW S, \A x, y \in S : x = y
    PROVE  Cardinality(S) <= 1
  <1>1. CASE S = {}
    BY <1>1, FS_EmptySet
  <1>2. CASE S # {}
    <2>1. PICK x \in S : TRUE
      BY <1>2
    <2>2. S = {x}
      BY <2>1
    <2> QED BY <2>2, FS_Singleton
  <1> QED BY <1>1, <1>2

\* TypeOK: besides the types, at most one attempt has the port.  uvicorn fails
\* to bind a port that is taken, whoever has it.
THEOREM TypesHold == SafeSpec => []TypeOK
  <1>1. IInv => TypeOK
    <2> SUFFICES ASSUME Types, OnePort PROVE TypeOK
      BY DEF IInv
    <2> DEFINE S == {a \in Processes \X Attempt : stage[a[1]][a[2]] = "serving"}
    <2>1. ASSUME NEW a \in S, NEW b \in S
          PROVE  a = b
      <3>1. /\ a = <<a[1], a[2]>> /\ b = <<b[1], b[2]>>
            /\ a[1] \in Processes /\ b[1] \in Processes /\ a[2] \in Attempt /\ b[2] \in Attempt
        OBVIOUS
      <3>2. stage[a[1]][a[2]] = "serving" /\ stage[b[1]][b[2]] = "serving"
        OBVIOUS
      <3>3. a[1] = b[1] /\ a[2] = b[2]
        BY <3>1, <3>2 DEF OnePort
      <3> QED BY <3>1, <3>3
    <2>2. Cardinality(S) <= 1
      BY <2>1, AtMostOne
    <2> QED BY <2>2 DEF TypeOK, Types, Stages, Workers
  <1> QED BY <1>1, Invariance, PTL

\* AgentsAreOwned: whatever the other processes do, no click, launch, exit or
\* lost race leaves a window with an agent of its own that its buttons do not
\* reach, but for one that Start was clicked over; and a window that shares the
\* machine with no other process, and whose agent answers, offers no such click.
THEOREM AgentsStayOwned == SafeSpec => []AgentsAreOwned
  <1>1. IInv => AgentsAreOwned
    <2>1. ASSUME IInv, NEW g \in Guis, NEW n \in Attempt
          PROVE  /\ Living(g, n) => n \in {mine[g], handle[g]} \cup replaced[g]
                 /\ Alone(g) => n \notin replaced[g]
      BY <2>1 DEF IInv, Owned, KeepsItsAgent, Own, KnowsItsAgent
    <2> QED BY <2>1 DEF AgentsAreOwned
  <1> QED BY <1>1, Invariance, PTL

\* NoZombie: ensure_agent_running hands over the attempt it made or has told
\* it to stop, whatever other processes do meanwhile.
THEOREM NoZombieIsLeft == SafeSpec => NoZombie
  <1>1. ASSUME IInv, [Next]_vars, NEW g \in Guis,
               mine[g] # 0, mine'[g] = 0, main'[g] # "down"
        PROVE  handle'[g] = mine[g] \/ toExit[g][mine[g]]
    <2> g \in Processes  BY GuiIsProcess
    <2>0. Types /\ InHand(g) /\ 0 \in 0..MaxAttempts /\ mine[g] \in 0..MaxAttempts
      BY <1>1, AgentLifecycleAssumption DEF IInv, Controllers, Types, AgentLifecycleAssumption
    <2>1. ~Untouched(g) /\ mine' # mine /\ ~Gone(g)
      <3>1. ~Gone(g)
        BY <1>1, <2>0, GoneIs
      <3> QED BY <1>1, <3>1 DEF Untouched
    <2>2. worker[g] \in Calling
      BY <1>1, <2>0 DEF InHand
    <2>3. CASE FindOwn(g)
      BY <2>0, <2>3, ReturnIs DEF FindOwn
    <2>4. CASE Drop(g)
      <3>1. worker[g] \in {"found", "failed"}
        BY <2>4 DEF Drop, Worker
      <3> QED BY <2>0, <3>1 DEF InHand
    <2>5. CASE FindRunning(g) \/ Stopped(g)
      BY <2>2, <2>5 DEF FindRunning, Stopped, Worker, Calling
    <2>6. CASE StartOwn(g)
      BY <2>2, <2>6 DEF StartOwn, Worker, Calling
    <2>7. FindOwn(g) \/ Drop(g) \/ FindRunning(g) \/ Stopped(g) \/ StartOwn(g)
      <3>1. ~(Stall \/ Recover \/ UNCHANGED vars)
        BY <2>1 DEF Stall, Recover, vars, guiVars
      <3>2. ASSUME NEW p \in Processes, Thread(p) \/ Serve(p) \/ Interrupt(p) \/ Kill(p)
            PROVE  FALSE
        <4>1. CASE p # g
          BY <2>0, <2>1, <3>2, <4>1, OthersThreads DEF Kill
        <4>2. CASE p = g
          BY <2>1, <3>2, <4>2 DEF Kill, Thread, Bind, StopServing, EndThread, Serve, Interrupt, guiVars
        <4> QED BY <4>1, <4>2
      <3>3. ASSUME NEW h \in Guis,
                   \/ Controller(h) \/ Launch(h) \/ TimerRefresh(h)
                   \/ ClickStart(h) \/ ClickStop(h) \/ Quit(h)
            PROVE  h = g /\ Controller(g) /\ ~Leave(g)
        <4>1. h = g
          BY <2>0, <2>1, <3>3, OthersWindows
        <4>2. ~(Launch(g) \/ TimerRefresh(g) \/ ClickStart(g) \/ ClickStop(g) \/ Quit(g) \/ Leave(g))
          BY <2>1 DEF Launch, TimerRefresh, ClickStart, ClickStop, Quit, Leave, guiVars
        <4> QED BY <3>3, <4>1, <4>2
      <3>4. Controller(g) /\ ~Leave(g)
        BY <1>1, <3>1, <3>2, <3>3, Zenon DEF Next
      <3>5. ~(GiveUp(g) \/ Recheck(g) \/ Show(g))
        BY <2>1 DEF GiveUp, Recheck, Show
      <3> QED BY <3>4, <3>5 DEF Controller
    <2> QED BY <2>3, <2>4, <2>5, <2>6, <2>7
  <1>2. IInv /\ [Next]_vars =>
            [\A g \in Guis : mine[g] # 0 /\ mine'[g] = 0 /\ main'[g] # "down" =>
                 handle'[g] = mine[g] \/ toExit[g][mine[g]]]_vars
    BY <1>1
  <1> QED BY <1>2, Invariance, PTL DEF SafeSpec, NoZombie
=============================================================================
