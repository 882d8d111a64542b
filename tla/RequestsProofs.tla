---------------------------- MODULE RequestsProofs ----------------------------
(***************************************************************************)
(* What the agent is asked to do is done to what was asked for, for any    *)
(* number of overlapping requests: to end a process, to rotate the token,  *)
(* to quarantine and restore files, to leave a page that is blocked.       *)
(***************************************************************************)
EXTENDS MCRequests, FiniteSetTheorems, TLAPS

(***************************************************************************)
(* To end a process: no signal reaches another process than the one that   *)
(* was checked, and a success is not logged while that process runs.       *)
(***************************************************************************)

(***************************************************************************)
(* Lives are numbered as they begin, so a life that has ended never comes  *)
(* back: what a request found gone stays gone.                             *)
(***************************************************************************)
LivesOK ==
    /\ alive \in [Pids -> Nat] /\ lives \in [Pids -> Nat]
    /\ \A p \in Pids : alive[p] <= lives[p]

TargetOK(k) ==
    /\ kill[k].pid \in Pids /\ kill[k].life \in Nat
    /\ kill[k].life <= lives[kill[k].pid]

\* The target passed the check of LookUp.
TargetChecked(k) ==
    /\ kill[k].pid \notin OwnPids /\ kill[k].life # 0
    /\ <<kill[k].pid, kill[k].life>> \notin Protected

KillProgress(k) ==
    /\ kill[k].at \in {"found", "terminated", "overdue", "killed", "succeeded", "logged"}
           => TargetChecked(k)
    /\ kill[k].hit \subseteq {<<kill[k].pid, kill[k].life>>}
    /\ kill[k].hit # {} => TargetChecked(k)
    /\ kill[k].at = "asked" => kill[k].hit = {}
    /\ kill[k].at \in {"succeeded", "logged"} => ~Running(k)

KillStage == {"idle", "asked", "found", "terminated", "overdue", "killed", "succeeded", "logged",
          "refused", "raised"}

KillRequest == [at : KillStage, pid : Pids, life : Nat, hit : SUBSET (Pids \X Nat)]

\* The inductive invariant.
KillInv ==
    /\ LivesOK /\ kill \in [Kills -> KillRequest]
    /\ \A k \in Kills : TargetOK(k) /\ KillProgress(k)
-----------------------------------------------------------------------------
(* No request is under way at first. *)
THEOREM KillInitially == ProcessInit /\ KillInit => KillInv
<1> SUFFICES ASSUME ProcessInit, KillInit PROVE KillInv
  OBVIOUS
<1>1. LivesOK
  BY DEF ProcessInit, LivesOK
<1>2. PICK p \in Pids : kill = [k \in Kills |-> [at |-> "idle", pid |-> p, life |-> 0, hit |-> {}]]
  BY DEF KillInit
<1>3. kill \in [Kills -> KillRequest]
  BY <1>2, 0 \in Nat, {} \in SUBSET (Pids \X Nat), "idle" \in KillStage DEF KillRequest, KillStage
<1>4. ASSUME NEW k \in Kills PROVE TargetOK(k) /\ KillProgress(k)
  <2>1. kill[k] = [at |-> "idle", pid |-> p, life |-> 0, hit |-> {}]
    BY <1>2
  <2> QED BY <1>1, <2>1 DEF LivesOK, TargetOK, KillProgress
<1> QED BY <1>1, <1>3, <1>4 DEF KillInv

(* A step of one request leaves the others and the processes alone. *)
LEMMA OneRequest ==
    ASSUME KillInv, NEW k \in Kills, NEW r \in KillRequest,
           kill' = [kill EXCEPT ![k] = r], UNCHANGED processVars,
           TargetOK(k)', KillProgress(k)'
    PROVE  KillInv'
<1>1. LivesOK'
  BY DEF KillInv, LivesOK, processVars, worldVars
<1>2. kill' \in [Kills -> KillRequest]
  BY DEF KillInv
<1>3. ASSUME NEW j \in Kills, j # k PROVE TargetOK(j)' /\ KillProgress(j)'
  <2>1. kill'[j] = kill[j] /\ alive' = alive /\ lives' = lives
    BY <1>3 DEF KillInv, processVars, worldVars
  <2>2. TargetOK(j) /\ KillProgress(j)
    BY DEF KillInv
  <2> QED BY <2>1, <2>2 DEF TargetOK, KillProgress, TargetChecked, Running
<1> QED BY <1>1, <1>2, <1>3 DEF KillInv

(* A request moves on without a signal to a step that its state allows. *)
LEMMA MovesOn ==
    ASSUME KillInv, NEW k \in Kills, NEW step \in KillStage, KillAt(k, step), UNCHANGED processVars,
           step # "asked",
           step \in {"found", "terminated", "overdue", "killed", "succeeded", "logged"} => TargetChecked(k),
           step \in {"succeeded", "logged"} => ~Running(k)
    PROVE  KillInv'
<1> DEFINE r == [kill[k] EXCEPT !.at = step]
<1>1. kill[k] \in KillRequest /\ TargetOK(k) /\ KillProgress(k)
  BY DEF KillInv
<1>2. r \in KillRequest
  BY <1>1 DEF KillRequest
<1>3. kill' = [kill EXCEPT ![k] = r]
  BY DEF KillAt
<1>4. /\ kill'[k].at = step /\ kill'[k].pid = kill[k].pid
      /\ kill'[k].life = kill[k].life /\ kill'[k].hit = kill[k].hit
      /\ alive' = alive /\ lives' = lives
  BY <1>1, <1>3 DEF KillInv, KillRequest, processVars, worldVars
<1>5. TargetOK(k)'
  BY <1>1, <1>4 DEF TargetOK
<1>6. KillProgress(k)'
  BY <1>1, <1>4 DEF KillProgress, TargetChecked, Running
<1> QED BY <1>2, <1>3, <1>5, <1>6, OneRequest

(* The signal reaches the life that was checked. *)
LEMMA KillSignalStep ==
    ASSUME KillInv, NEW k \in Kills, NEW step \in {"terminated", "killed"}, TargetChecked(k),
           Signal(k, step), UNCHANGED processVars
    PROVE  KillInv'
<1>1. CASE KillAt(k, "refused")
  BY <1>1, MovesOn DEF KillStage
<1>2. CASE kill' = [kill EXCEPT ![k].at = step, ![k].hit = @ \cup {<<kill[k].pid, kill[k].life>>}]
  <2> DEFINE r == [kill[k] EXCEPT !.at = step,
                                  !.hit = kill[k].hit \cup {<<kill[k].pid, kill[k].life>>}]
  <2>1. kill[k] \in KillRequest /\ TargetOK(k) /\ KillProgress(k)
    BY DEF KillInv
  <2>2. r \in KillRequest
    <3>1. kill[k].hit \cup {<<kill[k].pid, kill[k].life>>} \in SUBSET (Pids \X Nat)
      BY <2>1 DEF KillRequest
    <3>2. step \in KillStage
      BY DEF KillStage
    <3> QED BY <2>1, <3>1, <3>2 DEF KillRequest
  <2>3. kill' = [kill EXCEPT ![k] = r]
    BY <1>2, <2>1 DEF KillRequest
  <2>4. /\ kill'[k].at = step /\ kill'[k].pid = kill[k].pid /\ kill'[k].life = kill[k].life
        /\ kill'[k].hit = kill[k].hit \cup {<<kill[k].pid, kill[k].life>>}
        /\ alive' = alive /\ lives' = lives
    BY <2>1, <2>3 DEF KillInv, KillRequest, processVars, worldVars
  <2>5. TargetOK(k)'
    BY <2>1, <2>4 DEF TargetOK
  <2>6. KillProgress(k)'
    BY <2>1, <2>4 DEF KillProgress, TargetChecked
  <2> QED BY <2>2, <2>3, <2>5, <2>6, OneRequest
<1> QED BY <1>1, <1>2 DEF Signal

(* A new request knows of no process yet. *)
LEMMA KillAskStep == ASSUME KillInv, NEW k \in Kills, Ask(k) PROVE KillInv'
<1>1. PICK p \in Pids :
          kill' = [kill EXCEPT ![k] = [at |-> "asked", pid |-> p, life |-> 0, hit |-> {}]]
  BY DEF Ask
<1> DEFINE r == [at |-> "asked", pid |-> p, life |-> 0, hit |-> {}]
<1>2. r \in KillRequest
  BY DEF KillRequest, KillStage
<1>3. kill'[k] = r /\ lives' = lives /\ UNCHANGED processVars
  BY <1>1 DEF KillInv, Ask, processVars, worldVars
<1>4. TargetOK(k)' /\ KillProgress(k)'
  BY <1>3 DEF KillInv, LivesOK, TargetOK, KillProgress
<1> QED BY <1>1, <1>2, <1>3, <1>4, OneRequest

(* Only a life that is neither protected nor the agent's is found. *)
LEMMA LookUpStep == ASSUME KillInv, NEW k \in Kills, LookUp(k) PROVE KillInv'
<1> DEFINE p == kill[k].pid
           refused == p \in OwnPids \/ alive[p] = 0 \/ <<p, alive[p]>> \in Protected
           r == [kill[k] EXCEPT !.life = alive[p], !.at = IF refused THEN "refused" ELSE "found"]
<1>1. kill[k] \in KillRequest /\ TargetOK(k) /\ KillProgress(k) /\ kill[k].at = "asked"
  BY DEF KillInv, LookUp
<1>2. alive[p] \in Nat /\ lives[p] \in Nat /\ alive[p] <= lives[p]
  BY <1>1 DEF KillInv, LivesOK, TargetOK
<1>3. r \in KillRequest
  BY <1>1, <1>2 DEF KillRequest, KillStage
<1>4. kill' = [kill EXCEPT ![k] = r]
  BY <1>1 DEF LookUp, KillRequest
<1>5. /\ kill'[k].at = (IF refused THEN "refused" ELSE "found") /\ kill'[k].pid = p
      /\ kill'[k].life = alive[p] /\ kill'[k].hit = {}
      /\ alive' = alive /\ lives' = lives /\ UNCHANGED processVars
  BY <1>1, <1>4 DEF KillInv, KillRequest, KillProgress, LookUp, processVars, worldVars
<1>6. TargetOK(k)'
  BY <1>1, <1>2, <1>5 DEF TargetOK
<1>7. KillProgress(k)'
  BY <1>5 DEF KillProgress, TargetChecked
<1> QED BY <1>3, <1>4, <1>5, <1>6, <1>7, OneRequest

(* Every step of a request keeps the invariant. *)
LEMMA KillStepStep == ASSUME KillInv, NEW k \in Kills, KillStep(k) PROVE KillInv'
<1>1. KillProgress(k)
  BY DEF KillInv
<1>2. CASE Ask(k)
  BY <1>2, KillAskStep
<1>3. CASE LogKill(k)
  BY <1>1, <1>3, MovesOn DEF LogKill, KillProgress, KillStage
<1>4. CASE LookUp(k)
  BY <1>4, LookUpStep
<1>5. CASE Terminate(k)
  BY <1>1, <1>5, KillSignalStep DEF Terminate, KillProgress
<1>6. CASE WaitTimesOut(k)
  BY <1>1, <1>6, MovesOn DEF WaitTimesOut, KillProgress, KillStage
<1>7. CASE ForceKill(k)
  BY <1>1, <1>7, KillSignalStep DEF ForceKill, KillProgress
<1>8. CASE ForceTimesOut(k)
  BY <1>1, <1>8, MovesOn DEF ForceTimesOut, KillProgress, KillStage
<1>9. CASE FindGone(k)
  BY <1>1, <1>9, MovesOn DEF FindGone, KillProgress, KillStage
<1> QED BY <1>2, <1>3, <1>4, <1>5, <1>6, <1>7, <1>8, <1>9 DEF KillStep

(* Processes come and go: a new life is none that a request knows of. *)
LEMMA KillWorldStep == ASSUME KillInv, KillWorld PROVE KillInv'
<1>1. PICK p \in Pids : Spawn(p) \/ Exit(p)
  BY DEF KillWorld
<1>2. /\ LivesOK'
      /\ \A q \in Pids : lives[q] <= lives'[q]
      /\ \A q \in Pids : alive'[q] \in {alive[q], 0, lives[q] + 1}
  <2>1. CASE Spawn(p)
    BY <2>1 DEF Spawn, KillInv, LivesOK
  <2>2. CASE Exit(p)
    BY <2>2 DEF Exit, KillInv, LivesOK
  <2> QED BY <1>1, <2>1, <2>2
<1>3. kill' = kill
  BY DEF KillWorld
<1>4. ASSUME NEW k \in Kills PROVE TargetOK(k)' /\ KillProgress(k)'
  <2>1. TargetOK(k) /\ KillProgress(k) /\ kill[k].pid \in Pids
    BY DEF KillInv, TargetOK
  <2>2. TargetOK(k)'
    BY <1>2, <1>3, <2>1 DEF TargetOK, KillInv, LivesOK
  <2>3. Running(k)' => Running(k) \/ kill[k].life = 0
    BY <1>2, <1>3, <2>1 DEF Running, TargetOK, KillInv, LivesOK
  <2>4. KillProgress(k)'
    BY <1>3, <2>1, <2>3 DEF KillProgress, TargetChecked
  <2> QED BY <2>2, <2>4
<1> QED BY <1>2, <1>3, <1>4 DEF KillInv

(* KillInv holds in every state, for every number of requests and pids. *)
THEOREM KillInvariance == KillSpec => []KillInv
<1>1. KillInv /\ [KillNext]_<<processVars, kill>> => KillInv'
  <2> SUFFICES ASSUME KillInv, [KillNext]_<<processVars, kill>> PROVE KillInv'
    OBVIOUS
  <2>1. CASE KillWorld
    BY <2>1, KillWorldStep
  <2>2. CASE \E k \in Kills : KillStep(k)
    BY <2>2, KillStepStep
  <2>3. CASE UNCHANGED <<processVars, kill>>
    BY <2>3 DEF KillInv, LivesOK, TargetOK, KillProgress, TargetChecked, Running, processVars, worldVars
  <2> QED BY <2>1, <2>2, <2>3 DEF KillNext
<1> QED BY <1>1, KillInitially, PTL DEF KillSpec

(***************************************************************************)
(* Whatever requests overlap and whatever pids are reused, a request       *)
(* signals only the process it checked, and success means it is gone.      *)
(***************************************************************************)
THEOREM TargetEnds == KillSpec => []KillEndsItsTarget
<1>1. KillInv => KillEndsItsTarget
  BY DEF KillInv, KillEndsItsTarget, KillProgress, TargetChecked
<1> QED BY <1>1, KillInvariance, PTL
-----------------------------------------------------------------------------
(***************************************************************************)
(* To rotate the token, for any number of threads, tokens and restarts: a  *)
(* replaced token is not accepted by a later request, and when nobody is   *)
(* in the middle of a rewrite the file holds a token that somebody may     *)
(* know.                                                                   *)
(***************************************************************************)

TokenSteps == {"idle", "arrived", "admitted", "creating", "writing", "auditing"}

TokenCall == [at : TokenSteps, task : {"use", "rotate"}, candidate : Nat, mine : Nat, old : SUBSET Nat]

TokenTypes ==
    /\ tokenFile \in Nat /\ made \in Nat \ {0} /\ collided \in BOOLEAN
    /\ revoked \subseteq Nat /\ issued \subseteq Nat /\ untold \subseteq Nat
    /\ caller \in [Callers -> TokenCall]

\* Every token in sight has been made.
AllMade ==
    /\ tokenFile <= made
    /\ \A t \in revoked : 0 < t /\ t <= made
    /\ \A t \in issued : t <= made
    /\ \A c \in Callers :
           /\ caller[c].mine <= made
           /\ caller[c].at = "writing" => 0 < caller[c].mine
           /\ caller[c].at \in {"arrived", "admitted"}
                  => 0 < caller[c].candidate /\ caller[c].candidate <= made
           /\ \A t \in caller[c].old : 0 < t /\ t <= made

(***************************************************************************)
(* A token that is on its way to the file was never in it: it is not the   *)
(* one in the file, nobody was admitted with it, nobody replaces it.       *)
(***************************************************************************)
Unused(t) ==
    /\ t # tokenFile /\ t \notin revoked
    /\ \A c \in Callers : t \notin caller[c].old
                          /\ (caller[c].at = "admitted" => t # caller[c].candidate)

WritersFresh ==
    \A d \in Callers : caller[d].at = "writing" =>
        /\ Unused(caller[d].mine)
        /\ \A c \in Callers \ {d} : caller[c].at = "writing" => caller[c].mine # caller[d].mine

Revocation ==
    /\ tokenFile \notin revoked
    /\ \A c \in Callers :
           /\ caller[c].at = "arrived" => caller[c].old \subseteq revoked
           /\ caller[c].at = "admitted" => caller[c].candidate \notin caller[c].old

NeverEmpty == tokenFile = 0 => \E c \in Callers : caller[c].at = "writing"

(***************************************************************************)
(* As long as nobody met a rewrite, rotations write one after the other,   *)
(* and the newest token is in the file or about to be.                     *)
(***************************************************************************)
Orderly ==
    ~collided =>
        /\ \A c \in Callers : caller[c].at \in {"creating", "writing"} => caller[c].task = "rotate"
        /\ \A c \in Callers : caller[c].at = "writing" =>
               /\ caller[c].mine = made
               /\ \A d \in Callers : caller[d].at = "writing" => d = c
        /\ (\A c \in Callers : caller[c].at # "writing") =>
               /\ tokenFile = made
               /\ \/ tokenFile \in issued \cup untold
                  \/ \E c \in Callers : caller[c].at = "auditing" /\ caller[c].mine = tokenFile

\* The inductive invariant.
TokenInv == TokenTypes /\ AllMade /\ WritersFresh /\ Revocation /\ NeverEmpty /\ Orderly
-----------------------------------------------------------------------------
(* The first token is in the file and handed out. *)
THEOREM TokenInitially == TokenInit => TokenInv
<1> SUFFICES ASSUME TokenInit PROVE TokenInv
  OBVIOUS
<1>1. Resting \in TokenCall /\ Resting.at = "idle" /\ Resting.old = {} /\ Resting.mine = 0
  BY DEF Resting, TokenCall, TokenSteps
<1>2. \A c \in Callers : caller[c] = Resting
  BY DEF TokenInit
<1>3. TokenTypes
  <2>1. caller \in [Callers -> TokenCall]
    BY <1>1 DEF TokenInit
  <2>2. tokenFile = 1 /\ made = 1 /\ issued = {1} /\ revoked = {} /\ untold = {} /\ collided = FALSE
    BY DEF TokenInit
  <2>3. issued \subseteq Nat /\ revoked \subseteq Nat /\ untold \subseteq Nat
    BY <2>2
  <2>4. tokenFile \in Nat /\ made \in Nat \ {0}
    BY <2>2
  <2>5. collided \in BOOLEAN
    BY <2>2
  <2> QED BY <2>1, <2>3, <2>4, <2>5 DEF TokenTypes
<1>4. AllMade /\ WritersFresh /\ Revocation /\ NeverEmpty /\ Orderly
  BY <1>1, <1>2 DEF TokenInit, AllMade, WritersFresh, Revocation, NeverEmpty, Orderly
<1> QED BY <1>3, <1>4 DEF TokenInv

(***************************************************************************)
(* A step that writes no file: thread c goes to r, the others stay.        *)
(***************************************************************************)
LEMMA TokenQuietStep ==
    ASSUME TokenInv, NEW c \in Callers, NEW r \in TokenCall,
           caller' = [caller EXCEPT ![c] = r],
           UNCHANGED <<tokenFile, made, revoked>>,
           collided' \in BOOLEAN, collided => collided',
           issued' \subseteq Nat, untold' \subseteq Nat,
           \A t \in issued' : t <= made, issued \cup untold \subseteq issued' \cup untold',
           caller[c].at # "writing", r.at # "writing",
           r.mine <= made,
           \A t \in r.old : \/ t \in revoked \cup caller[c].old
                            \/ caller[c].at = "admitted" /\ t = caller[c].candidate,
           r.at \in {"arrived", "admitted"} => 0 < r.candidate /\ r.candidate <= made,
           r.at = "arrived" => r.old \subseteq revoked,
           r.at = "admitted" => r.candidate = tokenFile /\ r.candidate \notin r.old,
           r.at = "creating" => collided' \/ r.task = "rotate",
           caller[c].at = "auditing" => caller[c].mine \in issued' \cup untold'
    PROVE  TokenInv'
<1>1. /\ caller'[c] = r
      /\ \A d \in Callers \ {c} : caller'[d] = caller[d]
      /\ tokenFile' = tokenFile /\ made' = made /\ revoked' = revoked
  BY DEF TokenInv, TokenTypes
<1>2. TokenTypes'
  BY DEF TokenInv, TokenTypes
<1>3. \A t \in r.old : 0 < t /\ t <= made
  BY DEF TokenInv, AllMade
<1>4. AllMade'
  BY <1>1, <1>3 DEF TokenInv, AllMade
<1>5. WritersFresh'
  <2> SUFFICES ASSUME NEW d \in Callers, caller'[d].at = "writing"
               PROVE  /\ Unused(caller[d].mine)'
                      /\ \A e \in Callers \ {d} :
                             caller'[e].at = "writing" => caller'[e].mine # caller'[d].mine
    BY <1>1 DEF WritersFresh
  <2>1. d # c /\ caller'[d] = caller[d] /\ Unused(caller[d].mine)
    BY <1>1 DEF TokenInv, WritersFresh
  <2>2. caller[d].mine \notin r.old
    BY <2>1 DEF Unused
  <2>3. Unused(caller[d].mine)'
    BY <1>1, <2>1, <2>2 DEF Unused
  <2> QED BY <1>1, <2>1, <2>3 DEF TokenInv, WritersFresh
<1>6. Revocation'
  BY <1>1 DEF TokenInv, Revocation
<1>7. NeverEmpty'
  BY <1>1 DEF TokenInv, NeverEmpty
<1>8. Orderly'
  BY <1>1 DEF TokenInv, Orderly
<1> QED BY <1>2, <1>4, <1>5, <1>6, <1>7, <1>8 DEF TokenInv

(* A request that is refused or over. *)
LEMMA TokenRestStep ==
    ASSUME TokenInv, NEW c \in Callers,
           caller' = [caller EXCEPT ![c] = Resting],
           UNCHANGED <<tokenFile, made, revoked>>,
           collided' \in BOOLEAN, collided => collided',
           issued' \subseteq Nat, untold' \subseteq Nat,
           \A t \in issued' : t <= made, issued \cup untold \subseteq issued' \cup untold',
           caller[c].at # "writing",
           caller[c].at = "auditing" => caller[c].mine \in issued' \cup untold'
    PROVE  TokenInv'
<1> DEFINE r == Resting
<1>1. r \in TokenCall /\ r.at = "idle" /\ r.old = {} /\ r.mine = 0
  BY DEF Resting, TokenCall, TokenSteps
<1>2. caller' = [caller EXCEPT ![c] = r]
  OBVIOUS
<1> HIDE DEF r
<1>3. made \in Nat /\ r.mine <= made /\ r.at # "writing" /\ r.at # "arrived" /\ r.at # "admitted"
      /\ r.at # "creating" /\ \A t \in r.old : t \in revoked
  BY <1>1 DEF TokenInv, TokenTypes
<1> QED BY <1>1, <1>2, <1>3, TokenQuietStep

(* A request may present any token that was made. *)
LEMMA ArriveStep == ASSUME TokenInv, NEW c \in Callers, Arrive(c) PROVE TokenInv'
<1>1. PICK task \in {"use", "rotate"}, candidate \in 1..made :
          caller' = [caller EXCEPT ![c] = [at |-> "arrived", task |-> task,
                         candidate |-> candidate, mine |-> 0, old |-> revoked]]
  BY DEF Arrive
<1> DEFINE r == [at |-> "arrived", task |-> task, candidate |-> candidate, mine |-> 0,
                 old |-> revoked]
<1>2. r \in TokenCall /\ 0 < candidate /\ candidate <= made /\ 0 <= made
  BY DEF TokenInv, TokenTypes, TokenCall, TokenSteps
<1>3. collided \in BOOLEAN /\ issued \subseteq Nat /\ untold \subseteq Nat /\ \A t \in issued : t <= made
  BY DEF TokenInv, TokenTypes, AllMade
<1>4. /\ r.at = "arrived" /\ r.candidate = candidate /\ r.mine = 0 /\ r.old = revoked
      /\ caller' = [caller EXCEPT ![c] = r]
  BY <1>1
<1>5. caller[c].at = "idle" /\ UNCHANGED <<tokenFile, made, revoked, issued, untold, collided>>
  BY DEF Arrive
<1> HIDE DEF r
<1> QED BY <1>2, <1>3, <1>4, <1>5, TokenQuietStep

(* Only the token in the file is let in; an empty file starts a rewrite. *)
LEMMA VerifyStep == ASSUME TokenInv, NEW c \in Callers, Verify(c) PROVE TokenInv'
<1>1. /\ caller[c] \in TokenCall /\ collided \in BOOLEAN /\ issued \subseteq Nat /\ untold \subseteq Nat
      /\ \A t \in issued : t <= made
      /\ caller[c].at = "arrived" /\ caller[c].mine <= made /\ made \in Nat
      /\ caller[c].old \subseteq revoked /\ 0 < caller[c].candidate /\ caller[c].candidate <= made
      /\ tokenFile \notin revoked
  BY DEF TokenInv, TokenTypes, AllMade, Revocation, Verify
<1>2. /\ collided' \in BOOLEAN
      /\ collided => collided'
      /\ UNCHANGED <<tokenFile, made, revoked>>
      /\ issued' \subseteq Nat /\ untold' \subseteq Nat
      /\ \A t \in issued' : t <= made
      /\ issued \cup untold \subseteq issued' \cup untold'
  BY <1>1 DEF Verify, Collision
<1>6. caller[c].at # "writing" /\ caller[c].at # "auditing" /\ caller[c].mine <= made
  BY <1>1
<1>3. CASE tokenFile = 0
  <2> DEFINE r == [caller[c] EXCEPT !.at = "creating", !.task = "use", !.old = {}]
  <2>1. caller' = [caller EXCEPT ![c] = r]
    BY <1>3 DEF Verify
  <2>2. PICK d \in Callers : caller[d].at = "writing"
    BY <1>3 DEF TokenInv, NeverEmpty
  <2>3. collided'
    BY <1>1, <2>2 DEF Verify, Collision, Rewriting
  <2>4. r \in TokenCall /\ r.at = "creating" /\ r.old = {} /\ r.mine = caller[c].mine
    BY <1>1 DEF TokenCall, TokenSteps
  <2> HIDE DEF r
  <2> QED BY <1>2, <1>6, <2>1, <2>3, <2>4, TokenQuietStep
<1>4. CASE tokenFile # 0 /\ tokenFile = caller[c].candidate
  <2> DEFINE r == [caller[c] EXCEPT !.at = "admitted"]
  <2>1. caller' = [caller EXCEPT ![c] = r]
    BY <1>4 DEF Verify
  <2>2. r \in TokenCall /\ r.at = "admitted" /\ r.old = caller[c].old /\ r.mine = caller[c].mine
        /\ r.candidate = caller[c].candidate
    BY <1>1 DEF TokenCall, TokenSteps
  <2> HIDE DEF r
  <2>3. /\ \A t \in r.old : t \in revoked
        /\ r.candidate = tokenFile /\ r.candidate \notin r.old
        /\ 0 < r.candidate /\ r.candidate <= made
    BY <1>1, <1>4, <2>2
  <2> QED BY <1>2, <1>6, <2>1, <2>2, <2>3, TokenQuietStep
<1>5. CASE tokenFile # 0 /\ tokenFile # caller[c].candidate
  <2>1. caller' = [caller EXCEPT ![c] = Resting]
    BY <1>5 DEF Verify
  <2> QED BY <1>2, <1>6, <2>1, TokenRestStep
<1> QED BY <1>3, <1>4, <1>5

(* A rotation starts with the token that let it in. *)
LEMMA HandleStep == ASSUME TokenInv, NEW c \in Callers, Handle(c) PROVE TokenInv'
<1>1. /\ caller[c] \in TokenCall /\ collided \in BOOLEAN /\ issued \subseteq Nat /\ untold \subseteq Nat
      /\ \A t \in issued : t <= made
      /\ caller[c].at = "admitted" /\ caller[c].mine <= made /\ made \in Nat
  BY DEF TokenInv, TokenTypes, AllMade, Handle
<1>2. UNCHANGED <<tokenFile, made, revoked, issued, untold, collided>>
  BY DEF Handle
<1>3. CASE caller[c].task = "rotate"
  <2> DEFINE r == [caller[c] EXCEPT !.at = "creating", !.old = {caller[c].candidate}]
  <2>1. caller' = [caller EXCEPT ![c] = r]
    BY <1>3 DEF Handle
  <2>2. r \in TokenCall /\ r.at = "creating" /\ r.old = {caller[c].candidate}
        /\ r.mine = caller[c].mine /\ r.task = "rotate"
    BY <1>1, <1>3 DEF TokenCall, TokenSteps
  <2> HIDE DEF r
  <2> QED BY <1>1, <1>2, <2>1, <2>2, TokenQuietStep
<1>4. CASE caller[c].task # "rotate"
  <2>1. caller' = [caller EXCEPT ![c] = Resting]
    BY <1>4 DEF Handle
  <2> QED BY <1>1, <1>2, <2>1, TokenRestStep
<1> QED BY <1>3, <1>4

(* The new token is handed out, or nobody is told of it. *)
LEMMA TokenRespondStep == ASSUME TokenInv, NEW c \in Callers, Respond(c) PROVE TokenInv'
<1>1. /\ caller[c] \in TokenCall /\ collided \in BOOLEAN /\ issued \subseteq Nat /\ untold \subseteq Nat
      /\ \A t \in issued : t <= made
      /\ caller[c].at = "auditing" /\ caller[c].mine <= made /\ made \in Nat
  BY DEF TokenInv, TokenTypes, AllMade, Respond
<1>2. caller[c].mine \in Nat
  BY <1>1 DEF TokenCall
<1>3. /\ issued' \cup untold' = issued \cup untold \cup {caller[c].mine}
      /\ issued' \subseteq Nat /\ untold' \subseteq Nat
      /\ \A t \in issued' : t <= made
  BY <1>1, <1>2 DEF Respond
<1>4. /\ caller' = [caller EXCEPT ![c] = Resting]
      /\ UNCHANGED <<tokenFile, made, revoked, collided>>
  BY DEF Respond
<1> QED BY <1>1, <1>3, <1>4, TokenRestStep
-----------------------------------------------------------------------------
(* The file is emptied for a token that nobody has seen. *)
LEMMA TruncateStep == ASSUME TokenInv, NEW c \in Callers, Truncate(c) PROVE TokenInv'
<1> DEFINE r == [caller[c] EXCEPT !.at = "writing", !.mine = made + 1]
<1>1. /\ caller[c] \in TokenCall /\ made \in Nat \ {0} /\ caller[c].at = "creating"
      /\ caller' = [caller EXCEPT ![c] = r]
      /\ made' = made + 1 /\ tokenFile' = 0 /\ UNCHANGED <<revoked, issued, untold>>
  BY DEF TokenInv, TokenTypes, Truncate
<1>2. /\ caller'[c].at = "writing" /\ caller'[c].mine = made + 1 /\ caller'[c].old = caller[c].old
      /\ caller'[c].task = caller[c].task /\ caller'[c] \in TokenCall
      /\ \A d \in Callers \ {c} : caller'[d] = caller[d]
  <2>0. caller[c] \in TokenCall /\ made + 1 \in Nat
    BY <1>1
  <2>1. /\ r \in TokenCall /\ r.at = "writing" /\ r.mine = made + 1 /\ r.old = caller[c].old
        /\ r.task = caller[c].task
    BY <2>0 DEF TokenCall, TokenSteps
  <2> HIDE DEF r
  <2> QED BY <1>1, <2>1 DEF TokenInv, TokenTypes
<1>10. caller' \in [Callers -> TokenCall] /\ made' \in Nat \ {0}
  <2>0. caller[c] \in TokenCall /\ made + 1 \in Nat \ {0}
    BY <1>1
  <2>1. r \in TokenCall
    BY <2>0 DEF TokenCall, TokenSteps
  <2> HIDE DEF r
  <2> QED BY <1>1, <2>0, <2>1 DEF TokenInv, TokenTypes
<1> HIDE DEF r
<1>3. /\ collided' \in BOOLEAN
      /\ collided => collided'
      /\ ~collided' => \A d \in Callers \ {c} : caller[d].at \notin {"creating", "writing"}
  BY DEF TokenInv, TokenTypes, Truncate, Collision, Rewriting
<1>4. TokenTypes'
  BY <1>1, <1>3, <1>10 DEF TokenInv, TokenTypes
<1>5. AllMade'
  <2>1. \A d \in Callers : caller[d].mine \in Nat /\ caller[d].candidate \in Nat /\ caller[d].old \subseteq Nat
    BY DEF TokenInv, TokenTypes, TokenCall
  <2>2. ASSUME NEW d \in Callers
        PROVE  /\ caller'[d].mine <= made + 1
               /\ caller'[d].at = "writing" => 0 < caller'[d].mine
               /\ caller'[d].at \in {"arrived", "admitted"}
                      => 0 < caller'[d].candidate /\ caller'[d].candidate <= made + 1
               /\ \A t \in caller'[d].old : 0 < t /\ t <= made + 1
    <3>1. /\ caller[d].mine <= made
          /\ caller[d].at = "writing" => 0 < caller[d].mine
          /\ caller[d].at \in {"arrived", "admitted"}
                 => 0 < caller[d].candidate /\ caller[d].candidate <= made
          /\ \A t \in caller[d].old : 0 < t /\ t <= made
      BY DEF TokenInv, AllMade
    <3>2. CASE d = c
      <4>1. made + 1 <= made + 1 /\ 0 < made + 1 /\ \A t \in Nat : t <= made => t <= made + 1
        BY <1>1
      <4>2. caller'[d].at = "writing" /\ caller'[d].mine = made + 1 /\ caller'[d].old = caller[d].old
        BY <1>2, <3>2
      <4> QED BY <2>1, <3>1, <4>1, <4>2
    <3>3. CASE d # c
      <4>1. caller'[d] = caller[d]
        BY <1>2, <3>3
      <4> QED BY <1>1, <2>1, <3>1, <4>1
    <3> QED BY <3>2, <3>3
  <2>3. /\ \A t \in revoked : t \in Nat /\ 0 < t /\ t <= made
        /\ \A t \in issued : t \in Nat /\ t <= made
    BY DEF TokenInv, AllMade, TokenTypes
  <2>4. /\ \A t \in revoked : 0 < t /\ t <= made + 1
        /\ \A t \in issued : t <= made + 1
        /\ 0 <= made + 1
    BY <1>1, <2>3
  <2> QED BY <1>1, <2>2, <2>4 DEF AllMade
<1>6. WritersFresh'
  <2> SUFFICES ASSUME NEW d \in Callers, caller'[d].at = "writing"
               PROVE  /\ Unused(caller[d].mine)'
                      /\ \A e \in Callers \ {d} :
                             caller'[e].at = "writing" => caller'[e].mine # caller'[d].mine
    BY DEF WritersFresh
  <2>1. \A e \in Callers : /\ caller[e].mine \in Nat /\ caller[e].mine <= made
                           /\ \A t \in caller[e].old : t \in Nat /\ t <= made
                           /\ caller[e].at = "admitted" => caller[e].candidate \in Nat /\ caller[e].candidate <= made
    BY DEF TokenInv, TokenTypes, AllMade, TokenCall
  <2>2. \A t \in revoked : t \in Nat /\ t <= made
    BY DEF TokenInv, TokenTypes, AllMade
  <2>3. CASE d = c
    <3>1. made + 1 # 0 /\ \A n \in Nat : n <= made => made + 1 # n
      BY <1>1
    <3>2. \A e \in Callers : /\ made + 1 \notin caller'[e].old
                             /\ caller'[e].at = "admitted" => made + 1 # caller'[e].candidate
      BY <1>2, <2>1, <3>1
    <3>3. Unused(caller[d].mine)'
      BY <1>1, <1>2, <2>2, <2>3, <3>1, <3>2 DEF Unused
    <3>4. \A e \in Callers \ {d} : caller'[e] = caller[e] /\ caller[e].mine # made + 1
      BY <1>2, <2>1, <2>3, <3>1
    <3> QED BY <1>2, <2>3, <3>3, <3>4
  <2>4. CASE d # c
    <3>1. /\ caller'[d] = caller[d] /\ Unused(caller[d].mine)
          /\ 0 < caller[d].mine
          /\ \A e \in Callers \ {d} : caller[e].at = "writing" => caller[e].mine # caller[d].mine
      BY <1>2, <2>4 DEF TokenInv, WritersFresh, AllMade
    <3>2. caller[d].mine # 0 /\ caller[d].mine # made + 1
      BY <1>1, <2>1, <3>1
    <3>3. \A e \in Callers : /\ caller[d].mine \notin caller'[e].old
                             /\ caller'[e].at = "admitted" => caller[d].mine # caller'[e].candidate
      BY <1>2, <3>1 DEF Unused
    <3>4. Unused(caller[d].mine)'
      BY <1>1, <3>1, <3>2, <3>3 DEF Unused
    <3>5. \A e \in Callers \ {d} : caller'[e].at = "writing" => caller'[e].mine # caller[d].mine
      BY <1>2, <3>1, <3>2
    <3> QED BY <3>1, <3>4, <3>5
  <2> QED BY <2>3, <2>4
<1>7. Revocation'
  <2>1. 0 \notin revoked
    BY DEF TokenInv, AllMade
  <2> QED BY <1>1, <1>2, <2>1 DEF TokenInv, Revocation
<1>8. NeverEmpty'
  BY <1>2 DEF NeverEmpty
<1>9. Orderly'
  <2> SUFFICES ASSUME ~collided' PROVE Orderly'
    BY DEF Orderly
  <2>1. \A d \in Callers \ {c} : caller'[d].at \notin {"creating", "writing"}
    BY <1>2, <1>3
  <2>4. ~collided
    BY <1>3
  <2>2. caller[c].task = "rotate"
    BY <1>1, <2>4 DEF TokenInv, Orderly
  <2>3. made' = made + 1
    BY <1>1
  <2> QED BY <1>2, <2>1, <2>2, <2>3 DEF Orderly
<1> QED BY <1>4, <1>5, <1>6, <1>7, <1>8, <1>9 DEF TokenInv

(* The new token is in force, the one it replaces is not. *)
LEMMA FillStep == ASSUME TokenInv, NEW c \in Callers, Fill(c) PROVE TokenInv'
<1> DEFINE rotates == caller[c].task = "rotate"
<1>1. /\ caller[c] \in TokenCall /\ caller[c].at = "writing" /\ 0 < caller[c].mine /\ caller[c].mine <= made
      /\ Unused(caller[c].mine)
      /\ tokenFile' = caller[c].mine /\ UNCHANGED <<made, issued, untold, collided>>
  BY DEF TokenInv, TokenTypes, AllMade, WritersFresh, Fill
<1>2. /\ revoked' = IF rotates THEN revoked \cup caller[c].old ELSE revoked
      /\ \A d \in Callers \ {c} : caller'[d] = caller[d]
      /\ caller' \in [Callers -> TokenCall]
      /\ caller'[c].at = IF rotates THEN "auditing" ELSE "idle"
      /\ caller'[c].mine = IF rotates THEN caller[c].mine ELSE 0
      /\ caller'[c].old \subseteq caller[c].old
  <2>1. CASE rotates
    BY <1>1, <2>1 DEF Fill, TokenInv, TokenTypes, TokenCall, TokenSteps
  <2>2. CASE ~rotates
    <3>1. Resting \in TokenCall /\ Resting.at = "idle" /\ Resting.old = {} /\ Resting.mine = 0
      BY DEF Resting, TokenCall, TokenSteps
    <3> QED BY <2>2, <3>1 DEF Fill, TokenInv, TokenTypes
  <2> QED BY <2>1, <2>2
<1> HIDE DEF rotates
<1>3. TokenTypes'
  BY <1>1, <1>2 DEF TokenInv, TokenTypes, TokenCall
<1>4. AllMade'
  <2>1. \A t \in revoked' : 0 < t /\ t <= made
    BY <1>2 DEF TokenInv, AllMade
  <2> QED BY <1>1, <1>2, <2>1 DEF TokenInv, AllMade, TokenTypes
<1>5. WritersFresh'
  <2> SUFFICES ASSUME NEW d \in Callers, caller'[d].at = "writing"
               PROVE  /\ Unused(caller[d].mine)'
                      /\ \A e \in Callers \ {d} :
                             caller'[e].at = "writing" => caller'[e].mine # caller'[d].mine
    BY DEF WritersFresh
  <2>1. /\ d # c /\ caller'[d] = caller[d] /\ Unused(caller[d].mine)
        /\ \A e \in Callers \ {d} : caller[e].at = "writing" => caller[e].mine # caller[d].mine
    BY <1>2 DEF TokenInv, WritersFresh
  <2>2. caller[d].mine # caller[c].mine /\ caller[d].mine \notin caller[c].old
    BY <1>1, <2>1 DEF Unused
  <2>3. caller[d].mine \notin revoked'
    BY <1>2, <2>1, <2>2 DEF Unused
  <2> QED BY <1>1, <1>2, <2>1, <2>2, <2>3 DEF Unused
<1>6. Revocation'
  <2>1. caller[c].mine \notin revoked'
    BY <1>1, <1>2 DEF Unused
  <2>2. revoked \subseteq revoked'
    BY <1>2
  <2> QED BY <1>1, <1>2, <2>1, <2>2 DEF TokenInv, Revocation
<1>7. NeverEmpty'
  BY <1>1 DEF NeverEmpty
<1>8. Orderly'
  <2> SUFFICES ASSUME ~collided PROVE Orderly'
    BY <1>1 DEF Orderly
  <2>1. /\ rotates /\ caller[c].mine = made
        /\ \A d \in Callers \ {c} : caller[d].at # "writing"
        /\ \A d \in Callers \ {c} : caller[d].at = "creating" => caller[d].task = "rotate"
    BY <1>1 DEF TokenInv, Orderly, rotates
  <2>2. caller'[c].at = "auditing" /\ caller'[c].mine = made /\ tokenFile' = made /\ made' = made
    BY <1>1, <1>2, <2>1
  <2>3. \A d \in Callers : /\ caller'[d].at # "writing"
                           /\ caller'[d].at = "creating" => caller'[d].task = "rotate"
    BY <1>2, <2>1, <2>2
  <2> QED BY <2>2, <2>3 DEF Orderly
<1> QED BY <1>3, <1>4, <1>5, <1>6, <1>7, <1>8 DEF TokenInv

(* A restart leaves a token in the file. *)
LEMMA RestartStep == ASSUME TokenInv, Restart PROVE TokenInv'
<1>1. /\ Resting \in TokenCall /\ Resting.at = "idle" /\ Resting.old = {} /\ Resting.mine = 0
      /\ caller' = [d \in Callers |-> Resting] /\ \A d \in Callers : caller'[d] = Resting
  BY DEF Resting, TokenCall, TokenSteps, Restart
<1>2. /\ tokenFile' # 0 /\ tokenFile' \in Nat /\ made' \in Nat \ {0}
      /\ made <= made' /\ tokenFile' <= made' /\ tokenFile' \notin revoked
      /\ collided' = TRUE /\ UNCHANGED <<revoked, issued, untold>>
  <2>1. CASE tokenFile = 0
    <3>1. made \in Nat \ {0} /\ \A t \in revoked : t \in Nat /\ t <= made
      BY DEF TokenInv, TokenTypes, AllMade
    <3> QED BY <2>1, <3>1 DEF Restart
  <2>2. CASE tokenFile # 0
    BY <2>2 DEF Restart, TokenInv, TokenTypes, AllMade, Revocation
  <2> QED BY <2>1, <2>2
<1>3. TokenTypes'
  BY <1>1, <1>2 DEF TokenInv, TokenTypes
<1>4. AllMade'
  <2>1. /\ made \in Nat /\ \A t \in revoked : t \in Nat /\ 0 < t /\ t <= made
        /\ \A t \in issued : t \in Nat /\ t <= made
    BY DEF TokenInv, TokenTypes, AllMade
  <2> QED BY <1>1, <1>2, <2>1 DEF AllMade
<1>5. WritersFresh' /\ Revocation' /\ NeverEmpty' /\ Orderly'
  BY <1>1, <1>2 DEF WritersFresh, Revocation, NeverEmpty, Orderly
<1> QED BY <1>3, <1>4, <1>5 DEF TokenInv

(* TokenInv holds in every state, for any number of requests and tokens. *)
THEOREM TokenInvariance == TokenSpec => []TokenInv
<1>1. TokenInv /\ [TokenNext]_tokenVars => TokenInv'
  <2> SUFFICES ASSUME TokenInv, [TokenNext]_tokenVars PROVE TokenInv'
    OBVIOUS
  <2>1. CASE \E c \in Callers :
            Arrive(c) \/ Verify(c) \/ Handle(c) \/ Truncate(c) \/ Fill(c) \/ Respond(c)
    BY <2>1, ArriveStep, VerifyStep, HandleStep, TruncateStep, FillStep, TokenRespondStep
  <2>2. CASE Restart
    BY <2>2, RestartStep
  <2>3. CASE UNCHANGED tokenVars
    BY <2>3 DEF tokenVars, TokenInv, TokenTypes, AllMade, WritersFresh, Unused, Revocation,
                NeverEmpty, Orderly
  <2> QED BY <2>1, <2>2, <2>3 DEF TokenNext
<1> QED BY <1>1, TokenInitially, PTL DEF TokenSpec

(***************************************************************************)
(* A rotation holds: the token it replaced is refused from then on, and a  *)
(* resting agent has a token that was handed out or written by a rotation. *)
(***************************************************************************)
THEOREM ReplacedIsRefused == TokenSpec => []RotationHolds
<1>1. TokenInv => RotationHolds
  <2> SUFFICES ASSUME TokenInv PROVE RotationHolds
    OBVIOUS
  <2>1. \A c \in Callers : caller[c].at = "admitted" => caller[c].candidate \notin caller[c].old
    BY DEF TokenInv, Revocation
  <2>2. ASSUME \A c \in Callers : caller[c].at = "idle"
        PROVE  /\ tokenFile # 0
               /\ ~collided => /\ tokenFile \in issued \cup untold
                              /\ \A t \in issued : t <= tokenFile
    BY <2>2 DEF TokenInv, NeverEmpty, Orderly, AllMade
  <2> QED BY <2>1, <2>2 DEF RotationHolds
<1> QED BY <1>1, TokenInvariance, PTL
-----------------------------------------------------------------------------
(***************************************************************************)
(* To quarantine and restore files, for any number of threads, paths and   *)
(* quarantined files: no content vanishes, and files, items and audit rows *)
(* agree.                                                                  *)
(***************************************************************************)

FileStage == {"idle", "checked", "found", "cleared", "copied", "moved"}

FileCall == [at : FileStage, op : Operations, path : Paths, name : 0..MaxNames]

FileOrigin == [op : Operations, path : Paths]

VaultTypes ==
    /\ disk \in [Paths -> Nat] /\ writes \in Nat
    /\ vault \in [Names -> Nat]
    /\ origin \in Seq(FileOrigin) /\ Len(origin) <= MaxNames
    /\ items \in [Names -> {"none", "kept", "restored"}]
    /\ handler \in [Threads -> FileCall]

(***************************************************************************)
(* A content that was not copied is in one place at most; names not given  *)
(* yet hold nothing.                                                       *)
(***************************************************************************)
OnePlace ==
    /\ \A p \in Paths : disk[p] <= writes
    /\ \A n \in Names : vault[n] <= writes
    /\ \A p, q \in Paths : disk[p] = disk[q] /\ disk[p] # 0 => p = q \/ disk[p] \in copied
    /\ \A m, n \in Names : vault[m] = vault[n] /\ vault[m] # 0 => m = n \/ vault[m] \in copied
    /\ \A p \in Paths, n \in Names : disk[p] = vault[n] => disk[p] = 0 \/ disk[p] \in copied
    /\ \A n \in Names : n > Len(origin) =>
           vault[n] = 0 /\ items[n] = "none" /\ n \notin named \cup broken \cup stray

\* A restore has copied this name's file and is about to remove it.
Leaving(n) ==
    \E t \in Threads : handler[t].at = "copied" /\ handler[t].op = "restore" /\ handler[t].name = n

\* A content is somewhere where no restore is about to remove it.
Secure(c) ==
    (\E p \in Paths : disk[p] = c) \/ (\E n \in Names : vault[n] = c /\ ~Leaving(n))

\* What a call relies on of its path.
Own(t) ==
    /\ handler[t].at = "cleared" => disk[handler[t].path] = 0
    /\ handler[t].at = "copied" /\ handler[t].op # "restore" =>
           disk[handler[t].path] \in {0, vault[handler[t].name]}

(***************************************************************************)
(* Nothing is lost as long as every call that relies on its path has it    *)
(* to itself.                                                              *)
(***************************************************************************)
Kept ==
    ~raced =>
        /\ \A c \in 1..writes : c \in erased \/ Secure(c)
        /\ \A t \in Threads : Own(t)

Returning(t) ==
    handler[t].at \in {"found", "cleared"} \/ (handler[t].at = "copied" /\ handler[t].op = "restore")

\* What the place of a thread in its call says about the name it works on.
CallOK(t) ==
    /\ handler[t].at \in {"found", "cleared", "copied", "moved"} =>
           handler[t].name \in 1..Len(origin)
    /\ handler[t].at = "checked" => handler[t].op # "restore"
    /\ handler[t].at \in {"found", "cleared"} => handler[t].op = "restore"
    /\ Returning(t) => items[handler[t].name] \in {"kept", "restored"}

\* From the copy, or the move, of a quarantine and the move of a restore on.
At(t, n) ==
    /\ handler[t].name = n
    /\ handler[t].at = "moved" \/ (handler[t].at = "copied" /\ handler[t].op # "restore")

\* Until its row is committed one thread works on the name.
MovedOnly(n) ==
    \A t \in Threads : At(t, n) =>
        /\ n \notin broken /\ n \notin stray
        /\ \A u \in Threads : At(u, n) => u = t
        /\ handler[t].op = "restore" => vault[n] = 0 /\ items[n] = "kept"
        /\ handler[t].op # "restore" =>
               /\ vault[n] # 0 /\ items[n] = "none" /\ n \notin named
               /\ handler[t].op = origin[n].op

\* After it the rows tell where the file is.
RowTells(n) ==
    (\A t \in Threads : ~At(t, n)) =>
        /\ vault[n] # 0 => n \in named
        /\ vault[n] # 0 /\ origin[n].op = "quarantine" => items[n] = "kept"
        /\ items[n] = "kept" => vault[n] # 0 /\ origin[n].op = "quarantine"
        /\ items[n] = "restored" => vault[n] = 0

\* What a failed call has left is restored by none.
LeftAlone(n) ==
    /\ n \in broken => items[n] = "none" \/ vault[n] = 0
    /\ n \in stray => items[n] = "none" /\ n \notin named /\ vault[n] # 0

NameOK(n) ==
    /\ MovedOnly(n) /\ LeftAlone(n)
    /\ n \notin broken /\ n \notin stray => RowTells(n)

RowsOK == \A n \in 1..Len(origin) : NameOK(n)

CallsOK == \A t \in Threads : CallOK(t)

\* The inductive invariant.
VaultInv == VaultTypes /\ OnePlace /\ Kept /\ CallsOK /\ RowsOK
-----------------------------------------------------------------------------
(* Nothing is written and no call is under way at first. *)
THEOREM VaultInitially == QuarantineInit => VaultInv
<1> SUFFICES ASSUME QuarantineInit PROVE VaultInv
  OBVIOUS
<1> USE QuarantineAssumption
<1>1. VaultTypes
  BY DEF QuarantineInit, FileInit, VaultTypes, Names, FileCall, FileStage, Operations, FileOrigin
<1>2. OnePlace
  BY DEF QuarantineInit, FileInit, OnePlace
<1>3. Kept
  BY DEF QuarantineInit, FileInit, Kept, Own
<1>4. CallsOK
  BY DEF QuarantineInit, CallsOK, CallOK, Returning
<1>5. RowsOK
  BY DEF QuarantineInit, RowsOK
<1> QED BY <1>1, <1>2, <1>3, <1>4, <1>5 DEF VaultInv

(* A path that a call relies on is not filled under it. *)
LEMMA NoRace ==
    ASSUME Kept, WatchRaces, ~raced', NEW t \in Threads, handler'[t] = handler[t],
           handler[t].at = "copied" /\ handler[t].op # "restore" =>
               vault'[handler[t].name] = vault[handler[t].name]
    PROVE  ~raced /\ Own(t)'
<1>1. ~raced /\ Own(t)
  BY DEF Kept, WatchRaces
<1>2. Relies(handler[t]) => disk'[handler[t].path] \in {0, disk[handler[t].path]}
  BY DEF WatchRaces
<1> QED BY <1>1, <1>2 DEF Own, Relies

(* A content that stays where it is stays secure. *)
LEMMA SecureStays ==
    ASSUME NEW c, Secure(c),
           \A p \in Paths : disk[p] = c => Secure(c)',
           \A n \in Names : vault[n] = c /\ ~Leaving(n) => Secure(c)'
    PROVE  Secure(c)'
  BY DEF Secure

(* A thread moves on within its call. *)
LEMMA Reaches ==
    ASSUME VaultTypes, NEW t \in Threads, NEW at \in FileStage, Reach(t, at)
    PROVE  /\ handler' \in [Threads -> FileCall]
           /\ handler'[t].at = at /\ handler'[t].op = handler[t].op
           /\ handler'[t].path = handler[t].path /\ handler'[t].name = handler[t].name
           /\ \A u \in Threads : u # t => handler'[u] = handler[u]
  BY DEF VaultTypes, Reach, FileCall

(* A thread enters a call. *)
LEMMA Enters ==
    ASSUME VaultTypes, NEW t \in Threads, NEW at \in FileStage, NEW op \in Operations,
           NEW p \in Paths, NEW n \in 0..MaxNames, Enter(t, at, op, p, n)
    PROVE  /\ handler' \in [Threads -> FileCall]
           /\ handler'[t].at = at /\ handler'[t].op = op
           /\ handler'[t].path = p /\ handler'[t].name = n
           /\ \A u \in Threads : u # t => handler'[u] = handler[u]
  BY DEF VaultTypes, Enter, FileCall

(* The names that were given. *)
LEMMA NamesGiven ==
    ASSUME VaultTypes
    PROVE  Len(origin) \in Nat /\ 1..Len(origin) \subseteq Names
<1>1. Len(origin) \in Nat /\ Len(origin) <= MaxNames
  BY DEF VaultTypes
<1> QED BY <1>1, QuarantineAssumption DEF Names

(* The rows of the names whose files and rows stay as they are. *)
LEMMA RowsStay ==
    ASSUME RowsOK, UNCHANGED <<vault, origin, items, named, broken, stray>>,
           \A u \in Threads, n \in 1..Len(origin) : At(u, n)' <=> At(u, n),
           \A u \in Threads, n \in 1..Len(origin) : At(u, n) => handler'[u].op = handler[u].op
    PROVE  RowsOK'
<1> SUFFICES ASSUME NEW n \in 1..Len(origin) PROVE NameOK(n)'
  BY DEF RowsOK
<1>1. MovedOnly(n) /\ LeftAlone(n) /\ (n \notin broken /\ n \notin stray => RowTells(n))
  BY DEF RowsOK, NameOK
<1>2. MovedOnly(n)'
  BY <1>1 DEF MovedOnly
<1>3. LeftAlone(n)'
  BY <1>1 DEF LeftAlone
<1>4. n \notin broken' /\ n \notin stray' => RowTells(n)'
  BY <1>1 DEF RowTells
<1> QED BY <1>2, <1>3, <1>4 DEF NameOK
-----------------------------------------------------------------------------
(***************************************************************************)
(* A step of one thread that moves no file and reports nothing, to a place *)
(* that its call allows.                                                   *)
(***************************************************************************)

BeforeMove == {"idle", "checked", "found", "cleared"}

(* Between the places where a call has touched no file. *)
LEMMA FileQuietStep ==
    ASSUME VaultInv, NEW t \in Threads, handler' \in [Threads -> FileCall],
           \A u \in Threads : u # t => handler'[u] = handler[u],
           handler[t].at \in BeforeMove, handler'[t].at \in BeforeMove,
           handler'[t].at = "cleared" => disk[handler'[t].path] = 0,
           CallOK(t)',
           UNCHANGED <<disk, writes, erased, vaultVars>>, WatchRaces
    PROVE  VaultInv'
<1> USE DEF VaultInv
<1>1. VaultTypes'
  BY DEF VaultTypes, vaultVars, Names
<1>2. OnePlace'
  BY DEF OnePlace, vaultVars
<1>3. Kept'
  <2>1. \A n : Leaving(n)' <=> Leaving(n)
    BY DEF Leaving, BeforeMove
  <2>2. \A c : Secure(c) => Secure(c)'
    BY <2>1 DEF Secure, vaultVars
  <2>3. ASSUME ~raced', NEW u \in Threads PROVE ~raced /\ Own(u)'
    <3>1. CASE u = t
      BY <2>3, <3>1 DEF Own, BeforeMove, WatchRaces
    <3>2. CASE u # t
      BY <2>3, <3>2, NoRace DEF vaultVars
    <3> QED BY <3>1, <3>2
  <2>4. ~raced' => ~raced
    BY DEF WatchRaces
  <2>5. ~raced => \A c \in 1..writes : c \in erased \/ Secure(c)
    BY DEF Kept
  <2> QED BY <2>2, <2>3, <2>4, <2>5 DEF Kept
<1>4. CallsOK'
  <2> SUFFICES ASSUME NEW u \in Threads, u # t PROVE CallOK(u)'
    BY DEF CallsOK
  <2> QED BY DEF CallsOK, CallOK, Returning, vaultVars
<1>5. RowsOK'
  <2>1. \A u \in Threads, n \in 1..Len(origin) : At(u, n)' <=> At(u, n)
    BY DEF At, BeforeMove
  <2>2. \A u \in Threads, n \in 1..Len(origin) : At(u, n) => handler'[u].op = handler[u].op
    BY DEF At, BeforeMove
  <2> QED BY <2>1, <2>2, RowsStay DEF vaultVars
<1> QED BY <1>1, <1>2, <1>3, <1>4, <1>5
-----------------------------------------------------------------------------
(* The steps of a call that move no file. *)

(* The start of a quarantine has looked at nothing but the file. *)
LEMMA AskStep ==
    ASSUME VaultInv, NEW t \in Threads, NEW p \in Paths,
           NEW op \in {"quarantine", "startup", "auto"},
           handler[t].at = "idle", Enter(t, "checked", op, p, 0),
           UNCHANGED <<disk, writes, erased, vaultVars>>, WatchRaces
    PROVE  VaultInv'
<1> USE QuarantineAssumption
<1>1. 0 \in 0..MaxNames /\ "checked" \in FileStage /\ op \in Operations /\ VaultTypes
  BY DEF FileStage, Operations, VaultInv
<1>2. /\ handler' \in [Threads -> FileCall]
      /\ handler'[t].at = "checked" /\ handler'[t].op = op
      /\ \A u \in Threads : u # t => handler'[u] = handler[u]
  BY <1>1, Enters
<1>3. CallOK(t)'
  BY <1>2 DEF CallOK, Returning
<1> QED BY <1>2, <1>3, FileQuietStep DEF BeforeMove

(* A restore starts from an item that says kept. *)
LEMMA AskRestoreStep ==
    ASSUME VaultInv, NEW t \in Threads, NEW n \in Names, AskRestore(t, n), WatchRaces
    PROVE  VaultInv'
<1> USE QuarantineAssumption
<1>1. n \in 1..Len(origin) /\ items[n] = "kept" /\ VaultTypes
  <2>1. items[n] = "kept" /\ VaultTypes /\ OnePlace /\ Len(origin) \in Nat
    BY DEF VaultInv, VaultTypes, AskRestore
  <2>2. ~(n > Len(origin))
    BY <2>1 DEF OnePlace
  <2> QED BY <2>1, <2>2 DEF Names
<1>2. origin[n].path \in Paths /\ n \in 0..MaxNames
  <2>1. origin \in Seq(FileOrigin)
    BY <1>1 DEF VaultTypes
  <2>2. origin[n] \in FileOrigin
    BY <1>1, <2>1
  <2>3. n \in 0..MaxNames
    BY DEF Names
  <2> QED BY <2>2, <2>3 DEF FileOrigin
<1>3. "found" \in FileStage /\ "restore" \in Operations
  BY DEF FileStage, Operations
<1>4. /\ handler' \in [Threads -> FileCall]
      /\ handler'[t].at = "found" /\ handler'[t].op = "restore" /\ handler'[t].name = n
      /\ \A u \in Threads : u # t => handler'[u] = handler[u]
  BY <1>1, <1>2, <1>3, Enters DEF AskRestore
<1>5. CallOK(t)'
  BY <1>1, <1>4 DEF CallOK, Returning, AskRestore, vaultVars
<1>6. handler[t].at = "idle" /\ UNCHANGED <<disk, writes, erased, vaultVars>>
  BY DEF AskRestore, fileVars, userVars
<1> QED BY <1>4, <1>5, <1>6, FileQuietStep DEF BeforeMove

(* A call that goes on to the next place, or gives up. *)
LEMMA ReachStep ==
    ASSUME VaultInv, NEW t \in Threads, NEW at \in {"idle", "cleared"}, Reach(t, at),
           handler[t].at \in BeforeMove,
           at = "cleared" => handler[t].at = "found" /\ disk[handler[t].path] = 0,
           UNCHANGED <<disk, writes, erased, vaultVars>>, WatchRaces
    PROVE  VaultInv'
<1>1. at \in FileStage /\ VaultTypes /\ CallOK(t)
  BY DEF FileStage, VaultInv, CallsOK
<1>2. /\ handler' \in [Threads -> FileCall]
      /\ handler'[t].at = at /\ handler'[t].op = handler[t].op
      /\ handler'[t].path = handler[t].path /\ handler'[t].name = handler[t].name
      /\ \A u \in Threads : u # t => handler'[u] = handler[u]
  BY <1>1, Reaches
<1>3. CallOK(t)'
  BY <1>1, <1>2 DEF CallOK, Returning, vaultVars
<1>4. handler'[t].at \in BeforeMove
  BY <1>2 DEF BeforeMove
<1>5. handler'[t].at = "cleared" => disk[handler'[t].path] = 0
  BY <1>2
<1> QED BY <1>2, <1>3, <1>4, <1>5, FileQuietStep

(* What the check found is what the restore relies on. *)
LEMMA CheckStep ==
    ASSUME VaultInv, NEW t \in Threads, CheckRestore(t) \/ MoveRefused(t), WatchRaces
    PROVE  VaultInv'
<1>1. UNCHANGED <<disk, writes, erased, vaultVars>>
  BY DEF CheckRestore, MoveRefused, fileVars, userVars
<1>2. PICK at \in {"idle", "cleared"} :
          /\ Reach(t, at)
          /\ at = "cleared" => handler[t].at = "found" /\ disk[handler[t].path] = 0
  BY DEF CheckRestore, MoveRefused
<1>3. handler[t].at \in BeforeMove
  BY DEF CheckRestore, MoveRefused, BeforeMove
<1> QED BY <1>1, <1>2, <1>3, ReachStep
-----------------------------------------------------------------------------
(* The world around the calls. *)

(* Users write and delete; the file monitor only reads. *)
LEMMA FilesStep == ASSUME VaultInv, Files, WatchRaces PROVE VaultInv'
<1> USE DEF VaultInv
<1>1. handler' = handler /\ UNCHANGED vaultVars
  BY DEF Files
<1>2. CallsOK' /\ RowsOK'
  <2>1. CallsOK'
    BY <1>1 DEF CallsOK, CallOK, Returning, vaultVars
  <2>2. RowsOK'
    BY <1>1, RowsStay DEF At, vaultVars
  <2> QED BY <2>1, <2>2
<1>3. ~raced' => ~raced /\ \A t \in Threads : Own(t)'
  <2>1. ASSUME ~raced', NEW t \in Threads PROVE ~raced /\ Own(t)'
    BY <1>1, <2>1, NoRace DEF vaultVars
  <2> QED BY <2>1 DEF WatchRaces
<1>4. \A n : Leaving(n)' <=> Leaving(n)
  BY <1>1 DEF Leaving
<1>5. ASSUME NEW c, Secure(c), \A p \in Paths : disk[p] = c => disk'[p] = c PROVE Secure(c)'
  BY <1>1, <1>4, <1>5 DEF Secure, vaultVars
<1>6. ~raced => \A c \in 1..writes : c \in erased \/ Secure(c)
  BY DEF Kept
<1>7. ASSUME NEW p \in Paths, DeleteFile(p) PROVE VaultInv'
  <2> USE DEF DeleteFile
  <2>1. VaultTypes'
    BY <1>1, <1>7 DEF VaultTypes, vaultVars
  <2>2. OnePlace'
    BY <1>1, <1>7 DEF OnePlace, VaultTypes, vaultVars
  <2>3. ASSUME NEW c \in 1..writes, Secure(c) PROVE c \in erased' \/ Secure(c)'
    <3>1. CASE c = disk[p]
      BY <1>7, <3>1
    <3>2. CASE c # disk[p]
      BY <1>5, <1>7, <2>3, <3>2 DEF VaultTypes
    <3> QED BY <3>1, <3>2
  <2>4. Kept'
    BY <1>3, <1>6, <1>7, <2>3 DEF Kept
  <2> QED BY <1>2, <2>1, <2>2, <2>4
<1>8. ASSUME NEW p \in Paths, NEW how, WriteFile(p, how) PROVE VaultInv'
  <2> USE DEF WriteFile
  <2>0. disk' = [disk EXCEPT ![p] = writes + 1] /\ writes' = writes + 1
        /\ erased' = (erased \cup {disk[p]}) \ {0}
    BY <1>8
  <2>1. VaultTypes'
    BY <1>1, <2>0 DEF VaultTypes, vaultVars
  <2>2. OnePlace'
    <3>1. \A q \in Paths : disk'[q] = IF q = p THEN writes + 1 ELSE disk[q]
      BY <2>0 DEF VaultTypes
    <3>2. \A q \in Paths : disk[q] <= writes /\ disk[q] \in Nat
      BY DEF VaultTypes, OnePlace
    <3>3. \A n \in Names : vault[n] <= writes /\ vault[n] \in Nat
      BY DEF VaultTypes, OnePlace
    <3>4. writes \in Nat
      BY DEF VaultTypes
    <3> QED BY <1>1, <2>0, <3>1, <3>2, <3>3, <3>4 DEF OnePlace, vaultVars
  <2>3. ASSUME NEW c \in 1..writes, Secure(c) PROVE c \in erased' \/ Secure(c)'
    <3>0. c # 0
      BY DEF VaultTypes
    <3>1. CASE c = disk[p]
      BY <2>0, <3>0, <3>1
    <3>2. CASE c # disk[p]
      BY <1>5, <2>0, <2>3, <3>2 DEF VaultTypes
    <3> QED BY <3>1, <3>2
  <2>4. \A c : c = writes + 1 => Secure(c)'
    BY <2>0 DEF Secure, VaultTypes
  <2>5. Kept'
    <3>2. ASSUME ~raced, NEW c \in 1..writes' PROVE c \in erased' \/ Secure(c)'
      <4>1. CASE c = writes + 1
        BY <2>4, <4>1
      <4>2. CASE c # writes + 1
        <5>1. c \in 1..writes /\ c # 0
          BY <2>0, <4>2 DEF VaultTypes
        <5>2. c \in erased => c \in erased'
          BY <2>0, <5>1
        <5> QED BY <1>6, <2>3, <3>2, <5>1, <5>2
      <4> QED BY <4>1, <4>2
    <3> QED BY <1>3, <3>2 DEF Kept
  <2> QED BY <1>2, <2>1, <2>2, <2>5
<1>9. ASSUME UNCHANGED userVars PROVE VaultInv'
  <2>1. VaultTypes' /\ OnePlace'
    BY <1>1, <1>9 DEF VaultTypes, OnePlace, userVars, vaultVars
  <2>2. \A c : Secure(c) => Secure(c)'
    BY <1>5, <1>9 DEF userVars
  <2>3. Kept'
    BY <1>3, <1>6, <1>9, <2>2 DEF Kept, userVars
  <2> QED BY <1>2, <2>1, <2>3
<1>10. FileStep =>
          \/ \E p \in Paths : DeleteFile(p) \/ \E how \in {"created", "modified", "moved"} : WriteFile(p, how)
          \/ UNCHANGED userVars
  BY DEF FileStep, TakeFileEvent, ReadFile, CommitFile, DropFile
<1> QED BY <1>7, <1>8, <1>9, <1>10 DEF Files

(* The automatic response begins like a request, or finds no file. *)
LEMMA RespondStep ==
    ASSUME VaultInv, NEW p \in Paths, RespondToFile(p), WatchRaces PROVE VaultInv'
<1>1. AutoThread \in Threads /\ handler[AutoThread].at = "idle"
  BY DEF Threads, RespondToFile
<1>2. UNCHANGED <<disk, writes, erased, vaultVars>>
  BY DEF RespondToFile, userVars
<1>3. CASE disk[p] # 0
  <2>1. Enter(AutoThread, "checked", "auto", p, 0)
    BY <1>3 DEF RespondToFile
  <2> QED BY <1>1, <1>2, <2>1, AskStep
<1>4. CASE disk[p] = 0
  <2>1. handler' = handler
    BY <1>4 DEF RespondToFile
  <2>2. handler' \in [Threads -> FileCall] /\ CallOK(AutoThread)'
    BY <1>1, <1>2, <2>1 DEF VaultInv, VaultTypes, CallsOK, CallOK, Returning, vaultVars
  <2> QED BY <1>1, <1>2, <2>1, <2>2, FileQuietStep DEF BeforeMove
<1> QED BY <1>3, <1>4
-----------------------------------------------------------------------------
(***************************************************************************)
(* A quarantine gives a name that nobody works on: what its calls and rows *)
(* become, whether the file is renamed, copied, or copied in part.         *)
(***************************************************************************)
LEMMA NameStep ==
    ASSUME VaultInv, NEW t \in Threads, handler[t].at = "checked",
           NEW c \in Nat \ {0}, NewName(t, c), NEW n, n = Len(origin) + 1,
           NEW at \in {"idle", "copied", "moved"},
           handler' \in [Threads -> FileCall], handler'[t].at = at,
           handler'[t].op = handler[t].op, at # "idle" => handler'[t].name = n,
           \A u \in Threads : u # t => handler'[u] = handler[u],
           UNCHANGED <<items, named, broken>>,
           stray' = IF at = "idle" THEN stray \cup {n} ELSE stray
    PROVE  /\ n \in Names /\ vault[n] = 0 /\ ~Leaving(n)
           /\ \A m \in Names : vault'[m] = IF m = n THEN c ELSE vault[m]
           /\ vault' \in [Names -> Nat] /\ origin' \in Seq(FileOrigin) /\ Len(origin') = n
           /\ n <= MaxNames /\ handler[t].path \in Paths
           /\ \A m : Leaving(m)' <=> Leaving(m)
           /\ \A u \in Threads : handler[u].at = "copied" => handler[u].name # n
           /\ \A m \in Names : m > Len(origin') => m > Len(origin) /\ m # n
           /\ CallsOK' /\ RowsOK'
<1> USE DEF VaultInv
<1>1. /\ handler \in [Threads -> FileCall] /\ origin \in Seq(FileOrigin)
      /\ handler[t] \in FileCall /\ Len(origin) \in Nat
  BY DEF VaultTypes
<1>2. /\ n \in Names /\ n \in Nat /\ n <= MaxNames
      /\ vault' = [vault EXCEPT ![n] = c]
      /\ origin' = Append(origin, [op |-> handler[t].op, path |-> handler[t].path])
  BY <1>1, QuarantineAssumption DEF NewName, Names
<1>3. handler[t].path \in Paths /\ handler[t].op \in Operations /\ handler[t].op # "restore"
  BY <1>1 DEF FileCall, CallsOK, CallOK
<1>5. /\ handler'[t].at = at /\ handler'[t].op = handler[t].op
      /\ at # "idle" => handler'[t].name = n
      /\ \A u \in Threads : u # t => handler'[u] = handler[u]
  OBVIOUS
<1>6. [op |-> handler[t].op, path |-> handler[t].path] \in FileOrigin
  BY <1>3 DEF FileOrigin
<1>7. /\ origin' \in Seq(FileOrigin) /\ Len(origin') = n
      /\ \A m \in 1..Len(origin) : origin'[m] = origin[m]
      /\ origin'[n] = [op |-> handler[t].op, path |-> handler[t].path]
  BY <1>1, <1>2, <1>6
<1>8. vault[n] = 0 /\ items[n] = "none" /\ n \notin named
  BY <1>1, <1>2 DEF OnePlace
<1>9. \A u \in Threads : handler[u].at \in {"found", "cleared", "copied", "moved"} =>
          handler[u].name \in 1..Len(origin) /\ handler[u].name # n
  BY <1>1 DEF CallsOK, CallOK
<1>10. /\ \A m \in Names : vault'[m] = IF m = n THEN c ELSE vault[m]
       /\ vault' \in [Names -> Nat]
  BY <1>2 DEF VaultTypes
<1>11. (\A m : Leaving(m)' <=> Leaving(m)) /\ ~Leaving(n)
  BY <1>3, <1>5, <1>9 DEF Leaving
<1>12. \A m \in Names : m > Len(origin') => m > Len(origin) /\ m # n
  BY <1>1, <1>7 DEF Names
<1>13. CallsOK'
  <2>0. 1..Len(origin) \subseteq 1..Len(origin')
    BY <1>1, <1>7
  <2>1. CallOK(t)'
    <3>1. at # "idle" => handler'[t].name \in 1..Len(origin')
      BY <1>1, <1>5, <1>7
    <3> QED BY <1>3, <1>5, <3>1 DEF CallOK, Returning
  <2>2. ASSUME NEW u \in Threads, u # t PROVE CallOK(u)'
    <3>1. handler'[u] = handler[u] /\ CallOK(u)
      BY <1>5, <2>2 DEF CallsOK
    <3> QED BY <2>0, <3>1 DEF CallOK, Returning
  <2> QED BY <2>1, <2>2 DEF CallsOK
<1>14. RowsOK'
  <2>0. \A u \in Threads : ~At(u, n)
    BY <1>9 DEF At
  <2>1. /\ \A u \in Threads : At(u, n)' => u = t
        /\ at = "idle" => ~At(t, n)'
        /\ at # "idle" => At(t, n)'
    BY <1>3, <1>5, <2>0 DEF At
  <2>3. NameOK(n)'
    <3>1. CASE at = "idle"
      <4>1. MovedOnly(n)' /\ n \in stray'
        BY <2>1, <3>1 DEF MovedOnly
      <4>2. LeftAlone(n)'
        BY <1>2, <1>8, <1>10 DEF LeftAlone
      <4> QED BY <4>1, <4>2 DEF NameOK
    <3>2. CASE at # "idle" /\ n \notin broken /\ n \notin stray
      <4>1. MovedOnly(n)'
        BY <1>2, <1>3, <1>5, <1>7, <1>8, <1>10, <2>1, <3>2 DEF MovedOnly
      <4>2. LeftAlone(n)' /\ RowTells(n)'
        BY <2>1, <3>2 DEF LeftAlone, RowTells
      <4> QED BY <4>1, <4>2 DEF NameOK
    <3>3. n \notin broken /\ n \notin stray
      BY <1>1, <1>2 DEF OnePlace, vaultVars
    <3> QED BY <3>1, <3>2, <3>3
  <2>4. ASSUME NEW m \in 1..Len(origin) PROVE NameOK(m)'
    <3>1. m # n /\ m \in Names /\ MovedOnly(m) /\ LeftAlone(m)
          /\ (m \notin broken /\ m \notin stray => RowTells(m))
      BY <1>1, NamesGiven DEF RowsOK, NameOK
    <3>2. vault'[m] = vault[m] /\ origin'[m] = origin[m] /\ (m \in stray' <=> m \in stray)
      BY <1>7, <1>10, <3>1
    <3>3. \A u \in Threads : At(u, m)' <=> At(u, m)
      <4>1. ~At(t, m)
        BY DEF At
      <4>2. ~At(t, m)'
        BY <1>5, <3>1 DEF At
      <4> QED BY <1>5, <4>1, <4>2 DEF At
    <3>4. \A u \in Threads : At(u, m) => handler'[u] = handler[u]
      BY <1>5 DEF At
    <3>5. MovedOnly(m)'
      BY <3>1, <3>2, <3>3, <3>4 DEF MovedOnly
    <3>6. LeftAlone(m)'
      BY <3>1, <3>2 DEF LeftAlone
    <3>7. m \notin broken' /\ m \notin stray' => RowTells(m)'
      BY <3>1, <3>2, <3>3 DEF RowTells
    <3> QED BY <3>5, <3>6, <3>7 DEF NameOK
  <2>5. \A m \in 1..Len(origin') : m = n \/ m \in 1..Len(origin)
    BY <1>1, <1>7
  <2> QED BY <2>3, <2>4, <2>5 DEF RowsOK
<1> QED BY <1>2, <1>3, <1>5, <1>7, <1>8, <1>9, <1>10, <1>11, <1>12, <1>13, <1>14

(* What one thread's step leaves of what the other calls rely on. *)
LEMMA KeptStep ==
    ASSUME VaultInv, WatchRaces, NEW t \in Threads,
           \A u \in Threads : u # t => handler'[u] = handler[u],
           \A u \in Threads : u # t /\ handler[u].at = "copied" /\ handler[u].op # "restore" =>
               vault'[handler[u].name] = vault[handler[u].name],
           ~raced => Own(t)',
           ~raced => \A c \in 1..writes' : c \in erased' \/ Secure(c)'
    PROVE  Kept'
<1>1. ASSUME ~raced', NEW u \in Threads, u # t PROVE Own(u)'
  BY <1>1, NoRace DEF VaultInv
<1>2. ~raced' => ~raced
  BY DEF WatchRaces
<1> QED BY <1>1, <1>2 DEF Kept

(* What the invariant says of the contents before a step. *)
LEMMA KeptSoFar ==
    ASSUME VaultInv, ~raced
    PROVE  /\ \A c \in 1..writes : c # 0 /\ (c \in erased \/ Secure(c))
           /\ \A t \in Threads : Own(t)
  BY DEF VaultInv, Kept, VaultTypes

(* A quarantine by renaming. *)
LEMMA MoveAwayStep ==
    ASSUME VaultInv, NEW t \in Threads, MoveAway(t), WatchRaces,
           NEW p, p = handler[t].path, NEW n, n = Len(origin) + 1, NEW c, c = disk[p]
    PROVE  VaultInv'
<1>1. VaultTypes /\ OnePlace /\ handler[t].path \in Paths /\ Len(origin) \in Nat
  BY DEF VaultInv, VaultTypes, FileCall
<1>2. c \in Nat \ {0} /\ NewName(t, c) /\ handler[t].at = "checked"
  BY <1>1 DEF MoveAway, VaultTypes
<1>3. Len(origin)' = n
  BY <1>1, <1>2 DEF NewName, VaultTypes
<1>4. /\ handler' \in [Threads -> FileCall] /\ handler'[t].at = "moved"
      /\ handler'[t].op = handler[t].op /\ handler'[t].name = n
      /\ \A u \in Threads : u # t => handler'[u] = handler[u]
  <2>1. n \in 0..MaxNames /\ "moved" \in FileStage /\ handler[t].op \in Operations
    BY <1>1, <1>2, QuarantineAssumption DEF NewName, Names, VaultTypes, FileCall, FileStage
  <2>2. Enter(t, "moved", handler[t].op, p, n)
    BY <1>3 DEF MoveAway
  <2> QED BY <1>1, <2>1, <2>2, Enters
<1>5. UNCHANGED <<writes, erased, items, named, broken, stray, copied>>
      /\ disk' = [disk EXCEPT ![p] = 0]
  BY DEF MoveAway
<1>6. /\ n \in Names /\ vault[n] = 0 /\ ~Leaving(n)
      /\ \A m \in Names : vault'[m] = IF m = n THEN c ELSE vault[m]
      /\ vault' \in [Names -> Nat] /\ origin' \in Seq(FileOrigin) /\ Len(origin') = n
      /\ n <= MaxNames
      /\ \A m : Leaving(m)' <=> Leaving(m)
      /\ \A u \in Threads : handler[u].at = "copied" => handler[u].name # n
      /\ \A m \in Names : m > Len(origin') => m > Len(origin) /\ m # n
      /\ CallsOK' /\ RowsOK'
  BY <1>2, <1>4, <1>5, NameStep
<1>7. p \in Paths /\ \A q \in Paths : disk'[q] = IF q = p THEN 0 ELSE disk[q]
  BY <1>1, <1>5 DEF VaultTypes
<1>8. VaultTypes'
  BY <1>1, <1>4, <1>5, <1>6 DEF VaultTypes
<1>9. OnePlace'
  <2>1. /\ writes \in Nat /\ disk \in [Paths -> Nat] /\ vault \in [Names -> Nat]
        /\ disk[p] = c /\ c # 0 /\ writes' = writes /\ copied' = copied
    BY <1>1, <1>2, <1>5 DEF VaultTypes
  <2>2. (\A q \in Paths : disk'[q] <= writes') /\ \A m \in Names : vault'[m] <= writes'
    BY <1>1, <1>6, <1>7, <2>1 DEF OnePlace
  <2>3. ASSUME NEW q1 \in Paths, NEW q2 \in Paths, disk'[q1] = disk'[q2], disk'[q1] # 0
        PROVE  q1 = q2 \/ disk'[q1] \in copied'
    <3>1. disk'[q1] = disk[q1] /\ disk'[q2] = disk[q2]
      BY <1>7, <2>3
    <3> QED BY <1>1, <2>1, <2>3, <3>1 DEF OnePlace
  <2>4. ASSUME NEW m \in Names, vault[m] = c
        PROVE  c \in copied
    BY <1>1, <1>7, <2>1, <2>4 DEF OnePlace
  <2>5. ASSUME NEW m1 \in Names, NEW m2 \in Names, vault'[m1] = vault'[m2], vault'[m1] # 0
        PROVE  m1 = m2 \/ vault'[m1] \in copied'
    <3>1. CASE m1 # n /\ m2 # n
      <4>1. vault'[m1] = vault[m1] /\ vault'[m2] = vault[m2]
        BY <1>6, <3>1
      <4> QED BY <1>1, <2>1, <2>5, <4>1 DEF OnePlace
    <3>2. CASE m1 = n \/ m2 = n
      BY <1>6, <2>1, <2>4, <2>5, <3>2
    <3> QED BY <3>1, <3>2
  <2>6. ASSUME NEW q \in Paths, NEW m \in Names, disk'[q] = vault'[m], disk'[q] # 0
        PROVE  disk'[q] \in copied'
    <3>1. disk'[q] = disk[q] /\ q # p
      BY <1>7, <2>6
    <3>2. CASE m = n
      <4>1. disk[q] = disk[p]
        BY <1>6, <2>1, <2>6, <3>1, <3>2
      <4> QED BY <1>1, <1>7, <2>1, <2>6, <3>1, <4>1 DEF OnePlace
    <3>3. CASE m # n
      <4>1. vault'[m] = vault[m]
        BY <1>6, <3>3
      <4> QED BY <1>1, <2>1, <2>6, <3>1, <4>1 DEF OnePlace
    <3> QED BY <3>2, <3>3
  <2>7. ASSUME NEW m \in Names, m > Len(origin')
        PROVE  vault'[m] = 0 /\ items'[m] = "none" /\ m \notin named' \cup broken' \cup stray'
    <3>1. m > Len(origin) /\ vault'[m] = vault[m]
      BY <1>6, <2>7
    <3> QED BY <1>1, <1>5, <3>1 DEF OnePlace
  <2> QED BY <2>2, <2>3, <2>5, <2>6, <2>7 DEF OnePlace
<1>10. Kept'
  <2>1. Own(t)'
    BY <1>4 DEF Own
  <2>2. ASSUME NEW d, d # 0, Secure(d) PROVE Secure(d)'
    <3>1. \A q \in Paths : disk[q] = d => Secure(d)'
      BY <1>6, <1>7 DEF Secure
    <3>2. \A m \in Names : vault[m] = d /\ ~Leaving(m) => Secure(d)'
      BY <1>6, <2>2 DEF Secure
    <3> QED BY <2>2, <3>1, <3>2, SecureStays
  <2>3. ~raced => \A d \in 1..writes' : d \in erased' \/ Secure(d)'
    BY <1>5, <2>2, KeptSoFar
  <2>4. \A u \in Threads : u # t /\ handler[u].at = "copied" /\ handler[u].op # "restore" =>
            vault'[handler[u].name] = vault[handler[u].name]
    <3>1. \A u \in Threads : handler[u].at = "copied" => handler[u].name \in Names
      BY NamesGiven DEF VaultInv, CallsOK, CallOK
    <3> QED BY <1>6, <3>1
  <2> QED BY <1>4, <2>1, <2>3, <2>4, KeptStep
<1> QED BY <1>6, <1>8, <1>9, <1>10 DEF VaultInv

(* A quarantine that has copied the file, and one whose copy broke off. *)
LEMMA CopyAwayStep ==
    ASSUME VaultInv, NEW t \in Threads, CopyAway(t) \/ CopyAwayBreaks(t), WatchRaces,
           NEW p, p = handler[t].path, NEW n, n = Len(origin) + 1
    PROVE  VaultInv'
<1>1. VaultTypes /\ OnePlace /\ p \in Paths /\ Len(origin) \in Nat /\ disk' = disk
      /\ handler[t].at = "checked" /\ disk[p] # 0
      /\ UNCHANGED <<erased, items, named, broken>>
  BY DEF VaultInv, VaultTypes, FileCall, CopyAway, CopyAwayBreaks, fileVars, userVars
<1>2. ASSUME NEW c \in Nat \ {0}, NewName(t, c), NEW at \in {"idle", "copied"},
             handler' \in [Threads -> FileCall], handler'[t].at = at,
             handler'[t].op = handler[t].op, handler'[t].path = p,
             at # "idle" => handler'[t].name = n,
             \A u \in Threads : u # t => handler'[u] = handler[u],
             stray' = IF at = "idle" THEN stray \cup {n} ELSE stray,
             \/ at = "copied" /\ c = disk[p] /\ writes' = writes /\ copied' = copied \cup {c}
             \/ at = "idle" /\ c = writes + 1 /\ writes' = writes + 1 /\ copied' = copied
      PROVE  VaultInv'
  <2>1. /\ n \in Names /\ vault[n] = 0 /\ ~Leaving(n)
        /\ \A m \in Names : vault'[m] = IF m = n THEN c ELSE vault[m]
        /\ vault' \in [Names -> Nat] /\ origin' \in Seq(FileOrigin) /\ Len(origin') = n
        /\ n <= MaxNames
        /\ \A m : Leaving(m)' <=> Leaving(m)
        /\ \A u \in Threads : handler[u].at = "copied" => handler[u].name # n
        /\ \A m \in Names : m > Len(origin') => m > Len(origin) /\ m # n
        /\ CallsOK' /\ RowsOK'
    BY <1>1, <1>2, NameStep
  <2>2. writes \in Nat /\ disk \in [Paths -> Nat] /\ vault \in [Names -> Nat]
    BY <1>1 DEF VaultTypes
  <2>3. VaultTypes'
    BY <1>1, <1>2, <2>1, <2>2 DEF VaultTypes
  <2>4. /\ \A q \in Paths : disk'[q] = disk[q] /\ disk[q] <= writes'
        /\ \A m \in Names : vault[m] <= writes' /\ (m # n => vault'[m] = vault[m])
        /\ vault'[n] = c /\ c <= writes' /\ copied \subseteq copied'
    BY <1>1, <1>2, <2>1, <2>2 DEF OnePlace
  <2>5. OnePlace'
    <3>1. c \in copied' \/ ((\A q \in Paths : disk[q] # c) /\ \A m \in Names : vault[m] # c)
      BY <1>1, <1>2, <2>2 DEF OnePlace
    <3>2. ASSUME NEW q1 \in Paths, NEW q2 \in Paths, disk'[q1] = disk'[q2], disk'[q1] # 0
          PROVE  q1 = q2 \/ disk'[q1] \in copied'
      BY <1>1, <2>4, <3>2 DEF OnePlace
    <3>3. ASSUME NEW m1 \in Names, NEW m2 \in Names, vault'[m1] = vault'[m2], vault'[m1] # 0
          PROVE  m1 = m2 \/ vault'[m1] \in copied'
      <4>1. CASE m1 # n /\ m2 # n
        BY <1>1, <2>4, <3>3, <4>1 DEF OnePlace
      <4>2. CASE m1 = n \/ m2 = n
        BY <2>4, <3>1, <3>3, <4>2
      <4> QED BY <4>1, <4>2
    <3>4. ASSUME NEW q \in Paths, NEW m \in Names, disk'[q] = vault'[m]
          PROVE  disk'[q] = 0 \/ disk'[q] \in copied'
      <4>1. CASE m # n
        BY <1>1, <2>4, <3>4, <4>1 DEF OnePlace
      <4>2. CASE m = n
        BY <2>4, <3>1, <3>4, <4>2
      <4> QED BY <4>1, <4>2
    <3>5. ASSUME NEW m \in Names, m > Len(origin')
          PROVE  vault'[m] = 0 /\ items'[m] = "none" /\ m \notin named' \cup broken' \cup stray'
      <4>1. m > Len(origin) /\ m # n
        BY <2>1, <3>5
      <4>2. vault[m] = 0 /\ items[m] = "none" /\ m \notin named \cup broken \cup stray
        BY <1>1, <4>1 DEF OnePlace
      <4> QED BY <1>1, <1>2, <2>4, <4>1, <4>2
    <3>6. \A m \in Names : vault'[m] <= writes'
      BY <2>4
    <3>7. \A q \in Paths : disk'[q] <= writes'
      BY <2>4
    <3> QED BY <3>2, <3>3, <3>4, <3>5, <3>6, <3>7 DEF OnePlace
  <2>6. Kept'
    <3>1. Own(t)'
      BY <1>1, <1>2, <2>1, <2>4 DEF Own
    <3>2. ASSUME NEW d, d # 0, Secure(d) PROVE Secure(d)'
      <4>1. \A q \in Paths : disk[q] = d => Secure(d)'
        BY <1>1 DEF Secure
      <4>2. \A m \in Names : vault[m] = d /\ ~Leaving(m) => Secure(d)'
        BY <2>1, <3>2 DEF Secure
      <4> QED BY <3>2, <4>1, <4>2, SecureStays
    <3>3. c = writes + 1 => Secure(c)'
      BY <2>1, <2>4 DEF Secure
    <3>4. ASSUME ~raced, NEW d \in 1..writes' PROVE d \in erased' \/ Secure(d)'
      <4>1. CASE d \in 1..writes
        BY <1>1, <3>2, <3>4, <4>1, KeptSoFar
      <4>2. CASE d \notin 1..writes
        <5>1. d = c /\ c = writes + 1
          BY <1>2, <2>2, <4>2
        <5> QED BY <3>3, <5>1
      <4> QED BY <4>1, <4>2
    <3>5. \A u \in Threads : u # t /\ handler[u].at = "copied" /\ handler[u].op # "restore" =>
              vault'[handler[u].name] = vault[handler[u].name]
      <4>1. \A u \in Threads : handler[u].at = "copied" => handler[u].name \in Names
        BY <1>1, NamesGiven DEF VaultInv, CallsOK, CallOK
      <4> QED BY <2>1, <4>1
    <3> QED BY <1>2, <3>1, <3>4, <3>5, KeptStep
  <2> QED BY <2>1, <2>3, <2>5, <2>6 DEF VaultInv
<1>3. \A c : NewName(t, c) => Len(origin)' = n
  BY <1>1 DEF NewName, VaultTypes
<1>4. CASE CopyAway(t)
  <2>1. NewName(t, disk[p]) /\ disk[p] \in Nat \ {0}
    BY <1>1, <1>4 DEF CopyAway, VaultTypes
  <2>2. /\ handler' \in [Threads -> FileCall] /\ handler'[t].at = "copied"
        /\ handler'[t].op = handler[t].op /\ handler'[t].path = p /\ handler'[t].name = n
        /\ \A u \in Threads : u # t => handler'[u] = handler[u]
    <3>1. n \in 0..MaxNames /\ "copied" \in FileStage /\ handler[t].op \in Operations
      BY <1>1, <2>1, QuarantineAssumption DEF NewName, Names, VaultTypes, FileCall, FileStage
    <3>2. Enter(t, "copied", handler[t].op, p, n)
      BY <1>3, <1>4, <2>1 DEF CopyAway
    <3> QED BY <1>1, <3>1, <3>2, Enters
  <2>3. stray' = stray /\ writes' = writes /\ copied' = copied \cup {disk[p]}
    BY <1>4 DEF CopyAway, fileVars, userVars
  <2> QED BY <1>2, <2>1, <2>2, <2>3
<1>5. CASE CopyAwayBreaks(t)
  <2>1. NewName(t, writes + 1) /\ writes + 1 \in Nat \ {0}
    BY <1>1, <1>5 DEF CopyAwayBreaks, VaultTypes
  <2>2. /\ handler' \in [Threads -> FileCall] /\ handler'[t].at = "idle"
        /\ handler'[t].op = handler[t].op /\ handler'[t].path = p
        /\ \A u \in Threads : u # t => handler'[u] = handler[u]
    <3>1. "idle" \in FileStage /\ Reach(t, "idle")
      BY <1>5 DEF CopyAwayBreaks, FileStage
    <3> QED BY <1>1, <3>1, Reaches
  <2>3. stray' = stray \cup {n} /\ writes' = writes + 1 /\ copied' = copied
    BY <1>3, <1>5, <2>1 DEF CopyAwayBreaks
  <2> QED BY <1>2, <2>1, <2>2, <2>3
<1> QED BY <1>4, <1>5
-----------------------------------------------------------------------------
(***************************************************************************)
(* A restore takes the file out of the vault, by renaming it or by         *)
(* removing what it has copied: nobody else works on the name, and its     *)
(* item still says kept.                                                   *)
(***************************************************************************)
LEMMA TakeBack ==
    ASSUME VaultInv, NEW t \in Threads, handler[t].at \in {"cleared", "copied"},
           handler[t].op = "restore", NEW n, n = handler[t].name, vault[n] # 0,
           vault' \in [Names -> Nat],
           \A m \in Names : vault'[m] = IF m = n THEN 0 ELSE vault[m],
           Reach(t, "moved"),
           UNCHANGED <<writes, origin, items, named, broken, stray>>
    PROVE  /\ n \in Names /\ handler[t].path \in Paths
           /\ handler' \in [Threads -> FileCall]
           /\ handler'[t].at = "moved"
           /\ \A u \in Threads : u # t => handler'[u] = handler[u]
           /\ \A m : m # n => (Leaving(m)' <=> Leaving(m))
           /\ \A u \in Threads : u # t /\ handler[u].at = "copied" /\ handler[u].op # "restore" =>
                  vault'[handler[u].name] = vault[handler[u].name]
           /\ CallsOK' /\ RowsOK'
<1> USE DEF VaultInv
<1>1. /\ n \in 1..Len(origin) /\ items[n] \in {"kept", "restored"} /\ CallOK(t)
      /\ handler[t] \in FileCall /\ NameOK(n)
  <2>1. n \in 1..Len(origin) /\ items[n] \in {"kept", "restored"} /\ CallOK(t)
    BY DEF CallsOK, CallOK, Returning
  <2> QED BY <2>1 DEF VaultTypes, RowsOK
<1>2. n \in Names /\ handler[t].path \in Paths
  BY <1>1, NamesGiven DEF FileCall
<1>3. /\ handler' \in [Threads -> FileCall]
      /\ handler'[t].at = "moved" /\ handler'[t].op = "restore"
      /\ handler'[t].path = handler[t].path /\ handler'[t].name = n
      /\ \A u \in Threads : u # t => handler'[u] = handler[u]
  BY Reaches DEF FileStage
<1>4. \A u \in Threads : ~At(u, n)
  <2> SUFFICES ASSUME NEW u \in Threads, At(u, n) PROVE FALSE
    OBVIOUS
  <2>1. CASE handler[u].op = "restore"
    BY <1>1, <2>1 DEF NameOK, MovedOnly
  <2>2. CASE handler[u].op # "restore"
    BY <1>1, <2>2 DEF NameOK, MovedOnly
  <2> QED BY <2>1, <2>2
<1>5. n \notin broken /\ n \notin stray /\ items[n] = "kept"
  BY <1>1, <1>4 DEF NameOK, LeftAlone, RowTells
<1>6. \A m : m # n => (Leaving(m)' <=> Leaving(m))
  BY <1>3 DEF Leaving
<1>7. ASSUME NEW u \in Threads, u # t, handler[u].at = "copied", handler[u].op # "restore"
      PROVE  vault'[handler[u].name] = vault[handler[u].name]
  <2>1. handler[u].name \in Names
    BY <1>7, NamesGiven DEF CallsOK, CallOK
  <2>2. handler[u].name # n
    BY <1>4, <1>7 DEF At
  <2> QED BY <2>1, <2>2
<1>8. CallsOK'
  <2>1. CallOK(t)'
    BY <1>1, <1>3 DEF CallOK, Returning
  <2>2. ASSUME NEW u \in Threads, u # t PROVE CallOK(u)'
    <3>1. handler'[u] = handler[u] /\ CallOK(u)
      BY <1>3, <2>2 DEF CallsOK
    <3> QED BY <3>1 DEF CallOK, Returning
  <2> QED BY <2>1, <2>2 DEF CallsOK
<1>9. RowsOK'
  <2>1. NameOK(n)'
    <3>1. At(t, n)' /\ \A u \in Threads : At(u, n)' => u = t
      BY <1>3, <1>4 DEF At
    <3>2. MovedOnly(n)'
      BY <1>2, <1>3, <1>5, <3>1 DEF MovedOnly
    <3>3. LeftAlone(n)' /\ RowTells(n)'
      BY <1>5, <3>1 DEF LeftAlone, RowTells
    <3> QED BY <3>2, <3>3 DEF NameOK
  <2>2. ASSUME NEW m \in 1..Len(origin), m # n PROVE NameOK(m)'
    <3>1. m \in Names /\ NameOK(m)
      BY NamesGiven DEF RowsOK
    <3>2. vault'[m] = vault[m]
      BY <2>2, <3>1
    <3>3. \A u \in Threads : At(u, m)' <=> At(u, m)
      BY <1>3, <2>2 DEF At
    <3>4. \A u \in Threads : At(u, m) => handler'[u] = handler[u]
      BY <1>3, <2>2 DEF At
    <3>5. MovedOnly(m)'
      BY <3>1, <3>2, <3>3, <3>4 DEF MovedOnly, NameOK
    <3>6. LeftAlone(m)'
      BY <3>1, <3>2 DEF LeftAlone, NameOK
    <3>7. m \notin broken' /\ m \notin stray' => RowTells(m)'
      BY <3>1, <3>2, <3>3 DEF RowTells, NameOK
    <3> QED BY <3>5, <3>6, <3>7 DEF NameOK
  <2> QED BY <2>1, <2>2 DEF RowsOK
<1> QED BY <1>2, <1>3, <1>6, <1>7, <1>8, <1>9

(***************************************************************************)
(* A content that comes to a path: where the contents are after it, if it  *)
(* came from the name n, which it has left or where its copy remains, or   *)
(* is half of it.                                                          *)
(***************************************************************************)
LEMMA PathFilled ==
    ASSUME OnePlace, VaultTypes, NEW p \in Paths, NEW c \in Nat \ {0}, NEW n \in Names,
           \A q \in Paths : disk'[q] = IF q = p THEN c ELSE disk[q],
           UNCHANGED <<origin, items, named, broken, stray>>,
           \/ /\ c = vault[n] /\ writes' = writes /\ copied' = copied
              /\ \A m \in Names : vault'[m] = IF m = n THEN 0 ELSE vault[m]
           \/ c = vault[n] /\ writes' = writes /\ copied' = copied \cup {c} /\ vault' = vault
           \/ c = writes + 1 /\ writes' = writes + 1 /\ copied' = copied /\ vault' = vault
    PROVE  OnePlace'
<1>1. /\ writes \in Nat /\ disk \in [Paths -> Nat] /\ vault \in [Names -> Nat]
      /\ copied \subseteq copied'
  BY DEF VaultTypes
<1>2. \A m \in Names : vault'[m] = vault[m] \/ vault'[m] = 0
  OBVIOUS
<1>3. c <= writes' /\ writes <= writes'
  BY <1>1 DEF OnePlace
<1>4. /\ \A q \in Paths : disk[q] <= writes
      /\ \A m \in Names : vault[m] <= writes
  BY DEF OnePlace
<1>5. (\A q \in Paths : disk'[q] <= writes') /\ \A m \in Names : vault'[m] <= writes'
  BY <1>1, <1>2, <1>3, <1>4
<1>6. \A q \in Paths : disk[q] = c => c \in copied'
  BY <1>1, <1>4 DEF OnePlace
<1>7. \A m \in Names : vault'[m] = c => c \in copied'
  BY <1>1, <1>4 DEF OnePlace
<1>8. ASSUME NEW q1 \in Paths, NEW q2 \in Paths, disk'[q1] = disk'[q2], disk'[q1] # 0
      PROVE  q1 = q2 \/ disk'[q1] \in copied'
  <2>1. CASE q1 # p /\ q2 # p
    BY <1>1, <1>8, <2>1 DEF OnePlace
  <2>2. CASE q1 = p \/ q2 = p
    BY <1>6, <1>8, <2>2
  <2> QED BY <2>1, <2>2
<1>9. ASSUME NEW m1 \in Names, NEW m2 \in Names, vault'[m1] = vault'[m2], vault'[m1] # 0
      PROVE  m1 = m2 \/ vault'[m1] \in copied'
  <2>1. vault'[m1] = vault[m1] /\ vault'[m2] = vault[m2]
    BY <1>2, <1>9
  <2> QED BY <1>1, <1>9, <2>1 DEF OnePlace
<1>10. ASSUME NEW q \in Paths, NEW m \in Names, disk'[q] = vault'[m], disk'[q] # 0
       PROVE  disk'[q] \in copied'
  <2>1. CASE q = p
    BY <1>7, <1>10, <2>1
  <2>2. CASE q # p
    <3>1. vault'[m] = vault[m] /\ disk'[q] = disk[q]
      BY <1>2, <1>10, <2>2
    <3> QED BY <1>1, <1>10, <3>1 DEF OnePlace
  <2> QED BY <2>1, <2>2
<1>11. ASSUME NEW m \in Names, m > Len(origin')
       PROVE  vault'[m] = 0 /\ items'[m] = "none" /\ m \notin named' \cup broken' \cup stray'
  <2>1. vault[m] = 0 /\ items[m] = "none" /\ m \notin named \cup broken \cup stray
    BY <1>11 DEF OnePlace
  <2> QED BY <1>2, <2>1
<1> QED BY <1>5, <1>8, <1>9, <1>10, <1>11 DEF OnePlace

(* A restore by renaming. *)
LEMMA MoveBackStep ==
    ASSUME VaultInv, NEW t \in Threads, MoveBack(t), WatchRaces,
           NEW p, p = handler[t].path, NEW n, n = handler[t].name, NEW c, c = vault[n]
    PROVE  VaultInv'
<1>1. /\ handler[t].at = "cleared" /\ handler[t].op = "restore" /\ c # 0
      /\ disk' = [disk EXCEPT ![p] = c] /\ vault' \in [Names -> Nat] /\ Reach(t, "moved")
      /\ \A m \in Names : vault'[m] = IF m = n THEN 0 ELSE vault[m]
      /\ UNCHANGED <<writes, erased, origin, items, named, broken, stray, copied>>
  BY DEF MoveBack, VaultInv, VaultTypes, CallsOK, CallOK
<1>2. /\ n \in Names /\ p \in Paths
      /\ handler' \in [Threads -> FileCall] /\ handler'[t].at = "moved"
      /\ \A u \in Threads : u # t => handler'[u] = handler[u]
      /\ \A m : m # n => (Leaving(m)' <=> Leaving(m))
      /\ \A u \in Threads : u # t /\ handler[u].at = "copied" /\ handler[u].op # "restore" =>
             vault'[handler[u].name] = vault[handler[u].name]
      /\ CallsOK' /\ RowsOK'
  BY <1>1, TakeBack
<1>3. c \in Nat \ {0}
  BY <1>1, <1>2 DEF VaultInv, VaultTypes
<1>4. /\ \A q \in Paths : disk'[q] = IF q = p THEN c ELSE disk[q]
      /\ disk' \in [Paths -> Nat]
  BY <1>1, <1>2, <1>3 DEF VaultInv, VaultTypes
<1>5. VaultTypes'
  BY <1>1, <1>2, <1>4 DEF VaultInv, VaultTypes
<1>6. OnePlace'
  BY <1>1, <1>2, <1>3, <1>4, PathFilled DEF VaultInv
<1>7. Kept'
  <2>1. Own(t)'
    BY <1>2 DEF Own
  <2>2. ASSUME ~raced, NEW d, d # 0, Secure(d) PROVE Secure(d)'
    <3>1. disk[p] = 0
      BY <1>1, <2>2, KeptSoFar DEF Own
    <3>2. \A q \in Paths : disk[q] = d => Secure(d)'
      BY <1>4, <2>2, <3>1 DEF Secure
    <3>3. Secure(c)'
      BY <1>1, <1>2, <1>4 DEF Secure
    <3>4. \A m \in Names : vault[m] = d /\ ~Leaving(m) => Secure(d)'
      BY <1>1, <1>2, <3>3 DEF Secure
    <3> QED BY <2>2, <3>2, <3>4, SecureStays
  <2>3. ~raced => \A d \in 1..writes' : d \in erased' \/ Secure(d)'
    BY <1>1, <2>2, KeptSoFar
  <2> QED BY <1>2, <2>1, <2>3, KeptStep
<1> QED BY <1>2, <1>5, <1>6, <1>7 DEF VaultInv

(* A restore that has copied the file, and one whose copy broke off. *)
LEMMA CopyBackStep ==
    ASSUME VaultInv, NEW t \in Threads, CopyBack(t) \/ CopyBackBreaks(t), WatchRaces,
           NEW p, p = handler[t].path, NEW n, n = handler[t].name
    PROVE  VaultInv'
<1>1. /\ handler[t].at = "cleared" /\ handler[t].op = "restore" /\ vault[n] # 0
      /\ n \in 1..Len(origin) /\ n \in Names /\ p \in Paths
      /\ items[n] \in {"kept", "restored"}
      /\ UNCHANGED <<erased, vault, origin, items, named, broken, stray>>
  <2>1. /\ handler[t].at = "cleared" /\ vault[n] # 0
        /\ UNCHANGED <<erased, vault, origin, items, named, broken, stray>>
    BY DEF CopyBack, CopyBackBreaks, vaultVars
  <2>2. /\ n \in 1..Len(origin) /\ handler[t].op = "restore" /\ items[n] \in {"kept", "restored"}
        /\ handler[t] \in FileCall
    BY <2>1 DEF VaultInv, VaultTypes, CallsOK, CallOK, Returning
  <2> QED BY <2>1, <2>2, NamesGiven DEF VaultInv, FileCall
<1>2. PICK at \in {"idle", "copied"}, c \in Nat \ {0} :
          /\ Reach(t, at) /\ disk' = [disk EXCEPT ![p] = c]
          /\ \/ at = "copied" /\ c = vault[n] /\ writes' = writes /\ copied' = copied \cup {c}
             \/ at = "idle" /\ c = writes + 1 /\ writes' = writes + 1 /\ copied' = copied
  <2>1. vault[n] \in Nat \ {0} /\ writes + 1 \in Nat \ {0}
    BY <1>1 DEF VaultInv, VaultTypes
  <2>2. CASE CopyBack(t)
    BY <2>1, <2>2 DEF CopyBack
  <2>3. CASE CopyBackBreaks(t)
    BY <2>1, <2>3 DEF CopyBackBreaks, vaultVars
  <2> QED BY <2>2, <2>3
<1>3. /\ handler' \in [Threads -> FileCall]
      /\ handler'[t].at = at /\ handler'[t].op = "restore" /\ handler'[t].name = n
      /\ \A u \in Threads : u # t => handler'[u] = handler[u]
  <2>1. at \in FileStage /\ VaultTypes
    BY <1>2 DEF VaultInv, FileStage
  <2> QED BY <1>1, <1>2, <2>1, Reaches
<1>4. /\ \A q \in Paths : disk'[q] = IF q = p THEN c ELSE disk[q]
      /\ disk' \in [Paths -> Nat]
  BY <1>1, <1>2 DEF VaultInv, VaultTypes
<1>5. VaultTypes'
  BY <1>1, <1>2, <1>3, <1>4 DEF VaultInv, VaultTypes
<1>6. OnePlace'
  BY <1>1, <1>2, <1>4, PathFilled DEF VaultInv
<1>7. CallsOK'
  <2>1. CallOK(t)'
    BY <1>1, <1>2, <1>3 DEF CallOK, Returning
  <2>2. ASSUME NEW u \in Threads, u # t PROVE CallOK(u)'
    <3>1. handler'[u] = handler[u] /\ CallOK(u)
      BY <1>3, <2>2 DEF VaultInv, CallsOK
    <3> QED BY <1>1, <3>1 DEF CallOK, Returning
  <2> QED BY <2>1, <2>2 DEF CallsOK
<1>8. RowsOK'
  <2>1. \A u \in Threads, m \in 1..Len(origin) : At(u, m)' <=> At(u, m)
    BY <1>1, <1>2, <1>3 DEF At
  <2>2. \A u \in Threads, m \in 1..Len(origin) : At(u, m) => handler'[u].op = handler[u].op
    BY <1>1, <1>3 DEF At
  <2> QED BY <1>1, <2>1, <2>2, RowsStay DEF VaultInv
<1>9. Kept'
  <2>1. Own(t)'
    BY <1>2, <1>3 DEF Own
  <2>2. Secure(c)'
    BY <1>1, <1>4 DEF Secure
  <2>3. \A m : m # n => (Leaving(m)' <=> Leaving(m))
    BY <1>1, <1>3 DEF Leaving
  <2>4. at = "idle" => \A m : Leaving(m)' <=> Leaving(m)
    BY <1>1, <1>3 DEF Leaving
  <2>5. ASSUME ~raced, NEW d, d # 0, Secure(d) PROVE Secure(d)'
    <3>1. disk[p] = 0
      BY <1>1, <2>5, KeptSoFar DEF Own
    <3>2. \A q \in Paths : disk[q] = d => Secure(d)'
      BY <1>4, <2>5, <3>1 DEF Secure
    <3>3. \A m \in Names : vault[m] = d /\ ~Leaving(m) => Secure(d)'
      BY <1>1, <1>2, <2>2, <2>3, <2>4 DEF Secure
    <3> QED BY <2>5, <3>2, <3>3, SecureStays
  <2>6. ASSUME ~raced, NEW d \in 1..writes' PROVE d \in erased' \/ Secure(d)'
    <3>1. CASE d \in 1..writes
      BY <1>1, <2>5, <2>6, <3>1, KeptSoFar
    <3>2. CASE d \notin 1..writes
      <4>1. d = c
        BY <1>2, <2>6, <3>2 DEF VaultInv, VaultTypes
      <4> QED BY <2>2, <4>1
    <3> QED BY <3>1, <3>2
  <2> QED BY <1>1, <1>3, <2>1, <2>6, KeptStep
<1> QED BY <1>5, <1>6, <1>7, <1>8, <1>9 DEF VaultInv

(* The source that was copied is removed. *)
LEMMA RemoveSourceStep ==
    ASSUME VaultInv, NEW t \in Threads, RemoveSource(t), WatchRaces,
           NEW p, p = handler[t].path, NEW n, n = handler[t].name
    PROVE  VaultInv'
<1>1. /\ handler[t].at = "copied" /\ Reach(t, "moved") /\ CallOK(t) /\ n \in 1..Len(origin)
      /\ UNCHANGED <<writes, erased, origin, items, named, broken, stray, copied>>
  BY DEF RemoveSource, VaultInv, CallsOK, CallOK
<1>2. CASE handler[t].op = "restore"
  <2>1. /\ vault[n] # 0 /\ vault' \in [Names -> Nat] /\ disk' = disk
        /\ \A m \in Names : vault'[m] = IF m = n THEN 0 ELSE vault[m]
    <3>1. vault[n] # 0 /\ vault' = [vault EXCEPT ![n] = 0] /\ disk' = disk
      BY <1>2 DEF RemoveSource, Source
    <3> QED BY <3>1 DEF VaultInv, VaultTypes
  <2>2. /\ n \in Names /\ p \in Paths
        /\ handler' \in [Threads -> FileCall] /\ handler'[t].at = "moved"
        /\ \A u \in Threads : u # t => handler'[u] = handler[u]
        /\ \A m : m # n => (Leaving(m)' <=> Leaving(m))
        /\ \A u \in Threads : u # t /\ handler[u].at = "copied" /\ handler[u].op # "restore" =>
               vault'[handler[u].name] = vault[handler[u].name]
        /\ CallsOK' /\ RowsOK'
    <3>1. handler[t].at \in {"cleared", "copied"}
      BY <1>1
    <3>2. UNCHANGED <<writes, origin, items, named, broken, stray>>
      BY <1>1
    <3> QED BY <1>1, <1>2, <2>1, <3>1, <3>2, TakeBack
  <2>3. VaultTypes'
    BY <1>1, <2>1, <2>2 DEF VaultInv, VaultTypes
  <2>4. OnePlace'
    <3>1. OnePlace /\ writes \in Nat
      BY DEF VaultInv, VaultTypes
    <3>2. \A m \in Names : vault'[m] = vault[m] \/ vault'[m] = 0
      BY <2>1
    <3> QED BY <1>1, <2>1, <3>1, <3>2 DEF OnePlace
  <2>5. Leaving(n)
    BY <1>1, <1>2 DEF Leaving
  <2>6. ASSUME NEW d, d # 0, Secure(d) PROVE Secure(d)'
    <3>1. \A q \in Paths : disk[q] = d => Secure(d)'
      BY <2>1 DEF Secure
    <3>2. \A m \in Names : vault[m] = d /\ ~Leaving(m) => Secure(d)'
      BY <2>1, <2>2, <2>5 DEF Secure
    <3> QED BY <2>6, <3>1, <3>2, SecureStays
  <2>7. Kept'
    <3>1. Own(t)'
      BY <2>2 DEF Own
    <3>2. ~raced => \A d \in 1..writes' : d \in erased' \/ Secure(d)'
      BY <1>1, <2>6, KeptSoFar
    <3> QED BY <2>2, <3>1, <3>2, KeptStep
  <2> QED BY <2>2, <2>3, <2>4, <2>7 DEF VaultInv
<1>3. CASE handler[t].op # "restore"
  <2>1. disk' = [disk EXCEPT ![p] = 0] /\ vault' = vault
    BY <1>3 DEF RemoveSource, Source
  <2>2. /\ handler' \in [Threads -> FileCall]
        /\ handler'[t].at = "moved" /\ handler'[t].op = handler[t].op /\ handler'[t].name = n
        /\ \A u \in Threads : u # t => handler'[u] = handler[u]
    BY <1>1, Reaches DEF VaultInv, FileStage
  <2>3. p \in Paths /\ n \in Names /\ At(t, n)
    <3>1. handler[t] \in FileCall
      BY DEF VaultInv, VaultTypes
    <3> QED BY <1>1, <1>3, <3>1, NamesGiven DEF VaultInv, FileCall, At
  <2>4. \A q \in Paths : disk'[q] = IF q = p THEN 0 ELSE disk[q]
    BY <2>1, <2>3 DEF VaultInv, VaultTypes
  <2>5. VaultTypes'
    BY <1>1, <2>1, <2>2, <2>3 DEF VaultInv, VaultTypes
  <2>6. OnePlace'
    <3>1. disk \in [Paths -> Nat] /\ writes \in Nat
      BY DEF VaultInv, VaultTypes
    <3> QED BY <1>1, <2>1, <2>4, <3>1 DEF VaultInv, OnePlace
  <2>7. CallsOK'
    <3>1. CallOK(t)'
      BY <1>1, <1>3, <2>2 DEF CallOK, Returning
    <3>2. ASSUME NEW u \in Threads, u # t PROVE CallOK(u)'
      <4>1. handler'[u] = handler[u] /\ CallOK(u)
        BY <2>2, <3>2 DEF VaultInv, CallsOK
      <4> QED BY <1>1, <4>1 DEF CallOK, Returning
    <3> QED BY <3>1, <3>2 DEF CallsOK
  <2>8. RowsOK'
    <3>1. \A u \in Threads, m \in 1..Len(origin) : At(u, m)' <=> At(u, m)
      BY <1>1, <1>3, <2>2 DEF At
    <3>2. \A u \in Threads, m \in 1..Len(origin) : At(u, m) => handler'[u].op = handler[u].op
      BY <2>2 DEF At
    <3> QED BY <1>1, <2>1, <3>1, <3>2, RowsStay DEF VaultInv
  <2>9. \A m : Leaving(m)' <=> Leaving(m)
    BY <1>1, <1>3, <2>2 DEF Leaving
  <2>10. ~Leaving(n)
    <3>1. items[n] = "none"
      BY <1>1, <1>3, <2>3 DEF VaultInv, RowsOK, NameOK, MovedOnly
    <3> QED BY <3>1 DEF Leaving, VaultInv, CallsOK, CallOK, Returning
  <2>11. ASSUME ~raced, NEW d, d # 0, Secure(d) PROVE Secure(d)'
    <3>1. disk[p] \in {0, vault[n]}
      BY <1>1, <1>3, <2>11, KeptSoFar DEF Own
    <3>2. \A q \in Paths : disk[q] = d => Secure(d)'
      BY <2>1, <2>3, <2>4, <2>9, <2>10, <2>11, <3>1 DEF Secure
    <3>3. \A m \in Names : vault[m] = d /\ ~Leaving(m) => Secure(d)'
      BY <2>1, <2>9 DEF Secure
    <3> QED BY <2>11, <3>2, <3>3, SecureStays
  <2>12. Kept'
    <3>1. Own(t)'
      BY <2>2 DEF Own
    <3>2. ~raced => \A d \in 1..writes' : d \in erased' \/ Secure(d)'
      BY <1>1, <2>11, KeptSoFar
    <3> QED BY <2>1, <2>2, <3>1, <3>2, KeptStep
  <2> QED BY <2>5, <2>6, <2>7, <2>8, <2>12 DEF VaultInv
<1> QED BY <1>2, <1>3
-----------------------------------------------------------------------------
(***************************************************************************)
(* The end of a call: thread t leaves the name n with its rows committed,  *)
(* without them, or with a copy whose source could not be removed.         *)
(***************************************************************************)
LEMMA EndStep ==
    ASSUME VaultInv, NEW t \in Threads, NEW n, At(t, n), Reach(t, "idle"), WatchRaces,
           UNCHANGED <<disk, writes, erased, vault, origin, copied>>,
           \/ /\ handler[t].at = "moved" /\ items' = ItemAfter(handler[t])
              /\ named' = named \cup {n} /\ broken' = broken /\ stray' = stray
           \/ /\ handler[t].at = "moved" /\ items' = items
              /\ named' = named /\ broken' = broken \cup {n} /\ stray' = stray
           \/ /\ handler[t].op # "restore" /\ items' = items
              /\ named' = named /\ broken' = broken /\ stray' = stray \cup {n}
    PROVE  VaultInv'
<1> USE DEF VaultInv
<1>1. /\ handler' \in [Threads -> FileCall]
      /\ handler'[t].at = "idle"
      /\ \A u \in Threads : u # t => handler'[u] = handler[u]
  BY Reaches DEF FileStage
<1>2. /\ CallOK(t) /\ n \in 1..Len(origin) /\ handler[t].name = n /\ n \in Names
      /\ NameOK(n) /\ MovedOnly(n) /\ n \notin broken /\ n \notin stray
  <2>1. CallOK(t) /\ n \in 1..Len(origin) /\ handler[t].name = n
    BY DEF CallsOK, CallOK, At
  <2> QED BY <2>1, NamesGiven DEF RowsOK, NameOK, MovedOnly
<1>3. items \in [Names -> {"none", "kept", "restored"}]
  BY DEF VaultTypes
<1>4. /\ items' \in [Names -> {"none", "kept", "restored"}]
      /\ \A m \in Names : m # n => items'[m] = items[m]
      /\ items[n] # "none" => items'[n] # "none"
  <2>1. CASE items' = items
    BY <1>3, <2>1
  <2>2. CASE items' = ItemAfter(handler[t])
    BY <1>2, <1>3, <2>2 DEF ItemAfter
  <2> QED BY <2>1, <2>2
<1>5. VaultTypes'
  BY <1>1, <1>4 DEF VaultTypes
<1>6. OnePlace'
  <2>1. \A m \in Names : m > Len(origin) => m # n
    BY <1>2, NamesGiven DEF Names
  <2>2. /\ named' \subseteq named \cup {n} /\ broken' \subseteq broken \cup {n}
        /\ stray' \subseteq stray \cup {n}
    OBVIOUS
  <2> QED BY <1>4, <2>1, <2>2 DEF OnePlace
<1>7. Kept'
  <2>1. \A m : Leaving(m)' <=> Leaving(m)
    BY <1>1 DEF Leaving, At
  <2>2. \A c : Secure(c)' <=> Secure(c)
    BY <2>1 DEF Secure
  <2>3. Own(t)'
    BY <1>1 DEF Own
  <2>4. ~raced => \A d \in 1..writes' : d \in erased' \/ Secure(d)'
    BY <2>2, KeptSoFar
  <2> QED BY <1>1, <2>3, <2>4, KeptStep
<1>8. CallsOK'
  <2>1. CallOK(t)'
    BY <1>1 DEF CallOK, Returning
  <2>2. ASSUME NEW u \in Threads, u # t PROVE CallOK(u)'
    <3>1. handler'[u] = handler[u] /\ CallOK(u)
      BY <1>1, <2>2 DEF CallsOK
    <3>2. \A m \in Names : items[m] \in {"kept", "restored"} => items'[m] \in {"kept", "restored"}
      BY <1>4
    <3> QED BY <3>1, <3>2, NamesGiven DEF CallOK, Returning
  <2> QED BY <2>1, <2>2 DEF CallsOK
<1>9. RowsOK'
  <2>1. NameOK(n)'
    <3>1. \A u \in Threads : ~At(u, n)'
      BY <1>1, <1>2 DEF MovedOnly, At
    <3>2. MovedOnly(n)'
      BY <3>1 DEF MovedOnly
    <3>3. /\ handler[t].op = "restore" => vault[n] = 0 /\ items[n] = "kept"
          /\ handler[t].op # "restore" =>
                 /\ vault[n] # 0 /\ items[n] = "none" /\ n \notin named
                 /\ handler[t].op = origin[n].op
      BY <1>2 DEF MovedOnly
    <3>4. LeftAlone(n)'
      BY <1>2, <3>3 DEF LeftAlone
    <3>5. ASSUME n \notin broken', n \notin stray' PROVE RowTells(n)'
      <4>1. items' = ItemAfter(handler[t]) /\ n \in named'
        BY <3>5
      <4>2. CASE handler[t].op = "restore"
        <5>1. items'[n] = "restored"
          BY <1>2, <1>3, <4>1, <4>2 DEF ItemAfter
        <5> QED BY <3>3, <4>1, <4>2, <5>1 DEF RowTells
      <4>3. CASE handler[t].op = "quarantine"
        <5>1. items'[n] = "kept"
          BY <1>2, <1>3, <4>1, <4>3 DEF ItemAfter
        <5> QED BY <3>3, <4>1, <4>3, <5>1 DEF RowTells
      <4>4. CASE handler[t].op \notin {"quarantine", "restore"}
        <5>1. items'[n] = "none"
          BY <3>3, <4>1, <4>4 DEF ItemAfter
        <5> QED BY <3>3, <4>1, <4>4, <5>1 DEF RowTells
      <4> QED BY <4>2, <4>3, <4>4
    <3> QED BY <3>2, <3>4, <3>5 DEF NameOK
  <2>2. ASSUME NEW m \in 1..Len(origin), m # n PROVE NameOK(m)'
    <3>1. m \in Names /\ NameOK(m)
      BY NamesGiven DEF RowsOK
    <3>2. /\ items'[m] = items[m]
          /\ (m \in named' <=> m \in named) /\ (m \in broken' <=> m \in broken)
          /\ (m \in stray' <=> m \in stray)
      BY <1>4, <2>2, <3>1
    <3>3. \A u \in Threads : At(u, m)' <=> At(u, m)
      BY <1>1, <1>2, <2>2 DEF At
    <3>4. \A u \in Threads : At(u, m) => handler'[u] = handler[u]
      BY <1>1, <1>2, <2>2 DEF At
    <3>5. MovedOnly(m)'
      BY <3>1, <3>2, <3>3, <3>4 DEF MovedOnly, NameOK
    <3>6. LeftAlone(m)'
      BY <3>1, <3>2 DEF LeftAlone, NameOK
    <3>7. m \notin broken' /\ m \notin stray' => RowTells(m)'
      BY <3>1, <3>2, <3>3 DEF RowTells, NameOK
    <3> QED BY <3>5, <3>6, <3>7 DEF NameOK
  <2> QED BY <2>1, <2>2 DEF RowsOK
<1> QED BY <1>5, <1>6, <1>7, <1>8, <1>9

(* Every end of a call is such an end. *)
LEMMA ReportStep ==
    ASSUME VaultInv, NEW t \in Threads, Report(t) \/ ReportFails(t), WatchRaces
    PROVE  VaultInv'
<1>1. PICK n : n = handler[t].name
  OBVIOUS
<1>2. At(t, n) /\ Reach(t, "idle") /\ handler[t].at = "moved"
      /\ UNCHANGED <<disk, writes, erased, vault, origin, copied>>
  BY <1>1 DEF Report, ReportFails, At, fileVars, userVars
<1>3. CASE Report(t)
  <2>1. /\ items' = ItemAfter(handler[t]) /\ named' = named \cup {n}
        /\ broken' = broken /\ stray' = stray
    BY <1>1, <1>3 DEF Report
  <2> QED BY <1>2, <2>1, EndStep
<1>4. CASE ReportFails(t)
  <2>1. items' = items /\ named' = named /\ broken' = broken \cup {n} /\ stray' = stray
    BY <1>1, <1>4 DEF ReportFails
  <2> QED BY <1>2, <2>1, EndStep
<1> QED BY <1>3, <1>4

(* A copy whose source stays: a restore has done nothing to its name. *)
LEMMA SourceStaysStep ==
    ASSUME VaultInv, NEW t \in Threads, SourceStays(t), WatchRaces, NEW n, n = handler[t].name
    PROVE  VaultInv'
<1>1. /\ handler[t].at = "copied" /\ Reach(t, "idle")
      /\ UNCHANGED <<disk, writes, erased, vault, origin, items, named, broken, copied>>
  BY DEF SourceStays, userVars
<1>2. CASE handler[t].op # "restore"
  <2>1. At(t, n) /\ stray' = stray \cup {n}
    BY <1>1, <1>2 DEF At, SourceStays
  <2> QED BY <1>1, <1>2, <2>1, EndStep
<1>3. CASE handler[t].op = "restore"
  <2>1. stray' = stray
    BY <1>3 DEF SourceStays
  <2>2. /\ handler' \in [Threads -> FileCall]
        /\ handler'[t].at = "idle" /\ handler'[t].op = "restore"
        /\ \A u \in Threads : u # t => handler'[u] = handler[u]
    BY <1>1, <1>3, Reaches DEF VaultInv, FileStage
  <2>3. VaultTypes' /\ OnePlace'
    BY <1>1, <2>1, <2>2 DEF VaultInv, VaultTypes, OnePlace
  <2>4. Kept'
    <3>1. \A m : Leaving(m)' => Leaving(m)
      BY <2>2 DEF Leaving
    <3>2. \A c : Secure(c) => Secure(c)'
      BY <1>1, <3>1 DEF Secure
    <3>3. ~raced => \A d \in 1..writes' : d \in erased' \/ Secure(d)'
      BY <1>1, <3>2, KeptSoFar
    <3>4. Own(t)'
      BY <2>2 DEF Own
    <3> QED BY <1>1, <2>2, <3>3, <3>4, KeptStep
  <2>5. CallsOK'
    <3>1. CallOK(t)'
      BY <2>2 DEF CallOK, Returning
    <3>2. ASSUME NEW u \in Threads, u # t PROVE CallOK(u)'
      <4>1. handler'[u] = handler[u] /\ CallOK(u)
        BY <2>2, <3>2 DEF VaultInv, CallsOK
      <4> QED BY <1>1, <4>1 DEF CallOK, Returning
    <3> QED BY <3>1, <3>2 DEF CallsOK
  <2>6. RowsOK'
    <3>1. \A u \in Threads, m \in 1..Len(origin) : At(u, m)' <=> At(u, m)
      BY <1>1, <1>3, <2>2 DEF At
    <3>2. \A u \in Threads, m \in 1..Len(origin) : At(u, m) => handler'[u].op = handler[u].op
      BY <1>3, <2>2 DEF At
    <3> QED BY <1>1, <2>1, <3>1, <3>2, RowsStay DEF VaultInv
  <2> QED BY <2>3, <2>4, <2>5, <2>6 DEF VaultInv
<1> QED BY <1>2, <1>3

(* VaultInv holds in every state, for any number of threads, paths and names. *)
THEOREM VaultInvariance == QuarantineSpec => []VaultInv
<1>1. QuarantineInit => VaultInv
  BY VaultInitially
<1>2. VaultInv /\ [QuarantineNext]_quarantineVars => VaultInv'
  <2> SUFFICES ASSUME VaultInv, [QuarantineNext]_quarantineVars PROVE VaultInv'
    OBVIOUS
  <2>1. CASE UNCHANGED quarantineVars
    <3>1. UNCHANGED <<disk, writes, erased, vault, origin, items, named, broken, stray, copied,
                      handler, raced>>
      BY <2>1 DEF quarantineVars, fileVars, userVars, vaultVars
    <3>2. VaultTypes' /\ OnePlace' /\ CallsOK'
      BY <3>1 DEF VaultInv, VaultTypes, OnePlace, CallsOK, CallOK, Returning
    <3>3. Kept'
      BY <3>1 DEF VaultInv, Kept, Secure, Leaving, Own
    <3>4. RowsOK'
      BY <3>1, RowsStay DEF VaultInv, At
    <3> QED BY <3>2, <3>3, <3>4 DEF VaultInv
  <2>2. ASSUME Files, WatchRaces PROVE VaultInv'
    BY <2>2, FilesStep
  <2>3. ASSUME NEW p \in Paths, RespondToFile(p), WatchRaces PROVE VaultInv'
    BY <2>3, RespondStep
  <2>4. ASSUME NEW t \in Threads, Call(t), WatchRaces PROVE VaultInv'
    <3>1. CASE MoveAway(t)
      BY <2>4, <3>1, MoveAwayStep
    <3>2. CASE CopyAway(t) \/ CopyAwayBreaks(t)
      BY <2>4, <3>2, CopyAwayStep
    <3>3. CASE CheckRestore(t) \/ MoveRefused(t)
      BY <2>4, <3>3, CheckStep
    <3>4. CASE MoveBack(t)
      BY <2>4, <3>4, MoveBackStep
    <3>5. CASE CopyBack(t) \/ CopyBackBreaks(t)
      BY <2>4, <3>5, CopyBackStep
    <3>6. CASE RemoveSource(t)
      BY <2>4, <3>6, RemoveSourceStep
    <3>7. CASE SourceStays(t)
      BY <2>4, <3>7, SourceStaysStep
    <3>8. CASE Report(t) \/ ReportFails(t)
      BY <2>4, <3>8, ReportStep
    <3>9. ASSUME NEW p \in Paths, AskQuarantine(t, p) \/ AskDisable(t, p) PROVE VaultInv'
      <4>1. PICK op \in {"quarantine", "startup", "auto"} : Enter(t, "checked", op, p, 0)
        BY <3>9 DEF AskQuarantine, AskDisable
      <4>2. handler[t].at = "idle" /\ UNCHANGED <<disk, writes, erased, vaultVars>>
        BY <3>9 DEF AskQuarantine, AskDisable, fileVars, userVars
      <4> QED BY <2>4, <4>1, <4>2, AskStep
    <3>10. ASSUME NEW n \in Names, AskRestore(t, n) PROVE VaultInv'
      BY <2>4, <3>10, AskRestoreStep
    <3> QED BY <2>4, <3>1, <3>2, <3>3, <3>4, <3>5, <3>6, <3>7, <3>8, <3>9, <3>10 DEF Call
  <2> QED BY <2>1, <2>2, <2>3, <2>4 DEF QuarantineNext
<1> QED BY <1>1, <1>2, PTL DEF QuarantineSpec

(***************************************************************************)
(* A content that was not copied is in one place, and none is lost unless  *)
(* a path was filled under a call that relies on it, with renames, copies  *)
(* and sources that stay.                                                  *)
(***************************************************************************)
THEOREM NoContentLost == QuarantineSpec => []NothingVanishes
<1>1. VaultInv => NothingVanishes
  <2> SUFFICES ASSUME VaultInv, NEW c \in 1..writes
               PROVE  /\ c \notin copied => Cardinality(OnDisk(c)) + Cardinality(InVault(c)) <= 1
                      /\ ~raced => c \in erased \/ OnDisk(c) # {} \/ InVault(c) # {}
    BY DEF NothingVanishes
  <2>0. c # 0
    BY DEF VaultInv, VaultTypes
  <2>1. Cardinality({}) = 0 /\ \A x : Cardinality({x}) = 1
    BY FS_EmptySet, FS_Singleton
  <2>2. ASSUME c \notin copied PROVE Cardinality(OnDisk(c)) + Cardinality(InVault(c)) <= 1
    <3>1. \A p \in Paths : disk[p] = c => OnDisk(c) = {p} /\ InVault(c) = {}
      BY <2>0, <2>2 DEF OnDisk, InVault, VaultInv, OnePlace
    <3>2. \A n \in Names : vault[n] = c => InVault(c) = {n} /\ OnDisk(c) = {}
      BY <2>0, <2>2 DEF OnDisk, InVault, VaultInv, OnePlace
    <3>3. CASE \E p \in Paths : disk[p] = c
      <4>1. PICK p \in Paths : disk[p] = c
        BY <3>3
      <4>2. OnDisk(c) = {p} /\ InVault(c) = {}
        BY <3>1, <4>1
      <4>3. Cardinality(OnDisk(c)) = 1 /\ Cardinality(InVault(c)) = 0
        BY Zenon, <2>1, <4>2
      <4> QED BY <4>3
    <3>4. CASE \E n \in Names : vault[n] = c
      <4>1. PICK n \in Names : vault[n] = c
        BY <3>4
      <4>2. InVault(c) = {n} /\ OnDisk(c) = {}
        BY <3>2, <4>1
      <4>3. Cardinality(InVault(c)) = 1 /\ Cardinality(OnDisk(c)) = 0
        BY Zenon, <2>1, <4>2
      <4> QED BY <4>3
    <3>5. CASE ~((\E p \in Paths : disk[p] = c) \/ \E n \in Names : vault[n] = c)
      <4>1. OnDisk(c) = {} /\ InVault(c) = {}
        BY <3>5 DEF OnDisk, InVault
      <4>2. Cardinality(OnDisk(c)) = 0 /\ Cardinality(InVault(c)) = 0
        BY Zenon, <2>1, <4>1
      <4> QED BY <4>2
    <3> QED BY <3>3, <3>4, <3>5
  <2>3. ASSUME ~raced PROVE c \in erased \/ OnDisk(c) # {} \/ InVault(c) # {}
    <3>1. c \in erased \/ Secure(c)
      BY <2>3 DEF VaultInv, Kept
    <3> QED BY <3>1 DEF Secure, OnDisk, InVault
  <2> QED BY <2>2, <2>3
<1> QED BY <1>1, VaultInvariance, PTL

(***************************************************************************)
(* Files, items and audit rows agree wherever the commit after a move did  *)
(* not fail; a copy whose source stayed has no row and no item.            *)
(***************************************************************************)
THEOREM RowsMatchFiles == QuarantineSpec => []FilesMatchItems
<1>1. VaultInv => FilesMatchItems
  <2> SUFFICES ASSUME VaultInv, NEW n \in (1..Len(origin)) \ broken, ~Underway(n)
               PROVE  IF n \in stray THEN vault[n] # 0 /\ items[n] = "none" /\ n \notin named
                      ELSE /\ vault[n] # 0 =>
                                  n \in named /\ (origin[n].op = "quarantine" => items[n] = "kept")
                           /\ items[n] = "kept" <=> vault[n] # 0 /\ origin[n].op = "quarantine"
                           /\ items[n] = "restored" => vault[n] = 0
    BY DEF FilesMatchItems
  <2>1. LeftAlone(n) /\ (n \notin stray => RowTells(n))
    BY DEF VaultInv, RowsOK, NameOK
  <2>2. \A t \in Threads : ~At(t, n)
    BY DEF Underway, At
  <2> QED BY <2>1, <2>2 DEF RowTells, LeftAlone
<1> QED BY <1>1, VaultInvariance, PTL
-----------------------------------------------------------------------------
(***************************************************************************)
(* The file monitor beside them: what it records of a file that is moved   *)
(* while it is read.                                                       *)
(***************************************************************************)

InSeq(s, p) == \E i \in 1..Len(s) : s[i] = p

(* An event stays in the queue until it is taken. *)
LEMMA QueueMoves ==
    ASSUME NEW S, NEW s \in Seq(S), NEW p \in S
    PROVE  /\ InSeq(Append(s, p), p)
           /\ \A q : InSeq(s, q) => InSeq(Append(s, p), q)
           /\ s # <<>> => \A q : InSeq(s, q) => q = Head(s) \/ InSeq(Tail(s), q)
<1> DEFINE more == Append(s, p)
           rest == Tail(s)
<1>1. Len(s) \in Nat
  OBVIOUS
<1>2. /\ Len(more) = Len(s) + 1 /\ more[Len(s) + 1] = p
      /\ \A i \in 1..Len(s) : more[i] = s[i]
  OBVIOUS
<1>3. s # <<>> => /\ rest \in Seq(S) /\ Len(rest) = Len(s) - 1 /\ Head(s) = s[1]
                  /\ \A i \in 1..Len(rest) : rest[i] = s[i + 1]
  OBVIOUS
<1> HIDE DEF more, rest
<1>4. InSeq(more, p)
  <2>1. Len(s) + 1 \in 1..Len(more)
    BY <1>1, <1>2
  <2> QED BY <1>2, <2>1 DEF InSeq
<1>5. ASSUME NEW q, InSeq(s, q) PROVE InSeq(more, q)
  <2>1. PICK i \in 1..Len(s) : s[i] = q
    BY <1>5 DEF InSeq
  <2>2. i \in 1..Len(more) /\ more[i] = q
    BY <1>1, <1>2, <2>1
  <2> QED BY <2>2 DEF InSeq
<1>6. ASSUME s # <<>>, NEW q, InSeq(s, q) PROVE q = Head(s) \/ InSeq(rest, q)
  <2>1. PICK i \in 1..Len(s) : s[i] = q
    BY <1>6 DEF InSeq
  <2>2. CASE i = 1
    BY <1>3, <1>6, <2>1, <2>2
  <2>3. CASE i # 1
    <3> DEFINE j == i - 1
    <3>1. j \in 1..Len(rest) /\ j + 1 = i
      BY <1>1, <1>3, <1>6, <2>3
    <3> HIDE DEF j
    <3>2. rest[j] = q
      BY <1>3, <1>6, <2>1, <3>1
    <3> QED BY <3>1, <3>2 DEF InSeq
  <2> QED BY <2>2, <2>3
<1> QED BY <1>4, <1>5, <1>6 DEF more, rest

Event == [path : Paths, left : 0..Reads, found : SUBSET Content]

\* FileTypeOK; the writer has one event in hand at most.
FileTypes ==
    /\ disk \in [Paths -> {0} \cup Content]
    /\ writes \in 0..MaxWrites /\ erased \subseteq Content
    /\ fileEvents \in Seq(Paths)
    /\ inHand \subseteq Event /\ (inHand = {} \/ \E e : inHand = {e})
    /\ records \in [Paths -> {NoRecord} \cup SUBSET Content]
    /\ unrecorded \subseteq Paths /\ suspects \subseteq Paths /\ failures \in 0..MaxFailures

(***************************************************************************)
(* A path of which nothing is queued: what is being read of it, and the    *)
(* latest row if nothing is, is from the content it has.                   *)
(***************************************************************************)
CaughtUp(p) ==
    \/ disk[p] = 0 \/ InSeq(fileEvents, p)
    \/ /\ \A e \in inHand : e.path = p => e.found \subseteq {disk[p]}
       /\ \/ p \in unrecorded \/ \E e \in inHand : e.path = p
          \/ records[p] \subseteq {disk[p]}

FilesInv == FileTypes /\ \A p \in Paths : CaughtUp(p)

(* There is no file at first. *)
LEMMA FilesInitially == FileInit => FilesInv
<1> SUFFICES ASSUME FileInit PROVE FilesInv
  OBVIOUS
<1>1. <<>> \in Seq(Paths)
  OBVIOUS
<1>2. MaxWrites \in Nat /\ MaxFailures \in Nat
  BY FileMonitorAssumption
<1>3. FileTypes
  BY <1>1, <1>2 DEF FileInit, FileTypes
<1>4. ASSUME NEW p \in Paths PROVE CaughtUp(p)
  BY DEF FileInit, CaughtUp
<1> QED BY <1>3, <1>4 DEF FilesInv

(* A failure is counted. *)
LEMMA FailsCount ==
    ASSUME FileTypes, Fails
    PROVE  failures' \in 0..MaxFailures
  BY FileMonitorAssumption DEF FileTypes, Fails

(* A path whose content changes has its event queued, or has no content. *)
LEMMA DiskMoves ==
    ASSUME FilesInv, FileTypes', NEW p \in Paths,
           UNCHANGED <<inHand, records, unrecorded>>,
           \A q \in Paths : q # p => disk'[q] = disk[q],
           \/ disk'[p] = 0 /\ fileEvents' = fileEvents
           \/ fileEvents' = Append(fileEvents, p)
    PROVE  FilesInv'
<1>1. fileEvents \in Seq(Paths)
  BY DEF FilesInv, FileTypes
<1> DEFINE more == Append(fileEvents, p)
<1>4. InSeq(more, p) /\ \A q : InSeq(fileEvents, q) => InSeq(more, q)
  BY <1>1, QueueMoves
<1>5. (disk'[p] = 0 /\ fileEvents' = fileEvents) \/ fileEvents' = more
  OBVIOUS
<1> HIDE DEF more
<1>2. \A q : InSeq(fileEvents, q) => InSeq(fileEvents', q)
  BY <1>4, <1>5
<1>3. ASSUME NEW q \in Paths PROVE CaughtUp(q)'
  <2>1. CaughtUp(q)
    BY DEF FilesInv
  <2>2. CASE q = p
    <3>1. disk'[p] = 0 \/ InSeq(fileEvents', p)
      BY <1>4, <1>5
    <3> QED BY <2>2, <3>1 DEF CaughtUp
  <2>3. CASE q # p
    BY <1>2, <2>1, <2>3 DEF CaughtUp
  <2> QED BY <2>2, <2>3
<1> QED BY <1>3 DEF FilesInv

(* Files are written and deleted. *)
LEMMA UserSteps ==
    ASSUME FilesInv, NEW p \in Paths,
           DeleteFile(p) \/ \E how \in {"created", "modified", "moved"} : WriteFile(p, how)
    PROVE  FilesInv'
<1>1. FileTypes
  BY DEF FilesInv
<1>2. CASE DeleteFile(p)
  <2>1. disk'[p] = 0 /\ \A q \in Paths : q # p => disk'[q] = disk[q]
    BY <1>1, <1>2 DEF DeleteFile, FileTypes
  <2>2. FileTypes'
    BY <1>1, <1>2 DEF DeleteFile, FileTypes, recordVars
  <2> QED BY <1>2, <2>1, <2>2, DiskMoves DEF DeleteFile, recordVars
<1>3. ASSUME NEW how \in {"created", "modified", "moved"}, WriteFile(p, how) PROVE FilesInv'
  <2>1. fileEvents' = Append(fileEvents, p)
    BY <1>3 DEF WriteFile, Observe, Handled
  <2>2. \A q \in Paths : q # p => disk'[q] = disk[q]
    BY <1>1, <1>3 DEF WriteFile, FileTypes
  <2>3. writes' \in 0..MaxWrites /\ writes + 1 \in Content
    BY <1>1, <1>3, FileMonitorAssumption DEF WriteFile, FileTypes, Content
  <2>4. disk' \in [Paths -> {0} \cup Content] /\ erased' \subseteq Content
    BY <1>1, <1>3, <2>3 DEF WriteFile, FileTypes
  <2>5. fileEvents' \in Seq(Paths)
    BY <1>1, <2>1 DEF FileTypes
  <2>6. FileTypes'
    BY <1>1, <1>3, <2>3, <2>4, <2>5 DEF WriteFile, FileTypes, recordVars
  <2> QED BY <1>3, <2>1, <2>2, <2>6, DiskMoves DEF WriteFile, recordVars
<1> QED BY <1>2, <1>3

(* The writer takes an event. *)
LEMMA TakeStep == ASSUME FilesInv, TakeFileEvent PROVE FilesInv'
<1> DEFINE e == [path |-> Head(fileEvents), left |-> Reads, found |-> {}]
<1>1. FileTypes /\ fileEvents \in Seq(Paths) /\ fileEvents # <<>> /\ inHand = {}
  BY DEF FilesInv, FileTypes, TakeFileEvent
<1>2. Head(fileEvents) \in Paths /\ Tail(fileEvents) \in Seq(Paths)
  BY <1>1
<1>3. e \in Event /\ e.path = Head(fileEvents) /\ e.found = {}
  BY <1>2, FileMonitorAssumption DEF Event
<1>4. inHand' = {e} /\ fileEvents' = Tail(fileEvents)
  BY DEF TakeFileEvent
<1> HIDE DEF e
<1>5. FileTypes'
  BY <1>1, <1>2, <1>3, <1>4 DEF TakeFileEvent, FileTypes, userVars
<1>6. ASSUME NEW p \in Paths PROVE CaughtUp(p)'
  <2>1. CaughtUp(p) /\ UNCHANGED <<disk, records, unrecorded>>
    BY DEF FilesInv, TakeFileEvent, userVars
  <2>2. CASE p = Head(fileEvents)
    BY <1>3, <1>4, <2>2 DEF CaughtUp
  <2>3. CASE p # Head(fileEvents)
    <3>1. InSeq(fileEvents, p) => InSeq(fileEvents', p)
      BY <1>1, <1>4, <2>3, QueueMoves
    <3> QED BY <1>1, <1>3, <1>4, <2>1, <2>3, <3>1 DEF CaughtUp
  <2> QED BY <2>2, <2>3
<1> QED BY <1>5, <1>6 DEF FilesInv

(* The writer reads, commits or gives up what it has in hand. *)
LEMMA InHandSteps ==
    ASSUME FilesInv, ReadFile \/ CommitFile \/ DropFile
    PROVE  FilesInv'
<1>1. FileTypes
  BY DEF FilesInv
<1>2. ASSUME NEW e \in inHand PROVE inHand = {e} /\ e \in Event /\ e.path \in Paths
  BY <1>1, <1>2 DEF FileTypes, Event
<1>3. ASSUME NEW e \in inHand, NEW f \in Event, inHand' = {f}, f.path = e.path,
             f.found = e.found \/ f.found = (e.found \cup {disk[e.path]}) \ {0},
             failures' \in 0..MaxFailures,
             UNCHANGED <<disk, writes, erased, fileEvents, records, unrecorded, suspects>>
      PROVE  FilesInv'
  <2>1. FileTypes'
    BY <1>1, <1>3 DEF FileTypes
  <2>2. ASSUME NEW p \in Paths PROVE CaughtUp(p)'
    <3>1. CaughtUp(p) /\ inHand = {e}
      BY <1>2 DEF FilesInv
    <3>2. CASE p = e.path
      BY <1>3, <3>1, <3>2 DEF CaughtUp
    <3>3. CASE p # e.path
      BY <1>3, <3>1, <3>3 DEF CaughtUp
    <3> QED BY <3>2, <3>3
  <2> QED BY <2>1, <2>2 DEF FilesInv
<1>4. CASE ReadFile
  <2>1. PICK e \in inHand :
            /\ e.left > 0
            /\ \/ /\ inHand' = {[e EXCEPT !.left = @ - 1, !.found = (@ \cup {disk[e.path]}) \ {0}]}
                  /\ UNCHANGED failures
               \/ inHand' = {[e EXCEPT !.left = @ - 1]} /\ Fails
            /\ UNCHANGED <<userVars, fileEvents, records, unrecorded, suspects>>
    BY <1>4 DEF ReadFile
  <2>2. e \in Event /\ e.path \in Paths /\ e.left \in 0..Reads /\ e.found \subseteq Content
    BY <1>2 DEF Event
  <2>3. e.left - 1 \in 0..Reads
    BY <2>1, <2>2, FileMonitorAssumption
  <2>4. disk[e.path] \in {0} \cup Content
    BY <1>1, <2>2 DEF FileTypes
  <2>5. failures' \in 0..MaxFailures
    BY <1>1, <2>1, FailsCount DEF FileTypes
  <2>6. CASE inHand' = {[e EXCEPT !.left = @ - 1]}
    <3> DEFINE f == [e EXCEPT !.left = @ - 1]
    <3>1. f \in Event /\ f.path = e.path /\ f.found = e.found
      BY <2>2, <2>3 DEF Event
    <3>2. inHand' = {f}
      BY <2>6
    <3> HIDE DEF f
    <3> QED BY <1>3, <2>1, <2>5, <3>1, <3>2 DEF userVars
  <2>7. CASE inHand' = {[e EXCEPT !.left = @ - 1, !.found = (@ \cup {disk[e.path]}) \ {0}]}
    <3> DEFINE f == [e EXCEPT !.left = @ - 1, !.found = (@ \cup {disk[e.path]}) \ {0}]
    <3>1. f \in Event /\ f.path = e.path /\ f.found = (e.found \cup {disk[e.path]}) \ {0}
      BY <2>2, <2>3, <2>4 DEF Event
    <3>2. inHand' = {f}
      BY <2>7
    <3> HIDE DEF f
    <3> QED BY <1>3, <2>1, <2>5, <3>1, <3>2 DEF userVars
  <2> QED BY <2>1, <2>6, <2>7
<1>5. CASE CommitFile
  <2>1. PICK e \in inHand :
            /\ inHand' = {}
            /\ records' = [records EXCEPT ![e.path] = e.found]
            /\ unrecorded' = unrecorded \ {e.path}
            /\ suspects' = suspects \cup (IF e.found \cap Bad # {} THEN {e.path} ELSE {})
            /\ UNCHANGED <<userVars, fileEvents, failures>>
    BY <1>5 DEF CommitFile
  <2>2. inHand = {e} /\ e.path \in Paths /\ e.found \subseteq Content
    BY <1>2 DEF Event
  <2>3. FileTypes'
    BY <1>1, <2>1, <2>2 DEF FileTypes, userVars
  <2>4. ASSUME NEW p \in Paths PROVE CaughtUp(p)'
    <3>1. CaughtUp(p) /\ UNCHANGED <<disk, fileEvents>>
      BY <2>1 DEF FilesInv, userVars
    <3>2. records'[p] = IF p = e.path THEN e.found ELSE records[p]
      BY <1>1, <2>1, <2>2 DEF FileTypes
    <3> QED BY <2>1, <2>2, <3>1, <3>2 DEF CaughtUp
  <2> QED BY <2>3, <2>4 DEF FilesInv
<1>6. CASE DropFile
  <2>1. PICK e \in inHand :
            /\ Fails
            /\ inHand' = {}
            /\ unrecorded' = unrecorded \cup {e.path}
            /\ UNCHANGED <<userVars, fileEvents, records, suspects>>
    BY <1>6 DEF DropFile
  <2>2. inHand = {e} /\ e.path \in Paths
    BY <1>2
  <2>3. failures' \in 0..MaxFailures
    BY <1>1, <2>1, FailsCount
  <2>4. FileTypes'
    BY <1>1, <2>1, <2>2, <2>3 DEF FileTypes, userVars
  <2>5. ASSUME NEW p \in Paths PROVE CaughtUp(p)'
    <3>1. CaughtUp(p) /\ UNCHANGED <<disk, fileEvents, records>>
      BY <2>1 DEF FilesInv, userVars
    <3> QED BY <2>1, <2>2, <3>1 DEF CaughtUp
  <2> QED BY <2>4, <2>5 DEF FilesInv
<1> QED BY <1>4, <1>5, <1>6

\* The types of the vault, which the files in it have from the paths.
VaultTypeOK ==
    /\ vault \in [Names -> {0} \cup Content]
    /\ named \subseteq Names /\ broken \subseteq Names /\ stray \subseteq Names
    /\ copied \subseteq Content /\ raced \in BOOLEAN

(* Files come to a path from the vault, or leave it. *)
LEMMA MoveSteps ==
    ASSUME FilesInv, VaultInv, VaultTypeOK, NEW t \in Threads,
           \/ MoveAway(t) \/ MoveBack(t) \/ CopyBack(t) \/ CopyBackBreaks(t)
           \/ RemoveSource(t) /\ handler[t].op # "restore"
    PROVE  FilesInv'
<1>1. FileTypes /\ VaultTypes /\ CallsOK
  BY DEF FilesInv, VaultInv
<1> DEFINE p == handler[t].path
           n == handler[t].name
<1>2. p \in Paths
  BY <1>1 DEF VaultTypes, FileCall
<1>3. handler[t].at = "cleared" => vault[n] \in {0} \cup Content
  <2>1. handler[t].at = "cleared" => n \in Names
    BY <1>1, NamesGiven DEF CallsOK, CallOK
  <2> QED BY <2>1 DEF VaultTypeOK
<1>4. ASSUME disk' = [disk EXCEPT ![p] = 0],
             UNCHANGED <<writes, erased, fileEvents, recordVars, suspects, failures>>
      PROVE  FilesInv'
  <2> HIDE DEF p
  <2>1. disk'[p] = 0 /\ \A q \in Paths : q # p => disk'[q] = disk[q]
    BY <1>1, <1>2, <1>4 DEF FileTypes
  <2>2. FileTypes'
    BY <1>1, <1>4 DEF FileTypes, recordVars
  <2> QED BY <1>2, <1>4, <2>1, <2>2, DiskMoves DEF recordVars
<1>5. ASSUME NEW c \in Content, disk' = [disk EXCEPT ![p] = c],
             fileEvents' = Append(fileEvents, p),
             writes' \in 0..MaxWrites, failures' \in 0..MaxFailures,
             UNCHANGED <<erased, recordVars, suspects>>
      PROVE  FilesInv'
  <2> HIDE DEF p
  <2>1. \A q \in Paths : q # p => disk'[q] = disk[q]
    BY <1>1, <1>2, <1>5 DEF FileTypes
  <2>2. fileEvents' \in Seq(Paths)
    BY <1>1, <1>2, <1>5 DEF FileTypes
  <2>3. disk' \in [Paths -> {0} \cup Content]
    BY <1>1, <1>5 DEF FileTypes
  <2>4. FileTypes'
    BY <1>1, <1>5, <2>2, <2>3 DEF FileTypes, recordVars
  <2> QED BY <1>2, <1>5, <2>1, <2>4, DiskMoves DEF recordVars
<1>6. CASE MoveAway(t)
  BY <1>4, <1>6 DEF MoveAway
<1>7. CASE RemoveSource(t) /\ handler[t].op # "restore"
  BY <1>4, <1>7 DEF RemoveSource
<1>8. CASE MoveBack(t) \/ CopyBack(t)
  <2>1. /\ disk' = [disk EXCEPT ![p] = vault[n]] /\ fileEvents' = Append(fileEvents, p)
        /\ UNCHANGED <<writes, erased, recordVars, suspects, failures>>
        /\ handler[t].at = "cleared" /\ vault[n] # 0
    BY <1>8 DEF MoveBack, CopyBack, Observe, Handled
  <2>2. vault[n] \in Content /\ writes' \in 0..MaxWrites /\ failures' \in 0..MaxFailures
    BY <1>1, <1>3, <2>1 DEF FileTypes
  <2> QED BY <1>5, <2>1, <2>2
<1>9. CASE CopyBackBreaks(t)
  <2>1. /\ disk' = [disk EXCEPT ![p] = writes + 1] /\ fileEvents' = Append(fileEvents, p)
        /\ writes < MaxWrites /\ writes' = writes + 1 /\ Fails
        /\ UNCHANGED <<erased, recordVars, suspects>>
    BY <1>9 DEF CopyBackBreaks, Observe, Handled
  <2>2. writes + 1 \in Content /\ writes' \in 0..MaxWrites
    BY <1>1, <2>1, FileMonitorAssumption DEF FileTypes, Content
  <2>3. failures' \in 0..MaxFailures
    BY <1>1, <2>1, FailsCount
  <2> QED BY <1>5, <2>1, <2>2, <2>3
<1> QED BY <1>6, <1>7, <1>8, <1>9

RequestedFiles == FilesInv /\ VaultTypeOK

(* The monitor's and the vault's invariant survive every step. *)
LEMMA RequestedFilesStep ==
    ASSUME RequestedFiles, VaultInv, [QuarantineNext]_quarantineVars
    PROVE  RequestedFiles'
<1>1. FilesInv /\ FileTypes /\ VaultTypeOK /\ VaultTypes /\ CallsOK
  BY DEF RequestedFiles, FilesInv, VaultInv
<1>2. ASSUME UNCHANGED <<disk, erased, fileEvents, recordVars>>, writes' \in 0..MaxWrites,
             suspects' \subseteq suspects, failures' \in 0..MaxFailures
      PROVE  FilesInv'
  BY <1>1, <1>2 DEF FilesInv, FileTypes, CaughtUp, recordVars
<1>3. ASSUME UNCHANGED fileVars PROVE FilesInv'
  BY <1>1, <1>3 DEF FilesInv, FileTypes, CaughtUp, fileVars, userVars, recordVars
<1>4. WatchRaces \/ raced' = raced => raced' \in BOOLEAN
  BY <1>1 DEF WatchRaces, VaultTypeOK
<1>5. CASE UNCHANGED quarantineVars
  BY <1>1, <1>3, <1>5 DEF quarantineVars, vaultVars, VaultTypeOK, RequestedFiles
<1>6. ASSUME Files, WatchRaces PROVE RequestedFiles'
  <2>1. FilesInv'
    BY <1>1, <1>6, UserSteps, TakeStep, InHandSteps DEF Files, FileStep
  <2> QED BY <1>1, <1>4, <1>6, <2>1 DEF Files, vaultVars, VaultTypeOK, RequestedFiles
<1>7. ASSUME NEW p \in Paths, RespondToFile(p), WatchRaces PROVE RequestedFiles'
  <2>1. UNCHANGED <<disk, writes, erased, fileEvents, recordVars, failures, vaultVars>>
        /\ suspects' \subseteq suspects
    BY <1>7 DEF RespondToFile, userVars
  <2>2. FilesInv'
    BY <1>1, <1>2, <2>1 DEF FileTypes
  <2> QED BY <1>1, <1>4, <1>7, <2>1, <2>2 DEF vaultVars, VaultTypeOK, RequestedFiles
<1>8. ASSUME NEW t \in Threads, Call(t), WatchRaces PROVE RequestedFiles'
  <2>1. handler[t].at \in {"cleared", "copied", "moved"} => handler[t].name \in Names
    BY <1>1, NamesGiven DEF CallsOK, CallOK
  <2>2. disk[handler[t].path] \in {0} \cup Content
    BY <1>1 DEF VaultTypes, FileCall, FileTypes
  <2>3. ASSUME NEW c \in Content, NewName(t, c)
        PROVE  vault' \in [Names -> {0} \cup Content] /\ Len(origin)' \in Names
    <3>1. vault' \in [Names -> {0} \cup Content]
      BY <1>1, <2>3 DEF NewName, VaultTypeOK
    <3>2. Len(origin)' = Len(origin) + 1
      BY <1>1, <2>3 DEF NewName, VaultTypes
    <3> QED BY <2>3, <3>1, <3>2 DEF NewName
  <2>4. CASE MoveAway(t)
    <3>1. FilesInv'
      BY <1>1, <2>4, MoveSteps DEF RequestedFiles
    <3>2. vault' \in [Names -> {0} \cup Content]
      BY <2>2, <2>3, <2>4 DEF MoveAway
    <3>3. UNCHANGED <<named, broken, stray, copied>>
      BY <2>4 DEF MoveAway
    <3> QED BY <1>1, <1>4, <1>8, <3>1, <3>2, <3>3 DEF VaultTypeOK, RequestedFiles
  <2>5. CASE CopyAway(t)
    <3>1. FilesInv'
      BY <1>3, <2>5 DEF CopyAway
    <3>2. vault' \in [Names -> {0} \cup Content] /\ copied' \subseteq Content
      BY <1>1, <2>2, <2>3, <2>5 DEF CopyAway, VaultTypeOK
    <3>3. UNCHANGED <<named, broken, stray>>
      BY <2>5 DEF CopyAway
    <3> QED BY <1>1, <1>4, <1>8, <3>1, <3>2, <3>3 DEF VaultTypeOK, RequestedFiles
  <2>6. CASE CopyAwayBreaks(t)
    <3>1. /\ writes < MaxWrites /\ writes' = writes + 1 /\ Fails /\ NewName(t, writes + 1)
          /\ stray' = stray \cup {Len(origin)'} /\ UNCHANGED <<named, broken, copied>>
          /\ UNCHANGED <<disk, erased, fileEvents, recordVars, suspects>>
      BY <2>6 DEF CopyAwayBreaks
    <3>2. writes + 1 \in Content /\ writes' \in 0..MaxWrites
      BY <1>1, <3>1, FileMonitorAssumption DEF FileTypes, Content
    <3>3. FilesInv'
      BY <1>1, <1>2, <3>1, <3>2, FailsCount
    <3>4. vault' \in [Names -> {0} \cup Content] /\ stray' \subseteq Names
      BY <1>1, <2>3, <3>1, <3>2 DEF VaultTypeOK
    <3> QED BY <1>1, <1>4, <1>8, <3>1, <3>3, <3>4 DEF VaultTypeOK, RequestedFiles
  <2>7. CASE MoveBack(t)
    <3>1. FilesInv'
      BY <1>1, <2>7, MoveSteps DEF RequestedFiles
    <3>2. vault' \in [Names -> {0} \cup Content]
      BY <1>1, <2>7 DEF MoveBack, VaultTypeOK
    <3>3. UNCHANGED <<named, broken, stray, copied>>
      BY <2>7 DEF MoveBack
    <3> QED BY <1>1, <1>4, <1>8, <3>1, <3>2, <3>3 DEF VaultTypeOK, RequestedFiles
  <2>8. CASE CopyBack(t) \/ CopyBackBreaks(t)
    <3>1. FilesInv'
      BY <1>1, <2>8, MoveSteps DEF RequestedFiles
    <3>2. vault' = vault /\ UNCHANGED <<named, broken, stray>>
      BY <2>8 DEF CopyBack, CopyBackBreaks, vaultVars
    <3>3. copied' \subseteq Content
      <4>1. CASE CopyBack(t)
        <5>1. /\ copied' = copied \cup {vault[handler[t].name]}
              /\ handler[t].at = "cleared" /\ vault[handler[t].name] # 0
          BY <4>1 DEF CopyBack
        <5> QED BY <1>1, <2>1, <5>1 DEF VaultTypeOK
      <4>2. CASE CopyBackBreaks(t)
        BY <1>1, <4>2 DEF CopyBackBreaks, vaultVars, VaultTypeOK
      <4> QED BY <2>8, <4>1, <4>2
    <3> QED BY <1>1, <1>4, <1>8, <3>1, <3>2, <3>3 DEF VaultTypeOK, RequestedFiles
  <2>9. CASE RemoveSource(t)
    <3>1. UNCHANGED <<named, broken, stray, copied>>
      BY <2>9 DEF RemoveSource
    <3>2. CASE handler[t].op = "restore"
      <4>1. UNCHANGED fileVars /\ vault' = [vault EXCEPT ![handler[t].name] = 0]
        BY <2>9, <3>2 DEF RemoveSource, fileVars, userVars
      <4>2. vault' \in [Names -> {0} \cup Content]
        BY <1>1, <4>1 DEF VaultTypeOK
      <4> QED BY <1>1, <1>3, <1>4, <1>8, <3>1, <4>1, <4>2 DEF VaultTypeOK, RequestedFiles
    <3>3. CASE handler[t].op # "restore"
      <4>1. FilesInv'
        BY <1>1, <2>9, <3>3, MoveSteps DEF RequestedFiles
      <4>2. vault' = vault
        BY <2>9, <3>3 DEF RemoveSource
      <4> QED BY <1>1, <1>4, <1>8, <3>1, <4>1, <4>2 DEF VaultTypeOK, RequestedFiles
    <3> QED BY <3>2, <3>3
  <2>10. CASE SourceStays(t)
    <3>1. /\ UNCHANGED <<disk, writes, erased, fileEvents, recordVars, suspects>>
          /\ UNCHANGED <<vault, named, broken, copied>>
          /\ stray' \subseteq stray \cup {handler[t].name} /\ handler[t].at = "copied"
      BY <2>10 DEF SourceStays, userVars
    <3>2. failures' \in 0..MaxFailures
      <4>1. failures' = failures \/ Fails
        BY <2>10 DEF SourceStays
      <4> QED BY <1>1, <4>1, FailsCount DEF FileTypes
    <3>3. FilesInv'
      BY <1>1, <1>2, <3>1, <3>2 DEF FileTypes
    <3>4. stray' \subseteq Names
      BY <1>1, <2>1, <3>1 DEF VaultTypeOK
    <3> QED BY <1>1, <1>4, <1>8, <3>1, <3>3, <3>4 DEF VaultTypeOK, RequestedFiles
  <2>11. CASE CheckRestore(t) \/ MoveRefused(t)
    BY <1>1, <1>3, <1>4, <1>8, <2>11
       DEF CheckRestore, MoveRefused, vaultVars, VaultTypeOK, RequestedFiles
  <2>12. CASE Report(t)
    BY <1>1, <1>3, <1>4, <1>8, <2>1, <2>12 DEF Report, VaultTypeOK, RequestedFiles
  <2>13. CASE ReportFails(t)
    <3>1. /\ UNCHANGED <<disk, writes, erased, fileEvents, recordVars, suspects>> /\ Fails
          /\ UNCHANGED <<vault, named, stray, copied>>
          /\ broken' = broken \cup {handler[t].name} /\ handler[t].at = "moved"
      BY <2>13 DEF ReportFails, userVars
    <3>2. FilesInv'
      BY <1>1, <1>2, <3>1, FailsCount DEF FileTypes
    <3> QED BY <1>1, <1>4, <1>8, <2>1, <3>1, <3>2 DEF VaultTypeOK, RequestedFiles
  <2>14. ASSUME NEW p \in Paths, AskQuarantine(t, p) \/ AskDisable(t, p) PROVE RequestedFiles'
    BY <1>1, <1>3, <1>4, <1>8, <2>14
       DEF AskQuarantine, AskDisable, vaultVars, VaultTypeOK, RequestedFiles
  <2>15. ASSUME NEW n \in Names, AskRestore(t, n) PROVE RequestedFiles'
    BY <1>1, <1>3, <1>4, <1>8, <2>15 DEF AskRestore, vaultVars, VaultTypeOK, RequestedFiles
  <2> QED BY <1>8, <2>4, <2>5, <2>6, <2>7, <2>8, <2>9, <2>10, <2>11, <2>12, <2>13, <2>14, <2>15
          DEF Call
<1> QED BY <1>5, <1>6, <1>7, <1>8 DEF QuarantineNext

(* The file monitor's invariant, whatever is moved under its reads. *)
LEMMA RequestedFilesInvariance == QuarantineSpec => []RequestedFiles
<1>1. QuarantineInit => RequestedFiles
  <2> SUFFICES ASSUME QuarantineInit PROVE FilesInv /\ VaultTypeOK
    BY DEF RequestedFiles
  <2>1. VaultTypeOK
    BY DEF QuarantineInit, VaultTypeOK
  <2> QED BY <2>1, FilesInitially DEF QuarantineInit
<1>2. RequestedFiles /\ VaultInv /\ [QuarantineNext]_quarantineVars => RequestedFiles'
  BY RequestedFilesStep
<1> QED BY <1>1, <1>2, VaultInvariance, PTL DEF QuarantineSpec

(***************************************************************************)
(* However often a file is written, renamed, quarantined or restored while *)
(* it is read: once nothing of it is queued or in hand, its latest row was *)
(* read from what it holds now and from nothing else, unless that row was  *)
(* rolled back.                                                            *)
(***************************************************************************)
THEOREM RowsCatchUp == QuarantineSpec => []RecordsCatchUp
<1>1. RequestedFiles => RecordsCatchUp
  BY DEF RequestedFiles, FilesInv, CaughtUp, InSeq, RecordsCatchUp
<1> QED BY <1>1, RequestedFilesInvariance, PTL

(* The types of the file monitor and of quarantine. *)
LEMMA QuarantineTypesHold == QuarantineSpec => []QuarantineTypeOK
<1>1. RequestedFiles /\ VaultInv => QuarantineTypeOK
  <2> SUFFICES ASSUME RequestedFiles, VaultInv PROVE QuarantineTypeOK
    OBVIOUS
  <2>1. FileTypes /\ VaultTypeOK /\ VaultTypes
    BY DEF RequestedFiles, FilesInv, VaultInv
  <2>2. Cardinality(inHand) <= 1
    <3>1. Cardinality({}) = 0 /\ \A x : Cardinality({x}) = 1
      BY FS_EmptySet, FS_Singleton
    <3>2. inHand = {} \/ \E e : inHand = {e}
      BY <2>1 DEF FileTypes
    <3>3. Cardinality(inHand) \in {0, 1}
      BY Zenon, <3>1, <3>2
    <3> QED BY <3>3
  <2>3. FileTypeOK
    BY <2>1, <2>2 DEF FileTypes, FileTypeOK, Event
  <2>4. origin \in Seq([op : Operations, path : Paths]) /\ Len(origin) <= MaxNames
    BY <2>1 DEF VaultTypes, FileOrigin
  <2>5. handler \in [Threads -> [at : {"idle", "checked", "found", "cleared", "copied",
                                       "moved"},
                                 op : Operations, path : Paths, name : 0..MaxNames]]
    BY <2>1 DEF VaultTypes, FileCall, FileStage
  <2>6. items \in [Names -> {"none", "kept", "restored"}]
    BY <2>1 DEF VaultTypes
  <2> QED BY <2>1, <2>3, <2>4, <2>5, <2>6 DEF VaultTypeOK, QuarantineTypeOK
<1> QED BY <1>1, RequestedFilesInvariance, VaultInvariance, PTL
-----------------------------------------------------------------------------
(***************************************************************************)
(* The browser's tab, whatever the order in which the answers arrive.      *)
(***************************************************************************)

Listener == [page : Pages, at : {"asked", "settled", "told", "over"},
             outcome : {"none", "block", "allow", "failed"}]

\* A call whose answer is still out has no outcome, so a block is never undone.
Unanswered ==
    \A i \in 1..Len(checks) : checks[i].at = "asked" => checks[i].outcome = "none"

CheckedBlock == \E i \in 1..Len(checks) :
    checks[i].page = tab.page /\ checks[i].outcome = "block"

PopupBlock == \E j \in 1..Len(clicks) :
    clicks[j].on.page = tab.page /\ clicks[j].decision # "allow" /\ clicks[j].at = "shown"

BlockStandsForBlock == tab.blocked => CheckedBlock \/ PopupBlock

Click == [on : Tabs, decision : Decisions, at : {"asked", "answered", "shown", "over"}]

\* Allow in the popup redirects nothing.
OnlyBlocksAnswered ==
    \A j \in 1..Len(clicks) : clicks[j].at = "answered" => clicks[j].decision # "allow"

\* The redirect of the newest call is the last but for those of older ones.
NewestRedirects ==
    checks # <<>> /\ checks[Len(checks)].at = "over" /\ checks[Len(checks)].outcome = "block"
        => tab.blocked

NavigationInv ==
    NavigationTypeOK /\ Unanswered /\ OnlyBlocksAnswered /\ BlockStandsForBlock /\ NewestRedirects

\* The first page of the tab is no page that a check was made for.
LEMMA NavigationInitially == NavigationInit => NavigationInv
<1> SUFFICES ASSUME NavigationInit PROVE NavigationInv
  OBVIOUS
<1>1. PICK p \in Pages \ Unwanted : tab = [page |-> p, blocked |-> FALSE]
  BY DEF NavigationInit
<1>2. checks = <<>> /\ clicks = <<>>
  BY DEF NavigationInit
<1>3. <<>> \in Seq(Listener) /\ <<>> \in Seq(Click)
  OBVIOUS
<1>4. NavigationTypeOK
  BY <1>1, <1>2, <1>3, NavigationAssumption
     DEF NavigationInit, NavigationTypeOK, Listener, Click, Tabs
<1> QED BY <1>1, <1>2, <1>4 DEF NavigationInv, Unanswered, OnlyBlocksAnswered,
                                BlockStandsForBlock, NewestRedirects

(* A navigation begins. *)
LEMMA OpenStep ==
    ASSUME NavigationInv, NEW p \in Pages, Open(p), condemned' \subseteq Pages,
           UNCHANGED <<paired, clicks, badge>>
    PROVE  NavigationInv'
<1> DEFINE new == IF paired THEN [page |-> p, at |-> "asked", outcome |-> "none"]
                            ELSE [page |-> p, at |-> "settled", outcome |-> "allow"]
<1>1. NavigationTypeOK /\ checks \in Seq(Listener)
  BY DEF NavigationInv, NavigationTypeOK, Listener
<1>2. new \in Listener /\ new.at # "over" /\ (new.at = "asked" => new.outcome = "none")
  BY DEF Listener
<1>3. checks' = Append(checks, new) /\ tab' = [page |-> p, blocked |-> FALSE]
  BY DEF Open
<1> HIDE DEF new
<1>4. /\ checks' \in Seq(Listener) /\ Len(checks') = Len(checks) + 1 /\ Len(checks) \in Nat
      /\ checks'[Len(checks) + 1] = new
      /\ \A i \in 1..Len(checks) : checks'[i] = checks[i]
  BY <1>1, <1>2, <1>3
<1>5. NavigationTypeOK'
  BY <1>1, <1>3, <1>4 DEF NavigationTypeOK, Listener, Tabs
<1>6. Unanswered' /\ OnlyBlocksAnswered'
  <2>0. OnlyBlocksAnswered'
    BY DEF NavigationInv, OnlyBlocksAnswered
  <2> SUFFICES ASSUME NEW i \in 1..Len(checks'), checks'[i].at = "asked"
               PROVE  checks'[i].outcome = "none"
    BY <2>0 DEF Unanswered
  <2>1. i \in 1..Len(checks) \/ i = Len(checks) + 1
    BY <1>4
  <2> QED BY <1>2, <1>4, <2>1 DEF NavigationInv, Unanswered
<1>7. BlockStandsForBlock' /\ NewestRedirects'
  BY <1>2, <1>3, <1>4 DEF BlockStandsForBlock, NewestRedirects
<1> QED BY <1>5, <1>6, <1>7 DEF NavigationInv

(* A call moves on. *)
LEMMA CallStep ==
    ASSUME NavigationInv, NEW i \in 1..Len(checks),
           (\E o \in {"block", "allow", "failed"} : Settle(i, o)) \/ SetBadge(i) \/ Finish(i)
    PROVE  NavigationInv'
<1>1. /\ NavigationTypeOK /\ checks \in Seq(Listener)
      /\ Unanswered /\ OnlyBlocksAnswered /\ BlockStandsForBlock /\ NewestRedirects
  BY DEF NavigationInv, NavigationTypeOK, Listener
<1>2. checks[i] \in Listener /\ Len(checks) \in Nat
  BY <1>1
<1>3. ASSUME NEW new \in Listener, checks' = [checks EXCEPT ![i] = new],
             new.at # "asked", new.page = checks[i].page,
             checks[i].at = "asked" \/ new.outcome = checks[i].outcome,
             new.at = "over" =>
                 tab' = IF new.outcome = "block" THEN [page |-> new.page, blocked |-> TRUE] ELSE tab,
             new.at # "over" => tab' = tab,
             paired' = paired, clicks' = clicks, condemned' = condemned, badge' \in BOOLEAN
      PROVE  NavigationInv'
  <2>1. /\ checks' \in Seq(Listener) /\ Len(checks') = Len(checks)
        /\ \A j \in 1..Len(checks) : checks'[j] = IF j = i THEN new ELSE checks[j]
    BY <1>1, <1>3
  <2>2. tab' \in Tabs
    <3>1. tab \in Tabs /\ new.page \in Pages
      BY <1>1 DEF NavigationTypeOK, Listener
    <3>2. [page |-> new.page, blocked |-> TRUE] \in Tabs
      BY <3>1 DEF Tabs
    <3>3. tab' = tab \/ tab' = [page |-> new.page, blocked |-> TRUE]
      BY <1>3
    <3> QED BY <3>1, <3>2, <3>3
  <2>3. NavigationTypeOK'
    BY <1>1, <1>3, <2>1, <2>2 DEF NavigationTypeOK, Listener
  <2>4. Unanswered' /\ OnlyBlocksAnswered'
    BY <1>1, <1>3, <2>1 DEF Unanswered, OnlyBlocksAnswered
  <2>5. ASSUME NEW j \in 1..Len(checks), checks[j].outcome = "block"
        PROVE  checks'[j].outcome = "block" /\ checks'[j].page = checks[j].page
    BY <1>1, <1>3, <2>1, <2>5 DEF Unanswered
  <2>6. BlockStandsForBlock'
    <3> SUFFICES ASSUME tab'.blocked
                 PROVE  CheckedBlock' \/ PopupBlock'
      BY DEF BlockStandsForBlock
    <3>1. CASE new.at = "over" /\ new.outcome = "block"
      <4>1. tab'.page = new.page
        BY <1>3, <3>1
      <4>2. i \in 1..Len(checks') /\ checks'[i] = new
        BY <2>1
      <4> QED BY <3>1, <4>1, <4>2 DEF CheckedBlock
    <3>2. CASE tab' = tab /\ CheckedBlock
      <4>1. PICK j \in 1..Len(checks) : checks[j].page = tab.page /\ checks[j].outcome = "block"
        BY <3>2 DEF CheckedBlock
      <4> QED BY <2>1, <2>5, <3>2, <4>1 DEF CheckedBlock
    <3>3. CASE tab' = tab /\ PopupBlock
      BY <1>3, <3>3 DEF PopupBlock
    <3>4. tab' = tab => CheckedBlock \/ PopupBlock
      BY <1>1 DEF BlockStandsForBlock
    <3> QED BY <1>3, <3>1, <3>2, <3>3, <3>4
  <2>7. NewestRedirects'
    <3> SUFFICES ASSUME checks' # <<>>, checks'[Len(checks')].at = "over",
                        checks'[Len(checks')].outcome = "block"
                 PROVE  tab'.blocked
      BY DEF NewestRedirects
    <3>1. Len(checks) \in 1..Len(checks)
      BY <1>2
    <3>2. CASE i = Len(checks)
      BY <1>3, <2>1, <3>1, <3>2
    <3>3. CASE i # Len(checks)
      <4>1. tab.blocked
        BY <1>1, <2>1, <3>1, <3>3 DEF NewestRedirects
      <4> QED BY <1>3, <4>1
    <3> QED BY <3>2, <3>3
  <2> QED BY <2>3, <2>4, <2>6, <2>7 DEF NavigationInv
<1>4. ASSUME NEW o \in {"block", "allow", "failed"}, Settle(i, o) PROVE NavigationInv'
  <2> DEFINE new == [checks[i] EXCEPT !.at = "settled", !.outcome = o]
  <2>1. new \in Listener /\ new.at = "settled" /\ new.page = checks[i].page
    BY <1>2 DEF Listener
  <2>2. checks' = [checks EXCEPT ![i] = new] /\ checks[i].at = "asked"
    BY <1>1, <1>2, <1>4 DEF Settle, Listener
  <2> HIDE DEF new
  <2> QED BY <1>1, <1>3, <1>4, <2>1, <2>2 DEF Settle, NavigationTypeOK
<1>5. CASE SetBadge(i)
  <2> DEFINE new == [checks[i] EXCEPT !.at = "told"]
  <2>1. new \in Listener /\ new.at = "told" /\ new.page = checks[i].page
        /\ new.outcome = checks[i].outcome
    BY <1>2 DEF Listener
  <2>2. checks' = [checks EXCEPT ![i] = new]
    BY <1>5 DEF SetBadge
  <2> HIDE DEF new
  <2> QED BY <1>1, <1>3, <1>5, <2>1, <2>2 DEF SetBadge
<1>6. CASE Finish(i)
  <2> DEFINE new == [checks[i] EXCEPT !.at = "over"]
  <2>1. new \in Listener /\ new.at = "over" /\ new.page = checks[i].page
        /\ new.outcome = checks[i].outcome
    BY <1>2 DEF Listener
  <2>2. checks' = [checks EXCEPT ![i] = new]
    BY <1>6 DEF Finish
  <2> HIDE DEF new
  <2> QED BY <1>1, <1>3, <1>6, <2>1, <2>2 DEF Finish, NavigationTypeOK
<1> QED BY <1>4, <1>5, <1>6

(* A decision in the popup moves on. *)
LEMMA PopupStep ==
    ASSUME NavigationInv,
           (\E d \in Decisions : Decide(d)) \/ (\E j \in 1..Len(clicks) : Heard(j) \/ ShowBlocked(j))
    PROVE  NavigationInv'
<1>1. /\ NavigationTypeOK /\ clicks \in Seq(Click) /\ tab \in Tabs /\ Len(clicks) \in Nat
      /\ Unanswered /\ OnlyBlocksAnswered /\ BlockStandsForBlock /\ NewestRedirects
  BY DEF NavigationInv, NavigationTypeOK, Click
<1>2. paired' = paired /\ checks' = checks /\ badge' = badge
  BY DEF Decide, Heard, ShowBlocked
<1>3. Unanswered'
  BY <1>1, <1>2 DEF Unanswered
<1>4. CheckedBlock /\ tab' = tab => CheckedBlock'
  BY <1>2 DEF CheckedBlock
<1>5. ASSUME NEW d \in Decisions, Decide(d) PROVE NavigationInv'
  <2> DEFINE new == [on |-> tab, decision |-> d, at |-> "asked"]
  <2>1. new \in Click /\ new.at = "asked"
    BY <1>1 DEF Click
  <2>2. clicks' = Append(clicks, new) /\ tab' = tab /\ condemned' = condemned
    BY <1>5 DEF Decide
  <2> HIDE DEF new
  <2>3. /\ clicks' \in Seq(Click) /\ Len(clicks') = Len(clicks) + 1
        /\ clicks'[Len(clicks) + 1] = new /\ \A j \in 1..Len(clicks) : clicks'[j] = clicks[j]
    BY <1>1, <2>1, <2>2
  <2>4. NavigationTypeOK'
    BY <1>1, <1>2, <2>2, <2>3 DEF NavigationTypeOK, Click
  <2>5. OnlyBlocksAnswered'
    <3> SUFFICES ASSUME NEW j \in 1..Len(clicks'), clicks'[j].at = "answered"
                 PROVE  clicks'[j].decision # "allow"
      BY DEF OnlyBlocksAnswered
    <3>1. j \in 1..Len(clicks) \/ j = Len(clicks) + 1
      BY <1>1, <2>3
    <3> QED BY <1>1, <2>1, <2>3, <3>1 DEF OnlyBlocksAnswered
  <2>6. PopupBlock => PopupBlock'
    <3> SUFFICES ASSUME PopupBlock PROVE PopupBlock'
      OBVIOUS
    <3>1. PICK j \in 1..Len(clicks) : clicks[j].on.page = tab.page
                /\ clicks[j].decision # "allow" /\ clicks[j].at = "shown"
      BY DEF PopupBlock
    <3>2. j \in 1..Len(clicks') /\ clicks'[j] = clicks[j]
      BY <1>1, <2>3
    <3> QED BY <2>2, <3>1, <3>2 DEF PopupBlock
  <2>7. BlockStandsForBlock' /\ NewestRedirects'
    BY <1>1, <1>2, <1>4, <2>2, <2>6 DEF BlockStandsForBlock, NewestRedirects
  <2> QED BY <1>3, <2>4, <2>5, <2>7 DEF NavigationInv
<1>6. ASSUME NEW j \in 1..Len(clicks), Heard(j) PROVE NavigationInv'
  <2>1. PICK at \in {"answered", "over"} :
            /\ at = "answered" => clicks[j].decision # "allow"
            /\ clicks' = [clicks EXCEPT ![j].at = at]
    BY <1>6 DEF Heard
  <2> DEFINE new == [clicks[j] EXCEPT !.at = at]
  <2>2. clicks[j] \in Click /\ clicks[j].at = "asked" /\ tab' = tab
    BY <1>1, <1>6 DEF Heard
  <2>3. /\ new \in Click /\ new.at \in {"answered", "over"} /\ new.decision = clicks[j].decision
        /\ new.at = "answered" => new.decision # "allow"
    BY <2>1, <2>2 DEF Click
  <2>4. clicks' = [clicks EXCEPT ![j] = new]
    BY <1>1, <2>1, <2>2 DEF Click
  <2> HIDE DEF new
  <2>5. /\ clicks' \in Seq(Click) /\ Len(clicks') = Len(clicks)
        /\ \A k \in 1..Len(clicks) : clicks'[k] = IF k = j THEN new ELSE clicks[k]
    BY <1>1, <2>3, <2>4
  <2>6. condemned' \subseteq Pages
    <3>1. clicks[j].on.page \in Pages /\ condemned \subseteq Pages
      BY <1>1, <2>2 DEF Click, Tabs, NavigationTypeOK
    <3>2. Ruled(clicks[j]) \subseteq Pages
      BY <3>1 DEF Ruled
    <3> QED BY <1>6, <3>1, <3>2 DEF Heard
  <2>7. NavigationTypeOK'
    BY <1>1, <1>2, <2>2, <2>5, <2>6 DEF NavigationTypeOK, Click
  <2>8. OnlyBlocksAnswered'
    BY <1>1, <2>3, <2>5 DEF OnlyBlocksAnswered
  <2>9. PopupBlock => PopupBlock'
    BY <1>1, <2>2, <2>5 DEF PopupBlock
  <2>10. BlockStandsForBlock' /\ NewestRedirects'
    BY <1>1, <1>2, <1>4, <2>2, <2>9 DEF BlockStandsForBlock, NewestRedirects
  <2> QED BY <1>3, <2>7, <2>8, <2>10 DEF NavigationInv
<1>7. ASSUME NEW j \in 1..Len(clicks), ShowBlocked(j) PROVE NavigationInv'
  <2> DEFINE new == [clicks[j] EXCEPT !.at = "shown"]
  <2>1. clicks[j] \in Click /\ clicks[j].decision # "allow" /\ condemned' = condemned
    BY <1>1, <1>7 DEF ShowBlocked, OnlyBlocksAnswered
  <2>2. /\ new \in Click /\ new.at = "shown" /\ new.decision = clicks[j].decision
        /\ new.on = clicks[j].on /\ new.on.page \in Pages
    BY <2>1 DEF Click, Tabs
  <2>3. clicks' = [clicks EXCEPT ![j] = new] /\ tab' = [page |-> new.on.page, blocked |-> TRUE]
    BY <1>1, <1>7, <2>1 DEF ShowBlocked, Click
  <2> HIDE DEF new
  <2>4. /\ clicks' \in Seq(Click) /\ Len(clicks') = Len(clicks)
        /\ \A k \in 1..Len(clicks) : clicks'[k] = IF k = j THEN new ELSE clicks[k]
    BY <1>1, <2>2, <2>3
  <2>5. tab' \in Tabs
    BY <2>2, <2>3 DEF Tabs
  <2>6. NavigationTypeOK'
    BY <1>1, <1>2, <2>1, <2>4, <2>5 DEF NavigationTypeOK, Click
  <2>7. OnlyBlocksAnswered'
    BY <1>1, <2>2, <2>4 DEF OnlyBlocksAnswered
  <2>8. PopupBlock'
    BY <2>1, <2>2, <2>3, <2>4 DEF PopupBlock
  <2>9. BlockStandsForBlock' /\ NewestRedirects'
    BY <2>3, <2>8 DEF BlockStandsForBlock, NewestRedirects
  <2> QED BY <1>3, <2>6, <2>7, <2>9 DEF NavigationInv
<1> QED BY <1>5, <1>6, <1>7

(* The inductive invariant of a tab and its calls. *)
THEOREM NavigationInvariance == NavigationSpec => []NavigationInv
<1>1. NavigationInit => NavigationInv
  BY NavigationInitially
<1>2. NavigationInv /\ [NavigationNext]_navigationVars => NavigationInv'
  <2> SUFFICES ASSUME NavigationInv, [NavigationNext]_navigationVars PROVE NavigationInv'
    OBVIOUS
  <2>1. condemned \subseteq Pages /\ tab.page \in Pages
    BY DEF NavigationInv, NavigationTypeOK, Tabs
  <2>2. ASSUME NEW p \in Pages, Navigate(p) PROVE NavigationInv'
    BY <2>1, <2>2, OpenStep DEF Navigate
  <2>3. CASE Pair
    BY <2>3 DEF Pair, NavigationInv, NavigationTypeOK, Unanswered, OnlyBlocksAnswered,
                BlockStandsForBlock, CheckedBlock, PopupBlock, NewestRedirects
  <2>4. CASE Override
    <3>1. condemned' \subseteq Pages
      BY <2>1, <2>4 DEF Override
    <3> QED BY <2>1, <2>4, <3>1, OpenStep DEF Override
  <2>5. ASSUME NEW i \in 1..Len(checks), Answer(i) \/ NoAnswer(i) \/ SetBadge(i) \/ Finish(i)
        PROVE  NavigationInv'
    BY <2>5, CallStep DEF Answer, NoAnswer, Verdict
  <2>6. CASE UNCHANGED navigationVars
    BY <2>6 DEF navigationVars, NavigationInv, NavigationTypeOK, Unanswered, OnlyBlocksAnswered,
                BlockStandsForBlock, CheckedBlock, PopupBlock, NewestRedirects
  <2> QED BY <2>2, <2>3, <2>4, <2>5, <2>6, PopupStep DEF NavigationNext
<1> QED BY <1>1, <1>2, PTL DEF NavigationSpec

(***************************************************************************)
(* However the answers of any number of navigations overtake each other:   *)
(* once all are in, a tab whose newest page was blocked is not on it, and  *)
(* a blocked page stands only for a page that the agent blocked or the     *)
(* user blocked in the popup, whatever the agent made of that.             *)
(***************************************************************************)
THEOREM BlockedPagesAreLeft == NavigationSpec => []BlockedIsLeft
<1>1. NavigationInv => BlockedIsLeft
  <2> SUFFICES ASSUME NavigationInv PROVE BlockedIsLeft
    OBVIOUS
  <2>1. Len(checks) \in Nat /\ (checks # <<>> => Len(checks) \in 1..Len(checks))
    BY DEF NavigationInv, NavigationTypeOK
  <2> QED BY <2>1 DEF NavigationInv, BlockStandsForBlock, CheckedBlock, PopupBlock,
                      NewestRedirects, BlockedIsLeft
<1> QED BY <1>1, NavigationInvariance, PTL
-----------------------------------------------------------------------------
(***************************************************************************)
(* The types of all that is asked for, and that each of its parts behaves  *)
(* in the whole as it does alone.                                          *)
(***************************************************************************)

\* What the requests to end processes leave alone of the process monitor.
MonitorAtRest ==
    /\ listed = [p \in Pids |-> 0] /\ seeded = [p \in Pids |-> 0]
    /\ walk = "new" /\ unread = {} /\ misreads = 0
    /\ current = [p \in Pids |-> Unseen] /\ known = [p \in Pids |-> Unseen]
    /\ told = [p \in Pids |-> <<>>] /\ rows = [p \in Pids |-> <<>>]

Lived == /\ lives \in [Pids -> 0..MaxLives] /\ alive \in [Pids -> 0..MaxLives]
         /\ \A p \in Pids : alive[p] \in {0, lives[p]}

(* Processes come and go within their types. *)
LEMMA LivedStep == ASSUME Lived, NEW p \in Pids, Spawn(p) \/ Exit(p) PROVE Lived'
<1>1. MaxLives \in Nat
  BY ProcessMonitorAssumption
<1>2. CASE Spawn(p)
  BY <1>1, <1>2 DEF Spawn, Lived
<1>3. CASE Exit(p)
  BY <1>1, <1>3 DEF Exit, Lived
<1> QED BY <1>2, <1>3

(* The types of the requests to end processes. *)
LEMMA KillTypesHold == KillSpec => [](ProcessTypeOK /\ KillTypeOK)
<1>1. ProcessInit => MonitorAtRest /\ Lived
  <2> SUFFICES ASSUME ProcessInit PROVE MonitorAtRest /\ Lived
    OBVIOUS
  <2>1. MonitorAtRest
    BY DEF ProcessInit, MonitorAtRest
  <2>2. Lived
    BY ProcessMonitorAssumption DEF ProcessInit, Lived
  <2> QED BY <2>1, <2>2
<1>2. MonitorAtRest /\ Lived /\ [KillNext]_<<processVars, kill>> => (MonitorAtRest /\ Lived)'
  <2> SUFFICES ASSUME MonitorAtRest, Lived, [KillNext]_<<processVars, kill>>
               PROVE  MonitorAtRest' /\ Lived'
    OBVIOUS
  <2>1. UNCHANGED processVars \/ \E p \in Pids : Spawn(p) \/ Exit(p)
    BY DEF KillNext, KillWorld, KillStep, Ask, LogKill, LookUp, Terminate, WaitTimesOut,
           ForceKill, ForceTimesOut, FindGone
  <2>2. UNCHANGED <<walkVars, rows>>
    BY <2>1 DEF processVars, Spawn, Exit
  <2>3. MonitorAtRest'
    BY <2>2 DEF MonitorAtRest, walkVars
  <2>4. CASE UNCHANGED processVars
    BY <2>3, <2>4 DEF Lived, processVars, worldVars
  <2> QED BY <2>1, <2>3, <2>4, LivedStep
<1>3. MonitorAtRest /\ Lived /\ KillInv => ProcessTypeOK /\ KillTypeOK
  <2> SUFFICES ASSUME MonitorAtRest, Lived, KillInv PROVE ProcessTypeOK /\ KillTypeOK
    OBVIOUS
  <2>1. MaxLives \in Nat \ {0} /\ MaxMisreads \in Nat
    BY ProcessMonitorAssumption
  <2>2. {alive, lives, listed, seeded} \subseteq [Pids -> 0..MaxLives]
    BY <2>1 DEF MonitorAtRest, Lived
  <2>3. {current, known} \subseteq [Pids -> Seen]
    BY DEF MonitorAtRest, Seen
  <2>4. told \in [Pids -> Seq([status : {"running", "terminated"}, life : Life])]
    BY DEF MonitorAtRest
  <2>5. rows \in [Pids -> Seq([status : {"running", "terminated"}, life : Life,
                               integrity : 0..MaxLives])]
    BY DEF MonitorAtRest
  <2>6. ProcessTypeOK
    BY <2>1, <2>2, <2>3, <2>4, <2>5 DEF MonitorAtRest, Lived, ProcessTypeOK
  <2>7. ASSUME NEW k \in Kills
        PROVE  /\ kill[k] \in [at : KillStage, pid : Pids, life : 0..MaxLives,
                               hit : SUBSET (Pids \X Life)]
               /\ kill[k].at \in {"found", "terminated", "overdue", "killed", "succeeded"}
                      => kill[k].life # 0
    <3>1. TargetOK(k) /\ KillProgress(k) /\ kill[k] \in KillRequest
      BY DEF KillInv
    <3>2. kill[k].life \in 0..MaxLives /\ kill[k].pid \in Pids
      BY <2>1, <3>1 DEF TargetOK, Lived
    <3>3. kill[k].hit \subseteq Pids \X Life
      <4> SUFFICES ASSUME kill[k].hit # {} PROVE kill[k].hit \subseteq Pids \X Life
        OBVIOUS
      <4>1. kill[k].life \in Life
        BY <2>1, <3>1, <3>2 DEF KillProgress, TargetChecked, Life
      <4>2. <<kill[k].pid, kill[k].life>> \in Pids \X Life
        BY <3>2, <4>1
      <4>3. kill[k].hit \subseteq {<<kill[k].pid, kill[k].life>>}
        BY <3>1 DEF KillProgress
      <4> QED BY <4>2, <4>3
    <3>4. kill[k] = [at |-> kill[k].at, pid |-> kill[k].pid, life |-> kill[k].life,
                     hit |-> kill[k].hit] /\ kill[k].at \in KillStage
      BY <3>1 DEF KillRequest
    <3>5. kill[k] \in [at : KillStage, pid : Pids, life : 0..MaxLives, hit : SUBSET (Pids \X Life)]
      BY <3>2, <3>3, <3>4
    <3> QED BY <3>1, <3>5 DEF KillProgress, TargetChecked
  <2>8. kill \in [Kills -> [at : KillStage, pid : Pids, life : 0..MaxLives,
                            hit : SUBSET (Pids \X Life)]]
    BY <2>7 DEF KillInv
  <2> QED BY <2>6, <2>7, <2>8 DEF KillTypeOK, KillStage
<1>4. KillSpec => [](MonitorAtRest /\ Lived)
  BY <1>1, <1>2, PTL DEF KillSpec
<1> QED BY <1>3, <1>4, KillInvariance, PTL

\* The bounds of the tokens.
TokenBounds ==
    /\ made <= MaxTokens
    /\ issued \subseteq 1..MaxTokens /\ untold \subseteq 1..MaxTokens
    /\ \A c \in Callers : /\ caller[c].candidate <= MaxTokens
                          /\ caller[c].at = "auditing" => 0 < caller[c].mine

(* A request keeps to the bounds. *)
LEMMA TokenBoundsStep ==
    ASSUME TokenInv, TokenBounds, NEW c \in Callers,
           Arrive(c) \/ Verify(c) \/ Handle(c) \/ Truncate(c) \/ Fill(c) \/ Respond(c)
    PROVE  TokenBounds'
<1>1. /\ MaxTokens \in Nat /\ made \in Nat /\ made <= MaxTokens
      /\ caller \in [Callers -> TokenCall] /\ caller[c].mine \in 0..made
      /\ caller[c].candidate \in 0..MaxTokens
      /\ caller[c].at = "writing" => 0 < caller[c].mine
      /\ caller[c].at = "auditing" => 0 < caller[c].mine
  BY TokenStoreAssumption DEF TokenInv, TokenTypes, AllMade, TokenBounds, TokenCall
<1>2. Resting.candidate = 0 /\ Resting.at = "idle"
  BY DEF Resting
<1>3. ASSUME NEW r, caller' = [caller EXCEPT ![c] = r], r.candidate <= MaxTokens,
             r.at = "auditing" => 0 < r.mine, made' <= MaxTokens,
             issued' \subseteq 1..MaxTokens, untold' \subseteq 1..MaxTokens
      PROVE  TokenBounds'
  BY <1>1, <1>3 DEF TokenBounds
<1>4. CASE Arrive(c)
  <2>1. PICK task \in {"use", "rotate"}, candidate \in 1..made :
            caller' = [caller EXCEPT ![c] = [at |-> "arrived", task |-> task,
                          candidate |-> candidate, mine |-> 0, old |-> revoked]]
    BY <1>4 DEF Arrive
  <2> QED BY <1>1, <1>3, <1>4, <2>1 DEF Arrive, TokenBounds
<1>5. CASE Verify(c)
  <2> DEFINE r == IF tokenFile = 0
                    THEN [caller[c] EXCEPT !.at = "creating", !.task = "use", !.old = {}]
                  ELSE IF tokenFile = caller[c].candidate THEN [caller[c] EXCEPT !.at = "admitted"]
                  ELSE Resting
  <2>1. caller' = [caller EXCEPT ![c] = r]
    BY <1>1, <1>5 DEF Verify
  <2>2. r.candidate <= MaxTokens /\ r.at # "auditing"
    BY <1>1, <1>2 DEF TokenCall
  <2> HIDE DEF r
  <2> QED BY <1>3, <1>5, <2>1, <2>2 DEF Verify, TokenBounds
<1>6. CASE Handle(c)
  <2> DEFINE r == IF caller[c].task = "rotate"
                    THEN [caller[c] EXCEPT !.at = "creating", !.old = {caller[c].candidate}]
                    ELSE Resting
  <2>1. caller' = [caller EXCEPT ![c] = r]
    BY <1>1, <1>6 DEF Handle
  <2>2. r.candidate <= MaxTokens /\ r.at # "auditing"
    BY <1>1, <1>2 DEF TokenCall
  <2> HIDE DEF r
  <2> QED BY <1>3, <1>6, <2>1, <2>2 DEF Handle, TokenBounds
<1>7. CASE Truncate(c)
  <2> DEFINE r == [caller[c] EXCEPT !.at = "writing", !.mine = made + 1]
  <2>1. caller' = [caller EXCEPT ![c] = r]
    BY <1>1, <1>7 DEF Truncate
  <2>2. r.candidate <= MaxTokens /\ r.at # "auditing"
    BY <1>1 DEF TokenCall
  <2>3. made' <= MaxTokens
    BY <1>1, <1>7 DEF Truncate
  <2> HIDE DEF r
  <2> QED BY <1>3, <1>7, <2>1, <2>2, <2>3 DEF Truncate, TokenBounds
<1>8. CASE Fill(c)
  <2> DEFINE r == IF caller[c].task = "rotate" THEN [caller[c] EXCEPT !.at = "auditing"]
                                               ELSE Resting
  <2>1. caller' = [caller EXCEPT ![c] = r]
    BY <1>1, <1>8 DEF Fill
  <2>2. r.candidate <= MaxTokens /\ (r.at = "auditing" => 0 < r.mine)
    BY <1>1, <1>2, <1>8 DEF TokenCall, Fill
  <2> HIDE DEF r
  <2> QED BY <1>3, <1>8, <2>1, <2>2 DEF Fill, TokenBounds
<1>9. CASE Respond(c)
  <2>1. caller' = [caller EXCEPT ![c] = Resting] /\ caller[c].mine \in 1..MaxTokens
    BY <1>1, <1>9 DEF Respond
  <2>2. Resting.candidate <= MaxTokens /\ Resting.at # "auditing"
    BY <1>1, <1>2
  <2>3. issued' \subseteq 1..MaxTokens /\ untold' \subseteq 1..MaxTokens
    BY <1>9, <2>1 DEF Respond, TokenBounds
  <2> QED BY <1>3, <1>9, <2>1, <2>2, <2>3 DEF Respond, TokenBounds
<1> QED BY <1>4, <1>5, <1>6, <1>7, <1>8, <1>9

(* The types of the token store. *)
LEMMA TokenTypesHold == TokenSpec => []TokenTypeOK
<1>1. TokenInit => TokenBounds
  BY TokenStoreAssumption DEF TokenInit, TokenBounds, Resting
<1>2. TokenInv /\ TokenBounds /\ [TokenNext]_tokenVars => TokenBounds'
  <2> SUFFICES ASSUME TokenInv, TokenBounds, [TokenNext]_tokenVars PROVE TokenBounds'
    OBVIOUS
  <2>1. CASE Restart
    <3>1. made' <= MaxTokens
      BY <2>1, TokenStoreAssumption DEF Restart, TokenBounds, TokenInv, TokenTypes
    <3>2. \A c \in Callers : caller'[c] = Resting
      BY <2>1 DEF Restart
    <3>3. Resting.candidate <= MaxTokens /\ Resting.at # "auditing"
      BY TokenStoreAssumption DEF Resting
    <3> QED BY <2>1, <3>1, <3>2, <3>3 DEF Restart, TokenBounds
  <2>2. CASE UNCHANGED tokenVars
    BY <2>2 DEF tokenVars, TokenBounds
  <2> QED BY <2>1, <2>2, TokenBoundsStep DEF TokenNext
<1>3. TokenInv /\ TokenBounds => TokenTypeOK
  <2> SUFFICES ASSUME TokenInv, TokenBounds PROVE TokenTypeOK
    OBVIOUS
  <2>1. MaxTokens \in Nat /\ TokenTypes /\ AllMade /\ made \in 0..MaxTokens
    BY TokenStoreAssumption DEF TokenInv, TokenTypes, TokenBounds
  <2>2. {tokenFile, made} \subseteq 0..MaxTokens
    BY <2>1 DEF TokenTypes, AllMade
  <2>3. revoked \subseteq 1..MaxTokens
    BY <2>1 DEF TokenTypes, AllMade
  <2>4. {revoked, issued, untold} \subseteq SUBSET (1..MaxTokens)
    BY <2>3 DEF TokenBounds
  <2>5. ASSUME NEW c \in Callers
        PROVE  caller[c] \in [at : TokenSteps, task : {"use", "rotate"}, candidate : 0..MaxTokens,
                              mine : 0..MaxTokens, old : SUBSET (1..MaxTokens)]
    <3>1. caller[c] \in TokenCall
      BY <2>1 DEF TokenTypes
    <3>2. caller[c].candidate \in 0..MaxTokens /\ caller[c].mine \in 0..MaxTokens
      BY <2>1, <3>1 DEF TokenCall, TokenBounds, AllMade
    <3>3. caller[c].old \subseteq 1..MaxTokens
      <4> SUFFICES ASSUME NEW t \in caller[c].old PROVE t \in 1..MaxTokens
        OBVIOUS
      <4>1. t \in Nat
        BY <3>1 DEF TokenCall
      <4> QED BY <2>1, <4>1 DEF AllMade
    <3> QED BY <3>1, <3>2, <3>3 DEF TokenCall
  <2>6. caller \in [Callers -> [at : TokenSteps, task : {"use", "rotate"},
            candidate : 0..MaxTokens, mine : 0..MaxTokens, old : SUBSET (1..MaxTokens)]]
    BY <2>1, <2>5 DEF TokenTypes
  <2>7. collided \in BOOLEAN
    BY <2>1 DEF TokenTypes
  <2> QED BY <2>2, <2>4, <2>6, <2>7 DEF TokenTypeOK, TokenSteps
<1>4. TokenSpec => []TokenBounds
  <2>1. TokenSpec => TokenInit /\ [][TokenNext]_tokenVars
    BY DEF TokenSpec
  <2> QED BY <1>1, <1>2, <2>1, TokenInvariance, PTL
<1> QED BY <1>3, <1>4, TokenInvariance, PTL

(***************************************************************************)
(* The whole is its four parts: what is proved of each holds of the whole. *)
(***************************************************************************)
LEMMA PartsOfRequests == Spec => KillSpec /\ QuarantineSpec /\ TokenSpec /\ NavigationSpec
<1>1. Init => ProcessInit /\ KillInit /\ QuarantineInit /\ TokenInit /\ NavigationInit
  BY DEF Init
<1>2. [Next]_vars => /\ [KillNext]_<<processVars, kill>>
                     /\ [QuarantineNext]_quarantineVars
                     /\ [TokenNext]_tokenVars
                     /\ [NavigationNext]_navigationVars
  BY DEF Next, vars, KillPart, FilePart, TokenPart, NavigationPart
<1> QED BY <1>1, <1>2, PTL DEF Spec, KillSpec, QuarantineSpec, TokenSpec, NavigationSpec

(* The types of all that is asked for (TypeOK of each part, in the whole). *)
THEOREM RequestsTypesHold == Spec => []RequestsTypeOK
<1>1. NavigationInv => NavigationTypeOK
  BY DEF NavigationInv
<1>2. ProcessTypeOK /\ KillTypeOK /\ QuarantineTypeOK /\ TokenTypeOK /\ NavigationTypeOK
          => RequestsTypeOK
  BY DEF RequestsTypeOK
<1> QED BY <1>1, <1>2, PartsOfRequests, KillTypesHold, QuarantineTypesHold, TokenTypesHold,
           NavigationInvariance, PTL

(***************************************************************************)
(* What is proved of each part, of the whole that the run checks.          *)
(***************************************************************************)
THEOREM RequestsAreSafe ==
    Spec => [](KillEndsItsTarget /\ NothingVanishes /\ FilesMatchItems /\ RecordsCatchUp
                 /\ RotationHolds /\ BlockedIsLeft)
BY PartsOfRequests, TargetEnds, NoContentLost, RowsMatchFiles, RowsCatchUp, ReplacedIsRefused,
   BlockedPagesAreLeft, PTL
=============================================================================
