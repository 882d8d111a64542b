------------------------------- MODULE TokenStore -------------------------------
(***************************************************************************)
(* The agent's token: one file, read again at every request and rewritten  *)
(* by a rotation, while other requests are verified in other threads.      *)
(*                                                                         *)
(* Tokens are numbers, each one new.  write_text empties the file and then *)
(* fills it: a request that reads it in between takes it for one that has  *)
(* never been written, and makes a token of its own.                       *)
(***************************************************************************)
EXTENDS Naturals

CONSTANTS
    Callers,    \* pool threads
    MaxTokens   \* bound: tokens made

ASSUME TokenStoreAssumption == MaxTokens \in Nat \ {0}

VARIABLES
    tokenFile,  \* the token in the file, 0 when it is missing or empty
    made,       \* tokens made so far
    revoked,    \* history: tokens that a finished rotation replaced
    issued,     \* history: tokens that were handed out
    untold,     \* history: tokens of rotations that could not be recorded
    collided,   \* history: a request read the file during a rewrite, or two rewrote it
    caller      \* by thread: where it is in its request

tokenVars == <<tokenFile, made, revoked, issued, untold, collided, caller>>

TokenTypeOK ==
    /\ {tokenFile, made} \subseteq 0..MaxTokens
    /\ {revoked, issued, untold} \subseteq SUBSET (1..MaxTokens) /\ collided \in BOOLEAN
    /\ caller \in [Callers ->
           [at : {"idle", "arrived", "admitted", "creating", "writing", "auditing"},
            task : {"use", "rotate"}, candidate : 0..MaxTokens, mine : 0..MaxTokens,
            old : SUBSET (1..MaxTokens)]]

Resting == [at |-> "idle", task |-> "use", candidate |-> 0, mine |-> 0, old |-> {}]

\* create_app: load_or_create has made the first token.
TokenInit ==
    /\ tokenFile = 1 /\ made = 1 /\ issued = {1}
    /\ revoked = {} /\ untold = {} /\ collided = FALSE
    /\ caller = [c \in Callers |-> Resting]

Rewriting(c) == caller[c].at \in {"creating", "writing"}

Collision(c) == collided' = (collided \/ \E d \in Callers \ {c} : Rewriting(d))
-----------------------------------------------------------------------------
\* A request presents any token there ever was; old is what was revoked by then.
Arrive(c) ==
    /\ caller[c].at = "idle"
    /\ \E task \in {"use", "rotate"}, candidate \in 1..made :
           caller' = [caller EXCEPT ![c] = [at |-> "arrived", task |-> task,
                          candidate |-> candidate, mine |-> 0, old |-> revoked]]
    /\ UNCHANGED <<tokenFile, made, revoked, issued, untold, collided>>

\* Fault: the agent compares with the token it loaded when it started.
VerifyCached(c) ==
    /\ caller[c].at = "arrived"
    /\ caller' = [caller EXCEPT ![c] =
          IF @.candidate = 1 THEN [@ EXCEPT !.at = "admitted"] ELSE Resting]
    /\ Collision(c)
    /\ UNCHANGED <<tokenFile, made, revoked, issued, untold>>

\* verify: an empty file makes load_or_create store a new token, to which
\* no candidate is equal.
Verify(c) ==
    /\ caller[c].at = "arrived"
    /\ caller' = [caller EXCEPT ![c] =
          IF tokenFile = 0 THEN [@ EXCEPT !.at = "creating", !.task = "use", !.old = {}]
          ELSE IF tokenFile = @.candidate THEN [@ EXCEPT !.at = "admitted"]
          ELSE Resting]
    /\ Collision(c)
    /\ UNCHANGED <<tokenFile, made, revoked, issued, untold>>

\* The handler runs; that of rotate_token makes a token, and the token that
\* let it in is the one it replaces.
Handle(c) ==
    /\ caller[c].at = "admitted"
    /\ caller' = [caller EXCEPT ![c] =
          IF @.task = "rotate" THEN [@ EXCEPT !.at = "creating", !.old = {caller[c].candidate}] ELSE Resting]
    /\ UNCHANGED <<tokenFile, made, revoked, issued, untold, collided>>

\* _generate_and_store: open(.., "w") has emptied the file ...
Truncate(c) ==
    /\ caller[c].at = "creating" /\ made < MaxTokens
    /\ made' = made + 1
    /\ tokenFile' = 0
    /\ caller' = [caller EXCEPT ![c].at = "writing", ![c].mine = made + 1]
    /\ Collision(c)
    /\ UNCHANGED <<revoked, issued, untold>>

\* ... and the token is in it.
Fill(c) ==
    /\ caller[c].at = "writing"
    /\ tokenFile' = caller[c].mine
    /\ IF caller[c].task = "rotate"
         THEN /\ revoked' = revoked \cup caller[c].old
              /\ caller' = [caller EXCEPT ![c].at = "auditing"]
         ELSE /\ caller' = [caller EXCEPT ![c] = Resting]
              /\ UNCHANGED revoked
    /\ UNCHANGED <<made, issued, untold, collided>>

\* log_admin_action commits, and the response hands the token out; or it
\* raises, and nobody is told.
Respond(c) ==
    /\ caller[c].at = "auditing"
    /\ \/ issued' = issued \cup {caller[c].mine} /\ UNCHANGED untold
       \/ untold' = untold \cup {caller[c].mine} /\ UNCHANGED issued
    /\ caller' = [caller EXCEPT ![c] = Resting]
    /\ UNCHANGED <<tokenFile, made, revoked, collided>>

\* The process ends within a request, and is started again: the file may be
\* empty, and load_or_create makes a token that is handed out to nobody.
Restart ==
    /\ tokenFile # 0 \/ made < MaxTokens
    /\ \E c \in Callers : Rewriting(c)
    /\ caller' = [c \in Callers |-> Resting]
    /\ IF tokenFile = 0
         THEN tokenFile' = made + 1 /\ made' = made + 1
         ELSE UNCHANGED <<tokenFile, made>>
    /\ collided' = TRUE
    /\ UNCHANGED <<revoked, issued, untold>>
-----------------------------------------------------------------------------
TokenNext ==
    \/ \E c \in Callers :
           Arrive(c) \/ Verify(c) \/ Handle(c) \/ Truncate(c) \/ Fill(c) \/ Respond(c)
    \/ Restart

TokenSpec == TokenInit /\ [][TokenNext]_tokenVars
-----------------------------------------------------------------------------
(* Properties *)

(***************************************************************************)
(* A token that a rotation has replaced is never accepted again by a       *)
(* request that comes after it, whatever rewrites overlap and wherever the *)
(* process ends; when all requests are over the file holds a token; and    *)
(* unless requests met in the middle of a rewrite it is the newest one     *)
(* handed out, or one whose rotation failed to be recorded (TokenStore of  *)
(* api/security.py).                                                       *)
(***************************************************************************)
RotationHolds ==
    /\ \A c \in Callers : caller[c].at = "admitted" => caller[c].candidate \notin caller[c].old
    /\ (\A c \in Callers : caller[c].at = "idle") =>
           /\ tokenFile # 0
           /\ ~collided => /\ tokenFile \in issued \cup untold
                          /\ \A t \in issued : t <= tokenFile
=============================================================================
