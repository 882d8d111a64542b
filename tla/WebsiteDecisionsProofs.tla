------------------------ MODULE WebsiteDecisionsProofs ------------------------
(***************************************************************************)
(* For every number of concurrent requests and every length of time: a     *)
(* domain the user blocked for good is answered "block" until the user     *)
(* rules on it again, and no temporary permission outlives its hour.  And  *)
(* while no two requests overlap, every lasting ruling is final.           *)
(***************************************************************************)
EXTENDS WebsiteDecisions, FiniteSetTheorems, TLAPS

Checking(r) == request[r].pc \in {"blocklist", "allowlist", "purge", "record"}

\* Where a thread is tells what it serves.
Paths ==
    \A r \in Requests :
        /\ At(r, "idle") => Kind(r) = "none"
        /\ Checking(r) => Kind(r) \in {"check", "lookup"}
        /\ request[r].pc \in {"lift", "find", "store"} => Ruler(r)
        /\ At(r, "audit") => Ruler(r) \/ Kind(r) = "block"
        /\ At(r, "record") => request[r].expires \in 0..MaxTime

\* A ruling that is clear is the only one under way; while somebody can be held
\* to a ruling, none is.
Exclusion ==
    /\ \A r, s \in Requests : Ruler(r) /\ request[r].clear /\ Ruler(s) => s = r
    /\ ruling # None => Quiet
    /\ \A r \in Requests : Checking(r) /\ request[r].clear => Quiet

InForce == ruling # None /\ ruling.kind = "always_block"

\* While an always_block is in force the domain is on the blocklist, and no
\* check that can be held to it has got past the blocklist.
BlockInForce ==
    /\ InForce => blocked
    /\ \A r \in Requests :
          Kind(r) = "always_block" /\ request[r].clear /\ At(r, "audit") => blocked
    /\ \A r \in Requests :
          request[r].clear /\ InForce /\ Checking(r) =>
              \/ At(r, "blocklist")
              \/ At(r, "record") /\ request[r].action = "block"
    /\ BlockIsFinal

Lasting(expires) == expires # Never => expires <= lastOnce + AllowOnceDuration

\* No expiry, stored or about to be, is later than the latest Allow Once gives.
Expiries ==
    /\ lastOnce <= now
    /\ \A a \in allow : Lasting(a.expires)
    /\ \A r \in Requests :
          /\ request[r].pc \in {"lift", "find"} => request[r].expires = Never
          /\ At(r, "store") => Lasting(request[r].expires)
          /\ At(r, "record") /\ request[r].action = "allow_once" => Lasting(request[r].expires)
    /\ OnceEnds

IInv == TypeOK /\ Paths /\ Exclusion /\ BlockInForce /\ Expiries

\* A thread at rest is of the right type.
LEMMA IdleType == Idle \in Thread
  BY DEF Idle, Thread, Kinds, Actions, Expiry

\* Nothing is ruled, asked or answered at first.
LEMMA Initially == Init => IInv
<1> SUFFICES ASSUME Init PROVE IInv
  OBVIOUS
<1>1. TypeOK
  <2>1. 0 \in 0..MaxTime
    BY WebsiteDecisionsAssumption
  <2>2. answer \in [action : Actions, at : 0..MaxTime, ruling : Ruling \cup {None}]
    BY <2>1 DEF Init, Actions
  <2>3. request \in [Requests -> Thread]
    BY IdleType DEF Init
  <2> QED BY <2>1, <2>2, <2>3 DEF Init, TypeOK
<1>2. \A r \in Requests : request[r] = Idle
  BY DEF Init
<1>3. Paths /\ Exclusion /\ BlockInForce /\ Expiries
  BY <1>2, WebsiteDecisionsAssumption
     DEF Init, Idle, At, Kind, Ruler, Checking, Paths, Exclusion, Quiet, BlockInForce, InForce,
         BlockIsFinal, Holds, Expiries, OnceEnds, Rulings
<1> QED BY <1>1, <1>3 DEF IInv

\* Thread r goes on as t, and no other thread moves.
Moves(r, t) ==
    /\ t \in Thread
    /\ request' = [request EXCEPT ![r] = t]

PCs == {"idle", "lift", "find", "store", "audit", "blocklist", "allowlist", "purge", "record"}

\* What each way of writing request does to a thread of the right type.
LEMMA GotoMoves ==
    ASSUME TypeOK, NEW r \in Requests, NEW pc \in PCs, Goto(r, pc)
    PROVE  Moves(r, [request[r] EXCEPT !.pc = pc])
  BY DEF TypeOK, Thread, Goto, Moves, PCs

\* ... to rest,
LEMMA EndMoves ==
    ASSUME TypeOK, NEW r \in Requests, End(r)
    PROVE  Moves(r, Idle)
  BY IdleType DEF End, Moves

\* A decided check waits for its commit, a lookup answers.
LEMMA DecidedMoves ==
    ASSUME TypeOK, NEW r \in Requests, NEW action \in Actions, Decided(r, action)
    PROVE  \/ /\ Kind(r) = "lookup"
              /\ Moves(r, Idle)
              /\ answer' = [action |-> action, at |-> now,
                            ruling |-> IF request[r].clear THEN ruling ELSE None]
           \/ /\ Kind(r) # "lookup"
              /\ Moves(r, [request[r] EXCEPT !.pc = "record", !.action = action, !.expires = now])
              /\ UNCHANGED answer
<1>1. CASE Kind(r) = "lookup"
  BY <1>1, EndMoves DEF Decided
<1>2. CASE Kind(r) # "lookup"
  <2>1. now \in Expiry
    BY WebsiteDecisionsAssumption DEF TypeOK, Expiry
  <2> request[r] \in Thread
    BY DEF TypeOK
  <2>2. [request[r] EXCEPT !.pc = "record", !.action = action, !.expires = now] \in Thread
    BY <2>1 DEF Thread
  <2>3. request' = [request EXCEPT ![r] =
                       [request[r] EXCEPT !.pc = "record", !.action = action, !.expires = now]]
    BY <1>2 DEF Decided, TypeOK
  <2> QED BY <1>2, <2>2, <2>3 DEF Decided, Moves
<1> QED BY <1>1, <1>2

\* What every action does, said once: how its thread moves, and the rest of the
\* state as far as the invariant is about it.
LEMMA BlockVisitEffect ==
    ASSUME TypeOK, NEW r \in Requests, BlockVisit(r)
    PROVE  /\ At(r, "idle")
           /\ Moves(r, [request[r] EXCEPT !.kind = "block", !.pc = "audit"])
           /\ UNCHANGED <<now, allow, blocked, ruling, answer, lastOnce>>
           /\ overlapped' \in BOOLEAN
<1>1. request[r] \in Thread
  BY DEF TypeOK
<1>2. [request[r] EXCEPT !.kind = "block", !.pc = "audit"] \in Thread
  BY <1>1 DEF Thread, Kinds
<1>3. At(r, "idle") /\ overlapped' \in BOOLEAN
  BY DEF BlockVisit, Arrives
<1>4. request' = [request EXCEPT ![r] = [request[r] EXCEPT !.kind = "block", !.pc = "audit"]]
  BY DEF BlockVisit, TypeOK
<1> QED BY <1>2, <1>3, <1>4 DEF BlockVisit, Moves, lists

\* Find leaves what it saw, and the expiry of a temporary permission.
LEMMA FindEffect ==
    ASSUME TypeOK, NEW r \in Requests, Find(r)
    PROVE  /\ At(r, "find")
           /\ UNCHANGED <<now, allow, blocked, ruling, answer, overlapped>>
           /\ \E t \in Thread :
                 /\ Moves(r, t)
                 /\ t.kind = Kind(r) /\ t.clear = request[r].clear
                 /\ t.pc = "store" \/ (t.pc = "audit" /\ blocked)
                 /\ \/ t.expires = request[r].expires /\ UNCHANGED lastOnce
                    \/ t.expires = now + AllowOnceDuration /\ lastOnce' = now
<1>1. At(r, "find") /\ UNCHANGED <<now, allow, blocked, ruling, answer, overlapped>>
  BY DEF Find, lists
<1>2. request[r] \in Thread
  BY DEF TypeOK
<1>3. Found \subseteq Row \cup {None}
  BY DEF Found, TypeOK
<1>4. CASE Kind(r) = "allow_once"
  <2>1. PICK row \in Found : request' = [request EXCEPT ![r].pc = "store", ![r].seen = row,
                                                 ![r].expires = now + AllowOnceDuration]
    BY <1>4 DEF Find
  <2> DEFINE t == [request[r] EXCEPT !.pc = "store", !.seen = row,
                                     !.expires = now + AllowOnceDuration]
  <2>2. now + AllowOnceDuration \in Expiry
    BY WebsiteDecisionsAssumption DEF TypeOK, Expiry
  <2>3. t \in Thread
    BY <1>2, <1>3, <2>2 DEF Thread
  <2>4. request' = [request EXCEPT ![r] = t]
    BY <2>1 DEF TypeOK
  <2>5. /\ t.kind = Kind(r) /\ t.clear = request[r].clear /\ t.pc = "store"
        /\ t.expires = now + AllowOnceDuration
    BY <1>2 DEF Thread, Kind
  <2>6. lastOnce' = now
    BY <1>4 DEF Find
  <2> QED BY <1>1, <2>3, <2>4, <2>5, <2>6 DEF Moves
<1>5. CASE Kind(r) = "always_allow"
  <2>1. PICK row \in Found : request' = [request EXCEPT ![r].pc = "store", ![r].seen = row]
    BY <1>5 DEF Find
  <2> DEFINE t == [request[r] EXCEPT !.pc = "store", !.seen = row]
  <2>2. t \in Thread
    BY <1>2, <1>3 DEF Thread
  <2>3. request' = [request EXCEPT ![r] = t]
    BY <2>1 DEF TypeOK
  <2>4. /\ t.kind = Kind(r) /\ t.clear = request[r].clear /\ t.pc = "store"
        /\ t.expires = request[r].expires
    BY <1>2 DEF Thread, Kind
  <2>5. UNCHANGED lastOnce
    BY <1>5 DEF Find
  <2> QED BY <1>1, <2>2, <2>3, <2>4, <2>5 DEF Moves
<1>6. CASE Kind(r) = "always_block"
  <2>1. PICK pc \in {"audit", "store"} : Goto(r, pc) /\ (pc = "audit" => blocked)
    BY <1>6 DEF Find
  <2> DEFINE t == [request[r] EXCEPT !.pc = pc]
  <2>2. Moves(r, t)
    BY <2>1, GotoMoves DEF PCs
  <2>3. t.kind = Kind(r) /\ t.clear = request[r].clear /\ t.pc = pc /\ t.expires = request[r].expires
    BY <1>2 DEF Thread, Kind
  <2>4. UNCHANGED lastOnce
    BY <1>6 DEF Find
  <2> QED BY <1>1, <2>1, <2>2, <2>3, <2>4 DEF Moves
<1> QED BY <1>4, <1>5, <1>6 DEF Find

\* A check: it moves on, waits for its commit or answers.
LEMMA CheckEffect ==
    ASSUME TypeOK, NEW r \in Requests,
           ReadBlocklist(r) \/ ReadAllowlist(r) \/ Purge(r)
    PROVE  /\ request[r].pc \in {"blocklist", "allowlist", "purge"}
           /\ UNCHANGED <<now, blocked, ruling, lastOnce, overlapped>>
           /\ allow' \in SUBSET allow
           /\ \/ \E t \in Thread :
                    /\ Moves(r, t) /\ UNCHANGED answer
                    /\ t.kind = Kind(r) /\ t.clear = request[r].clear
                    /\ t.pc \in {"allowlist", "purge"}
                    /\ At(r, "blocklist") => ~blocked
              \/ \E action \in Actions :
                    /\ Decided(r, action)
                    /\ At(r, "blocklist") => blocked /\ action = "block"
                    /\ action = "allow_once" =>
                         \E a \in allow : a.expires # Never /\ a.expires >= now
<1>1. request[r] \in Thread
  BY DEF TypeOK
<1>2. CASE ReadBlocklist(r)
  <2>1. CASE blocked
    BY <1>2, <2>1 DEF ReadBlocklist, At, lists, Actions
  <2>2. CASE ~blocked
    <3>1. Moves(r, [request[r] EXCEPT !.pc = "allowlist"])
      BY <1>2, <2>2, GotoMoves DEF ReadBlocklist, PCs
    <3>2. PICK t \in Thread : t = [request[r] EXCEPT !.pc = "allowlist"]
      BY <3>1 DEF Moves
    <3>3. t.kind = Kind(r) /\ t.clear = request[r].clear /\ t.pc = "allowlist"
      BY <1>1, <3>2 DEF Kind, Thread
    <3>4. UNCHANGED answer
      BY <1>2, <2>2 DEF ReadBlocklist
    <3> QED BY <1>2, <2>2, <3>1, <3>2, <3>3, <3>4 DEF ReadBlocklist, At, lists
  <2> QED BY <2>1, <2>2
<1>3. CASE ReadAllowlist(r)
  <2>1. PICK row \in Found :
          \/ row = None /\ \E action \in Heuristics : Decided(r, action)
          \/ row # None /\ row.expires = Never /\ Decided(r, "allow")
          \/ /\ row # None /\ row.expires # Never /\ row.expires >= now
             /\ Decided(r, "allow_once")
          \/ /\ row # None /\ row.expires # Never /\ row.expires < now
             /\ request' = [request EXCEPT ![r].pc = "purge", ![r].seen = row]
             /\ UNCHANGED answer
    BY <1>3 DEF ReadAllowlist
  <2>2. row \in Row \cup {None} /\ (row # None => row \in allow)
    BY <2>1 DEF Found, TypeOK
  <2>3. Heuristics \subseteq Actions /\ "allow_once" \notin Heuristics
    BY DEF Actions, Heuristics
  <2>4. CASE row = None /\ \E action \in Heuristics : Decided(r, action)
    BY <1>3, <2>3, <2>4 DEF ReadAllowlist, At, lists
  <2>5. CASE row # None /\ row.expires = Never /\ Decided(r, "allow")
    BY <1>3, <2>5 DEF ReadAllowlist, At, lists, Actions
  <2>6. CASE row # None /\ row.expires # Never /\ row.expires >= now /\ Decided(r, "allow_once")
    BY <1>3, <2>2, <2>6 DEF ReadAllowlist, At, lists, Actions
  <2>7. CASE /\ request' = [request EXCEPT ![r].pc = "purge", ![r].seen = row]
             /\ UNCHANGED answer
    <3>1. [request[r] EXCEPT !.pc = "purge", !.seen = row] \in Thread
      BY <1>1, <2>2 DEF Thread
    <3>2. request' = [request EXCEPT ![r] = [request[r] EXCEPT !.pc = "purge", !.seen = row]]
      BY <2>7 DEF TypeOK
    <3>3. PICK t \in Thread : t = [request[r] EXCEPT !.pc = "purge", !.seen = row]
      BY <3>1
    <3>4. t.kind = Kind(r) /\ t.clear = request[r].clear /\ t.pc = "purge"
      BY <1>1, <3>3 DEF Kind, Thread
    <3> QED BY <1>3, <2>7, <3>2, <3>3, <3>4 DEF ReadAllowlist, At, lists, Moves
  <2> QED BY <2>1, <2>4, <2>5, <2>6, <2>7
<1>4. CASE Purge(r)
  <2>1. Heuristics \subseteq Actions /\ "allow_once" \notin Heuristics
    BY DEF Actions, Heuristics
  <2> QED BY <1>4, <2>1 DEF Purge, At
<1> QED BY <1>2, <1>3, <1>4

\* What a thread's record must satisfy by itself.
Path(t) ==
    /\ t.pc = "idle" => t.kind = "none"
    /\ t.pc \in {"blocklist", "allowlist", "purge", "record"} => t.kind \in {"check", "lookup"}
    /\ t.pc \in {"lift", "find", "store"} => t.kind \in Rulings
    /\ t.pc = "audit" => t.kind \in Rulings \cup {"block"}
    /\ t.pc = "record" => t.expires \in 0..MaxTime

\* A record that keeps to its path keeps all threads to theirs.
LEMMA MovedPaths ==
    ASSUME TypeOK, Paths, NEW r \in Requests, NEW t, Moves(r, t), Path(t)
    PROVE  request' \in [Requests -> Thread] /\ Paths'
  BY DEF TypeOK, Paths, Moves, Path, At, Kind, Ruler, Checking

\* A thread that keeps its kind and its mark, or comes to rest, takes nothing
\* from what the others may rely on.
LEMMA MovedExclusion ==
    ASSUME TypeOK, Paths, Exclusion, NEW r \in Requests, NEW t, Moves(r, t), Path(t),
           UNCHANGED ruling,
           \/ /\ t.kind = Kind(r) /\ t.clear = request[r].clear
              /\ t.pc \in {"blocklist", "allowlist", "purge", "record"} => Checking(r)
           \/ t.kind \notin Rulings /\ (t.clear => t.pc \in {"idle", "audit"} \/ Quiet)
    PROVE  Exclusion'
<1>1. \A s \in Requests : request'[s] = IF s = r THEN t ELSE request[s]
  BY DEF TypeOK, Moves
<1>2. \A s \in Requests : Ruler(s)' => Ruler(s)
  BY <1>1 DEF Ruler, Kind
<1>3. Quiet => Quiet'
  BY <1>2 DEF Quiet
<1>4. \A s \in Requests : Ruler(s)' /\ request'[s].clear => Ruler(s) /\ request[s].clear
  BY <1>1, <1>2 DEF Ruler, Kind
<1>5. \A s \in Requests : Checking(s)' /\ request'[s].clear => Quiet
  BY <1>1 DEF Checking, Exclusion
<1> QED BY <1>2, <1>3, <1>4, <1>5 DEF Exclusion

\* Time only passes.
LEMMA TickKeeps == ASSUME IInv, Tick PROVE IInv'
<1>1. now' \in 0..MaxTime /\ now <= now'
  BY WebsiteDecisionsAssumption DEF IInv, TypeOK, Tick
<1>2. /\ UNCHANGED <<allow, blocked, request, ruling, answer, lastOnce, overlapped>>
      /\ TypeOK /\ Paths /\ Exclusion /\ BlockInForce /\ Expiries
  BY DEF IInv, Tick, lists, histories
<1>3. TypeOK'
  BY <1>1, <1>2 DEF TypeOK
<1>4. Paths' /\ Exclusion' /\ BlockInForce'
  BY <1>2 DEF Paths, Exclusion, BlockInForce, At, Kind, Ruler, Checking, Quiet, InForce,
              BlockIsFinal, Holds
<1>5. lastOnce <= now /\ lastOnce \in Int /\ now \in Int /\ now' \in Int
  BY <1>1, <1>2, WebsiteDecisionsAssumption DEF TypeOK, Expiries
<1>6. Expiries'
  BY <1>1, <1>2, <1>5 DEF Expiries, Lasting, At, OnceEnds
<1> QED BY <1>3, <1>4, <1>6 DEF IInv

\* A thread that does not rule on the domain, and takes nothing from the lists,
\* leaves what holds of the others as it is.
LEMMA BlockVisitKeeps ==
    ASSUME IInv, NEW r \in Requests, BlockVisit(r)
    PROVE  IInv'
<1> DEFINE t == [request[r] EXCEPT !.kind = "block", !.pc = "audit"]
<1>1. /\ TypeOK /\ Paths /\ Exclusion /\ BlockInForce /\ Expiries
      /\ Moves(r, t) /\ UNCHANGED <<now, allow, blocked, ruling, answer, lastOnce>>
      /\ overlapped' \in BOOLEAN
  BY BlockVisitEffect DEF IInv
<1>2. t.kind = "block" /\ t.pc = "audit"
  BY <1>1 DEF TypeOK, Thread
<1> HIDE DEF t
<1>3. Path(t) /\ t.kind \notin Rulings
  BY <1>2 DEF Path, Rulings
<1>4. request' \in [Requests -> Thread] /\ Paths'
  BY <1>1, <1>3, MovedPaths
<1>5. Exclusion'
  BY <1>1, <1>2, <1>3, MovedExclusion
<1>6. TypeOK'
  BY <1>1, <1>4 DEF TypeOK
<1>7. \A s \in Requests : request'[s] = IF s = r THEN t ELSE request[s]
  BY <1>1 DEF TypeOK, Moves
<1>8. BlockInForce'
  BY <1>1, <1>2, <1>7 DEF BlockInForce, InForce, BlockIsFinal, Holds, At, Kind, Checking
<1>9. Expiries'
  BY <1>1, <1>2, <1>7 DEF Expiries, Lasting, At, OnceEnds
<1> QED BY <1>4, <1>5, <1>6, <1>8, <1>9 DEF IInv

\* A check is clear if no ruling is under way.
LEMMA BeginCheckKeeps ==
    ASSUME IInv, NEW r \in Requests, BeginCheck(r)
    PROVE  IInv'
<1>1. PICK kind \in {"check", "lookup"} :
          request' = [request EXCEPT ![r].kind = kind, ![r].pc = "blocklist", ![r].clear = Quiet]
  BY DEF BeginCheck
<1> DEFINE t == [request[r] EXCEPT !.kind = kind, !.pc = "blocklist", !.clear = Quiet]
<1>2. /\ TypeOK /\ Paths /\ Exclusion /\ BlockInForce /\ Expiries
      /\ UNCHANGED <<now, allow, blocked, ruling, answer, lastOnce>> /\ overlapped' \in BOOLEAN
  BY DEF IInv, BeginCheck, Arrives, TypeOK, lists
<1>3. Quiet \in BOOLEAN
  BY DEF Quiet
<1>4. request[r] \in Thread /\ kind \in Kinds
  BY <1>2 DEF TypeOK, Kinds
<1>5. t \in Thread /\ t.kind = kind /\ t.pc = "blocklist" /\ t.clear = Quiet
  BY <1>3, <1>4 DEF Thread
<1>6. Moves(r, t)
  BY <1>1, <1>2, <1>5 DEF Moves, TypeOK
<1> HIDE DEF t
<1>7. Path(t) /\ t.kind \notin Rulings
  BY <1>5 DEF Path, Rulings
<1>8. request' \in [Requests -> Thread] /\ Paths'
  BY <1>2, <1>6, <1>7, MovedPaths
<1>9. Exclusion'
  BY <1>2, <1>5, <1>6, <1>7, MovedExclusion
<1>10. TypeOK'
  BY <1>2, <1>8 DEF TypeOK
<1>11. \A s \in Requests : request'[s] = IF s = r THEN t ELSE request[s]
  BY <1>2, <1>6 DEF TypeOK, Moves
<1>12. BlockInForce'
  BY <1>2, <1>5, <1>11 DEF BlockInForce, InForce, BlockIsFinal, Holds, At, Kind, Checking
<1>13. Expiries'
  BY <1>2, <1>5, <1>11 DEF Expiries, Lasting, At, OnceEnds
<1> QED BY <1>8, <1>9, <1>10, <1>12, <1>13 DEF IInv

\* A new ruling leaves nobody held to the earlier one.
LEMMA BeginRulingKeeps ==
    ASSUME IInv, NEW r \in Requests, BeginRuling(r)
    PROVE  IInv'
<1>1. PICK kind \in Rulings :
          request' = [s \in Requests |->
              IF s = r
              THEN [Idle EXCEPT !.kind = kind, !.clear = Quiet,
                                !.pc = IF kind = "allow_once" THEN "find" ELSE "lift"]
              ELSE [request[s] EXCEPT !.clear = FALSE]]
  BY DEF BeginRuling
<1> DEFINE t == [Idle EXCEPT !.kind = kind, !.clear = Quiet,
                             !.pc = IF kind = "allow_once" THEN "find" ELSE "lift"]
<1>2. /\ TypeOK /\ Paths /\ Exclusion /\ BlockInForce /\ Expiries
      /\ ruling' = None /\ UNCHANGED <<now, allow, blocked, answer, lastOnce>>
      /\ overlapped' \in BOOLEAN
  BY DEF IInv, BeginRuling, Arrives, TypeOK, lists
<1>3. /\ t \in Thread /\ t.kind = kind /\ t.pc \in {"lift", "find"} /\ t.clear = Quiet
      /\ t.expires = Never
  <2>1. Quiet \in BOOLEAN /\ kind \in Kinds
    BY DEF Quiet, Kinds
  <2> QED BY <2>1, IdleType DEF Idle, Thread
<1>4. /\ request'[r] = t
      /\ \A s \in Requests \ {r} : request'[s] = [request[s] EXCEPT !.clear = FALSE]
  BY <1>1
<1> HIDE DEF t
<1>5. \A s \in Requests \ {r} :
         /\ request'[s] \in Thread /\ request'[s].clear = FALSE
         /\ request'[s].pc = request[s].pc /\ request'[s].kind = request[s].kind
         /\ request'[s].expires = request[s].expires /\ request'[s].action = request[s].action
  <2> SUFFICES ASSUME NEW s \in Requests \ {r}
               PROVE  /\ [request[s] EXCEPT !.clear = FALSE] \in Thread
                      /\ [request[s] EXCEPT !.clear = FALSE].clear = FALSE
                      /\ [request[s] EXCEPT !.clear = FALSE].pc = request[s].pc
                      /\ [request[s] EXCEPT !.clear = FALSE].kind = request[s].kind
                      /\ [request[s] EXCEPT !.clear = FALSE].expires = request[s].expires
                      /\ [request[s] EXCEPT !.clear = FALSE].action = request[s].action
    BY <1>4
  <2>1. request[s] \in Thread
    BY <1>2 DEF TypeOK
  <2> QED BY <2>1 DEF Thread
<1>6. request' \in [Requests -> Thread]
  BY <1>1, <1>3, <1>4, <1>5
<1>7. TypeOK'
  BY <1>2, <1>6 DEF TypeOK
<1>8. Paths'
  BY <1>2, <1>3, <1>4, <1>5 DEF Paths, At, Kind, Ruler, Checking
<1>9. Exclusion'
  BY <1>2, <1>3, <1>4, <1>5 DEF Exclusion, Ruler, Kind, Checking, Quiet
<1>10. BlockInForce'
  BY <1>2, <1>3, <1>4, <1>5 DEF BlockInForce, InForce, BlockIsFinal, Holds, At, Kind, Checking
<1>11. Expiries'
  BY <1>2, <1>3, <1>4, <1>5 DEF Expiries, Lasting, At, OnceEnds
<1> QED BY <1>7, <1>8, <1>9, <1>10, <1>11 DEF IInv

\* While somebody rules on the domain nobody is held to an earlier ruling, and
\* no other ruling is clear.
LEMMA RulerAlone ==
    ASSUME Exclusion, NEW r \in Requests, Ruler(r)
    PROVE  /\ ~InForce
           /\ \A s \in Requests : Checking(s) => ~request[s].clear
           /\ \A s \in Requests : Ruler(s) /\ request[s].clear => s = r
  BY DEF Exclusion, InForce, Quiet

\* Off the opposite list: only a ruling takes a domain off the blocklist.
LEMMA LiftKeeps ==
    ASSUME IInv, NEW r \in Requests, Lift(r)
    PROVE  IInv'
<1> DEFINE t == [request[r] EXCEPT !.pc = "find"]
<1>1. /\ TypeOK /\ Paths /\ Exclusion /\ BlockInForce /\ Expiries
      /\ At(r, "lift") /\ UNCHANGED <<now, ruling, answer, lastOnce, overlapped>>
  BY DEF IInv, Lift, histories
<1>2. Moves(r, t)
  BY <1>1, GotoMoves DEF Lift, PCs
<1>3. request[r] \in Thread
  BY <1>1 DEF TypeOK
<1>4. /\ t.kind = Kind(r) /\ t.clear = request[r].clear /\ t.pc = "find"
      /\ t.expires = request[r].expires
  BY <1>3 DEF Thread, Kind
<1> HIDE DEF t
<1>5. Ruler(r)
  BY <1>1 DEF Paths, At
<1>6. Path(t)
  BY <1>4, <1>5 DEF Path, Ruler, Kind
<1>7. request' \in [Requests -> Thread] /\ Paths'
  BY <1>1, <1>2, <1>6, MovedPaths
<1>8. Exclusion'
  BY <1>1, <1>2, <1>4, <1>6, MovedExclusion
<1>9. allow' \in SUBSET allow /\ blocked' \in BOOLEAN
  BY <1>1 DEF Lift, TypeOK
<1>10. TypeOK'
  BY <1>1, <1>7, <1>9 DEF TypeOK
<1>11. \A s \in Requests : request'[s] = IF s = r THEN t ELSE request[s]
  BY <1>1, <1>2 DEF TypeOK, Moves
<1>12. BlockInForce'
  <2>1. /\ ~InForce /\ \A s \in Requests : Checking(s) => ~request[s].clear
        /\ \A s \in Requests : Ruler(s) /\ request[s].clear => s = r
    BY <1>1, <1>5, RulerAlone
  <2>2. ~InForce'
    BY <1>1, <2>1 DEF InForce
  <2>3. \A s \in Requests : ~(Kind(s)' = "always_block" /\ request'[s].clear /\ At(s, "audit")')
    BY <1>4, <1>11, <2>1 DEF Kind, At, Ruler, Rulings
  <2>4. BlockIsFinal'
    BY <1>1 DEF BlockInForce, BlockIsFinal, Holds
  <2> QED BY <2>2, <2>3, <2>4 DEF BlockInForce
<1>13. Expiries'
  BY <1>1, <1>4, <1>9, <1>11 DEF Expiries, Lasting, At, OnceEnds
<1> QED BY <1>7, <1>8, <1>10, <1>12, <1>13 DEF IInv

\* What is not after one moment plus a duration is not after a later one plus it.
LEMMA Later ==
    ASSUME NEW m \in Int, NEW n \in Int, NEW d \in Int, NEW e \in Int, m <= n, e <= m + d
    PROVE  e <= n + d
  OBVIOUS

\* A row is looked for, and the clock is read for a temporary permission.
LEMMA FindKeeps ==
    ASSUME IInv, NEW r \in Requests, Find(r)
    PROVE  IInv'
<1>1. /\ TypeOK /\ Paths /\ Exclusion /\ BlockInForce /\ Expiries
      /\ At(r, "find") /\ UNCHANGED <<now, allow, blocked, ruling, answer, overlapped>>
  BY FindEffect DEF IInv
<1>2. request[r] \in Thread /\ now \in Int /\ now \in 0..MaxTime /\ lastOnce \in Int
      /\ AllowOnceDuration \in Int
  BY <1>1, WebsiteDecisionsAssumption DEF TypeOK
<1>3. PICK t \in Thread :
          /\ Moves(r, t)
          /\ t.kind = Kind(r) /\ t.clear = request[r].clear
          /\ t.pc = "store" \/ (t.pc = "audit" /\ blocked)
          /\ \/ t.expires = request[r].expires /\ UNCHANGED lastOnce
             \/ t.expires = now + AllowOnceDuration /\ lastOnce' = now
  BY <1>1, FindEffect
<1>4. Path(t)
  BY <1>1, <1>3 DEF Path, Paths, Ruler, Kind, At
<1>5. request' \in [Requests -> Thread] /\ Paths'
  BY <1>1, <1>3, <1>4, MovedPaths
<1>6. Exclusion'
  BY <1>1, <1>3, <1>4, MovedExclusion
<1>7. TypeOK'
  <2>1. lastOnce' \in 0..MaxTime
    BY <1>1, <1>2, <1>3 DEF TypeOK
  <2> QED BY <1>1, <1>5, <2>1 DEF TypeOK
<1>8. \A s \in Requests : request'[s] = IF s = r THEN t ELSE request[s]
  BY <1>1, <1>3 DEF TypeOK, Moves
<1>9. BlockInForce'
  BY <1>1, <1>3, <1>8 DEF BlockInForce, InForce, BlockIsFinal, Holds, At, Kind, Checking
<1>10. lastOnce' \in Int /\ lastOnce <= lastOnce' /\ lastOnce' <= now
  BY <1>1, <1>2, <1>3 DEF Expiries
<1>11. \A e \in Expiry : Lasting(e) => Lasting(e)'
  <2> SUFFICES ASSUME NEW e \in Expiry, e # Never, e <= lastOnce + AllowOnceDuration
               PROVE  e <= lastOnce' + AllowOnceDuration
    BY DEF Lasting
  <2>1. e \in Int
    BY DEF Expiry
  <2>2. AllowOnceDuration \in Int /\ lastOnce \in Int /\ lastOnce' \in Int /\ lastOnce <= lastOnce'
    BY <1>2, <1>10
  <2> QED BY <2>1, <2>2, Later
<1>12. Expiries'
  <2>1. \A a \in allow' : Lasting(a.expires)'
    BY <1>1, <1>11 DEF Expiries, TypeOK, Row
  <2>2. \A s \in Requests : request[s].expires \in Expiry
    BY <1>1 DEF TypeOK, Thread
  <2>3. Lasting(t.expires)'
    <3>1. CASE t.expires = request[r].expires
      BY <1>1, <3>1 DEF Expiries, At, Lasting
    <3>2. CASE t.expires = now + AllowOnceDuration /\ lastOnce' = now
      BY <1>2, <3>2 DEF Lasting
    <3> QED BY <1>3, <3>1, <3>2
  <2>4. OnceEnds'
    <3>1. answer.at \in Int
      BY <1>1 DEF TypeOK
    <3> QED BY <1>1, <1>2, <1>10, <3>1 DEF Expiries, OnceEnds
  <2> QED BY <1>1, <1>3, <1>8, <1>10, <1>11, <2>1, <2>2, <2>3, <2>4 DEF Expiries, At
<1> QED BY <1>5, <1>6, <1>7, <1>9, <1>12 DEF IInv

\* A row is written, with the expiry that its ruling was given.
LEMMA StoreKeeps ==
    ASSUME IInv, NEW r \in Requests, Store(r)
    PROVE  IInv'
<1> DEFINE t == [request[r] EXCEPT !.pc = "audit"]
<1>1. /\ TypeOK /\ Paths /\ Exclusion /\ BlockInForce /\ Expiries
      /\ At(r, "store") /\ UNCHANGED <<now, ruling, answer, lastOnce, overlapped>>
  BY DEF IInv, Store, histories
<1>2. Moves(r, t)
  BY <1>1, GotoMoves DEF Store, PCs
<1>3. request[r] \in Thread
  BY <1>1 DEF TypeOK
<1>4. /\ t.kind = Kind(r) /\ t.clear = request[r].clear /\ t.pc = "audit"
  BY <1>3 DEF Thread, Kind
<1> HIDE DEF t
<1>5. Ruler(r)
  BY <1>1 DEF Paths, At
<1>6. Path(t)
  BY <1>4, <1>5 DEF Path, Ruler, Kind
<1>7. request' \in [Requests -> Thread] /\ Paths'
  BY <1>1, <1>2, <1>6, MovedPaths
<1>8. Exclusion'
  BY <1>1, <1>2, <1>4, <1>6, MovedExclusion
<1>9. \/ UNCHANGED allow
      \/ \E id \in 1..MaxRows :
            allow' = {a \in allow : a.id # id} \cup {[id |-> id, expires |-> request[r].expires]}
  <2>1. CASE UNCHANGED allow
    BY <2>1
  <2>2. CASE \E id \in IF request[r].seen = None THEN NewId ELSE {request[r].seen.id} :
                allow' = {a \in allow : a.id # id} \cup {[id |-> id, expires |-> request[r].expires]}
    <3>1. request[r].seen # None => request[r].seen.id \in 1..MaxRows
      BY <1>3 DEF Thread, Row
    <3>2. NewId \subseteq 1..MaxRows
      BY DEF NewId
    <3> QED BY <2>2, <3>1, <3>2
  <2> QED BY <2>1, <2>2 DEF Store, lists
<1>10. \A a \in allow' : a \in allow \/ (a \in Row /\ a.expires = request[r].expires)
  <2>1. request[r].expires \in Expiry
    BY <1>3 DEF Thread
  <2> QED BY <1>9, <2>1 DEF Row
<1>11. \A a, b \in allow' : a.id = b.id => a = b
  BY <1>1, <1>9 DEF TypeOK
<1>12. blocked' \in BOOLEAN /\ (blocked => blocked') /\ (Kind(r) = "always_block" => blocked')
  BY <1>1 DEF Store, TypeOK, lists
<1>13. TypeOK'
  <2>1. allow' \in SUBSET Row
    BY <1>1, <1>10 DEF TypeOK
  <2> QED BY <1>1, <1>7, <1>11, <1>12, <2>1 DEF TypeOK
<1>14. \A s \in Requests : request'[s] = IF s = r THEN t ELSE request[s]
  BY <1>1, <1>2 DEF TypeOK, Moves
<1>15. BlockInForce'
  BY <1>1, <1>4, <1>12, <1>14 DEF BlockInForce, InForce, BlockIsFinal, Holds, At, Kind, Checking
<1>16. Expiries'
  <2>1. \A a \in allow' : Lasting(a.expires)
    BY <1>1, <1>10 DEF Expiries, At
  <2>2. \A e : Lasting(e) <=> Lasting(e)'
    BY <1>1 DEF Lasting
  <2> HIDE DEF Lasting
  <2> QED BY <1>1, <1>4, <1>14, <2>1, <2>2 DEF Expiries, At, OnceEnds
<1> QED BY <1>7, <1>8, <1>13, <1>15, <1>16 DEF IInv

\* A thread that comes to rest without an answer.
LEMMA StoreFailsKeeps ==
    ASSUME IInv, NEW r \in Requests, StoreFails(r)
    PROVE  IInv'
<1>1. /\ TypeOK /\ Paths /\ Exclusion /\ BlockInForce /\ Expiries /\ Moves(r, Idle)
      /\ UNCHANGED <<now, allow, blocked, ruling, answer, lastOnce, overlapped>>
  BY EndMoves DEF IInv, StoreFails, lists, histories
<1>2. Idle.kind = "none" /\ Idle.pc = "idle" /\ Path(Idle) /\ Idle.kind \notin Rulings
  BY DEF Idle, Path, Rulings
<1>3. request' \in [Requests -> Thread] /\ Paths'
  BY <1>1, <1>2, MovedPaths
<1>4. Exclusion'
  BY <1>1, <1>2, MovedExclusion
<1>5. TypeOK'
  BY <1>1, <1>3 DEF TypeOK
<1>6. \A s \in Requests : request'[s] = IF s = r THEN Idle ELSE request[s]
  BY <1>1 DEF TypeOK, Moves
<1>7. BlockInForce'
  BY <1>1, <1>2, <1>6 DEF BlockInForce, InForce, BlockIsFinal, Holds, At, Kind, Checking
<1>8. Expiries'
  BY <1>1, <1>2, <1>6 DEF Expiries, Lasting, At, OnceEnds
<1> QED BY <1>3, <1>4, <1>5, <1>7, <1>8 DEF IInv

\* A ruling comes into force only if it was alone: then its list is as it left it.
LEMMA AuditKeeps ==
    ASSUME IInv, NEW r \in Requests, Audit(r)
    PROVE  IInv'
<1>1. /\ TypeOK /\ Paths /\ Exclusion /\ BlockInForce /\ Expiries /\ Moves(r, Idle)
      /\ At(r, "audit") /\ UNCHANGED <<now, allow, blocked, answer, lastOnce, overlapped>>
  BY EndMoves DEF IInv, Audit, lists
<1>2. Idle.kind = "none" /\ Idle.pc = "idle" /\ Path(Idle) /\ Idle.kind \notin Rulings
  BY DEF Idle, Path, Rulings
<1>3. request' \in [Requests -> Thread] /\ Paths'
  BY <1>1, <1>2, MovedPaths
<1>4. request[r] \in Thread
  BY <1>1 DEF TypeOK
<1>5. \/ UNCHANGED ruling
      \/ Ruler(r) /\ ruling' = None
      \/ /\ Ruler(r) /\ request[r].clear
         /\ ruling' = [kind |-> Kind(r), until |-> request[r].expires]
  BY DEF Audit
<1>6. ruling' \in Ruling \cup {None}
  <2>1. request[r].expires \in Expiry
    BY <1>4 DEF Thread
  <2> QED BY <1>1, <1>5, <2>1 DEF TypeOK, Ruling, Ruler
<1>7. TypeOK'
  BY <1>1, <1>3, <1>6 DEF TypeOK
<1>8. \A s \in Requests : request'[s] = IF s = r THEN Idle ELSE request[s]
  BY <1>1 DEF TypeOK, Moves
<1>9. Exclusion'
  <2>1. CASE UNCHANGED ruling
    BY <1>1, <1>2, <2>1, MovedExclusion
  <2>2. CASE Ruler(r) /\ ruling' = None
    BY <1>1, <1>2, <1>8, <2>2 DEF Exclusion, Ruler, Kind, Checking, Quiet
  <2>3. CASE Ruler(r) /\ request[r].clear
    <3>1. \A s \in Requests : Ruler(s) /\ request[s].clear => s = r
      BY <1>1, <2>3, RulerAlone
    <3>2. \A s \in Requests : Checking(s) => ~request[s].clear
      BY <1>1, <2>3, RulerAlone
    <3>3. \A s \in Requests : Ruler(s) => s = r
      BY <1>1, <2>3 DEF Exclusion
    <3> QED BY <1>2, <1>8, <3>1, <3>2, <3>3 DEF Exclusion, Ruler, Kind, Checking, Quiet
  <2> QED BY <1>5, <2>1, <2>2, <2>3
<1>10. BlockInForce'
  <2>1. \A s \in Requests : Kind(s)' = "always_block" /\ request'[s].clear /\ At(s, "audit")'
                              => blocked'
    BY <1>1, <1>2, <1>8 DEF BlockInForce, Kind, At
  <2>2. BlockIsFinal'
    BY <1>1 DEF BlockInForce, BlockIsFinal, Holds
  <2>3. CASE UNCHANGED ruling
    BY <1>1, <1>2, <1>8, <2>1, <2>2, <2>3 DEF BlockInForce, InForce, At, Kind, Checking
  <2>4. CASE Ruler(r) /\ ruling' = None
    BY <2>1, <2>2, <2>4 DEF BlockInForce, InForce
  <2>5. CASE /\ Ruler(r) /\ request[r].clear
             /\ ruling' = [kind |-> Kind(r), until |-> request[r].expires]
    <3>1. InForce' => Kind(r) = "always_block"
      BY <2>5 DEF InForce
    <3>2. InForce' => blocked'
      BY <1>1, <2>5, <3>1 DEF BlockInForce
    <3>3. \A s \in Requests : ~(Checking(s)' /\ request'[s].clear)
      BY <1>1, <1>2, <1>8, <2>5, RulerAlone DEF Checking
    <3> QED BY <2>1, <2>2, <3>2, <3>3 DEF BlockInForce
  <2> QED BY <1>5, <2>3, <2>4, <2>5
<1>11. Expiries'
  BY <1>1, <1>2, <1>8 DEF Expiries, Lasting, At, OnceEnds
<1> QED BY <1>3, <1>7, <1>9, <1>10, <1>11 DEF IInv

\* A check that only moves on: past the blocklist it gets when nothing is on it.
LEMMA CheckMovesKeeps ==
    ASSUME IInv, NEW r \in Requests, NEW t, Moves(r, t),
           request[r].pc \in {"blocklist", "allowlist", "purge"},
           UNCHANGED <<now, blocked, ruling, lastOnce, answer, overlapped>>,
           allow' \in SUBSET allow,
           t.kind = Kind(r), t.clear = request[r].clear, t.pc \in {"allowlist", "purge"},
           At(r, "blocklist") => ~blocked
    PROVE  IInv'
<1>1. TypeOK /\ Paths /\ Exclusion /\ BlockInForce /\ Expiries
  BY DEF IInv
<1>2. Checking(r)
  BY DEF Checking
<1>3. Path(t)
  BY <1>1, <1>2 DEF Path, Paths, Kind
<1>4. request' \in [Requests -> Thread] /\ Paths'
  BY <1>1, <1>3, MovedPaths
<1>5. Exclusion'
  BY <1>1, <1>2, <1>3, MovedExclusion
<1>6. TypeOK'
  BY <1>1, <1>4 DEF TypeOK
<1>7. \A s \in Requests : request'[s] = IF s = r THEN t ELSE request[s]
  BY <1>1 DEF TypeOK, Moves
<1>8. ~(request[r].clear /\ InForce)
  BY <1>1, <1>2 DEF BlockInForce, At
<1>9. BlockInForce'
  BY <1>1, <1>7, <1>8 DEF BlockInForce, InForce, BlockIsFinal, Holds, At, Kind, Checking
<1>10. Expiries'
  BY <1>1, <1>7 DEF Expiries, Lasting, At, OnceEnds
<1> QED BY <1>4, <1>5, <1>6, <1>9, <1>10 DEF IInv

\* A check that answers, held to the ruling in force.
LEMMA AnswerKeeps ==
    ASSUME IInv, NEW r \in Requests, Moves(r, Idle),
           UNCHANGED <<now, blocked, ruling, lastOnce, overlapped>>, allow' \in SUBSET allow,
           NEW action \in Actions, NEW at \in 0..MaxTime,
           answer' = [action |-> action, at |-> at,
                      ruling |-> IF request[r].clear THEN ruling ELSE None],
           request[r].clear /\ InForce => action = "block",
           action = "allow_once" => at <= lastOnce + AllowOnceDuration
    PROVE  IInv'
<1>1. TypeOK /\ Paths /\ Exclusion /\ BlockInForce /\ Expiries
  BY DEF IInv
<1>2. Idle.kind = "none" /\ Idle.pc = "idle" /\ Path(Idle) /\ Idle.kind \notin Rulings
  BY DEF Idle, Path, Rulings
<1>3. request' \in [Requests -> Thread] /\ Paths'
  BY <1>1, <1>2, MovedPaths
<1>4. Exclusion'
  BY <1>1, <1>2, MovedExclusion
<1>5. TypeOK'
  <2>1. (IF request[r].clear THEN ruling ELSE None) \in Ruling \cup {None}
    BY <1>1 DEF TypeOK
  <2>2. answer' \in [action : Actions, at : 0..MaxTime, ruling : Ruling \cup {None}]
    BY <2>1
  <2> QED BY <1>1, <1>3, <2>2 DEF TypeOK
<1>6. \A s \in Requests : request'[s] = IF s = r THEN Idle ELSE request[s]
  BY <1>1 DEF TypeOK, Moves
<1>7. BlockIsFinal'
  BY DEF BlockIsFinal, Holds, InForce
<1>8. BlockInForce'
  BY <1>1, <1>2, <1>6, <1>7 DEF BlockInForce, InForce, At, Kind, Checking
<1>9. Expiries'
  BY <1>1, <1>2, <1>6 DEF Expiries, Lasting, At, OnceEnds
<1> QED BY <1>3, <1>4, <1>5, <1>8, <1>9 DEF IInv

\* A check decides: as the block in force says, if there is one.
LEMMA DecidedKeeps ==
    ASSUME IInv, NEW r \in Requests, Checking(r), NEW action \in Actions, Decided(r, action),
           UNCHANGED <<now, blocked, ruling, lastOnce, overlapped>>, allow' \in SUBSET allow,
           request[r].clear /\ InForce => action = "block",
           action = "allow_once" => now <= lastOnce + AllowOnceDuration
    PROVE  IInv'
<1>1. TypeOK /\ Paths /\ Exclusion /\ BlockInForce /\ Expiries
  BY DEF IInv
<1>2. now \in 0..MaxTime
  BY <1>1 DEF TypeOK
<1>3. CASE /\ Moves(r, Idle)
           /\ answer' = [action |-> action, at |-> now,
                         ruling |-> IF request[r].clear THEN ruling ELSE None]
  BY <1>2, <1>3, AnswerKeeps
<1>4. CASE /\ Kind(r) # "lookup" /\ UNCHANGED answer
           /\ Moves(r, [request[r] EXCEPT !.pc = "record", !.action = action, !.expires = now])
  <2> DEFINE t == [request[r] EXCEPT !.pc = "record", !.action = action, !.expires = now]
  <2>1. request[r] \in Thread
    BY <1>1 DEF TypeOK
  <2>2. /\ t.kind = Kind(r) /\ t.clear = request[r].clear /\ t.pc = "record"
        /\ t.action = action /\ t.expires = now
    BY <2>1 DEF Thread, Kind
  <2>3. Moves(r, t)
    BY <1>4
  <2> HIDE DEF t
  <2>4. Path(t)
    BY <1>1, <1>2, <2>2 DEF Path, Paths, Kind
  <2>5. request' \in [Requests -> Thread] /\ Paths'
    BY <1>1, <2>3, <2>4, MovedPaths
  <2>6. Exclusion'
    BY <1>1, <2>2, <2>3, <2>4, MovedExclusion
  <2>7. TypeOK'
    BY <1>1, <1>4, <2>5 DEF TypeOK
  <2>8. \A s \in Requests : request'[s] = IF s = r THEN t ELSE request[s]
    BY <1>1, <2>3 DEF TypeOK, Moves
  <2>9. BlockInForce'
    BY <1>1, <1>4, <2>2, <2>8 DEF BlockInForce, InForce, BlockIsFinal, Holds, At, Kind, Checking
  <2>10. Expiries'
    BY <1>1, <1>4, <2>2, <2>8 DEF Expiries, Lasting, At, OnceEnds
  <2> QED BY <2>5, <2>6, <2>7, <2>9, <2>10 DEF IInv
<1> QED BY <1>1, <1>3, <1>4, DecidedMoves

\* The three reads of a check.
LEMMA ChecksKeep ==
    ASSUME IInv, NEW r \in Requests, ReadBlocklist(r) \/ ReadAllowlist(r) \/ Purge(r)
    PROVE  IInv'
<1>1. TypeOK /\ BlockInForce /\ Expiries
  BY DEF IInv
<1>2. /\ request[r].pc \in {"blocklist", "allowlist", "purge"}
      /\ UNCHANGED <<now, blocked, ruling, lastOnce, overlapped>>
      /\ allow' \in SUBSET allow
  BY <1>1, CheckEffect
<1>3. CASE \E t \in Thread :
              /\ Moves(r, t) /\ UNCHANGED answer
              /\ t.kind = Kind(r) /\ t.clear = request[r].clear
              /\ t.pc \in {"allowlist", "purge"}
              /\ At(r, "blocklist") => ~blocked
  BY <1>2, <1>3, CheckMovesKeeps
<1>4. CASE \E action \in Actions :
              /\ Decided(r, action)
              /\ At(r, "blocklist") => blocked /\ action = "block"
              /\ action = "allow_once" =>
                   \E a \in allow : a.expires # Never /\ a.expires >= now
  <2>1. PICK action \in Actions :
              /\ Decided(r, action)
              /\ At(r, "blocklist") => blocked /\ action = "block"
              /\ action = "allow_once" =>
                   \E a \in allow : a.expires # Never /\ a.expires >= now
    BY <1>4
  <2>2. Checking(r)
    BY <1>2 DEF Checking
  <2>3. request[r].clear /\ InForce => action = "block"
    BY <1>1, <1>2, <2>1, <2>2 DEF BlockInForce, At
  <2>4. ASSUME action = "allow_once" PROVE now <= lastOnce + AllowOnceDuration
    <3>1. PICK a \in allow : a.expires # Never /\ a.expires >= now
      BY <2>1, <2>4
    <3>2. a.expires <= lastOnce + AllowOnceDuration
      BY <1>1, <3>1 DEF Expiries, Lasting
    <3>3. a.expires \in Int
      BY <1>1, <3>1 DEF TypeOK, Row, Expiry
    <3>4. now \in Int /\ lastOnce \in Int /\ AllowOnceDuration \in Int
      BY <1>1, WebsiteDecisionsAssumption DEF TypeOK
    <3>5. lastOnce + AllowOnceDuration \in Int
      BY <3>4
    <3> QED BY <3>1, <3>2, <3>3, <3>4, <3>5
  <2> QED BY <1>2, <2>1, <2>2, <2>3, <2>4, DecidedKeeps
<1> QED BY <1>1, <1>3, <1>4, CheckEffect

\* What was decided is the answer, however late it is given.
LEMMA RecordKeeps ==
    ASSUME IInv, NEW r \in Requests, Record(r)
    PROVE  IInv'
<1>1. /\ TypeOK /\ Paths /\ BlockInForce /\ Expiries /\ At(r, "record")
      /\ Moves(r, Idle) /\ UNCHANGED <<now, allow, blocked, ruling, lastOnce, overlapped>>
      /\ answer' = [action |-> request[r].action, at |-> request[r].expires,
                    ruling |-> IF request[r].clear THEN ruling ELSE None]
  BY EndMoves DEF IInv, Record, lists
<1>2. request[r].action \in Actions /\ request[r].expires \in 0..MaxTime
  BY <1>1 DEF TypeOK, Thread, Paths
<1>3. request[r].clear /\ InForce => request[r].action = "block"
  BY <1>1 DEF BlockInForce, At, Checking
<1>4. request[r].action = "allow_once" => request[r].expires <= lastOnce + AllowOnceDuration
  <2>1. request[r].expires # Never
    BY <1>2, WebsiteDecisionsAssumption
  <2> QED BY <1>1, <2>1 DEF Expiries, Lasting
<1> QED BY <1>1, <1>2, <1>3, <1>4, AnswerKeeps

\* Nothing happens.
LEMMA Stutter == ASSUME IInv, UNCHANGED vars PROVE IInv'
<1>1. UNCHANGED <<now, allow, blocked, request, ruling, answer, lastOnce, overlapped>>
  BY DEF vars, lists, histories
<1>2. TypeOK' /\ Paths' /\ Exclusion'
  BY <1>1 DEF IInv, TypeOK, Paths, Exclusion, At, Kind, Ruler, Checking, Quiet
<1>3. BlockInForce' /\ Expiries'
  BY <1>1 DEF IInv, BlockInForce, InForce, BlockIsFinal, Holds, Expiries, Lasting, OnceEnds,
              At, Kind, Checking
<1> QED BY <1>2, <1>3 DEF IInv

(* Everything the handlers leave in the two lists, and every answer they give, *)
(* is as the invariant says: with any number of requests in any interleaving.  *)
THEOREM Invariance == Spec => []IInv
<1>1. IInv /\ [Next]_vars => IInv'
  <2> SUFFICES ASSUME IInv, [Next]_vars PROVE IInv'
    OBVIOUS
  <2>1. CASE Tick
    BY <2>1, TickKeeps
  <2>2. ASSUME NEW r \in Requests,
               \/ BlockVisit(r) \/ BeginRuling(r) \/ Lift(r) \/ Find(r) \/ Store(r)
               \/ StoreFails(r) \/ Audit(r)
               \/ BeginCheck(r) \/ ReadBlocklist(r) \/ ReadAllowlist(r) \/ Purge(r) \/ Record(r)
        PROVE  IInv'
    BY <2>2, BlockVisitKeeps, BeginRulingKeeps, LiftKeeps, FindKeeps, StoreKeeps,
       StoreFailsKeeps, AuditKeeps, BeginCheckKeeps, ChecksKeep, RecordKeeps
  <2>3. CASE UNCHANGED vars
    BY <2>3, Stutter
  <2> QED BY <2>1, <2>2, <2>3 DEF Next
<1> QED BY <1>1, Initially, PTL DEF Spec

(* The types of the handlers' state, the uniqueness of the row ids with them.  *)
THEOREM TypeCorrect == Spec => []TypeOK
  BY Invariance, PTL DEF IInv

(* _decide consults the blocklist first and only record_decision takes a       *)
(* domain off it: a check held to an always_block is answered "block".         *)
THEOREM BlocksAreFinal == Spec => []BlockIsFinal
  BY Invariance, PTL DEF IInv, BlockInForce

(* expires_at is set from the clock and compared with it: no answer grants a   *)
(* temporary permission after the hour of the latest Allow Once.               *)
THEOREM OnceIsOver == Spec => []OnceEnds
  BY Invariance, PTL DEF IInv, Expiries
-----------------------------------------------------------------------------
(***************************************************************************)
(* Where no two requests overlap, one thread at most is at work, and what  *)
(* it read is what the table still holds.                                  *)
(***************************************************************************)

Permanent(rows) == \E a \in rows : a.expires = Never

\* The lists while nothing overlaps: a lasting permission in force is the one
\* row of the allowlist, and the domain is not on the blocklist.
Agreed(rows, onBlocklist, inForce) ==
    /\ \A a, b \in rows : a = b
    /\ ~(onBlocklist /\ Permanent(rows))
    /\ inForce # None /\ inForce.kind = "always_allow" => ~onBlocklist /\ Permanent(rows)

\* How far the one thread at work, t, has got with them.
Serves(t, rows, onBlocklist, inForce) ==
    /\ t.kind = "always_allow" /\ t.pc \in {"find", "store", "audit"} => ~onBlocklist
    /\ t.kind = "always_allow" /\ t.pc = "audit" => Permanent(rows)
    /\ t.kind = "always_block" /\ t.pc \in {"find", "store", "audit"} => rows = {}
    /\ t.kind # "always_block" /\ t.pc = "store" =>
           /\ t.seen \in rows \/ (t.seen = None /\ rows = {})
           /\ t.kind = "always_allow" <=> t.expires = Never
    /\ t.pc = "allowlist" => ~onBlocklist
    /\ t.pc = "purge" => t.seen \in rows /\ t.seen.expires # Never
    /\ t.pc = "record" /\ t.clear /\ inForce # None /\ inForce.kind = "always_allow" =>
           t.action = "allow"

Alone(r) == \A s \in Requests \ {r} : At(s, "idle")

AllowIsFinal == Holds("always_allow") => answer.action = "allow"

Serial ==
    ~overlapped =>
        /\ \A r \in Requests : ~At(r, "idle") => Alone(r)
        /\ Agreed(allow, blocked, ruling)
        /\ \A r \in Requests : Serves(request[r], allow, blocked, ruling)
        /\ AllowIsFinal

AllowInForce == ruling # None /\ ruling.kind = "always_allow"

(* What the step of one thread has to show for the invariant after it. *)
LEMMA SerialStep ==
    ASSUME Serial, NEW r \in Requests, NEW t,
           request'[r] = t, \A s \in Requests \ {r} : request'[s].pc = request[s].pc,
           ~overlapped' => /\ ~overlapped /\ Alone(r)
                           /\ Agreed(allow', blocked', ruling')
                           /\ Serves(t, allow', blocked', ruling')
                           /\ AllowIsFinal'
    PROVE  Serial'
<1> SUFFICES ASSUME ~overlapped'
             PROVE  /\ \A s \in Requests : ~At(s, "idle")' => Alone(s)'
                    /\ Agreed(allow', blocked', ruling')
                    /\ \A s \in Requests : Serves(request'[s], allow', blocked', ruling')
                    /\ AllowIsFinal'
  BY DEF Serial
<1>1. \A s \in Requests \ {r} : request'[s].pc = "idle"
  BY DEF Alone, At
<1>2. \A s \in Requests : ~At(s, "idle")' => Alone(s)'
  BY <1>1 DEF Alone, At
<1>3. \A s \in Requests \ {r} : Serves(request'[s], allow', blocked', ruling')
  BY <1>1 DEF Serves
<1> QED BY <1>2, <1>3

\* A request that comes while nobody is at work meets nobody.
LEMMA ArrivesAlone ==
    ASSUME TypeOK, NEW r \in Requests, Arrives(r)
    PROVE  ~overlapped' => ~overlapped /\ Alone(r)
  BY DEF Arrives, Alone, TypeOK

\* A thread at work stays alone.
LEMMA WorksAlone ==
    ASSUME Serial, NEW r \in Requests, ~At(r, "idle"), UNCHANGED overlapped
    PROVE  ~overlapped' => /\ ~overlapped /\ Alone(r) /\ AllowIsFinal
                           /\ Agreed(allow, blocked, ruling)
                           /\ Serves(request[r], allow, blocked, ruling)
  BY DEF Serial

\* As long as a ruling is under way none is in force.
LEMMA NoneInForce ==
    ASSUME Exclusion, NEW r \in Requests, Ruler(r)
    PROVE  ruling = None
  BY DEF Exclusion, Quiet

\* A request comes; a ruling puts the one before it out of force.
LEMMA BeginSerial ==
    ASSUME IInv, Serial, NEW r \in Requests, BlockVisit(r) \/ BeginRuling(r) \/ BeginCheck(r)
    PROVE  Serial'
<1>1. TypeOK /\ Arrives(r) /\ UNCHANGED <<allow, blocked, answer>>
  BY DEF IInv, BlockVisit, BeginRuling, BeginCheck, lists
<1>2. request[r] \in Thread
  BY <1>1 DEF TypeOK
<1>3. ~overlapped' => ~overlapped /\ Alone(r)
  BY <1>1, ArrivesAlone
<1>4. ~overlapped' => Agreed(allow', blocked', ruling') /\ AllowIsFinal'
  <2>1. ruling' \in {None, ruling}
    BY DEF BlockVisit, BeginRuling, BeginCheck
  <2> QED BY <1>1, <1>3, <2>1 DEF Serial, Agreed, AllowIsFinal, Holds
<1>5. /\ \A s \in Requests \ {r} : request'[s].pc = request[s].pc
      /\ \/ request'[r].pc \in {"audit", "lift", "blocklist"} /\ request'[r].kind # "always_allow"
                                                              /\ request'[r].kind # "always_block"
         \/ request'[r].pc = "lift"
         \/ request'[r].pc = "find" /\ request'[r].kind = "allow_once"
  <2>1. CASE BlockVisit(r)
    BY <1>1, <1>2, <2>1 DEF BlockVisit, TypeOK, Thread
  <2>2. CASE BeginCheck(r)
    BY <1>1, <1>2, <2>2 DEF BeginCheck, TypeOK, Thread
  <2>3. CASE BeginRuling(r)
    <3>1. PICK kind \in Rulings :
              request' = [s \in Requests |->
                  IF s = r
                  THEN [Idle EXCEPT !.kind = kind, !.clear = Quiet,
                                    !.pc = IF kind = "allow_once" THEN "find" ELSE "lift"]
                  ELSE [request[s] EXCEPT !.clear = FALSE]]
      BY <2>3 DEF BeginRuling
    <3>2. \A s \in Requests \ {r} : request'[s].pc = request[s].pc
      BY <1>1, <3>1 DEF TypeOK, Thread
    <3>3. /\ request'[r].kind = kind
          /\ request'[r].pc = IF kind = "allow_once" THEN "find" ELSE "lift"
      BY <3>1 DEF Idle
    <3> QED BY <3>2, <3>3
  <2> QED BY <2>1, <2>2, <2>3
<1>6. Serves(request'[r], allow', blocked', ruling')
  BY <1>5 DEF Serves
<1> QED BY <1>3, <1>4, <1>5, <1>6, SerialStep

\* Alone, a lasting ruling finds the opposite list as it has cleared it.
LEMMA LiftSerial ==
    ASSUME IInv, Serial, NEW r \in Requests, Lift(r)
    PROVE  Serial'
<1> DEFINE t == [request[r] EXCEPT !.pc = "find"]
<1>1. TypeOK /\ Paths /\ At(r, "lift") /\ UNCHANGED <<ruling, answer, overlapped>>
  BY DEF IInv, Lift, histories
<1>2. request[r] \in Thread /\ request' = [request EXCEPT ![r] = t]
  BY <1>1, GotoMoves DEF TypeOK, Lift, PCs, Moves
<1>3. t.pc = "find" /\ t.kind = Kind(r)
  BY <1>2 DEF Thread, Kind
<1>4. /\ request'[r] = t /\ \A s \in Requests \ {r} : request'[s].pc = request[s].pc
  BY <1>1, <1>2 DEF TypeOK
<1> HIDE DEF t
<1>5. ruling = None
  BY <1>1, NoneInForce DEF IInv, Paths, At
<1>6. ~overlapped' => ~overlapped /\ Alone(r) /\ AllowIsFinal /\ Agreed(allow, blocked, ruling)
  BY <1>1, WorksAlone DEF At
<1>7. AllowIsFinal => AllowIsFinal'
  BY <1>1 DEF AllowIsFinal, Holds
<1>8. CASE Kind(r) = "always_allow" /\ blocked' = FALSE /\ UNCHANGED allow
  <2>1. Agreed(allow, blocked, ruling) => Agreed(allow', blocked', ruling')
    BY <1>1, <1>5, <1>8 DEF Agreed
  <2>2. Serves(t, allow', blocked', ruling')
    BY <1>3, <1>8 DEF Serves
  <2> QED BY <1>4, <1>6, <1>7, <2>1, <2>2, SerialStep
<1>9. CASE Kind(r) = "always_block" /\ allow' = {} /\ UNCHANGED blocked
  <2>1. Agreed(allow', blocked', ruling')
    BY <1>1, <1>5, <1>9 DEF Agreed, Permanent
  <2>2. Serves(t, allow', blocked', ruling')
    BY <1>3, <1>9 DEF Serves
  <2> QED BY <1>4, <1>6, <1>7, <2>1, <2>2, SerialStep
<1> QED BY <1>8, <1>9 DEF Lift

\* The row that is read, if there is one, stands in the list.
LEMMA FoundStands ==
    ASSUME NEW row \in Found
    PROVE  row \in allow \/ (row = None /\ allow = {})
  BY DEF Found

\* The row that a ruling reads is still there when it is written.
LEMMA FindSerial ==
    ASSUME IInv, Serial, NEW r \in Requests, Find(r)
    PROVE  Serial'
<1>1. TypeOK /\ Expiries /\ At(r, "find") /\ UNCHANGED <<allow, blocked, ruling, answer, overlapped>>
  BY DEF IInv, Find, lists
<1>2. request[r] \in Thread /\ request[r].expires = Never
  BY <1>1 DEF TypeOK, Expiries, At
<1>3. ~overlapped' => /\ ~overlapped /\ Alone(r) /\ AllowIsFinal
                      /\ Agreed(allow, blocked, ruling) /\ Serves(request[r], allow, blocked, ruling)
  BY <1>1, WorksAlone DEF At
<1>4. (AllowIsFinal => AllowIsFinal') /\ (Agreed(allow, blocked, ruling) => Agreed(allow', blocked', ruling'))
  BY <1>1 DEF AllowIsFinal, Holds
<1>5. \A s \in Requests \ {r} : request'[s].pc = request[s].pc
  BY <1>1 DEF Find, Goto, TypeOK
<1>6. Serves(request[r], allow, blocked, ruling) => Serves(request'[r], allow', blocked', ruling')
  <2>1. CASE Kind(r) = "allow_once"
    <3>1. PICK row \in Found : request' = [request EXCEPT ![r].pc = "store", ![r].seen = row,
                                                   ![r].expires = now + AllowOnceDuration]
      BY <2>1 DEF Find
    <3>2. /\ request'[r].kind = "allow_once" /\ request'[r].pc = "store"
          /\ request'[r].seen = row /\ request'[r].expires = now + AllowOnceDuration
      BY <1>1, <1>2, <2>1, <3>1 DEF TypeOK, Thread, Kind
    <3>3. now + AllowOnceDuration # Never
      BY <1>1, WebsiteDecisionsAssumption DEF TypeOK
    <3>4. row \in allow \/ (row = None /\ allow = {})
      BY <3>1, FoundStands
    <3> QED BY <1>1, <3>2, <3>3, <3>4 DEF Serves
  <2>2. CASE Kind(r) = "always_allow"
    <3>1. PICK row \in Found : request' = [request EXCEPT ![r].pc = "store", ![r].seen = row]
      BY <2>2 DEF Find
    <3>2. /\ request'[r].kind = "always_allow" /\ request'[r].pc = "store"
          /\ request'[r].seen = row /\ request'[r].expires = Never
      BY <1>1, <1>2, <2>2, <3>1 DEF TypeOK, Thread, Kind
    <3>4. row \in allow \/ (row = None /\ allow = {})
      BY <3>1, FoundStands
    <3> QED BY <1>1, <2>2, <3>2, <3>4 DEF Serves, At, Kind
  <2>3. CASE Kind(r) = "always_block"
    <3>1. request'[r].kind = "always_block" /\ request'[r].pc \in {"audit", "store"}
      BY <1>1, <1>2, <2>3 DEF Find, Goto, TypeOK, Thread, Kind
    <3> QED BY <1>1, <2>3, <3>1 DEF Serves, At, Kind
  <2> QED BY <2>1, <2>2, <2>3 DEF Find
<1> QED BY <1>3, <1>4, <1>5, <1>6, SerialStep

\* One row at most is left, with the ruling's expiry.
LEMMA StoreSerial ==
    ASSUME IInv, Serial, NEW r \in Requests, Store(r)
    PROVE  Serial'
<1> DEFINE t == [request[r] EXCEPT !.pc = "audit"]
<1>1. TypeOK /\ Paths /\ At(r, "store") /\ UNCHANGED <<ruling, answer, overlapped>>
  BY DEF IInv, Store, histories
<1>2. request[r] \in Thread /\ request' = [request EXCEPT ![r] = t]
  BY <1>1, GotoMoves DEF TypeOK, Store, PCs, Moves
<1>3. t.pc = "audit" /\ t.kind = Kind(r)
  BY <1>2 DEF Thread, Kind
<1>4. request'[r] = t /\ \A s \in Requests \ {r} : request'[s].pc = request[s].pc
  BY <1>1, <1>2 DEF TypeOK
<1> HIDE DEF t
<1>5. ruling = None /\ Kind(r) \in Rulings
  BY <1>1, NoneInForce DEF IInv, Paths, At, Ruler
<1>6. ~overlapped' => /\ ~overlapped /\ Alone(r) /\ AllowIsFinal
                      /\ Agreed(allow, blocked, ruling) /\ Serves(request[r], allow, blocked, ruling)
  BY <1>1, WorksAlone DEF At
<1>7. AllowIsFinal => AllowIsFinal'
  BY <1>1 DEF AllowIsFinal, Holds
<1>8. ASSUME Agreed(allow, blocked, ruling), Serves(request[r], allow, blocked, ruling)
      PROVE  Agreed(allow', blocked', ruling') /\ Serves(t, allow', blocked', ruling')
  <2>1. CASE Kind(r) = "always_block" /\ blocked' = TRUE /\ UNCHANGED allow
    <3>1. allow' = {}
      BY <1>1, <1>8, <2>1 DEF Serves, At, Kind
    <3> QED BY <1>1, <1>3, <1>5, <2>1, <3>1 DEF Agreed, Permanent, Serves
  <2>2. CASE Kind(r) # "always_block" /\ SameRow(r) /\ UNCHANGED <<allow, blocked>>
    <3>1. Kind(r) = "always_allow" /\ request[r].seen \in allow /\ ~blocked
      BY <1>1, <1>8, <2>2 DEF Serves, SameRow, At, Kind
    <3>2. Permanent(allow)
      BY <2>2, <3>1 DEF SameRow, Permanent
    <3> QED BY <1>1, <1>3, <1>5, <1>8, <2>2, <3>1, <3>2 DEF Agreed, Serves
  <2>3. CASE /\ Kind(r) # "always_block" /\ UNCHANGED blocked
             /\ \E id \in IF request[r].seen = None THEN NewId ELSE {request[r].seen.id} :
                    allow' = {a \in allow : a.id # id} \cup {[id |-> id, expires |-> request[r].expires]}
    <3>1. PICK id \in IF request[r].seen = None THEN NewId ELSE {request[r].seen.id} :
              allow' = {a \in allow : a.id # id} \cup {[id |-> id, expires |-> request[r].expires]}
      BY <2>3
    <3>2. request[r].seen \in allow \/ (request[r].seen = None /\ allow = {})
      BY <1>1, <1>8, <2>3 DEF Serves, At, Kind
    <3>3. None \notin allow
      BY <1>1, WebsiteDecisionsAssumption DEF TypeOK, Row, Expiry
    <3>4. \A a \in allow : a.id = id
      BY <1>8, <3>1, <3>2, <3>3 DEF Agreed
    <3>5. allow' = {[id |-> id, expires |-> request[r].expires]}
      BY <3>1, <3>4
    <3>6. Permanent(allow') <=> request[r].expires = Never
      BY <3>5 DEF Permanent
    <3>7. Kind(r) = "always_allow" <=> request[r].expires = Never
      BY <1>1, <1>8, <2>3 DEF Serves, At, Kind
    <3>8. Kind(r) = "always_allow" => ~blocked
      BY <1>1, <1>8 DEF Serves, At, Kind
    <3>9. Agreed(allow', blocked', ruling')
      BY <1>1, <1>5, <2>3, <3>5, <3>6, <3>7, <3>8 DEF Agreed
    <3> QED BY <1>1, <1>3, <2>3, <3>6, <3>7, <3>8, <3>9 DEF Serves
  <2> QED BY <2>1, <2>2, <2>3 DEF Store, lists
<1> QED BY <1>4, <1>6, <1>7, <1>8, SerialStep

\* Alone, nobody takes away the row a ruling has found.
LEMMA StoreFailsSerial ==
    ASSUME IInv, Serial, NEW r \in Requests, StoreFails(r)
    PROVE  Serial'
<1>1. TypeOK /\ At(r, "store") /\ UNCHANGED overlapped
  BY DEF IInv, StoreFails, histories
<1>2. ~overlapped' => Serves(request[r], allow, blocked, ruling)
  BY <1>1, WorksAlone DEF At
<1>3. ~Serves(request[r], allow, blocked, ruling)
  BY <1>1 DEF StoreFails, SeenIsGone, Serves, At, Kind
<1> QED BY <1>2, <1>3 DEF Serial

\* A ruling comes into force, with its list as it left it.
LEMMA AuditSerial ==
    ASSUME IInv, Serial, NEW r \in Requests, Audit(r)
    PROVE  Serial'
<1>1. TypeOK /\ At(r, "audit") /\ UNCHANGED <<allow, blocked, answer, overlapped>>
  BY DEF IInv, Audit, lists
<1>2. request'[r] = Idle /\ \A s \in Requests \ {r} : request'[s].pc = request[s].pc
  BY <1>1 DEF Audit, End, TypeOK
<1>3. ~overlapped' => /\ ~overlapped /\ Alone(r) /\ AllowIsFinal
                      /\ Agreed(allow, blocked, ruling) /\ Serves(request[r], allow, blocked, ruling)
  BY <1>1, WorksAlone DEF At
<1>4. AllowIsFinal => AllowIsFinal'
  BY <1>1 DEF AllowIsFinal, Holds
<1>5. Serves(Idle, allow', blocked', ruling')
  BY DEF Serves, Idle
<1>6. Agreed(allow, blocked, ruling) /\ Serves(request[r], allow, blocked, ruling)
         => Agreed(allow', blocked', ruling')
  <2>1. CASE ruling' \in {None, ruling}
    BY <1>1, <2>1 DEF Agreed
  <2>2. CASE ruling' = [kind |-> Kind(r), until |-> request[r].expires]
    BY <1>1, <2>2 DEF Agreed, Serves, At, Kind
  <2> QED BY <2>1, <2>2 DEF Audit
<1> QED BY <1>2, <1>3, <1>4, <1>5, <1>6, SerialStep

\* A check decides: as the lasting permission in force says, if there is one.
LEMMA DecidedSerial ==
    ASSUME IInv, Serial, NEW r \in Requests, Checking(r), NEW action \in Actions,
           Decided(r, action), UNCHANGED <<blocked, ruling, overlapped>>,
           ~overlapped => /\ Agreed(allow', blocked, ruling)
                          /\ AllowInForce => action = "allow"
    PROVE  Serial'
<1>1. TypeOK /\ request[r] \in Thread /\ Kind(r) \in {"check", "lookup"}
  BY DEF IInv, TypeOK, Paths
<1>2. ~overlapped' => ~overlapped /\ Alone(r) /\ AllowIsFinal
  BY WorksAlone DEF Checking, At
<1>3. ~overlapped => Agreed(allow', blocked', ruling')
  OBVIOUS
<1>4. \A s \in Requests \ {r} : request'[s].pc = request[s].pc
  BY <1>1 DEF Decided, End, TypeOK
<1>5. CASE Kind(r) = "lookup"
  <2>1. request'[r] = Idle
    BY <1>1, <1>5 DEF Decided, End, TypeOK
  <2>2. Serves(request'[r], allow', blocked', ruling')
    BY <2>1 DEF Serves, Idle
  <2>3. ~overlapped => AllowIsFinal'
    BY <1>5 DEF Decided, AllowIsFinal, Holds, AllowInForce
  <2> QED BY <1>2, <1>3, <1>4, <2>2, <2>3, SerialStep
<1>6. CASE Kind(r) = "check"
  <2>1. request'[r].pc = "record" /\ request'[r].action = action /\ request'[r].kind = "check"
    BY <1>1, <1>6 DEF Decided, TypeOK, Thread, Kind
  <2>2. ~overlapped => Serves(request'[r], allow', blocked', ruling')
    BY <2>1 DEF Serves, AllowInForce
  <2>3. AllowIsFinal => AllowIsFinal'
    BY <1>6 DEF Decided, AllowIsFinal, Holds
  <2> QED BY <1>2, <1>3, <1>4, <2>2, <2>3, SerialStep
<1> QED BY <1>1, <1>5, <1>6

\* A domain that is allowed for good is not on the blocklist.
LEMMA ReadBlocklistSerial ==
    ASSUME IInv, Serial, NEW r \in Requests, ReadBlocklist(r)
    PROVE  Serial'
<1>1. TypeOK /\ At(r, "blocklist") /\ UNCHANGED <<allow, blocked, ruling, overlapped>>
  BY DEF IInv, ReadBlocklist, lists
<1>2. ~overlapped' => ~overlapped /\ Alone(r) /\ AllowIsFinal /\ Agreed(allow, blocked, ruling)
  BY <1>1, WorksAlone DEF At
<1>3. CASE blocked /\ Decided(r, "block")
  <2>1. ~overlapped => Agreed(allow', blocked, ruling) /\ ~AllowInForce
    BY <1>1, <1>2, <1>3 DEF Agreed, AllowInForce
  <2>2. Checking(r) /\ "block" \in Actions
    BY <1>1 DEF Checking, At, Actions
  <2> QED BY <1>1, <1>3, <2>1, <2>2, DecidedSerial
<1>4. CASE ~blocked /\ Goto(r, "allowlist") /\ UNCHANGED answer
  <2>1. request'[r] = [request[r] EXCEPT !.pc = "allowlist"] /\ request[r] \in Thread
    BY <1>1, <1>4 DEF Goto, TypeOK
  <2>2. \A s \in Requests \ {r} : request'[s].pc = request[s].pc
    BY <1>1, <1>4 DEF Goto, TypeOK
  <2>3. Serves(request'[r], allow', blocked', ruling')
    BY <1>1, <1>4, <2>1 DEF Serves, Thread
  <2>4. AllowIsFinal => AllowIsFinal'
    BY <1>1, <1>4 DEF AllowIsFinal, Holds
  <2> QED BY <1>1, <1>2, <2>2, <2>3, <2>4, SerialStep
<1> QED BY <1>3, <1>4 DEF ReadBlocklist

\* ... and its row is the one that the check reads.
LEMMA ReadAllowlistSerial ==
    ASSUME IInv, Serial, NEW r \in Requests, ReadAllowlist(r)
    PROVE  Serial'
<1>1. TypeOK /\ At(r, "allowlist") /\ UNCHANGED <<allow, blocked, ruling, overlapped>>
  BY DEF IInv, ReadAllowlist, lists
<1>2. ~overlapped' => ~overlapped /\ Alone(r) /\ AllowIsFinal /\ Agreed(allow, blocked, ruling)
  BY <1>1, WorksAlone DEF At
<1>3. PICK row \in Found :
          \/ row = None /\ \E action \in Heuristics : Decided(r, action)
          \/ row # None /\ row.expires = Never /\ Decided(r, "allow")
          \/ /\ row # None /\ row.expires # Never /\ row.expires >= now
             /\ Decided(r, "allow_once")
          \/ /\ row # None /\ row.expires # Never /\ row.expires < now
             /\ request' = [request EXCEPT ![r].pc = "purge", ![r].seen = row]
             /\ UNCHANGED answer
  BY DEF ReadAllowlist
<1>4. row \in allow \/ (row = None /\ allow = {})
  BY <1>3, FoundStands
<1>5. None \notin allow
  BY <1>1, WebsiteDecisionsAssumption DEF TypeOK, Row, Expiry
<1>6. ~overlapped /\ (row = None \/ row.expires # Never) => ~AllowInForce
  BY <1>1, <1>2, <1>4, <1>5 DEF Agreed, AllowInForce, Permanent
<1>7. Checking(r) /\ (~overlapped => Agreed(allow', blocked, ruling))
  BY <1>1, <1>2 DEF Checking, At
<1>8. ASSUME NEW action \in Actions, Decided(r, action),
             row = None \/ row.expires # Never \/ action = "allow"
      PROVE  Serial'
  BY <1>1, <1>6, <1>7, <1>8, DecidedSerial
<1>9. CASE /\ row # None /\ row.expires # Never
           /\ request' = [request EXCEPT ![r].pc = "purge", ![r].seen = row] /\ UNCHANGED answer
  <2>1. request'[r].pc = "purge" /\ request'[r].seen = row
    BY <1>1, <1>9 DEF TypeOK, Thread
  <2>2. \A s \in Requests \ {r} : request'[s].pc = request[s].pc
    BY <1>1, <1>9 DEF TypeOK
  <2>3. Serves(request'[r], allow', blocked', ruling')
    BY <1>1, <1>4, <1>9, <2>1 DEF Serves
  <2>4. AllowIsFinal => AllowIsFinal'
    BY <1>1, <1>9 DEF AllowIsFinal, Holds
  <2> QED BY <1>1, <1>2, <2>2, <2>3, <2>4, SerialStep
<1>10. Heuristics \cup {"allow", "allow_once"} \subseteq Actions
  BY DEF Heuristics, Actions
<1> QED BY <1>3, <1>8, <1>9, <1>10

\* Alone, what is cleaned up is the expired row and no lasting one.
LEMMA PurgeSerial ==
    ASSUME IInv, Serial, NEW r \in Requests, Purge(r)
    PROVE  Serial'
<1>1. TypeOK /\ At(r, "purge") /\ UNCHANGED <<blocked, ruling, overlapped>>
  BY DEF IInv, Purge
<1>2. ~overlapped' => Agreed(allow, blocked, ruling) /\ Serves(request[r], allow, blocked, ruling)
  BY <1>1, WorksAlone DEF At
<1>3. ~overlapped => request[r].seen \in allow /\ request[r].seen.expires # Never
  BY <1>1, <1>2 DEF Serves, At
<1>4. ~overlapped => ~AllowInForce
  BY <1>1, <1>2, <1>3 DEF Agreed, AllowInForce, Permanent
<1>5. allow' \subseteq allow
  BY DEF Purge
<1>6. ~overlapped => Agreed(allow', blocked, ruling)
  BY <1>1, <1>2, <1>4, <1>5 DEF Agreed, AllowInForce, Permanent
<1>7. Checking(r) /\ Heuristics \subseteq Actions
  BY <1>1 DEF Checking, At, Heuristics, Actions
<1> QED BY <1>1, <1>4, <1>6, <1>7, DecidedSerial DEF Purge

\* The decision is the answer.
LEMMA RecordSerial ==
    ASSUME IInv, Serial, NEW r \in Requests, Record(r)
    PROVE  Serial'
<1>1. TypeOK /\ At(r, "record") /\ UNCHANGED <<allow, blocked, ruling, overlapped>>
  BY DEF IInv, Record, lists
<1>2. request'[r] = Idle /\ \A s \in Requests \ {r} : request'[s].pc = request[s].pc
  BY <1>1 DEF Record, End, TypeOK
<1>3. ~overlapped' => /\ ~overlapped /\ Alone(r)
                      /\ Agreed(allow, blocked, ruling) /\ Serves(request[r], allow, blocked, ruling)
  BY <1>1, WorksAlone DEF At
<1>4. Serves(Idle, allow', blocked', ruling')
  BY DEF Serves, Idle
<1>5. Serves(request[r], allow, blocked, ruling) => AllowIsFinal'
  BY <1>1 DEF Record, Serves, AllowIsFinal, Holds, At
<1> QED BY <1>1, <1>2, <1>3, <1>4, <1>5, SerialStep

\* Every step keeps it.
LEMMA SerialKept == ASSUME IInv, Serial, [Next]_vars PROVE Serial'
<1>1. CASE Tick \/ UNCHANGED vars
  <2>1. UNCHANGED <<allow, blocked, request, ruling, answer, overlapped>>
    BY <1>1 DEF Tick, vars, lists, histories
  <2> QED BY <2>1 DEF Serial, Alone, At, AllowIsFinal, Holds
<1>2. ASSUME NEW r \in Requests,
             \/ BlockVisit(r) \/ BeginRuling(r) \/ Lift(r) \/ Find(r) \/ Store(r)
             \/ StoreFails(r) \/ Audit(r)
             \/ BeginCheck(r) \/ ReadBlocklist(r) \/ ReadAllowlist(r) \/ Purge(r) \/ Record(r)
      PROVE  Serial'
  BY <1>2, BeginSerial, LiftSerial, FindSerial, StoreSerial, StoreFailsSerial, AuditSerial,
     ReadBlocklistSerial, ReadAllowlistSerial, PurgeSerial, RecordSerial
<1> QED BY <1>1, <1>2 DEF Next

(* A set without two elements has a cardinality of at most one. *)
LEMMA AtMostOne ==
    ASSUME NEW S, \A a, b \in S : a = b
    PROVE  Cardinality(S) <= 1
<1>1. CASE S = {}
  BY <1>1, FS_EmptySet
<1>2. CASE S # {}
  <2>1. PICK a \in S : S = {a}
    BY <1>2
  <2> QED BY <2>1, FS_Singleton
<1> QED BY <1>1, <1>2

(* record_decision clears one list before it writes the other, and _decide     *)
(* deletes expired rows: while requests do not overlap, every lasting ruling   *)
(* is the domain's answer, and the domain stands on one list only for good.    *)
THEOREM RulingsHoldAlone == Spec => []SerialRulings
<1>1. Init => Serial
  BY DEF Init, Serial, Alone, At, Idle, Agreed, Permanent, Serves, AllowIsFinal, Holds
<1>2. IInv /\ Serial => SerialRulings
  <2> SUFFICES ASSUME IInv, Serial, ~overlapped
               PROVE  /\ BlockIsFinal /\ AllowIsFinal
                      /\ Cardinality(allow) <= 1
                      /\ ~(blocked /\ \E a \in allow : a.expires = Never)
    BY DEF SerialRulings, SerialWordIsFinal, SerialListsAgree, WordIsFinal, AllowIsFinal
  <2>1. BlockIsFinal /\ AllowIsFinal /\ Agreed(allow, blocked, ruling)
    BY DEF IInv, BlockInForce, Serial
  <2>2. Cardinality(allow) <= 1
    BY <2>1, AtMostOne DEF Agreed
  <2> QED BY <2>1, <2>2 DEF Agreed, Permanent
<1> QED BY <1>1, <1>2, SerialKept, Invariance, PTL DEF Spec
=============================================================================
