--------------------------- MODULE WebsiteDecisions ---------------------------
(***************************************************************************)
(* The website routes of the agent (api/routes/websites.py): the checks    *)
(* the browser extensions make on every navigation and the decisions the   *)
(* user takes on a blocked page, over the allowlist and blocklist tables.  *)
(*                                                                         *)
(* FastAPI runs these handlers on a pool of threads, each with a session   *)
(* of its own.  Every statement that reads and every commit is a step here:*)
(* SQLite serialises the commits, and nothing holds a lock between a       *)
(* SELECT and the commit that depends on it.  Requests about different     *)
(* domains touch different rows, so one domain is modelled.  The Website,  *)
(* Event and audit rows a handler adds are read by none of these handlers; *)
(* the commits that add them are the handlers' last steps.                 *)
(***************************************************************************)
EXTENDS Integers, FiniteSets

CONSTANTS
    Requests,          \* the pool's threads, each serving one request at a time
    AllowOnceDuration, \* _ALLOW_ONCE_DURATION, in ticks of the clock
    MaxTime,           \* bound: the last tick
    MaxRows,           \* bound: the largest row id
    Never, None        \* expires_at NULL; no row, no ruling in force

ASSUME WebsiteDecisionsAssumption ==
    /\ AllowOnceDuration \in Nat
    /\ MaxTime \in Nat
    /\ MaxRows \in Nat
    /\ Never \notin Int
    /\ None # Never /\ None \notin [id : 1..MaxRows, expires : Int \cup {Never}]

VARIABLES
    now,     \* the clock
    allow,   \* the domain's rows in allowlist
    blocked, \* the domain has rows in blocklist (only their presence is used)
    request, \* what each thread is doing
    ruling,  \* history: the user's latest ruling; None while one is being made,
             \* or when it was made at the same time as another
    answer,  \* history: the latest answer, when its list was read and the
             \* ruling it is held to
    lastOnce, \* history: when the latest allow_once read the clock
    overlapped \* history: a request has come before another was answered

lists == <<allow, blocked>>
histories == <<ruling, answer, lastOnce, overlapped>>
vars == <<now, lists, request, histories>>

Rulings == {"always_allow", "always_block", "allow_once"}
Kinds == Rulings \cup {"block", "check", "lookup"}
Actions == {"none", "allow", "allow_once", "block"}

\* What analyze_url's severity leads to: it depends on more of the URL than
\* the domain, so that either may come out.
Heuristics == {"allow", "block"}
Expiry == Int \cup {Never}
Row == [id : 1..MaxRows, expires : Expiry]
Ruling == [kind : Rulings, until : Expiry]

\* A thread between two requests.  clear: no ruling was under way when the
\* request came, and none has begun since.
Idle == [kind |-> "none", pc |-> "idle", clear |-> TRUE,
         seen |-> None, expires |-> Never, action |-> "none"]

Thread ==
    [kind : Kinds \cup {"none"},
     pc : {"idle", "lift", "find", "store", "audit",
           "blocklist", "allowlist", "purge", "record"},
     clear : BOOLEAN,
     seen : Row \cup {None},
     expires : Expiry,
     action : Actions]

TypeOK ==
    /\ now \in 0..MaxTime
    /\ allow \in SUBSET Row
    /\ \A a, b \in allow : a.id = b.id => a = b
    /\ blocked \in BOOLEAN
    /\ request \in [Requests -> Thread]
    /\ ruling \in Ruling \cup {None}
    /\ answer \in [action : Actions, at : 0..MaxTime, ruling : Ruling \cup {None}]
    /\ lastOnce \in 0..MaxTime
    /\ overlapped \in BOOLEAN

Init ==
    /\ now = 0
    /\ allow = {}
    /\ blocked = FALSE
    /\ request = [r \in Requests |-> Idle]
    /\ ruling = None
    /\ answer = [action |-> "none", at |-> 0, ruling |-> None]
    /\ lastOnce = 0
    /\ overlapped = FALSE
-----------------------------------------------------------------------------
Tick ==
    /\ now < MaxTime
    /\ now' = now + 1
    /\ UNCHANGED <<lists, request, histories>>

At(r, pc) == request[r].pc = pc
Kind(r) == request[r].kind
Goto(r, pc) == request' = [request EXCEPT ![r].pc = pc]
End(r) == request' = [request EXCEPT ![r] = Idle]

Ruler(r) == Kind(r) \in Rulings
Quiet == ~ \E r \in Requests : Ruler(r)

\* A thread of the pool takes a request, whatever the others do.
Arrives(r) ==
    /\ At(r, "idle")
    /\ overlapped' = (overlapped \/ \E s \in Requests : ~At(s, "idle"))

\* _find_list_entry: the domain's first row in the order of their ids, or None.
Found ==
    IF allow = {} THEN {None} ELSE {a \in allow : \A b \in allow : a.id <= b.id}

\* Fault: a new row takes the largest id itself.
NewIdLargest ==
    {n \in 0..MaxRows : /\ \A a \in allow : a.id <= n
                        /\ n = 0 \/ \E a \in allow : a.id = n}

\* SQLite gives a new row the id after the largest one in the table.
NewId ==
    {n \in 1..MaxRows : /\ \A a \in allow : a.id < n
                        /\ n = 1 \/ \E a \in allow : a.id = n - 1}
-----------------------------------------------------------------------------
(* record_decision *)

\* "block" is for this visit: it is only audited.
BlockVisit(r) ==
    /\ Arrives(r)
    /\ request' = [request EXCEPT ![r].kind = "block", ![r].pc = "audit"]
    /\ UNCHANGED <<now, lists, ruling, answer, lastOnce>>

\* Until it ends, nobody can be held to a ruling: neither this nor any other.
BeginRuling(r) ==
    /\ Arrives(r)
    /\ \E kind \in Rulings :
          request' = [s \in Requests |->
              IF s = r
              THEN [Idle EXCEPT !.kind = kind, !.clear = Quiet,
                                !.pc = IF kind = "allow_once" THEN "find" ELSE "lift"]
              ELSE [request[s] EXCEPT !.clear = FALSE]]
    /\ ruling' = None
    /\ UNCHANGED <<now, lists, answer, lastOnce>>

\* Fault: always_allow leaves the domain on the blocklist.
LiftNotBlock(r) ==
    /\ At(r, "lift")
    /\ allow' = IF Kind(r) = "always_block" THEN {} ELSE allow
    /\ Goto(r, "find")
    /\ UNCHANGED <<now, blocked, histories>>

\* _remove_list_entry on the opposite list, committed.
Lift(r) ==
    /\ At(r, "lift")
    /\ \/ Kind(r) = "always_allow" /\ blocked' = FALSE /\ UNCHANGED allow
       \/ Kind(r) = "always_block" /\ allow' = {} /\ UNCHANGED blocked
    /\ Goto(r, "find")
    /\ UNCHANGED <<now, histories>>

\* _upsert_list_entry looks for a row; allow_once has computed expires_at.  A
\* blocklist row that is there says the same already: it is not written again,
\* even if it is gone by then.
Find(r) ==
    /\ At(r, "find")
    /\ \/ /\ Kind(r) = "allow_once"
          /\ \E row \in Found :
                request' = [request EXCEPT ![r].pc = "store", ![r].seen = row,
                                           ![r].expires = now + AllowOnceDuration]
          /\ lastOnce' = now
       \/ /\ Kind(r) = "always_allow"
          /\ \E row \in Found :
                request' = [request EXCEPT ![r].pc = "store", ![r].seen = row]
          /\ UNCHANGED lastOnce
       \/ /\ Kind(r) = "always_block"
          /\ Goto(r, IF blocked THEN "audit" ELSE "store")
          /\ UNCHANGED lastOnce
    /\ UNCHANGED <<now, lists, ruling, answer, overlapped>>

\* The row Find saw already says what the decision says: no UPDATE is sent.
\* Two values of expires_at, being computed to the microsecond, never agree.
SameRow(r) ==
    /\ request[r].seen # None
    /\ request[r].seen.expires = Never
    /\ request[r].expires = Never

SeenIsGone(r) == request[r].seen # None /\ ~ \E a \in allow : a.id = request[r].seen.id

\* ... and then inserts a row or updates the one it found.  (A second blocklist
\* row changes nothing.)
Store(r) ==
    /\ At(r, "store")
    /\ \/ Kind(r) = "always_block" /\ blocked' = TRUE /\ UNCHANGED allow
       \/ Kind(r) # "always_block" /\ SameRow(r) /\ UNCHANGED lists
       \/ /\ Kind(r) # "always_block" /\ ~SameRow(r) /\ ~SeenIsGone(r)
          /\ \E id \in IF request[r].seen = None THEN NewId ELSE {request[r].seen.id} :
                allow' = {a \in allow : a.id # id} \cup {[id |-> id, expires |-> request[r].expires]}
          /\ UNCHANGED blocked
    /\ Goto(r, "audit")
    /\ UNCHANGED <<now, histories>>

\* The update of a row that is gone raises, and the decision is lost: 500.
StoreFails(r) ==
    /\ At(r, "store")
    /\ Kind(r) # "always_block" /\ ~SameRow(r) /\ SeenIsGone(r)
    /\ End(r)
    /\ UNCHANGED <<now, lists, histories>>

\* log_admin_action commits its row, and the user is told what was applied.
Audit(r) ==
    /\ At(r, "audit")
    /\ ruling' = IF Ruler(r)
                 THEN IF request[r].clear
                      THEN [kind |-> Kind(r), until |-> request[r].expires]
                      ELSE None
                 ELSE ruling
    /\ End(r)
    /\ UNCHANGED <<now, lists, answer, lastOnce, overlapped>>
-----------------------------------------------------------------------------
(* check_website and lookup_website *)

BeginCheck(r) ==
    /\ Arrives(r)
    /\ \E kind \in {"check", "lookup"} :
          request' = [request EXCEPT ![r].kind = kind, ![r].pc = "blocklist", ![r].clear = Quiet]
    /\ UNCHANGED <<now, lists, ruling, answer, lastOnce>>

\* lookup answers at once; check first commits a Website row and an Event.
Decided(r, action) ==
    IF Kind(r) = "lookup"
    THEN /\ answer' = [action |-> action, at |-> now,
                       ruling |-> IF request[r].clear THEN ruling ELSE None]
         /\ End(r)
    ELSE /\ request' = [request EXCEPT ![r].pc = "record", ![r].action = action,
                                       ![r].expires = now]
         /\ UNCHANGED answer

\* _decide: the blocklist goes first.
ReadBlocklist(r) ==
    /\ At(r, "blocklist")
    /\ \/ blocked /\ Decided(r, "block")
       \/ ~blocked /\ Goto(r, "allowlist") /\ UNCHANGED answer
    /\ UNCHANGED <<now, lists, ruling, lastOnce, overlapped>>

\* Fault: the expiry of a row is not looked at.
ReadAllowlistForever(r) ==
    /\ At(r, "allowlist")
    /\ \E row \in Found :
          \/ row = None /\ \E action \in Heuristics : Decided(r, action)
          \/ row # None /\ Decided(r, IF row.expires = Never THEN "allow" ELSE "allow_once")
    /\ UNCHANGED <<now, lists, ruling, lastOnce, overlapped>>

\* Then the allowlist; the first row counts until its expiry has passed.
ReadAllowlist(r) ==
    /\ At(r, "allowlist")
    /\ \E row \in Found :
          \/ row = None /\ \E action \in Heuristics : Decided(r, action)
          \/ row # None /\ row.expires = Never /\ Decided(r, "allow")
          \/ /\ row # None /\ row.expires # Never /\ row.expires >= now
             /\ Decided(r, "allow_once")
          \/ /\ row # None /\ row.expires # Never /\ row.expires < now
             /\ request' = [request EXCEPT ![r].pc = "purge", ![r].seen = row]
             /\ UNCHANGED answer
    /\ UNCHANGED <<now, lists, ruling, lastOnce, overlapped>>

\* Fault: what the cleanup finds expired it takes off both lists.
PurgeBothLists(r) ==
    /\ At(r, "purge")
    /\ allow' = {a \in allow : a.id # request[r].seen.id}
    /\ blocked' = FALSE
    /\ \E action \in Heuristics : Decided(r, action)
    /\ UNCHANGED <<now, ruling, lastOnce, overlapped>>

\* The expired row is deleted by its id, and the heuristic decides.
Purge(r) ==
    /\ At(r, "purge")
    /\ allow' = {a \in allow : a.id # request[r].seen.id}
    /\ \E action \in Heuristics : Decided(r, action)
    /\ UNCHANGED <<now, blocked, ruling, lastOnce, overlapped>>

Record(r) ==
    /\ At(r, "record")
    /\ answer' = [action |-> request[r].action, at |-> request[r].expires,
                  ruling |-> IF request[r].clear THEN ruling ELSE None]
    /\ End(r)
    /\ UNCHANGED <<now, lists, ruling, lastOnce, overlapped>>
-----------------------------------------------------------------------------
Next ==
    \/ Tick
    \/ \E r \in Requests :
          \/ BlockVisit(r) \/ BeginRuling(r) \/ Lift(r) \/ Find(r) \/ Store(r)
          \/ StoreFails(r) \/ Audit(r)
          \/ BeginCheck(r) \/ ReadBlocklist(r) \/ ReadAllowlist(r) \/ Purge(r) \/ Record(r)

Spec == Init /\ [][Next]_vars
-----------------------------------------------------------------------------
Holds(kind) == answer.ruling # None /\ answer.ruling.kind = kind

(* A check that begins after the user blocked a domain for good, and ends     *)
(* before the user rules on it again, is answered "block" - with any number   *)
(* of checks, cleanups and earlier rulings interleaved.                       *)
BlockIsFinal == Holds("always_block") => answer.action = "block"

(* "The user's explicit word is final" (websites.py:4-5): the same for both   *)
(* of the decisions that are taken for good.                                  *)
WordIsFinal ==
    /\ BlockIsFinal
    /\ Holds("always_allow") => answer.action = "allow"

(* ... which holds as long as requests do not overlap.  (When they do, the    *)
(* cleanup of an expired row may delete the row a ruling has just renewed.)   *)
SerialWordIsFinal == ~overlapped => WordIsFinal

(* Nobody is let in on a temporary permission longer than the hour after the  *)
(* latest Allow Once, whatever was updated, duplicated or cleaned up meanwhile.*)
OnceEnds == answer.action = "allow_once" => answer.at <= lastOnce + AllowOnceDuration

(* Where requests do not overlap the domain has one allowlist row at most, and*)
(* never stands on both lists for good.                                       *)
SerialListsAgree ==
    ~overlapped /\ (\A r \in Requests : At(r, "idle")) =>
        /\ Cardinality(allow) <= 1
        /\ ~(blocked /\ \E a \in allow : a.expires = Never)

(* Where requests do not overlap, every lasting ruling is the domain's answer *)
(* and stands on one list only, whatever temporary permissions and cleanups   *)
(* came before it (record_decision and _decide of api/routes/websites.py).    *)
SerialRulings == SerialWordIsFinal /\ SerialListsAgree
=============================================================================
