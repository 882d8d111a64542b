------------------------------- MODULE Navigation -------------------------------
(***************************************************************************)
(* The browser extension's background worker, its blocked page and its     *)
(* popup, for one tab: every navigation of the tab is checked by a call of *)
(* its own, every decision in the popup is posted by another, and the      *)
(* answers come in any order, late, or never, while the user navigates on. *)
(***************************************************************************)
EXTENDS Naturals, Sequences

CONSTANTS
    Pages,           \* what the user navigates to, http or https
    Unwanted,        \* the pages that the agent answers block for at first
    MaxNavigations,  \* bound: navigations of the tab
    MaxClicks        \* bound: decisions in the popup

ASSUME NavigationAssumption ==
    Unwanted \subseteq Pages /\ MaxNavigations \in Nat /\ MaxClicks \in Nat

VARIABLES
    paired,     \* the extension has a token
    tab,        \* the page the tab is on, and whether it is our blocked page for it
    checks,     \* by navigation: its listener's page, step and outcome
    clicks,     \* the popup's decisions: on which tab, which, and their step
    condemned,  \* the pages that the agent answers block for
    badge       \* FALSE: the badge shows that the agent cannot be reached

navigationVars == <<paired, tab, checks, clicks, condemned, badge>>

Tabs == [page : Pages, blocked : BOOLEAN]
Decisions == {"allow", "block", "always_block"}

NavigationTypeOK ==
    /\ {paired, badge} \subseteq BOOLEAN
    /\ tab \in Tabs
    /\ checks \in Seq([page : Pages, at : {"asked", "settled", "told", "over"},
                       outcome : {"none", "block", "allow", "failed"}])
    /\ clicks \in Seq([on : Tabs, decision : Decisions,
                       at : {"asked", "answered", "shown", "over"}])
    /\ condemned \subseteq Pages

NavigationInit ==
    /\ paired \in BOOLEAN /\ badge = TRUE
    /\ \E p \in Pages \ Unwanted : tab = [page |-> p, blocked |-> FALSE]
    /\ checks = <<>> /\ clicks = <<>> /\ condemned = Unwanted

\* onBeforeNavigate; without a token the answer is allow, and nobody is asked.
Open(p) ==
    /\ Len(checks) < MaxNavigations
    /\ tab' = [page |-> p, blocked |-> FALSE]
    /\ checks' = Append(checks,
          IF paired THEN [page |-> p, at |-> "asked", outcome |-> "none"]
                    ELSE [page |-> p, at |-> "settled", outcome |-> "allow"])

Navigate(p) == Open(p) /\ UNCHANGED <<paired, clicks, condemned, badge>>

\* The options page stores a token or clears it.
Pair == paired' = ~paired /\ UNCHANGED <<tab, checks, clicks, condemned, badge>>

\* Allow on the blocked page: the page is opened whatever the agent answers.
Override ==
    /\ tab.blocked /\ paired
    /\ condemned' \in {condemned, condemned \ {tab.page}}
    /\ Open(tab.page)
    /\ UNCHANGED <<paired, clicks, badge>>

Verdict(p) == IF p \in condemned THEN "block" ELSE "allow"

Settle(i, outcome) ==
    /\ checks[i].at = "asked"
    /\ checks' = [checks EXCEPT ![i].at = "settled", ![i].outcome = outcome]
    /\ UNCHANGED <<paired, tab, clicks, condemned, badge>>

Answer(i) == Settle(i, Verdict(checks[i].page))

\* Two seconds have passed, the agent cannot be reached, or it refuses.
NoAnswer(i) == Settle(i, "failed")

SetBadge(i) ==
    /\ checks[i].at = "settled"
    /\ badge' = (checks[i].outcome # "failed")
    /\ checks' = [checks EXCEPT ![i].at = "told"]
    /\ UNCHANGED <<paired, tab, clicks, condemned>>

\* Fault: a page that was checked before is not redirected again.
FinishOnce(i) ==
    /\ checks[i].at = "told"
    /\ checks' = [checks EXCEPT ![i].at = "over"]
    /\ tab' = IF checks[i].outcome = "block" /\ \A j \in 1..(i - 1) : checks[j].page # checks[i].page
                THEN [page |-> checks[i].page, blocked |-> TRUE] ELSE tab
    /\ UNCHANGED <<paired, clicks, condemned, badge>>

\* tabs.update goes to the tab, wherever the user is by now.
Finish(i) ==
    /\ checks[i].at = "told"
    /\ checks' = [checks EXCEPT ![i].at = "over"]
    /\ tab' = IF checks[i].outcome = "block" THEN [page |-> checks[i].page, blocked |-> TRUE] ELSE tab
    /\ UNCHANGED <<paired, clicks, condemned, badge>>

\* A button of the popup: it reads the tab's address, then the token.
Decide(decision) ==
    /\ paired /\ Len(clicks) < MaxClicks
    /\ clicks' = Append(clicks, [on |-> tab, decision |-> decision, at |-> "asked"])
    /\ UNCHANGED <<paired, tab, checks, condemned, badge>>

\* What the agent makes of it if it accepts it; the address of a blocked page
\* is none that anybody opens.
Ruled(click) ==
    CASE click.on.blocked \/ click.decision = "block" -> condemned
      [] click.decision = "allow" -> condemned \ {click.on.page}
      [] OTHER -> condemned \cup {click.on.page}

\* Any JSON counts as the answer, a refusal too; without one the popup stops,
\* even if the agent has ruled.
Heard(j) ==
    /\ clicks[j].at = "asked"
    /\ condemned' \in {condemned, Ruled(clicks[j])}
    /\ \E at \in {"answered", "over"} :
          /\ at = "answered" => clicks[j].decision # "allow"
          /\ clicks' = [clicks EXCEPT ![j].at = at]
    /\ UNCHANGED <<paired, tab, checks, badge>>

\* After Block the tab shows the blocked page, wherever the user is by now.
ShowBlocked(j) ==
    /\ clicks[j].at = "answered"
    /\ clicks' = [clicks EXCEPT ![j].at = "shown"]
    /\ tab' = [page |-> clicks[j].on.page, blocked |-> TRUE]
    /\ UNCHANGED <<paired, checks, condemned, badge>>

NavigationNext ==
    \/ \E p \in Pages : Navigate(p)
    \/ Pair \/ Override
    \/ \E i \in 1..Len(checks) : Answer(i) \/ NoAnswer(i) \/ SetBadge(i) \/ Finish(i)
    \/ \E d \in Decisions : Decide(d)
    \/ \E j \in 1..Len(clicks) : Heard(j) \/ ShowBlocked(j)

NavigationSpec == NavigationInit /\ [][NavigationNext]_navigationVars
-----------------------------------------------------------------------------
(* Properties *)

(***************************************************************************)
(* However the calls of several navigations overtake each other and the    *)
(* decisions in the popup: once the calls are over, the tab is not on a    *)
(* page that the agent blocked in time when it was opened last; and a      *)
(* blocked page stands only for a page that the agent did block or that    *)
(* the user blocked in the popup (the listener of chrome/background.js,    *)
(* sendDecision of chrome/popup.js; the redirect of either may hit another *)
(* page than the one it is about, and the popup's comes even if the agent  *)
(* refused the decision).                                                  *)
(***************************************************************************)
BlockedIsLeft ==
    /\ tab.blocked =>
          \/ \E i \in 1..Len(checks) :
                checks[i].page = tab.page /\ checks[i].outcome = "block"
          \/ \E j \in 1..Len(clicks) :
                /\ clicks[j].on.page = tab.page
                /\ clicks[j].decision # "allow" /\ clicks[j].at = "shown"
    /\ checks # <<>> /\ (\A i \in 1..Len(checks) : checks[i].at = "over")
           /\ checks[Len(checks)].outcome = "block" => tab.blocked
=============================================================================
