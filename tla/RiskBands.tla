------------------------------ MODULE RiskBands ------------------------------
(***************************************************************************)
(* Risk scores and severity bands (detection/risk.py), the configuration   *)
(* check on the band limits (RiskConfig in config/settings.py) and the two *)
(* places that put a declared severity and a computed risk in one record:  *)
(* the alerts of the condition rules and the incidents of the correlation  *)
(* scenarios (monitors/correlation_monitor.py).                            *)
(*                                                                         *)
(* A severity is its rank, from 0 (informational) to 4 (critical), and     *)
(* limits[s] is the highest risk of band s: informational_max, low_max,    *)
(* medium_max and high_max.  Critical has no limit.                        *)
(***************************************************************************)
EXTENDS Integers, FiniteSets

CONSTANTS
    MaxRisk,      \* the highest score a detector gives: 100
    MaxStored     \* bound: stored events

ASSUME RiskBandsAssumption ==
    /\ MaxRisk \in Nat
    /\ MaxStored \in Nat

VARIABLES
    limits, \* the RiskConfig the agent runs with
    events, \* stored events: their risk_score and severity
    alert   \* the alert raised last: its risk_score and severity

vars == <<limits, events, alert>>

Severity == 0..4

\* Fault: a risk equal to the limit belongs to the band above.
SeverityForRiskAtLimit(risk) ==
    CHOOSE s \in Severity :
        /\ s = 4 \/ risk < limits[s]
        /\ \A t \in 0..(s - 1) : risk >= limits[t]

\* severity_for_risk: the first band whose limit the risk does not exceed.
SeverityForRisk(risk) ==
    CHOOSE s \in Severity :
        /\ s = 4 \/ risk <= limits[s]
        /\ \A t \in 0..(s - 1) : risk > limits[t]

\* Fault: the floor is the limit of the band below itself.
SeverityFloorAtLimit(s) == IF s = 0 THEN 0 ELSE limits[s - 1]

\* severity_floor: one more than the limit of the band below.
SeverityFloor(s) == IF s = 0 THEN 0 ELSE limits[s - 1] + 1

\* RiskConfig._ordered compares the limits with their sorted list, so that it
\* lets equal limits pass.
Accepted == {l \in [0..3 -> 0..MaxRisk] : \A s \in 1..3 : l[s - 1] <= l[s]}

Increasing(l) == \A s \in 1..3 : l[s - 1] < l[s]

Rating(risks) == [risk : risks, severity : Severity]

TypeOK ==
    /\ limits \in Accepted
    /\ events \in SUBSET Rating(0..MaxRisk)
    /\ alert \in Rating(0..(MaxRisk + 1))

Init ==
    /\ limits \in Accepted
    /\ events = {}
    /\ alert = [risk |-> 0, severity |-> 0]

\* Every monitor and route rates the event it stores with severity_for_risk.
StoreEvent ==
    /\ Cardinality(events) < MaxStored
    /\ \E risk \in 0..MaxRisk :
          events' = events \cup {[risk |-> risk, severity |-> SeverityForRisk(risk)]}
    /\ UNCHANGED <<limits, alert>>

Larger(a, b) == IF a >= b THEN a ELSE b

\* A condition rule of severity s matched the event: the alert takes the
\* larger severity and the larger risk of the two.
RaiseAlert ==
    /\ \E e \in events, s \in Severity :
          alert' = [risk |-> Larger(e.risk, SeverityFloor(s)),
                    severity |-> Larger(e.severity, s)]
    /\ UNCHANGED <<limits, events>>

\* A scenario matched some events: the incident and its alert take the largest
\* severity among theirs and the scenario's, and the floor of that severity.
RaiseIncident ==
    /\ \E matched \in (SUBSET events) \ {{}}, declared, s \in Severity :
          LET all == {declared} \cup {e.severity : e \in matched} IN
          /\ s \in all
          /\ \A t \in all : t <= s
          /\ alert' = [risk |-> SeverityFloor(s), severity |-> s]
    /\ UNCHANGED <<limits, events>>

Next == StoreEvent \/ RaiseAlert \/ RaiseIncident

Spec == Init /\ [][Next]_vars
-----------------------------------------------------------------------------
(* risk.py:38-39 calls the floor the inverse of severity_for_risk: the risk  *)
(* and the severity of an alert name the same band, however the two were     *)
(* merged, under every configuration the check accepts.                      *)
BandsAgree == SeverityForRisk(alert.risk) = alert.severity

(* ... which they do under limits that increase strictly, as the message of  *)
(* the configuration check asks: an alert list sorted by one agrees with the *)
(* other.                                                                    *)
StrictBandsAgree == Increasing(limits) => BandsAgree

(* Whatever limits the configuration check lets pass, an alert's risk never  *)
(* falls in a band below its severity.                                       *)
RiskCoversSeverity == SeverityForRisk(alert.risk) >= alert.severity
=============================================================================
