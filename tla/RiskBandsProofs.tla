--------------------------- MODULE RiskBandsProofs ---------------------------
(***************************************************************************)
(* For every MaxRisk and every configuration RiskConfig accepts, an alert's*)
(* risk is never in a band below its severity; with strictly increasing    *)
(* limits the two always name the same band.                               *)
(***************************************************************************)
EXTENDS RiskBands, TLAPS

(* What severity_for_risk returns: the one band that holds the risk. *)
LEMMA BandOfRisk ==
    ASSUME limits \in Accepted, NEW risk \in Int
    PROVE  /\ SeverityForRisk(risk) \in Severity
           /\ SeverityForRisk(risk) = 4 \/ risk <= limits[SeverityForRisk(risk)]
           /\ \A t \in 0..(SeverityForRisk(risk) - 1) : risk > limits[t]
<1> DEFINE Holds(s) == /\ s = 4 \/ risk <= limits[s]
                       /\ \A t \in 0..(s - 1) : risk > limits[t]
<1>1. \E s \in Severity : Holds(s)
  <2>1. \A t \in 0..3 : limits[t] \in Int
    BY RiskBandsAssumption DEF Accepted
  <2>2. CASE risk <= limits[0]
    <3>1. Holds(0)
      BY <2>2
    <3> QED BY <3>1 DEF Severity
  <2>3. CASE risk > limits[0] /\ risk <= limits[1]
    <3>1. Holds(1)
      BY <2>3
    <3> QED BY <3>1 DEF Severity
  <2>4. CASE risk > limits[0] /\ risk > limits[1] /\ risk <= limits[2]
    <3>1. \A t \in 0..1 : t = 0 \/ t = 1
      OBVIOUS
    <3>2. Holds(2)
      BY <2>4, <3>1
    <3> QED BY <3>2 DEF Severity
  <2>5. CASE risk > limits[0] /\ risk > limits[1] /\ risk > limits[2] /\ risk <= limits[3]
    <3>1. \A t \in 0..2 : t = 0 \/ t = 1 \/ t = 2
      OBVIOUS
    <3>2. Holds(3)
      BY <2>5, <3>1
    <3> QED BY <3>2 DEF Severity
  <2>6. CASE \A t \in 0..3 : risk > limits[t]
    <3>1. Holds(4)
      BY <2>6
    <3> QED BY <3>1 DEF Severity
  <2> QED BY <2>1, <2>2, <2>3, <2>4, <2>5, <2>6
<1>2. SeverityForRisk(risk) = CHOOSE s \in Severity : Holds(s)
  BY DEF SeverityForRisk
<1> HIDE DEF Holds
<1>3. SeverityForRisk(risk) \in Severity /\ Holds(SeverityForRisk(risk))
  BY <1>1, <1>2
<1> QED BY <1>3 DEF Holds

(* The limits of lower bands are lower, and strictly so when neighbours are. *)
LEMMA LimitsOrdered ==
    ASSUME limits \in Accepted
    PROVE  /\ \A s \in 0..3 : limits[s] \in Int
           /\ \A s, t \in 0..3 : s <= t => limits[s] <= limits[t]
           /\ Increasing(limits) => \A s, t \in 0..3 : s < t => limits[s] < limits[t]
<1>1. \A s \in 0..3 : limits[s] \in Int
  BY RiskBandsAssumption DEF Accepted
<1>2. limits[0] <= limits[1] /\ limits[1] <= limits[2] /\ limits[2] <= limits[3]
  BY DEF Accepted
<1>3. \A s \in 0..3 : s = 0 \/ s = 1 \/ s = 2 \/ s = 3
  OBVIOUS
<1>4. \A s, t \in 0..3 : s <= t => limits[s] <= limits[t]
  BY <1>1, <1>2, <1>3
<1>5. ASSUME Increasing(limits)
      PROVE  \A s, t \in 0..3 : s < t => limits[s] < limits[t]
  <2>1. limits[0] < limits[1] /\ limits[1] < limits[2] /\ limits[2] < limits[3]
    BY <1>5 DEF Increasing
  <2> QED BY <1>1, <1>3, <2>1
<1> QED BY <1>1, <1>4, <1>5

(* A risk is in the band s or a higher one exactly when it reaches the floor *)
(* of s, for every configuration the check accepts.                          *)
LEMMA FloorReached ==
    ASSUME limits \in Accepted, NEW risk \in Nat, NEW s \in Severity
    PROVE  SeverityForRisk(risk) >= s <=> risk >= SeverityFloor(s)
<1> DEFINE b == SeverityForRisk(risk)
<1>1. /\ b \in Severity
      /\ b = 4 \/ risk <= limits[b]
      /\ \A t \in 0..(b - 1) : risk > limits[t]
  BY BandOfRisk
<1> HIDE DEF b
<1>2. CASE s = 0
  BY <1>1, <1>2 DEF Severity, SeverityFloor, b
<1>3. CASE s # 0
  <2>1. s - 1 \in 0..3 /\ SeverityFloor(s) = limits[s - 1] + 1 /\ limits[s - 1] \in Int
    BY <1>3, LimitsOrdered DEF Severity, SeverityFloor
  <2>2. ASSUME b >= s PROVE risk >= SeverityFloor(s)
    <3>1. s - 1 \in 0..(b - 1)
      BY <1>1, <1>3, <2>2 DEF Severity
    <3> QED BY <1>1, <2>1, <3>1
  <2>3. ASSUME b < s PROVE risk < SeverityFloor(s)
    <3>1. b \in 0..3 /\ b <= s - 1
      BY <1>1, <2>3 DEF Severity
    <3>2. risk <= limits[b] /\ limits[b] <= limits[s - 1] /\ limits[b] \in Int
      BY <1>1, <2>1, <3>1, LimitsOrdered
    <3> QED BY <2>1, <3>2
  <2>4. b \in Int /\ s \in Int /\ SeverityFloor(s) \in Int
    BY <1>1, <2>1 DEF Severity
  <2> QED BY <2>2, <2>3, <2>4 DEF b
<1> QED BY <1>2, <1>3

(* With strictly increasing limits the floor of a severity lies in its own band: *)
(* severity_floor is the inverse of severity_for_risk that risk.py says it is.    *)
LEMMA FloorInBand ==
    ASSUME limits \in Accepted, Increasing(limits), NEW s \in Severity
    PROVE  SeverityForRisk(SeverityFloor(s)) = s
<1>1. SeverityFloor(s) \in Nat
  BY RiskBandsAssumption DEF Accepted, Severity, SeverityFloor
<1> DEFINE b == SeverityForRisk(SeverityFloor(s))
<1>2. b \in Severity /\ b >= s
  BY <1>1, BandOfRisk, FloorReached DEF Severity
<1>3. ASSUME b > s PROVE FALSE
  <2>1. s + 1 \in Severity /\ b >= s + 1
    BY <1>2, <1>3 DEF Severity
  <2>2. SeverityFloor(s) >= SeverityFloor(s + 1)
    BY <1>1, <2>1, FloorReached
  <2>3. SeverityFloor(s + 1) = limits[s] + 1 /\ s \in 0..3
    BY <2>1 DEF Severity, SeverityFloor
  <2>4. CASE s = 0
    BY <2>2, <2>3, <2>4, RiskBandsAssumption DEF SeverityFloor, Accepted
  <2>5. CASE s # 0
    <3>1. s - 1 \in 0..3 /\ SeverityFloor(s) = limits[s - 1] + 1
      BY <2>3, <2>5 DEF Severity, SeverityFloor
    <3> QED BY <2>2, <2>3, <3>1, LimitsOrdered
  <2> QED BY <2>4, <2>5
<1> QED BY <1>2, <1>3 DEF Severity

\* Events are rated by severity_for_risk, and what the merges must keep.
IInv ==
    /\ TypeOK
    /\ \A e \in events : e.severity = SeverityForRisk(e.risk)
    /\ RiskCoversSeverity
    /\ StrictBandsAgree

\* No event, no alert.
LEMMA Initially == Init => IInv
<1> SUFFICES ASSUME Init PROVE IInv
  OBVIOUS
<1>1. TypeOK
  BY RiskBandsAssumption DEF Init, TypeOK, Rating, Severity
<1>2. limits \in Accepted /\ alert.risk = 0 /\ alert.severity = 0 /\ events = {}
  BY DEF Init
<1>3. SeverityForRisk(0) \in Severity
  BY <1>2, BandOfRisk
<1>4. SeverityForRisk(0) = 0
  <2>1. \A t \in 0..(SeverityForRisk(0) - 1) : 0 > limits[t]
    BY <1>2, BandOfRisk
  <2>2. limits[0] >= 0 /\ limits[0] \in Int
    BY <1>2, RiskBandsAssumption DEF Accepted
  <2> QED BY <1>3, <2>1, <2>2 DEF Severity
<1> QED BY <1>1, <1>2, <1>4 DEF IInv, RiskCoversSeverity, StrictBandsAgree, BandsAgree

\* The floor of a severity is a risk an alert may have.
LEMMA FloorType ==
    ASSUME limits \in Accepted, NEW s \in Severity
    PROVE  SeverityFloor(s) \in 0..(MaxRisk + 1)
<1>1. CASE s = 0
  BY <1>1, RiskBandsAssumption DEF SeverityFloor
<1>2. CASE s # 0
  <2>1. s - 1 \in 0..3
    BY <1>2 DEF Severity
  <2>2. limits[s - 1] \in 0..MaxRisk
    BY <2>1 DEF Accepted
  <2> QED BY <1>2, <2>2, RiskBandsAssumption DEF SeverityFloor
<1> QED BY <1>1, <1>2

\* The merge of a condition rule keeps what its two sides have.
LEMMA MergeAgrees ==
    ASSUME limits \in Accepted, NEW e \in Rating(0..MaxRisk), NEW s \in Severity,
           e.severity = SeverityForRisk(e.risk)
    PROVE  LET a == [risk |-> Larger(e.risk, SeverityFloor(s)),
                     severity |-> Larger(e.severity, s)]
           IN  /\ a \in Rating(0..(MaxRisk + 1))
               /\ SeverityForRisk(a.risk) >= a.severity
               /\ Increasing(limits) => SeverityForRisk(a.risk) = a.severity
<1> DEFINE risk == Larger(e.risk, SeverityFloor(s))
           severity == Larger(e.severity, s)
<1>1. /\ e.risk \in 0..MaxRisk /\ e.risk \in Nat /\ e.severity \in Severity
      /\ SeverityFloor(s) \in 0..(MaxRisk + 1) /\ SeverityFloor(s) \in Nat
  BY FloorType, RiskBandsAssumption DEF Rating
<1>2. /\ risk \in 0..(MaxRisk + 1) /\ risk \in Nat
      /\ severity \in Severity
  BY <1>1, RiskBandsAssumption DEF Larger, Severity
<1>3. SeverityForRisk(risk) >= severity
  <2>1. SeverityForRisk(risk) >= s
    BY <1>1, <1>2, FloorReached DEF Larger
  <2>2. SeverityForRisk(risk) >= e.severity
    <3>1. e.severity >= e.severity
      BY <1>1 DEF Severity
    <3>2. e.risk >= SeverityFloor(e.severity)
      BY <1>1, <3>1, FloorReached
    <3>3. SeverityFloor(e.severity) \in Nat
      BY <1>1, FloorType, RiskBandsAssumption
    <3>4. risk >= SeverityFloor(e.severity)
      BY <1>1, <3>2, <3>3 DEF Larger
    <3> QED BY <1>1, <1>2, <3>4, FloorReached
  <2> QED BY <2>1, <2>2 DEF Larger
<1>4. ASSUME Increasing(limits) PROVE SeverityForRisk(risk) = severity
  <2>1. CASE e.risk >= SeverityFloor(s)
    <3>1. risk = e.risk /\ e.severity >= s
      BY <1>1, <2>1, FloorReached DEF Larger
    <3> QED BY <3>1 DEF Larger
  <2>2. CASE e.risk < SeverityFloor(s)
    <3>1. risk = SeverityFloor(s) /\ ~(e.severity >= s)
      BY <1>1, <2>2, FloorReached DEF Larger
    <3>2. SeverityForRisk(risk) = s
      BY <1>4, <3>1, FloorInBand
    <3> QED BY <3>1, <3>2 DEF Larger
  <2> QED BY <1>1, <2>1, <2>2
<1>5. [risk |-> risk, severity |-> severity] \in Rating(0..(MaxRisk + 1))
  BY <1>2 DEF Rating
<1> QED BY <1>3, <1>4, <1>5

\* Storing an event and both ways of merging keep the invariant.
LEMMA Preserved == IInv /\ [Next]_vars => IInv'
<1> SUFFICES ASSUME IInv, [Next]_vars PROVE IInv'
  OBVIOUS
<1>1. limits \in Accepted
  BY DEF IInv, TypeOK
<1>2. CASE StoreEvent
  <2>1. PICK risk \in 0..MaxRisk :
            events' = events \cup {[risk |-> risk, severity |-> SeverityForRisk(risk)]}
    BY <1>2 DEF StoreEvent
  <2>2. UNCHANGED <<limits, alert>>
    BY <1>2 DEF StoreEvent
  <2>3. SeverityForRisk(risk) \in Severity
    BY <1>1, RiskBandsAssumption, BandOfRisk
  <2>4. TypeOK'
    BY <2>1, <2>2, <2>3 DEF IInv, TypeOK, Rating, Accepted, Increasing
  <2>5. \A e \in events' : e.severity = SeverityForRisk(e.risk)
    BY <2>1 DEF IInv
  <2> QED BY <2>2, <2>4, <2>5 DEF IInv, RiskCoversSeverity, StrictBandsAgree, BandsAgree, SeverityForRisk
<1>3. CASE RaiseAlert
  <2>1. PICK e \in events, s \in Severity :
            alert' = [risk |-> Larger(e.risk, SeverityFloor(s)),
                      severity |-> Larger(e.severity, s)]
    BY <1>3 DEF RaiseAlert
  <2>2. UNCHANGED <<limits, events>>
    BY <1>3 DEF RaiseAlert
  <2>3. e \in Rating(0..MaxRisk) /\ e.severity = SeverityForRisk(e.risk)
    BY DEF IInv, TypeOK
  <2>4. /\ alert' \in Rating(0..(MaxRisk + 1))
        /\ SeverityForRisk(alert'.risk) >= alert'.severity
        /\ Increasing(limits) => SeverityForRisk(alert'.risk) = alert'.severity
    BY <1>1, <2>1, <2>3, MergeAgrees
  <2> QED BY <1>1, <2>2, <2>4
          DEF IInv, TypeOK, RiskCoversSeverity, StrictBandsAgree, BandsAgree, SeverityForRisk, Accepted, Increasing
<1>4. CASE RaiseIncident
  <2>1. PICK s \in Severity : alert' = [risk |-> SeverityFloor(s), severity |-> s]
    BY <1>4 DEF RaiseIncident
  <2>2. UNCHANGED <<limits, events>>
    BY <1>4 DEF RaiseIncident
  <2>3. SeverityFloor(s) \in 0..(MaxRisk + 1) /\ SeverityFloor(s) \in Nat
    BY <1>1, FloorType, RiskBandsAssumption
  <2>4. alert' \in Rating(0..(MaxRisk + 1))
    BY <2>1, <2>3 DEF Rating
  <2>5. SeverityForRisk(alert'.risk) >= alert'.severity
    BY <1>1, <2>1, <2>3, FloorReached DEF Severity
  <2>6. Increasing(limits) => SeverityForRisk(alert'.risk) = alert'.severity
    BY <1>1, <2>1, FloorInBand
  <2> QED BY <1>1, <2>2, <2>4, <2>5, <2>6
          DEF IInv, TypeOK, RiskCoversSeverity, StrictBandsAgree, BandsAgree, SeverityForRisk, Accepted, Increasing
<1>5. CASE UNCHANGED vars
  BY <1>5 DEF vars, IInv, TypeOK, RiskCoversSeverity, StrictBandsAgree, BandsAgree, SeverityForRisk, Accepted, Increasing
<1> QED BY <1>2, <1>3, <1>4, <1>5 DEF Next

(* TypeOK, the rating of the stored events and both merges' guarantees hold *)
(* in every reachable state.                                                *)
THEOREM Invariance == Spec => []IInv
<1>1. Init => IInv
  BY Initially
<1>2. IInv /\ [Next]_vars => IInv'
  BY Preserved
<1> QED BY <1>1, <1>2, PTL DEF Spec

(* For every accepted configuration an alert's risk is in the band of its *)
(* severity or a higher one.                                              *)
THEOREM RiskCovers == Spec => []RiskCoversSeverity
<1>1. IInv => RiskCoversSeverity
  BY DEF IInv
<1> QED BY <1>1, Invariance, PTL

(* With strictly increasing limits the risk and the severity of an alert or *)
(* an incident always name the same band.                                   *)
THEOREM BandsAlwaysAgree == Spec => []StrictBandsAgree
<1>1. IInv => StrictBandsAgree
  BY DEF IInv
<1> QED BY <1>1, Invariance, PTL
=============================================================================
