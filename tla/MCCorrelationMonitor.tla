------------------------ MODULE MCCorrelationMonitor ------------------------
(***************************************************************************)
(* Instances of CorrelationMonitor: documents ("doc"), connections ("net", *)
(* matched by a rule) and a row whose rule responds ("act"); two           *)
(* scenarios, a document and then a connection, and a row that is          *)
(* responded to and then the row that tells of it, each within one tick.   *)
(***************************************************************************)
EXTENDS CorrelationMonitor

KindsMC == {"doc", "net", "act"}
MatchingMC == {"net", "act"}
RespondingMC == {"act"}
LateMC == {"doc"}
Within(kinds1, kinds2) ==
    [steps |-> <<[kinds |-> kinds1, lineage |-> FALSE], [kinds |-> kinds2, lineage |-> FALSE]>>,
     window |-> 1]
OneScenarioMC == <<Within({"doc"}, {"net"})>>
ScenariosMC == OneScenarioMC \o <<Within({"act"}, {AutoResponse})>>
=============================================================================
