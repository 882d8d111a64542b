------------------------- MODULE MCCorrelationEngine -------------------------
(***************************************************************************)
(* Every log of up to MaxEvents events over a few kinds and processes, in  *)
(* the order in which rows are inserted (ids rise, timestamps never fall), *)
(* against the scenarios below.                                            *)
(***************************************************************************)
EXTENDS CorrelationEngine, FiniteSets

CONSTANTS
    MaxEvents,  \* bound: events of the log
    MaxTs       \* bound: their timestamps

ASSUME LogAssumption == MaxEvents \in Nat /\ MaxTs \in Nat /\ NoPid \notin {"office", "shell", "other"}

VARIABLES log, ancestry

SamplePids == {"office", "shell", "other"}

\* office spawned shell; shell alone; a corrupt, cyclic map.
Ancestries == {[shell |-> "office", office |-> NoPid],
               [other |-> NoPid],
               [shell |-> "office", office |-> "shell"]}

StepOf(kinds, lineage) == [kinds |-> kinds, lineage |-> lineage]

\* Two steps that both accept "run", as two process_create steps do.
Plain == [steps |-> <<StepOf({"run", "doc"}, FALSE), StepOf({"run", "net"}, FALSE)>>, window |-> MaxTs]
\* The same with a window shorter than the log.
Narrow == [steps |-> <<StepOf({"doc"}, FALSE), StepOf({"net"}, FALSE)>>, window |-> 1]
\* lineage_office_powershell_network.yaml, with an unanchored step first.
Lineage == [steps |-> <<StepOf({"run"}, FALSE), StepOf({"doc"}, TRUE), StepOf({"net"}, TRUE)>>,
            window |-> MaxTs]

Samples == <<Lineage, Narrow, Plain>>

Events == [kind : {"doc", "net", "run"}, pid : SamplePids \cup {NoPid}]

LogInit == log = {} /\ ancestry \in Ancestries

Insert ==
    LET id == Cardinality(log) + 1 IN
    \E e \in Events, ts \in 0..MaxTs :
        /\ id <= MaxEvents
        /\ \A f \in log : f.ts <= ts
        /\ log' = log \cup {[id |-> id, kind |-> e.kind, pid |-> e.pid, ts |-> ts]}
        /\ UNCHANGED ancestry

LogSpec == LogInit /\ [][Insert]_<<log, ancestry>>

Found(already) == FindScenarioMatches(Samples, log, already, ancestry)

(***************************************************************************)
(* Whatever is reported really is a chain of its scenario: distinct events *)
(* in time order, of the right kinds, within the window, every lineage     *)
(* step a descendant of the anchor.                                        *)
(***************************************************************************)
MatchesAreChains ==
    \A i \in 1..Len(Samples) :
        LET chain == FindScenarioMatch(Samples[i], log, ancestry)
        IN  chain # <<>> => IsChain(Samples[i], chain, log, ancestry)

(***************************************************************************)
(* "once an event is used by a match (in this call or a prior one) it's    *)
(* never reused by another match" (correlation_engine.py:149-151).         *)
(***************************************************************************)
MatchesAreDisjoint ==
    LET first == Found({})
        second == Found(MatchedIds(first))
    IN  /\ \A i, j \in 1..Len(first) :
               i # j => ChainIds(first[i].chain) \cap ChainIds(first[j].chain) = {}
        /\ MatchedIds(first) \cap MatchedIds(second) = {}

(***************************************************************************)
(* What the greedy search reports, over one call and the next: chains of   *)
(* their scenario, no event in two of them (find_scenario_matches).        *)
(***************************************************************************)
MatchesAreSound == MatchesAreChains /\ MatchesAreDisjoint

Chains(scenario) == [1..Len(scenario.steps) -> log]

(***************************************************************************)
(* Where greed is enough: no lineage, no two events at the same instant    *)
(* and a window no shorter than the log.  Then a chain that exists is      *)
(* found.                                                                  *)
(***************************************************************************)
PlainChainsAreFound ==
    /\ \A e, f \in log : e.ts = f.ts => e = f
    /\ \E c \in Chains(Plain) : IsChain(Plain, c, log, ancestry)
    => FindScenarioMatch(Plain, log, ancestry) # <<>>
=============================================================================
