----------------------------- MODULE MCScenario -----------------------------
(* An instance of Scenario for TLC. *)
EXTENDS Scenario

\* Two clients are enough for every scenario, though the last asks for ten.
MCMinClients == [name \in Name |-> IF name = "stampeding_herd" THEN 2 ELSE 1]

\* A scenario reads the settings it has, and no other.
MCPlan ==
    {p \in AnyPlan : /\ p.name = "sustained_traffic" \/ ~p.clear
                     /\ p.name = "percentile_latency" \/ p.supported
                     /\ p.interval \in {"absent", "unparsable"}}
=============================================================================
