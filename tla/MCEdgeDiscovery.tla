-------------------------- MODULE MCEdgeDiscovery --------------------------
(* Instances of EdgeDiscovery for TLC. *)
EXTENDS EdgeDiscovery, TLC
CONSTANTS e1, e2, routing, monitoring

MCOffers == e1 :> <<routing>> @@ e2 :> <<routing, monitoring>>
Scenario(b, fs, es, n) == [build |-> b, faults |-> fs, edges |-> es, inFlight |-> n]

(* Two Edges that compete for memory with one publication under way, an    *)
(* Edge with two applications, and one with two publications under way.    *)
MCScenarios ==
    {Scenario(b, {}, {e1, e2}, 1) : b \in {"default", "aggressive"}}
    \cup {Scenario(b, Faults, {e2}, 1) : b \in Builds}
    \cup {Scenario(b, Faults, {e1}, 2) : b \in Builds}
=============================================================================
