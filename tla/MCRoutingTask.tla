---------------------------- MODULE MCRoutingTask ----------------------------
(* Instances of RoutingTask for TLC. *)
EXTENDS RoutingTask, TLC

(* Two Edges and answers that always fit, or two routes and one Edge.  Which  *)
(* Edge, or which coordinate, it is makes no difference, so that every choice *)
(* of it is there.                                                           *)
Each(S) == {{x} : x \in S}

MCScenarios ==
    [faults : {{"expiry", "alike", "loss"}, {"alike", "loss"}}, edges : {Edges}, coords : Each(Coords)]
    \cup
    [faults : {{"expiry", "late"}, {"expiry", "loss"}}, edges : Each(Edges), coords : {Coords}]

Symmetry == Permutations(Edges) \cup Permutations(Coords)
==============================================================================
