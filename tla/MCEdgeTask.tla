------------------------------ MODULE MCEdgeTask ------------------------------
EXTENDS EdgeTask, TLC

CONSTANTS t1, t2, t3

Case(app, faults, blocks, runs, stops) ==
    [app |-> app, faults |-> faults, blocks |-> blocks, runs |-> runs, stops |-> stops]

(* Three results, of two blocks, of one and of none, with requests that fail;  *)
(* an application that is stopped or crashes and is started again, for both     *)
(* applications; one that is started again at once; a serial line that loses   *)
(* lines while the bridge starts and stops, and one that does not; a task that  *)
(* raises; a block that is too long.                                         *)
MCScenarios ==
    {Case("routing", {"send"}, (t1 :> <<2, 1>>) @@ (t2 :> <<3>>) @@ (t3 :> <<>>), 1, FALSE),
     Case("routing", {"crash", "expire", "send"}, (t1 :> <<2>>) @@ (t2 :> <<3>>), 2, FALSE),
     Case("cr", {"crash", "overlap"}, (t1 :> <<>>) @@ (t2 :> <<>>), 2, FALSE),
     Case("cr", {"crash"}, (t1 :> <<>>) @@ (t2 :> <<>>) @@ (t3 :> <<>>), 2, FALSE),
     Case("routing", {"timeout"}, (t1 :> <<2>>), 2, TRUE),
     Case("routing", {"loss", "timeout"}, (t1 :> <<2>>), 1, TRUE),
     Case("cr", {"raise"}, (t1 :> <<>>) @@ (t2 :> <<>>) @@ (t3 :> <<>>), 1, FALSE),
     Case("routing", {"send"}, (t1 :> <<4>>) @@ (t2 :> <<3>>), 1, FALSE)}
===============================================================================
