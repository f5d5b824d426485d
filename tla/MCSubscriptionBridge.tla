------------------------ MODULE MCSubscriptionBridge ------------------------
EXTENDS SubscriptionBridge

CONSTANTS announce, anyAnnounce, k1, k2, m1, m2

(* A topic, and a filter with a wildcard that matches it. *)
MCMatching == {<<announce, announce>>, <<anyAnnounce, announce>>}

(* Concurrent requests with every fault, on one topic; one request at a time  *)
(* with every fault, on overlapping topics; one request at a time with        *)
(* crashes only, on overlapping topics with several messages.                 *)
MCScenarios ==
    {[faults |-> Faults, topics |-> {announce}, tasks |-> {k1, k2}, messages |-> {m1}],
     [faults |-> Faults, topics |-> {announce, anyAnnounce}, tasks |-> {k1}, messages |-> {}],
     [faults |-> {"crash"}, topics |-> {announce, anyAnnounce}, tasks |-> {k1}, messages |-> {m1, m2}]}

(* Concurrent requests, no fault. *)
MCConcurrent ==
    {[faults |-> {}, topics |-> {announce}, tasks |-> {k1, k2}, messages |-> {}]}
=============================================================================
