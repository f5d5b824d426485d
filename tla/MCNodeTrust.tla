---------------------------- MODULE MCNodeTrust ----------------------------
EXTENDS NodeTrust
CONSTANTS e1, e2, e3, p1, p2, p3, t1, t2, t3

MCTagOf   == (e1 :> t1) @@ (e2 :> t2) @@ (e3 :> t3)
MCTypical == [t \in Tags |-> IF t = t1 THEN [sub |-> <<3, 1>>, res |-> <<2, 1>>]
                                       ELSE [sub |-> <<1, 2>>, res |-> <<1, 3>>]]

Praise(e) == [edge |-> e, tm |-> [sub |-> <<3, 1>>, res |-> <<3, 1>>], qual |-> <<2, 1>>]
Blame(e)  == [edge |-> e, tm |-> [sub |-> <<1, 3>>, res |-> <<1, 2>>], qual |-> <<1, 3>>]
Partly(e) == [edge |-> e, tm |-> [sub |-> <<2, 2>>, res |-> <<2, 1>>], qual |-> NULL]

MCMessages == {<<Praise(e1)>>, <<Blame(e1)>>, <<Praise(e2)>>, <<Blame(e3)>>,
               <<Partly(e1), Blame(e2)>>}

Two == {e1, e2}

Case(model, rules, edges, tasks, reports, peers, messages, moves) ==
    [model |-> model, rules |-> rules, faults |-> {}, stereotypes |-> FALSE, edges |-> edges,
     peers |-> peers, tasks |-> tasks, reports |-> reports, messages |-> messages, moves |-> moves]

Requests(rules, tasks, faults, moves) ==
    [Case("basic", rules, Edges, tasks, tasks, {}, 0, moves)
        EXCEPT !.faults = faults, !.stereotypes = TRUE]

MCScenarios ==
    {Case("basic", Rules, Two, 2, 3, {}, 0, 2),                     \* every rule
     Case("basic", {"random"}, Edges, 2, 2, {}, 0, 4),              \* memory used again
     Case("hmm", {"random"}, {e1}, 1, 5, {}, 0, 3),                 \* a full history
     Case("basic_with_reputation", {"highest", "proportional"}, Two, 1, 1, {p1, p2}, 2, 2),
     Case("basic_with_reputation", {}, Edges, 0, 0, {p1}, 2, 6),    \* pointers overtaken
     Case("basic_with_reputation", {}, {e1}, 0, 0, Peers, 3, 1),    \* more peers than room
     Requests({"highest", "banded"}, 1, {}, 3),
     Requests({}, 0, {"send", "error", "slow"}, 3),
     Requests({}, 0, {"refused", "slow"}, 3)}

(* The rules also agree for three Edges, which the runs' memory has no room for *)
ASSUME ThreeCandidates ==
    \A t \in [1..3 -> {1, 2, 4, Band, Band + 1}] : RulesAgree(<<2, 3, 1>>, t, Rules)
=============================================================================
