------------------------- MODULE MCChallengeResponse -------------------------
EXTENDS ChallengeResponse

CONSTANTS e1, e2

(* Three periods with requests that cannot be sent; two with late answers     *)
(* while an Edge comes and goes, and two with every fault.                    *)
MCScenarios ==
    {[faults |-> {"send"}, churn |-> {}, until |-> 22],
     [faults |-> {"late"}, churn |-> {e2}, until |-> 16],
     [faults |-> Faults, churn |-> {e2}, until |-> 16]}
==============================================================================
