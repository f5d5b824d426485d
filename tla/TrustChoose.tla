---------------------------- MODULE TrustChoose ----------------------------
(***************************************************************************)
(* The rules by which a node picks the Edge for a task, trust/choose/.     *)
(* Each takes the candidates c in the order of edge-info and, where the    *)
(* rule looks at it, their trust t; a rule that draws a random number      *)
(* gives the set of what it may return.                                    *)
(***************************************************************************)
EXTENDS Integers, Sequences, SequencesExt, FiniteSets, FiniteSetsExt

CONSTANTS NULL,
          Band,                 \* BAND_SIZE
          RandMax               \* RANDOM_RAND_MAX

ASSUME ChooseAssumption == Band \in Nat /\ RandMax \in Nat \ {0}

fcfs(c) == IF c = <<>> THEN NULL ELSE Head(c)

random(c) == IF c = <<>> THEN {NULL} ELSE ToSet(c)

highest(c, t) ==
    LET best[i \in 0..Len(c)] ==
            IF i = 0 THEN [edge |-> NULL, trust |-> -1]
            ELSE LET so_far == best[i - 1]
                 IN IF t[c[i]] > so_far.trust THEN [edge |-> c[i], trust |-> t[c[i]]] ELSE so_far
    IN best[Len(c)].edge

banded(c, t) ==
    LET top[i \in 0..Len(c)] ==
            IF i = 0 THEN 0
            ELSE LET so_far == top[i - 1] IN IF t[c[i]] > so_far THEN t[c[i]] ELSE so_far
        kept == {e \in ToSet(c) : t[e] >= top[Len(c)] - Band}
    IN IF kept = {} THEN {NULL} ELSE kept

Total(c, t) ==
    LET sum[i \in 0..Len(c)] == IF i = 0 THEN 0 ELSE sum[i - 1] + t[c[i]]
    IN sum[Len(c)]

(* RandMax is shared out in proportion to trust, each share rounded down;   *)
(* the Edge in whose share the number rnd falls is chosen.                  *)
proportional(c, t, rnd) ==
    LET share(e) == (t[e] * RandMax) \div Total(c, t)
        walk[i \in 0..Len(c)] ==
            IF i = 0 THEN [previous |-> 0, chosen |-> NULL]
            ELSE LET s == walk[i - 1]
                 IN IF s.chosen = NULL /\ s.previous <= rnd /\ rnd < s.previous + share(c[i])
                    THEN [s EXCEPT !.chosen = c[i]]
                    ELSE [s EXCEPT !.previous = @ + share(c[i])]
    IN walk[Len(c)].chosen

-----------------------------------------------------------------------------
(* How many of the numbers that may be drawn choose x *)
Draws(c, t, x) == Cardinality({r \in 0..RandMax : proportional(c, t, r) = x})

(* What the rules are for, without a walk through the candidates.  highest: *)
(* a most trusted Edge, of those the first in edge-info; banded: any Edge   *)
(* within Band of a most trusted one; proportional: as many draws as the    *)
(* Edge's share of the trust, rounded down, so never fewer than for an Edge *)
(* that is trusted less, and the rounding loses at most one draw per Edge   *)
(* (one is enough for a task not to be given to anybody, which the code     *)
(* takes for an error).                                                     *)
RulesAgree(c, t, rules) ==
    LET es  == ToSet(c)
        sum == Total(c, t)
        top == {e \in es : \A f \in es : t[f] <= t[e]}
        n   == [x \in es \cup {NULL} |-> Draws(c, t, x)]
    IN c # <<>> =>
         /\ "highest" \in rules =>
               \E i \in 1..Len(c) : /\ c[i] = highest(c, t) /\ c[i] \in top
                                    /\ \A j \in 1..(i - 1) : c[j] \notin top
         /\ "banded" \in rules =>
               banded(c, t) = {e \in es : \E f \in top : t[f] - t[e] <= Band}
         /\ "proportional" \in rules =>
               /\ \A e \in es : /\ n[e] * sum <= t[e] * RandMax
                                /\ t[e] * RandMax < (n[e] + 1) * sum
                                /\ \A f \in es : t[e] >= t[f] => n[e] >= n[f]
               /\ n[NULL] <= Len(c)

=============================================================================
