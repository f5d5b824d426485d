----------------------------- MODULE FifoService -----------------------------
(***************************************************************************)
(* What the signer and the verifier promise to the processes that use them: *)
(* every message queued is answered, once, and each service answers in the   *)
(* order in which the messages were queued.  Where events can be lost, an    *)
(* answer may be lost with them, but none is given twice or out of turn.     *)
(***************************************************************************)
EXTENDS Sequences

CONSTANTS Services, Entries

VARIABLES pending, answered,    \* per service, a sequence of entries
          lossy                 \* events can be lost

vars == <<pending, answered, lossy>>

InUse(w) == {pending[w][i] : i \in DOMAIN pending[w]}
            \cup {answered[w][i] : i \in DOMAIN answered[w]}

Init == /\ pending = [w \in Services |-> <<>>]
        /\ answered = [w \in Services |-> <<>>]
        /\ lossy \in BOOLEAN

Submit(w, b) == /\ pending' = [pending EXCEPT ![w] = Append(@, b)]
                /\ b \notin InUse(w)
                /\ UNCHANGED <<answered, lossy>>

Answer(w) == /\ pending[w] # <<>>
             /\ pending' = [pending EXCEPT ![w] = Tail(@)]
             /\ answered' = [answered EXCEPT ![w] = Append(@, Head(pending[w]))]
             /\ UNCHANGED lossy

Lose(w) == /\ lossy
           /\ pending[w] # <<>>
           /\ pending' = [pending EXCEPT ![w] = Tail(@)]
           /\ UNCHANGED <<answered, lossy>>

Collect(w) == /\ UNCHANGED <<pending, lossy>>
              /\ answered[w] # <<>>
              /\ answered' = [answered EXCEPT ![w] = Tail(@)]

Next == \E w \in Services : Answer(w) \/ Lose(w) \/ Collect(w) \/ \E b \in Entries : Submit(w, b)

Spec == Init /\ [][Next]_vars
==============================================================================
