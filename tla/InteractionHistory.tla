------------------------- MODULE InteractionHistory -------------------------
(***************************************************************************)
(* The ring buffer in which the HMM trust models keep the last             *)
(* interactions with a capability of an Edge (interaction-history.c).      *)
(***************************************************************************)
EXTENDS Integers, Sequences, FiniteSets

CONSTANT HistorySize            \* INTERACTION_HISTORY_SIZE

ASSUME HistoryAssumption == HistorySize \in Nat \ {0}

Slots  == 0..(HistorySize - 1)
NoSlot == HistorySize           \* the NULL of iterators
Unset  == "unset"               \* what a slot holds before it is written

Histories(Observations) ==
    [head : Slots, tail : Slots, count : 0..HistorySize,
     interactions : [Slots -> Observations \cup {Unset}]]

(* The slots themselves are not initialised *)
interaction_history_init ==
    [head |-> 0, tail |-> 0, count |-> 0, interactions |-> [i \in Slots |-> Unset]]

MakeRoom_Keeps(h) == IF h.count = HistorySize THEN [h EXCEPT !.count = @ - 1] ELSE h

(* When the buffer is full its oldest entry is dropped first *)
MakeRoom(h) == IF h.count = HistorySize
               THEN [h EXCEPT !.head = (@ + 1) % HistorySize, !.count = @ - 1] ELSE h

interaction_history_push(h, x) ==
    LET r == MakeRoom(h)
    IN [r EXCEPT !.interactions[r.tail] = x,
                 !.tail = (@ + 1) % HistorySize,
                 !.count = @ + 1]

interaction_history_iter(h) == IF h.count = 0 THEN NoSlot ELSE h.head

interaction_history_next(h, i) ==
    LET j == (i + 1) % HistorySize
    IN IF j = h.tail THEN NoSlot ELSE j

(* What a loop over the history sees, in its order.  One position more than *)
(* there are slots is followed, so that a loop that did not end would show. *)
Iterated(h) ==
    LET at[k \in 1..(HistorySize + 1)] ==
            IF k = 1 THEN interaction_history_iter(h)
            ELSE IF at[k - 1] = NoSlot THEN NoSlot
            ELSE interaction_history_next(h, at[k - 1])
        seen == Cardinality({k \in 1..(HistorySize + 1) : at[k] # NoSlot})
    IN [k \in 1..seen |-> h.interactions[at[k]]]

=============================================================================
