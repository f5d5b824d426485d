-------------------------- MODULE ChallengeResponse --------------------------
(***************************************************************************)
(* The challenge-response application of a node                            *)
(* (applications/challenge-response/node/challenge-response.c) with the      *)
(* trust model and the choice of Edges that rest on it: every period one     *)
(* Edge is sent a challenge, and is bad from the moment it fails one until   *)
(* it solves one.                                                            *)
(*                                                                           *)
(* Contiki runs a handler to its end, so each handler is one action.  Time   *)
(* passes in ticks, and a timer that runs out posts an event, which stopping *)
(* the timer does not take back.  A challenge is known by the time it was    *)
(* generated.  tm.epoch_number, which only counts how often bad changes and  *)
(* is sent to peers, is left out.                                            *)
(***************************************************************************)
EXTENDS Naturals, Sequences, FiniteSets

CONSTANTS
    Edges,
    NumEdgeResources,  \* blocks in challengers_memb
    Duration,          \* CHALLENGE_DURATION
    Period,            \* CHALLENGE_PERIOD
    LockTime,          \* when coap_callback_in_use expires
    Transmit,          \* when CoAP gives up on a request, which may be periods later
    Scenarios,         \* the environments considered
    None

Blocks == 1..NumEdgeResources

(* "slow": acknowledgements may take as long as CoAP waits for them,         *)
(* "late": answers may come after their time,                               *)
(* "send": coap_send_request may fail.                                      *)
Faults == {"slow", "late", "send"}

ASSUME EdgeAssumption == IsFiniteSet(Edges) /\ Cardinality(Edges) <= NumEdgeResources /\ None \notin Edges
ASSUME TimeAssumption ==
    /\ {NumEdgeResources, Duration, Period, LockTime, Transmit} \subseteq Nat
    /\ 0 < Duration /\ Duration < Period  \* _Static_assert
    /\ None \notin Nat
ASSUME ScenarioAssumption == Scenarios \subseteq [faults : SUBSET Faults, churn : SUBSET Edges, until : Nat]

VARIABLES
    scenario,        \* the faults, the Edges that come and go, the bound on the clock
    now,             \* clock_time
    capable,         \* Edges that are active and have the capability
    known,           \* Edges that edge-info has
    block,           \* the memory of challengers_memb, kept when a block is freed
    challengers,     \* the list
    next_challenge,
    challenge_timer,           \* when its period started, and whether it is running
    challenge_response_timer,  \* when it runs out; 0 when it is not running
    posted,          \* timer events posted to the process
    lock,            \* when coap_callback_in_use was locked; 0 when it is not
    ep,              \* the endpoint of the last challenge
    open,            \* requests that CoAP has not ended; they share coap_callback
    asked,           \* challenges not answered, with the time of their acknowledgement
    bad,             \* edge->tm.bad
    failed,          \* Edges whose last deed was not a right answer in time
    solved           \* the last challenge each Edge solved in time

memory  == <<block, challengers, next_challenge>>
timers  == <<challenge_timer, challenge_response_timer, posted>>
history == <<failed, solved>>
vars    == <<scenario, now, capable, known, memory, timers, lock, ep, open, asked, bad, history>>

Fault(f) == f \in scenario.faults

-----------------------------------------------------------------------------
(* The list and its memory. *)

OnList == {challengers[i] : i \in DOMAIN challengers}

list_head == IF challengers = <<>> THEN None ELSE Head(challengers)

(* A block that was freed was the only one of the list: its next is NULL. *)
list_item_next(b) ==
    IF \E i \in DOMAIN challengers : i < Len(challengers) /\ challengers[i] = b
    THEN challengers[(CHOOSE i \in DOMAIN challengers : i < Len(challengers) /\ challengers[i] = b) + 1]
    ELSE None

FreeBlocks == Blocks \ OnList

list_remove(b) ==
    LET i == CHOOSE j \in DOMAIN challengers : challengers[j] = b
    IN  [j \in 1..(Len(challengers) - 1) |-> IF j < i THEN challengers[j] ELSE challengers[j + 1]]

find_edge_challenger(e) ==
    IF \E b \in OnList : block[b].edge = e THEN CHOOSE b \in OnList : block[b].edge = e ELSE None

(* The challenge after the current one, in a list that goes round. *)
MoveToNext ==
    IF next_challenge # None /\ list_item_next(next_challenge) # None
    THEN list_item_next(next_challenge) ELSE list_head

move_to_next_challenge ==
    /\ next_challenge' = MoveToNext
    /\ challenge_response_timer' = 0

(* max_duration_secs of a block: zero before its first challenge. *)
MaxDuration(b) == IF b = None \/ block[b].ch = 0 THEN 0 ELSE Duration

Locked == lock # 0 /\ now < lock + LockTime

-----------------------------------------------------------------------------
(* The trust model.  Updates of a good answer to an Edge that is not bad, or  *)
(* of a failure of one that is, change nothing.                              *)

tm_update(e, good) == bad' = [bad EXCEPT ![e] = ~good]

edge_is_good(e) == ~bad[e]

(* The Edges from which choose_edge picks one at random. *)
choose_edge == {e \in capable : edge_is_good(e)}

-----------------------------------------------------------------------------
(* The timers' events. *)

SendTo(b, sent) ==
    LET e == block[b].edge
    IN  /\ block' = [block EXCEPT ![b].ch = now, ![b].gen = now]
        /\ ep' = e
        /\ IF sent
           THEN /\ lock' = now
                /\ open' = open \cup {[edge |-> e, ch |-> now]}
                /\ asked' = asked \cup {[edge |-> e, ch |-> now, ack |-> 0]}
           ELSE UNCHANGED <<lock, open, asked>>

Sent == IF Fault("send") THEN BOOLEAN ELSE {TRUE}

periodic_action ==
    IF Locked THEN UNCHANGED <<memory, challenge_response_timer, ep, lock, open, asked>>
    ELSE /\ move_to_next_challenge
         /\ IF MoveToNext = None THEN UNCHANGED <<block, ep, lock, open, asked>>
            ELSE \E sent \in Sent : SendTo(MoveToNext, sent)
         /\ UNCHANGED challengers

(* etimer_reset goes on from where the last period ended *)
ChallengeTimer ==
    /\ "challenge" \in posted
    /\ posted' = posted \ {"challenge"}
    /\ periodic_action
    /\ challenge_timer' = [start |-> challenge_timer.start + Period, on |-> TRUE]
    /\ UNCHANGED <<scenario, now, capable, known, bad, history>>

NeverReceived(b) == block[b].rec <= block[b].gen

ReceivedLate(b) == block[b].rec > block[b].gen + MaxDuration(b)

challenge_response_timed_out(b) ==
    IF b # None /\ block[b].gen # 0 /\ (NeverReceived(b) \/ ReceivedLate(b))
    THEN /\ tm_update(block[b].edge, FALSE)
         /\ block' = [block EXCEPT ![b].gen = 0, ![b].rec = 0]
    ELSE UNCHANGED <<bad, block>>

ResponseTimer ==
    /\ "response" \in posted
    /\ posted' = posted \ {"response"}
    /\ challenge_response_timed_out(next_challenge)
    /\ UNCHANGED <<scenario, now, capable, known, challengers, next_challenge, challenge_timer,
                   challenge_response_timer, lock, ep, open, asked, history>>

-----------------------------------------------------------------------------
(* send_callback: the request's response and its end, or its failure.        *)

Misdeed(e) == failed' = failed \cup {e} /\ UNCHANGED solved

SetResponseTimer_Period == {now + Period}

(* The timer is set for next_challenge, which a slow acknowledgement may find *)
(* to be another Edge's or NULL: then what is read is anything.              *)
SetResponseTimer ==
    IF next_challenge = None THEN now..(now + Period) ELSE {now + MaxDuration(next_challenge)}

Acknowledged(x) ==
    /\ open' = open \ {x}
    /\ lock' = 0
    /\ challenge_response_timer' \in SetResponseTimer
    /\ asked' = {IF y.edge = x.edge /\ y.ch = x.ch THEN [y EXCEPT !.ack = now] ELSE y : y \in asked}
    /\ UNCHANGED <<scenario, now, capable, known, memory, challenge_timer, posted, ep, bad, history>>

(* refused, or never acknowledged *)
NotAcknowledged(x) ==
    /\ open' = open \ {x}
    /\ lock' = 0
    /\ IF ep \in known THEN tm_update(ep, FALSE) ELSE UNCHANGED bad
    /\ Misdeed(x.edge)
    /\ UNCHANGED <<scenario, now, capable, known, memory, timers, ep, asked>>

-----------------------------------------------------------------------------
(* res_coap_cr_post_handler: an Edge answers a challenge, rightly, wrongly or *)
(* with something that cannot be parsed or hashed.                           *)

InTime(x) == now - x.ch <= Duration

Judge(b, x, answer) ==
    LET late == now - block[b].gen > MaxDuration(b)
        successful == answer = "right" /\ block[b].ch = x.ch
    IN  IF answer = "unreadable" THEN tm_update(x.edge, FALSE)
        ELSE IF late THEN UNCHANGED bad
        ELSE tm_update(x.edge, successful)

(* A right answer in the last tick solves its challenge, unless the timer was  *)
(* faster: it does not clear the Edge.                                       *)
Record(x, answer) ==
    /\ solved' = IF answer = "right" /\ InTime(x) THEN [solved EXCEPT ![x.edge] = x.ch] ELSE solved
    /\ failed' = IF answer = "right" /\ now - x.ch < Duration
                 THEN failed \ {x.edge} ELSE failed \cup {x.edge}

(* the time of the response is not kept *)
res_coap_cr_post_handler_Forgets(b, x, answer) ==
    IF b = None
    THEN tm_update(x.edge, FALSE) /\ UNCHANGED <<block, challenge_response_timer>>
    ELSE Judge(b, x, answer) /\ UNCHANGED <<block, challenge_response_timer>>

(* What is done with a response: its Edge has the challenger b. *)
res_coap_cr_post_handler(b, x, answer) ==
    IF b = None
    THEN tm_update(x.edge, FALSE) /\ UNCHANGED <<block, challenge_response_timer>>
    ELSE /\ challenge_response_timer' = 0
         /\ block' = [block EXCEPT ![b].rec = now]
         /\ Judge(b, x, answer)

Answer(x, answer) ==
    /\ x.ch < now
    /\ InTime(x) \/ Fault("late")
    /\ asked' = asked \ {x}
    /\ IF x.edge \in known
       THEN res_coap_cr_post_handler(find_edge_challenger(x.edge), x, answer)
       ELSE UNCHANGED <<block, challenge_response_timer, bad>>
    /\ Record(x, answer)
    /\ UNCHANGED <<scenario, now, capable, known, challengers, next_challenge, challenge_timer,
                   posted, lock, ep, open>>

-----------------------------------------------------------------------------
(* Edges and their capability come and go (trust-common.c, edge-info.c).     *)

(* memb_alloc gives the first free block, whose old challenge is kept. *)
AddChallenger(e) ==
    IF FreeBlocks = {} THEN UNCHANGED <<memory, challenge_response_timer>>
    ELSE \E b \in FreeBlocks :
            /\ \A c \in FreeBlocks : b <= c
            /\ block' = [block EXCEPT ![b].edge = e, ![b].gen = 0, ![b].rec = 0]
            /\ challengers' = <<b>> \o challengers
            /\ IF next_challenge = None
               THEN next_challenge' = b /\ challenge_response_timer' = 0
               ELSE UNCHANGED <<next_challenge, challenge_response_timer>>

edge_capability_add(e) ==
    /\ e \notin capable
    /\ capable' = capable \cup {e}
    /\ known' = known \cup {e}
    /\ bad' = IF e \in known THEN bad ELSE [bad EXCEPT ![e] = FALSE]
    /\ challenge_timer' = IF capable = {} THEN [start |-> now, on |-> TRUE] ELSE challenge_timer
    /\ AddChallenger(e)
    /\ UNCHANGED <<scenario, now, posted, lock, ep, open, asked, history>>

RemoveChallenger_Clears(b) ==
    /\ challengers' = list_remove(b)
    /\ next_challenge' = IF next_challenge # b THEN next_challenge
                         ELSE IF MoveToNext = b THEN None ELSE MoveToNext
    /\ challenge_response_timer' = IF next_challenge = b THEN 0 ELSE challenge_response_timer

(* the only challenger is still the next one when it has been removed *)
RemoveChallenger(b) ==
    /\ challengers' = list_remove(b)
    /\ IF next_challenge = b THEN move_to_next_challenge
       ELSE UNCHANGED <<next_challenge, challenge_response_timer>>

(* With the aggressive clean-up of edge-info the Edge is forgotten as well. *)
edge_capability_remove(e) ==
    /\ e \in capable \cap scenario.churn
    /\ capable' = capable \ {e}
    /\ known' \in {known, known \ {e}}
    /\ challenge_timer' = IF capable = {e} THEN [challenge_timer EXCEPT !.on = FALSE] ELSE challenge_timer
    /\ RemoveChallenger(find_edge_challenger(e))
    /\ UNCHANGED <<scenario, now, block, posted, lock, ep, open, asked, bad, history>>

-----------------------------------------------------------------------------
(* An acknowledgement that is not slow comes early enough for the answer to   *)
(* be waited for before the next challenge.                                  *)
AckBy == IF Fault("slow") THEN Transmit ELSE Period - Duration - 1

Due(on, time) == on /\ time <= now + 1

(* The events posted are handled, and requests ended, before time passes. *)
Tick ==
    LET challenge == Due(challenge_timer.on, challenge_timer.start + Period)
        response == Due(challenge_response_timer # 0, challenge_response_timer)
    IN  /\ now < scenario.until
        /\ posted = {}
        /\ \A x \in open : now - x.ch < AckBy
        /\ now' = now + 1
        /\ posted' = {ev \in {"challenge", "response"} : IF ev = "challenge" THEN challenge ELSE response}
        /\ challenge_timer' = [challenge_timer EXCEPT !.on = @ /\ ~challenge]
        /\ challenge_response_timer' = IF response THEN 0 ELSE challenge_response_timer
        /\ UNCHANGED <<scenario, capable, known, memory, lock, ep, open, asked, bad, history>>

Init ==
    /\ scenario \in Scenarios
    /\ now = 1
    /\ capable = {} /\ known = {}
    /\ block = [b \in Blocks |-> [edge |-> None, ch |-> 0, gen |-> 0, rec |-> 0]]
    /\ challengers = <<>>
    /\ next_challenge = None
    /\ challenge_timer = [start |-> 0, on |-> FALSE]
    /\ challenge_response_timer = 0
    /\ posted = {}
    /\ lock = 0
    /\ ep = None
    /\ open = {} /\ asked = {}
    /\ bad = [e \in Edges |-> FALSE]
    /\ failed = {} /\ solved = [e \in Edges |-> 0]

Answers == {"right", "wrong", "unreadable"}

Next ==
    \/ Tick
    \/ ChallengeTimer
    \/ ResponseTimer
    \/ \E x \in open : Acknowledged(x) \/ NotAcknowledged(x)
    \/ \E x \in asked, answer \in Answers : Answer(x, answer)
    \/ \E e \in Edges : edge_capability_add(e) \/ edge_capability_remove(e)

Spec == Init /\ [][Next]_vars

-----------------------------------------------------------------------------
(* Every variable holds a value of its C type. *)
TypeOK ==
    /\ scenario \in [faults : SUBSET Faults, churn : SUBSET Edges, until : Nat]
    /\ now \in Nat
    /\ capable \subseteq Edges /\ known \subseteq Edges
    /\ block \in [Blocks -> [edge : Edges \cup {None}, ch : Nat, gen : Nat, rec : Nat]]
    /\ challengers \in Seq(Blocks)
    /\ next_challenge \in Blocks \cup {None}
    /\ challenge_timer \in [start : Nat, on : BOOLEAN]
    /\ challenge_response_timer \in Nat
    /\ posted \subseteq {"challenge", "response"}
    /\ lock \in Nat
    /\ ep \in Edges \cup {None}
    /\ open \subseteq [edge : Edges, ch : Nat]
    /\ asked \subseteq [edge : Edges, ch : Nat, ack : Nat]
    /\ bad \in [Edges -> BOOLEAN]
    /\ failed \subseteq Edges
    /\ solved \in [Edges -> Nat]

(* Each Edge with the capability has one challenger and nobody else has one.  *)
OneChallengerEach ==
    /\ \A i, j \in DOMAIN challengers : challengers[i] = challengers[j] => i = j
    /\ \A b, c \in OnList : block[b].edge = block[c].edge => b = c
    /\ {block[b].edge : b \in OnList} = capable

(* For a period after a request was sent send_callback can use what it shares *)
(* with the rest: next_challenge is not NULL, whoever was removed meanwhile   *)
(* (line 175), ep is the endpoint of the request's Edge (line 200), and no    *)
(* younger request has taken over coap_callback, whichever of the lock, the    *)
(* period and CoAP's retransmissions takes longer.  A request that is open    *)
(* for longer has none of this: the next challenge has overwritten the one    *)
(* copy of the endpoint, and the failure of the old request makes the wrong   *)
(* Edge bad.                                                                 *)
CallbackHasChallenge ==
    \A x \in open : now - x.ch < Period =>
        /\ next_challenge # None
        /\ ep = x.edge
        /\ \A y \in open : y = x \/ now - y.ch >= Period

(* The application's state holds together. *)
ChallengesConsistent == TypeOK /\ OneChallengerEach /\ CallbackHasChallenge

Overdue(e) == \E x \in asked : x.edge = e /\ x.ch > solved[e] /\ now - x.ch >= Duration

(* An Edge is passed over only for cause: since the last challenge it solved  *)
(* in time it left a request unacknowledged, answered wrongly or late, or has *)
(* a challenge to answer whose time is up.  Others may be silent or late, and *)
(* come and go.  Not so                                                       *)
(* - when an acknowledgement is slow: the event of its response timer may be  *)
(*   handled when the next challenge has just been generated, and is taken    *)
(*   for that one's (line 220);                                               *)
(* - for an Edge that loses the capability between challenge and answer       *)
(*   (line 447);                                                              *)
(* - when a challenge could not be sent: it counts as generated (line 315),   *)
(*   and the event of a challenger that goes away is taken for its timeout.   *)
PassedOverForCause ==
    ~Fault("slow") /\ (Fault("send") => scenario.churn = {}) =>
        \A e \in capable \ (choose_edge \cup scenario.churn) : e \in failed \/ Overdue(e)

(* An Edge that acknowledges a challenge and does not answer it is bad when   *)
(* its time is up and until it solves another.  Not so when an Edge's late    *)
(* answer stops the timer of another's challenge (line 452), when a slow      *)
(* acknowledgement is overtaken by the next challenge (line 141), or when the *)
(* current challenger goes (line 543).                                        *)
SilenceNoticed ==
    scenario.faults \cap {"slow", "late"} = {} /\ scenario.churn = {} =>
        \A x \in asked :
            x.ack # 0 /\ x.ch > solved[x.edge] /\ now > x.ack + Duration => bad[x.edge]
==============================================================================
