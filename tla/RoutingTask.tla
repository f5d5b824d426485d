----------------------------- MODULE RoutingTask -----------------------------
(***************************************************************************)
(* A node's routing application (wsn/applications/routing/node/routing.c):   *)
(* it offloads a task to an Edge node, and turns the acknowledgement, the    *)
(* status and the blocks of the answer, or their absence, into updates of    *)
(* the trust it has in that Edge node.                                       *)
(*                                                                          *)
(* One task is under way at a time.  The code keeps its endpoint, its        *)
(* coordinates and the verdict on its first block in static variables and    *)
(* guards them with two timed locks; the tasks, numbered here, have no       *)
(* identity in the messages, which carry coordinates only, and nothing keeps *)
(* a route from being asked for again.                                       *)
(***************************************************************************)
EXTENDS Naturals, FiniteSets

CONSTANTS
    Edges,          \* the Edge nodes
    Coords,         \* coordinates, those that are close to each other being the same
    None,           \* no endpoint yet
    MaxTasks,       \* bound: tasks submitted
    LastBlock,      \* number of the last block of an answer
    Scenarios       \* the faults to examine, with which Edges and coordinates

ASSUME NatAssumption  == MaxTasks \in Nat /\ LastBlock \in Nat
ASSUME EdgeAssumption == None \notin Edges

(* "expiry": coap_callback_in_use may expire before CoAP gives up             *)
(* "late":   the answer to an earlier task may still arrive, with coordinates *)
(*           that are not the current task's                                 *)
(* "alike":  it may arrive with any coordinates                              *)
(* "loss":   a block may be lost, and the Edge goes on to the next           *)
Faults == {"expiry", "late", "alike", "loss"}
Scenario == [faults : SUBSET Faults, edges : SUBSET Edges, coords : SUBSET Coords]
ASSUME ScenarioAssumption == Scenarios \subseteq Scenario

VARIABLES
    scenario,               \* what may happen in this behaviour, to which Edges, with which coordinates
    known,                  \* Edges with a routing capability in edge-info
    active,                 \* those of them that are active
    running,                \* app_state.running
    ep,                     \* the Edge the last task was sent to
    task,                   \* the task whose coordinates are stored, 0 = none that was sent
    first_src_isclose,
    coap_callback_in_use,
    task_in_use,
    sent,                   \* tasks sent so far, the last is the current one
    target,                 \* task -> the Edge it was sent to
    route,                  \* task -> the coordinates it was sent with
    open,                   \* tasks whose CoAP exchange is not over
    stage,                  \* task -> what its Edge sends next
    wrong,                  \* task -> one of its blocks was lost or is not what was asked for
    updates                 \* what the trust model was told, of whom, because of which task

edgeInfo == <<known, active, running>>
locks    == <<coap_callback_in_use, task_in_use>>
current  == <<ep, task, first_src_isclose>>
remote   == <<sent, target, route, open, stage, wrong>>
vars     == <<scenario, edgeInfo, current, locks, remote, updates>>

faults      == scenario.faults
EarlyExpiry == "expiry" \in faults
LateAnswers == faults \cap {"late", "alike"} # {}
AlikeAnswers == "alike" \in faults
LostBlocks  == "loss" \in faults

Tasks  == 1..MaxTasks
Blocks == 0..LastBlock
Routes == [src : Coords, dest : Coords]

(* What an Edge sends next: the status, then block b at stage b + 1. *)
StatusNext == 0
Over       == LastBlock + 2

(* tm_update_task_submission, tm_update_task_result (a failure and a timeout   *)
(* are the same to the trust models) and tm_update_result_quality            *)
Update == [kind : {"submission", "result", "quality"}, good : BOOLEAN, edge : Edges, task : Tasks]

-----------------------------------------------------------------------------
(* edge_info_find_addr and edge_info_capability_find come before each update *)
Tell(u) == updates' = IF u.edge \in known THEN updates \cup {u} ELSE updates

(* tm_task_submission_good *)
Submission(good, t) == [kind |-> "submission", good |-> good, edge |-> ep, task |-> t]

SubmitWith(e, r, allowed) ==
    /\ allowed
    /\ running
    /\ e \in active                 \* choose_edge
    /\ ep' = e
    /\ \/ /\ sent < MaxTasks
          /\ sent' = sent + 1
          /\ target' = [target EXCEPT ![sent'] = e]
          /\ route' = [route EXCEPT ![sent'] = r]
          /\ open' = open \cup {sent'}
          /\ stage' = [stage EXCEPT ![sent'] = StatusNext]
          /\ task' = sent'
          /\ task_in_use' = TRUE
          /\ coap_callback_in_use' = TRUE
       \/ /\ task' = 0              \* coap_send_request fails
          /\ UNCHANGED <<sent, target, route, open, stage, locks>>
    /\ UNCHANGED <<scenario, edgeInfo, first_src_isclose, wrong, updates>>

Submit_CallbackUnchecked(e, r) == SubmitWith(e, r, ~task_in_use)

(* event_triggered_action: a task comes in on the serial line *)
Submit(e, r) == SubmitWith(e, r, ~coap_callback_in_use /\ ~task_in_use)

Rejected_LocksUnchecked ==
    /\ task' = 0
    /\ UNCHANGED <<scenario, edgeInfo, ep, first_src_isclose, locks, remote, updates>>

(* A command that is invalid, or for which there is no Edge, has overwritten *)
(* the coordinates when it is rejected.                                      *)
Rejected ==
    /\ ~coap_callback_in_use /\ ~task_in_use
    /\ task' = 0
    /\ UNCHANGED <<scenario, edgeInfo, ep, first_src_isclose, locks, remote, updates>>

-----------------------------------------------------------------------------
(* send_callback.  A response is followed at once by FINISHED, which the     *)
(* trust model ignores.                                                      *)

CallbackWith(t, good, unlocks) ==
    /\ t \in open
    /\ open' = open \ {t}
    /\ coap_callback_in_use' = IF "coap" \in unlocks THEN FALSE ELSE coap_callback_in_use
    /\ task_in_use' = IF "task" \in unlocks THEN FALSE ELSE task_in_use
    /\ Tell(Submission(good, t))
    /\ UNCHANGED <<scenario, edgeInfo, current, sent, target, route, stage, wrong>>

Acknowledged(t) == CallbackWith(t, TRUE, {"coap"})

(* Another response code, or no response after the retransmissions: the task  *)
(* is given up, but codes 2.01 to 2.04 count as a good submission.           *)
Failed(t, good) == CallbackWith(t, good, {"coap", "task"})

CallbackLockExpires ==
    /\ EarlyExpiry
    /\ coap_callback_in_use
    /\ coap_callback_in_use' = FALSE
    /\ UNCHANGED <<scenario, edgeInfo, current, task_in_use, remote, updates>>

(* task_in_use expires, after twice the time and more than CoAP's             *)
(* retransmissions take: routing_process_task_timeout.                       *)
TaskLockExpires ==
    /\ task_in_use
    /\ sent \notin open
    /\ task_in_use' = FALSE
    /\ Tell([kind |-> "result", good |-> FALSE, edge |-> ep, task |-> sent])
    /\ UNCHANGED <<scenario, edgeInfo, current, coap_callback_in_use, remote>>

-----------------------------------------------------------------------------
(* res_coap_routing_post_handler: messages of the Edge task t was sent to.    *)
(* One that is not expected is refused, and the Edge then drops the rest.    *)

Arrives(t, s) == /\ t <= sent
                 /\ stage[t] = s
                 /\ LateAnswers \/ t = sent

Refuse(t, s) == /\ Arrives(t, s)
                /\ ~task_in_use
                /\ stage' = [stage EXCEPT ![t] = Over]
                /\ UNCHANGED <<scenario, edgeInfo, current, locks, sent, target, route, open, wrong,
                               updates>>

Unexpected(t) == \E s \in StatusNext..(Over - 1) : Refuse(t, s)

(* The first message: has the task succeeded?  routing_response_process_status *)
Status(t, ok) ==
    /\ Arrives(t, StatusNext)
    /\ task_in_use
    /\ stage' = [stage EXCEPT ![t] = IF ok THEN 1 ELSE Over]
    /\ Tell([kind |-> "result", good |-> ok, edge |-> target[t], task |-> t])
    /\ UNCHANGED <<scenario, edgeInfo, current, locks, sent, target, route, open, wrong>>

FirstBlock_Sticky(b, first) == first_src_isclose \/ (b = 0 /\ first = route[task].src)

FirstBlock_EachBlock(b, first) == b = 0 /\ first = route[task].src

(* first_src_isclose: the first coordinate of block 0, close to task_src? *)
FirstBlock(b, first) == IF b = 0 THEN first = route[task].src ELSE first_src_isclose

(* A block that does not start, or end, as task t asked for *)
Departs(t, b, first, last) ==
    (b = 0 /\ first # route[t].src) \/ (b = LastBlock /\ last # route[t].dest)

(* Block b of the answer to task t, from coordinate first to coordinate last *)
Block(t, b, first, last) ==
    /\ Arrives(t, b + 1)
    /\ task_in_use
    /\ AlikeAnswers \/ t = sent \/ (first # route[task].src /\ last # route[task].dest)
    /\ first_src_isclose' = FirstBlock(b, first)
    /\ wrong' = [wrong EXCEPT ![t] = @ \/ Departs(t, b, first, last)]
    /\ stage' = [stage EXCEPT ![t] = b + 2]
    /\ IF b = LastBlock
       THEN /\ Tell([kind |-> "quality", edge |-> target[t], task |-> t,
                     good |-> first_src_isclose' /\ last = route[task].dest])
            /\ task_in_use' = FALSE
       ELSE UNCHANGED <<updates, task_in_use>>
    /\ UNCHANGED <<scenario, edgeInfo, ep, task, coap_callback_in_use, sent, target, route, open>>

(* The Edge is told nothing of a lost block and its serial application goes  *)
(* on (routing-task-response.c, send_callback).                              *)
BlockLost(t, b) ==
    /\ LostBlocks
    /\ Arrives(t, b + 1)
    /\ stage' = [stage EXCEPT ![t] = b + 2]
    /\ wrong' = [wrong EXCEPT ![t] = TRUE]
    /\ UNCHANGED <<scenario, edgeInfo, current, locks, sent, target, route, open, updates>>

-----------------------------------------------------------------------------
(* Edges come and go, in the default build, in which an inactive capability *)
(* is removed; EdgeDiscovery has the rest of it.  The application is told    *)
(* of capabilities synchronously, and sees at once whether any is active.    *)

CapabilityAdded(e) ==
    /\ e \notin known
    /\ known' = known \cup {e}
    /\ active' = active \/ active' = active \cup {e}     \* is the Edge itself active?
    /\ running' = (active' # {})
    /\ UNCHANGED <<scenario, current, locks, remote, updates>>

CapabilityRemoved(e) ==
    /\ e \in known
    /\ known' = known \ {e}
    /\ active' = active \ {e}
    /\ running' = (active' # {})
    /\ UNCHANGED <<scenario, current, locks, remote, updates>>

(* An Edge becomes active after its capability did: nobody is told *)
Announced(e) ==
    /\ e \in known \ active
    /\ active' = active \cup {e}
    /\ UNCHANGED <<scenario, known, running, current, locks, remote, updates>>

(* free_up_edge_resource makes room at the cost of an inactive Edge *)
EdgeEvicted(e) ==
    /\ e \in known \ active
    /\ known' = known \ {e}
    /\ UNCHANGED <<scenario, active, running, current, locks, remote, updates>>

Init ==
    /\ scenario \in Scenarios
    /\ known = {} /\ active = {} /\ running = FALSE
    /\ ep = None /\ task = 0 /\ first_src_isclose = FALSE
    /\ coap_callback_in_use = FALSE /\ task_in_use = FALSE
    /\ sent = 0
    /\ target = [t \in Tasks |-> None]
    /\ route = [t \in Tasks |-> None]
    /\ open = {}
    /\ stage = [t \in Tasks |-> Over]
    /\ wrong = [t \in Tasks |-> FALSE]
    /\ updates = {}

Next ==
    \/ \E e \in scenario.edges :
          \/ \E src, dest \in scenario.coords : Submit(e, [src |-> src, dest |-> dest])
          \/ CapabilityAdded(e)
          \/ CapabilityRemoved(e)
          \/ Announced(e)
          \/ EdgeEvicted(e)
    \/ Rejected
    \/ CallbackLockExpires
    \/ TaskLockExpires
    \/ \E t \in Tasks :
          \/ Acknowledged(t)
          \/ \E good \in BOOLEAN : Failed(t, good)
          \/ Unexpected(t)
          \/ \E ok \in BOOLEAN : Status(t, ok)
          \/ \E b \in Blocks : \/ BlockLost(t, b)
                               \/ \E first, last \in scenario.coords : Block(t, b, first, last)

Spec == Init /\ [][Next]_vars

-----------------------------------------------------------------------------
(* Every variable holds a value of its C type (routing.c:45-55). *)
TypeOK ==
    /\ scenario \in Scenario
    /\ known \subseteq Edges /\ active \subseteq known /\ running \in BOOLEAN
    /\ ep \in Edges \cup {None} /\ task \in 0..MaxTasks /\ first_src_isclose \in BOOLEAN
    /\ coap_callback_in_use \in BOOLEAN /\ task_in_use \in BOOLEAN
    /\ sent \in 0..MaxTasks
    /\ target \in [Tasks -> Edges \cup {None}]
    /\ route \in [Tasks -> Routes \cup {None}]
    /\ open \subseteq 1..sent
    /\ stage \in [Tasks -> StatusNext..Over]
    /\ wrong \in [Tasks -> BOOLEAN]
    /\ updates \subseteq Update

(* While coap_callback_in_use is locked, the exchange of the current task is  *)
(* open, so that its callback will unlock it (routing.c:163,170,359).         *)
CallbackLockHasExchange == coap_callback_in_use => sent \in open

(* While a task is under way the endpoint and the coordinates are its own:    *)
(* whoever is told off for a timeout is the one the task was sent to          *)
(* (routing.c:288,328,435).                                                  *)
TaskLockKeepsTask == task_in_use => task = sent /\ ep = target[sent]

(* Each lock protects what it is there for, whatever expires early, arrives   *)
(* late or is lost; and every variable keeps its type.                        *)
LocksProtectTask == TypeOK /\ CallbackLockHasExchange /\ TaskLockKeepsTask

(* Unless a callback's lock expires first, the trust model is told of a task  *)
(* only about the Edge it was sent to (routing.c:175,401,435,463).            *)
BlamesTarget == EarlyExpiry \/ \A u \in updates : u.edge = target[u.task]

(* Unless blocks are lost, an answer is called good only if it starts and     *)
(* ends as its task asked for, whatever routes are asked for again and even   *)
(* when answers to earlier tasks come in between, as long as these do not     *)
(* have the current task's coordinates (routing.c:576-622).  One that does    *)
(* stands in for the first block of the current answer (line 588).           *)
GoodIsRight ==
    LostBlocks \/ AlikeAnswers
        \/ \A u \in updates : u.kind = "quality" /\ u.good => ~wrong[u.task]

(* and, unless such late answers do come in between, one that does is never   *)
(* called bad.                                                               *)
RightIsGood == LateAnswers \/ \A u \in updates : u.kind = "quality" /\ ~u.good => wrong[u.task]

==============================================================================
