--------------------------- MODULE EdgeDiscovery ---------------------------
(***************************************************************************)
(* How a node learns which Edges can run which application.  An Edge       *)
(* (edge.c, capability.c) announces itself and its capabilities, at once   *)
(* when the resource rich device says so and then periodically.  The       *)
(* publications reach the node through the MQTT bridge, each in a task of  *)
(* its own, and change edge-info (trust-common.c, edge-info.c); every      *)
(* application keeps in app_state.running whether some Edge can serve it.  *)
(***************************************************************************)
EXTENDS Integers, FiniteSets, Sequences, SequencesExt

CONSTANTS
    Edges,
    Apps,                       \* applications, by name
    Offers,                     \* Edge -> sequence of its application_names
    NumEdgeResources,           \* NUM_EDGE_RESOURCES
    NumEdgeCapabilities,        \* NUM_EDGE_CAPABILITIES
    MaxInFlight,                \* bound on the publications under way
    Scenarios                   \* the builds, faults, Edges and bounds to consider

Builds == {"lazy",              \* NO_ACTIVE_REMOVAL_ON_UNANNOUNCE
           "default",
           "aggressive"}        \* AGGRESSIVE_REMOVAL_ON_UNANNOUNCE
Faults == {"loss",              \* of publications, on their way or before they are sent
           "reordering",
           "early"}             \* applications start before the Edge knows of its bridge

ASSUME EdgeAssumption ==
    /\ NumEdgeResources \in Nat \ {0} /\ NumEdgeCapabilities \in Nat \ {0}
    /\ MaxInFlight \in Nat \ {0}
    /\ Offers \in [Edges -> Seq(Apps) \ {<<>>}]
    /\ Scenarios \subseteq [build : Builds, faults : SUBSET Faults,
                         edges : SUBSET Edges, inFlight : 1..MaxInFlight]

VARIABLES
    scenario,
    settled,        \* the resource rich devices are left alone and nothing fails any more
    up,             \* Edge -> resource_rich_edge_started
    available,      \* Edge -> applications_available
    idx,            \* Edge -> application_capability_publish_idx, from 1
    timer,          \* Edge -> publish_capability_timer
    channel,        \* Edge -> its publications that have not reached the node
    node            \* the node's edge-info and the state of its applications

edgeSide == <<up, available, idx, timer>>
vars     == <<scenario, settled, edgeSide, channel, node>>

Message == [kind : {"announce", "unannounce"}]
           \cup [kind : {"add", "remove"}, app : Apps, certificate : BOOLEAN]

Announce         == [kind |-> "announce"]
Unannounce       == [kind |-> "unannounce"]
Capability(k, a, c) == [kind |-> k, app |-> a, certificate |-> c]

-----------------------------------------------------------------------------
(* edge-info.  The list holds the Edge added last first. *)

Known(n, e)      == e \in ToSet(n.list)
Capabilities(n, e) == {a \in Apps : n.cap[e][a] # "none"}

edge_info_has_active_capability(n, a) ==
    \E e \in ToSet(n.list) : n.active[e] /\ n.cap[e][a] = "active"

edge_resource_free_KeepsCapabilities(n, e) == n.pool

(* The free capabilities once those of an Edge have been given back *)
edge_resource_free(n, e) == n.pool + Cardinality(Capabilities(n, e))

edge_info_capability_clear(n, e) ==
    [n EXCEPT !.cap[e] = [a \in Apps |-> "none"],
              !.pool = edge_resource_free(n, e)]

edge_info_remove(n, e) ==
    LET i == CHOOSE j \in DOMAIN n.list : n.list[j] = e
    IN [edge_info_capability_clear(n, e) EXCEPT !.list = RemoveAt(@, i), !.active[e] = FALSE]

Inactive_Any(n) == DOMAIN n.list

(* The places of the inactive Edges *)
Inactive(n) == {i \in DOMAIN n.list : ~n.active[n.list[i]]}

(* The first inactive Edge makes room. *)
free_up_edge_resource(n) ==
    IF Inactive(n) = {} THEN n ELSE edge_info_remove(n, n.list[Min(Inactive(n))])

edge_info_add(n, e) ==
    LET m == IF Len(n.list) < NumEdgeResources THEN n ELSE free_up_edge_resource(n)
    IN IF Known(n, e) \/ Len(m.list) = NumEdgeResources THEN n
       ELSE [m EXCEPT !.list = <<e>> \o @]

(* edge_capability_new.  When the pool is empty it looks for an inactive    *)
(* capability to free: PoolSuffices says that this is never needed.         *)
edge_info_capability_add(n, e, a) ==
    IF Cardinality(Capabilities(n, e)) >= NumEdgeCapabilities \/ n.pool = 0 THEN n
    ELSE [n EXCEPT !.cap[e][a] = "inactive", !.pool = @ - 1]

-----------------------------------------------------------------------------
(* The handlers of publications, trust-common.c *)

Tell_Started(n, as) == [n EXCEPT !.running = [a \in Apps |->
                           @[a] \/ (a \in as /\ edge_info_has_active_capability(n, a))]]

(* post_to_capability_process is synchronous: the application looks at      *)
(* edge-info again before the handler goes on.                              *)
Tell(n, as) == [n EXCEPT !.running = [a \in Apps |->
                   IF a \in as THEN edge_info_has_active_capability(n, a) ELSE @[a]]]

process_certificate(n, e) ==
    LET m == edge_info_add(n, e)
    IN IF Known(m, e) THEN [m EXCEPT !.active[e] = TRUE] ELSE m

mqtt_publish_unannounce_handler(n, e) ==
    LET off  == [n EXCEPT !.active[e] = FALSE,
                          !.cap[e] = [a \in Apps |-> IF @[a] = "none" THEN "none" ELSE "inactive"]]
        told == Tell(off, Capabilities(n, e))
    IN IF ~Known(n, e) THEN n
       ELSE CASE scenario.build = "lazy"       -> told
              [] scenario.build = "default"    -> edge_info_capability_clear(told, e)
              [] scenario.build = "aggressive" -> edge_info_remove(told, e)

(* A capability message may carry the Edge's certificate *)
Certified(n, e, m) == IF m.certificate THEN process_certificate(n, e) ELSE n

mqtt_publish_capability_add_handler(n, e, m) ==
    LET c == Certified(n, e, m)
        k == IF Known(c, e) THEN c ELSE process_certificate(c, e)
        h == IF Known(k, e) /\ k.cap[e][m.app] = "none"
             THEN edge_info_capability_add(k, e, m.app) ELSE k
    IN IF h.cap[e][m.app] # "inactive" THEN h
       ELSE Tell([h EXCEPT !.cap[e][m.app] = "active"], {m.app})

mqtt_publish_capability_remove_handler(n, e, m) ==
    LET c == Certified(n, e, m)
        t == Tell([c EXCEPT !.cap[e][m.app] = "inactive"], {m.app})
        r == [t EXCEPT !.cap[e][m.app] = "none", !.pool = @ + 1]
    IN IF ~Known(c, e) \/ c.cap[e][m.app] = "none" THEN c
       ELSE CASE scenario.build = "lazy" -> t
              [] scenario.build = "aggressive" /\ Capabilities(r, e) = {} -> edge_info_remove(r, e)
              [] OTHER -> r

mqtt_publish_handler(n, e, m) ==
    CASE m.kind = "announce"   -> process_certificate(n, e)
      [] m.kind = "unannounce" -> mqtt_publish_unannounce_handler(n, e)
      [] m.kind = "add"        -> mqtt_publish_capability_add_handler(n, e, m)
      [] m.kind = "remove"     -> mqtt_publish_capability_remove_handler(n, e, m)

-----------------------------------------------------------------------------
(* The Edge *)

InFlight == {x \in Edges \X (1..MaxInFlight) : x[2] <= Len(channel[x[1]])}

(* mqtt_over_coap_publish; it fails while another message holds its lock *)
Publish(e, m) == /\ Cardinality(InFlight) < scenario.inFlight
                 /\ channel' = [channel EXCEPT ![e] = Append(@, m)]
PublishFails  == "loss" \in scenario.faults /\ ~settled /\ UNCHANGED channel

(* etimer_stop does not take back the event of a timer that has expired *)
Stopped(e) == IF timer[e] = "expired" THEN "expired" ELSE "off"

trigger_faster_publish(e) == /\ idx' = [idx EXCEPT ![e] = 1]
                             /\ timer' = [timer EXCEPT ![e] = Stopped(e)]

BridgeStarted(e) ==
    /\ ~settled
    /\ ~up[e]
    /\ up' = [up EXCEPT ![e] = TRUE]
    /\ trigger_faster_publish(e)
    /\ UNCHANGED <<scenario, settled, available, channel, node>>

BridgeStopped(e) ==
    /\ ~settled
    /\ available' = [available EXCEPT ![e] = {}]
    /\ up' = [up EXCEPT ![e] = FALSE]
    /\ IF up[e] THEN trigger_faster_publish(e) ELSE UNCHANGED <<idx, timer>>
    /\ UNCHANGED <<scenario, settled, channel, node>>

ApplicationStarted(e, a) ==
    /\ ~settled
    /\ up[e] \/ "early" \in scenario.faults
    /\ available' = [available EXCEPT ![e] = @ \cup {a}]
    /\ Publish(e, Capability("add", a, TRUE)) \/ PublishFails
    /\ UNCHANGED <<scenario, settled, up, idx, timer, node>>

ApplicationStopped(e, a) ==
    /\ ~settled
    /\ available' = [available EXCEPT ![e] = @ \ {a}]
    /\ Publish(e, Capability("remove", a, TRUE)) \/ PublishFails
    /\ UNCHANGED <<scenario, settled, up, idx, timer, node>>

AnnounceWith(e, t) ==
    /\ Publish(e, IF up[e] THEN Announce ELSE Unannounce)
    /\ timer' = [timer EXCEPT ![e] = t]
    /\ UNCHANGED <<scenario, settled, up, available, idx, node>>

(* Capabilities are published once the Edge has been announced.  How long   *)
(* the timers run (the short and the long interval of announce_short_count) *)
(* is left out: they may run out at any time.                               *)
periodic_publish_announce(e) ==
    AnnounceWith(e, IF ~up[e] THEN Stopped(e)
                    ELSE IF timer[e] = "expired" THEN "expired" ELSE "set")

CapabilityTimerExpires(e) ==
    /\ timer[e] = "set"
    /\ timer' = [timer EXCEPT ![e] = "expired"]
    /\ UNCHANGED <<scenario, settled, up, available, idx, channel, node>>

NextIdx_Stays(e) == idx[e]

NextIdx(e) == (idx[e] % Len(Offers[e])) + 1

periodic_publish_capability(e) ==
    LET a == Offers[e][idx[e]]
    IN /\ timer[e] = "expired"
       /\ timer' = [timer EXCEPT ![e] = "set"]
       /\ \/ /\ Publish(e, Capability(IF a \in available[e] THEN "add" ELSE "remove", a, FALSE))
             /\ idx' = [idx EXCEPT ![e] = NextIdx(e)]
          \/ PublishFails /\ UNCHANGED idx
       /\ UNCHANGED <<scenario, settled, up, available, node>>

-----------------------------------------------------------------------------
(* The network *)

Earliest(i) == i = 1 \/ "reordering" \in scenario.faults

Deliver(e) ==
    /\ \E i \in 1..Len(channel[e]) :
          /\ Earliest(i)
          /\ channel' = [channel EXCEPT ![e] = RemoveAt(@, i)]
          /\ node' = mqtt_publish_handler(node, e, channel[e][i])
    /\ UNCHANGED <<scenario, settled, edgeSide>>

Lose(e) ==
    /\ ~settled
    /\ "loss" \in scenario.faults
    /\ channel[e] # <<>>
    /\ channel' = [channel EXCEPT ![e] = Tail(@)]
    /\ UNCHANGED <<scenario, settled, edgeSide, node>>

Settle == /\ ~settled
          /\ settled' = TRUE
          /\ UNCHANGED <<scenario, edgeSide, channel, node>>

Init ==
    /\ scenario \in Scenarios
    /\ settled = FALSE
    /\ up = [e \in Edges |-> FALSE]
    /\ available = [e \in Edges |-> {}]
    /\ idx = [e \in Edges |-> 1]
    /\ timer = [e \in Edges |-> "off"]
    /\ channel = [e \in Edges |-> <<>>]
    /\ node = [list    |-> <<>>,
               active  |-> [e \in Edges |-> FALSE],
               cap     |-> [e \in Edges |-> [a \in Apps |-> "none"]],
               pool    |-> NumEdgeResources * NumEdgeCapabilities,
               running |-> [a \in Apps |-> FALSE]]

Next ==
    \/ Settle
    \/ \E e \in scenario.edges :
                     \/ BridgeStarted(e)
                     \/ BridgeStopped(e)
                     \/ \E a \in ToSet(Offers[e]) : ApplicationStarted(e, a) \/ ApplicationStopped(e, a)
                     \/ periodic_publish_announce(e)
                     \/ CapabilityTimerExpires(e)
                     \/ periodic_publish_capability(e)
                     \/ Deliver(e)
                     \/ Lose(e)

Spec == Init /\ [][Next]_vars

(* Timers run out, the lock that publications take is released in the end,  *)
(* and the bridge does not give up on all it forwards.                      *)
Fairness == \A e \in Edges : /\ WF_vars(CapabilityTimerExpires(e))
                             /\ SF_vars(periodic_publish_announce(e))
                             /\ SF_vars(periodic_publish_capability(e))
                             /\ WF_vars(Deliver(e))

FairSpec == Spec /\ Fairness

-----------------------------------------------------------------------------
(* Every variable keeps its type; edge-info lists an Edge once and is never  *)
(* over its limits (edge-info.c:16-17).                                     *)
TypeOK ==
    /\ scenario \in Scenarios
    /\ settled \in BOOLEAN
    /\ up \in [Edges -> BOOLEAN]
    /\ available \in [Edges -> SUBSET Apps]
    /\ \A e \in Edges : idx[e] \in 1..Len(Offers[e])
    /\ timer \in [Edges -> {"off", "set", "expired"}]
    /\ channel \in [Edges -> Seq(Message)]
    /\ node \in [list : Seq(Edges), active : [Edges -> BOOLEAN],
                 cap : [Edges -> [Apps -> {"none", "inactive", "active"}]],
                 pool : 0..(NumEdgeResources * NumEdgeCapabilities), running : [Apps -> BOOLEAN]]
    /\ IsInjective(node.list) /\ Len(node.list) <= NumEdgeResources

(* An Edge that may have another capability finds memory for it, so the     *)
(* search of edge_capability_new for a capability to give up is never made: *)
(* every way to drop an Edge or a capability gives its memory back.         *)
(* edge-info stays within its limits.                                       *)
PoolSuffices ==
    /\ TypeOK
    /\ \A e \in ToSet(node.list) :
          Cardinality(Capabilities(node, e)) < NumEdgeCapabilities => node.pool > 0

(* An Edge the node has dropped on its own account was not active: only     *)
(* what an Edge itself publishes takes an active Edge out of edge-info.     *)
OnlyInactiveEvicted ==
    [][\A e \in Edges : Known(node, e) /\ node.active[e] /\ ~Known(node', e)
                        => channel'[e] # channel[e]]_vars

(* Every announcement is heard before the capabilities that follow it, or   *)
(* an Edge that was unannounced is forgotten altogether.                    *)
Heard == scenario.faults = {} \/ scenario.build = "aggressive"

(* An application runs exactly while some active Edge has its capability:   *)
(* every handler that changes that tells the application.  Unless: a        *)
(* capability added to an Edge that is not active, for its announcement was *)
(* lost or overtaken or its timer outlived an unannouncement, goes unheard  *)
(* when the Edge is announced (trust-common.c:97).                          *)
RunningIsCurrent ==
    Heard => \A a \in Apps : node.running[a] = edge_info_has_active_capability(node, a)

(* When all settles, for good, with an application that no Edge offers, the *)
(* application stops, whatever was lost, overtaken or evicted on the way.   *)
Stops == \A a \in Apps :
    []<>(settled /\ \A e \in Edges : a \notin available[e]) => <>[]~node.running[a]

Alone(e) == up[e] /\ \A f \in Edges \ {e} : ~up[f] /\ available[f] = {}

(* When all settles with one Edge up, and its capabilities fit, what it     *)
(* offers runs.                                                             *)
Starts == \A e \in Edges : \A a \in ToSet(Offers[e]) :
    []<>(/\ settled /\ Heard
         /\ Len(Offers[e]) <= NumEdgeCapabilities
         /\ Alone(e) /\ a \in available[e]) => <>[]node.running[a]

(* What Edges offer in the end is what runs. *)
Converges == Stops /\ Starts
=============================================================================
