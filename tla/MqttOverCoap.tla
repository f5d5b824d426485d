----------------------------- MODULE MqttOverCoap -----------------------------
(***************************************************************************)
(* The MQTT client of a node (wsn/common/mqtt-over-coap/mqtt-over-coap.c):   *)
(* it subscribes to a fixed list of topics at the bridge, one CoAP request    *)
(* at a time, and publishes.  Subscribing and publishing share one message,   *)
(* one lock with a timeout, and one coap_callback: an exchange that is still  *)
(* open when the next request is sent reports through the callback (and with  *)
(* the coap_callback_i) that was stored last.                                 *)
(***************************************************************************)
EXTENDS Naturals, FiniteSets

CONSTANTS
    TopicsLen,       \* TOPICS_TO_SUBSCRIBE_LEN
    Exchanges,       \* CoAP transactions (COAP_MAX_OPEN_TRANSACTIONS)
    MaxEvents,       \* pe_state_machine events the kernel's queue has room for
    MaxPings,        \* echo requests under way
    MqttScenarios,   \* the sets of faults to examine
    Unused           \* of a transaction that is free, and of coap_callback at first

(* "send":    coap_send_request may fail                                      *)
(* "post":    other events may fill the kernel's queue                        *)
(* "publish": the application publishes                                      *)
(* "expiry":  the lock may expire before its exchange ends                    *)
(* "network": pings and connectivity may be lost                              *)
(* "slow":    the answer to a ping may take longer than the ping's period     *)
MqttFaults == {"slow", "send", "post", "publish", "expiry", "network"}

ASSUME MqttAssumption ==
    /\ TopicsLen \in Nat /\ MaxEvents \in Nat \ {0} /\ MaxPings \in Nat \ {0}
    /\ IsFiniteSet(Exchanges)
    /\ Unused \notin 0..TopicsLen
    /\ MqttScenarios \subseteq SUBSET MqttFaults

TopicNumbers == 1..TopicsLen

VARIABLES
    faults,                 \* what may happen in this behaviour
    topic_subscribe_status,
    coap_callback_in_use,   \* the timed lock
    coap_callback_i,        \* topic of the last subscribe request
    callback,               \* function stored in coap_callback
    exchange,               \* exchange -> topic asked for, 0 for a publish, Unused if free
    granted,                \* topics the bridge has subscribed the node to
    connectivity,           \* have_connectivity()
    connected,              \* coap_endpoint_is_connected(&root_ep)
    events,                 \* pe_state_machine events in the kernel's queue
    publish_periodic_timer, \* armed
    echo_request_timer,     \* armed
    pings                   \* echo requests not answered yet

coap    == <<coap_callback_in_use, coap_callback_i, callback, exchange>>
network == <<connectivity, connected, pings>>
timers  == <<publish_periodic_timer, echo_request_timer>>
mqttVars == <<faults, topic_subscribe_status, coap, granted, network, events, timers>>

Open == {x \in Exchanges : exchange[x] # Unused}

Unsubscribed == {i \in TopicNumbers : topic_subscribe_status[i] = "NOT_SUBSCRIBED"}

-----------------------------------------------------------------------------
(* process_post to mqtt_client_process, n events being queued already *)
Post(n) == \/ n < MaxEvents /\ events' = n + 1
           \/ (n >= MaxEvents \/ "post" \in faults) /\ events' = n

(* coap_send_request: takes a transaction, or fails *)
Send(what, cb) ==
    /\ \E x \in Exchanges \ Open : exchange' = [exchange EXCEPT ![x] = what]
    /\ callback' = cb
    /\ coap_callback_in_use' = TRUE

SendFails == "send" \in faults \/ Open = Exchanges

mqtt_over_coap_publish_LockUnchecked ==
    /\ "publish" \in faults
    /\ connected
    /\ Send(0, "publish_callback")
    /\ UNCHANGED <<faults, topic_subscribe_status, coap_callback_i, granted, network, events, timers>>

(* mqtt_over_coap_publish.  When it refuses or fails it leaves no trace. *)
mqtt_over_coap_publish ==
    /\ "publish" \in faults
    /\ ~coap_callback_in_use
    /\ connected
    /\ Send(0, "publish_callback")
    /\ UNCHANGED <<faults, topic_subscribe_status, coap_callback_i, granted, network, events, timers>>

SendSubscribe(i) == Send(i, "subscribe_callback") /\ coap_callback_i' = i

(* The topics before i could not be sent for, and i is: a busy lock makes     *)
(* mqtt_over_coap_subscribe return -1, which subscribe() takes for success.   *)
SubscribeAt(i, armed) ==
    /\ i \in Unsubscribed
    /\ \A j \in Unsubscribed : j < i => ~coap_callback_in_use /\ SendFails
    /\ \/ coap_callback_in_use /\ UNCHANGED coap
       \/ ~coap_callback_in_use /\ SendSubscribe(i)
    /\ topic_subscribe_status' = [topic_subscribe_status EXCEPT ![i] = "SUBSCRIBING"]
    /\ publish_periodic_timer' = (armed \/ \E j \in Unsubscribed : j < i)

SubscribeNone(armed) ==
    /\ Unsubscribed = {} \/ (~coap_callback_in_use /\ SendFails)
    /\ publish_periodic_timer' = armed
    /\ UNCHANGED <<topic_subscribe_status, coap>>

Subscribe_NoRetry(armed) == (\E i \in TopicNumbers : SubscribeAt(i, armed)) \/ SubscribeNone(armed)

(* subscribe(): the first topic for which a request is sent, or none; armed   *)
(* is whether publish_periodic_timer is running                               *)
Subscribe(armed) == \/ \E i \in TopicNumbers : SubscribeAt(i, armed)
                    \/ SubscribeNone(armed \/ Unsubscribed # {})

(* state_machine() *)
StateMachine(armed) ==
    \/ /\ connectivity /\ connected
       /\ Subscribe(armed)
       /\ UNCHANGED <<network, echo_request_timer>>
    \/ /\ connectivity /\ ~connected
       /\ connected' \in BOOLEAN
       /\ publish_periodic_timer' = TRUE
       /\ UNCHANGED <<topic_subscribe_status, coap, connectivity, pings, echo_request_timer>>
    \/ /\ ~connectivity
       /\ echo_request_timer' = TRUE
       /\ publish_periodic_timer' = armed
       /\ UNCHANGED <<topic_subscribe_status, coap, network>>

(* pe_state_machine *)
StateMachineEvent ==
    /\ events > 0
    /\ events' = events - 1
    /\ StateMachine(publish_periodic_timer)
    /\ UNCHANGED <<faults, granted>>

(* PROCESS_EVENT_TIMER of publish_periodic_timer *)
PeriodicTimer ==
    /\ publish_periodic_timer
    /\ StateMachine(FALSE)
    /\ UNCHANGED <<faults, granted, events>>

(* PROCESS_EVENT_TIMER of echo_request_timer: ping_parent, which arms it again *)
EchoTimer ==
    /\ echo_request_timer
    /\ connectivity
    /\ pings = 0 \/ ("slow" \in faults /\ pings < MaxPings)
    /\ pings' = pings + 1
    /\ UNCHANGED <<faults, topic_subscribe_status, coap, granted, connectivity, connected, events, timers>>

(* echo_reply_handler *)
EchoReply ==
    /\ pings > 0
    /\ pings' = pings - 1
    /\ connectivity
    /\ Post(events)
    /\ echo_request_timer' = FALSE
    /\ UNCHANGED <<faults, topic_subscribe_status, coap, granted, connectivity, connected,
                   publish_periodic_timer>>

(* A ping is lost, or answered by what is no longer the default router. *)
PingLost ==
    /\ pings > 0
    /\ "network" \in faults
    /\ pings' = pings - 1
    /\ UNCHANGED <<faults, topic_subscribe_status, coap, granted, connectivity, connected, events, timers>>

-----------------------------------------------------------------------------
(* An exchange ends.  CoAP calls back with the response and then with         *)
(* FINISHED, or once with an error.                                           *)

End(x) == /\ exchange' = [exchange EXCEPT ![x] = Unused]
          /\ coap_callback_in_use' = FALSE
          /\ UNCHANGED <<faults, coap_callback_i, callback, network, timers>>

Status(new) == topic_subscribe_status' = [topic_subscribe_status EXCEPT ![coap_callback_i] = new]

SubscribeCallback_NoPost(new) == Status(new) /\ UNCHANGED events

SubscribeCallback_AnyAnswer(new) == Status("SUBSCRIBED") /\ Post(events)

(* subscribe_callback: set the topic's status, unlock, continue with the next *)
SubscribeCallback(new) == Status(new) /\ Post(events)

Callback(new) ==
    \/ callback = "subscribe_callback" /\ SubscribeCallback(new)
    \/ callback = "publish_callback" /\ UNCHANGED <<topic_subscribe_status, events>>

(* The answer to x: 2.01 to a subscribe if the bridge has granted it. *)
Response(x, created) ==
    /\ exchange[x] # Unused
    /\ exchange[x] = 0 => ~created
    /\ granted' = IF created THEN granted \cup {exchange[x]} ELSE granted
    /\ Callback(IF created THEN "SUBSCRIBED" ELSE "NOT_SUBSCRIBED")
    /\ End(x)

(* No answer after all retransmissions; the bridge may have got the request. *)
Timeout(x) ==
    /\ exchange[x] # Unused
    /\ granted' \in {granted, granted \cup ({exchange[x]} \ {0})}
    /\ Callback("NOT_SUBSCRIBED")
    /\ End(x)

(* timed_unlock_callack: the process ignores pe_timed_unlock_unlocked *)
LockExpires ==
    /\ "expiry" \in faults
    /\ coap_callback_in_use
    /\ coap_callback_in_use' = FALSE
    /\ UNCHANGED <<faults, topic_subscribe_status, coap_callback_i, callback, exchange, granted,
                   network, events, timers>>

(* The routing protocol. *)
Network ==
    /\ \/ ~connectivity /\ connectivity' = TRUE /\ UNCHANGED connected
       \/ connectivity /\ "network" \in faults /\ connectivity' = FALSE /\ connected' = FALSE
       \/ connectivity /\ ~connected /\ connected' = TRUE /\ UNCHANGED connectivity
    /\ UNCHANGED <<faults, topic_subscribe_status, coap, granted, pings, events, timers>>

MqttInit ==
    /\ faults \in MqttScenarios
    /\ topic_subscribe_status = [i \in TopicNumbers |-> "NOT_SUBSCRIBED"]
    /\ coap_callback_in_use = FALSE
    /\ coap_callback_i = 0 /\ callback = Unused
    /\ exchange = [x \in Exchanges |-> Unused]
    /\ granted = {}
    /\ connectivity = FALSE /\ connected = FALSE /\ pings = 0
    /\ events = 0
    /\ publish_periodic_timer = FALSE
    /\ echo_request_timer = TRUE

MqttNext ==
    \/ mqtt_over_coap_publish
    \/ StateMachineEvent \/ PeriodicTimer \/ EchoTimer \/ EchoReply \/ PingLost
    \/ \E x \in Exchanges : Timeout(x) \/ \E created \in BOOLEAN : Response(x, created)
    \/ LockExpires
    \/ Network

MqttSpec == MqttInit /\ [][MqttNext]_mqttVars

(* Timers fire, events are delivered, the parent answers pings, every         *)
(* exchange ends, and a bridge that is asked again and again does grant.      *)
MqttFairness ==
    /\ WF_mqttVars(StateMachineEvent) /\ WF_mqttVars(PeriodicTimer)
    /\ WF_mqttVars(EchoTimer) /\ WF_mqttVars(EchoReply)
    /\ WF_mqttVars(Network)
    /\ \A x \in Exchanges : /\ WF_mqttVars(Timeout(x) \/ \E created \in BOOLEAN : Response(x, created))
                            /\ SF_mqttVars(Response(x, TRUE))

MqttFairSpec == MqttSpec /\ MqttFairness

-----------------------------------------------------------------------------
Statuses == {"NOT_SUBSCRIBED", "SUBSCRIBING", "SUBSCRIBED"}

(* Every variable holds a value of its C type, and the event queue its size. *)
MqttTypeOK ==
    /\ faults \in SUBSET MqttFaults
    /\ topic_subscribe_status \in [TopicNumbers -> Statuses]
    /\ coap_callback_in_use \in BOOLEAN
    /\ coap_callback_i \in TopicNumbers \cup {0}
    /\ callback \in {"publish_callback", "subscribe_callback", Unused}
    /\ exchange \in [Exchanges -> TopicNumbers \cup {0, Unused}]
    /\ granted \subseteq TopicNumbers
    /\ {connectivity, connected, publish_periodic_timer, echo_request_timer} \subseteq BOOLEAN
    /\ events \in 0..MaxEvents
    /\ pings \in 0..MaxPings

(* The lock is never held without a request that will release it, however     *)
(* late earlier answers come; and while no lock expires it protects what the  *)
(* request shares (message, callback, coap_callback_i): it is held as long as *)
(* an exchange is open, and no two are (mqtt-over-coap.c:110,230,269).  Every *)
(* variable keeps its type.                                                   *)
LockCoversExchange ==
    /\ MqttTypeOK
    /\ coap_callback_in_use => Open # {}
    /\ "expiry" \in faults \/ (Cardinality(Open) <= 1 /\ (Open # {} => coap_callback_in_use))

(* While no lock expires, a topic that the node takes for subscribed was       *)
(* granted by the bridge.                                                     *)
SubscribedIsGranted ==
    "expiry" \in faults \/ \A i \in TopicNumbers : topic_subscribe_status[i] = "SUBSCRIBED" => i \in granted

(* Without publishing, lost events and early expiry: as long as a topic is to *)
(* be subscribed to, something is under way that will run the state machine   *)
(* again: an event, a timer, a ping or a request.                             *)
RetryPending ==
    faults \subseteq {"slow", "send", "network"} /\ Unsubscribed # {} =>
        \/ events > 0
        \/ publish_periodic_timer
        \/ echo_request_timer
        \/ Open # {} /\ callback = "subscribe_callback"

(* When nothing else uses the lock, pings are answered in time and requests    *)
(* only fail by being refused or timing out, every topic is subscribed to for  *)
(* good.                                                                      *)
AllSubscribed == faults = {} => <>[](\A i \in TopicNumbers : topic_subscribe_status[i] = "SUBSCRIBED")

(* "Subscription request (%u) sent": a topic is SUBSCRIBING while a request   *)
(* for it is open, whose answer sets its next status.                         *)
SubscribingIsRequested ==
    \A i \in TopicNumbers : topic_subscribe_status[i] = "SUBSCRIBING" => \E x \in Open : exchange[x] = i
=============================================================================
