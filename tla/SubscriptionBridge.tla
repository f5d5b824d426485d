-------------------------- MODULE SubscriptionBridge --------------------------
(***************************************************************************)
(* The MQTT-CoAP bridge of the root (resource_rich/root/mqtt_coap_bridge.py):*)
(* hosts subscribe to topics over CoAP, the bridge subscribes to them at the *)
(* MQTT broker on their behalf, and pushes the broker's messages to them.    *)
(*                                                                           *)
(* asyncio runs a coroutine up to its next suspension, so one action is what *)
(* happens between two of them.  SubscriptionManager's lock is never held    *)
(* across a suspension and so is never waited for.                           *)
(***************************************************************************)
EXTENDS Naturals, Sequences

CONSTANTS
    Hosts,           \* CoAP clients
    Topics,          \* topics and topic filters that hosts subscribe to
    Published,       \* topics that messages are published to
    Matching,        \* pairs <<filter, topic>> with topic_matches_sub(filter, topic)
    Tasks,           \* CoAP requests the bridge may be serving at once
    MaxPackets,      \* bound on the packets under way to the broker
    Messages,        \* messages that may be published
    Scenarios,       \* the environments considered
    None

(* What may go wrong: an MQTT operation times out or is refused, a message    *)
(* has no known content type or its push raises something else than a         *)
(* timeout (both "forward"), the bridge is killed and                          *)
(* started again, it is killed while the database is being written.           *)
Faults == {"mqtt", "forward", "crash", "torn"}

Request == [op : {"subscribe", "unsubscribe"}, host : Hosts, topic : Topics]
Tables  == UNION {[T -> SUBSET Hosts] : T \in SUBSET Topics}
Pushing == [msg : Messages, topic : Published, targets : SUBSET Hosts]

ASSUME BridgeAssumption ==
    /\ None \notin Request \cup Pushing /\ None \notin Tables
    /\ Published \subseteq Topics
    /\ Matching \subseteq Topics \X Published
    /\ None \notin Tasks /\ "restore" \notin Tasks /\ None # "restore"
    /\ MaxPackets \in Nat
    /\ Scenarios \subseteq [faults : SUBSET Faults, topics : SUBSET Topics,
                            tasks : SUBSET Tasks, messages : SUBSET Messages]

VARIABLES
    scenario,    \* the faults, topics, requests and messages of this execution
    table,       \* _subscriptions: function from the topics it has as keys to sets of hosts
    disk,        \* the pickled table: Empty while there is no file, None if it cannot be read
    phase,       \* how far start() has come
    socket,      \* the MQTT client has a connection to the broker
    toRestore,   \* saved topics that start() has not subscribed to yet
    tasks,       \* task -> the request it waits for the broker with
    link,        \* packets on their way to the broker
    acks,        \* acknowledgements on their way back
    broker,      \* the topics the broker has the bridge subscribed to
    inbox,       \* messages the MQTT client has queued for on_publish
    current,     \* the message being pushed and the hosts that have not answered
    forwarder,   \* the on_publish task
    unpublished, \* messages not published yet
    believes     \* <<host, topic>> last answered CREATED, since the database was last torn

store    == <<table, disk>>
start    == <<phase, socket, toRestore>>
mqtt     == <<link, acks, broker>>
forward  == <<inbox, current, forwarder, unpublished>>
vars     == <<scenario, store, start, tasks, mqtt, forward, believes>>

Serial == \A k, l \in scenario.tasks : k = l

MayFail(fault) == fault \in scenario.faults

Empty   == [t \in {} |-> {}]
Ids     == Tasks \cup {"restore", None}
Packet  == [op : {"subscribe", "unsubscribe"}, topic : Topics, id : Ids]

-----------------------------------------------------------------------------
(* SubscriptionManager.  _subscriptions is a defaultdict: reading a topic     *)
(* makes it a key.                                                            *)

Subs(t) == IF t \in DOMAIN table THEN table[t] ELSE {}

SetSubs(t, hosts) == [u \in DOMAIN table \cup {t} |-> IF u = t THEN hosts ELSE table[u]]

Touch(t) == SetSubs(t, Subs(t))

ShouldSubscribe(t) == Subs(t) = {}

ShouldUnsubscribe_AnySize(t, h) == h \in Subs(t)

ShouldUnsubscribe(t, h) == Subs(t) = {h}

ManagerSubscribe_NotPersisted(t, h) ==
    /\ table' = SetSubs(t, Subs(t) \cup {h})
    /\ disk' = disk

ManagerSubscribe(t, h) ==
    /\ table' = SetSubs(t, Subs(t) \cup {h})
    /\ disk' = table'

ManagerUnsubscribe_WholeTopic(t, h) ==
    /\ table' = SetSubs(t, {})
    /\ disk' = table'

ManagerUnsubscribe(t, h) ==
    /\ table' = SetSubs(t, Subs(t) \ {h})
    /\ disk' = IF h \in Subs(t) THEN table' ELSE disk

Subscribers_Exact(t) == Subs(t)

Subscribers(t) == UNION {table[f] : f \in {g \in DOMAIN table : <<g, t>> \in Matching}}

-----------------------------------------------------------------------------
(* CoAP requests.  coap_to_mqtt_subscribe and coap_to_mqtt_unsubscribe each   *)
(* have at most one suspension, at the MQTT operation.                        *)

Created(h, t) == believes' = believes \cup {<<h, t>>}

(* the host has asked to leave, whether it gets an answer or not *)
Deleted(h, t) == believes' = believes \ {<<h, t>>}

Wait(k, op, h, t) ==
    /\ socket
    /\ Len(link) < MaxPackets
    /\ link' = Append(link, [op |-> op, topic |-> t, id |-> k])
    /\ tasks' = [tasks EXCEPT ![k] = [op |-> op, host |-> h, topic |-> t]]

(* render_get *)
SubscribeRequest(k, h, t) ==
    /\ phase # "down"
    /\ tasks[k] = None
    /\ \/ /\ ShouldSubscribe(t)
          /\ \/ Wait(k, "subscribe", h, t)
             \/ (~socket \/ MayFail("mqtt")) /\ UNCHANGED <<tasks, link>>
          /\ table' = Touch(t)
          /\ UNCHANGED <<disk, believes>>
       \/ /\ ~ShouldSubscribe(t)
          /\ ManagerSubscribe(t, h)
          /\ Created(h, t)
          /\ UNCHANGED <<tasks, link>>
    /\ UNCHANGED <<scenario, start, acks, broker, forward>>

(* render_delete *)
UnsubscribeRequest(k, h, t) ==
    /\ phase # "down"
    /\ tasks[k] = None
    /\ \/ /\ ShouldUnsubscribe(t, h)
          /\ \/ Wait(k, "unsubscribe", h, t)
             \/ (~socket \/ MayFail("mqtt")) /\ UNCHANGED <<tasks, link>>
          /\ table' = Touch(t)
          /\ Deleted(h, t)
          /\ UNCHANGED disk
       \/ /\ ~ShouldUnsubscribe(t, h)
          /\ ManagerUnsubscribe(t, h)
          /\ Deleted(h, t)
          /\ UNCHANGED <<tasks, link>>
    /\ UNCHANGED <<scenario, start, acks, broker, forward>>

(* the broker's answer resumes the request *)
Resume(k) ==
    /\ phase \notin {"down", "connecting"}
    /\ tasks[k] # None
    /\ acks # <<>> /\ Head(acks) = k
    /\ acks' = Tail(acks)
    /\ tasks' = [tasks EXCEPT ![k] = None]
    /\ LET r == tasks[k]
       IN  IF r.op = "subscribe"
           THEN ManagerSubscribe(r.topic, r.host) /\ Created(r.host, r.topic)
           ELSE ManagerUnsubscribe(r.topic, r.host) /\ Deleted(r.host, r.topic)
    /\ UNCHANGED <<scenario, start, link, broker, forward>>

(* Nobody waits any longer for the answer to the packet of id: one that is    *)
(* still to come, or has come, is ignored.                                    *)
Forget(id) ==
    /\ link' = [i \in DOMAIN link |-> IF link[i].id = id THEN [link[i] EXCEPT !.id = None] ELSE link[i]]
    /\ \/ (\A i \in DOMAIN acks : acks[i] # id) /\ UNCHANGED acks
       \/ \E i \in DOMAIN acks :
             acks[i] = id /\ acks' = SubSeq(acks, 1, i - 1) \o SubSeq(acks, i + 1, Len(acks))

(* the MQTT client gives up waiting: the request ends with an error *)
RequestTimeout(k) ==
    /\ MayFail("mqtt")
    /\ tasks[k] # None
    /\ tasks' = [tasks EXCEPT ![k] = None]
    /\ Forget(k)
    /\ UNCHANGED <<scenario, store, start, broker, forward, believes>>

-----------------------------------------------------------------------------
(* The broker handles one packet. *)
Broker ==
    /\ link # <<>>
    /\ link' = Tail(link)
    /\ LET p == Head(link)
       IN  /\ broker' = IF p.op = "subscribe" THEN broker \cup {p.topic} ELSE broker \ {p.topic}
           /\ acks' = IF p.id = None THEN acks ELSE Append(acks, p.id)
    /\ UNCHANGED <<scenario, store, start, tasks, forward, believes>>

(* A message is published to t, over CoAP (render_put) or by anyone else. *)
Publish(m, t) ==
    /\ m \in unpublished
    /\ unpublished' = unpublished \ {m}
    /\ inbox' = IF \E f \in broker : <<f, t>> \in Matching
                THEN Append(inbox, [msg |-> m, topic |-> t]) ELSE inbox
    /\ UNCHANGED <<scenario, store, start, tasks, mqtt, current, forwarder, believes>>

-----------------------------------------------------------------------------
(* on_publish takes the messages one at a time; mqtt_to_coap_publish pushes   *)
(* one to all its subscribers at once and waits for all of them.              *)

ForwardNext_WaitsForNobody ==
    /\ forwarder = "running"
    /\ current = None
    /\ inbox # <<>>
    /\ inbox' = Tail(inbox)
    /\ current' = [msg |-> Head(inbox).msg, topic |-> Head(inbox).topic,
                   targets |-> Subscribers(Head(inbox).topic)]
    /\ UNCHANGED <<scenario, store, start, tasks, mqtt, forwarder, unpublished, believes>>

ForwardNext ==
    /\ forwarder = "running"
    /\ current = None
    /\ inbox # <<>>
    /\ inbox' = Tail(inbox)
    /\ LET targets == Subscribers(Head(inbox).topic)
       IN  current' = IF targets = {} THEN None
                      ELSE [msg |-> Head(inbox).msg, topic |-> Head(inbox).topic,
                            targets |-> targets]
    /\ UNCHANGED <<scenario, store, start, tasks, mqtt, forwarder, unpublished, believes>>

(* media_types_rev has no entry for the message's ContentType, or the message  *)
(* has none: the exception ends on_publish before anything is pushed          *)
ForwardRaises ==
    /\ MayFail("forward")
    /\ forwarder = "running"
    /\ current = None
    /\ inbox # <<>>
    /\ inbox' = Tail(inbox)
    /\ forwarder' = "dead"
    /\ UNCHANGED <<scenario, store, start, tasks, mqtt, current, unpublished, believes>>

(* forward_mqtt: h has answered, or has not within 10 seconds *)
Forwarded(h) ==
    /\ current # None /\ h \in current.targets
    /\ current' = IF current.targets = {h} THEN None
                  ELSE [current EXCEPT !.targets = @ \ {h}]
    /\ UNCHANGED <<scenario, store, start, tasks, mqtt, inbox, forwarder, unpublished, believes>>

(* any other exception goes through asyncio.gather and ends on_publish *)
ForwardFails(h) ==
    /\ MayFail("forward")
    /\ current # None /\ h \in current.targets
    /\ current' = IF current.targets = {h} THEN None
                  ELSE [current EXCEPT !.targets = @ \ {h}]
    /\ forwarder' = "dead"
    /\ UNCHANGED <<scenario, store, start, tasks, mqtt, inbox, unpublished, believes>>

-----------------------------------------------------------------------------
(* start(), crashes.  The CoAP server is up before the MQTT client connects.  *)

Start ==
    /\ phase = "down"
    /\ phase' = "connecting"
    /\ UNCHANGED <<scenario, store, socket, toRestore, tasks, mqtt, forward, believes>>

Connect ==
    /\ phase = "connecting" /\ ~socket
    /\ socket' = TRUE
    /\ UNCHANGED <<scenario, store, phase, toRestore, tasks, mqtt, forward, believes>>

(* the next round of start()'s loop over the saved topics *)
RestoreNext(saved) ==
    IF saved = {}
    THEN /\ phase' = "up"
         /\ toRestore' = {}
         /\ UNCHANGED link
    ELSE \E t \in saved :
            /\ phase' = "restoring"
            /\ toRestore' = saved \ {t}
            /\ link' = Append(link, [op |-> "subscribe", topic |-> t, id |-> "restore"])

(* deserialise: without a file the table stays what requests have made of it *)
Loadable == IF disk = Empty THEN table ELSE disk

(* connected: start on_publish, load the table, begin to restore it *)
Connected ==
    /\ phase = "connecting" /\ socket
    /\ forwarder' = "running"
    /\ IF disk = None
       THEN phase' = "failed" /\ UNCHANGED <<table, toRestore, link>>
       ELSE table' = Loadable /\ RestoreNext(DOMAIN Loadable)
    /\ UNCHANGED <<scenario, disk, socket, tasks, acks, broker, inbox, current, unpublished, believes>>

Restored_NoNext ==
    /\ phase = "restoring"
    /\ acks # <<>> /\ Head(acks) = "restore"
    /\ acks' = Tail(acks)
    /\ UNCHANGED <<scenario, store, start, link, tasks, broker, forward, believes>>

Restored ==
    /\ phase = "restoring"
    /\ acks # <<>> /\ Head(acks) = "restore"
    /\ acks' = Tail(acks)
    /\ RestoreNext(toRestore)
    /\ UNCHANGED <<scenario, store, socket, tasks, broker, forward, believes>>

(* "except MqttCodeError" names nothing: any failure ends start() *)
RestoreFails ==
    /\ MayFail("mqtt")
    /\ phase = "restoring"
    /\ phase' = "failed"
    /\ Forget("restore")
    /\ UNCHANGED <<scenario, store, socket, toRestore, tasks, broker, forward, believes>>

(* The process ends; the broker drops its session. *)
Killed(database) ==
    /\ MayFail("crash")
    /\ phase # "down"
    /\ phase' = "down"
    /\ table' = Empty
    /\ disk' = database
    /\ socket' = FALSE
    /\ toRestore' = {}
    /\ tasks' = [k \in Tasks |-> None]
    /\ link' = <<>> /\ acks' = <<>> /\ broker' = {}
    /\ inbox' = <<>> /\ current' = None /\ forwarder' = "none"
    /\ UNCHANGED <<scenario, unpublished>>

Crash == Killed(disk) /\ UNCHANGED believes

(* killed while another host's request is writing the file, which open("wb")  *)
(* has truncated                                                              *)
CrashInDump ==
    /\ MayFail("torn")
    /\ \E t \in Topics : Subs(t) # {}
    /\ Killed(None)
    /\ believes' = {}

Init ==
    /\ scenario \in Scenarios
    /\ table = Empty /\ disk = Empty
    /\ phase = "down" /\ socket = FALSE /\ toRestore = {}
    /\ tasks = [k \in Tasks |-> None]
    /\ link = <<>> /\ acks = <<>> /\ broker = {}
    /\ inbox = <<>> /\ current = None /\ forwarder = "none" /\ unpublished = scenario.messages
    /\ believes = {}

Next ==
    \/ \E k \in scenario.tasks, h \in Hosts, t \in scenario.topics :
          SubscribeRequest(k, h, t) \/ UnsubscribeRequest(k, h, t)
    \/ \E k \in scenario.tasks : Resume(k) \/ RequestTimeout(k)
    \/ Broker
    \/ \E m \in scenario.messages, t \in Published : Publish(m, t)
    \/ ForwardNext \/ ForwardRaises
    \/ \E h \in Hosts : Forwarded(h) \/ ForwardFails(h)
    \/ Start \/ Connect \/ Connected \/ Restored \/ RestoreFails
    \/ Crash \/ CrashInDump

Spec == Init /\ [][Next]_vars

(* The broker answers and connects, every push is answered or times out, and  *)
(* the event loop resumes whoever can go on.                                  *)
Fairness ==
    /\ WF_vars(Start) /\ WF_vars(Connect) /\ WF_vars(Connected) /\ WF_vars(Restored)
    /\ WF_vars(Broker)
    /\ \A k \in Tasks : WF_vars(Resume(k))
    /\ WF_vars(ForwardNext)
    /\ \A h \in Hosts : WF_vars(Forwarded(h))

FairSpec == Spec /\ Fairness

-----------------------------------------------------------------------------
Loaded == phase \in {"restoring", "up", "failed"}

(* Every variable holds a value of its Python type. *)
TypeOK ==
    /\ table \in Tables
    /\ disk \in Tables \cup {None}
    /\ phase \in {"down", "connecting", "restoring", "up", "failed"}
    /\ socket \in BOOLEAN
    /\ toRestore \subseteq Topics
    /\ tasks \in [Tasks -> Request \cup {None}]
    /\ link \in Seq(Packet)
    /\ acks \in Seq(Tasks \cup {"restore"})
    /\ broker \subseteq Topics
    /\ inbox \in Seq([msg : Messages, topic : Published])
    /\ current = None \/ current \in Pushing
    /\ forwarder \in {"none", "running", "dead"}
    /\ unpublished \subseteq Messages
    /\ believes \subseteq Hosts \X Topics

(* Once the table is loaded, the file on disk has the same subscriptions at   *)
(* every suspension, so that a crash loses none of those in memory; and every *)
(* variable keeps its type.                                                   *)
DiskFollowsTable ==
    /\ TypeOK
    /\ Loaded => \A t \in Topics :
                    Subs(t) = IF disk # None /\ t \in DOMAIN disk THEN disk[t] ELSE {}

(* "Persist to disk": a host that was told CREATED, and has not asked to      *)
(* leave since, is in the saved table at all times, and in the table once a   *)
(* restarted bridge has loaded it, whatever requests interleave or time out,  *)
(* as long as the bridge is not killed in the middle of a write.              *)
PromiseDurable ==
    \A p \in believes :
       /\ disk # None /\ p[2] \in DOMAIN disk /\ p[1] \in disk[p[2]]
       /\ Loaded => p[1] \in Subs(p[2])

(* on_publish finds every host that was told it is subscribed: the targets of *)
(* a message include all hosts that believe to have subscribed to a filter    *)
(* matching its topic.                                                        *)
SnapshotComplete ==
    [][ForwardNext => \A p \in believes :
          <<p[2], Head(inbox).topic>> \in Matching => current' # None /\ p[1] \in current'.targets]_vars

(* "Subscribe succeeded, or already subscribed, so just say things were fine":*)
(* when the bridge is running, MQTT works and no request is in progress, the  *)
(* broker has the bridge subscribed to every topic in which some host is      *)
(* interested.                                                                *)
Served ==
    ~MayFail("mqtt") /\ phase = "up" /\ (\A k \in Tasks : tasks[k] = None)
        => \A t \in Topics : Subs(t) # {} => t \in broker

(* As Served, where the bridge never has two requests in progress at once.    *)
ServedInTurn == Serial => Served

(* While MQTT works and the database is whole, every request is answered and  *)
(* every start finishes, unless the bridge is killed again first.             *)
EverythingAnswered ==
    /\ \A k \in Tasks : ~MayFail("mqtt") /\ tasks[k] # None ~> tasks[k] = None
    /\ ~MayFail("mqtt") /\ disk # None /\ phase \in {"connecting", "restoring"}
          ~> phase \in {"up", "down"}

(* "Push via CoAP to all subscribed clients": each message the broker has     *)
(* sent is eventually taken up and all of its pushes end, unless one of them  *)
(* fails otherwise than by a timeout.                                         *)
EveryMessageHandled ==
    \A m \in Messages :
       ~MayFail("forward") /\ (\E i \in DOMAIN inbox : inbox[i].msg = m)
          ~> /\ \A i \in DOMAIN inbox : inbox[i].msg # m
             /\ current = None \/ current.msg # m
=============================================================================
