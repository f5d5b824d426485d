------------------------------ MODULE MqttProofs ------------------------------
(***************************************************************************)
(* The two ends of MQTT over CoAP.  First the bridge: what it promises its   *)
(* hosts, for any number of hosts, topics, requests at once, packets and     *)
(* messages and any mixture of faults.  Then the client of a node.           *)
(***************************************************************************)
EXTENDS SubscriptionBridge, MqttOverCoap, SequenceTheorems, FiniteSetTheorems, TLAPS

(* The subscribers of t that the database has. *)
Saved(t) == IF disk # None /\ t \in DOMAIN disk THEN disk[t] ELSE {}

(* Before the table is loaded it has no subscriber; afterwards it has those   *)
(* of the database.                                                           *)
StoreInStep ==
    /\ ~Loaded => \A t \in Topics : Subs(t) = {}
    /\ Loaded => \A t \in Topics : Subs(t) = Saved(t)

IInv ==
    /\ scenario \in Scenarios
    /\ TypeOK
    /\ StoreInStep
    /\ \A p \in believes : p[1] \in Saved(p[2])
    /\ forwarder = "running" => Loaded

-----------------------------------------------------------------------------
(* The subscription table. *)

LEMMA SubsType == ASSUME table \in Tables, NEW t PROVE Subs(t) \in SUBSET Hosts
  BY DEF Tables, Subs

LEMMA SubscribersType == ASSUME table \in Tables, NEW t PROVE Subscribers(t) \in SUBSET Hosts
<1>1. PICK T \in SUBSET Topics : table \in [T -> SUBSET Hosts]
  BY DEF Tables
<1> QED
  BY <1>1 DEF Subscribers

LEMMA SetSubsType ==
    ASSUME table \in Tables, NEW t \in Topics, NEW hosts \in SUBSET Hosts
    PROVE  SetSubs(t, hosts) \in Tables
<1>1. PICK T \in SUBSET Topics : table \in [T -> SUBSET Hosts]
  BY DEF Tables
<1>2. SetSubs(t, hosts) \in [T \cup {t} -> SUBSET Hosts]
  BY <1>1 DEF SetSubs
<1>3. T \cup {t} \in SUBSET Topics
  OBVIOUS
<1> QED
  BY <1>2, <1>3 DEF Tables

(* Setting the subscribers of t changes those of no other topic. *)
LEMMA SetSubsSets ==
    ASSUME NEW t, NEW hosts, table' = SetSubs(t, hosts)
    PROVE  \A u : Subs(u)' = IF u = t THEN hosts ELSE Subs(u)
  BY DEF SetSubs, Subs

LEMMA ManagerTypes ==
    ASSUME TypeOK, NEW t \in Topics, NEW h \in Hosts
    PROVE  /\ ManagerSubscribe(t, h) => table' \in Tables /\ disk' \in Tables \cup {None}
           /\ ManagerUnsubscribe(t, h) => table' \in Tables /\ disk' \in Tables \cup {None}
           /\ table' = Touch(t) => table' \in Tables
<1>1. Subs(t) \in SUBSET Hosts
  BY SubsType DEF TypeOK
<1>2. /\ SetSubs(t, Subs(t) \cup {h}) \in Tables
      /\ SetSubs(t, Subs(t) \ {h}) \in Tables
      /\ SetSubs(t, Subs(t)) \in Tables
  BY <1>1, SetSubsType DEF TypeOK
<1> QED
  BY <1>2 DEF ManagerSubscribe, ManagerUnsubscribe, Touch, TypeOK

-----------------------------------------------------------------------------
(* Types. *)

LEMMA ScenarioType ==
    ASSUME scenario \in Scenarios
    PROVE  /\ scenario.topics \subseteq Topics
           /\ scenario.tasks \subseteq Tasks
           /\ scenario.messages \subseteq Messages
  BY BridgeAssumption

LEMMA WaitType ==
    ASSUME TypeOK, NEW k \in Tasks, NEW op \in {"subscribe", "unsubscribe"},
           NEW h \in Hosts, NEW t \in Topics, Wait(k, op, h, t)
    PROVE  link' \in Seq(Packet) /\ tasks' \in [Tasks -> Request \cup {None}]
<1>1. [op |-> op, topic |-> t, id |-> k] \in Packet
  BY DEF Packet, Ids
<1>2. [op |-> op, host |-> h, topic |-> t] \in Request
  BY DEF Request
<1>3. link' \in Seq(Packet)
  BY <1>1 DEF Wait, TypeOK
<1>4. tasks' \in [Tasks -> Request \cup {None}]
  BY <1>2 DEF Wait, TypeOK
<1> QED
  BY <1>3, <1>4

LEMMA RequestType ==
    ASSUME TypeOK, NEW k \in Tasks, NEW h \in Hosts, NEW t \in Topics,
           SubscribeRequest(k, h, t) \/ UnsubscribeRequest(k, h, t)
    PROVE  TypeOK'
<1>1. link' \in Seq(Packet) /\ tasks' \in [Tasks -> Request \cup {None}]
  BY WaitType DEF SubscribeRequest, UnsubscribeRequest, TypeOK
<1>2. table' \in Tables /\ disk' \in Tables \cup {None}
  BY ManagerTypes DEF SubscribeRequest, UnsubscribeRequest, TypeOK
<1>3. believes' \subseteq Hosts \X Topics
  BY DEF SubscribeRequest, UnsubscribeRequest, Created, Deleted, TypeOK
<1>4. UNCHANGED <<start, acks, broker, forward>>
  BY DEF SubscribeRequest, UnsubscribeRequest
<1> QED
  BY <1>1, <1>2, <1>3, <1>4 DEF TypeOK, start, forward

LEMMA ResumeType == ASSUME TypeOK, NEW k \in Tasks, Resume(k) PROVE TypeOK'
<1>1. tasks[k] \in Request
  BY DEF Resume, TypeOK
<1>2. tasks[k].host \in Hosts /\ tasks[k].topic \in Topics
  BY <1>1 DEF Request
<1>3. table' \in Tables /\ disk' \in Tables \cup {None}
  BY <1>2, ManagerTypes DEF Resume
<1>4. believes' \subseteq Hosts \X Topics
  BY <1>2 DEF Resume, Created, Deleted, TypeOK
<1>5. acks' \in Seq(Tasks \cup {"restore"})
  BY DEF Resume, TypeOK
<1>6. tasks' \in [Tasks -> Request \cup {None}]
  BY DEF Resume, TypeOK
<1>7. UNCHANGED <<start, link, broker, forward>>
  BY DEF Resume
<1> QED
  BY <1>3, <1>4, <1>5, <1>6, <1>7 DEF TypeOK, start, forward

LEMMA ForgetType ==
    ASSUME TypeOK, NEW id, Forget(id)
    PROVE  link' \in Seq(Packet) /\ acks' \in Seq(Tasks \cup {"restore"})
<1>1. link' \in Seq(Packet)
  <2>1. Len(link) \in Nat /\ DOMAIN link = 1..Len(link) /\ \A i \in 1..Len(link) : link[i] \in Packet
    BY LenProperties DEF TypeOK
  <2>2. \A i \in 1..Len(link) : [link[i] EXCEPT !.id = None] \in Packet
    BY <2>1 DEF Packet, Ids
  <2>3. link' \in [1..Len(link) -> Packet]
    BY <2>1, <2>2 DEF Forget
  <2> QED
    BY <2>1, <2>3, SeqDef
<1>2. acks' \in Seq(Tasks \cup {"restore"})
  <2>1. CASE UNCHANGED acks
    BY <2>1 DEF TypeOK
  <2>2. ASSUME NEW i \in DOMAIN acks,
               acks' = SubSeq(acks, 1, i - 1) \o SubSeq(acks, i + 1, Len(acks))
        PROVE  acks' \in Seq(Tasks \cup {"restore"})
    <3>1. /\ Len(acks) \in Nat /\ i \in 1..Len(acks)
          /\ \A j \in 1..Len(acks) : acks[j] \in Tasks \cup {"restore"}
      BY LenProperties DEF TypeOK
    <3>2. SubSeq(acks, 1, i - 1) \in Seq(Tasks \cup {"restore"})
      BY <3>1, SubSeqProperties
    <3>3. SubSeq(acks, i + 1, Len(acks)) \in Seq(Tasks \cup {"restore"})
      BY <3>1, SubSeqProperties
    <3> QED
      BY <2>2, <3>2, <3>3, ConcatProperties
  <2> QED
    BY <2>1, <2>2 DEF Forget
<1> QED
  BY <1>1, <1>2

LEMMA GiveUpType ==
    ASSUME TypeOK, (\E k \in Tasks : RequestTimeout(k)) \/ RestoreFails
    PROVE  TypeOK'
<1>1. CASE \E k \in Tasks : RequestTimeout(k)
  <2>1. PICK k \in Tasks : RequestTimeout(k)
    BY <1>1
  <2>2. link' \in Seq(Packet) /\ acks' \in Seq(Tasks \cup {"restore"})
    BY <2>1, ForgetType DEF RequestTimeout
  <2>3. tasks' \in [Tasks -> Request \cup {None}]
    BY <2>1 DEF RequestTimeout, TypeOK
  <2> QED
    BY <2>1, <2>2, <2>3 DEF RequestTimeout, TypeOK, store, start, forward
<1>2. CASE RestoreFails
  <2>1. link' \in Seq(Packet) /\ acks' \in Seq(Tasks \cup {"restore"})
    BY <1>2, ForgetType DEF RestoreFails
  <2> QED
    BY <1>2, <2>1 DEF RestoreFails, TypeOK, store, forward
<1> QED
  BY <1>1, <1>2

LEMMA BrokerType == ASSUME TypeOK, Broker PROVE TypeOK'
<1>1. Head(link) \in Packet /\ Tail(link) \in Seq(Packet)
  BY HeadTailProperties DEF Broker, TypeOK
<1>2. Head(link).topic \in Topics /\ Head(link).id \in Ids
  BY <1>1 DEF Packet
<1>3. acks' \in Seq(Tasks \cup {"restore"})
  BY <1>2 DEF Broker, TypeOK, Ids
<1>4. broker' \subseteq Topics
  BY <1>2 DEF Broker, TypeOK
<1> QED
  BY <1>1, <1>3, <1>4 DEF Broker, TypeOK, store, start, forward

LEMMA PublishType ==
    ASSUME TypeOK, NEW m \in Messages, NEW t \in Published, Publish(m, t) PROVE TypeOK'
<1>1. Append(inbox, [msg |-> m, topic |-> t]) \in Seq([msg : Messages, topic : Published])
  <2>1. [msg |-> m, topic |-> t] \in [msg : Messages, topic : Published]
    OBVIOUS
  <2> QED
    BY <2>1 DEF TypeOK
<1> QED
  BY <1>1 DEF Publish, TypeOK, store, start, mqtt

(* What is pushed is pushed to hosts. *)
LEMMA ForwardType ==
    ASSUME TypeOK, ForwardNext \/ ForwardRaises \/ \E h \in Hosts : Forwarded(h) \/ ForwardFails(h)
    PROVE  TypeOK'
<1>1. CASE ForwardNext
  <2>1. Head(inbox) \in [msg : Messages, topic : Published] /\ inbox' \in Seq([msg : Messages, topic : Published])
    BY <1>1, HeadTailProperties DEF ForwardNext, TypeOK
  <2>2. Subscribers(Head(inbox).topic) \in SUBSET Hosts
    BY SubscribersType DEF TypeOK
  <2>3. current' = None \/ current' \in Pushing
    BY <1>1, <2>1, <2>2 DEF ForwardNext, Pushing
  <2> QED
    BY <1>1, <2>1, <2>3 DEF ForwardNext, TypeOK, store, start, mqtt
<1>2. ASSUME NEW h \in Hosts, Forwarded(h) \/ ForwardFails(h) PROVE TypeOK'
  <2>1. current \in Pushing
    BY <1>2 DEF Forwarded, ForwardFails, TypeOK
  <2>2. [current EXCEPT !.targets = @ \ {h}] \in Pushing
    BY <2>1 DEF Pushing
  <2>3. current' = None \/ current' \in Pushing
    BY <1>2, <2>2 DEF Forwarded, ForwardFails
  <2> QED
    BY <1>2, <2>3 DEF Forwarded, ForwardFails, TypeOK, store, start, mqtt
<1>3. CASE ForwardRaises
  <2>1. inbox' \in Seq([msg : Messages, topic : Published])
    BY <1>3, HeadTailProperties DEF ForwardRaises, TypeOK
  <2> QED
    BY <1>3, <2>1 DEF ForwardRaises, TypeOK, store, start, mqtt
<1> QED
  BY <1>1, <1>2, <1>3

LEMMA RestoreNextType ==
    ASSUME TypeOK, NEW saved \in SUBSET Topics, RestoreNext(saved)
    PROVE  /\ phase' \in {"up", "restoring"}
           /\ toRestore' \subseteq Topics
           /\ link' \in Seq(Packet)
<1>1. CASE saved = {}
  BY <1>1 DEF RestoreNext, TypeOK
<1>2. CASE saved # {}
  <2>1. PICK t \in saved :
          /\ phase' = "restoring" /\ toRestore' = saved \ {t}
          /\ link' = Append(link, [op |-> "subscribe", topic |-> t, id |-> "restore"])
    BY <1>2 DEF RestoreNext
  <2>2. [op |-> "subscribe", topic |-> t, id |-> "restore"] \in Packet
    BY DEF Packet, Ids
  <2> QED
    BY <2>1, <2>2 DEF TypeOK
<1> QED
  BY <1>1, <1>2

LEMMA StartType ==
    ASSUME TypeOK, Start \/ Connect \/ Connected \/ Restored
    PROVE  TypeOK'
<1>1. CASE Start \/ Connect
  BY <1>1 DEF Start, Connect, TypeOK, store, mqtt, forward
<1>2. CASE Connected
  <2>1. CASE disk = None
    BY <1>2, <2>1 DEF Connected, TypeOK
  <2>2. CASE disk # None
    <3>1. Loadable \in Tables /\ DOMAIN Loadable \in SUBSET Topics
      BY <2>2 DEF TypeOK, Tables, Loadable
    <3>2. phase' \in {"up", "restoring"} /\ toRestore' \subseteq Topics /\ link' \in Seq(Packet)
      BY <1>2, <2>2, <3>1, RestoreNextType DEF Connected
    <3> QED
      BY <1>2, <2>2, <3>1, <3>2 DEF Connected, TypeOK
  <2> QED
    BY <2>1, <2>2
<1>3. CASE Restored
  <2>1. phase' \in {"up", "restoring"} /\ toRestore' \subseteq Topics /\ link' \in Seq(Packet)
    BY <1>3, RestoreNextType DEF Restored, TypeOK
  <2>2. acks' \in Seq(Tasks \cup {"restore"})
    BY <1>3 DEF Restored, TypeOK
  <2> QED
    BY <1>3, <2>1, <2>2 DEF Restored, TypeOK, store, forward
<1> QED
  BY <1>1, <1>2, <1>3

LEMMA EmptyType == Empty \in Tables
<1>1. Empty \in [{} -> SUBSET Hosts]
  BY DEF Empty
<1> QED
  BY <1>1 DEF Tables

LEMMA CrashType == ASSUME TypeOK, Crash \/ CrashInDump PROVE TypeOK'
<1>1. PICK database \in {disk, None} : Killed(database)
  BY DEF Crash, CrashInDump
<1>2. database \in Tables \cup {None}
  BY DEF TypeOK
<1>3. believes' \subseteq Hosts \X Topics
  BY DEF Crash, CrashInDump, TypeOK
<1>4. table' \in Tables /\ disk' \in Tables \cup {None}
  BY <1>1, <1>2, EmptyType DEF Killed
<1>5. tasks' \in [Tasks -> Request \cup {None}]
  BY <1>1 DEF Killed
<1>6. link' \in Seq(Packet) /\ acks' \in Seq(Tasks \cup {"restore"})
      /\ inbox' \in Seq([msg : Messages, topic : Published])
  BY <1>1 DEF Killed
<1> QED
  BY <1>1, <1>3, <1>4, <1>5, <1>6 DEF Killed, TypeOK

LEMMA NextType == ASSUME scenario \in Scenarios, TypeOK, [Next]_vars PROVE TypeOK'
<1>1. CASE UNCHANGED vars
  BY <1>1 DEF vars, TypeOK, store, start, mqtt, forward
<1>2. CASE Next
  BY <1>2, ScenarioType, RequestType, ResumeType, GiveUpType, BrokerType, PublishType, ForwardType,
     StartType, CrashType DEF Next
<1> QED
  BY <1>1, <1>2

-----------------------------------------------------------------------------
(* The table and the database. *)

(* A step that leaves both alone. *)
LEMMA StoreSame ==
    ASSUME IInv, TypeOK', UNCHANGED <<scenario, table, disk, believes>>, Loaded' <=> Loaded,
           forwarder' = "running" => forwarder = "running"
    PROVE  IInv'
<1>1. \A u : Subs(u)' = Subs(u) /\ Saved(u)' = Saved(u)
  BY DEF Subs, Saved
<1> QED
  BY <1>1 DEF IInv, StoreInStep

(* After the table was written the database has what it has. *)
LEMMA Written ==
    ASSUME table' \in Tables, disk' = table'
    PROVE  \A u : Saved(u)' = Subs(u)'
  BY BridgeAssumption DEF Saved, Subs

LEMMA TouchSame ==
    ASSUME NEW t, table' = Touch(t)
    PROVE  \A u : Subs(u)' = Subs(u)
  BY SetSubsSets DEF Touch

LEMMA SubscribeStore ==
    ASSUME IInv, TypeOK', Loaded, Loaded', NEW t \in Topics, NEW h \in Hosts,
           ManagerSubscribe(t, h), Created(h, t), UNCHANGED <<scenario, forwarder>>
    PROVE  IInv'
<1>1. \A u : Saved(u)' = Subs(u)'
  BY Written DEF ManagerSubscribe, TypeOK
<1>2. \A u : Subs(u)' = IF u = t THEN Subs(t) \cup {h} ELSE Subs(u)
  BY SetSubsSets DEF ManagerSubscribe
<1>3. ASSUME NEW p \in believes' PROVE p[1] \in Saved(p[2])'
  <2>1. CASE p \in believes
    <3>1. p[2] \in Topics /\ p[1] \in Saved(p[2])
      BY <2>1 DEF IInv, TypeOK
    <3> QED
      BY <1>1, <1>2, <3>1 DEF IInv, StoreInStep
  <2>2. CASE p = <<h, t>>
    BY <1>1, <1>2, <2>2
  <2> QED
    BY <1>3, <2>1, <2>2 DEF Created
<1> QED
  BY <1>1, <1>3 DEF IInv, StoreInStep

LEMMA UnsubscribeStore ==
    ASSUME IInv, TypeOK', Loaded' <=> Loaded, NEW t \in Topics, NEW h \in Hosts,
           ManagerUnsubscribe(t, h), Deleted(h, t), UNCHANGED <<scenario, forwarder>>
    PROVE  IInv'
<1>1. \A u : Subs(u)' = IF u = t THEN Subs(t) \ {h} ELSE Subs(u)
  BY SetSubsSets DEF ManagerUnsubscribe
<1>2. \A p \in believes' : p \in believes /\ p[2] \in Topics /\ p # <<h, t>> /\ p = <<p[1], p[2]>>
  BY DEF Deleted, IInv, TypeOK
<1>3. CASE h \in Subs(t)
  <2>1. Loaded
    BY <1>3 DEF IInv, StoreInStep
  <2>2. \A u : Saved(u)' = Subs(u)'
    BY <1>3, Written DEF ManagerUnsubscribe, TypeOK
  <2>3. ASSUME NEW p \in believes' PROVE p[1] \in Saved(p[2])'
    <3>1. p[1] \in Subs(p[2])
      BY <1>2, <2>1 DEF IInv, StoreInStep
    <3>2. p[1] # h \/ p[2] # t
      BY <1>2
    <3> QED
      BY <1>1, <2>2, <3>1, <3>2
  <2> QED
    BY <2>1, <2>2, <2>3 DEF IInv, StoreInStep
<1>4. CASE h \notin Subs(t)
  <2>1. \A u : Subs(u)' = Subs(u)
    BY <1>1, <1>4
  <2>2. \A u : Saved(u)' = Saved(u)
    BY <1>4 DEF ManagerUnsubscribe, Saved
  <2> QED
    BY <1>2, <2>1, <2>2 DEF IInv, StoreInStep
<1> QED
  BY <1>3, <1>4

LEMMA RequestIInv ==
    ASSUME IInv, NEW k \in Tasks, NEW h \in Hosts, NEW t \in Topics,
           SubscribeRequest(k, h, t) \/ UnsubscribeRequest(k, h, t)
    PROVE  IInv'
<1>1. TypeOK'
  BY RequestType DEF IInv
<1>2. UNCHANGED <<scenario, forwarder>> /\ (Loaded' <=> Loaded)
  BY DEF SubscribeRequest, UnsubscribeRequest, start, forward, Loaded
<1>3. CASE ~ShouldSubscribe(t) /\ ManagerSubscribe(t, h) /\ Created(h, t)
  <2>1. Loaded
    BY <1>3 DEF ShouldSubscribe, IInv, StoreInStep
  <2> QED
    BY <1>1, <1>2, <1>3, <2>1, SubscribeStore
<1>4. CASE ManagerUnsubscribe(t, h) /\ Deleted(h, t)
  BY <1>1, <1>2, <1>4, UnsubscribeStore
<1>5. CASE table' = Touch(t) /\ UNCHANGED disk /\ (UNCHANGED believes \/ Deleted(h, t))
  <2>1. \A u : Subs(u)' = Subs(u)
    BY <1>5, TouchSame
  <2>2. \A u : Saved(u)' = Saved(u)
    BY <1>5 DEF Saved
  <2>3. believes' \subseteq believes
    BY <1>5 DEF Deleted
  <2> QED
    BY <1>1, <1>2, <2>1, <2>2, <2>3 DEF IInv, StoreInStep
<1> QED
  BY <1>3, <1>4, <1>5 DEF SubscribeRequest, UnsubscribeRequest

LEMMA ResumeIInv == ASSUME IInv, NEW k \in Tasks, Resume(k) PROVE IInv'
<1>1. TypeOK'
  BY ResumeType DEF IInv
<1>2. UNCHANGED <<scenario, forwarder>> /\ Loaded /\ Loaded'
  BY DEF Resume, start, forward, Loaded, IInv, TypeOK
<1>3. tasks[k].host \in Hosts /\ tasks[k].topic \in Topics
  <2>1. tasks[k] \in Request
    BY DEF Resume, IInv, TypeOK
  <2> QED
    BY <2>1 DEF Request
<1>4. \/ ManagerSubscribe(tasks[k].topic, tasks[k].host) /\ Created(tasks[k].host, tasks[k].topic)
      \/ ManagerUnsubscribe(tasks[k].topic, tasks[k].host) /\ Deleted(tasks[k].host, tasks[k].topic)
  BY DEF Resume
<1> QED
  BY <1>1, <1>2, <1>3, <1>4, SubscribeStore, UnsubscribeStore

LEMMA ConnectedIInv == IInv /\ Connected => IInv'
<1> SUFFICES ASSUME IInv, Connected PROVE IInv'
  OBVIOUS
<1>1. TypeOK'
  BY StartType DEF IInv
<1>2. UNCHANGED <<scenario, disk, believes>> /\ ~Loaded
  BY DEF Connected, Loaded
<1>3. \A u : Saved(u)' = Saved(u)
  BY <1>2 DEF Saved
<1>4. CASE disk = None
  <2>1. phase' = "failed" /\ UNCHANGED table
    BY <1>4 DEF Connected
  <2>2. \A t \in Topics : Subs(t)' = {} /\ Saved(t) = {}
    BY <1>2, <1>4, <2>1 DEF Subs, Saved, IInv, StoreInStep
  <2> QED
    BY <1>1, <1>2, <1>3, <2>1, <2>2 DEF IInv, StoreInStep, Loaded
<1>5. CASE disk # None
  <2>1. table' = Loadable /\ RestoreNext(DOMAIN Loadable)
    BY <1>5 DEF Connected
  <2>2. Loaded'
    BY <2>1 DEF RestoreNext, Loaded
  <2>3. \A t \in Topics : Subs(t)' = Saved(t)
    <3>1. CASE disk = Empty
      <4>1. \A t \in Topics : Subs(t)' = Subs(t) /\ Saved(t) = {}
        BY <2>1, <3>1, <1>5 DEF Loadable, Subs, Saved, Empty
      <4> QED
        BY <1>2, <4>1 DEF IInv, StoreInStep
    <3>2. CASE disk # Empty
      BY <1>5, <2>1, <3>2 DEF Loadable, Subs, Saved
    <3> QED
      BY <3>1, <3>2
  <2> QED
    BY <1>1, <1>2, <1>3, <2>2, <2>3 DEF IInv, StoreInStep
<1> QED
  BY <1>4, <1>5

LEMMA CrashIInv == IInv /\ (Crash \/ CrashInDump) => IInv'
<1> SUFFICES ASSUME IInv, Crash \/ CrashInDump PROVE IInv'
  OBVIOUS
<1>1. TypeOK'
  BY CrashType DEF IInv
<1>2. table' = Empty /\ phase' = "down" /\ UNCHANGED scenario /\ forwarder' = "none"
  BY DEF Crash, CrashInDump, Killed
<1>3. \A u : Subs(u)' = {}
  BY <1>2 DEF Subs, Empty
<1>4. \A p \in believes' : p[1] \in Saved(p[2])'
  <2>1. CASE Crash
    <3>1. UNCHANGED <<disk, believes>>
      BY <2>1 DEF Crash, Killed
    <3> QED
      BY <3>1 DEF IInv, Saved
  <2>2. CASE CrashInDump
    BY <2>2 DEF CrashInDump
  <2> QED
    BY <2>1, <2>2
<1> QED
  BY <1>1, <1>2, <1>3, <1>4 DEF IInv, StoreInStep, Loaded

LEMMA NextIInv == IInv /\ [Next]_vars => IInv'
<1> SUFFICES ASSUME IInv, [Next]_vars PROVE IInv'
  OBVIOUS
<1>1. TypeOK'
  BY NextType DEF IInv
<1>2. CASE Broker \/ (\E k \in scenario.tasks : RequestTimeout(k))
           \/ (\E m \in scenario.messages, t \in Published : Publish(m, t))
           \/ ForwardNext \/ ForwardRaises \/ (\E h \in Hosts : Forwarded(h) \/ ForwardFails(h))
           \/ Connect \/ Start \/ Restored \/ RestoreFails
  <2>1. UNCHANGED <<scenario, table, disk, believes>>
    BY <1>2 DEF Broker, RequestTimeout, Publish, ForwardNext, ForwardRaises, Forwarded, ForwardFails,
         Connect, Start, Restored, RestoreFails, store
  <2>2. forwarder' = "running" => forwarder = "running"
    BY <1>2 DEF Broker, RequestTimeout, Publish, ForwardNext, ForwardRaises, Forwarded, ForwardFails,
         Connect, Start, Restored, RestoreFails, forward
  <2>3. Loaded' <=> Loaded
    <3>1. CASE phase' = phase
      BY <3>1 DEF Loaded
    <3>2. CASE Start \/ Restored \/ RestoreFails
      BY <3>2 DEF Start, Restored, RestoreFails, RestoreNext, Loaded
    <3> QED
      BY <1>2, <3>1, <3>2 DEF Broker, RequestTimeout, Publish, ForwardNext, ForwardRaises, Forwarded,
           ForwardFails, Connect, start
  <2> QED
    BY <1>1, <2>1, <2>2, <2>3, StoreSame
<1>3. CASE UNCHANGED vars
  BY <1>1, <1>3, StoreSame DEF vars, store, start, forward, Loaded
<1> QED
  BY <1>2, <1>3, ScenarioType, RequestIInv, ResumeIInv, ConnectedIInv, CrashIInv DEF Next, IInv

LEMMA InitIInv == Init => IInv
<1> SUFFICES ASSUME Init PROVE IInv
  OBVIOUS
<1>1. unpublished \subseteq Messages
  BY ScenarioType DEF Init
<1>2. tasks \in [Tasks -> Request \cup {None}]
  BY DEF Init
<1>3. TypeOK
  <2>1. table \in Tables /\ disk \in Tables \cup {None}
    BY EmptyType DEF Init
  <2>2. link \in Seq(Packet) /\ acks \in Seq(Tasks \cup {"restore"})
        /\ inbox \in Seq([msg : Messages, topic : Published])
    BY DEF Init
  <2> QED
    BY <1>1, <1>2, <2>1, <2>2 DEF Init, TypeOK
<1>4. \A u : Subs(u) = {}
  BY DEF Init, Subs, Empty
<1> QED
  BY <1>3, <1>4 DEF Init, IInv, StoreInStep, Loaded

LEMMA Invariance == Spec => []IInv
<1>1. Init => IInv
  BY InitIInv
<1>2. IInv /\ [Next]_vars => IInv'
  BY NextIInv
<1> QED
  BY <1>1, <1>2, PTL DEF Spec

(* Once the bridge has loaded its table, the database has the same            *)
(* subscriptions at every suspension of its coroutines, whatever requests     *)
(* interleave, time out or are cut off by a crash; every variable keeps its   *)
(* type.                                                                      *)
THEOREM DiskFollows == Spec => []DiskFollowsTable
<1>1. IInv => DiskFollowsTable
  BY DEF IInv, StoreInStep, Saved, DiskFollowsTable
<1> QED
  BY <1>1, Invariance, PTL

(* A host that was answered CREATED and has not asked to leave is in the       *)
(* database at all times and in the table of every bridge that has loaded it. *)
THEOREM PromisesAreDurable == Spec => []PromiseDurable
<1>1. IInv => PromiseDurable
  <2> SUFFICES ASSUME IInv, NEW p \in believes
               PROVE  /\ disk # None /\ p[2] \in DOMAIN disk /\ p[1] \in disk[p[2]]
                      /\ Loaded => p[1] \in Subs(p[2])
    BY DEF PromiseDurable
  <2>1. p[1] \in Saved(p[2]) /\ p[2] \in Topics
    BY DEF IInv, TypeOK
  <2> QED
    BY <2>1 DEF IInv, StoreInStep, Saved
<1> QED
  BY <1>1, Invariance, PTL

(* When on_publish takes up a message, the hosts it pushes it to include all   *)
(* that were told they are subscribed to a filter matching its topic.         *)
THEOREM SnapshotIsComplete == Spec => SnapshotComplete
<1>1. IInv /\ [Next]_vars =>
        [ForwardNext => \A p \in believes :
           <<p[2], Head(inbox).topic>> \in Matching => current' # None /\ p[1] \in current'.targets]_vars
  <2> SUFFICES ASSUME IInv, ForwardNext, NEW p \in believes, <<p[2], Head(inbox).topic>> \in Matching
               PROVE  current' # None /\ p[1] \in current'.targets
    OBVIOUS
  <2>1. p[1] \in Subs(p[2])
    BY DEF IInv, TypeOK, StoreInStep, ForwardNext
  <2>2. p[1] \in Subscribers(Head(inbox).topic)
    BY <2>1 DEF Subs, Subscribers
  <2>3. current' = [msg |-> Head(inbox).msg, topic |-> Head(inbox).topic,
                    targets |-> Subscribers(Head(inbox).topic)]
    BY <2>2 DEF ForwardNext
  <2>4. current' \in Pushing
    <3>1. Head(inbox) \in [msg : Messages, topic : Published]
      BY HeadTailProperties DEF ForwardNext, IInv, TypeOK
    <3>2. Subscribers(Head(inbox).topic) \in SUBSET Hosts
      BY SubscribersType DEF IInv, TypeOK
    <3> QED
      BY <2>3, <3>1, <3>2 DEF Pushing
  <2> QED
    BY <2>2, <2>3, <2>4, BridgeAssumption
<1> QED
  BY <1>1, Invariance, PTL DEF Spec, SnapshotComplete

-----------------------------------------------------------------------------
(* One request at a time. *)

(* What ServedInTurn is about: one request at a time, and MQTT works. *)
InTurn == Serial /\ ~MayFail("mqtt")

Leaving(k) == tasks[k] # None /\ tasks[k].op = "unsubscribe"

(* The broker will be asked for t, or is being asked to drop it. *)
OnItsWay(t) ==
    \/ \E i \in DOMAIN link : link[i].op = "subscribe" /\ link[i].topic = t
    \/ \E k \in Tasks : Leaving(k) /\ tasks[k].topic = t

(* A packet is start()'s or that of the request which waits for its answer, *)
PacketsOwned ==
    \A i \in DOMAIN link :
       /\ link[i].id # None
       /\ link[i].id = "restore" => link[i].op = "subscribe" /\ phase = "restoring"
       /\ link[i].id # "restore" => /\ tasks[link[i].id] # None
                                    /\ tasks[link[i].id].op = link[i].op
                                    /\ tasks[link[i].id].topic = link[i].topic

(* and so is an acknowledgement; what it confirms still holds. *)
AcksOwned ==
    \A i \in DOMAIN acks :
       /\ acks[i] = "restore" => phase = "restoring"
       /\ acks[i] # "restore" => /\ tasks[acks[i]] # None
                                 /\ Leaving(acks[i]) \/ tasks[acks[i]].topic \in broker

(* Nothing is under way twice. *)
OnceUnderWay ==
    /\ \A i, j \in DOMAIN link : link[i].id = link[j].id => i = j
    /\ \A i, j \in DOMAIN acks : acks[i] = acks[j] => i = j
    /\ \A i \in DOMAIN link, j \in DOMAIN acks : link[i].id # acks[j]

(* A request that waits for the broker to drop a topic is its last subscriber's. *)
LeavingIsLast ==
    \A k \in Tasks : Leaving(k) => Loaded /\ Subs(tasks[k].topic) = {tasks[k].host}

(* A topic with subscribers is with the broker, or on its way. *)
Covered ==
    phase \in {"restoring", "up"} =>
       \A t \in Topics : Subs(t) # {} => t \in broker \cup toRestore \/ OnItsWay(t)

TurnInv ==
    /\ \A k \in Tasks : tasks[k] # None => k \in scenario.tasks
    /\ PacketsOwned
    /\ AcksOwned
    /\ OnceUnderWay
    /\ LeavingIsLast
    /\ Covered
    /\ phase = "up" => toRestore = {}

Inv == IInv /\ (InTurn => TurnInv)

LEMMA AppendSeq ==
    ASSUME NEW S, NEW s \in Seq(S), NEW e \in S
    PROVE  /\ Len(s) \in Nat /\ DOMAIN s = 1..Len(s)
           /\ DOMAIN Append(s, e) = 1..(Len(s) + 1)
           /\ \A i \in 1..Len(s) : Append(s, e)[i] = s[i]
           /\ Append(s, e)[Len(s) + 1] = e
  OBVIOUS

LEMMA TailSeq ==
    ASSUME NEW S, NEW s \in Seq(S), s # <<>>
    PROVE  /\ Len(s) \in Nat \ {0} /\ DOMAIN s = 1..Len(s) /\ Head(s) = s[1]
           /\ DOMAIN Tail(s) = 1..(Len(s) - 1)
           /\ \A i \in 1..(Len(s) - 1) : Tail(s)[i] = s[i + 1]
<1>1. Len(s) \in Nat \ {0} /\ DOMAIN s = 1..Len(s)
  BY EmptySeq, LenProperties
<1>2. Head(s) = s[1]
  OBVIOUS
<1> QED
  BY <1>1, <1>2, HeadTailProperties, LenProperties

(* A step that leaves requests and packets alone and takes no subscriber from *)
(* a topic, or does so while nobody waits.                                    *)
LEMMA TurnSame ==
    ASSUME TurnInv, UNCHANGED <<scenario, toRestore, tasks, mqtt>>,
           phase' = phase \/ (phase = "down" /\ phase' = "connecting"),
           \/ \A u \in Topics : Subs(u)' = Subs(u)
           \/ /\ \A k \in Tasks : tasks[k] = None
              /\ \A u \in Topics : Subs(u)' # {} => Subs(u) # {},
           \A k \in Tasks : tasks[k] # None => tasks[k].topic \in Topics
    PROVE  TurnInv'
<1>1. Loaded' <=> Loaded
  BY DEF Loaded
<1>2. PacketsOwned' /\ AcksOwned' /\ OnceUnderWay'
  BY DEF TurnInv, PacketsOwned, AcksOwned, OnceUnderWay, Leaving, mqtt
<1>3. LeavingIsLast'
  BY <1>1 DEF TurnInv, LeavingIsLast, Leaving
<1>4. Covered'
  BY DEF TurnInv, Covered, OnItsWay, Leaving, mqtt
<1> QED
  BY <1>2, <1>3, <1>4 DEF TurnInv

(* A request that starts finds no other waiting. *)
LEMMA NobodyWaits ==
    ASSUME Inv, InTurn, NEW k \in scenario.tasks, tasks[k] = None
    PROVE  \A l \in Tasks : tasks[l] = None
  BY DEF Inv, InTurn, Serial, TurnInv

LEMMA WaitTurn ==
    ASSUME Inv, InTurn, NEW k \in scenario.tasks, k \in Tasks, tasks[k] = None,
           NEW op \in {"subscribe", "unsubscribe"}, NEW h \in Hosts, NEW t \in Topics,
           Wait(k, op, h, t), UNCHANGED <<scenario, start, acks, broker>>,
           \A u : Subs(u)' = Subs(u), op = "unsubscribe" => ShouldUnsubscribe(t, h)
    PROVE  TurnInv'
<1> DEFINE p == [op |-> op, topic |-> t, id |-> k]
           r == [op |-> op, host |-> h, topic |-> t]
<1>1. \A l \in Tasks : tasks[l] = None
  BY NobodyWaits
<1>2. link' = Append(link, p) /\ tasks' = [tasks EXCEPT ![k] = r]
  BY DEF Wait
<1>3. r # None /\ p \in Packet
  BY BridgeAssumption DEF Request, Packet, Ids
<1>4. tasks'[k] = r /\ \A l \in Tasks : l # k => tasks'[l] = None
  BY <1>1, <1>2 DEF Inv, IInv, TypeOK
<1>5. /\ Len(link) \in Nat /\ DOMAIN link = 1..Len(link)
      /\ DOMAIN link' = 1..(Len(link) + 1)
      /\ \A i \in 1..Len(link) : link'[i] = link[i] /\ link[i] \in Packet
      /\ link'[Len(link) + 1] = p
  BY <1>2, <1>3, AppendSeq, ElementOfSeq DEF Inv, IInv, TypeOK
<1>6. \A i \in DOMAIN link : link[i].id = "restore" /\ link[i].op = "subscribe" /\ phase = "restoring"
  <2> SUFFICES ASSUME NEW i \in DOMAIN link, link[i].id # "restore" PROVE FALSE
    BY DEF Inv, TurnInv, PacketsOwned
  <2>1. link[i].id \in Tasks
    BY <1>5 DEF Packet, Ids, Inv, TurnInv, PacketsOwned
  <2> QED
    BY <1>1, <2>1 DEF Inv, TurnInv, PacketsOwned
<1>7. \A i \in DOMAIN acks : acks[i] = "restore" /\ phase = "restoring"
  <2>1. \A i \in DOMAIN acks : acks[i] \in Tasks \cup {"restore"}
    BY LenProperties DEF Inv, IInv, TypeOK
  <2> QED
    BY <1>1, <2>1 DEF Inv, TurnInv, AcksOwned
<1>8. k # "restore" /\ k # None
  BY BridgeAssumption
<1>9. PacketsOwned'
  <2> SUFFICES ASSUME NEW i \in 1..(Len(link) + 1)
               PROVE  /\ link'[i].id # None
                      /\ link'[i].id = "restore" => link'[i].op = "subscribe" /\ phase' = "restoring"
                      /\ link'[i].id # "restore" => /\ tasks'[link'[i].id] # None
                                                    /\ tasks'[link'[i].id].op = link'[i].op
                                                    /\ tasks'[link'[i].id].topic = link'[i].topic
    BY <1>5 DEF PacketsOwned
  <2>1. CASE i \in 1..Len(link)
    <3>1. link'[i].id = "restore" /\ link'[i].op = "subscribe" /\ phase' = "restoring"
      BY <1>5, <1>6, <2>1 DEF start
    <3>2. link'[i].id # None
      BY <1>5, <2>1 DEF Inv, TurnInv, PacketsOwned
    <3> QED
      BY <3>1, <3>2
  <2>2. CASE i = Len(link) + 1
    BY <1>3, <1>4, <1>5, <1>8, <2>2
  <2> QED
    BY <1>5, <2>1, <2>2
<1>10. AcksOwned'
  BY <1>7 DEF AcksOwned, start
<1>11. OnceUnderWay'
  <2>1. \A i, j \in DOMAIN link' : link'[i].id = link'[j].id => i = j
    <3> SUFFICES ASSUME NEW i \in 1..(Len(link) + 1), NEW j \in 1..(Len(link) + 1),
                        link'[i].id = link'[j].id
                 PROVE  i = j
      BY <1>5
    <3>1. CASE i \in 1..Len(link) /\ j \in 1..Len(link)
      BY <1>5, <3>1 DEF Inv, TurnInv, OnceUnderWay
    <3>2. \A n \in 1..Len(link) : link'[n].id # k
      BY <1>5, <1>6, <1>8
    <3>3. link'[Len(link) + 1].id = k
      BY <1>5
    <3> QED
      BY <1>5, <3>1, <3>2, <3>3
  <2>2. \A i \in DOMAIN link', j \in DOMAIN acks' : link'[i].id # acks'[j]
    <3> SUFFICES ASSUME NEW i \in 1..(Len(link) + 1), NEW j \in DOMAIN acks
                 PROVE  link'[i].id # acks[j]
      BY <1>5
    <3>1. CASE i \in 1..Len(link)
      BY <1>5, <3>1 DEF Inv, TurnInv, OnceUnderWay
    <3>2. CASE i = Len(link) + 1
      BY <1>5, <1>7, <1>8, <3>2
    <3> QED
      BY <1>5, <3>1, <3>2
  <2> QED
    BY <2>1, <2>2 DEF Inv, TurnInv, OnceUnderWay
<1>12. LeavingIsLast'
  <2> SUFFICES ASSUME NEW l \in Tasks, Leaving(l)'
               PROVE  Loaded' /\ Subs(tasks[l].topic)' = {tasks'[l].host}
    BY DEF LeavingIsLast
  <2>1. l = k /\ op = "unsubscribe"
    BY <1>4 DEF Leaving
  <2>2. Subs(t) = {h}
    BY <2>1 DEF ShouldUnsubscribe
  <2>3. Loaded
    BY <2>2 DEF Inv, IInv, StoreInStep
  <2> QED
    BY <1>4, <2>1, <2>2, <2>3 DEF Loaded, start
<1>13. Covered'
  <2> SUFFICES ASSUME phase \in {"restoring", "up"}, NEW u \in Topics, Subs(u) # {}
               PROVE  u \in broker \cup toRestore \/ OnItsWay(u)'
    BY DEF Covered, start
  <2>1. CASE u \in broker \cup toRestore
    BY <2>1
  <2>2. ASSUME NEW i \in DOMAIN link, link[i].op = "subscribe", link[i].topic = u PROVE OnItsWay(u)'
    BY <1>5, <2>2 DEF OnItsWay
  <2>3. u \in broker \cup toRestore \/ \E i \in DOMAIN link : link[i].op = "subscribe" /\ link[i].topic = u
    BY <1>1 DEF Inv, TurnInv, Covered, OnItsWay, Leaving
  <2> QED
    BY <2>1, <2>2, <2>3
<1> QED
  BY <1>4, <1>9, <1>10, <1>11, <1>12, <1>13 DEF Inv, TurnInv, start

LEMMA RequestTurn ==
    ASSUME Inv, InTurn, NEW k \in scenario.tasks, k \in Tasks, NEW h \in Hosts, NEW t \in Topics,
           SubscribeRequest(k, h, t) \/ UnsubscribeRequest(k, h, t)
    PROVE  TurnInv'
<1>1. tasks[k] = None /\ UNCHANGED <<scenario, start, acks, broker>>
  BY DEF SubscribeRequest, UnsubscribeRequest
<1>2. \A l \in Tasks : tasks[l] = None
  BY <1>1, NobodyWaits
<1>3. CASE table' = Touch(t)
  <2>1. \A u : Subs(u)' = Subs(u)
    BY <1>3, TouchSame
  <2>2. CASE UNCHANGED <<tasks, link>>
    BY <1>1, <1>2, <2>1, <2>2, TurnSame DEF Inv, start, mqtt
  <2>3. CASE SubscribeRequest(k, h, t) /\ Wait(k, "subscribe", h, t)
    BY <1>1, <2>1, <2>3, WaitTurn
  <2>4. CASE UnsubscribeRequest(k, h, t) /\ Wait(k, "unsubscribe", h, t) /\ ShouldUnsubscribe(t, h)
    BY <1>1, <2>1, <2>4, WaitTurn
  <2> QED
    BY <2>2, <2>3, <2>4 DEF SubscribeRequest, UnsubscribeRequest
<1>4. CASE ~ShouldSubscribe(t) /\ ManagerSubscribe(t, h) /\ UNCHANGED <<tasks, link>>
  <2>1. \A u \in Topics : Subs(u)' # {} => Subs(u) # {}
    BY <1>4, SetSubsSets DEF ManagerSubscribe, ShouldSubscribe
  <2> QED
    BY <1>1, <1>2, <1>4, <2>1, TurnSame DEF Inv, start, mqtt
<1>5. CASE ManagerUnsubscribe(t, h) /\ UNCHANGED <<tasks, link>>
  <2>1. \A u \in Topics : Subs(u)' # {} => Subs(u) # {}
    BY <1>5, SetSubsSets DEF ManagerUnsubscribe
  <2> QED
    BY <1>1, <1>2, <1>5, <2>1, TurnSame DEF Inv, start, mqtt
<1> QED
  BY <1>3, <1>4, <1>5 DEF SubscribeRequest, UnsubscribeRequest

(* The packet that the broker takes is turned into its acknowledgement. *)
LEMMA BrokerTurn == ASSUME Inv, InTurn, Broker PROVE TurnInv'
<1> DEFINE p == Head(link)
<1>1. /\ Len(link) \in Nat \ {0} /\ DOMAIN link = 1..Len(link) /\ p = link[1]
      /\ DOMAIN link' = 1..(Len(link) - 1)
      /\ \A i \in 1..(Len(link) - 1) : link'[i] = link[i + 1]
  BY TailSeq DEF Broker, Inv, IInv, TypeOK
<1>2. \A i \in 1..Len(link) : link[i] \in Packet /\ link[i].id \in Tasks \cup {"restore"}
  <2>1. \A i \in 1..Len(link) : link[i] \in Packet
    BY ElementOfSeq DEF Inv, IInv, TypeOK
  <2>2. \A i \in 1..Len(link) : link[i].id # None
    BY <1>1 DEF Inv, TurnInv, PacketsOwned
  <2> QED
    BY <2>1, <2>2 DEF Packet, Ids
<1>3. p \in Packet /\ p.id \in Tasks \cup {"restore"} /\ p.id # None
  BY <1>1, <1>2 DEF Inv, TurnInv, PacketsOwned
<1>4. /\ acks' = Append(acks, p.id)
      /\ broker' = IF p.op = "subscribe" THEN broker \cup {p.topic} ELSE broker \ {p.topic}
      /\ UNCHANGED <<scenario, store, start, tasks>>
  BY <1>3 DEF Broker
<1>5. /\ Len(acks) \in Nat /\ DOMAIN acks = 1..Len(acks)
      /\ DOMAIN acks' = 1..(Len(acks) + 1)
      /\ \A i \in 1..Len(acks) : acks'[i] = acks[i] /\ acks[i] \in Tasks \cup {"restore"}
      /\ acks'[Len(acks) + 1] = p.id
  BY <1>3, <1>4, AppendSeq, ElementOfSeq DEF Inv, IInv, TypeOK
<1>6. p.op # "subscribe" => p.op = "unsubscribe" /\ p.id \in Tasks /\ Leaving(p.id)
                            /\ tasks[p.id].topic = p.topic
  BY <1>1, <1>3 DEF Inv, TurnInv, PacketsOwned, Packet, Leaving
<1>7. PacketsOwned'
  BY <1>1, <1>4 DEF Inv, TurnInv, PacketsOwned, start
<1>8. AcksOwned'
  <2> SUFFICES ASSUME NEW i \in 1..(Len(acks) + 1)
               PROVE  /\ acks'[i] = "restore" => phase = "restoring"
                      /\ acks'[i] # "restore" => /\ tasks[acks'[i]] # None
                                                 /\ Leaving(acks'[i]) \/ tasks[acks'[i]].topic \in broker'
    BY <1>4, <1>5 DEF AcksOwned, Leaving, start
  <2>1. CASE i \in 1..Len(acks)
    <3>1. CASE acks[i] = "restore"
      BY <1>5, <2>1, <3>1 DEF Inv, TurnInv, AcksOwned
    <3>2. CASE acks[i] # "restore"
      <4>1. acks[i] \in Tasks /\ tasks[acks[i]] # None
            /\ (Leaving(acks[i]) \/ tasks[acks[i]].topic \in broker)
        BY <1>5, <2>1, <3>2 DEF Inv, TurnInv, AcksOwned
      <4>2. ASSUME p.op # "subscribe" PROVE Leaving(acks[i])
        BY <1>6, <4>1, <4>2 DEF Inv, InTurn, Serial, TurnInv, Leaving
      <4> QED
        BY <1>4, <1>5, <2>1, <3>2, <4>1, <4>2
    <3> QED
      BY <3>1, <3>2
  <2>2. CASE i = Len(acks) + 1
    <3>1. p.id = "restore" => phase = "restoring"
      BY <1>1 DEF Inv, TurnInv, PacketsOwned
    <3>2. p.id # "restore" => tasks[p.id] # None /\ tasks[p.id].topic = p.topic
      BY <1>1 DEF Inv, TurnInv, PacketsOwned
    <3> QED
      BY <1>4, <1>5, <1>6, <2>2, <3>1, <3>2
  <2> QED
    BY <1>5, <2>1, <2>2
<1>9. OnceUnderWay'
  <2>1. \A i, j \in DOMAIN link' : link'[i].id = link'[j].id => i = j
    <3> SUFFICES ASSUME NEW i \in 1..(Len(link) - 1), NEW j \in 1..(Len(link) - 1),
                        link[i + 1].id = link[j + 1].id
                 PROVE  i = j
      BY <1>1
    <3>1. i + 1 \in DOMAIN link /\ j + 1 \in DOMAIN link
      BY <1>1
    <3>2. i + 1 = j + 1
      BY <3>1 DEF Inv, TurnInv, OnceUnderWay
    <3> QED
      BY <3>2
  <2>2. \A i \in 1..Len(acks) : acks[i] # p.id
    BY <1>1, <1>5 DEF Inv, TurnInv, OnceUnderWay
  <2>3. \A i \in 1..(Len(link) - 1) : link[i + 1].id # p.id
    BY <1>1 DEF Inv, TurnInv, OnceUnderWay
  <2>4. \A i, j \in DOMAIN acks' : acks'[i] = acks'[j] => i = j
    <3> SUFFICES ASSUME NEW i \in 1..(Len(acks) + 1), NEW j \in 1..(Len(acks) + 1), acks'[i] = acks'[j]
                 PROVE  i = j
      BY <1>5
    <3>1. CASE i \in 1..Len(acks) /\ j \in 1..Len(acks)
      BY <1>5, <3>1 DEF Inv, TurnInv, OnceUnderWay
    <3> QED
      BY <1>5, <2>2, <3>1
  <2>5. \A i \in DOMAIN link', j \in DOMAIN acks' : link'[i].id # acks'[j]
    <3> SUFFICES ASSUME NEW i \in 1..(Len(link) - 1), NEW j \in 1..(Len(acks) + 1)
                 PROVE  link[i + 1].id # acks'[j]
      BY <1>1, <1>5
    <3>1. i + 1 \in DOMAIN link
      BY <1>1
    <3>2. CASE j \in 1..Len(acks)
      BY <1>5, <3>1, <3>2 DEF Inv, TurnInv, OnceUnderWay
    <3> QED
      BY <1>5, <2>3, <3>2
  <2> QED
    BY <2>1, <2>4, <2>5 DEF OnceUnderWay
<1>10. LeavingIsLast'
  BY <1>4 DEF Inv, TurnInv, LeavingIsLast, Leaving, Loaded, Subs, store, start
<1>11. Covered'
  <2> SUFFICES ASSUME phase \in {"restoring", "up"}, NEW u \in Topics, Subs(u) # {}
               PROVE  u \in broker' \cup toRestore \/ OnItsWay(u)'
    BY <1>4 DEF Covered, Subs, store, start
  <2>1. CASE u \in toRestore
    BY <2>1
  <2>2. CASE u \in broker
    <3>1. CASE u \in broker'
      BY <3>1
    <3>2. CASE u \notin broker'
      <4>1. p.id \in Tasks /\ Leaving(p.id) /\ tasks[p.id].topic = u
        BY <1>4, <1>6, <2>2, <3>2
      <4> QED
        BY <1>4, <4>1 DEF OnItsWay, Leaving
    <3> QED
      BY <3>1, <3>2
  <2>3. ASSUME NEW i \in DOMAIN link, link[i].op = "subscribe", link[i].topic = u
        PROVE  u \in broker' \cup toRestore \/ OnItsWay(u)'
    <3>1. CASE i = 1
      BY <1>1, <1>4, <2>3, <3>1
    <3>2. CASE i # 1
      <4>1. i - 1 \in 1..(Len(link) - 1) /\ (i - 1) + 1 = i
        BY <1>1, <3>2
      <4>2. link'[i - 1] = link[i]
        BY <1>1, <4>1
      <4> QED
        BY <1>1, <2>3, <4>1, <4>2 DEF OnItsWay
    <3> QED
      BY <3>1, <3>2
  <2>4. CASE \E k \in Tasks : Leaving(k) /\ tasks[k].topic = u
    BY <1>4, <2>4 DEF OnItsWay, Leaving
  <2> QED
    BY <2>1, <2>2, <2>3, <2>4 DEF Inv, TurnInv, Covered, OnItsWay
<1> QED
  BY <1>4, <1>7, <1>8, <1>9, <1>10, <1>11 DEF Inv, TurnInv, start

(* The request whose answer comes ends; none is left. *)
LEMMA ResumeTurn ==
    ASSUME Inv, InTurn, NEW k \in scenario.tasks, k \in Tasks, Resume(k) PROVE TurnInv'
<1> DEFINE r == tasks[k]
<1>1. /\ tasks[k] # None /\ acks # <<>> /\ Head(acks) = k /\ acks' = Tail(acks)
      /\ tasks' = [tasks EXCEPT ![k] = None] /\ UNCHANGED <<scenario, start, link, broker>>
  BY DEF Resume
<1>2. \A l \in Tasks : tasks'[l] = None /\ (tasks[l] # None => l = k)
  BY <1>1 DEF Inv, IInv, TypeOK, InTurn, Serial, TurnInv
<1>3. /\ Len(acks) \in Nat \ {0} /\ DOMAIN acks = 1..Len(acks) /\ acks[1] = k
      /\ DOMAIN acks' = 1..(Len(acks) - 1)
      /\ \A i \in 1..(Len(acks) - 1) : acks'[i] = acks[i + 1]
  BY <1>1, TailSeq DEF Inv, IInv, TypeOK
<1>4. \A i \in DOMAIN link : link[i].id = "restore"
  <2> SUFFICES ASSUME NEW i \in DOMAIN link, link[i].id # "restore" PROVE FALSE
    OBVIOUS
  <2>1. link[i].id \in Tasks
    <3>1. link[i] \in Packet
      BY LenProperties DEF Inv, IInv, TypeOK
    <3> QED
      BY <3>1 DEF Packet, Ids, Inv, TurnInv, PacketsOwned
  <2>2. link[i].id = k
    BY <1>2, <2>1 DEF Inv, TurnInv, PacketsOwned
  <2> QED
    BY <1>3, <2>2 DEF Inv, TurnInv, OnceUnderWay
<1>5. \A i \in 1..(Len(acks) - 1) : acks[i + 1] = "restore"
  <2> SUFFICES ASSUME NEW i \in 1..(Len(acks) - 1), acks[i + 1] # "restore" PROVE FALSE
    OBVIOUS
  <2>1. i + 1 \in DOMAIN acks /\ 1 \in DOMAIN acks /\ i + 1 # 1
    BY <1>3
  <2>2. acks[i + 1] \in Tasks
    BY <2>1, LenProperties DEF Inv, IInv, TypeOK
  <2>3. acks[i + 1] = k
    BY <1>2, <2>1, <2>2 DEF Inv, TurnInv, AcksOwned
  <2> QED
    BY <1>3, <2>1, <2>3 DEF Inv, TurnInv, OnceUnderWay
<1>6. PacketsOwned'
  BY <1>1, <1>4 DEF Inv, TurnInv, PacketsOwned, start
<1>7. AcksOwned'
  <2>1. \A i \in 1..(Len(acks) - 1) : i + 1 \in DOMAIN acks
    BY <1>3
  <2> QED
    BY <1>1, <1>3, <1>5, <2>1 DEF Inv, TurnInv, AcksOwned, start
<1>8. OnceUnderWay'
  <2>1. \A i, j \in DOMAIN acks' : acks'[i] = acks'[j] => i = j
    <3> SUFFICES ASSUME NEW i \in 1..(Len(acks) - 1), NEW j \in 1..(Len(acks) - 1), acks[i + 1] = acks[j + 1]
                 PROVE  i = j
      BY <1>3
    <3>1. i + 1 \in DOMAIN acks /\ j + 1 \in DOMAIN acks
      BY <1>3
    <3>2. i + 1 = j + 1
      BY <3>1 DEF Inv, TurnInv, OnceUnderWay
    <3> QED
      BY <3>2
  <2>2. \A i \in DOMAIN link, j \in 1..(Len(acks) - 1) : link[i].id # acks[j + 1]
    <3>1. \A j \in 1..(Len(acks) - 1) : j + 1 \in DOMAIN acks
      BY <1>3
    <3> QED
      BY <3>1 DEF Inv, TurnInv, OnceUnderWay
  <2> QED
    BY <1>1, <1>3, <2>1, <2>2 DEF Inv, TurnInv, OnceUnderWay
<1>9. LeavingIsLast'
  BY <1>2 DEF LeavingIsLast, Leaving
<1>10. Covered'
  <2> SUFFICES ASSUME phase \in {"restoring", "up"}, NEW u \in Topics, Subs(u)' # {}
               PROVE  u \in broker \cup toRestore \/ OnItsWay(u)'
    BY <1>1 DEF Covered, start
  <2>1. ASSUME u # r.topic PROVE u \in broker \cup toRestore \/ OnItsWay(u)'
    <3>1. Subs(u) # {}
      BY <2>1, SetSubsSets DEF Resume, ManagerSubscribe, ManagerUnsubscribe
    <3>2. ~\E l \in Tasks : Leaving(l) /\ tasks[l].topic = u
      BY <1>2, <2>1 DEF Leaving
    <3>3. u \in broker \cup toRestore \/ \E i \in DOMAIN link : link[i].op = "subscribe" /\ link[i].topic = u
      BY <3>1, <3>2 DEF Inv, TurnInv, Covered, OnItsWay
    <3> QED
      BY <1>1, <3>3 DEF OnItsWay
  <2>2. ASSUME u = r.topic PROVE u \in broker
    <3>1. CASE Leaving(k)
      <4>1. Subs(u) = {r.host}
        BY <2>2, <3>1 DEF Inv, TurnInv, LeavingIsLast
      <4>2. ManagerUnsubscribe(u, r.host)
        BY <2>2, <3>1 DEF Resume, Leaving
      <4>3. Subs(u)' = {}
        BY <4>1, <4>2, SetSubsSets DEF ManagerUnsubscribe
      <4> QED
        BY <4>3
    <3>2. CASE ~Leaving(k)
      <4>1. k # "restore"
        BY BridgeAssumption
      <4> QED
        BY <1>3, <2>2, <3>2, <4>1 DEF Inv, TurnInv, AcksOwned
    <3> QED
      BY <3>1, <3>2
  <2> QED
    BY <2>1, <2>2
<1> QED
  BY <1>1, <1>2, <1>6, <1>7, <1>8, <1>9, <1>10 DEF Inv, TurnInv, start

(* start() goes on: the topic it asks for next is on its way, the others are   *)
(* still in toRestore.                                                        *)
LEMMA RestoreTurn ==
    ASSUME TypeOK, NEW saved \in SUBSET Topics, RestoreNext(saved), UNCHANGED <<scenario, tasks, broker>>,
           \A k \in Tasks : tasks[k] # None => k \in scenario.tasks,
           PacketsOwned, OnceUnderWay,
           \A i \in DOMAIN link : link[i].id # "restore",
           \A i \in DOMAIN acks' : /\ acks'[i] # "restore"
                                   /\ tasks[acks'[i]] # None
                                   /\ Leaving(acks'[i]) \/ tasks[acks'[i]].topic \in broker,
           \A i, j \in DOMAIN acks' : acks'[i] = acks'[j] => i = j,
           \A i \in DOMAIN link, j \in DOMAIN acks' : link[i].id # acks'[j],
           LeavingIsLast',
           \A t \in Topics : Subs(t)' # {} => t \in broker \cup saved \/ OnItsWay(t)
    PROVE  TurnInv'
<1>1. AcksOwned'
  BY DEF AcksOwned, Leaving
<1>2. CASE saved = {}
  <2>1. phase' = "up" /\ toRestore' = {} /\ UNCHANGED link
    BY <1>2 DEF RestoreNext
  <2>2. PacketsOwned' /\ OnceUnderWay'
    BY <2>1 DEF PacketsOwned, OnceUnderWay
  <2>3. Covered'
    BY <1>2, <2>1 DEF Covered, OnItsWay, Leaving
  <2> QED
    BY <1>1, <2>1, <2>2, <2>3 DEF TurnInv
<1>3. CASE saved # {}
  <2> DEFINE p(t) == [op |-> "subscribe", topic |-> t, id |-> "restore"]
  <2>1. PICK t \in saved : phase' = "restoring" /\ toRestore' = saved \ {t} /\ link' = Append(link, p(t))
    BY <1>3 DEF RestoreNext
  <2>2. p(t) \in Packet /\ "restore" # None
    <3>1. p(t) \in Packet
      BY DEF Packet, Ids
    <3> QED
      BY <3>1, BridgeAssumption
  <2>3. /\ Len(link) \in Nat /\ DOMAIN link = 1..Len(link)
        /\ DOMAIN link' = 1..(Len(link) + 1)
        /\ \A i \in 1..Len(link) : link'[i] = link[i]
        /\ link'[Len(link) + 1] = p(t)
    BY <2>1, <2>2, AppendSeq DEF TypeOK
  <2>4. PacketsOwned'
    <3> SUFFICES ASSUME NEW i \in 1..(Len(link) + 1)
                 PROVE  /\ link'[i].id # None
                        /\ link'[i].id = "restore" => link'[i].op = "subscribe"
                        /\ link'[i].id # "restore" => /\ tasks[link'[i].id] # None
                                                      /\ tasks[link'[i].id].op = link'[i].op
                                                      /\ tasks[link'[i].id].topic = link'[i].topic
      BY <2>1, <2>3 DEF PacketsOwned
    <3>1. CASE i \in 1..Len(link)
      BY <2>3, <3>1 DEF PacketsOwned
    <3>2. CASE i = Len(link) + 1
      BY <2>2, <2>3, <3>2
    <3> QED
      BY <2>3, <3>1, <3>2
  <2>5. OnceUnderWay'
    <3>1. ASSUME NEW i \in 1..(Len(link) + 1), NEW j \in 1..(Len(link) + 1), link'[i].id = link'[j].id
          PROVE  i = j
      <4>1. CASE i \in 1..Len(link) /\ j \in 1..Len(link)
        BY <2>3, <3>1, <4>1 DEF OnceUnderWay
      <4>2. \A n \in 1..Len(link) : link'[n].id # "restore"
        BY <2>3
      <4>3. link'[Len(link) + 1].id = "restore"
        BY <2>3
      <4> QED
        BY <2>3, <3>1, <4>1, <4>2, <4>3
    <3>2. ASSUME NEW i \in 1..(Len(link) + 1), NEW j \in DOMAIN acks' PROVE link'[i].id # acks'[j]
      <4>1. CASE i \in 1..Len(link)
        BY <2>3, <4>1
      <4>2. CASE i = Len(link) + 1
        BY <2>3, <4>2
      <4> QED
        BY <2>3, <4>1, <4>2
    <3> QED
      BY <2>3, <3>1, <3>2 DEF OnceUnderWay
  <2>6. Covered'
    <3> SUFFICES ASSUME NEW u \in Topics, Subs(u)' # {}
                 PROVE  u \in broker \cup toRestore' \/ OnItsWay(u)'
      BY DEF Covered
    <3>1. CASE u = t
      BY <2>3, <3>1 DEF OnItsWay
    <3>2. CASE u # t /\ u \in broker \cup saved
      BY <2>1, <3>2
    <3>3. CASE OnItsWay(u)
      BY <2>3, <3>3 DEF OnItsWay, Leaving
    <3> QED
      BY <3>1, <3>2, <3>3
  <2> QED
    BY <1>1, <2>1, <2>4, <2>5, <2>6 DEF TurnInv
<1> QED
  BY <1>2, <1>3

LEMMA ConnectedTurn == ASSUME Inv, InTurn, Connected PROVE TurnInv'
<1>1. /\ phase = "connecting" /\ ~Loaded /\ UNCHANGED <<scenario, disk, tasks, acks, broker>>
  BY DEF Connected, Loaded
<1>2. \A k \in Tasks : ~Leaving(k)
  BY <1>1 DEF Inv, TurnInv, LeavingIsLast
<1>3. \A i \in DOMAIN link : link[i].id # "restore"
  BY <1>1 DEF Inv, TurnInv, PacketsOwned
<1>4. \A i \in DOMAIN acks : acks[i] # "restore"
  BY <1>1 DEF Inv, TurnInv, AcksOwned
<1>5. LeavingIsLast'
  BY <1>1, <1>2 DEF LeavingIsLast, Leaving
<1>6. CASE disk = None
  <2>1. phase' = "failed" /\ UNCHANGED <<table, toRestore, link>>
    BY <1>6 DEF Connected
  <2>2. PacketsOwned' /\ AcksOwned' /\ OnceUnderWay'
    BY <1>1, <1>3, <1>4, <2>1 DEF Inv, TurnInv, PacketsOwned, AcksOwned, OnceUnderWay, Leaving
  <2>3. Covered'
    BY <2>1 DEF Covered
  <2> QED
    BY <1>1, <1>5, <2>1, <2>2, <2>3 DEF Inv, TurnInv
<1>7. CASE disk # None
  <2>1. table' = Loadable /\ RestoreNext(DOMAIN Loadable) /\ DOMAIN Loadable \in SUBSET Topics
    BY <1>7 DEF Connected, Loadable, Inv, IInv, TypeOK, Tables
  <2>2. \A t \in Topics : Subs(t)' # {} => t \in DOMAIN Loadable
    BY <2>1 DEF Subs
  <2>3. \A i \in DOMAIN acks : tasks[acks[i]] # None /\ (Leaving(acks[i]) \/ tasks[acks[i]].topic \in broker)
    BY <1>4 DEF Inv, TurnInv, AcksOwned
  <2> QED
    BY <1>1, <1>3, <1>4, <1>5, <2>1, <2>2, <2>3, RestoreTurn DEF Inv, IInv, TurnInv, OnceUnderWay
<1> QED
  BY <1>6, <1>7

LEMMA RestoredTurn == ASSUME Inv, InTurn, Restored PROVE TurnInv'
<1>1. /\ phase = "restoring" /\ acks # <<>> /\ Head(acks) = "restore" /\ acks' = Tail(acks)
      /\ RestoreNext(toRestore) /\ UNCHANGED <<scenario, store, tasks, broker>>
  BY DEF Restored
<1>2. /\ Len(acks) \in Nat \ {0} /\ DOMAIN acks = 1..Len(acks) /\ acks[1] = "restore"
      /\ DOMAIN acks' = 1..(Len(acks) - 1)
      /\ \A i \in 1..(Len(acks) - 1) : acks'[i] = acks[i + 1]
  BY <1>1, TailSeq DEF Inv, IInv, TypeOK
<1>3. \A i \in DOMAIN link : link[i].id # "restore"
  BY <1>2 DEF Inv, TurnInv, OnceUnderWay
<1>4. ASSUME NEW i \in 1..(Len(acks) - 1)
      PROVE  /\ acks[i + 1] # "restore" /\ tasks[acks[i + 1]] # None
             /\ Leaving(acks[i + 1]) \/ tasks[acks[i + 1]].topic \in broker
             /\ \A j \in 1..(Len(acks) - 1) : acks[i + 1] = acks[j + 1] => i = j
             /\ \A j \in DOMAIN link : link[j].id # acks[i + 1]
  <2>1. i + 1 \in DOMAIN acks /\ 1 \in DOMAIN acks /\ i + 1 # 1
    BY <1>2
  <2>2. \A j \in 1..(Len(acks) - 1) : j + 1 \in DOMAIN acks /\ (i + 1 = j + 1 => i = j)
    BY <1>2
  <2>3. acks[i + 1] # "restore"
    BY <1>2, <2>1 DEF Inv, TurnInv, OnceUnderWay
  <2> QED
    BY <2>1, <2>2, <2>3 DEF Inv, TurnInv, OnceUnderWay, AcksOwned
<1>5. phase' \in {"up", "restoring"} /\ toRestore \in SUBSET Topics
  BY <1>1 DEF RestoreNext, Inv, IInv, TypeOK
<1>6. LeavingIsLast'
  BY <1>1, <1>5 DEF Inv, TurnInv, LeavingIsLast, Leaving, Loaded, Subs, store
<1>7. \A t \in Topics : Subs(t)' # {} => t \in broker \cup toRestore \/ OnItsWay(t)
  BY <1>1 DEF Inv, TurnInv, Covered, Subs, store
<1> QED
  BY <1>1, <1>2, <1>3, <1>4, <1>5, <1>6, <1>7, RestoreTurn DEF Inv, IInv, TurnInv

LEMMA CrashTurn == ASSUME Inv, InTurn, Crash \/ CrashInDump PROVE TurnInv'
<1>1. /\ phase' = "down" /\ tasks' = [k \in Tasks |-> None] /\ link' = <<>> /\ acks' = <<>>
  BY DEF Crash, CrashInDump, Killed
<1> QED
  BY <1>1 DEF TurnInv, PacketsOwned, AcksOwned, OnceUnderWay, LeavingIsLast, Leaving, Covered

LEMMA InitInv == Init => Inv
<1> SUFFICES ASSUME Init PROVE TurnInv
  BY InitIInv DEF Inv
<1> QED
  BY DEF Init, TurnInv, PacketsOwned, AcksOwned, OnceUnderWay, LeavingIsLast, Leaving, Covered

LEMMA NextInv == Inv /\ [Next]_vars => Inv'
<1> SUFFICES ASSUME Inv, [Next]_vars, InTurn' PROVE TurnInv'
  BY NextIInv DEF Inv
<1>1. UNCHANGED scenario
  BY DEF Next, vars, SubscribeRequest, UnsubscribeRequest, Resume, RequestTimeout, Broker, Publish,
     ForwardNext, ForwardRaises, Forwarded, ForwardFails, Start, Connect, Connected, Restored,
     RestoreFails, Crash, CrashInDump, Killed
<1>2. InTurn /\ TurnInv
  BY <1>1 DEF InTurn, Serial, MayFail, Inv
<1>3. \A k \in Tasks : tasks[k] # None => tasks[k].topic \in Topics
  BY DEF Inv, IInv, TypeOK, Request
<1>4. CASE UNCHANGED vars \/ (\E m \in scenario.messages, t \in Published : Publish(m, t))
           \/ ForwardNext \/ ForwardRaises \/ (\E h \in Hosts : Forwarded(h) \/ ForwardFails(h))
           \/ Connect \/ Start
  <2>1. UNCHANGED <<toRestore, tasks, mqtt, table>> /\ (phase' = phase \/ (phase = "down" /\ phase' = "connecting"))
    BY <1>4 DEF vars, Publish, ForwardNext, ForwardRaises, Forwarded, ForwardFails, Connect, Start, start, store
  <2>2. \A u \in Topics : Subs(u)' = Subs(u)
    BY <2>1 DEF Subs
  <2> QED
    BY <1>1, <1>2, <1>3, <2>1, <2>2, TurnSame
<1>5. ~RestoreFails /\ \A k \in Tasks : ~RequestTimeout(k)
  BY <1>2 DEF InTurn, RestoreFails, RequestTimeout
<1> QED
  BY <1>2, <1>4, <1>5, ScenarioType, RequestTurn, ResumeTurn, BrokerTurn, ConnectedTurn, RestoredTurn,
     CrashTurn DEF Next, Inv, IInv

(* When requests come one at a time and MQTT works, then whenever the bridge   *)
(* is up and no request is in progress the broker has it subscribed to every  *)
(* topic in which some host is interested, across crashes and restores.       *)
THEOREM ServedOneAtATime == Spec => []ServedInTurn
<1>1. Inv => ServedInTurn
  <2> SUFFICES ASSUME Inv, InTurn, phase = "up", \A k \in Tasks : tasks[k] = None,
                      NEW t \in Topics, Subs(t) # {}
               PROVE  t \in broker
    BY DEF ServedInTurn, Served, InTurn
  <2>1. \A i \in DOMAIN link : FALSE
    <3> SUFFICES ASSUME NEW i \in DOMAIN link PROVE FALSE
      OBVIOUS
    <3>1. link[i] \in Packet
      BY LenProperties DEF Inv, IInv, TypeOK
    <3>2. link[i].id \in Tasks
      BY <3>1 DEF Packet, Ids, Inv, TurnInv, PacketsOwned
    <3> QED
      BY <3>2, BridgeAssumption DEF Inv, TurnInv, PacketsOwned
  <2> QED
    BY <2>1 DEF Inv, TurnInv, Covered, OnItsWay, Leaving
<1>2. Init => Inv
  BY InitInv
<1>3. Inv /\ [Next]_vars => Inv'
  BY NextInv
<1> QED
  BY <1>1, <1>2, <1>3, PTL DEF Spec

-----------------------------------------------------------------------------
(* The client: the lock of mqtt-over-coap.c, what it protects, and the      *)
(* retries, for any number of topics, exchanges, events and pings and any   *)
(* mixture of faults.                                                       *)

(* The lock has a request behind it. *)
LockHasExchange == coap_callback_in_use => Open # {}

(* While no lock expires, an open exchange is under the lock and is the only one, *)
ExchangeIsLocked == /\ \A x, y \in Open : x = y
                    /\ Open # {} => coap_callback_in_use

(* and what subscribe_callback will find in coap_callback_i is its topic. *)
CallbackIsOwn ==
    callback = "subscribe_callback" => \A x \in Open : exchange[x] = coap_callback_i

(* Without publishing, every exchange is a subscription's. *)
SubscribesOnly == Open # {} => callback = "subscribe_callback"

MqttInv ==
    /\ MqttTypeOK
    /\ LockHasExchange
    /\ "expiry" \in faults \/ (ExchangeIsLocked /\ CallbackIsOwn)
    /\ SubscribedIsGranted
    /\ "publish" \in faults \/ SubscribesOnly
    /\ RetryPending

LEMMA MqttInitInv == MqttInit => MqttInv
<1> SUFFICES ASSUME MqttInit PROVE MqttInv
  OBVIOUS
<1>1. Open = {}
  BY DEF MqttInit, Open
<1>2. MqttTypeOK
  <2>1. faults \in SUBSET MqttFaults
    BY MqttAssumption DEF MqttInit
  <2>2. events \in 0..MaxEvents /\ pings \in 0..MaxPings
    BY MqttAssumption DEF MqttInit
  <2>3. {connectivity, connected, publish_periodic_timer, echo_request_timer} \subseteq BOOLEAN
    BY DEF MqttInit
  <2> QED
    BY <2>1, <2>2, <2>3 DEF MqttInit, MqttTypeOK, Statuses
<1> QED
  BY <1>1, <1>2 DEF MqttInit, MqttInv, LockHasExchange, ExchangeIsLocked, CallbackIsOwn,
       SubscribedIsGranted, SubscribesOnly, RetryPending

(* coap_send_request opens one exchange, for what is asked, under the lock. *)
LEMMA SendOpens ==
    ASSUME MqttTypeOK, NEW what \in 0..TopicsLen, NEW cb, Send(what, cb)
    PROVE  /\ exchange' \in [Exchanges -> TopicNumbers \cup {0, Unused}]
           /\ callback' = cb
           /\ coap_callback_in_use' = TRUE
           /\ \E x \in Exchanges \ Open : Open' = Open \cup {x} /\ exchange'[x] = what
<1>1. PICK x \in Exchanges \ Open : exchange' = [exchange EXCEPT ![x] = what]
  BY DEF Send
<1>2. what # Unused
  BY MqttAssumption
<1>3. Open' = Open \cup {x} /\ exchange'[x] = what
  BY <1>1, <1>2 DEF Open, MqttTypeOK
<1>4. exchange' \in [Exchanges -> TopicNumbers \cup {0, Unused}]
  BY <1>1, MqttAssumption DEF MqttTypeOK, TopicNumbers
<1> QED
  BY <1>1, <1>3, <1>4 DEF Send

(* A publish takes the lock for its own exchange. *)
LEMMA PublishIInv == MqttInv /\ mqtt_over_coap_publish => MqttInv'
<1> SUFFICES ASSUME MqttInv, mqtt_over_coap_publish PROVE MqttInv'
  OBVIOUS
<1> USE DEF MqttInv
<1>1. /\ "publish" \in faults /\ ~coap_callback_in_use /\ Send(0, "publish_callback")
      /\ UNCHANGED <<faults, topic_subscribe_status, coap_callback_i, granted, network, events, timers>>
  BY DEF mqtt_over_coap_publish
<1>2. 0 \in 0..TopicsLen
  BY MqttAssumption
<1>3. /\ exchange' \in [Exchanges -> TopicNumbers \cup {0, Unused}]
      /\ callback' = "publish_callback"
      /\ coap_callback_in_use' = TRUE
      /\ \E x \in Exchanges \ Open : Open' = Open \cup {x} /\ exchange'[x] = 0
  BY <1>1, <1>2, SendOpens
<1>4. MqttTypeOK'
  BY <1>1, <1>3 DEF MqttTypeOK, network, timers
<1>5. LockHasExchange'
  BY <1>3 DEF LockHasExchange
<1>6. "expiry" \in faults' \/ (ExchangeIsLocked' /\ CallbackIsOwn')
  BY <1>1, <1>3 DEF ExchangeIsLocked, CallbackIsOwn
<1>7. SubscribedIsGranted'
  BY <1>1 DEF SubscribedIsGranted
<1>8. RetryPending'
  BY <1>1 DEF RetryPending
<1> QED
  BY <1>1, <1>4, <1>5, <1>6, <1>7, <1>8


(* A topic is marked SUBSCRIBING, with a request for it unless the lock is   *)
(* held.                                                                     *)
LEMMA SubscribeAtIInv ==
    ASSUME MqttInv, NEW i \in TopicNumbers, NEW armed \in BOOLEAN, SubscribeAt(i, armed),
           UNCHANGED <<faults, granted, network, echo_request_timer>>, events' \in 0..MaxEvents
    PROVE  MqttInv'
<1> USE DEF MqttInv
<1>1. /\ topic_subscribe_status' = [topic_subscribe_status EXCEPT ![i] = "SUBSCRIBING"]
      /\ publish_periodic_timer' \in BOOLEAN
  BY DEF SubscribeAt
<1>2. topic_subscribe_status' \in [TopicNumbers -> Statuses]
  BY <1>1 DEF MqttTypeOK, Statuses
<1>3. SubscribedIsGranted'
  BY <1>1 DEF SubscribedIsGranted, MqttTypeOK
<1>4. CASE coap_callback_in_use /\ UNCHANGED coap
  <2>1. Open' = Open /\ Open # {}
    BY <1>4 DEF Open, coap, LockHasExchange
  <2>2. MqttTypeOK'
    BY <1>1, <1>2, <1>4 DEF MqttTypeOK, coap, network
  <2>3. LockHasExchange' /\ ("expiry" \in faults' \/ (ExchangeIsLocked' /\ CallbackIsOwn'))
    BY <1>4, <2>1 DEF LockHasExchange, ExchangeIsLocked, CallbackIsOwn, coap
  <2>4. "publish" \in faults' \/ SubscribesOnly'
    BY <1>4, <2>1 DEF SubscribesOnly, coap
  <2>5. RetryPending'
    BY <2>1, <2>4 DEF RetryPending, SubscribesOnly
  <2> QED
    BY <1>3, <2>2, <2>3, <2>4, <2>5
<1>5. CASE ~coap_callback_in_use /\ SendSubscribe(i)
  <2>1. i \in 0..TopicsLen
    BY MqttAssumption DEF TopicNumbers
  <2>2. /\ exchange' \in [Exchanges -> TopicNumbers \cup {0, Unused}]
        /\ callback' = "subscribe_callback"
        /\ coap_callback_in_use' = TRUE
        /\ \E x \in Exchanges \ Open : Open' = Open \cup {x} /\ exchange'[x] = i
    BY <1>5, <2>1, SendOpens DEF SendSubscribe
  <2>3. coap_callback_i' = i
    BY <1>5 DEF SendSubscribe
  <2>4. MqttTypeOK'
    BY <1>1, <1>2, <2>2, <2>3 DEF MqttTypeOK, network
  <2>5. LockHasExchange'
    BY <2>2 DEF LockHasExchange
  <2>6. "expiry" \in faults' \/ (ExchangeIsLocked' /\ CallbackIsOwn')
    BY <1>5, <2>2, <2>3 DEF ExchangeIsLocked, CallbackIsOwn
  <2>7. SubscribesOnly' /\ RetryPending'
    BY <2>2 DEF SubscribesOnly, RetryPending
  <2> QED
    BY <1>3, <2>4, <2>5, <2>6, <2>7
<1> QED
  BY <1>4, <1>5 DEF SubscribeAt

(* A step that leaves topics and requests alone and arms a timer if there    *)
(* are topics to subscribe to.                                               *)
LEMMA TimersIInv ==
    ASSUME MqttInv, UNCHANGED <<faults, topic_subscribe_status, coap, granted>>,
           {connectivity', connected', publish_periodic_timer', echo_request_timer'} \subseteq BOOLEAN,
           events' \in 0..MaxEvents, pings' \in 0..MaxPings,
           RetryPending'
    PROVE  MqttInv'
<1>1. Open' = Open
  BY DEF Open, coap
<1> QED
  BY <1>1 DEF MqttInv, MqttTypeOK, LockHasExchange, ExchangeIsLocked, CallbackIsOwn, SubscribedIsGranted,
              SubscribesOnly, coap

(* state_machine() *)
LEMMA StateMachineIInv ==
    ASSUME MqttInv, NEW armed \in BOOLEAN, StateMachine(armed),
           UNCHANGED <<faults, granted>>, events' \in 0..MaxEvents
    PROVE  MqttInv'
<1>1. CASE connectivity /\ connected /\ Subscribe(armed) /\ UNCHANGED <<network, echo_request_timer>>
  <2>1. CASE \E i \in TopicNumbers : SubscribeAt(i, armed)
    BY <1>1, <2>1, SubscribeAtIInv
  <2>2. CASE SubscribeNone(armed \/ Unsubscribed # {})
    <3>1. /\ publish_periodic_timer' = (armed \/ Unsubscribed # {})
          /\ UNCHANGED <<topic_subscribe_status, coap>>
      BY <2>2 DEF SubscribeNone
    <3>2. RetryPending'
      BY <3>1 DEF RetryPending, Unsubscribed
    <3>3. {connectivity', connected', publish_periodic_timer', echo_request_timer'} \subseteq BOOLEAN
      BY <1>1, <3>1 DEF MqttInv, MqttTypeOK, network
    <3>4. pings' \in 0..MaxPings
      BY <1>1 DEF MqttInv, MqttTypeOK, network
    <3> QED
      BY <3>1, <3>2, <3>3, <3>4, TimersIInv
  <2> QED
    BY <1>1, <2>1, <2>2 DEF Subscribe
<1>2. CASE /\ connectivity /\ ~connected
           /\ connected' \in BOOLEAN
           /\ publish_periodic_timer' = TRUE
           /\ UNCHANGED <<topic_subscribe_status, coap, connectivity, pings, echo_request_timer>>
  <2>1. RetryPending'
    BY <1>2 DEF RetryPending
  <2>2. {connectivity', connected', publish_periodic_timer', echo_request_timer'} \subseteq BOOLEAN
    BY <1>2 DEF MqttInv, MqttTypeOK
  <2>3. pings' \in 0..MaxPings
    BY <1>2 DEF MqttInv, MqttTypeOK
  <2> QED
    BY <1>2, <2>1, <2>2, <2>3, TimersIInv
<1>3. CASE /\ ~connectivity
           /\ echo_request_timer' = TRUE
           /\ publish_periodic_timer' = armed
           /\ UNCHANGED <<topic_subscribe_status, coap, network>>
  <2>1. RetryPending'
    BY <1>3 DEF RetryPending
  <2>2. {connectivity', connected', publish_periodic_timer', echo_request_timer'} \subseteq BOOLEAN
    BY <1>3 DEF MqttInv, MqttTypeOK, network
  <2>3. pings' \in 0..MaxPings
    BY <1>3 DEF MqttInv, MqttTypeOK, network
  <2> QED
    BY <1>3, <2>1, <2>2, <2>3, TimersIInv
<1> QED
  BY <1>1, <1>2, <1>3 DEF StateMachine

(* process_post adds one event, or finds the queue full. *)
LEMMA PostAdds ==
    ASSUME events \in 0..MaxEvents, Post(events)
    PROVE  /\ events' \in 0..MaxEvents
           /\ "post" \notin faults => events' > 0
  BY MqttAssumption DEF Post

LEMMA PingIInv == MqttInv /\ (EchoTimer \/ EchoReply \/ PingLost) => MqttInv'
<1> SUFFICES ASSUME MqttInv, EchoTimer \/ EchoReply \/ PingLost PROVE MqttInv'
  OBVIOUS
<1>1. Open' = Open
  BY DEF EchoTimer, EchoReply, PingLost, Open, coap
<1>2. CASE EchoTimer
  <2>1. pings' \in 0..MaxPings
    BY <1>2, MqttAssumption DEF EchoTimer, MqttInv, MqttTypeOK
  <2>2. RetryPending'
    BY <1>1, <1>2 DEF EchoTimer, MqttInv, RetryPending, Unsubscribed, coap, timers
  <2> QED
    BY <1>2, <2>1, <2>2, TimersIInv DEF EchoTimer, MqttInv, MqttTypeOK, timers
<1>3. CASE EchoReply
  <2>1. pings' \in 0..MaxPings
    BY <1>3, MqttAssumption DEF EchoReply, MqttInv, MqttTypeOK
  <2>2. events' \in 0..MaxEvents /\ ("post" \notin faults => events' > 0)
    BY <1>3, PostAdds DEF EchoReply, MqttInv, MqttTypeOK
  <2>3. RetryPending'
    BY <1>3, <2>2 DEF EchoReply, RetryPending
  <2> QED
    BY <1>3, <2>1, <2>2, <2>3, TimersIInv DEF EchoReply, MqttInv, MqttTypeOK
<1>4. CASE PingLost
  <2>1. pings' \in 0..MaxPings
    BY <1>4, MqttAssumption DEF PingLost, MqttInv, MqttTypeOK
  <2>2. RetryPending'
    BY <1>1, <1>4 DEF PingLost, MqttInv, RetryPending, Unsubscribed, coap, timers
  <2> QED
    BY <1>4, <2>1, <2>2, TimersIInv DEF PingLost, MqttInv, MqttTypeOK, timers
<1> QED
  BY <1>2, <1>3, <1>4

(* The end of an exchange: its callback sets a status and lets the machine go on. *)
LEMMA EndIInv ==
    ASSUME MqttInv, NEW x \in Exchanges, exchange[x] # Unused,
           NEW new \in Statuses, Callback(new), End(x),
           granted \subseteq granted', granted' \subseteq TopicNumbers,
           new = "SUBSCRIBED" => exchange[x] \in granted'
    PROVE  MqttInv'
<1> USE DEF MqttInv
<1>1. /\ exchange' = [exchange EXCEPT ![x] = Unused] /\ coap_callback_in_use' = FALSE
      /\ UNCHANGED <<faults, coap_callback_i, callback, network, timers>>
  BY DEF End
<1>2. x \in Open /\ Open' = Open \ {x} /\ \A y \in Open' : exchange'[y] = exchange[y]
  BY <1>1 DEF Open, MqttTypeOK
<1>3. /\ topic_subscribe_status' \in [TopicNumbers -> Statuses] /\ events' \in 0..MaxEvents
  BY PostAdds DEF Callback, SubscribeCallback, Status, MqttTypeOK
<1>4. exchange' \in [Exchanges -> TopicNumbers \cup {0, Unused}]
  BY <1>1 DEF MqttTypeOK
<1>5. MqttTypeOK'
  BY <1>1, <1>3, <1>4 DEF MqttTypeOK, network, timers
<1>6. LockHasExchange'
  BY <1>1 DEF LockHasExchange
<1>7. "expiry" \in faults' \/ (ExchangeIsLocked' /\ CallbackIsOwn')
  <2>1. CASE "expiry" \notin faults
    <3>1. Open' = {}
      BY <1>2, <2>1 DEF ExchangeIsLocked
    <3> QED
      BY <3>1 DEF ExchangeIsLocked, CallbackIsOwn
  <2> QED
    BY <1>1, <2>1
<1>8. SubscribedIsGranted'
  <2> SUFFICES ASSUME "expiry" \notin faults, NEW i \in TopicNumbers, topic_subscribe_status'[i] = "SUBSCRIBED"
               PROVE  i \in granted'
    BY <1>1 DEF SubscribedIsGranted
  <2>1. CASE topic_subscribe_status[i] = "SUBSCRIBED"
    BY <2>1 DEF SubscribedIsGranted
  <2>2. CASE topic_subscribe_status[i] # "SUBSCRIBED"
    <3>1. callback = "subscribe_callback" /\ Status(new)
      BY <2>2 DEF Callback, SubscribeCallback
    <3>2. i = coap_callback_i /\ new = "SUBSCRIBED"
      BY <2>2, <3>1 DEF Status, MqttTypeOK
    <3>3. exchange[x] = coap_callback_i
      BY <1>2, <3>1 DEF CallbackIsOwn
    <3> QED
      BY <3>2, <3>3
  <2> QED
    BY <2>1, <2>2
<1>9. "publish" \in faults' \/ SubscribesOnly'
  BY <1>1, <1>2 DEF SubscribesOnly
<1>10. RetryPending'
  <2> SUFFICES ASSUME faults \subseteq {"slow", "send", "network"} PROVE events' > 0
    BY <1>1 DEF RetryPending
  <2>1. callback = "subscribe_callback"
    BY <1>2 DEF SubscribesOnly
  <2>2. Post(events)
    BY <2>1 DEF Callback, SubscribeCallback
  <2> QED
    BY <2>2, PostAdds DEF MqttTypeOK
<1> QED
  BY <1>5, <1>6, <1>7, <1>8, <1>9, <1>10

LEMMA ResponseIInv == ASSUME MqttInv, NEW x \in Exchanges, NEW created \in BOOLEAN, Response(x, created) PROVE MqttInv'
<1>1. CASE created
  <2>1. exchange[x] \in TopicNumbers
    BY <1>1 DEF Response, MqttInv, MqttTypeOK
  <2>2. granted \subseteq granted' /\ granted' \subseteq TopicNumbers /\ exchange[x] \in granted'
    BY <1>1, <2>1 DEF Response, MqttInv, MqttTypeOK
  <2>3. Callback("SUBSCRIBED") /\ End(x) /\ exchange[x] # Unused
    BY <1>1 DEF Response
  <2> QED
    BY <2>2, <2>3, EndIInv DEF Statuses
<1>2. CASE ~created
  <2>1. granted \subseteq granted' /\ granted' \subseteq TopicNumbers
    BY <1>2 DEF Response, MqttInv, MqttTypeOK
  <2>2. Callback("NOT_SUBSCRIBED") /\ End(x) /\ exchange[x] # Unused
    BY <1>2 DEF Response
  <2> QED
    BY <2>1, <2>2, EndIInv DEF Statuses
<1> QED
  BY <1>1, <1>2

LEMMA TimeoutIInv == ASSUME MqttInv, NEW x \in Exchanges, Timeout(x) PROVE MqttInv'
<1>1. granted \subseteq granted' /\ granted' \subseteq TopicNumbers
  BY DEF Timeout, MqttInv, MqttTypeOK
<1>2. Callback("NOT_SUBSCRIBED") /\ End(x) /\ exchange[x] # Unused
  BY DEF Timeout
<1> QED
  BY <1>1, <1>2, EndIInv DEF Statuses

LEMMA LockExpiresIInv == MqttInv /\ LockExpires => MqttInv'
<1> SUFFICES ASSUME MqttInv, LockExpires PROVE MqttInv'
  OBVIOUS
<1>1. Open' = Open
  BY DEF LockExpires, Open
<1> QED
  BY <1>1 DEF LockExpires, MqttInv, MqttTypeOK, LockHasExchange, SubscribedIsGranted, SubscribesOnly,
              RetryPending, Unsubscribed, network, timers

LEMMA NetworkIInv == MqttInv /\ Network => MqttInv'
<1> SUFFICES ASSUME MqttInv, Network PROVE MqttInv'
  OBVIOUS
<1>1. Open' = Open
  BY DEF Network, Open, coap
<1>2. RetryPending'
  BY <1>1 DEF Network, MqttInv, RetryPending, Unsubscribed, coap, timers
<1>3. {connectivity', connected', publish_periodic_timer', echo_request_timer'} \subseteq BOOLEAN
  BY DEF Network, MqttInv, MqttTypeOK, timers
<1>4. pings' \in 0..MaxPings /\ events' \in 0..MaxEvents
  BY DEF Network, MqttInv, MqttTypeOK
<1> QED
  BY <1>2, <1>3, <1>4, TimersIInv DEF Network

LEMMA MqttNextInv == MqttInv /\ [MqttNext]_mqttVars => MqttInv'
<1> SUFFICES ASSUME MqttInv, [MqttNext]_mqttVars PROVE MqttInv'
  OBVIOUS
<1>1. CASE StateMachineEvent
  <2>1. events' \in 0..MaxEvents
    BY <1>1, MqttAssumption DEF StateMachineEvent, MqttInv, MqttTypeOK
  <2>2. publish_periodic_timer \in BOOLEAN
    BY DEF MqttInv, MqttTypeOK
  <2> QED
    BY <1>1, <2>1, <2>2, StateMachineIInv DEF StateMachineEvent
<1>2. CASE PeriodicTimer
  BY <1>2, StateMachineIInv DEF PeriodicTimer, MqttInv, MqttTypeOK
<1>3. CASE UNCHANGED mqttVars
  <2>1. Open' = Open
    BY <1>3 DEF mqttVars, Open, coap
  <2> QED
    BY <1>3, <2>1 DEF mqttVars, coap, network, timers, MqttInv, MqttTypeOK, LockHasExchange, ExchangeIsLocked,
         CallbackIsOwn, SubscribedIsGranted, SubscribesOnly, RetryPending, Unsubscribed
<1> QED
  BY <1>1, <1>2, <1>3, PublishIInv, PingIInv, ResponseIInv, TimeoutIInv, LockExpiresIInv, NetworkIInv
     DEF MqttNext

LEMMA MqttInvariance == MqttSpec => []MqttInv
<1>1. MqttInit => MqttInv
  BY MqttInitInv
<1>2. MqttInv /\ [MqttNext]_mqttVars => MqttInv'
  BY MqttNextInv
<1> QED
  BY <1>1, <1>2, PTL DEF MqttSpec

(* The lock of mqtt-over-coap.c is never held without a request that will     *)
(* release it, and while it does not expire early at most one request is open *)
(* and the lock covers it; every variable keeps its type.                     *)
THEOREM LockCovers == MqttSpec => []LockCoversExchange
<1>1. MqttInv => LockCoversExchange
  <2> SUFFICES ASSUME MqttInv PROVE LockCoversExchange
    OBVIOUS
  <2>1. ASSUME "expiry" \notin faults PROVE Cardinality(Open) <= 1
    <3>1. CASE Open = {}
      BY <3>1, FS_EmptySet
    <3>2. CASE Open # {}
      <4>1. PICK x \in Open : TRUE
        BY <3>2
      <4>2. Open = {x}
        BY <2>1, <4>1 DEF MqttInv, ExchangeIsLocked
      <4>3. Cardinality({x}) = 1
        BY FS_Singleton
      <4> QED
        BY <4>2, <4>3
    <3> QED
      BY <3>1, <3>2
  <2> QED
    BY <2>1 DEF MqttInv, LockHasExchange, ExchangeIsLocked, LockCoversExchange
<1> QED
  BY <1>1, MqttInvariance, PTL

(* While no lock expires early, a topic that the node takes for subscribed    *)
(* was granted by the bridge: no answer is booked on another request's topic. *)
THEOREM SubscribedGranted == MqttSpec => []SubscribedIsGranted
<1>1. MqttInv => SubscribedIsGranted
  BY DEF MqttInv
<1> QED
  BY <1>1, MqttInvariance, PTL

(* Without publishing, lost events and early expiry, the client always has an  *)
(* event, a timer or a request under way that will make it try again as long  *)
(* as a topic is left to subscribe to.                                        *)
THEOREM RetryAlwaysPending == MqttSpec => []RetryPending
<1>1. MqttInv => RetryPending
  BY DEF MqttInv
<1> QED
  BY <1>1, MqttInvariance, PTL
=============================================================================
