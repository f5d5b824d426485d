---------------------------- MODULE CryptoSupport ----------------------------
(***************************************************************************)
(* The signer and verifier processes (wsn/common/crypto/crypto-support.c)   *)
(* and the platform's ECC operations (targets/*/platform-crypto-support.c),  *)
(* which share one crypto processor with the key store's ECDH.              *)
(*                                                                          *)
(* A process runs when it is polled or when an event is delivered to it, up  *)
(* to its next yield: a run is an action.  A process that waits re-checks    *)
(* its condition only in a run, so what is modelled above all is who gets    *)
(* which event.  PROCESS_YIELD_UNTIL yields once before it looks at its      *)
(* condition, and PROCESS_PAUSE ends at any event, not only at its own.      *)
(***************************************************************************)
EXTENDS Naturals, Sequences

CONSTANTS
    SignEntries,    \* the blocks of messages_to_sign_memb
    VerifyEntries,  \* the blocks of messages_to_verify_memb
    NoEntry,        \* no entry is being processed
    Scenarios       \* the platforms and faults to examine

Entries == SignEntries \cup VerifyEntries

ASSUME EntriesAssumption == NoEntry \notin Entries

(* "nrf52840": that platform; without it the zoul, whose PKA works across     *)
(*             events                                                        *)
(* "forged":   signatures may be wrong                                       *)
(* "short":    messages may have no room for a signature                     *)
(* "pka":      the operation itself may fail                                 *)
(* "hash":     sha256_hash may fail                                          *)
(* "post":     process_post may find the kernel's event queue full           *)
Circumstances == {"nrf52840", "forged", "short", "pka", "hash", "post"}
ASSUME ScenarioAssumption == Scenarios \subseteq SUBSET Circumstances

VARIABLES
    scenario,   \* the circumstances of this behaviour
    entry,      \* service -> block -> kind of message, "free" = not allocated
    queue,      \* service -> messages_to_sign, messages_to_verify
    item,       \* service -> sitem, vitem: the entry being processed
    pc,         \* process -> where it yielded
    result,     \* service -> result field of sign_state, verify_state
    mutex,      \* crypto_processor_mutex
    finished,   \* the PKA has finished its operation
    polled,     \* processes whose poll flag is set
    events      \* the kernel's event queue

vars == <<scenario, entry, queue, item, pc, result, mutex, finished, polled, events>>

Synchronous == "nrf52840" \in scenario
PkaMayFail  == "pka" \in scenario
HashMayFail == "hash" \in scenario
PostMayFail == "post" \in scenario

Kinds    == {"valid", "forged", "short"}
Messages == {"valid"} \cup (scenario \cap Kinds)

Services  == {"signer", "verifier"}
Processes == Services \cup {"keystore"}     \* the users of the crypto processor

(* The order of Contiki's process list: keystore_init, run by the key store's *)
(* process, starts the signer and then the verifier, each put at the front.   *)
ProcessList == <<"verifier", "signer", "keystore">>

Event == [ev : {"released"}, to : {ProcessList, <<"signer", "keystore">>, <<"keystore">>}]
         \cup [ev : {"continue"}, to : {<<w>> : w \in Services}]
         \cup [ev : {"result"}, to : {<<>>}, of : Services, entry : Entries, good : BOOLEAN]

-----------------------------------------------------------------------------
(* Events.  process_post fails once the queue is full, and then so do the    *)
(* posts that follow it in the same run.                                     *)

Posts(s) == IF PostMayFail THEN {SubSeq(s, 1, n) : n \in 0..Len(s)} ELSE {s}

Inform_Nobody == <<>>

(* inform_crypto_mutex_released: a broadcast *)
Inform == <<[ev |-> "released", to |-> ProcessList]>>

Result(w, b, r) ==
    <<[ev |-> "result", to |-> <<>>, of |-> w, entry |-> b, good |-> r]>>

Continue_Lost(w) == <<>>

Continue(w) == <<[ev |-> "continue", to |-> <<w>>]>>

-----------------------------------------------------------------------------
(* The operations.  rest is the event queue without the event that the run   *)
(* handles.                                                                  *)

(* posting before the state's result is set *)
Ends_Early(w, b, r, released, rest) ==
    /\ \E s \in Posts(released \o Result(w, b, result[w]) \o Continue(w)) : events' = rest \o s
    /\ result' = [result EXCEPT ![w] = r]
    /\ item' = [item EXCEPT ![w] = NoEntry]
    /\ pc' = [pc EXCEPT ![w] = "pause"]
    /\ UNCHANGED finished

(* The operation on entry b is over: post its result, then pause. *)
Ends(w, b, r, released, rest) ==
    /\ \E s \in Posts(released \o Result(w, b, r) \o Continue(w)) : events' = rest \o s
    /\ result' = [result EXCEPT ![w] = r]
    /\ item' = [item EXCEPT ![w] = NoEntry]
    /\ pc' = [pc EXCEPT ![w] = "pause"]
    /\ UNCHANGED finished

Outcomes(w, b) == LET valid == entry[w][b] = "valid"
                  IN  {r \in BOOLEAN : (r => valid) /\ (valid /\ ~r => PkaMayFail)}

(* What the state's result field holds after sha256_hash has failed: on the  *)
(* nrf52840, ecc_verify leaves what the previous verification left there.    *)
HashFailure(w) == IF Synchronous /\ w = "verifier" THEN result[w] ELSE FALSE

HashFails_NoSignal(w, b, rest) == /\ HashMayFail
                                  /\ Ends(w, b, HashFailure(w), <<>>, rest)
                                  /\ mutex' = 0

(* The nrf52840's ecc_sign looks at the low byte of the error only: a failure *)
(* it does not see is a step of the second disjunct of Acquired.              *)
HashFails(w, b, rest) == /\ HashMayFail
                         /\ Ends(w, b, HashFailure(w), Inform, rest)
                         /\ mutex' = mutex

(* After PT_SEM_WAIT.  The nrf52840 works the operation out there and then,  *)
(* the zoul hands it to the PKA.                                             *)
Acquired(w, b, rest) ==
    \/ HashFails(w, b, rest)
    \/ /\ Synchronous
       /\ \E r \in Outcomes(w, b) : Ends(w, b, r, Inform, rest)
       /\ mutex' = mutex
    \/ /\ ~Synchronous
       /\ mutex' = mutex - 1
       /\ pc' = [pc EXCEPT ![w] = "pka"]
       /\ item' = [item EXCEPT ![w] = b]
       /\ finished' = FALSE
       /\ events' = rest
       /\ UNCHANGED result

Waits(p, rest) == /\ pc' = [pc EXCEPT ![p] = "mutex"]
                  /\ events' = rest
                  /\ UNCHANGED <<result, mutex, finished>>

(* ecc_sign, ecc_verify *)
Operate(w, b, rest) ==
    \/ /\ entry[w][b] = "short"
       /\ Ends(w, b, FALSE, <<>>, rest)
       /\ mutex' = mutex
    \/ /\ entry[w][b] # "short"
       /\ mutex = 0
       /\ item' = [item EXCEPT ![w] = b]
       /\ Waits(w, rest)
    \/ /\ entry[w][b] # "short"
       /\ mutex > 0
       /\ Acquired(w, b, rest)

PkaDone(w, rest) ==
    /\ \E r \in Outcomes(w, item[w]) : Ends(w, item[w], r, Inform, rest)
    /\ mutex' = mutex + 1

Idles(rest) == /\ events' = rest
               /\ UNCHANGED <<queue, item, pc, result, mutex, finished>>

Blocked(p) == \/ pc[p] = "mutex" /\ mutex = 0
              \/ pc[p] = "pka" /\ ~finished

(* A run of the signer or the verifier, for whatever event. *)
RunService(w, rest) ==
    \/ /\ pc[w] = "pause"
       /\ pc' = [pc EXCEPT ![w] = "wait"]
       /\ events' = rest
       /\ UNCHANGED <<queue, item, result, mutex, finished>>
    \/ /\ pc[w] = "wait" /\ queue[w] # <<>>
       /\ queue' = [queue EXCEPT ![w] = Tail(@)]
       /\ Operate(w, Head(queue[w]), rest)
    \/ /\ pc[w] = "mutex" /\ mutex > 0
       /\ Acquired(w, item[w], rest)
       /\ UNCHANGED queue
    \/ /\ pc[w] = "pka" /\ finished
       /\ PkaDone(w, rest)
       /\ UNCHANGED queue
    \/ /\ (pc[w] = "wait" /\ queue[w] = <<>>) \/ Blocked(w)
       /\ Idles(rest)

(* ecdh2, run by the key store's process.  What that process does next (it    *)
(* polls itself, and may queue the next certificate) is in module Keystore.   *)
EcdhEnds(rest) == /\ \E s \in Posts(Inform) : events' = rest \o s
                  /\ pc' = [pc EXCEPT !["keystore"] = "wait"]
                  /\ UNCHANGED <<item, result, finished>>

EcdhAcquired(rest) ==
    \/ Synchronous /\ EcdhEnds(rest) /\ mutex' = mutex
    \/ /\ ~Synchronous
       /\ mutex' = mutex - 1
       /\ pc' = [pc EXCEPT !["keystore"] = "pka"]
       /\ finished' = FALSE
       /\ events' = rest
       /\ UNCHANGED <<item, result>>

RunEcdh(rest) ==
    \/ /\ pc["keystore"] = "mutex" /\ mutex > 0
       /\ EcdhAcquired(rest)
       /\ UNCHANGED queue
    \/ /\ pc["keystore"] = "pka" /\ finished
       /\ EcdhEnds(rest)
       /\ mutex' = mutex + 1
       /\ UNCHANGED queue
    \/ /\ pc["keystore"] = "wait" \/ Blocked("keystore")
       /\ Idles(rest)

Run(p, rest) == IF p \in Services THEN RunService(p, rest) ELSE RunEcdh(rest)

-----------------------------------------------------------------------------
(* The kernel. *)

Poll(p) == /\ p \in polled
           /\ polled' = polled \ {p}
           /\ Run(p, events)
           /\ UNCHANGED <<scenario, entry>>

(* The events left once the next process has seen the first one. *)
Seen == IF Len(Head(events).to) = 1
        THEN Tail(events)
        ELSE <<[Head(events) EXCEPT !.to = Tail(@)]>> \o Tail(events)

Deliver(p) == /\ events # <<>>
              /\ Head(events).to # <<>>
              /\ p = Head(Head(events).to)
              /\ Run(p, Seen)
              /\ UNCHANGED <<scenario, entry, polled>>

(* A client runs between any two of these steps, also between two processes'   *)
(* turns at a broadcast, when do_event serves the polls.                      *)
QueueMessageWith(w, b, m, q) ==
    /\ b \in IF w = "signer" THEN SignEntries ELSE VerifyEntries
    /\ entry[w][b] = "free"
    /\ w = "signer" => m # "forged"
    /\ entry' = [entry EXCEPT ![w][b] = m]
    /\ queue' = [queue EXCEPT ![w] = q]
    /\ polled' = polled \cup {w}
    /\ UNCHANGED <<scenario, item, pc, result, mutex, finished, events>>

QueueMessage_AtFront(w, b, m) == QueueMessageWith(w, b, m, <<b>> \o queue[w])

(* queue_message_to_sign, queue_message_to_verify *)
QueueMessage(w, b, m) == QueueMessageWith(w, b, m, Append(queue[w], b))

Free(w, b) == entry' = [entry EXCEPT ![w][b] = "free"]

(* The client handles its result event and gives the entry back. *)
MessageDone ==
    /\ events # <<>>
    /\ Head(events).ev = "result"
    /\ events' = Tail(events)
    /\ Free(Head(events).of, Head(events).entry)
    /\ UNCHANGED <<scenario, queue, item, pc, result, mutex, finished, polled>>

(* The client is the key store and the certificate is good: ecdh2 starts. *)
CertificateVerified ==
    /\ events # <<>>
    /\ Head(events).ev = "result"
    /\ Head(events).of = "verifier" /\ Head(events).good
    /\ pc["keystore"] = "wait"
    /\ Free("verifier", Head(events).entry)
    /\ IF mutex > 0
       THEN EcdhAcquired(Tail(events))
       ELSE Waits("keystore", Tail(events)) /\ UNCHANGED item
    /\ UNCHANGED <<scenario, queue, polled>>

(* The PKA's interrupt polls the process that waits for it. *)
PkaInterrupt ==
    /\ ~finished
    /\ \E p \in Processes : pc[p] = "pka" /\ polled' = polled \cup {p}
    /\ finished' = TRUE
    /\ UNCHANGED <<scenario, entry, queue, item, pc, result, mutex, events>>

Init ==
    /\ scenario \in Scenarios
    /\ entry = [w \in Services |-> [b \in Entries |-> "free"]]
    /\ queue = [w \in Services |-> <<>>]
    /\ item = [w \in Services |-> NoEntry]
    /\ pc = [p \in Processes |-> "wait"]
    /\ result = [w \in Services |-> TRUE]   \* static, and 0 means success
    /\ mutex = 1
    /\ finished = TRUE
    /\ polled = {}
    /\ events = <<>>

System == \/ \E p \in Processes : Poll(p) \/ Deliver(p)
          \/ MessageDone
          \/ CertificateVerified
          \/ PkaInterrupt

Next == \/ System
        \/ \E w \in Services, b \in Entries, m \in Messages : QueueMessage(w, b, m)

(* The kernel goes on handling polls and events; the PKA finishes. *)
Fairness == /\ \A p \in Processes : WF_vars(Poll(p)) /\ WF_vars(Deliver(p))
            /\ WF_vars(MessageDone \/ CertificateVerified)
            /\ WF_vars(PkaInterrupt)

Spec == Init /\ [][Next]_vars

FairSpec == Spec /\ Fairness

-----------------------------------------------------------------------------
(* The entries of service w in the result events of queue s, in their order. *)
AnswersIn(s, w) ==
    LET upTo[n \in 0..Len(s)] ==
            IF n = 0 THEN <<>>
            ELSE IF s[n].ev = "result" /\ s[n].of = w THEN Append(upTo[n - 1], s[n].entry)
            ELSE upTo[n - 1]
    IN  upTo[Len(s)]

Answered(w) == AnswersIn(events, w)

Pending(w) == (IF item[w] = NoEntry THEN <<>> ELSE <<item[w]>>) \o queue[w]

(* Events and polls on their way to process p *)
WakeUps(p) == {i \in 1..Len(events) : \E j \in DOMAIN events[i].to : events[i].to[j] = p}
              \cup {0 : x \in polled \cap {p}}

(* Every variable holds a value of its C type (crypto-support.h:20-66, the    *)
(* event queue is Contiki's).                                                *)
TypeOK ==
    /\ scenario \in SUBSET Circumstances
    /\ entry \in [Services -> [Entries -> {"free"} \cup Kinds]]
    /\ queue \in [Services -> Seq(Entries)]
    /\ item \in [Services -> Entries \cup {NoEntry}]
    /\ pc \in [Processes -> {"wait", "pause", "mutex", "pka"}]
    /\ result \in [Services -> BOOLEAN]
    /\ mutex \in {0, 1}
    /\ finished \in BOOLEAN
    /\ polled \subseteq Processes
    /\ events \in Seq(Event)

(* The crypto processor has one user, and the semaphore is free exactly when  *)
(* it has none: each path out of ecc_sign, ecc_verify and ecdh2 gives back    *)
(* what it took (platform-crypto-support.c:204-407), whatever fails.          *)
MutexHeld == /\ \A p, q \in Processes : pc[p] = "pka" /\ pc[q] = "pka" => p = q
             /\ mutex = 0 <=> \E p \in Processes : pc[p] = "pka"

(* The crypto processor is used by one at a time, and every variable keeps    *)
(* its type; the semaphore's count is never above one.                        *)
ProcessorExclusion == TypeOK /\ MutexHeld

(* Unless a post fails or a message is short, a process that could go on will  *)
(* run: the queue is not empty, the semaphore is free or the PKA is done, and  *)
(* an event or a poll is on its way to it                                     *)
(* (crypto-support.c:88,105,149,166 and inform_crypto_mutex_released).       *)
NoLostWakeUp == {"short", "post"} \cap scenario = {} =>
    /\ \A w \in Services : pc[w] = "wait" /\ queue[w] # <<>> => WakeUps(w) # {}
    /\ \A p \in Processes :
          /\ pc[p] = "mutex" /\ mutex > 0 => WakeUps(p) # {}
          /\ pc[p] = "pka" /\ finished => WakeUps(p) # {}

(* Except when a hash fails on the nrf52840, a success is reported only for a  *)
(* message whose own signature was found good (crypto-support.c:158): no      *)
(* result is left over from another one.                                      *)
SuccessIsOwn == ~(Synchronous /\ HashMayFail) =>
    \A i \in 1..Len(events) :
       events[i].ev = "result" /\ events[i].good
          => entry[events[i].of][events[i].entry] = "valid"

(* The signer and the verifier are first-in first-out services that answer     *)
(* every message once, or not at all where process_post can fail              *)
(* (crypto-support.c:51-170).                                                 *)
Service == INSTANCE FifoService
           WITH pending <- [w \in Services |-> Pending(w)],
                answered <- [w \in Services |-> Answered(w)],
                lossy <- PostMayFail

ServesInOrder == Service!Spec

(* Unless posts fail or messages are short, and whatever the load, the two     *)
(* services together never stall: while a message waits, results keep coming  *)
(* (crypto-support.c:86-107,147-168).                                        *)
NeverStalls ==
    (scenario \cap {"short", "post"} = {} /\ \E w \in Services : Pending(w) # <<>>)
        ~> (\E i \in 1..Len(events) : events[i].ev = "result")
==============================================================================
