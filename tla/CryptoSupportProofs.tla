------------------------ MODULE CryptoSupportProofs ------------------------
(***************************************************************************)
(* The crypto processor has one user at a time, and every path through      *)
(* ecc_sign, ecc_verify and ecdh2 frees it; no wake-up is lost; a success is *)
(* that of its own message; and the signer and the verifier implement module *)
(* FifoService: for pools of any size and whichever of the failures of       *)
(* module CryptoSupport occur.                                              *)
(***************************************************************************)
EXTENDS CryptoSupport, SequenceTheorems, WellFoundedInduction, TLAPS

(* A service that waits for the processor or uses it has an entry to work on *)
BusyHasItem == \A w \in Services : pc[w] \in {"mutex", "pka"} => item[w] \in Entries

IInv == TypeOK /\ MutexHeld /\ BusyHasItem

(* How a run of process p may change the mutex and the place p waits at. *)
MutexStep(p) ==
    \/ /\ pc' = pc
       /\ mutex' = mutex
    \/ /\ pc[p] # "pka"
       /\ \E x \in {"wait", "pause", "mutex"} : pc' = [pc EXCEPT ![p] = x]
       /\ mutex' = mutex
    \/ /\ mutex > 0
       /\ pc' = [pc EXCEPT ![p] = "pka"]
       /\ mutex' = mutex - 1
    \/ /\ pc[p] = "pka"
       /\ \E x \in {"wait", "pause", "mutex"} : pc' = [pc EXCEPT ![p] = x]
       /\ mutex' = mutex + 1

(* What a run leaves well typed. *)
RunTypes == /\ queue' \in [Services -> Seq(Entries)]
            /\ item' \in [Services -> Entries \cup {NoEntry}]
            /\ result' \in [Services -> BOOLEAN]
            /\ finished' \in BOOLEAN
            /\ events' \in Seq(Event)

(* A step on the mutex keeps the processor exclusive. *)
LEMMA MutexStepKeeps ==
    ASSUME TypeOK, MutexHeld, NEW p \in Processes, MutexStep(p)
    PROVE  MutexHeld' /\ pc' \in [Processes -> {"wait", "pause", "mutex", "pka"}]
           /\ mutex' \in {0, 1}
<1> USE DEF TypeOK, MutexHeld
<1>1. CASE pc' = pc /\ mutex' = mutex
  BY <1>1
<1>2. CASE /\ pc[p] # "pka"
           /\ \E x \in {"wait", "pause", "mutex"} : pc' = [pc EXCEPT ![p] = x]
           /\ mutex' = mutex
  BY <1>2
<1>3. CASE mutex > 0 /\ pc' = [pc EXCEPT ![p] = "pka"] /\ mutex' = mutex - 1
  <2>1. mutex = 1 /\ mutex' = 0
    BY <1>3
  <2>2. \A q \in Processes : pc[q] # "pka"
    BY <2>1
  <2> QED
    BY <1>3, <2>1, <2>2
<1>4. CASE /\ pc[p] = "pka"
           /\ \E x \in {"wait", "pause", "mutex"} : pc' = [pc EXCEPT ![p] = x]
           /\ mutex' = mutex + 1
  <2>1. mutex = 0 /\ mutex' = 1
    BY <1>4
  <2>2. \A q \in Processes : pc[q] = "pka" => q = p
    BY <1>4
  <2> QED
    BY <1>4, <2>1, <2>2
<1> QED
  BY <1>1, <1>2, <1>3, <1>4 DEF MutexStep

(* Posting events, all of them or those there is room for, keeps the queue    *)
(* a queue of events.                                                        *)
LEMMA PostsTyped ==
    ASSUME NEW s \in Seq(Event), NEW t \in Posts(s), NEW rest \in Seq(Event)
    PROVE  rest \o t \in Seq(Event)
<1>1. \A n \in 0..Len(s) : SubSeq(s, 1, n) \in Seq(Event)
  OBVIOUS
<1>2. t \in Seq(Event)
  BY <1>1 DEF Posts
<1> QED
  BY <1>2

LEMMA InformTyped == Inform \in Seq(Event)
<1>1. [ev |-> "released", to |-> ProcessList] \in Event
  BY DEF Event
<1> QED
  BY <1>1 DEF Inform

(* The end of an operation: the entry's result is posted and the service     *)
(* pauses.                                                                   *)
LEMMA EndsTyped ==
    ASSUME TypeOK, BusyHasItem, NEW w \in Services, NEW b \in Entries, NEW r \in BOOLEAN,
           NEW rest \in Seq(Event), NEW released \in Seq(Event), Ends(w, b, r, released, rest)
    PROVE  /\ item' \in [Services -> Entries \cup {NoEntry}]
           /\ result' \in [Services -> BOOLEAN]
           /\ finished' \in BOOLEAN
           /\ events' \in Seq(Event)
           /\ pc' = [pc EXCEPT ![w] = "pause"]
           /\ BusyHasItem'
<1>1. Result(w, b, r) \in Seq(Event)
  <2>1. [ev |-> "result", to |-> <<>>, of |-> w, entry |-> b, good |-> r] \in Event
    BY DEF Event
  <2> QED
    BY <2>1 DEF Result
<1>2. Continue(w) \in Seq(Event)
  <2>1. [ev |-> "continue", to |-> <<w>>] \in Event
    BY DEF Event
  <2> QED
    BY <2>1 DEF Continue
<1>3. released \o Result(w, b, r) \o Continue(w) \in Seq(Event)
  BY <1>1, <1>2
<1>4. events' \in Seq(Event)
  BY <1>3, PostsTyped DEF Ends
<1>5. BusyHasItem'
  BY DEF Ends, TypeOK, BusyHasItem, Processes
<1> QED
  BY <1>4, <1>5 DEF Ends, TypeOK
(* What remains of the queue after a delivery is a queue of events. *)
LEMMA SeenTyped ==
    ASSUME TypeOK, events # <<>>, Head(events).to # <<>>
    PROVE  Seen \in Seq(Event)
<1>1. Head(events) \in Event /\ Tail(events) \in Seq(Event)
  BY DEF TypeOK
<1>2. CASE Len(Head(events).to) = 1
  BY <1>1, <1>2 DEF Seen
<1>3. CASE Len(Head(events).to) # 1
  <2>1. Head(events) \in [ev : {"released"}, to : {ProcessList, <<"signer", "keystore">>}]
    BY <1>1, <1>3 DEF Event
  <2>2. Tail(ProcessList) = <<"signer", "keystore">> /\ Tail(<<"signer", "keystore">>) = <<"keystore">>
    BY DEF ProcessList
  <2>3. [Head(events) EXCEPT !.to = Tail(@)] \in Event
    BY <2>1, <2>2 DEF Event
  <2>4. <<[Head(events) EXCEPT !.to = Tail(@)]>> \in Seq(Event)
    BY <2>3
  <2> QED
    BY <1>1, <1>3, <2>4 DEF Seen
<1> QED
  BY <1>2, <1>3

(* After PT_SEM_WAIT: the run either ends the operation and frees the         *)
(* processor, or keeps it.                                                   *)
LEMMA AcquiredStep ==
    ASSUME TypeOK, BusyHasItem, NEW w \in Services, NEW b \in Entries, NEW rest \in Seq(Event),
           pc[w] # "pka", mutex > 0, UNCHANGED queue \/ queue' \in [Services -> Seq(Entries)],
           Acquired(w, b, rest)
    PROVE  RunTypes /\ MutexStep(w) /\ BusyHasItem'
<1>0. queue' \in [Services -> Seq(Entries)]
  BY DEF TypeOK
<1>1. Inform \in Seq(Event)
  BY InformTyped
<1>2. CASE HashFails(w, b, rest)
  <2>1. HashFailure(w) \in BOOLEAN
    BY DEF HashFailure, TypeOK
  <2>2. Ends(w, b, HashFailure(w), Inform, rest) /\ mutex' = mutex
    BY <1>2 DEF HashFails
  <2>3. /\ item' \in [Services -> Entries \cup {NoEntry}] /\ result' \in [Services -> BOOLEAN]
        /\ finished' \in BOOLEAN /\ events' \in Seq(Event)
        /\ pc' = [pc EXCEPT ![w] = "pause"] /\ BusyHasItem'
    BY <1>1, <2>1, <2>2, EndsTyped
  <2> QED
    BY <1>0, <2>2, <2>3 DEF RunTypes, MutexStep
<1>3. CASE /\ \E r \in Outcomes(w, b) : Ends(w, b, r, Inform, rest)
           /\ mutex' = mutex
  <2>1. PICK r \in Outcomes(w, b) : Ends(w, b, r, Inform, rest)
    BY <1>3
  <2>2. r \in BOOLEAN
    BY DEF Outcomes
  <2>3. /\ item' \in [Services -> Entries \cup {NoEntry}] /\ result' \in [Services -> BOOLEAN]
        /\ finished' \in BOOLEAN /\ events' \in Seq(Event)
        /\ pc' = [pc EXCEPT ![w] = "pause"] /\ BusyHasItem'
    BY <1>1, <2>1, <2>2, EndsTyped
  <2> QED
    BY <1>0, <1>3, <2>3 DEF RunTypes, MutexStep
<1>4. CASE /\ mutex' = mutex - 1
           /\ pc' = [pc EXCEPT ![w] = "pka"]
           /\ item' = [item EXCEPT ![w] = b]
           /\ finished' = FALSE
           /\ events' = rest
           /\ UNCHANGED result
  BY <1>0, <1>4 DEF RunTypes, MutexStep, BusyHasItem, TypeOK, Processes
<1> QED
  BY <1>2, <1>3, <1>4 DEF Acquired

(* A run of the signer or the verifier *)
LEMMA RunServiceStep ==
    ASSUME IInv, NEW w \in Services, NEW rest \in Seq(Event), RunService(w, rest)
    PROVE  RunTypes /\ MutexStep(w) /\ BusyHasItem'
<1> USE DEF IInv
<1>1. CASE /\ pc[w] = "pause"
           /\ pc' = [pc EXCEPT ![w] = "wait"]
           /\ events' = rest
           /\ UNCHANGED <<queue, item, result, mutex, finished>>
  BY <1>1 DEF RunTypes, MutexStep, BusyHasItem, TypeOK, Processes
<1>2. CASE /\ pc[w] = "wait" /\ queue[w] # <<>>
           /\ queue' = [queue EXCEPT ![w] = Tail(@)]
           /\ Operate(w, Head(queue[w]), rest)
  <2> DEFINE b == Head(queue[w])
  <2>1. b \in Entries /\ queue' \in [Services -> Seq(Entries)]
    BY <1>2 DEF TypeOK
  <2>2. CASE Ends(w, b, FALSE, <<>>, rest) /\ mutex' = mutex
    <3>1. <<>> \in Seq(Event)
      OBVIOUS
    <3>2. /\ item' \in [Services -> Entries \cup {NoEntry}] /\ result' \in [Services -> BOOLEAN]
        /\ finished' \in BOOLEAN /\ events' \in Seq(Event)
        /\ pc' = [pc EXCEPT ![w] = "pause"] /\ BusyHasItem'
      BY <2>1, <2>2, <3>1, EndsTyped
    <3> QED
      BY <1>2, <2>1, <2>2, <3>2 DEF RunTypes, MutexStep
  <2>3. CASE mutex = 0 /\ item' = [item EXCEPT ![w] = b] /\ Waits(w, rest)
    BY <1>2, <2>1, <2>3 DEF Waits, RunTypes, MutexStep, BusyHasItem, TypeOK, Processes
  <2>4. CASE mutex > 0 /\ Acquired(w, b, rest)
    BY <1>2, <2>1, <2>4, AcquiredStep
  <2> QED
    BY <1>2, <2>2, <2>3, <2>4 DEF Operate
<1>3. CASE /\ pc[w] = "mutex" /\ mutex > 0
           /\ Acquired(w, item[w], rest)
           /\ UNCHANGED queue
  BY <1>3, AcquiredStep DEF BusyHasItem
<1>4. CASE /\ pc[w] = "pka" /\ finished
           /\ PkaDone(w, rest)
           /\ UNCHANGED queue
  <2>1. PICK r \in Outcomes(w, item[w]) : Ends(w, item[w], r, Inform, rest)
    BY <1>4 DEF PkaDone
  <2>2. r \in BOOLEAN /\ item[w] \in Entries /\ Inform \in Seq(Event)
    BY <1>4, InformTyped DEF Outcomes, BusyHasItem
  <2>3. /\ item' \in [Services -> Entries \cup {NoEntry}] /\ result' \in [Services -> BOOLEAN]
        /\ finished' \in BOOLEAN /\ events' \in Seq(Event)
        /\ pc' = [pc EXCEPT ![w] = "pause"] /\ BusyHasItem'
    BY <2>1, <2>2, EndsTyped
  <2>4. queue' \in [Services -> Seq(Entries)]
    BY <1>4 DEF TypeOK
  <2> QED
    BY <1>4, <2>3, <2>4 DEF PkaDone, RunTypes, MutexStep
<1>5. CASE Idles(rest)
  BY <1>5 DEF Idles, RunTypes, MutexStep, BusyHasItem, TypeOK
<1> QED
  BY <1>1, <1>2, <1>3, <1>4, <1>5 DEF RunService

(* The parts of ecdh2 on either side of the PKA *)
LEMMA EcdhEndsStep ==
    ASSUME TypeOK, BusyHasItem, NEW rest \in Seq(Event), EcdhEnds(rest), UNCHANGED queue
    PROVE  /\ RunTypes /\ BusyHasItem'
           /\ pc' = [pc EXCEPT !["keystore"] = "wait"]
<1>1. events' \in Seq(Event)
  BY InformTyped, PostsTyped DEF EcdhEnds
<1> QED
  BY <1>1 DEF EcdhEnds, RunTypes, BusyHasItem, TypeOK, Services, Processes

LEMMA EcdhAcquiredStep ==
    ASSUME TypeOK, BusyHasItem, NEW rest \in Seq(Event), EcdhAcquired(rest), UNCHANGED queue,
           mutex > 0, pc["keystore"] # "pka"
    PROVE  RunTypes /\ MutexStep("keystore") /\ BusyHasItem'
<1>1. CASE EcdhEnds(rest) /\ mutex' = mutex
  BY <1>1, EcdhEndsStep DEF MutexStep
<1>2. CASE ~(EcdhEnds(rest) /\ mutex' = mutex)
  BY <1>2 DEF EcdhAcquired, RunTypes, MutexStep, BusyHasItem, TypeOK, Services, Processes
<1> QED
  BY <1>1, <1>2

(* A run of the key store's process within ecdh2 *)
LEMMA RunEcdhStep ==
    ASSUME IInv, NEW rest \in Seq(Event), RunEcdh(rest)
    PROVE  RunTypes /\ MutexStep("keystore") /\ BusyHasItem'
<1> USE DEF IInv
<1>1. CASE /\ pc["keystore"] = "mutex" /\ mutex > 0
           /\ EcdhAcquired(rest)
           /\ UNCHANGED queue
  BY <1>1, EcdhAcquiredStep
<1>2. CASE /\ pc["keystore"] = "pka" /\ finished
           /\ EcdhEnds(rest)
           /\ mutex' = mutex + 1
           /\ UNCHANGED queue
  BY <1>2, EcdhEndsStep DEF MutexStep
<1>3. CASE Idles(rest)
  BY <1>3 DEF Idles, RunTypes, MutexStep, BusyHasItem, TypeOK
<1> QED
  BY <1>1, <1>2, <1>3 DEF RunEcdh

(* A run for whatever event keeps the invariant. *)
LEMMA RunKeeps ==
    ASSUME IInv, NEW p \in Processes, NEW rest \in Seq(Event), Run(p, rest),
           UNCHANGED <<scenario, entry>>, polled' \subseteq Processes
    PROVE  IInv'
<1>1. RunTypes /\ MutexStep(p) /\ BusyHasItem'
  <2>1. CASE p \in Services
    BY <2>1, RunServiceStep DEF Run
  <2>2. CASE p \notin Services
    BY <2>2, RunEcdhStep DEF Run, Processes
  <2> QED
    BY <2>1, <2>2
<1>2. MutexHeld' /\ pc' \in [Processes -> {"wait", "pause", "mutex", "pka"}] /\ mutex' \in {0, 1}
  BY <1>1, MutexStepKeeps DEF IInv
<1> QED
  BY <1>1, <1>2 DEF IInv, TypeOK, RunTypes

-----------------------------------------------------------------------------
LEMMA InitIInv == Init => IInv
  BY ScenarioAssumption DEF Init, IInv, TypeOK, MutexHeld, BusyHasItem, Processes, Services

LEMMA QueueMessageIInv ==
    ASSUME IInv, NEW w \in Services, NEW b \in Entries, NEW m \in Messages, QueueMessage(w, b, m)
    PROVE  IInv'
<1>1. m \in Kinds
  BY DEF Messages, Kinds
<1>2. entry' \in [Services -> [Entries -> {"free"} \cup Kinds]]
  BY <1>1 DEF IInv, TypeOK, QueueMessage, QueueMessageWith
<1>3. queue' \in [Services -> Seq(Entries)]
  BY DEF IInv, TypeOK, QueueMessage, QueueMessageWith
<1> QED
  BY <1>2, <1>3 DEF IInv, TypeOK, MutexHeld, BusyHasItem, QueueMessage, QueueMessageWith, Processes

(* A result event names an entry of its service. *)
LEMMA ResultTyped ==
    ASSUME TypeOK, events # <<>>, Head(events).ev = "result"
    PROVE  /\ Head(events).of \in Services /\ Head(events).entry \in Entries
           /\ Tail(events) \in Seq(Event)
<1>1. Head(events) \in Event /\ Tail(events) \in Seq(Event)
  BY DEF TypeOK
<1> QED
  BY <1>1 DEF Event

LEMMA MessageDoneIInv == IInv /\ MessageDone => IInv'
<1> SUFFICES ASSUME IInv, MessageDone PROVE IInv'
  OBVIOUS
<1>1. /\ Head(events).of \in Services /\ Head(events).entry \in Entries
      /\ Tail(events) \in Seq(Event)
  BY ResultTyped DEF IInv, MessageDone
<1>2. entry' \in [Services -> [Entries -> {"free"} \cup Kinds]]
  BY <1>1 DEF IInv, TypeOK, MessageDone, Free
<1> QED
  BY <1>1, <1>2 DEF IInv, TypeOK, MutexHeld, BusyHasItem, MessageDone

LEMMA CertificateVerifiedIInv == IInv /\ CertificateVerified => IInv'
<1> SUFFICES ASSUME IInv, CertificateVerified PROVE IInv'
  OBVIOUS
<1>1. Head(events).entry \in Entries /\ Tail(events) \in Seq(Event)
  BY ResultTyped DEF IInv, CertificateVerified
<1>2. entry' \in [Services -> [Entries -> {"free"} \cup Kinds]]
  BY <1>1 DEF IInv, TypeOK, CertificateVerified, Free, Services
<1>3. RunTypes /\ MutexStep("keystore") /\ BusyHasItem'
  <2>1. CASE mutex > 0
    BY <1>1, <2>1, EcdhAcquiredStep DEF IInv, CertificateVerified
  <2>2. CASE ~(mutex > 0)
    BY <1>1, <2>2 DEF IInv, TypeOK, BusyHasItem, CertificateVerified, Waits, RunTypes, MutexStep,
                      Services, Processes
  <2> QED
    BY <2>1, <2>2
<1>4. MutexHeld' /\ pc' \in [Processes -> {"wait", "pause", "mutex", "pka"}] /\ mutex' \in {0, 1}
  BY <1>3, MutexStepKeeps DEF IInv, Processes
<1> QED
  BY <1>2, <1>3, <1>4 DEF IInv, TypeOK, RunTypes, CertificateVerified

LEMMA NextIInv == IInv /\ [Next]_vars => IInv'
<1> SUFFICES ASSUME IInv, [Next]_vars PROVE IInv'
  OBVIOUS
<1>1. ASSUME NEW p \in Processes, Poll(p) PROVE IInv'
  BY <1>1, RunKeeps DEF Poll, IInv, TypeOK
<1>2. ASSUME NEW p \in Processes, Deliver(p) PROVE IInv'
  BY <1>2, RunKeeps, SeenTyped DEF Deliver, IInv, TypeOK
<1>3. ASSUME PkaInterrupt PROVE IInv'
  BY <1>3 DEF PkaInterrupt, IInv, TypeOK, MutexHeld, BusyHasItem
<1>4. CASE UNCHANGED vars
  BY <1>4 DEF vars, IInv, TypeOK, MutexHeld, BusyHasItem
<1> QED
  BY <1>1, <1>2, <1>3, <1>4, QueueMessageIInv, MessageDoneIInv, CertificateVerifiedIInv DEF Next, System

(* In every reachable state of the services and of the key store's ECDH the   *)
(* crypto processor has at most one user, and its semaphore is free exactly   *)
(* when it has none: no error path of ecc_sign, ecc_verify or ecdh2 keeps it. *)
(* Every variable keeps its type.                                             *)
THEOREM ProcessorExclusive == Spec => []ProcessorExclusion
<1>1. Init => IInv
  BY InitIInv
<1>2. IInv /\ [Next]_vars => IInv'
  BY NextIInv
<1>3. IInv => ProcessorExclusion
  BY DEF IInv, ProcessorExclusion
<1> QED
  BY <1>1, <1>2, <1>3, PTL DEF Spec

-----------------------------------------------------------------------------
(* What follows is about the entries and the events of a run.  The entry that *)
(* a run of service w works on: the next one of its queue, or the one it has  *)
(* been waiting with.                                                        *)
Takes(w, b) ==
    \/ pc[w] = "wait" /\ queue[w] # <<>> /\ b = Head(queue[w]) /\ queue' = [queue EXCEPT ![w] = Tail(@)]
    \/ pc[w] \in {"mutex", "pka"} /\ b = item[w] /\ UNCHANGED queue

Stale == Synchronous /\ HashMayFail     \* a result may be left over

(* A run that works on an entry to its end, or that keeps it for later *)
Finishes(w, rest) ==
    \E b \in Entries, r \in BOOLEAN, rel \in {<<>>, Inform} :
       /\ Takes(w, b)
       /\ Ends(w, b, r, rel, rest)
       /\ r => Stale \/ entry[w][b] = "valid"
       /\ entry[w][b] = "short" \/ rel = Inform
       /\ rel = Inform \/ mutex' = mutex

Holds(w, rest) ==
    \E b \in Entries :
       /\ Takes(w, b)
       /\ item' = [item EXCEPT ![w] = b]
       /\ events' = rest
       /\ \/ pc' = [pc EXCEPT ![w] = "mutex"] /\ mutex = 0 /\ UNCHANGED <<mutex, finished>>
          \/ pc' = [pc EXCEPT ![w] = "pka"] /\ mutex' = mutex - 1 /\ finished' = FALSE

Resumes(w, rest) ==
    /\ pc[w] = "pause"
    /\ pc' = [pc EXCEPT ![w] = "wait"]
    /\ events' = rest
    /\ UNCHANGED <<queue, item, mutex, finished>>

(* After PT_SEM_WAIT the operation ends or is handed to the PKA. *)
LEMMA AcquiredShape ==
    ASSUME IInv, NEW w \in Services, NEW b \in Entries, NEW rest \in Seq(Event),
           mutex > 0, Takes(w, b), Acquired(w, b, rest)
    PROVE  Finishes(w, rest) \/ Holds(w, rest)
<1>1. CASE HashFails(w, b, rest)
  <2> DEFINE r == HashFailure(w)
  <2>1. r \in BOOLEAN /\ (r => Stale)
    BY <1>1 DEF HashFails, HashFailure, IInv, TypeOK, Stale
  <2>2. Ends(w, b, r, Inform, rest) /\ mutex' = mutex
    BY <1>1 DEF HashFails
  <2> QED
    BY <2>1, <2>2 DEF Finishes
<1>2. CASE /\ \E r \in Outcomes(w, b) : Ends(w, b, r, Inform, rest)
           /\ mutex' = mutex
  <2>1. PICK r \in Outcomes(w, b) : Ends(w, b, r, Inform, rest)
    BY <1>2
  <2>2. r \in BOOLEAN /\ (r => entry[w][b] = "valid")
    BY DEF Outcomes
  <2> QED
    BY <1>2, <2>1, <2>2 DEF Finishes
<1>3. CASE /\ mutex' = mutex - 1
           /\ pc' = [pc EXCEPT ![w] = "pka"]
           /\ item' = [item EXCEPT ![w] = b]
           /\ finished' = FALSE
           /\ events' = rest
  BY <1>3 DEF Holds
<1> QED
  BY <1>1, <1>2, <1>3 DEF Acquired

(* A run of a service does one of four things. *)
LEMMA RunServiceShape ==
    ASSUME IInv, NEW w \in Services, NEW rest \in Seq(Event), RunService(w, rest)
    PROVE  \/ Resumes(w, rest)
           \/ Finishes(w, rest)
           \/ Holds(w, rest)
           \/ Idles(rest) /\ ((pc[w] = "wait" /\ queue[w] = <<>>) \/ Blocked(w))
<1>1. CASE Resumes(w, rest)
  BY <1>1
<1>2. CASE /\ pc[w] = "wait" /\ queue[w] # <<>>
           /\ queue' = [queue EXCEPT ![w] = Tail(@)]
           /\ Operate(w, Head(queue[w]), rest)
  <2> DEFINE b == Head(queue[w])
  <2>1. b \in Entries /\ Takes(w, b)
    BY <1>2 DEF IInv, TypeOK, Takes
  <2> HIDE DEF b
  <2>2. CASE entry[w][b] = "short" /\ Ends(w, b, FALSE, <<>>, rest) /\ mutex' = mutex
    BY <2>1, <2>2 DEF Finishes
  <2>3. CASE mutex = 0 /\ item' = [item EXCEPT ![w] = b] /\ Waits(w, rest)
    BY <2>1, <2>3 DEF Holds, Waits
  <2>4. CASE mutex > 0 /\ Acquired(w, b, rest)
    BY <2>1, <2>4, AcquiredShape
  <2> QED
    BY <1>2, <2>2, <2>3, <2>4 DEF Operate, b
<1>3. CASE /\ pc[w] = "mutex" /\ mutex > 0
           /\ Acquired(w, item[w], rest)
           /\ UNCHANGED queue
  <2>1. item[w] \in Entries /\ Takes(w, item[w])
    BY <1>3 DEF IInv, BusyHasItem, Takes
  <2> QED
    BY <1>3, <2>1, AcquiredShape
<1>4. CASE /\ pc[w] = "pka" /\ finished
           /\ PkaDone(w, rest)
           /\ UNCHANGED queue
  <2>1. PICK r \in Outcomes(w, item[w]) : Ends(w, item[w], r, Inform, rest)
    BY <1>4 DEF PkaDone
  <2>2. r \in BOOLEAN /\ (r => entry[w][item[w]] = "valid")
    BY DEF Outcomes
  <2>3. item[w] \in Entries /\ Takes(w, item[w])
    BY <1>4 DEF IInv, BusyHasItem, Takes
  <2> QED
    BY <2>1, <2>2, <2>3 DEF Finishes
<1>5. CASE Idles(rest) /\ ((pc[w] = "wait" /\ queue[w] = <<>>) \/ Blocked(w))
  BY <1>5
<1> QED
  BY <1>1, <1>2, <1>3, <1>4, <1>5 DEF RunService, Resumes

(* What is posted at the end of an operation: of all of it, or of as much of   *)
(* it as there is room for, one event at most is a result.                   *)
LEMMA PostsPrefix ==
    ASSUME NEW s \in Seq(Event), NEW t \in Posts(s)
    PROVE  /\ t \in Seq(Event) /\ Len(t) <= Len(s)
           /\ \A i \in 1..Len(t) : t[i] = s[i]
           /\ ~PostMayFail => t = s
<1>1. CASE t = s
  BY <1>1
<1>2. CASE PostMayFail /\ \E n \in 0..Len(s) : t = SubSeq(s, 1, n)
  <2>1. PICK n \in 0..Len(s) : t = SubSeq(s, 1, n)
    BY <1>2
  <2>2. n \in Nat /\ n <= Len(s) /\ Len(s) \in Nat
    OBVIOUS
  <2>3. t \in Seq(Event) /\ Len(t) = n /\ \A i \in 1..n : t[i] = s[i]
    BY <2>1, <2>2
  <2> QED
    BY <1>2, <2>2, <2>3
<1> QED
  BY <1>1, <1>2 DEF Posts

InformEvent == [ev |-> "released", to |-> ProcessList]
ContinueEvent(w) == [ev |-> "continue", to |-> <<w>>]
ResultEvent(w, b, r) == [ev |-> "result", to |-> <<>>, of |-> w, entry |-> b, good |-> r]

LEMMA EventsTyped ==
    ASSUME NEW w \in Services, NEW b \in Entries, NEW r \in BOOLEAN
    PROVE  InformEvent \in Event /\ ContinueEvent(w) \in Event /\ ResultEvent(w, b, r) \in Event
  BY DEF InformEvent, ContinueEvent, ResultEvent, Event

LEMMA AllPosts ==
    ASSUME NEW w \in Services, NEW b \in Entries, NEW r \in BOOLEAN, NEW rel \in {<<>>, Inform}
    PROVE  LET all == rel \o Result(w, b, r) \o Continue(w)
           IN  /\ all \in Seq(Event) /\ Len(rel) \in 0..1 /\ Len(all) = Len(rel) + 2
               /\ all[Len(rel) + 1] = ResultEvent(w, b, r) /\ all[Len(rel) + 2] = ContinueEvent(w)
               /\ Len(rel) = 1 => all[1] = InformEvent
               /\ rel = Inform => Len(rel) = 1
<1> DEFINE x == Result(w, b, r)
           y == Continue(w)
           first == rel \o x
           all == first \o y
<1>1. x = <<ResultEvent(w, b, r)>> /\ y = <<ContinueEvent(w)>> /\ Inform = <<InformEvent>>
  BY DEF Inform, Result, Continue, InformEvent, ContinueEvent, ResultEvent
<1>2. /\ x \in Seq(Event) /\ Len(x) = 1 /\ x[1] = ResultEvent(w, b, r)
      /\ y \in Seq(Event) /\ Len(y) = 1 /\ y[1] = ContinueEvent(w)
  <2>1. ResultEvent(w, b, r) \in Event /\ ContinueEvent(w) \in Event
    BY EventsTyped
  <2> QED
    BY <1>1, <2>1
<1>3. /\ rel \in Seq(Event) /\ Len(rel) \in 0..1 /\ (Len(rel) = 1 => rel[1] = InformEvent)
      /\ (rel = Inform => Len(rel) = 1)
  <2>1. <<InformEvent>> \in Seq(Event) /\ Len(<<InformEvent>>) = 1 /\ <<InformEvent>>[1] = InformEvent
    BY EventsTyped
  <2>2. <<>> \in Seq(Event) /\ Len(<<>>) = 0
    OBVIOUS
  <2>3. CASE rel = Inform
    BY <1>1, <2>1, <2>3
  <2>4. CASE rel = <<>> /\ rel # Inform
    BY <2>2, <2>4
  <2> QED
    BY <2>3, <2>4
<1> HIDE DEF x, y
<1>4. /\ first \in Seq(Event) /\ Len(first) = Len(rel) + 1
      /\ \A i \in 1..(Len(rel) + 1) : first[i] = IF i <= Len(rel) THEN rel[i] ELSE x[i - Len(rel)]
  BY <1>2, <1>3, ConcatProperties
<1> HIDE DEF first
<1>5. /\ all \in Seq(Event) /\ Len(all) = Len(rel) + 2
      /\ \A i \in 1..(Len(rel) + 2) : all[i] = IF i <= Len(rel) + 1 THEN first[i] ELSE y[i - (Len(rel) + 1)]
  <2>1. /\ all \in Seq(Event) /\ Len(all) = Len(first) + Len(y)
        /\ \A i \in 1..(Len(first) + Len(y)) : all[i] = IF i <= Len(first) THEN first[i] ELSE y[i - Len(first)]
    BY <1>2, <1>4, ConcatProperties
  <2>2. Len(first) + Len(y) = Len(rel) + 2
    BY <1>2, <1>3, <1>4
  <2> HIDE DEF all
  <2> QED
    BY <1>4, <2>1, <2>2
<1> HIDE DEF all
<1>6. all[Len(rel) + 1] = ResultEvent(w, b, r) /\ all[Len(rel) + 2] = ContinueEvent(w)
  BY <1>2, <1>3, <1>4, <1>5
<1>7. Len(rel) = 1 => all[1] = InformEvent
  BY <1>3, <1>4, <1>5
<1> QED
  BY <1>3, <1>5, <1>6, <1>7 DEF all, first, x, y

(* The queue after the end of an operation: what was in it, and then one        *)
(* result at most.  If no post fails the service will be called to go on, and   *)
(* everybody is told if the processor has become free.                         *)
LEMMA EndsEvents ==
    ASSUME NEW w \in Services, NEW b \in Entries, NEW r \in BOOLEAN, NEW rel \in {<<>>, Inform},
           NEW rest \in Seq(Event), Ends(w, b, r, rel, rest)
    PROVE  /\ events' \in Seq(Event) /\ Len(rest) <= Len(events')
           /\ \A i \in 1..Len(rest) : events'[i] = rest[i]
           /\ \A i \in 1..Len(events') : i > Len(rest) /\ events'[i].ev = "result" =>
                 i = Len(rest) + Len(rel) + 1 /\ events'[i] = ResultEvent(w, b, r)
           /\ ~PostMayFail => \E i \in 1..Len(events') : i > Len(rest) /\ events'[i].ev = "result"
           /\ ~PostMayFail /\ rel = Inform =>
                 /\ Len(events') = Len(rest) + 3
                 /\ events'[Len(rest) + 1] = InformEvent
                 /\ events'[Len(rest) + 2] = ResultEvent(w, b, r)
                 /\ events'[Len(rest) + 3] = ContinueEvent(w)
<1> DEFINE all == rel \o Result(w, b, r) \o Continue(w)
<1>1. PICK s \in Posts(all) : events' = rest \o s
  BY DEF Ends
<1>2. /\ all \in Seq(Event) /\ Len(rel) \in 0..1 /\ Len(all) = Len(rel) + 2
      /\ all[Len(rel) + 1] = ResultEvent(w, b, r) /\ all[Len(rel) + 2] = ContinueEvent(w)
      /\ Len(rel) = 1 => all[1] = InformEvent
      /\ rel = Inform => Len(rel) = 1
  BY AllPosts
<1> HIDE DEF all
<1>3. /\ s \in Seq(Event) /\ Len(s) <= Len(all)
      /\ \A i \in 1..Len(s) : s[i] = all[i]
      /\ ~PostMayFail => s = all
  BY <1>1, <1>2, PostsPrefix
<1>4. Len(s) \in Nat /\ Len(rest) \in Nat /\ Len(rel) \in Nat
  BY <1>2, <1>3, LenProperties
<1>5. /\ events' \in Seq(Event) /\ Len(events') = Len(rest) + Len(s)
      /\ \A i \in 1..(Len(rest) + Len(s)) : events'[i] = IF i <= Len(rest) THEN rest[i] ELSE s[i - Len(rest)]
  BY <1>1, <1>3, ConcatProperties
<1>6. Len(rest) <= Len(events') /\ \A i \in 1..Len(rest) : events'[i] = rest[i]
  BY <1>4, <1>5
<1>7. ASSUME NEW i \in 1..Len(events'), i > Len(rest), events'[i].ev = "result"
      PROVE  i = Len(rest) + Len(rel) + 1 /\ events'[i] = ResultEvent(w, b, r)
  <2> DEFINE k == i - Len(rest)
  <2>1. k \in 1..Len(s) /\ k <= Len(rel) + 2 /\ k \in Nat /\ i \in Nat
    BY <1>2, <1>3, <1>4, <1>5, <1>7
  <2>2. events'[i] = all[k]
    <3>1. i \in 1..(Len(rest) + Len(s)) /\ ~(i <= Len(rest))
      BY <1>4, <1>5, <1>7
    <3>2. events'[i] = s[k]
      BY <1>5, <3>1
    <3> QED
      BY <1>3, <2>1, <3>2
  <2> HIDE DEF k
  <2>3. k # Len(rel) + 2
    BY <1>2, <1>7, <2>2 DEF ContinueEvent
  <2>4. Len(rel) = 1 => k # 1
    BY <1>2, <1>7, <2>2 DEF InformEvent
  <2>5. k = Len(rel) + 1
    <3>1. Len(rel) = 0 \/ Len(rel) = 1
      BY <1>2
    <3>2. k \in Nat /\ k >= 1 /\ k <= Len(rel) + 2
      BY <1>4, <1>3, <2>1
    <3>3. CASE Len(rel) = 0
      <4>1. k # 2 /\ k <= 2
        BY <2>3, <3>2, <3>3
      <4> QED
        BY <3>2, <3>3, <4>1
    <3>4. CASE Len(rel) = 1
      <4>1. k # 3 /\ k # 1 /\ k <= 3
        BY <2>3, <2>4, <3>2, <3>4
      <4> QED
        BY <3>2, <3>4, <4>1
    <3> QED
      BY <3>1, <3>3, <3>4
  <2> QED
    BY <1>2, <1>4, <2>1, <2>2, <2>5 DEF k
<1>8. ASSUME ~PostMayFail, rel = Inform
      PROVE  /\ Len(events') = Len(rest) + 3
             /\ events'[Len(rest) + 1] = InformEvent
             /\ events'[Len(rest) + 2] = ResultEvent(w, b, r)
             /\ events'[Len(rest) + 3] = ContinueEvent(w)
  <2>1. /\ Len(rel) = 1 /\ Len(s) = 3
        /\ s[1] = InformEvent /\ s[2] = ResultEvent(w, b, r) /\ s[3] = ContinueEvent(w)
    <3>1. Len(rel) = 1 /\ s = all
      BY <1>2, <1>3, <1>8
    <3>2. Len(rel) + 1 = 2 /\ Len(rel) + 2 = 3
      BY <3>1
    <3> QED
      BY <1>2, <3>1, <3>2
  <2>2. Len(events') = Len(rest) + 3
    BY <1>5, <2>1
  <2>3. ASSUME NEW k \in 1..3 PROVE events'[Len(rest) + k] = s[k]
    <3>1. Len(rest) + k \in 1..(Len(rest) + Len(s)) /\ ~(Len(rest) + k <= Len(rest)) /\ Len(rest) + k - Len(rest) = k
      BY <1>4, <2>1
    <3> QED
      BY <1>5, <3>1
  <2> QED
    BY <2>1, <2>2, <2>3
<1>9. ASSUME ~PostMayFail
      PROVE  \E i \in 1..Len(events') : i > Len(rest) /\ events'[i].ev = "result"
  <2> DEFINE k == Len(rest) + Len(rel) + 1
  <2>1. /\ k \in 1..(Len(rest) + Len(s)) /\ k > Len(rest) /\ ~(k <= Len(rest))
        /\ k - Len(rest) = Len(rel) + 1
    BY <1>2, <1>3, <1>4, <1>9
  <2>2. events'[k] = ResultEvent(w, b, r)
    BY <1>2, <1>3, <1>5, <1>9, <2>1
  <2> QED
    BY <1>5, <2>1, <2>2 DEF ResultEvent
<1> QED
  BY <1>5, <1>6, <1>7, <1>8, <1>9

(* Event i of queue s is on its way to process p. *)
Calls(s, p, i) == i \in 1..Len(s) /\ \E j \in DOMAIN s[i].to : s[i].to[j] = p

(* rest is what is left of the event queue once process p has been given its    *)
(* first event, or once it has been polled.                                  *)
Follows(rest, d, p) ==
    /\ rest \in Seq(Event)
    /\ \A i \in 1..Len(rest) : /\ i + d \in 1..Len(events)
                               /\ rest[i].ev = "result" => events[i + d] = rest[i]
    /\ \A q \in Processes, i \in 1..Len(events) : Calls(events, q, i) /\ (q # p \/ i # 1) => Calls(rest, q, i - d)

LEMMA EventsFollow == ASSUME TypeOK, NEW p PROVE Follows(events, 0, p)
<1>1. Len(events) \in Nat
  BY LenProperties DEF TypeOK
<1>2. \A i \in 1..Len(events) : i + 0 = i /\ i - 0 = i
  BY <1>1
<1> QED
  BY <1>2 DEF TypeOK, Follows

LEMMA TailProperties ==
    ASSUME TypeOK, events # <<>>
    PROVE  /\ Head(events) = events[1] /\ events[1] \in Event /\ Len(events) \in Nat /\ Len(events) >= 1
           /\ Tail(events) \in Seq(Event) /\ Len(Tail(events)) = Len(events) - 1
           /\ \A i \in 1..(Len(events) - 1) : Tail(events)[i] = events[i + 1]
<1>1. events \in Seq(Event) /\ Len(events) \in Nat /\ Len(events) >= 1
  BY LenProperties DEF TypeOK
<1>2. /\ Head(events) = events[1] /\ Tail(events) \in Seq(Event) /\ Len(Tail(events)) = Len(events) - 1
      /\ \A i \in 1..Len(Tail(events)) : Tail(events)[i] = events[i + 1]
  BY <1>1, HeadTailProperties
<1>3. events[1] \in Event
  BY <1>1
<1> QED
  BY <1>1, <1>2, <1>3

(* Without its first event, if nobody but p was to get it *)
LEMMA TailFollows ==
    ASSUME TypeOK, events # <<>>, NEW p, \A q \in Processes : Calls(events, q, 1) => q = p
    PROVE  Follows(Tail(events), 1, p)
<1> DEFINE t == Tail(events)
<1>1. /\ t \in Seq(Event) /\ Len(t) = Len(events) - 1 /\ Len(events) \in Nat /\ Len(events) >= 1
      /\ \A i \in 1..(Len(events) - 1) : t[i] = events[i + 1]
  BY TailProperties
<1> HIDE DEF t
<1>2. \A i \in 1..Len(t) : i + 1 \in 1..Len(events) /\ (t[i].ev = "result" => events[i + 1] = t[i])
  BY <1>1
<1>3. ASSUME NEW q \in Processes, NEW i \in 1..Len(events), Calls(events, q, i), q # p \/ i # 1
      PROVE  Calls(t, q, i - 1)
  <2>1. i # 1
    BY <1>3
  <2>2. i - 1 \in 1..Len(t) /\ i - 1 \in 1..(Len(events) - 1) /\ i - 1 + 1 = i
    BY <1>1, <2>1
  <2>3. t[i - 1] = events[i]
    BY <1>1, <2>2
  <2> QED
    BY <1>3, <2>2, <2>3 DEF Calls
<1> QED
  BY <1>1, <1>2, <1>3 DEF Follows, t

(* The event at the head is a result, or to be given to somebody. *)
LEMMA HeadKinds ==
    ASSUME TypeOK, events # <<>>
    PROVE  \/ events[1].ev = "result" /\ events[1].to = <<>>
           \/ events[1].ev = "continue" /\ \E w \in Services : events[1].to = <<w>>
           \/ events[1].ev = "released" /\ events[1].to \in {ProcessList, <<"signer", "keystore">>, <<"keystore">>}
<1>1. events[1] \in Event
  BY TailProperties
<1> QED
  BY <1>1 DEF Event

LEMMA ResultTail ==
    ASSUME TypeOK, events # <<>>, Head(events).ev = "result"
    PROVE  Follows(Tail(events), 1, "nobody")
<1>1. events[1].to = <<>>
  BY HeadKinds, TailProperties
<1>2. \A q : ~Calls(events, q, 1)
  BY <1>1 DEF Calls
<1> QED
  BY <1>2, TailFollows

(* What is left after a delivery *)
LEMMA SeenFollows ==
    ASSUME TypeOK, events # <<>>, NEW p \in Processes, Head(events).to # <<>>, p = Head(Head(events).to)
    PROVE  /\ \E d \in {0, 1} : Follows(Seen, d, p)
           /\ Head(events).ev # "result"
           /\ \/ Seen = Tail(events)
              \/ \E x \in Event : x.ev # "result" /\ Seen = <<x>> \o Tail(events)
<1> DEFINE h == Head(events)
           g == [h EXCEPT !.to = Tail(@)]
<1>1. /\ h = events[1] /\ h \in Event /\ Tail(events) \in Seq(Event)
      /\ \/ h.ev = "continue" /\ \E w \in Services : h.to = <<w>>
         \/ h.ev = "released" /\ h.to \in {ProcessList, <<"signer", "keystore">>, <<"keystore">>}
  BY HeadKinds, TailProperties
<1>2. CASE Len(h.to) = 1
  <2>1. \E q : h.to = <<q>>
    <3>1. Len(ProcessList) = 3 /\ Len(<<"signer", "keystore">>) = 2
      BY DEF ProcessList
    <3>2. h.to # ProcessList /\ h.to # <<"signer", "keystore">>
      BY <1>2, <3>1
    <3>3. CASE \E w \in Services : h.to = <<w>>
      BY <3>3
    <3>4. CASE h.to = <<"keystore">>
      BY <3>4
    <3> QED
      BY <1>1, <3>2, <3>3, <3>4
  <2>2. h.to = <<p>>
    BY <2>1
  <2>3. \A q \in Processes : Calls(events, q, 1) => q = p
    BY <1>1, <2>2 DEF Calls
  <2>4. Seen = Tail(events)
    BY <1>2 DEF Seen
  <2> QED
    BY <1>1, <2>3, <2>4, TailFollows
<1>3. CASE Len(h.to) # 1
  <2>1. h.ev = "released" /\ h \in [ev : {"released"}, to : {ProcessList, <<"signer", "keystore">>, <<"keystore">>}]
        /\ h.to \in {ProcessList, <<"signer", "keystore">>}
    <3>1. \A w : Len(<<w>>) = 1
      OBVIOUS
    <3>2. h.ev = "released" /\ h.to \in {ProcessList, <<"signer", "keystore">>}
      BY <1>1, <1>3, <3>1
    <3> QED
      BY <1>1, <3>2 DEF Event
  <2>2. g \in Event /\ g.ev = "released" /\ g.to = Tail(h.to)
    <3>1. Tail(ProcessList) = <<"signer", "keystore">> /\ Tail(<<"signer", "keystore">>) = <<"keystore">>
      BY DEF ProcessList
    <3>2. Tail(h.to) \in {<<"signer", "keystore">>, <<"keystore">>}
      BY <2>1, <3>1
    <3>3. g.ev = "released" /\ g.to = Tail(h.to)
      BY <2>1
    <3> QED
      BY <2>1, <3>2, <3>3 DEF Event
  <2>3. ASSUME NEW q, q # p, \E j \in DOMAIN h.to : h.to[j] = q
        PROVE  \E j \in DOMAIN g.to : g.to[j] = q
    <3>0. p = Head(h.to)
      OBVIOUS
    <3> HIDE DEF g, h
    <3>1. CASE h.to = ProcessList
      <4>1. g.to = <<"signer", "keystore">> /\ p = "verifier"
        BY <2>2, <3>0, <3>1 DEF ProcessList
      <4>2. q \in {"signer", "keystore"}
        BY <2>3, <3>1, <4>1 DEF ProcessList
      <4>3. DOMAIN <<"signer", "keystore">> = {1, 2}
            /\ <<"signer", "keystore">>[1] = "signer" /\ <<"signer", "keystore">>[2] = "keystore"
        OBVIOUS
      <4> QED
        BY <4>1, <4>2, <4>3
    <3>2. CASE h.to = <<"signer", "keystore">>
      <4>1. g.to = <<"keystore">> /\ p = "signer"
        BY <2>2, <3>0, <3>2
      <4>2. q = "keystore"
        BY <2>3, <3>2, <4>1
      <4>3. DOMAIN <<"keystore">> = {1} /\ <<"keystore">>[1] = "keystore"
        OBVIOUS
      <4> QED
        BY <4>1, <4>2, <4>3
    <3> QED
      BY <2>1, <3>1, <3>2
  <2>4. Seen = <<g>> \o Tail(events)
    BY <1>3 DEF Seen
  <2> HIDE DEF g
  <2>5. /\ Seen \in Seq(Event) /\ Len(Seen) = Len(events) /\ Seen[1] = g
        /\ \A i \in 2..Len(events) : Seen[i] = events[i]
    <3> DEFINE t == Tail(events)
    <3>1. /\ t \in Seq(Event) /\ Len(t) = Len(events) - 1 /\ Len(events) \in Nat /\ Len(events) >= 1
          /\ \A i \in 1..(Len(events) - 1) : t[i] = events[i + 1]
      BY TailProperties
    <3>2. <<g>> \in Seq(Event) /\ Len(<<g>>) = 1 /\ <<g>>[1] = g
      BY <2>2
    <3> HIDE DEF t
    <3>3. /\ <<g>> \o t \in Seq(Event) /\ Len(<<g>> \o t) = Len(<<g>>) + Len(t)
          /\ \A i \in 1..(Len(<<g>>) + Len(t)) :
                (<<g>> \o t)[i] = IF i <= Len(<<g>>) THEN <<g>>[i] ELSE t[i - Len(<<g>>)]
      BY <3>1, <3>2, ConcatProperties
    <3>4. Len(<<g>>) + Len(t) = Len(events)
      BY <3>1, <3>2
    <3>5. Seen \in Seq(Event) /\ Len(Seen) = Len(events)
          /\ \A i \in 1..Len(events) : Seen[i] = IF i <= 1 THEN <<g>>[i] ELSE t[i - 1]
      BY <2>4, <3>2, <3>3, <3>4 DEF t
    <3>6. ASSUME NEW i \in 2..Len(events) PROVE Seen[i] = events[i]
      <4>1. i \in 1..Len(events) /\ ~(i <= 1) /\ i - 1 \in 1..(Len(events) - 1) /\ i - 1 + 1 = i
        BY <3>1
      <4> QED
        BY <3>1, <3>5, <4>1
    <3> QED
      BY <3>1, <3>2, <3>5, <3>6
  <2>6. Follows(Seen, 0, p)
    <3>0. Len(events) \in Nat
      BY TailProperties
    <3>1. \A i \in 1..Len(Seen) : i = 1 \/ i \in 2..Len(events)
      BY <2>5, <3>0
    <3>2. \A i \in 1..Len(Seen) : i + 0 \in 1..Len(events) /\ (Seen[i].ev = "result" => events[i + 0] = Seen[i])
      BY <2>2, <2>5, <3>0, <3>1
    <3>3. ASSUME NEW q \in Processes, NEW i \in 1..Len(events), Calls(events, q, i), q # p \/ i # 1
          PROVE  Calls(Seen, q, i - 0)
      <4>1. i - 0 = i /\ i \in 1..Len(Seen)
        BY <2>5, <3>0
      <4>2. CASE i = 1
        BY <1>1, <2>3, <2>5, <3>3, <4>1, <4>2 DEF Calls
      <4>3. CASE i # 1
        BY <2>5, <3>1, <3>3, <4>1, <4>3 DEF Calls
      <4> QED
        BY <4>2, <4>3
    <3> QED
      BY <2>5, <3>2, <3>3 DEF Follows
  <2> QED
    BY <1>1, <2>2, <2>4, <2>6
<1> QED
  BY <1>2, <1>3

-----------------------------------------------------------------------------
(* A process that has something to do will run.  One that has ended an          *)
(* operation needs two calls, as the first one only ends its pause.          *)
NoneLost == {"short", "post"} \cap scenario = {}

WillRun(p) == p \in polled \/ \E i : Calls(events, p, i)

Awake(p) ==
    /\ p \in Services /\ pc[p] = "wait" /\ queue[p] # <<>> => WillRun(p)
    /\ pc[p] = "mutex" /\ mutex > 0 => WillRun(p)
    /\ pc[p] = "pka" /\ finished => WillRun(p)
    /\ pc[p] = "pause" => \E i, k : i # k /\ Calls(events, p, i) /\ Calls(events, p, k)

WakeInv ==
    /\ \A w \in Services, b \in Entries : entry[w][b] = "short" => "short" \in scenario
    /\ NoneLost => \A p \in Processes : Awake(p)

(* What a run of p does to the others: it keeps the events on their way to them, *)
(* and if it frees the processor it calls them all.                          *)
Spares(p, rest) ==
    /\ \A q \in Processes \ {p} : pc'[q] = pc[q] /\ (q \in Services => queue'[q] = queue[q])
    /\ \A q \in Processes : \A i : Calls(rest, q, i) => Calls(events, q, i)'
    /\ mutex' > 0 => mutex > 0 \/ \A q \in Processes : \E i : Calls(events, q, i)'
    /\ finished' => finished

LEMMA InformCalls ==
    ASSUME NEW s \in Seq(Event), NEW i \in 1..Len(s), s[i] = InformEvent, NEW p \in Processes
    PROVE  Calls(s, p, i)
<1>1. s[i].to = ProcessList
  BY DEF InformEvent
<1>2. \E j \in DOMAIN ProcessList : ProcessList[j] = p
  <2>1. DOMAIN ProcessList = {1, 2, 3} /\ ProcessList[1] = "verifier" /\ ProcessList[2] = "signer"
        /\ ProcessList[3] = "keystore"
    BY DEF ProcessList
  <2> QED
    BY <2>1 DEF Processes, Services
<1> QED
  BY <1>1, <1>2 DEF Calls

LEMMA ContinueCalls ==
    ASSUME NEW s \in Seq(Event), NEW i \in 1..Len(s), NEW w \in Services, s[i] = ContinueEvent(w)
    PROVE  Calls(s, w, i)
<1>1. s[i].to = <<w>> /\ 1 \in DOMAIN <<w>> /\ <<w>>[1] = w
  BY DEF ContinueEvent
<1> QED
  BY <1>1 DEF Calls

(* A run that leaves the events of the others alone spares them, and one that  *)
(* frees the processor does.                                                  *)
LEMMA FinishesSpares ==
    ASSUME IInv, WakeInv, NoneLost, NEW w \in Services, NEW rest \in Seq(Event), Finishes(w, rest)
    PROVE  Spares(w, rest) /\ Awake(w)'
<1>1. PICK b \in Entries, r \in BOOLEAN, rel \in {<<>>, Inform} :
         /\ Takes(w, b)
         /\ Ends(w, b, r, rel, rest)
         /\ entry[w][b] = "short" \/ rel = Inform
  BY DEF Finishes
<1>2. rel = Inform /\ ~PostMayFail
  BY <1>1 DEF WakeInv, NoneLost, PostMayFail
<1>3. /\ pc' = [pc EXCEPT ![w] = "pause"] /\ finished' = finished
      /\ pc \in [Processes -> {"wait", "pause", "mutex", "pka"}] /\ queue \in [Services -> Seq(Entries)]
  BY <1>1 DEF Ends, IInv, TypeOK
<1>4. /\ events' \in Seq(Event) /\ Len(rest) \in Nat /\ Len(events') = Len(rest) + 3
      /\ \A i \in 1..Len(rest) : events'[i] = rest[i]
      /\ events'[Len(rest) + 1] = InformEvent
      /\ events'[Len(rest) + 3] = ContinueEvent(w)
  <2>1. Len(rest) \in Nat
    BY LenProperties
  <2> QED
    BY <1>1, <1>2, <2>1, EndsEvents
<1>5. Len(rest) + 1 \in 1..Len(events') /\ Len(rest) + 3 \in 1..Len(events') /\ Len(rest) + 1 # Len(rest) + 3
  BY <1>4
<1>6. \A q \in Processes : Calls(events', q, Len(rest) + 1)
  BY <1>4, <1>5, InformCalls
<1>7. Calls(events', w, Len(rest) + 3)
  BY <1>4, <1>5, ContinueCalls
<1>8. w \in Processes /\ pc'[w] = "pause"
  BY <1>3 DEF Processes
<1>9. Awake(w)'
  BY <1>5, <1>6, <1>7, <1>8 DEF Awake
<1>10. \A q \in Processes : \A i : Calls(rest, q, i) => Calls(events', q, i)
  <2>1. \A i \in 1..Len(rest) : i \in 1..Len(events')
    BY <1>4
  <2> QED
    BY <1>4, <2>1 DEF Calls
<1>11. \A q \in Processes \ {w} : pc'[q] = pc[q] /\ (q \in Services => queue'[q] = queue[q])
  BY <1>1, <1>3 DEF Takes
<1> QED
  BY <1>3, <1>6, <1>9, <1>10, <1>11 DEF Spares

LEMMA HoldsSpares ==
    ASSUME IInv, NEW w \in Services, NEW rest \in Seq(Event), Holds(w, rest)
    PROVE  Spares(w, rest) /\ Awake(w)'
<1>1. /\ events' = rest /\ w \in Processes
      /\ \/ pc' = [pc EXCEPT ![w] = "mutex"] /\ mutex = 0 /\ UNCHANGED <<mutex, finished>>
         \/ pc' = [pc EXCEPT ![w] = "pka"] /\ mutex' = mutex - 1 /\ finished' = FALSE
  BY DEF Holds, Processes
<1>2. mutex \in {0, 1} /\ pc \in [Processes -> {"wait", "pause", "mutex", "pka"}]
  BY DEF IInv, TypeOK
<1>3. \A q \in Processes \ {w} : pc'[q] = pc[q] /\ (q \in Services => queue'[q] = queue[q])
  BY <1>1, <1>2 DEF Holds, Takes, IInv, TypeOK
<1>4. Awake(w)'
  BY <1>1, <1>2 DEF Awake
<1> QED
  BY <1>1, <1>2, <1>3, <1>4 DEF Spares

(* At the end of a pause the second call remains. *)
LEMMA ResumesSpares ==
    ASSUME IInv, WakeInv, NoneLost, NEW w \in Services, NEW rest \in Seq(Event), NEW d, Follows(rest, d, w),
           Resumes(w, rest)
    PROVE  Spares(w, rest) /\ Awake(w)'
<1>1. /\ events' = rest /\ w \in Processes /\ pc' = [pc EXCEPT ![w] = "wait"]
      /\ UNCHANGED <<queue, mutex, finished>>
      /\ pc \in [Processes -> {"wait", "pause", "mutex", "pka"}]
  BY DEF Resumes, Processes, IInv, TypeOK
<1>2. \E i : Calls(rest, w, i)
  <2>1. PICK i, k : i # k /\ Calls(events, w, i) /\ Calls(events, w, k)
    BY <1>1 DEF WakeInv, Awake, Resumes
  <2>2. PICK j \in {i, k} : j # 1 /\ Calls(events, w, j)
    BY <2>1
  <2> QED
    BY <1>1, <2>2 DEF Follows, Calls
<1>3. Awake(w)'
  BY <1>1, <1>2 DEF Awake, WillRun
<1> QED
  BY <1>1, <1>3 DEF Spares

LEMMA IdlesSpares ==
    ASSUME NEW p \in Processes, NEW rest \in Seq(Event), Idles(rest),
           (pc[p] = "wait" /\ (p \in Services => queue[p] = <<>>)) \/ Blocked(p)
    PROVE  Spares(p, rest) /\ Awake(p)'
<1>1. events' = rest /\ UNCHANGED <<queue, pc, mutex, finished>>
  BY DEF Idles
<1>2. Awake(p)'
  BY <1>1 DEF Awake, Blocked
<1> QED
  BY <1>1, <1>2 DEF Spares

LEMMA EcdhEndsSpares ==
    ASSUME IInv, NoneLost, NEW rest \in Seq(Event), EcdhEnds(rest), UNCHANGED queue
    PROVE  Spares("keystore", rest) /\ Awake("keystore")'
<1>1. /\ events' = rest \o Inform /\ pc' = [pc EXCEPT !["keystore"] = "wait"] /\ finished' = finished
      /\ pc \in [Processes -> {"wait", "pause", "mutex", "pka"}]
  BY DEF EcdhEnds, Posts, NoneLost, PostMayFail, IInv, TypeOK
<1>2. /\ events' \in Seq(Event) /\ Len(rest) \in Nat /\ Len(events') = Len(rest) + 1
      /\ \A i \in 1..Len(rest) : events'[i] = rest[i]
      /\ events'[Len(rest) + 1] = InformEvent
  <2>1. Inform = <<InformEvent>> /\ Inform \in Seq(Event)
    BY InformTyped DEF Inform, InformEvent
  <2>2. Len(Inform) = 1 /\ Inform[1] = InformEvent /\ Len(rest) \in Nat
    BY <2>1, LenProperties
  <2>3. /\ events' \in Seq(Event) /\ Len(events') = Len(rest) + Len(Inform)
        /\ \A i \in 1..(Len(rest) + Len(Inform)) :
              events'[i] = IF i <= Len(rest) THEN rest[i] ELSE Inform[i - Len(rest)]
    BY <1>1, <2>1, ConcatProperties
  <2> QED
    BY <2>2, <2>3
<1>3. Len(rest) + 1 \in 1..Len(events')
  BY <1>2
<1>4. \A q \in Processes : Calls(events', q, Len(rest) + 1)
  BY <1>2, <1>3, InformCalls
<1>5. \A q \in Processes : \A i : Calls(rest, q, i) => Calls(events', q, i)
  <2>1. \A i \in 1..Len(rest) : i \in 1..Len(events')
    BY <1>2
  <2> QED
    BY <1>2, <2>1 DEF Calls
<1>6. Awake("keystore")'
  <2>1. pc'["keystore"] = "wait" /\ "keystore" \notin Services
    BY <1>1 DEF Processes, Services
  <2> QED
    BY <2>1 DEF Awake
<1> QED
  BY <1>1, <1>4, <1>5, <1>6 DEF Spares

LEMMA EcdhAcquiredSpares ==
    ASSUME IInv, NoneLost, NEW rest \in Seq(Event), EcdhAcquired(rest), UNCHANGED queue
    PROVE  Spares("keystore", rest) /\ Awake("keystore")'
<1>1. CASE EcdhEnds(rest)
  BY <1>1, EcdhEndsSpares
<1>2. CASE /\ mutex' = mutex - 1
           /\ pc' = [pc EXCEPT !["keystore"] = "pka"]
           /\ finished' = FALSE
           /\ events' = rest
  <2>1. /\ mutex \in {0, 1} /\ pc \in [Processes -> {"wait", "pause", "mutex", "pka"}]
        /\ "keystore" \in Processes /\ "keystore" \notin Services
    BY DEF IInv, TypeOK, Processes, Services
  <2>2. Awake("keystore")'
    BY <1>2, <2>1 DEF Awake
  <2> QED
    BY <1>2, <2>1, <2>2 DEF Spares
<1> QED
  BY <1>1, <1>2 DEF EcdhAcquired

(* A run of p spares the others and leaves p with a call if it needs one. *)
LEMMA RunSpares ==
    ASSUME IInv, WakeInv, NoneLost, NEW p \in Processes, NEW rest \in Seq(Event), NEW d, Follows(rest, d, p),
           Run(p, rest)
    PROVE  Spares(p, rest) /\ Awake(p)'
<1>1. CASE p \in Services
  <2>1. RunService(p, rest)
    BY <1>1 DEF Run
  <2> QED
    BY <1>1, <2>1, RunServiceShape, ResumesSpares, FinishesSpares, HoldsSpares, IdlesSpares
<1>2. CASE p \notin Services
  <2>1. p = "keystore" /\ RunEcdh(rest)
    BY <1>2 DEF Run, Processes
  <2>2. CASE EcdhAcquired(rest) /\ UNCHANGED queue
    BY <2>1, <2>2, EcdhAcquiredSpares
  <2>3. CASE EcdhEnds(rest) /\ UNCHANGED queue
    BY <2>1, <2>3, EcdhEndsSpares
  <2>4. CASE Idles(rest) /\ (pc["keystore"] = "wait" \/ Blocked("keystore"))
    BY <1>2, <2>1, <2>4, IdlesSpares
  <2> QED
    BY <2>1, <2>2, <2>3, <2>4 DEF RunEcdh
<1> QED
  BY <1>1, <1>2

(* Then the step keeps every process awake. *)
LEMMA SparesWake ==
    ASSUME IInv, WakeInv, NoneLost, NEW p, NEW rest, NEW d, Follows(rest, d, p), d \in {0, 1}, Spares(p, rest),
           \A q \in Processes \ {p} : q \in polled => q \in polled',
           p \in Processes => Awake(p)'
    PROVE  \A q \in Processes : Awake(q)'
<1> SUFFICES ASSUME NEW q \in Processes, q # p PROVE Awake(q)'
  OBVIOUS
<1>1. pc'[q] = pc[q] /\ (q \in Services => queue'[q] = queue[q])
  BY DEF Spares
<1>2. \A i : Calls(events, q, i) => Calls(events', q, i - d)
  <2>1. \A i : Calls(events, q, i) => i \in 1..Len(events)
    BY DEF Calls
  <2> QED
    BY <2>1 DEF Follows, Spares
<1>3. WillRun(q) => WillRun(q)'
  BY <1>2 DEF WillRun
<1>4. (\E i : Calls(events', q, i)) => WillRun(q)'
  BY DEF WillRun
<1>5. mutex' > 0 => mutex > 0 \/ WillRun(q)'
  BY <1>4 DEF Spares
<1>6. (\E i, k : i # k /\ Calls(events, q, i) /\ Calls(events, q, k))
         => \E i, k : i # k /\ Calls(events', q, i) /\ Calls(events', q, k)
  <2> SUFFICES ASSUME NEW i, NEW k, i # k, Calls(events, q, i), Calls(events, q, k)
               PROVE  i - d # k - d
    BY <1>2
  <2>1. i \in Int /\ k \in Int
    BY DEF Calls
  <2> QED
    BY <2>1
<1>7. Awake(q)
  BY DEF WakeInv
<1>8. finished' => finished
  BY DEF Spares
<1> QED
  BY <1>1, <1>3, <1>5, <1>6, <1>7, <1>8 DEF Awake

LEMMA RunWakeInv ==
    ASSUME IInv, WakeInv, NEW p \in Processes, NEW rest \in Seq(Event), NEW d \in {0, 1}, Follows(rest, d, p),
           Run(p, rest), UNCHANGED <<scenario, entry>>,
           \A q \in Processes \ {p} : q \in polled => q \in polled'
    PROVE  WakeInv'
<1>1. NoneLost' <=> NoneLost
  BY DEF NoneLost
<1>2. ASSUME NoneLost PROVE \A q \in Processes : Awake(q)'
  <2>1. Spares(p, rest) /\ Awake(p)'
    BY <1>2, RunSpares
  <2> QED
    BY <1>2, <2>1, SparesWake
<1>3. \A w \in Services, b \in Entries : entry'[w][b] = "short" => "short" \in scenario'
  BY DEF WakeInv
<1> QED
  BY <1>1, <1>2, <1>3 DEF WakeInv

LEMMA FreeShort ==
    ASSUME IInv, WakeInv, NEW v \in Services, NEW c \in Entries, Free(v, c), scenario' = scenario
    PROVE  \A w \in Services, b \in Entries : entry'[w][b] = "short" => "short" \in scenario'
<1> SUFFICES ASSUME NEW w \in Services, NEW b \in Entries, entry'[w][b] = "short" PROVE "short" \in scenario
  OBVIOUS
<1>1. entry'[w][b] = IF w = v /\ b = c THEN "free" ELSE entry[w][b]
  BY DEF Free, IInv, TypeOK
<1> QED
  BY <1>1 DEF WakeInv

LEMMA ResultWakeInv ==
    ASSUME IInv, WakeInv, MessageDone \/ CertificateVerified
    PROVE  WakeInv'
<1> DEFINE t == Tail(events)
<1>1. events # <<>> /\ Head(events).ev = "result" /\ Free(Head(events).of, Head(events).entry)
      /\ UNCHANGED <<scenario, queue, polled>>
  BY DEF MessageDone, CertificateVerified
<1>2. /\ Head(events).of \in Services /\ Head(events).entry \in Entries /\ t \in Seq(Event)
      /\ Follows(t, 1, "nobody") /\ "nobody" \notin Processes
  BY <1>1, ResultTyped, ResultTail DEF IInv, Processes, Services
<1>3. \A w \in Services, b \in Entries : entry'[w][b] = "short" => "short" \in scenario'
  BY <1>1, <1>2, FreeShort
<1>4. NoneLost' <=> NoneLost
  BY <1>1 DEF NoneLost
<1>5. ASSUME NoneLost, MessageDone PROVE \A q \in Processes : Awake(q)'
  <2>1. Spares("nobody", t)
    BY <1>5 DEF MessageDone, Spares
  <2> QED
    BY <1>1, <1>2, <1>5, <2>1, SparesWake
<1>6. ASSUME NoneLost, CertificateVerified PROVE \A q \in Processes : Awake(q)'
  <2>1. Follows(t, 1, "keystore")
    BY <1>2 DEF Follows
  <2>2. Spares("keystore", t) /\ Awake("keystore")'
    <3>1. CASE mutex > 0
      BY <1>1, <1>2, <1>6, <3>1, EcdhAcquiredSpares DEF CertificateVerified
    <3>2. CASE ~(mutex > 0)
      <4>1. /\ events' = t /\ pc' = [pc EXCEPT !["keystore"] = "mutex"]
            /\ UNCHANGED <<mutex, finished, queue>>
        BY <1>6, <3>2 DEF CertificateVerified, Waits
      <4>2. "keystore" \in Processes /\ pc \in [Processes -> {"wait", "pause", "mutex", "pka"}] /\ mutex \in {0, 1}
        BY DEF Processes, IInv, TypeOK
      <4>3. Awake("keystore")'
        BY <3>2, <4>1, <4>2 DEF Awake
      <4> QED
        BY <4>1, <4>2, <4>3 DEF Spares
    <3> QED
      BY <3>1, <3>2
  <2> QED
    BY <1>1, <1>6, <2>1, <2>2, SparesWake
<1> QED
  BY <1>3, <1>4, <1>5, <1>6 DEF WakeInv

LEMMA QueueMessageWakeInv ==
    ASSUME IInv, WakeInv, NEW w \in Services, NEW b \in Entries, NEW m \in Messages, QueueMessage(w, b, m)
    PROVE  WakeInv'
<1>1. /\ entry' = [entry EXCEPT ![w][b] = m] /\ queue' = [queue EXCEPT ![w] = Append(queue[w], b)]
      /\ polled' = polled \cup {w} /\ UNCHANGED <<scenario, pc, mutex, finished, events>>
      /\ (m = "short" => "short" \in scenario)
  BY DEF QueueMessage, QueueMessageWith, Messages
<1>2. entry \in [Services -> [Entries -> {"free"} \cup Kinds]] /\ queue \in [Services -> Seq(Entries)]
  BY DEF IInv, TypeOK
<1>3. \A v \in Services, c \in Entries : entry'[v][c] = "short" => "short" \in scenario'
  <2> SUFFICES ASSUME NEW v \in Services, NEW c \in Entries, entry'[v][c] = "short" PROVE "short" \in scenario
    BY <1>1
  <2>1. entry'[v][c] = IF v = w /\ c = b THEN m ELSE entry[v][c]
    BY <1>1, <1>2
  <2> QED
    BY <1>1, <2>1 DEF WakeInv
<1>4. NoneLost' <=> NoneLost
  BY <1>1 DEF NoneLost
<1>5. ASSUME NoneLost, NEW p \in Processes PROVE Awake(p)'
  <2>1. Awake(p)
    BY <1>5 DEF WakeInv
  <2>2. (WillRun(p) => WillRun(p)') /\ (p = w => WillRun(p)')
    BY <1>1 DEF WillRun
  <2>3. p \in Services /\ p # w => queue'[p] = queue[p]
    BY <1>1, <1>2
  <2> QED
    BY <1>1, <2>1, <2>2, <2>3 DEF Awake
<1> QED
  BY <1>3, <1>4, <1>5 DEF WakeInv

(* The PKA has one user, and it is this one that the interrupt polls. *)
LEMMA PkaInterruptWakeInv ==
    ASSUME IInv, WakeInv, PkaInterrupt
    PROVE  WakeInv'
<1>1. PICK p \in Processes : pc[p] = "pka" /\ polled' = polled \cup {p}
  BY DEF PkaInterrupt
<1>2. UNCHANGED <<scenario, entry, queue, pc, mutex, events>>
  BY DEF PkaInterrupt
<1>3. ASSUME NoneLost, NEW q \in Processes PROVE Awake(q)'
  <2>1. Awake(q)
    BY <1>3 DEF WakeInv
  <2>2. WillRun(q) => WillRun(q)'
    BY <1>1, <1>2 DEF WillRun
  <2>3. pc[q] = "pka" => WillRun(q)'
    BY <1>1 DEF IInv, MutexHeld, WillRun
  <2> QED
    BY <1>2, <2>1, <2>2, <2>3 DEF Awake
<1> QED
  BY <1>2, <1>3 DEF WakeInv, NoneLost

LEMMA NextWakeInv == IInv /\ WakeInv /\ [Next]_vars => WakeInv'
<1> SUFFICES ASSUME IInv, WakeInv, [Next]_vars PROVE WakeInv'
  OBVIOUS
<1>1. ASSUME NEW p \in Processes, Poll(p) PROVE WakeInv'
  <2>1. Follows(events, 0, p) /\ events \in Seq(Event)
    BY EventsFollow DEF IInv, TypeOK
  <2>2. Run(p, events) /\ UNCHANGED <<scenario, entry>> /\ polled' = polled \ {p}
    BY <1>1 DEF Poll
  <2> QED
    BY <2>1, <2>2, RunWakeInv
<1>2. ASSUME NEW p \in Processes, Deliver(p) PROVE WakeInv'
  <2>1. PICK d \in {0, 1} : Follows(Seen, d, p)
    BY <1>2, SeenFollows DEF IInv, Deliver
  <2>2. Run(p, Seen) /\ UNCHANGED <<scenario, entry, polled>> /\ Seen \in Seq(Event)
    BY <1>2, <2>1 DEF Deliver, Follows
  <2> QED
    BY <2>1, <2>2, RunWakeInv
<1>3. CASE UNCHANGED vars
  BY <1>3 DEF vars, WakeInv, NoneLost, Awake, WillRun, Calls
<1> QED
  BY <1>1, <1>2, <1>3, QueueMessageWakeInv, ResultWakeInv, PkaInterruptWakeInv DEF Next, System

(* Unless a post fails or a message is short, a process of the signer, the      *)
(* verifier or the key store that could go on has an event or a poll on its way *)
(* to it (crypto-support.c:88,105,149,166 and inform_crypto_mutex_released).  *)
THEOREM WakeUpsReach == Spec => []NoLostWakeUp
<1> DEFINE I == IInv /\ WakeInv
<1>1. Init => I
  <2> SUFFICES ASSUME Init PROVE WakeInv
    BY InitIInv
  <2>1. \A w \in Services, b \in Entries : entry[w][b] # "short"
    BY DEF Init
  <2>2. \A p \in Processes : Awake(p)
    BY DEF Init, Awake, Processes
  <2> QED
    BY <2>1, <2>2 DEF WakeInv
<1>2. I /\ [Next]_vars => I'
  BY NextIInv, NextWakeInv
<1>3. I => NoLostWakeUp
  <2> SUFFICES ASSUME WakeInv, NoneLost
               PROVE  /\ \A w \in Services : pc[w] = "wait" /\ queue[w] # <<>> => WakeUps(w) # {}
                      /\ \A p \in Processes : /\ pc[p] = "mutex" /\ mutex > 0 => WakeUps(p) # {}
                                              /\ pc[p] = "pka" /\ finished => WakeUps(p) # {}
    BY DEF NoLostWakeUp, NoneLost
  <2>1. ASSUME NEW p \in Processes, WillRun(p) PROVE WakeUps(p) # {}
    BY <2>1 DEF WillRun, WakeUps, Calls
  <2>2. \A p \in Processes : Awake(p)
    BY DEF WakeInv
  <2> QED
    BY <2>1, <2>2 DEF Awake, Processes
<1> QED
  BY <1>1, <1>2, <1>3, PTL DEF Spec

-----------------------------------------------------------------------------
(* An entry is in one place at a time: it is free, or waits in a queue or with   *)
(* its service, once, or is in one result event.                             *)
HandInv ==
    \A w \in Services :
       /\ pc[w] \in {"wait", "pause"} => item[w] = NoEntry
       /\ \A i, j \in 1..Len(Pending(w)) : Pending(w)[i] = Pending(w)[j] => i = j
       /\ \A i \in 1..Len(Pending(w)) : entry[w][Pending(w)[i]] # "free"

Answers(s, i, v, c) == i \in 1..Len(s) /\ s[i].ev = "result" /\ s[i].of = v /\ s[i].entry = c

AnsweredOnce(s) ==
    \A v \in Services, c \in Entries : \A i : Answers(s, i, v, c) =>
       /\ entry[v][c] # "free"
       /\ \A k \in 1..Len(Pending(v)) : Pending(v)[k] # c
       /\ \A j : Answers(s, j, v, c) => i = j
       /\ s[i].good => Stale \/ entry[v][c] = "valid"

AnswerInv == HandInv /\ AnsweredOnce(events)

LEMMA PendingTyped ==
    ASSUME IInv, NEW w \in Services
    PROVE  /\ Pending(w) \in Seq(Entries) /\ Len(Pending(w)) \in Nat
           /\ item[w] = NoEntry => Pending(w) = queue[w]
           /\ item[w] # NoEntry => Pending(w) = <<item[w]>> \o queue[w]
<1>1. queue[w] \in Seq(Entries) /\ item[w] \in Entries \cup {NoEntry}
  BY DEF IInv, TypeOK
<1>2. CASE item[w] = NoEntry
  <2>1. Pending(w) = queue[w]
    BY <1>1, <1>2, ConcatEmptySeq DEF Pending
  <2> QED
    BY <1>1, <1>2, <2>1, LenProperties
<1>3. CASE item[w] # NoEntry
  <2>1. Pending(w) = <<item[w]>> \o queue[w] /\ <<item[w]>> \in Seq(Entries)
    BY <1>1, <1>3 DEF Pending
  <2>2. Pending(w) \in Seq(Entries)
    BY <1>1, <2>1, ConcatProperties
  <2> QED
    BY <1>3, <2>1, <2>2, LenProperties
<1> QED
  BY <1>2, <1>3

(* The entry that a run works on is the first one pending.                    *)
LEMMA ConsProperties ==
    ASSUME NEW S, NEW x \in S, NEW s \in Seq(S)
    PROVE  <<x>> \o s # <<>> /\ Head(<<x>> \o s) = x /\ Tail(<<x>> \o s) = s
<1> DEFINE t == <<x>> \o s
<1>1. <<x>> \in Seq(S) /\ Len(<<x>>) = 1 /\ <<x>>[1] = x /\ Len(s) \in Nat
  BY LenProperties
<1>2. /\ t \in Seq(S) /\ Len(t) = Len(<<x>>) + Len(s)
      /\ \A i \in 1..(Len(<<x>>) + Len(s)) : t[i] = IF i <= Len(<<x>>) THEN <<x>>[i] ELSE s[i - Len(<<x>>)]
  BY <1>1, ConcatProperties
<1> HIDE DEF t
<1>3. Len(t) = 1 + Len(s) /\ t[1] = x /\ \A i \in 2..(1 + Len(s)) : t[i] = s[i - 1]
  BY <1>1, <1>2
<1>4. t # <<>>
  BY <1>1, <1>3
<1>5. /\ Head(t) = t[1] /\ Tail(t) \in Seq(S) /\ Len(Tail(t)) = Len(t) - 1
      /\ \A i \in 1..Len(Tail(t)) : Tail(t)[i] = t[i + 1]
  BY <1>2, <1>4, HeadTailProperties
<1>6. Len(Tail(t)) = Len(s)
  BY <1>1, <1>3, <1>5
<1>7. \A i \in 1..Len(s) : i + 1 \in 2..(1 + Len(s)) /\ i + 1 - 1 = i
  BY <1>1
<1>8. \A i \in 1..Len(s) : Tail(t)[i] = s[i]
  BY <1>3, <1>5, <1>6, <1>7
<1>9. Tail(t) = s
  BY <1>5, <1>6, <1>8, SeqEqual
<1> QED
  BY <1>3, <1>4, <1>5, <1>9 DEF t

LEMMA ConsHeadTail ==
    ASSUME NEW S, NEW s \in Seq(S), s # <<>>
    PROVE  <<Head(s)>> \o Tail(s) = s
<1> DEFINE t == <<Head(s)>> \o Tail(s)
<1>1. /\ Len(s) \in Nat /\ Len(s) >= 1 /\ Head(s) = s[1] /\ Head(s) \in S /\ Tail(s) \in Seq(S)
      /\ Len(Tail(s)) = Len(s) - 1 /\ \A i \in 1..(Len(s) - 1) : Tail(s)[i] = s[i + 1]
  BY LenProperties, HeadTailProperties
<1>2. <<Head(s)>> \in Seq(S) /\ Len(<<Head(s)>>) = 1 /\ <<Head(s)>>[1] = s[1]
  BY <1>1
<1>3. /\ t \in Seq(S) /\ Len(t) = Len(<<Head(s)>>) + Len(Tail(s))
      /\ \A i \in 1..(Len(<<Head(s)>>) + Len(Tail(s))) :
            t[i] = IF i <= Len(<<Head(s)>>) THEN <<Head(s)>>[i] ELSE Tail(s)[i - Len(<<Head(s)>>)]
  BY <1>1, <1>2, ConcatProperties
<1> HIDE DEF t
<1>4. Len(t) = Len(s) /\ \A i \in 1..Len(s) : t[i] = IF i <= 1 THEN s[1] ELSE Tail(s)[i - 1]
  BY <1>1, <1>2, <1>3
<1>5. ASSUME NEW i \in 1..Len(s) PROVE t[i] = s[i]
  <2>1. CASE i = 1
    BY <1>4, <2>1
  <2>2. CASE i # 1
    <3>1. i - 1 \in 1..(Len(s) - 1) /\ i - 1 + 1 = i /\ ~(i <= 1)
      BY <1>1, <2>2
    <3> QED
      BY <1>1, <1>4, <3>1
  <2> QED
    BY <2>1, <2>2
<1>6. t = s
  BY <1>3, <1>4, <1>5, SeqEqual
<1> QED
  BY <1>6 DEF t

LEMMA PendingTaken ==
    ASSUME IInv, HandInv, NEW w \in Services, NEW b \in Entries, Takes(w, b),
           NEW x \in {b, NoEntry}, item' = [item EXCEPT ![w] = x]
    PROVE  /\ Pending(w) # <<>> /\ Head(Pending(w)) = b
           /\ Pending(w)' = IF x = b THEN Pending(w) ELSE Tail(Pending(w))
           /\ \A v \in Services : v # w => Pending(v)' = Pending(v)
<1>1. /\ queue \in [Services -> Seq(Entries)] /\ item \in [Services -> Entries \cup {NoEntry}]
      /\ b # NoEntry /\ item'[w] = x
  BY EntriesAssumption DEF IInv, TypeOK
<1>2. \A v \in Services : v # w => Pending(v)' = Pending(v)
  <2> SUFFICES ASSUME NEW v \in Services, v # w PROVE Pending(v)' = Pending(v)
    OBVIOUS
  <2>1. item'[v] = item[v]
    BY <1>1
  <2>2. queue' = queue \/ queue' = [queue EXCEPT ![w] = Tail(@)]
    BY DEF Takes
  <2>3. queue'[v] = queue[v]
    BY <1>1, <2>2
  <2> DEFINE P(i, q) == (IF i = NoEntry THEN <<>> ELSE <<i>>) \o q
  <2>4. Pending(v) = P(item[v], queue[v]) /\ Pending(v)' = P(item'[v], queue'[v])
    BY DEF Pending
  <2> HIDE DEF P
  <2> QED
    BY <2>1, <2>3, <2>4
<1>3. CASE pc[w] = "wait" /\ queue[w] # <<>> /\ b = Head(queue[w]) /\ queue' = [queue EXCEPT ![w] = Tail(@)]
  <2>1. item[w] = NoEntry /\ Pending(w) = queue[w]
    BY <1>3, PendingTyped DEF HandInv
  <2>2. queue'[w] = Tail(queue[w]) /\ queue[w] \in Seq(Entries) /\ Tail(queue[w]) \in Seq(Entries)
    BY <1>1, <1>3
  <2>3. CASE x = b
    <3>1. Pending(w)' = <<b>> \o Tail(queue[w])
      BY <1>1, <2>2, <2>3 DEF Pending
    <3> QED
      BY <1>2, <1>3, <2>1, <2>2, <2>3, <3>1, ConsHeadTail
  <2>4. CASE x = NoEntry
    <3>1. Pending(w)' = Tail(queue[w])
      BY <1>1, <2>2, <2>4, ConcatEmptySeq DEF Pending
    <3> QED
      BY <1>1, <1>2, <1>3, <2>1, <2>4, <3>1
  <2> QED
    BY <2>3, <2>4
<1>4. CASE pc[w] \in {"mutex", "pka"} /\ b = item[w] /\ UNCHANGED queue
  <2>1. Pending(w) = <<b>> \o queue[w] /\ queue[w] \in Seq(Entries) /\ queue'[w] = queue[w]
    BY <1>1, <1>4, PendingTyped
  <2>2. Pending(w) # <<>> /\ Head(Pending(w)) = b /\ Tail(Pending(w)) = queue[w]
    BY <2>1, ConsProperties
  <2>3. CASE x = b
    <3>1. Pending(w)' = <<b>> \o queue[w]
      BY <1>1, <2>1, <2>3 DEF Pending
    <3> QED
      BY <1>2, <2>1, <2>2, <2>3, <3>1
  <2>4. CASE x = NoEntry
    <3>1. Pending(w)' = queue[w]
      BY <1>1, <2>1, <2>4, ConcatEmptySeq DEF Pending
    <3> QED
      BY <1>1, <1>2, <2>2, <2>4, <3>1
  <2> QED
    BY <2>3, <2>4
<1> QED
  BY <1>3, <1>4 DEF Takes

(* What is left of the event queue has each answer once.                     *)
LEMMA AnsweredFollows ==
    ASSUME IInv, AnsweredOnce(events), NEW d \in {0, 1}, NEW p, NEW rest, Follows(rest, d, p)
    PROVE  AnsweredOnce(rest)
<1>1. \A i \in 1..Len(rest) : i + d \in 1..Len(events) /\ (rest[i].ev = "result" => events[i + d] = rest[i])
  BY DEF Follows
<1>2. \A i, v, c : Answers(rest, i, v, c) => Answers(events, i + d, v, c) /\ events[i + d] = rest[i] /\ i \in Nat
  BY <1>1 DEF Answers
<1> SUFFICES ASSUME NEW v \in Services, NEW c \in Entries, NEW i, Answers(rest, i, v, c)
             PROVE  /\ entry[v][c] # "free"
                    /\ \A k \in 1..Len(Pending(v)) : Pending(v)[k] # c
                    /\ \A j : Answers(rest, j, v, c) => i = j
                    /\ rest[i].good => Stale \/ entry[v][c] = "valid"
  BY DEF AnsweredOnce
<1>3. ASSUME NEW j, Answers(rest, j, v, c) PROVE i = j
  <2>1. i + d = j + d
    BY <1>2, <1>3 DEF AnsweredOnce
  <2> QED
    BY <1>2, <1>3, <2>1
<1> QED
  BY <1>2, <1>3 DEF AnsweredOnce

(* Steps that leave the entries, and what is pending, alone *)
LEMMA SameAnswers ==
    ASSUME IInv, AnswerInv, NEW rest \in Seq(Event), AnsweredOnce(rest), events' = rest,
           UNCHANGED <<scenario, entry>>, \A w \in Services : Pending(w)' = Pending(w),
           \A w \in Services : pc'[w] \in {"wait", "pause"} => item'[w] = NoEntry
    PROVE  AnswerInv'
<1>1. HandInv'
  BY DEF AnswerInv, HandInv
<1>2. Stale' <=> Stale
  BY DEF Stale, Synchronous, HashMayFail
<1>3. AnsweredOnce(events)'
  <2> SUFFICES ASSUME NEW v \in Services, NEW c \in Entries, NEW i, Answers(rest, i, v, c)
               PROVE  /\ entry'[v][c] # "free"
                      /\ \A k \in 1..Len(Pending(v)') : Pending(v)'[k] # c
                      /\ \A j : Answers(rest, j, v, c) => i = j
                      /\ rest[i].good => Stale' \/ entry'[v][c] = "valid"
    BY DEF AnsweredOnce, Answers
  <2> QED
    BY <1>2 DEF AnsweredOnce
<1> QED
  BY <1>1, <1>3 DEF AnswerInv

(* The end of an operation moves its entry from the hands of the service into    *)
(* a result event, or out of the model's sight if the post fails.            *)
LEMMA FinishesAnswers ==
    ASSUME IInv, AnswerInv, NEW w \in Services, NEW rest \in Seq(Event), AnsweredOnce(rest), Finishes(w, rest),
           UNCHANGED <<scenario, entry>>
    PROVE  AnswerInv'
<1>1. PICK b \in Entries, r \in BOOLEAN, rel \in {<<>>, Inform} :
         /\ Takes(w, b)
         /\ Ends(w, b, r, rel, rest)
         /\ r => Stale \/ entry[w][b] = "valid"
  BY DEF Finishes
<1>2. /\ item' = [item EXCEPT ![w] = NoEntry] /\ pc' = [pc EXCEPT ![w] = "pause"]
      /\ item \in [Services -> Entries \cup {NoEntry}] /\ pc \in [Processes -> {"wait", "pause", "mutex", "pka"}]
      /\ b # NoEntry
  BY <1>1, EntriesAssumption DEF Ends, IInv, TypeOK
<1>3. /\ Pending(w) # <<>> /\ Head(Pending(w)) = b /\ Pending(w)' = Tail(Pending(w))
      /\ \A v \in Services : v # w => Pending(v)' = Pending(v)
  BY <1>1, <1>2, PendingTaken DEF AnswerInv
<1>4. /\ Len(Pending(w)) \in Nat /\ Len(Pending(w)) >= 1 /\ Pending(w)[1] = b
      /\ Len(Pending(w)') = Len(Pending(w)) - 1
      /\ \A i \in 1..(Len(Pending(w)) - 1) : Pending(w)'[i] = Pending(w)[i + 1]
  <2>1. Pending(w) \in Seq(Entries) /\ Len(Pending(w)) \in Nat
    BY PendingTyped
  <2> QED
    BY <1>3, <2>1, HeadTailProperties
<1>5. \A i \in 1..(Len(Pending(w)) - 1) : i + 1 \in 1..Len(Pending(w)) /\ i + 1 # 1 /\ i \in Nat
  BY <1>4
<1>6. /\ \A i, j \in 1..Len(Pending(w)) : Pending(w)[i] = Pending(w)[j] => i = j
      /\ \A i \in 1..Len(Pending(w)) : entry[w][Pending(w)[i]] # "free"
  BY DEF AnswerInv, HandInv
<1>7. HandInv'
  <2> SUFFICES ASSUME NEW v \in Services
               PROVE  /\ pc'[v] \in {"wait", "pause"} => item'[v] = NoEntry
                      /\ \A i, j \in 1..Len(Pending(v)') : Pending(v)'[i] = Pending(v)'[j] => i = j
                      /\ \A i \in 1..Len(Pending(v)') : entry'[v][Pending(v)'[i]] # "free"
    BY DEF HandInv
  <2>1. CASE v # w
    BY <1>2, <1>3, <2>1 DEF AnswerInv, HandInv
  <2>2. CASE v = w
    <3>1. \A i, j \in 1..(Len(Pending(w)) - 1) : Pending(w)'[i] = Pending(w)'[j] => i = j
      <4> SUFFICES ASSUME NEW i \in 1..(Len(Pending(w)) - 1), NEW j \in 1..(Len(Pending(w)) - 1),
                          Pending(w)'[i] = Pending(w)'[j]
                   PROVE  i = j
        OBVIOUS
      <4>1. i + 1 = j + 1
        BY <1>4, <1>5, <1>6
      <4> QED
        BY <1>5, <4>1
    <3>2. ASSUME NEW i \in 1..(Len(Pending(w)) - 1) PROVE entry[w][Pending(w)'[i]] # "free"
      <4>1. Pending(w)'[i] = Pending(w)[i + 1] /\ i + 1 \in 1..Len(Pending(w))
        BY <1>4, <1>5
      <4> QED
        BY <1>6, <4>1
    <3> QED
      BY <1>2, <1>4, <2>2, <3>1, <3>2
  <2> QED
    BY <2>1, <2>2
<1>8. /\ events' \in Seq(Event) /\ Len(rest) <= Len(events') /\ Len(rest) \in Nat /\ Len(events') \in Nat
      /\ \A i \in 1..Len(rest) : events'[i] = rest[i]
      /\ \A i \in 1..Len(events') : i > Len(rest) /\ events'[i].ev = "result" =>
            i = Len(rest) + Len(rel) + 1 /\ events'[i] = ResultEvent(w, b, r)
  <2>1. /\ events' \in Seq(Event) /\ Len(rest) <= Len(events')
        /\ \A i \in 1..Len(rest) : events'[i] = rest[i]
        /\ \A i \in 1..Len(events') : i > Len(rest) /\ events'[i].ev = "result" =>
              i = Len(rest) + Len(rel) + 1 /\ events'[i] = ResultEvent(w, b, r)
    BY <1>1, EndsEvents
  <2>2. Len(rest) \in Nat /\ Len(events') \in Nat
    BY <2>1, LenProperties
  <2> QED
    BY <2>1, <2>2
<1>9. Stale' <=> Stale
  BY DEF Stale, Synchronous, HashMayFail
<1>10. \A v \in Services : \A c : (\A k \in 1..Len(Pending(v)) : Pending(v)[k] # c) => \A k \in 1..Len(Pending(v)') : Pending(v)'[k] # c
  <2> SUFFICES ASSUME NEW c, \A k \in 1..Len(Pending(w)) : Pending(w)[k] # c, NEW k \in 1..Len(Pending(w)')
               PROVE  Pending(w)'[k] # c
    BY <1>3
  <2> QED
    BY <1>4, <1>5
<1>11. \A i : ~Answers(rest, i, w, b)
  <2>1. 1 \in 1..Len(Pending(w))
    BY <1>4
  <2> QED
    BY <1>4, <2>1 DEF AnsweredOnce
<1>12. ASSUME NEW v \in Services, NEW c \in Entries, NEW i, Answers(events', i, v, c)
       PROVE  \/ Answers(rest, i, v, c) /\ events'[i] = rest[i]
              \/ v = w /\ c = b /\ i = Len(rest) + Len(rel) + 1 /\ events'[i].good = r
  <2>1. i \in 1..Len(events') /\ events'[i].ev = "result"
    BY <1>12 DEF Answers
  <2>2. CASE i \in 1..Len(rest)
    BY <1>8, <1>12, <2>2 DEF Answers
  <2>3. CASE i > Len(rest)
    BY <1>8, <1>12, <2>1, <2>3 DEF Answers, ResultEvent
  <2> QED
    BY <1>8, <2>1, <2>2, <2>3
<1>13. ASSUME NEW v \in Services, NEW c \in Entries, NEW i, Answers(events', i, v, c)
       PROVE  /\ entry[v][c] # "free"
              /\ \A k \in 1..Len(Pending(v)') : Pending(v)'[k] # c
              /\ \A j : Answers(events', j, v, c) => i = j
              /\ events'[i].good => Stale \/ entry[v][c] = "valid"
  <2>1. CASE Answers(rest, i, v, c) /\ events'[i] = rest[i]
    <3>1. ASSUME NEW j, Answers(events', j, v, c) PROVE i = j
      BY <1>11, <1>12, <2>1, <3>1 DEF AnsweredOnce
    <3> QED
      BY <1>10, <2>1, <3>1 DEF AnsweredOnce
  <2>2. CASE v = w /\ c = b /\ i = Len(rest) + Len(rel) + 1 /\ events'[i].good = r
    <3>1. 1 \in 1..Len(Pending(w))
      BY <1>4
    <3>2. entry[w][b] # "free"
      BY <1>4, <1>6, <3>1
    <3>3. \A k \in 1..Len(Pending(w)') : Pending(w)'[k] # b
      <4> SUFFICES ASSUME NEW k \in 1..(Len(Pending(w)) - 1), Pending(w)[k + 1] = Pending(w)[1] PROVE FALSE
        BY <1>4
      <4> QED
        BY <1>5, <1>6, <3>1
    <3>4. ASSUME NEW j, Answers(events', j, v, c) PROVE i = j
      BY <1>11, <1>12, <2>2, <3>4
    <3> QED
      BY <1>1, <2>2, <3>2, <3>3, <3>4
  <2> QED
    BY <1>12, <1>13, <2>1, <2>2
<1>14. AnsweredOnce(events)'
  <2> SUFFICES ASSUME NEW v \in Services, NEW c \in Entries, NEW i, Answers(events', i, v, c)
               PROVE  /\ entry'[v][c] # "free"
                      /\ \A k \in 1..Len(Pending(v)') : Pending(v)'[k] # c
                      /\ \A j : Answers(events', j, v, c) => i = j
                      /\ events'[i].good => Stale' \/ entry'[v][c] = "valid"
    BY DEF AnsweredOnce, Answers
  <2> QED
    BY <1>9, <1>13
<1> QED
  BY <1>7, <1>14 DEF AnswerInv
LEMMA SamePending ==
    ASSUME UNCHANGED <<queue, item>>
    PROVE  \A w \in Services : Pending(w)' = Pending(w)
BY DEF Pending

(* What the end of ECDH leaves of the queue *)
LEMMA EcdhQueue ==
    ASSUME NEW rest \in Seq(Event), EcdhEnds(rest)
    PROVE  /\ events' \in Seq(Event) /\ Len(rest) <= Len(events')
           /\ \A i \in 1..Len(rest) : events'[i] = rest[i]
           /\ \A i \in 1..Len(events') : i > Len(rest) => events'[i].ev # "result"
<1>1. PICK s \in Posts(Inform) : events' = rest \o s
  BY DEF EcdhEnds
<1>2. Inform = <<InformEvent>> /\ Inform \in Seq(Event) /\ InformEvent.ev = "released"
  BY InformTyped DEF Inform, InformEvent
<1>3. /\ s \in Seq(Event) /\ Len(s) \in Nat /\ Len(rest) \in Nat
      /\ \A i \in 1..Len(s) : s[i].ev = "released"
  <2>1. s \in Seq(Event) /\ Len(s) <= Len(Inform) /\ \A i \in 1..Len(s) : s[i] = Inform[i]
    BY <1>2, PostsPrefix
  <2>2. Len(Inform) = 1 /\ Inform[1] = InformEvent
    BY <1>2
  <2>3. Len(s) \in Nat /\ Len(rest) \in Nat
    BY <2>1, LenProperties
  <2>4. \A i \in 1..Len(s) : i = 1
    BY <2>1, <2>2, <2>3
  <2> QED
    BY <1>2, <2>1, <2>2, <2>3, <2>4
<1>4. /\ events' \in Seq(Event) /\ Len(events') = Len(rest) + Len(s)
      /\ \A i \in 1..(Len(rest) + Len(s)) : events'[i] = IF i <= Len(rest) THEN rest[i] ELSE s[i - Len(rest)]
  BY <1>1, <1>3, ConcatProperties
<1>5. ASSUME NEW i \in 1..Len(events'), i > Len(rest) PROVE events'[i].ev # "result"
  <2>1. i - Len(rest) \in 1..Len(s) /\ ~(i <= Len(rest)) /\ i \in 1..(Len(rest) + Len(s))
    BY <1>3, <1>4, <1>5
  <2>2. events'[i].ev = "released"
    BY <1>3, <1>4, <2>1
  <2> QED
    BY <2>2
<1> QED
  BY <1>3, <1>4, <1>5

(* What the end of ECDH posts is no answer.                                   *)
LEMMA EcdhAnswers ==
    ASSUME NEW rest \in Seq(Event), EcdhEnds(rest)
    PROVE  /\ events' \in Seq(Event)
           /\ \A i, v, c : Answers(events', i, v, c) => Answers(rest, i, v, c) /\ events'[i] = rest[i]
<1>1. /\ events' \in Seq(Event)
      /\ \A i \in 1..Len(rest) : events'[i] = rest[i]
      /\ \A i \in 1..Len(events') : i > Len(rest) => events'[i].ev # "result"
  BY EcdhQueue
<1>2. Len(rest) \in Nat
  BY LenProperties
<1>3. \A i, v, c : Answers(events', i, v, c) => i \in 1..Len(rest)
  BY <1>1, <1>2 DEF Answers
<1> QED
  BY <1>1, <1>3 DEF Answers

LEMMA SubAnswers ==
    ASSUME NEW rest, NEW new, AnsweredOnce(rest),
           \A i, v, c : Answers(new, i, v, c) => Answers(rest, i, v, c) /\ new[i] = rest[i]
    PROVE  AnsweredOnce(new)
BY DEF AnsweredOnce

LEMMA EcdhEndsAnswers ==
    ASSUME IInv, AnswerInv, NEW rest \in Seq(Event), AnsweredOnce(rest), EcdhEnds(rest),
           UNCHANGED <<scenario, entry, queue>>
    PROVE  AnswerInv'
<1>1. events' \in Seq(Event) /\ AnsweredOnce(events')
  BY EcdhAnswers, SubAnswers
<1>2. item' = item /\ pc' = [pc EXCEPT !["keystore"] = "wait"] /\ \A w \in Services : pc'[w] = pc[w]
  BY DEF EcdhEnds, IInv, TypeOK, Services
<1>3. \A w \in Services : Pending(w)' = Pending(w)
  BY <1>2, SamePending
<1>4. \A w \in Services : pc'[w] \in {"wait", "pause"} => item'[w] = NoEntry
  BY <1>2 DEF AnswerInv, HandInv
<1> DEFINE e == events'
<1>5. e \in Seq(Event) /\ AnsweredOnce(e) /\ events' = e
  BY <1>1
<1> HIDE DEF e
<1> QED
  BY <1>3, <1>4, <1>5, SameAnswers

LEMMA EcdhAcquiredAnswers ==
    ASSUME IInv, AnswerInv, NEW rest \in Seq(Event), AnsweredOnce(rest), EcdhAcquired(rest),
           UNCHANGED <<scenario, entry, queue>>
    PROVE  AnswerInv'
<1>1. CASE EcdhEnds(rest)
  BY <1>1, EcdhEndsAnswers
<1>2. CASE pc' = [pc EXCEPT !["keystore"] = "pka"] /\ events' = rest /\ item' = item
  <2>1. \A w \in Services : pc'[w] = pc[w]
    BY <1>2 DEF IInv, TypeOK, Services
  <2>2. \A w \in Services : pc'[w] \in {"wait", "pause"} => item'[w] = NoEntry
    BY <1>2, <2>1 DEF AnswerInv, HandInv
  <2>3. \A w \in Services : Pending(w)' = Pending(w)
    BY <1>2, SamePending
  <2> QED
    BY <1>2, <2>2, <2>3, SameAnswers
<1> QED
  BY <1>1, <1>2 DEF EcdhAcquired

LEMMA RunAnswers ==
    ASSUME IInv, AnswerInv, NEW p \in Processes, NEW rest \in Seq(Event), AnsweredOnce(rest), Run(p, rest),
           UNCHANGED <<scenario, entry>>
    PROVE  AnswerInv'
<1>0. /\ pc \in [Processes -> {"wait", "pause", "mutex", "pka"}]
      /\ \A w \in Services : pc[w] \in {"wait", "pause"} => item[w] = NoEntry
  BY DEF IInv, TypeOK, AnswerInv, HandInv
<1>1. ASSUME Idles(rest) PROVE AnswerInv'
  <2>1. events' = rest /\ UNCHANGED <<queue, item, pc>>
    BY <1>1 DEF Idles
  <2> QED
    BY <1>0, <2>1, SamePending, SameAnswers
<1>2. CASE p \in Services
  <2>1. RunService(p, rest)
    BY <1>2 DEF Run
  <2>2. CASE Resumes(p, rest)
    <3>1. events' = rest /\ UNCHANGED <<queue, item>> /\ pc[p] = "pause" /\ pc' = [pc EXCEPT ![p] = "wait"]
      BY <2>2 DEF Resumes
    <3>2. \A w \in Services : pc'[w] \in {"wait", "pause"} => item'[w] = NoEntry
      BY <1>0, <1>2, <3>1
    <3> QED
      BY <3>1, <3>2, SamePending, SameAnswers
  <2>3. CASE Holds(p, rest)
    <3>1. PICK b \in Entries : Takes(p, b) /\ item' = [item EXCEPT ![p] = b] /\ events' = rest
                               /\ \E x \in {"mutex", "pka"} : pc' = [pc EXCEPT ![p] = x]
      BY <2>3 DEF Holds
    <3>2. Pending(p)' = Pending(p) /\ \A w \in Services : w # p => Pending(w)' = Pending(w)
      BY <1>2, <3>1, PendingTaken DEF AnswerInv
    <3>3. item \in [Services -> Entries \cup {NoEntry}]
      BY DEF IInv, TypeOK
    <3>4. \A w \in Services : pc'[w] \in {"wait", "pause"} => item'[w] = NoEntry
      BY <1>0, <3>1, <3>3
    <3> QED
      BY <3>1, <3>2, <3>4, SameAnswers
  <2> QED
    BY <1>1, <1>2, <2>1, <2>2, <2>3, RunServiceShape, FinishesAnswers
<1>3. CASE p \notin Services
  <2>1. RunEcdh(rest)
    BY <1>3 DEF Run
  <2> QED
    BY <1>1, <2>1, EcdhEndsAnswers, EcdhAcquiredAnswers DEF RunEcdh
<1> QED
  BY <1>2, <1>3

(* The client gives back an entry that is in no other place. *)
LEMMA ResultAnswers ==
    ASSUME IInv, AnswerInv, MessageDone \/ CertificateVerified
    PROVE  AnswerInv'
<1> DEFINE t == Tail(events)
           v0 == Head(events).of
           c0 == Head(events).entry
<1>1. /\ events # <<>> /\ Head(events).ev = "result" /\ Free(v0, c0)
      /\ UNCHANGED <<scenario, queue>>
  BY DEF MessageDone, CertificateVerified
<1>2. /\ v0 \in Services /\ c0 \in Entries /\ t \in Seq(Event) /\ Follows(t, 1, "nobody")
      /\ Len(events) \in Nat /\ Len(events) >= 1 /\ Head(events) = events[1]
  <2>1. events \in Seq(Event) /\ Len(events) \in Nat
    BY LenProperties DEF IInv, TypeOK
  <2> QED
    BY <1>1, <2>1, ResultTyped, ResultTail, HeadTailProperties DEF IInv
<1>3. Answers(events, 1, v0, c0)
  BY <1>1, <1>2 DEF Answers
<1>4. AnsweredOnce(events)
  BY DEF AnswerInv
<1>5. \A i \in 1..Len(t) : i \in Nat /\ i # 0 /\ i + 1 # 1 /\ i + 1 \in 1..Len(events) /\ (t[i].ev = "result" => events[i + 1] = t[i])
  BY <1>2 DEF Follows
<1>6. item' = item /\ \A w \in Services : pc'[w] = pc[w]
  <2>1. CASE MessageDone
    BY <2>1 DEF MessageDone
  <2>2. CASE CertificateVerified
    <3>1. item' = item /\ \E x \in {"wait", "pka", "mutex"} : pc' = [pc EXCEPT !["keystore"] = x]
      BY <2>2 DEF CertificateVerified, EcdhAcquired, EcdhEnds, Waits
    <3> QED
      BY <3>1 DEF IInv, TypeOK, Services
  <2> QED
    BY <2>1, <2>2
<1>7. \A i, v, c : Answers(events', i, v, c) => Answers(t, i, v, c) /\ events'[i] = t[i]
  <2>1. CASE events' = t
    BY <2>1
  <2>2. CASE EcdhEnds(t)
    BY <1>2, <2>2, EcdhAnswers
  <2> QED
    BY <2>1, <2>2 DEF MessageDone, CertificateVerified, EcdhAcquired, Waits
<1>8. entry' = [entry EXCEPT ![v0][c0] = "free"] /\ entry \in [Services -> [Entries -> {"free"} \cup Kinds]]
  BY <1>1 DEF Free, IInv, TypeOK
<1>9. \A w \in Services : Pending(w)' = Pending(w)
  BY <1>1, <1>6, SamePending
<1>10. \A w \in Services : Pending(w) \in Seq(Entries) /\ Len(Pending(w)) \in Nat
  BY PendingTyped
<1> HIDE DEF t, v0, c0
<1>11. \A v \in Services, c \in Entries : v # v0 \/ c # c0 => entry'[v][c] = entry[v][c]
  BY <1>2, <1>8
<1>12. HandInv'
  <2>1. ASSUME NEW w \in Services, NEW k \in 1..Len(Pending(w)) PROVE entry'[w][Pending(w)[k]] # "free"
    <3>1. entry[w][Pending(w)[k]] # "free" /\ Pending(w)[k] \in Entries
      BY <1>10, <2>1 DEF AnswerInv, HandInv
    <3>2. w = v0 => Pending(w)[k] # c0
      BY <1>2, <1>3, <1>4, <2>1 DEF AnsweredOnce
    <3> QED
      BY <1>11, <3>1, <3>2
  <2>2. ASSUME NEW w \in Services
        PROVE  /\ pc'[w] \in {"wait", "pause"} => item'[w] = NoEntry
               /\ \A i, j \in 1..Len(Pending(w)') : Pending(w)'[i] = Pending(w)'[j] => i = j
               /\ \A i \in 1..Len(Pending(w)') : entry'[w][Pending(w)'[i]] # "free"
    BY <1>6, <1>9, <2>1 DEF AnswerInv, HandInv
  <2> QED
    BY <2>2 DEF HandInv
<1>13. Stale' <=> Stale
  BY <1>1 DEF Stale, Synchronous, HashMayFail
<1>14. ASSUME NEW v \in Services, NEW c \in Entries, NEW i, Answers(events', i, v, c)
       PROVE  /\ entry'[v][c] # "free"
              /\ \A k \in 1..Len(Pending(v)') : Pending(v)'[k] # c
              /\ \A j : Answers(events', j, v, c) => i = j
              /\ events'[i].good => Stale' \/ entry'[v][c] = "valid"
  <2>1. \A j : Answers(events', j, v, c) =>
           Answers(events, j + 1, v, c) /\ events[j + 1] = events'[j] /\ j \in Nat /\ j + 1 # 1
    BY <1>5, <1>7 DEF Answers
  <2>2. v # v0 \/ c # c0
    BY <1>2, <1>3, <1>4, <1>14, <2>1 DEF AnsweredOnce
  <2>3. entry'[v][c] = entry[v][c]
    BY <1>11, <2>2
  <2>4. ASSUME NEW j, Answers(events', j, v, c) PROVE i = j
    <3>1. i + 1 = j + 1
      BY <1>4, <1>14, <2>1, <2>4 DEF AnsweredOnce
    <3> QED
      BY <1>14, <2>1, <2>4, <3>1
  <2>5. /\ entry[v][c] # "free"
        /\ \A k \in 1..Len(Pending(v)) : Pending(v)[k] # c
        /\ events[i + 1].good => Stale \/ entry[v][c] = "valid"
    BY <1>4, <1>14, <2>1 DEF AnsweredOnce
  <2>6. events'[i].good => Stale' \/ entry'[v][c] = "valid"
    BY <1>13, <1>14, <2>1, <2>3, <2>5
  <2> QED
    BY <1>9, <2>3, <2>4, <2>5, <2>6
<1>15. AnsweredOnce(events)'
  BY <1>14 DEF AnsweredOnce, Answers
<1> QED
  BY <1>12, <1>15 DEF AnswerInv

(* The new entry joins the end of what is pending. *)
LEMMA PendingAppended ==
    ASSUME IInv, NEW w \in Services, NEW b \in Entries,
           queue' = [queue EXCEPT ![w] = Append(queue[w], b)], item' = item
    PROVE  /\ Len(Pending(w)') = Len(Pending(w)) + 1
           /\ \A i \in 1..Len(Pending(w)) : Pending(w)'[i] = Pending(w)[i]
           /\ Pending(w)'[Len(Pending(w)) + 1] = b
           /\ \A v \in Services : v # w => Pending(v)' = Pending(v)
<1> DEFINE h == IF item[w] = NoEntry THEN <<>> ELSE <<item[w]>>
           q == queue[w]
           a == Append(q, b)
           pw == h \o q
           pn == h \o a
<1>1. /\ queue \in [Services -> Seq(Entries)] /\ item \in [Services -> Entries \cup {NoEntry}]
  BY DEF IInv, TypeOK
<1>2. h \in Seq(Entries) /\ q \in Seq(Entries)
  <2>1. item[w] # NoEntry => <<item[w]>> \in Seq(Entries)
    BY <1>1
  <2>2. <<>> \in Seq(Entries)
    OBVIOUS
  <2> QED
    BY <1>1, <2>1, <2>2
<1>3. queue'[w] = a
  BY <1>1
<1>4. Pending(w) = pw /\ Pending(w)' = pn
  BY <1>3 DEF Pending
<1>5. \A v \in Services : v # w => Pending(v)' = Pending(v)
  <2> SUFFICES ASSUME NEW v \in Services, v # w PROVE Pending(v)' = Pending(v)
    OBVIOUS
  <2> DEFINE P(i, r) == (IF i = NoEntry THEN <<>> ELSE <<i>>) \o r
  <2>1. Pending(v) = P(item[v], queue[v]) /\ Pending(v)' = P(item'[v], queue'[v])
    BY DEF Pending
  <2>2. queue'[v] = queue[v]
    BY <1>1
  <2> HIDE DEF P
  <2> QED
    BY <2>1, <2>2
<1> HIDE DEF h, q
<1>6. /\ a \in Seq(Entries) /\ Len(a) = Len(q) + 1 /\ \A i \in 1..Len(q) : a[i] = q[i]
      /\ a[Len(q) + 1] = b
  BY <1>2, AppendProperties
<1>7. Len(h) \in Nat /\ Len(q) \in Nat
  BY <1>2, LenProperties
<1> HIDE DEF a
<1>8. /\ Len(pw) = Len(h) + Len(q)
      /\ \A i \in 1..(Len(h) + Len(q)) : pw[i] = IF i <= Len(h) THEN h[i] ELSE q[i - Len(h)]
  BY <1>2, ConcatProperties
<1>9. /\ Len(pn) = Len(h) + Len(a)
      /\ \A i \in 1..(Len(h) + Len(a)) : pn[i] = IF i <= Len(h) THEN h[i] ELSE a[i - Len(h)]
  BY <1>2, <1>6, ConcatProperties
<1> HIDE DEF pw, pn
<1>10. ASSUME NEW i \in 1..(Len(h) + Len(q)) PROVE pn[i] = pw[i]
  <2>1. i \in 1..(Len(h) + Len(a))
    BY <1>6, <1>7
  <2>2. CASE i <= Len(h)
    BY <1>8, <1>9, <2>1, <2>2
  <2>3. CASE ~(i <= Len(h))
    <3>1. i - Len(h) \in 1..Len(q)
      BY <1>7, <2>3
    <3> QED
      BY <1>6, <1>8, <1>9, <2>1, <2>3, <3>1
  <2> QED
    BY <2>2, <2>3
<1>11. pn[Len(h) + Len(q) + 1] = b
  <2>1. /\ Len(h) + Len(q) + 1 \in 1..(Len(h) + Len(a)) /\ ~(Len(h) + Len(q) + 1 <= Len(h))
        /\ Len(h) + Len(q) + 1 - Len(h) = Len(q) + 1
    BY <1>6, <1>7
  <2> QED
    BY <1>6, <1>9, <2>1
<1>12. Len(pn) = Len(pw) + 1
  BY <1>6, <1>7, <1>8, <1>9
<1> QED
  BY <1>4, <1>5, <1>8, <1>10, <1>11, <1>12

LEMMA QueueMessageAnswers ==
    ASSUME IInv, AnswerInv, NEW w \in Services, NEW b \in Entries, NEW m \in Messages, QueueMessage(w, b, m)
    PROVE  AnswerInv'
<1>1. /\ entry' = [entry EXCEPT ![w][b] = m] /\ queue' = [queue EXCEPT ![w] = Append(queue[w], b)]
      /\ entry[w][b] = "free" /\ UNCHANGED <<scenario, item, pc, events>>
  BY DEF QueueMessage, QueueMessageWith
<1>2. m # "free"
  BY DEF Messages, Kinds
<1>3. entry \in [Services -> [Entries -> {"free"} \cup Kinds]]
  BY DEF IInv, TypeOK
<1>4. /\ entry'[w][b] = m
      /\ \A v \in Services, c \in Entries : v # w \/ c # b => entry'[v][c] = entry[v][c]
      /\ \A v \in Services, c \in Entries : entry[v][c] # "free" => v # w \/ c # b
  BY <1>1, <1>3
<1> DEFINE n == Len(Pending(w))
<1>5. n \in Nat /\ Pending(w) \in Seq(Entries)
  BY PendingTyped
<1>6. /\ Len(Pending(w)') = n + 1
      /\ \A i \in 1..n : Pending(w)'[i] = Pending(w)[i]
      /\ Pending(w)'[n + 1] = b
      /\ \A v \in Services : v # w => Pending(v)' = Pending(v)
  BY <1>1, PendingAppended
<1>7. \A i \in 1..n : Pending(w)[i] \in Entries /\ Pending(w)[i] # b
  <2> SUFFICES ASSUME NEW i \in 1..n PROVE Pending(w)[i] \in Entries /\ Pending(w)[i] # b
    OBVIOUS
  <2>1. Pending(w)[i] \in Entries
    BY <1>5
  <2>2. entry[w][Pending(w)[i]] # "free"
    BY DEF AnswerInv, HandInv
  <2> QED
    BY <1>1, <2>1, <2>2
<1> HIDE DEF n
<1>8. \A i \in 1..(n + 1) : i \in 1..n \/ i = n + 1
  BY <1>5
<1>9. ASSUME NEW v \in Services
      PROVE  /\ \A i, j \in 1..Len(Pending(v)') : Pending(v)'[i] = Pending(v)'[j] => i = j
             /\ \A i \in 1..Len(Pending(v)') : entry'[v][Pending(v)'[i]] # "free"
  <2>1. CASE v # w
    <3>1. \A c \in Entries : entry'[v][c] = entry[v][c]
      BY <1>4, <2>1
    <3>2. \A i \in 1..Len(Pending(v)) : Pending(v)[i] \in Entries
      <4>1. Pending(v) \in Seq(Entries)
        BY PendingTyped
      <4> QED
        BY <4>1
    <3>3. Pending(v)' = Pending(v)
      BY <1>6, <2>1
    <3> QED
      BY <3>1, <3>2, <3>3 DEF AnswerInv, HandInv
  <2>2. CASE v = w
    <3>1. \A i, j \in 1..n : Pending(w)[i] = Pending(w)[j] => i = j
      BY DEF AnswerInv, HandInv, n
    <3>2. \A i \in 1..n : entry[w][Pending(w)[i]] # "free"
      BY DEF AnswerInv, HandInv, n
    <3>3. \A i, j \in 1..(n + 1) : Pending(w)'[i] = Pending(w)'[j] => i = j
      BY <1>6, <1>7, <1>8, <3>1
    <3>4. \A i \in 1..(n + 1) : entry'[w][Pending(w)'[i]] # "free"
      BY <1>2, <1>4, <1>6, <1>7, <1>8, <3>2
    <3> QED
      BY <1>6, <2>2, <3>3, <3>4
  <2> QED
    BY <2>1, <2>2
<1>10. HandInv'
  <2>1. \A v \in Services : pc'[v] \in {"wait", "pause"} => item'[v] = NoEntry
    BY <1>1 DEF AnswerInv, HandInv
  <2> QED
    BY <1>9, <2>1 DEF HandInv
<1>11. Stale' <=> Stale
  BY <1>1 DEF Stale, Synchronous, HashMayFail
<1>12. ASSUME NEW v \in Services, NEW c \in Entries, NEW i, Answers(events, i, v, c)
       PROVE  /\ entry'[v][c] # "free"
              /\ \A k \in 1..Len(Pending(v)') : Pending(v)'[k] # c
              /\ \A j : Answers(events, j, v, c) => i = j
              /\ events[i].good => Stale' \/ entry'[v][c] = "valid"
  <2>1. /\ entry[v][c] # "free"
        /\ \A k \in 1..Len(Pending(v)) : Pending(v)[k] # c
        /\ \A j : Answers(events, j, v, c) => i = j
        /\ events[i].good => Stale \/ entry[v][c] = "valid"
    BY <1>12 DEF AnswerInv, AnsweredOnce
  <2>2. (v # w \/ c # b) /\ entry'[v][c] = entry[v][c]
    BY <1>4, <2>1
  <2>3. \A k \in 1..Len(Pending(v)') : Pending(v)'[k] # c
    <3>1. CASE v # w
      BY <1>6, <2>1, <3>1
    <3>2. CASE v = w
      BY <1>6, <1>8, <2>1, <2>2, <3>2 DEF n
    <3> QED
      BY <3>1, <3>2
  <2> QED
    BY <1>11, <2>1, <2>2, <2>3
<1>13. AnsweredOnce(events)'
  BY <1>1, <1>12 DEF AnsweredOnce, Answers
<1> QED
  BY <1>10, <1>13 DEF AnswerInv

LEMMA NextAnswerInv == IInv /\ AnswerInv /\ [Next]_vars => AnswerInv'
<1> SUFFICES ASSUME IInv, AnswerInv, [Next]_vars PROVE AnswerInv'
  OBVIOUS
<1>1. TypeOK /\ events \in Seq(Event) /\ AnsweredOnce(events)
  BY DEF IInv, TypeOK, AnswerInv
<1>2. ASSUME UNCHANGED <<scenario, entry, queue, item, pc, events>> PROVE AnswerInv'
  <2>1. \A w \in Services : pc'[w] \in {"wait", "pause"} => item'[w] = NoEntry
    BY <1>2 DEF AnswerInv, HandInv
  <2> QED
    BY <1>1, <1>2, <2>1, SamePending, SameAnswers
<1>3. ASSUME NEW p \in Processes, Poll(p) PROVE AnswerInv'
  BY <1>1, <1>3, RunAnswers DEF Poll
<1>4. ASSUME NEW p \in Processes, Deliver(p) PROVE AnswerInv'
  <2>1. PICK d \in {0, 1} : Follows(Seen, d, p)
    BY <1>1, <1>4, SeenFollows DEF Deliver
  <2>2. AnsweredOnce(Seen)
    BY <1>1, <2>1, AnsweredFollows
  <2>3. Run(p, Seen) /\ UNCHANGED <<scenario, entry>> /\ Seen \in Seq(Event)
    BY <1>4, <2>1 DEF Deliver, Follows
  <2> QED
    BY <2>2, <2>3, RunAnswers
<1>5. CASE PkaInterrupt
  BY <1>2, <1>5 DEF PkaInterrupt
<1>6. CASE UNCHANGED vars
  BY <1>2, <1>6 DEF vars
<1> QED
  BY <1>3, <1>4, <1>5, <1>6, ResultAnswers, QueueMessageAnswers DEF Next, System

LEMMA InitPending ==
    ASSUME Init, NEW w \in Services
    PROVE  Pending(w) = <<>>
<1>1. item[w] = NoEntry /\ queue[w] = <<>>
  BY DEF Init
<1> QED
  BY <1>1, InitIInv, PendingTyped

LEMMA InitAnswerInv == Init => AnswerInv
<1> SUFFICES ASSUME Init PROVE AnswerInv
  OBVIOUS
<1>1. \A w \in Services : \A i : i \notin 1..Len(Pending(w))
  BY InitPending
<1>2. HandInv
  BY <1>1 DEF HandInv, Init
<1>3. \A i, v, c : ~Answers(events, i, v, c)
  BY DEF Init, Answers
<1> QED
  BY <1>2, <1>3 DEF AnswerInv, AnsweredOnce

(* Except where a hash fails on the nrf52840, a result event that reports a       *)
(* success is for a message whose own signature was found good: the entry it   *)
(* names has not been freed and allotted anew in between                       *)
(* (crypto-support.c:51-170).                                                 *)
THEOREM SuccessesAreOwn == Spec => []SuccessIsOwn
<1> DEFINE I == IInv /\ AnswerInv
<1>1. Init => I
  BY InitIInv, InitAnswerInv
<1>2. I /\ [Next]_vars => I'
  BY NextIInv, NextAnswerInv
<1>3. I => SuccessIsOwn
  <2> SUFFICES ASSUME IInv, AnswerInv, ~Stale, NEW i \in 1..Len(events), events[i].ev = "result", events[i].good
               PROVE  entry[events[i].of][events[i].entry] = "valid"
    BY DEF SuccessIsOwn, Stale
  <2>1. events[i] \in Event
    BY DEF IInv, TypeOK
  <2>2. events[i].of \in Services /\ events[i].entry \in Entries
    BY <2>1 DEF Event
  <2>3. Answers(events, i, events[i].of, events[i].entry)
    BY DEF Answers
  <2> QED
    BY <2>2, <2>3 DEF AnswerInv, AnsweredOnce
<1> QED
  BY <1>1, <1>2, <1>3, PTL DEF Spec
-----------------------------------------------------------------------------
(* The services are first-in first-out.  Answered is computed by recursion on    *)
(* the events; what it yields is shown by induction on their number.          *)
IsAnswer(e, w) == e.ev = "result" /\ e.of = w

AnswerStep(f, s, w, n) == IF IsAnswer(s[n], w) THEN Append(f[n - 1], s[n].entry) ELSE f[n - 1]

(* f[n] are the answers of service w among the first n events of s. *)
Counts(f, s, w, k) == f = [n \in 0..k |-> IF n = 0 THEN <<>> ELSE AnswerStep(f, s, w, n)]

LessThan == {ss \in Nat \X Nat : ss[1] < ss[2]}

LEMMA LessThanWellFounded == IsWellFoundedOn(LessThan, Nat)
BY NatLessThanWellFounded DEF OpToRel, LessThan

LEMMA Induct ==
    ASSUME NEW S, 0 \in S, \A n \in Nat : n \in S => n + 1 \in S
    PROVE  Nat \subseteq S
<1> SUFFICES ASSUME NEW bad \in Nat, bad \notin S PROVE FALSE
  OBVIOUS
<1> DEFINE B == {n \in Nat : n \notin S}
<1>1. \E n \in B : \A m \in B : ~ (<<m, n>> \in LessThan)
  <2>1. B \subseteq Nat /\ B # {}
    OBVIOUS
  <2> HIDE DEF B
  <2> QED
    BY <2>1, LessThanWellFounded, WFMin
<1>2. PICK n \in B : \A m \in B : ~(m < n)
  BY <1>1 DEF LessThan
<1>3. n # 0 /\ n - 1 \in Nat
  OBVIOUS
<1>4. n - 1 \in S
  BY <1>2, <1>3
<1> QED
  BY <1>2, <1>3, <1>4

LEMMA CountsExists ==
    ASSUME NEW s, NEW w, NEW k \in Nat
    PROVE  \E f : Counts(f, s, w, k)
<1> DEFINE S == {n \in Nat : \E f : Counts(f, s, w, n)}
<1>1. 0 \in S
  <2> DEFINE f == [n \in 0..0 |-> <<>>]
  <2>1. \A n \in 0..0 : n = 0
    OBVIOUS
  <2>2. Counts(f, s, w, 0)
    BY <2>1 DEF Counts
  <2> QED
    BY <2>2
<1>2. ASSUME NEW n \in Nat, n \in S PROVE n + 1 \in S
  <2>1. PICK f : Counts(f, s, w, n)
    BY <1>2
  <2> DEFINE G(i) == IF i = 0 THEN <<>> ELSE AnswerStep(f, s, w, i)
             g == [i \in 0..(n + 1) |-> G(i)]
  <2>2. \A i \in 0..n : f[i] = G(i)
    BY <2>1 DEF Counts
  <2>3. \A i \in 0..n : g[i] = f[i]
    BY <2>2
  <2>4. \A i \in 0..(n + 1) : i # 0 => i - 1 \in 0..n
    OBVIOUS
  <2>5. \A i \in 0..(n + 1) : i # 0 => AnswerStep(f, s, w, i) = AnswerStep(g, s, w, i)
    BY <2>3, <2>4 DEF AnswerStep
  <2>6. Counts(g, s, w, n + 1)
    BY <2>5 DEF Counts
  <2> QED
    BY <2>6
<1>3. Nat \subseteq S
  <2> HIDE DEF S
  <2> QED
    BY <1>1, <1>2, Induct
<1> QED
  BY <1>3

LEMMA AnswersCounted ==
    ASSUME NEW T, NEW s \in Seq(T), NEW w
    PROVE  \E f : Counts(f, s, w, Len(s)) /\ AnswersIn(s, w) = f[Len(s)]
<1> DEFINE Fn(f) == [n \in 0..Len(s) |-> IF n = 0 THEN <<>>
                                   ELSE IF s[n].ev = "result" /\ s[n].of = w THEN Append(f[n - 1], s[n].entry)
                                   ELSE f[n - 1]]
           f0 == CHOOSE f : f = Fn(f)
<1>1. \A f : Counts(f, s, w, Len(s)) <=> f = Fn(f)
  BY DEF Counts, AnswerStep, IsAnswer
<1>2. Len(s) \in Nat
  BY LenProperties
<1>3. \E f : f = Fn(f)
  BY <1>1, <1>2, CountsExists
<1>4. f0 = Fn(f0)
  <2> HIDE DEF Fn
  <2> QED
    BY <1>3
<1>5. AnswersIn(s, w) = f0[Len(s)]
  BY DEF AnswersIn
<1> HIDE DEF f0
<1> QED
  BY <1>1, <1>4, <1>5
LEMMA CountsAt ==
    ASSUME NEW f, NEW s, NEW w, NEW k \in Nat, Counts(f, s, w, k)
    PROVE  f[0] = <<>> /\ \A n \in 0..k : n + 1 <= k => f[n + 1] = AnswerStep(f, s, w, n + 1)
<1>1. \A n \in 0..k : f[n] = IF n = 0 THEN <<>> ELSE AnswerStep(f, s, w, n)
  BY DEF Counts
<1>2. 0 \in 0..k /\ \A n \in 0..k : n + 1 <= k => n + 1 \in 0..k /\ n + 1 # 0
  OBVIOUS
<1> HIDE DEF AnswerStep
<1> QED
  BY <1>1, <1>2

(* The answers among the first n events depend on these only. *)
LEMMA CountsPrefix ==
    ASSUME NEW f, NEW g, NEW s, NEW t, NEW w, NEW k \in Nat, NEW l \in Nat,
           Counts(f, s, w, k), Counts(g, t, w, l),
           NEW n \in Nat, n <= k, n <= l, \A i \in 1..n : s[i] = t[i]
    PROVE  f[n] = g[n]
<1> DEFINE S == {i \in Nat : i <= n => f[i] = g[i]}
<1>1. 0 \in S
  BY CountsAt
<1>2. ASSUME NEW i \in Nat, i \in S PROVE i + 1 \in S
  <2> SUFFICES ASSUME i + 1 <= n PROVE f[i + 1] = g[i + 1]
    OBVIOUS
  <2>1. f[i] = g[i] /\ s[i + 1] = t[i + 1]
    BY <1>2
  <2>2. i \in 0..k /\ i \in 0..l /\ i + 1 <= k /\ i + 1 <= l /\ i + 1 - 1 = i
    OBVIOUS
  <2>3. f[i + 1] = AnswerStep(f, s, w, i + 1) /\ g[i + 1] = AnswerStep(g, t, w, i + 1)
    BY <2>2, CountsAt
  <2> QED
    BY <2>1, <2>2, <2>3 DEF AnswerStep
<1>3. Nat \subseteq S
  <2> HIDE DEF S
  <2> QED
    BY <1>1, <1>2, Induct
<1> QED
  BY <1>3

(* Events that are no answers add nothing. *)
LEMMA CountsSkip ==
    ASSUME NEW f, NEW s, NEW w, NEW k \in Nat, Counts(f, s, w, k),
           NEW m \in Nat, NEW n \in Nat, m <= n, n <= k,
           \A i \in 1..k : m < i /\ i <= n => ~IsAnswer(s[i], w)
    PROVE  f[n] = f[m]
<1> DEFINE S == {i \in Nat : m <= i /\ i <= n => f[i] = f[m]}
<1>1. 0 \in S
  OBVIOUS
<1>2. ASSUME NEW i \in Nat, i \in S PROVE i + 1 \in S
  <2> SUFFICES ASSUME m <= i + 1, i + 1 <= n, i + 1 # m PROVE f[i + 1] = f[m]
    OBVIOUS
  <2>1. m <= i /\ i <= n /\ i \in 0..k /\ i + 1 <= k /\ i + 1 \in 1..k /\ m < i + 1 /\ i + 1 - 1 = i
    OBVIOUS
  <2>2. f[i] = f[m]
    BY <1>2, <2>1
  <2>3. f[i + 1] = AnswerStep(f, s, w, i + 1)
    BY <2>1, CountsAt
  <2> QED
    BY <2>1, <2>2, <2>3 DEF AnswerStep
<1>3. Nat \subseteq S
  <2> HIDE DEF S
  <2> QED
    BY <1>1, <1>2, Induct
<1> QED
  BY <1>3

AnswerSet(s, w) == {c \in Entries : \E i : Answers(s, i, w, c)}

LEMMA CountsTyped ==
    ASSUME NEW f, NEW s \in Seq(Event), NEW w, Counts(f, s, w, Len(s)), NEW n \in 0..Len(s)
    PROVE  f[n] \in Seq(AnswerSet(s, w))
<1> DEFINE A == AnswerSet(s, w)
           S == {i \in Nat : i <= Len(s) => f[i] \in Seq(A)}
<1>0. Len(s) \in Nat
  BY LenProperties
<1>1. 0 \in S
  <2>1. f[0] = <<>>
    BY <1>0, CountsAt
  <2>2. <<>> \in Seq(A)
    OBVIOUS
  <2> QED
    BY <2>1, <2>2
<1>2. ASSUME NEW i \in Nat, i \in S PROVE i + 1 \in S
  <2> SUFFICES ASSUME i + 1 <= Len(s) PROVE f[i + 1] \in Seq(A)
    OBVIOUS
  <2>1. i <= Len(s) /\ i \in 0..Len(s) /\ i + 1 \in 1..Len(s) /\ i + 1 - 1 = i
    BY <1>0
  <2>2. f[i] \in Seq(A)
    BY <1>2, <2>1
  <2>3. f[i + 1] = AnswerStep(f, s, w, i + 1)
    BY <1>0, <2>1, CountsAt
  <2>4. CASE IsAnswer(s[i + 1], w)
    <3>1. s[i + 1] \in Event /\ s[i + 1].ev = "result" /\ s[i + 1].of = w
      BY <2>1, <2>4 DEF IsAnswer
    <3>2. s[i + 1].entry \in Entries
      BY <3>1 DEF Event
    <3>3. s[i + 1].entry \in A
      BY <2>1, <3>1, <3>2 DEF AnswerSet, Answers
    <3>4. f[i + 1] = Append(f[i], s[i + 1].entry)
      BY <2>1, <2>3, <2>4 DEF AnswerStep
    <3> HIDE DEF A
    <3> QED
      BY <2>2, <3>3, <3>4, AppendProperties
  <2>5. CASE ~IsAnswer(s[i + 1], w)
    BY <2>1, <2>2, <2>3, <2>5 DEF AnswerStep
  <2> QED
    BY <2>4, <2>5
<1>3. Nat \subseteq S
  <2> HIDE DEF S
  <2> QED
    BY <1>1, <1>2, Induct
<1> QED
  BY <1>0, <1>3

LEMMA ConsAppend ==
    ASSUME NEW S, NEW x \in S, NEW y \in S, NEW s \in Seq(S)
    PROVE  Append(<<x>> \o s, y) = <<x>> \o Append(s, y)
<1>1. <<x>> \in Seq(S) /\ <<y>> \in Seq(S)
  OBVIOUS
<1>2. <<x>> \o s \in Seq(S)
  BY <1>1, ConcatProperties
<1>3. Append(<<x>> \o s, y) = (<<x>> \o s) \o <<y>>
  BY <1>2, AppendIsConcat
<1>4. Append(s, y) = s \o <<y>>
  BY AppendIsConcat
<1> QED
  BY <1>1, <1>3, <1>4, ConcatAssociative

(* The answers among s are the one at its head, if it is one, and those of its   *)
(* tail.                                                                    *)
PutFirst(e, w, q) == IF IsAnswer(e, w) THEN <<e.entry>> \o q ELSE q

LEMMA CountsCons ==
    ASSUME NEW f, NEW g, NEW s \in Seq(Event), NEW t \in Seq(Event), NEW w,
           Counts(f, s, w, Len(s)), Counts(g, t, w, Len(t)), Len(s) = Len(t) + 1,
           \A i \in 1..Len(t) : t[i] = s[i + 1]
    PROVE  f[Len(s)] = PutFirst(s[1], w, g[Len(t)])
<1> DEFINE h(q) == IF IsAnswer(s[1], w) THEN <<s[1].entry>> \o q ELSE q
           S == {i \in Nat : i <= Len(t) => f[i + 1] = h(g[i])}
<1>0. Len(s) \in Nat /\ Len(t) \in Nat
  BY LenProperties
<1>1. /\ f[0] = <<>> /\ \A n \in 0..Len(s) : n + 1 <= Len(s) => f[n + 1] = AnswerStep(f, s, w, n + 1)
      /\ g[0] = <<>> /\ \A n \in 0..Len(t) : n + 1 <= Len(t) => g[n + 1] = AnswerStep(g, t, w, n + 1)
  BY <1>0, CountsAt
<1>2. IsAnswer(s[1], w) => s[1].entry \in Entries
  <2>1. 1 \in 1..Len(s)
    BY <1>0
  <2>2. s[1] \in Event
    BY <2>1
  <2> QED
    BY <2>2 DEF IsAnswer, Event
<1>3. 0 \in S
  <2>1. 0 \in 0..Len(s) /\ 0 + 1 <= Len(s) /\ 0 + 1 = 1 /\ 1 - 1 = 0
    BY <1>0
  <2>2. f[1] = AnswerStep(f, s, w, 1)
    BY <1>1, <2>1
  <2>3. f[1] = IF IsAnswer(s[1], w) THEN Append(<<>>, s[1].entry) ELSE <<>>
    BY <1>1, <2>1, <2>2 DEF AnswerStep
  <2>4. IsAnswer(s[1], w) => Append(<<>>, s[1].entry) = <<s[1].entry>> \o <<>>
    <3>1. ASSUME IsAnswer(s[1], w) PROVE Append(<<>>, s[1].entry) = <<s[1].entry>> \o <<>>
      <4>1. Append(<<>>, s[1].entry) = <<s[1].entry>> /\ <<s[1].entry>> \in Seq(Entries)
        BY <1>2, <3>1
      <4> QED
        BY <4>1, ConcatEmptySeq
    <3> QED
      BY <3>1
  <2> QED
    BY <1>1, <2>1, <2>3, <2>4
<1>4. ASSUME NEW i \in Nat, i \in S PROVE i + 1 \in S
  <2> SUFFICES ASSUME i + 1 <= Len(t) PROVE f[i + 1 + 1] = h(g[i + 1])
    OBVIOUS
  <2>1. /\ i <= Len(t) /\ i \in 0..Len(t) /\ i + 1 \in 0..Len(s) /\ i + 1 + 1 <= Len(s)
        /\ i + 1 \in 1..Len(t) /\ i + 1 - 1 = i /\ i + 1 + 1 - 1 = i + 1
    BY <1>0
  <2>2. f[i + 1] = h(g[i]) /\ t[i + 1] = s[i + 1 + 1]
    BY <1>4, <2>1
  <2>3. f[i + 1 + 1] = AnswerStep(f, s, w, i + 1 + 1) /\ g[i + 1] = AnswerStep(g, t, w, i + 1)
    BY <1>1, <2>1
  <2> HIDE DEF h
  <2>4. CASE ~IsAnswer(t[i + 1], w)
    BY <2>1, <2>2, <2>3, <2>4 DEF AnswerStep
  <2>5. CASE IsAnswer(t[i + 1], w)
    <3> DEFINE y == t[i + 1].entry
               q == g[i]
    <3>0. IsAnswer(s[i + 1 + 1], w) /\ s[i + 1 + 1].entry = y
      BY <2>2, <2>5
    <3>1. f[i + 1 + 1] = Append(h(q), y) /\ g[i + 1] = Append(q, y)
      <4>1. g[i + 1] = Append(g[i + 1 - 1], y)
        BY <2>3, <2>5 DEF AnswerStep
      <4>2. f[i + 1 + 1] = Append(f[i + 1 + 1 - 1], y)
        <5> DEFINE n == i + 1 + 1
        <5>1. f[n] = AnswerStep(f, s, w, n) /\ IsAnswer(s[n], w) /\ s[n].entry = y
          BY <2>3, <3>0
        <5> HIDE DEF n, y
        <5>2. f[n] = Append(f[n - 1], y)
          BY <5>1 DEF AnswerStep
        <5> QED
          BY <5>2 DEF n
      <4> QED
        BY <2>1, <2>2, <4>1, <4>2
    <3>2. y \in Entries
      <4>1. t[i + 1] \in Event
        BY <2>1
      <4> QED
        BY <2>5, <4>1 DEF IsAnswer, Event
    <3>3. q \in Seq(Entries)
      <4>1. q \in Seq(AnswerSet(t, w)) /\ AnswerSet(t, w) \subseteq Entries
        BY <2>1, CountsTyped DEF AnswerSet
      <4> QED
        BY <4>1
    <3> HIDE DEF y, q
    <3>4. Append(h(q), y) = h(Append(q, y))
      BY <1>2, <3>2, <3>3, ConsAppend DEF h
    <3> QED
      BY <3>1, <3>4
  <2> QED
    BY <2>4, <2>5
<1>5. Nat \subseteq S
  <2> HIDE DEF S
  <2> QED
    BY <1>3, <1>4, Induct
<1>6. f[Len(t) + 1] = h(g[Len(t)])
  BY <1>0, <1>5
<1> QED
  BY <1>6 DEF PutFirst
LEMMA AnswersTyped ==
    ASSUME NEW s \in Seq(Event), NEW w
    PROVE  AnswersIn(s, w) \in Seq(AnswerSet(s, w)) /\ AnswersIn(s, w) \in Seq(Entries)
<1>1. PICK f : Counts(f, s, w, Len(s)) /\ AnswersIn(s, w) = f[Len(s)]
  BY AnswersCounted
<1>2. Len(s) \in 0..Len(s)
  <2>1. Len(s) \in Nat
    BY LenProperties
  <2> QED
    BY <2>1
<1>3. AnswersIn(s, w) \in Seq(AnswerSet(s, w)) /\ AnswerSet(s, w) \subseteq Entries
  BY <1>1, <1>2, CountsTyped DEF AnswerSet
<1> QED
  BY <1>3

LEMMA AnswersOfTail ==
    ASSUME NEW s \in Seq(Event), s # <<>>, NEW w
    PROVE  AnswersIn(s, w) = PutFirst(Head(s), w, AnswersIn(Tail(s), w))
<1> DEFINE t == Tail(s)
<1>1. /\ t \in Seq(Event) /\ Head(s) = s[1] /\ Len(t) = Len(s) - 1 /\ \A i \in 1..Len(t) : t[i] = s[i + 1]
      /\ Len(s) \in Nat
  BY HeadTailProperties, LenProperties
<1>2. PICK f : Counts(f, s, w, Len(s)) /\ AnswersIn(s, w) = f[Len(s)]
  BY AnswersCounted
<1> HIDE DEF t
<1>3. PICK g : Counts(g, t, w, Len(t)) /\ AnswersIn(t, w) = g[Len(t)]
  BY <1>1, AnswersCounted
<1>4. Len(s) = Len(t) + 1
  BY <1>1
<1>5. f[Len(s)] = PutFirst(s[1], w, g[Len(t)])
  BY <1>1, <1>2, <1>3, <1>4, CountsCons
<1> QED
  BY <1>1, <1>2, <1>3, <1>5 DEF t

(* The first event may be exchanged for another that is no answer. *)
LEMMA AnswersExchanged ==
    ASSUME NEW s \in Seq(Event), NEW x \in Event, x.ev # "result", NEW w
    PROVE  AnswersIn(<<x>> \o s, w) = AnswersIn(s, w)
<1> DEFINE t == <<x>> \o s
<1>1. t \in Seq(Event)
  <2>1. <<x>> \in Seq(Event)
    OBVIOUS
  <2> QED
    BY <2>1, ConcatProperties
<1>2. t # <<>> /\ Head(t) = x /\ Tail(t) = s
  BY ConsProperties
<1> HIDE DEF t
<1>3. AnswersIn(t, w) = PutFirst(Head(t), w, AnswersIn(Tail(t), w))
  BY <1>1, <1>2, AnswersOfTail
<1> QED
  BY <1>2, <1>3 DEF IsAnswer, PutFirst, t

(* What is posted adds to the answers, or does not. *)
LEMMA AnswersGrown ==
    ASSUME NEW s \in Seq(Event), NEW t \in Seq(Event), NEW w, Len(s) <= Len(t),
           \A i \in 1..Len(s) : t[i] = s[i]
    PROVE  /\ (\A i \in 1..Len(t) : i > Len(s) => ~IsAnswer(t[i], w)) => AnswersIn(t, w) = AnswersIn(s, w)
           /\ \A k \in 1..Len(t) :
                 k > Len(s) /\ IsAnswer(t[k], w) /\ (\A i \in 1..Len(t) : i > Len(s) /\ IsAnswer(t[i], w) => i = k)
                    => AnswersIn(t, w) = Append(AnswersIn(s, w), t[k].entry)
<1>1. PICK f : Counts(f, s, w, Len(s)) /\ AnswersIn(s, w) = f[Len(s)]
  BY AnswersCounted
<1>2. PICK g : Counts(g, t, w, Len(t)) /\ AnswersIn(t, w) = g[Len(t)]
  BY AnswersCounted
<1>3. Len(s) \in Nat /\ Len(t) \in Nat /\ Len(s) <= Len(s) /\ Len(t) <= Len(t)
  BY LenProperties
<1>4. g[Len(s)] = f[Len(s)]
  BY <1>1, <1>2, <1>3, CountsPrefix
<1>5. ASSUME \A i \in 1..Len(t) : i > Len(s) => ~IsAnswer(t[i], w)
      PROVE  AnswersIn(t, w) = AnswersIn(s, w)
  <2>1. \A i \in 1..Len(t) : Len(s) < i /\ i <= Len(t) => ~IsAnswer(t[i], w)
    BY <1>3, <1>5
  <2>2. g[Len(t)] = g[Len(s)]
    BY <1>2, <1>3, <2>1, CountsSkip
  <2> QED
    BY <1>1, <1>2, <1>4, <2>2
<1>6. ASSUME NEW k \in 1..Len(t), k > Len(s), IsAnswer(t[k], w),
             \A i \in 1..Len(t) : i > Len(s) /\ IsAnswer(t[i], w) => i = k
      PROVE  AnswersIn(t, w) = Append(AnswersIn(s, w), t[k].entry)
  <2>1. /\ k \in Nat /\ k - 1 \in Nat /\ Len(s) <= k - 1 /\ k - 1 <= Len(t) /\ k <= Len(t)
        /\ k - 1 \in 0..Len(t) /\ k - 1 + 1 = k
    BY <1>3, <1>6
  <2>2. \A i \in 1..Len(t) : Len(s) < i /\ i <= k - 1 => ~IsAnswer(t[i], w)
    BY <1>3, <1>6, <2>1
  <2>3. \A i \in 1..Len(t) : k < i /\ i <= Len(t) => ~IsAnswer(t[i], w)
    BY <1>3, <1>6, <2>1
  <2>4. g[k - 1] = g[Len(s)]
    <3> DEFINE j == k - 1
    <3>1. j \in Nat /\ Len(s) <= j /\ j <= Len(t) /\ \A i \in 1..Len(t) : Len(s) < i /\ i <= j => ~IsAnswer(t[i], w)
      BY <2>1, <2>2
    <3> HIDE DEF j
    <3>2. g[j] = g[Len(s)]
      BY <1>2, <1>3, <3>1, CountsSkip
    <3> QED
      BY <3>2 DEF j
  <2>5. g[Len(t)] = g[k]
    BY <1>2, <1>3, <2>1, <2>3, CountsSkip
  <2>6. g[k] = AnswerStep(g, t, w, k)
    BY <1>2, <1>3, <2>1, CountsAt
  <2>7. g[k] = Append(g[k - 1], t[k].entry)
    BY <1>6, <2>6 DEF AnswerStep
  <2> QED
    BY <1>1, <1>2, <1>4, <2>4, <2>5, <2>7
<1> QED
  BY <1>5, <1>6

(* What the abstract specification sees of a step. *)
SameAnswered(v) == Answered(v)' = Answered(v)
SamePendings(v) == Pending(v)' = Pending(v)

LEMMA AbstractStutter ==
    ASSUME scenario' = scenario, \A v \in Services : SamePendings(v) /\ SameAnswered(v)
    PROVE  UNCHANGED Service!vars
BY DEF Service!vars, SamePendings, SameAnswered, PostMayFail

LEMMA AbstractAnswer ==
    ASSUME scenario' = scenario, NEW w \in Services, Pending(w) # <<>>, Pending(w)' = Tail(Pending(w)),
           Answered(w)' = Append(Answered(w), Head(Pending(w))),
           \A v \in Services : v # w => SamePendings(v) /\ SameAnswered(v)
    PROVE  Service!Answer(w)
BY DEF Service!Answer, SamePendings, SameAnswered, PostMayFail

LEMMA AbstractLose ==
    ASSUME scenario' = scenario, PostMayFail, NEW w \in Services, Pending(w) # <<>>, Pending(w)' = Tail(Pending(w)),
           SameAnswered(w), \A v \in Services : v # w => SamePendings(v) /\ SameAnswered(v)
    PROVE  Service!Lose(w)
BY DEF Service!Lose, SamePendings, SameAnswered, PostMayFail

LEMMA AbstractCollect ==
    ASSUME scenario' = scenario, NEW w \in Services, Answered(w) # <<>>, Answered(w)' = Tail(Answered(w)),
           SamePendings(w), \A v \in Services : v # w => SamePendings(v) /\ SameAnswered(v)
    PROVE  Service!Collect(w)
BY DEF Service!Collect, SamePendings, SameAnswered, PostMayFail

LEMMA AbstractSubmit ==
    ASSUME scenario' = scenario, NEW w \in Services, NEW b \in Entries,
           \A i \in DOMAIN Pending(w) : Pending(w)[i] # b, \A i \in DOMAIN Answered(w) : Answered(w)[i] # b,
           Pending(w)' = Append(Pending(w), b),
           SameAnswered(w), \A v \in Services : v # w => SamePendings(v) /\ SameAnswered(v)
    PROVE  Service!Submit(w, b)
BY DEF Service!Submit, Service!InUse, SamePendings, SameAnswered, PostMayFail
(* A run that posts no result and takes nothing out of a service's hands changes *)
(* nothing for the clients.                                                  *)
LEMMA QuietRefines ==
    ASSUME scenario' = scenario, \A v \in Services : Pending(v)' = Pending(v),
           NEW rest \in Seq(Event), events' \in Seq(Event), Len(rest) <= Len(events'),
           \A v \in Services : AnswersIn(rest, v) = Answered(v),
           \A i \in 1..Len(rest) : events'[i] = rest[i],
           \A i \in 1..Len(events') : i > Len(rest) => events'[i].ev # "result"
    PROVE  UNCHANGED Service!vars
<1> DEFINE t == events'
<1>1. /\ t \in Seq(Event) /\ Len(rest) <= Len(t) /\ \A i \in 1..Len(rest) : t[i] = rest[i]
      /\ \A i \in 1..Len(t) : i > Len(rest) => t[i].ev # "result"
  OBVIOUS
<1>2. \A v \in Services : Answered(v)' = AnswersIn(t, v)
  BY DEF Answered
<1> HIDE DEF t
<1>3. ASSUME NEW v \in Services PROVE AnswersIn(t, v) = AnswersIn(rest, v)
  <2>1. \A i \in 1..Len(t) : i > Len(rest) => ~IsAnswer(t[i], v)
    BY <1>1 DEF IsAnswer
  <2> QED
    BY <1>1, <2>1, AnswersGrown
<1>4. \A v \in Services : SamePendings(v) /\ SameAnswered(v)
  BY <1>2, <1>3 DEF SamePendings, SameAnswered
<1> QED
  BY <1>4, AbstractStutter

LEMMA RestRefines ==
    ASSUME scenario' = scenario, \A v \in Services : Pending(v)' = Pending(v),
           NEW rest \in Seq(Event), events' = rest,
           \A v \in Services : AnswersIn(rest, v) = Answered(v)
    PROVE  UNCHANGED Service!vars
<1>1. Len(rest) \in Nat
  BY LenProperties
<1>2. events' \in Seq(Event) /\ Len(rest) <= Len(events')
  BY <1>1
<1>3. \A i \in 1..Len(events') : ~(i > Len(rest))
  BY <1>1
<1> QED
  BY <1>2, <1>3, QuietRefines

(* The end of an operation answers the entry at hand, or loses the answer. *)
LEMMA FinishesRefines ==
    ASSUME IInv, AnswerInv, NEW w \in Services, NEW rest \in Seq(Event), Finishes(w, rest),
           scenario' = scenario, \A v \in Services : AnswersIn(rest, v) = Answered(v)
    PROVE  Service!Answer(w) \/ Service!Lose(w)
<1>1. PICK b \in Entries, r \in BOOLEAN, rel \in {<<>>, Inform} : Takes(w, b) /\ Ends(w, b, r, rel, rest)
  BY DEF Finishes
<1>2. item' = [item EXCEPT ![w] = NoEntry] /\ b # NoEntry
  BY <1>1, EntriesAssumption DEF Ends
<1>3. /\ Pending(w) # <<>> /\ Head(Pending(w)) = b /\ Pending(w)' = Tail(Pending(w))
      /\ \A v \in Services : v # w => Pending(v)' = Pending(v)
  BY <1>1, <1>2, PendingTaken DEF AnswerInv
<1> DEFINE t == events'
           Posted == \E i \in 1..Len(t) : i > Len(rest) /\ t[i].ev = "result"
<1>4. /\ t \in Seq(Event) /\ Len(rest) <= Len(t) /\ \A i \in 1..Len(rest) : t[i] = rest[i]
      /\ \A i \in 1..Len(t) : i > Len(rest) /\ t[i].ev = "result" =>
            i = Len(rest) + Len(rel) + 1 /\ t[i] = ResultEvent(w, b, r)
      /\ ~PostMayFail => Posted
  <2>1. /\ events' \in Seq(Event) /\ Len(rest) <= Len(events')
        /\ \A i \in 1..Len(rest) : events'[i] = rest[i]
        /\ \A i \in 1..Len(events') : i > Len(rest) /\ events'[i].ev = "result" =>
              i = Len(rest) + Len(rel) + 1 /\ events'[i] = ResultEvent(w, b, r)
        /\ ~PostMayFail => \E i \in 1..Len(events') : i > Len(rest) /\ events'[i].ev = "result"
    <3>1. Ends(w, b, r, rel, rest)
      BY <1>1
    <3> HIDE DEF Posted, t
    <3> QED
      BY ONLY <3>1, EndsEvents, w \in Services, b \in Entries, r \in BOOLEAN, rel \in {<<>>, Inform},
              rest \in Seq(Event)
  <2>2. ~PostMayFail => Posted
    BY <2>1
  <2> QED
    BY <2>1, <2>2
<1>5. \A v \in Services : Answered(v)' = AnswersIn(t, v)
  BY DEF Answered
<1> HIDE DEF t
<1>6. \A i \in 1..Len(t) : i > Len(rest) /\ t[i].ev = "result" =>
         t[i].of = w /\ t[i].entry = b
  BY <1>4 DEF ResultEvent
<1>7. ASSUME NEW v \in Services, v # w PROVE SamePendings(v) /\ SameAnswered(v)
  <2>1. \A i \in 1..Len(t) : i > Len(rest) => ~IsAnswer(t[i], v)
    BY <1>6, <1>7 DEF IsAnswer
  <2>2. AnswersIn(t, v) = AnswersIn(rest, v)
    BY <1>4, <2>1, AnswersGrown
  <2> QED
    BY <1>3, <1>5, <1>7, <2>2 DEF SamePendings, SameAnswered
<1>8. CASE Posted
  <2>1. PICK k \in 1..Len(t) : k > Len(rest) /\ t[k].ev = "result"
    BY <1>8
  <2>2. IsAnswer(t[k], w) /\ t[k].entry = b
    BY <1>6, <2>1 DEF IsAnswer
  <2>3. \A i \in 1..Len(t) : i > Len(rest) /\ IsAnswer(t[i], w) => i = k
    BY <1>4, <2>1 DEF IsAnswer
  <2>4. AnswersIn(t, w) = Append(AnswersIn(rest, w), b)
    BY <1>4, <2>1, <2>2, <2>3, AnswersGrown
  <2>5. Answered(w)' = Append(Answered(w), Head(Pending(w)))
    BY <1>3, <1>5, <2>4
  <2> QED
    BY <1>3, <1>7, <2>5, AbstractAnswer
<1>9. CASE ~Posted
  <2>1. \A i \in 1..Len(t) : i > Len(rest) => ~IsAnswer(t[i], w)
    BY <1>9 DEF IsAnswer
  <2>2. AnswersIn(t, w) = AnswersIn(rest, w)
    BY <1>4, <2>1, AnswersGrown
  <2>3. SameAnswered(w)
    BY <1>5, <2>2 DEF SameAnswered
  <2>4. PostMayFail
    BY <1>4, <1>9
  <2> QED
    BY <1>3, <1>7, <2>3, <2>4, AbstractLose
<1> QED
  BY <1>8, <1>9

LEMMA EcdhAcquiredRefines ==
    ASSUME NEW rest \in Seq(Event), EcdhAcquired(rest) \/ EcdhEnds(rest), UNCHANGED <<scenario, queue>>,
           \A v \in Services : AnswersIn(rest, v) = Answered(v)
    PROVE  UNCHANGED Service!vars
<1>1. item' = item
  BY DEF EcdhAcquired, EcdhEnds
<1>2. \A v \in Services : Pending(v)' = Pending(v)
  BY <1>1, SamePending
<1>3. CASE EcdhEnds(rest)
  BY <1>2, <1>3, EcdhQueue, QuietRefines
<1>4. CASE events' = rest
  BY <1>2, <1>4, RestRefines
<1> QED
  BY <1>3, <1>4 DEF EcdhAcquired

LEMMA RunRefines ==
    ASSUME IInv, AnswerInv, NEW p \in Processes, NEW rest \in Seq(Event), Run(p, rest),
           scenario' = scenario, \A v \in Services : AnswersIn(rest, v) = Answered(v)
    PROVE  UNCHANGED Service!vars \/ \E w \in Services : Service!Answer(w) \/ Service!Lose(w)
<1>1. ASSUME Idles(rest) PROVE UNCHANGED Service!vars
  <2>1. events' = rest /\ UNCHANGED <<queue, item>>
    BY <1>1 DEF Idles
  <2> QED
    BY <2>1, SamePending, RestRefines
<1>2. CASE p \in Services
  <2>1. RunService(p, rest)
    BY <1>2 DEF Run
  <2>2. CASE Resumes(p, rest)
    <3>1. events' = rest /\ UNCHANGED <<queue, item>>
      BY <2>2 DEF Resumes
    <3>2. UNCHANGED Service!vars
      BY <3>1, SamePending, RestRefines
    <3> QED
      BY <3>2
  <2>3. CASE Holds(p, rest)
    <3>1. PICK b \in Entries : Takes(p, b) /\ item' = [item EXCEPT ![p] = b] /\ events' = rest
      BY <2>3 DEF Holds
    <3>2. Pending(p)' = Pending(p) /\ \A v \in Services : v # p => Pending(v)' = Pending(v)
      BY <1>2, <3>1, PendingTaken DEF AnswerInv
    <3>3. \A v \in Services : Pending(v)' = Pending(v)
      BY <3>2
    <3>4. UNCHANGED Service!vars
      BY <3>1, <3>3, RestRefines
    <3> QED
      BY <3>4
  <2>4. CASE Finishes(p, rest)
    <3>1. Service!Answer(p) \/ Service!Lose(p)
      BY <1>2, <2>4, FinishesRefines
    <3> QED
      BY <1>2, <3>1
  <2>5. CASE Idles(rest)
    BY <1>1, <2>5
  <2> QED
    BY <1>2, <2>1, <2>2, <2>3, <2>4, <2>5, RunServiceShape
<1>3. CASE p \notin Services
  <2>1. RunEcdh(rest)
    BY <1>3 DEF Run
  <2>2. CASE (EcdhAcquired(rest) \/ EcdhEnds(rest)) /\ UNCHANGED queue
    <3>1. UNCHANGED Service!vars
      BY <2>2, EcdhAcquiredRefines
    <3> QED
      BY <3>1
  <2>3. CASE Idles(rest)
    BY <1>1, <2>3
  <2> QED
    BY <2>1, <2>2, <2>3 DEF RunEcdh
<1> QED
  BY <1>2, <1>3

(* The event that a process is given is no answer. *)
LEMMA SeenAnswers ==
    ASSUME TypeOK, events # <<>>, NEW p \in Processes, Head(events).to # <<>>, p = Head(Head(events).to)
    PROVE  Seen \in Seq(Event) /\ \A v \in Services : AnswersIn(Seen, v) = Answered(v)
<1>1. /\ \E d \in {0, 1} : Follows(Seen, d, p)
      /\ Head(events).ev # "result"
      /\ \/ Seen = Tail(events)
         \/ \E x \in Event : x.ev # "result" /\ Seen = <<x>> \o Tail(events)
  BY SeenFollows
<1>2. events \in Seq(Event) /\ Tail(events) \in Seq(Event)
  BY DEF TypeOK
<1>3. ASSUME NEW v \in Services PROVE AnswersIn(Seen, v) = Answered(v)
  <2>1. AnswersIn(events, v) = PutFirst(Head(events), v, AnswersIn(Tail(events), v))
    BY <1>2, AnswersOfTail
  <2>2. Answered(v) = AnswersIn(Tail(events), v)
    BY <1>1, <2>1 DEF PutFirst, IsAnswer, Answered
  <2>3. CASE Seen = Tail(events)
    BY <2>2, <2>3
  <2>4. CASE \E x \in Event : x.ev # "result" /\ Seen = <<x>> \o Tail(events)
    BY <1>2, <2>2, <2>4, AnswersExchanged
  <2> QED
    BY <1>1, <2>3, <2>4
<1>4. Seen \in Seq(Event)
  BY <1>1 DEF Follows
<1> QED
  BY <1>3, <1>4

LEMMA ResultRefines ==
    ASSUME IInv, MessageDone \/ CertificateVerified
    PROVE  \E w \in Services : Service!Collect(w)
<1> DEFINE t == Tail(events)
           w == Head(events).of
           c == Head(events).entry
<1>1. events # <<>> /\ Head(events).ev = "result" /\ UNCHANGED <<scenario, queue>>
  BY DEF MessageDone, CertificateVerified
<1>2. w \in Services /\ c \in Entries /\ t \in Seq(Event) /\ events \in Seq(Event)
  BY <1>1, ResultTyped DEF IInv, TypeOK
<1>3. item' = item
  BY DEF MessageDone, CertificateVerified, EcdhAcquired, EcdhEnds, Waits
<1>4. \A v \in Services : SamePendings(v)
  BY <1>1, <1>3, SamePending DEF SamePendings
<1>5. \A v \in Services : Answered(v)' = AnswersIn(t, v)
  <2> DEFINE new == events'
  <2>1. \A v \in Services : Answered(v)' = AnswersIn(new, v)
    BY DEF Answered
  <2>2. CASE new = t
    BY <2>1, <2>2
  <2>3. CASE EcdhEnds(t)
    <3>1. /\ new \in Seq(Event) /\ Len(t) <= Len(new) /\ \A i \in 1..Len(t) : new[i] = t[i]
          /\ \A i \in 1..Len(new) : i > Len(t) => new[i].ev # "result"
      BY <1>2, <2>3, EcdhQueue
    <3> HIDE DEF new, t
    <3>2. ASSUME NEW v \in Services PROVE AnswersIn(new, v) = AnswersIn(t, v)
      <4>1. \A i \in 1..Len(new) : i > Len(t) => ~IsAnswer(new[i], v)
        BY <3>1 DEF IsAnswer
      <4> QED
        BY <1>2, <3>1, <4>1, AnswersGrown
    <3> QED
      BY <2>1, <3>2
  <2>4. events' = t \/ EcdhEnds(t)
    BY DEF MessageDone, CertificateVerified, EcdhAcquired, Waits
  <2> QED
    BY <2>2, <2>3, <2>4
<1>6. \A v \in Services : Answered(v) = PutFirst(Head(events), v, AnswersIn(t, v))
  BY <1>1, <1>2, AnswersOfTail DEF Answered
<1>7. \A v \in Services : v # w => SameAnswered(v)
  BY <1>5, <1>6 DEF PutFirst, IsAnswer, SameAnswered
<1>8. Answered(w) = <<c>> \o AnswersIn(t, w)
  BY <1>1, <1>2, <1>6 DEF PutFirst, IsAnswer
<1>9. AnswersIn(t, w) \in Seq(Entries)
  BY <1>2, AnswersTyped
<1> HIDE DEF t, w, c
<1>10. Answered(w) # <<>> /\ Tail(Answered(w)) = AnswersIn(t, w)
  BY <1>2, <1>8, <1>9, ConsProperties
<1>11. PICK x \in Services : x = w
  BY <1>2
<1>12. Service!Collect(x)
  BY <1>1, <1>4, <1>5, <1>7, <1>10, <1>11, AbstractCollect
<1> QED
  BY <1>12

LEMMA QueueMessageRefines ==
    ASSUME IInv, AnswerInv, NEW w \in Services, NEW b \in Entries, NEW m \in Messages, QueueMessage(w, b, m)
    PROVE  Service!Submit(w, b)
<1>1. /\ queue' = [queue EXCEPT ![w] = Append(queue[w], b)]
      /\ entry[w][b] = "free" /\ UNCHANGED <<scenario, item, events>>
  BY DEF QueueMessage, QueueMessageWith
<1>2. \A v \in Services : SameAnswered(v)
  BY <1>1 DEF SameAnswered, Answered
<1> DEFINE old == Pending(w)
           new == Pending(w)'
<1>3. old \in Seq(Entries) /\ Len(old) \in Nat
  BY PendingTyped
<1>4. /\ Len(new) = Len(old) + 1
      /\ \A i \in 1..Len(old) : new[i] = old[i]
      /\ new[Len(old) + 1] = b
      /\ \A v \in Services : v # w => SamePendings(v)
  BY <1>1, PendingAppended DEF SamePendings
<1>5. new \in Seq(Entries)
  <2>1. queue' \in [Services -> Seq(Entries)] /\ item' \in [Services -> Entries \cup {NoEntry}]
    BY <1>1, AppendProperties DEF IInv, TypeOK
  <2>2. queue'[w] \in Seq(Entries) /\ (item'[w] # NoEntry => <<item'[w]>> \in Seq(Entries)) /\ <<>> \in Seq(Entries)
    BY <2>1
  <2>3. new = (IF item'[w] = NoEntry THEN <<>> ELSE <<item'[w]>>) \o queue'[w]
    BY DEF Pending
  <2> HIDE DEF new
  <2> QED
    BY <2>2, <2>3, ConcatProperties
<1>6. Append(old, b) \in Seq(Entries) /\ Len(Append(old, b)) = Len(old) + 1
      /\ (\A i \in 1..Len(old) : Append(old, b)[i] = old[i]) /\ Append(old, b)[Len(old) + 1] = b
  BY <1>3, AppendProperties
<1> HIDE DEF new
<1>7. new = Append(old, b)
  <2> DEFINE a == Append(old, b)
  <2>1. \A i \in 1..Len(new) : i \in 1..Len(old) \/ i = Len(old) + 1
    BY <1>3, <1>4
  <2>2. a \in Seq(Entries) /\ Len(new) = Len(a) /\ \A i \in 1..Len(new) : new[i] = a[i]
    BY <1>4, <1>6, <2>1
  <2> HIDE DEF a
  <2>3. new = a
    BY <1>5, <2>2, SeqEqual
  <2> QED
    BY <2>3 DEF a
<1>8. \A i \in DOMAIN Pending(w) : Pending(w)[i] # b
  <2>1. DOMAIN Pending(w) = 1..Len(Pending(w))
    BY <1>3, LenProperties
  <2> QED
    BY <1>1, <2>1 DEF AnswerInv, HandInv
<1>9. \A i \in DOMAIN Answered(w) : Answered(w)[i] # b
  <2>1. Answered(w) \in Seq(AnswerSet(events, w))
    BY AnswersTyped DEF Answered, IInv, TypeOK
  <2>2. b \notin AnswerSet(events, w)
    BY <1>1 DEF AnswerSet, AnswerInv, AnsweredOnce
  <2>3. \A i \in DOMAIN Answered(w) : Answered(w)[i] \in AnswerSet(events, w)
    BY <2>1
  <2> QED
    BY <2>2, <2>3
<1> QED
  BY <1>1, <1>2, <1>4, <1>7, <1>8, <1>9, AbstractSubmit DEF new

LEMMA NextRefines == IInv /\ AnswerInv /\ [Next]_vars => [Service!Next]_(Service!vars)
<1> SUFFICES ASSUME IInv, AnswerInv, [Next]_vars PROVE Service!Next \/ UNCHANGED Service!vars
  OBVIOUS
<1>1. TypeOK /\ events \in Seq(Event) /\ \A v \in Services : AnswersIn(events, v) = Answered(v)
  BY DEF IInv, TypeOK, Answered
<1>2. ASSUME UNCHANGED <<scenario, queue, item, events>> PROVE UNCHANGED Service!vars
  BY <1>1, <1>2, SamePending, RestRefines
<1>3. ASSUME NEW p \in Processes, Poll(p)
      PROVE  UNCHANGED Service!vars \/ \E w \in Services : Service!Answer(w) \/ Service!Lose(w)
  BY <1>1, <1>3, RunRefines DEF Poll
<1>4. ASSUME NEW p \in Processes, Deliver(p)
      PROVE  UNCHANGED Service!vars \/ \E w \in Services : Service!Answer(w) \/ Service!Lose(w)
  <2>1. Seen \in Seq(Event) /\ \A v \in Services : AnswersIn(Seen, v) = Answered(v)
    BY <1>1, <1>4, SeenAnswers DEF Deliver
  <2>2. Run(p, Seen) /\ scenario' = scenario
    BY <1>4 DEF Deliver
  <2> QED
    BY <2>1, <2>2, RunRefines
<1>5. CASE PkaInterrupt
  BY <1>2, <1>5 DEF PkaInterrupt
<1>6. CASE UNCHANGED vars
  BY <1>2, <1>6 DEF vars
<1>7. CASE MessageDone \/ CertificateVerified
  BY <1>7, ResultRefines DEF Service!Next
<1>8. ASSUME NEW w \in Services, NEW b \in Entries, NEW m \in Messages, QueueMessage(w, b, m)
      PROVE  Service!Next
  <2>1. Service!Submit(w, b)
    BY <1>8, QueueMessageRefines
  <2> QED
    BY <2>1 DEF Service!Next
<1>9. (\E w \in Services : Service!Answer(w) \/ Service!Lose(w)) => Service!Next
  BY DEF Service!Next
<1> QED
  BY <1>3, <1>4, <1>5, <1>6, <1>7, <1>8, <1>9 DEF Next, System

(* The signer and the verifier are first-in first-out services: module           *)
(* CryptoSupport implements FifoService (crypto-support.c:51-170).             *)
THEOREM ServicesInOrder == Spec => ServesInOrder
<1>1. Init => IInv /\ AnswerInv
  BY InitIInv, InitAnswerInv
<1>2. IInv /\ AnswerInv /\ [Next]_vars => (IInv /\ AnswerInv)'
  BY NextIInv, NextAnswerInv
<1>3. Init => Service!Init
  <2> SUFFICES ASSUME Init PROVE Service!Init
    OBVIOUS
  <2>1. \A w \in Services : Pending(w) = <<>>
    BY InitPending
  <2>2. \A w \in Services : Answered(w) = <<>>
    <3>1. events \in Seq(Event) /\ Len(events) = 0
      BY DEF Init
    <3> SUFFICES ASSUME NEW w \in Services PROVE Answered(w) = <<>>
      OBVIOUS
    <3>2. PICK f : Counts(f, events, w, Len(events)) /\ AnswersIn(events, w) = f[Len(events)]
      BY <3>1, AnswersCounted
    <3>3. 0 \in Nat /\ Counts(f, events, w, 0)
      BY <3>1, <3>2
    <3>4. f[0] = <<>>
      BY <3>3, CountsAt
    <3> QED
      BY <3>1, <3>2, <3>4 DEF Answered
  <2>3. PostMayFail \in BOOLEAN
    BY DEF PostMayFail
  <2> QED
    BY <2>1, <2>2, <2>3 DEF Service!Init
<1>4. IInv /\ AnswerInv /\ [Next]_vars => [Service!Next]_(Service!vars)
  BY NextRefines
<1> QED
  BY <1>1, <1>2, <1>3, <1>4, PTL DEF Spec, ServesInOrder, Service!Spec
=============================================================================
