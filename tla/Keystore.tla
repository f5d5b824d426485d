------------------------------ MODULE Keystore ------------------------------
(***************************************************************************)
(* The public-key store of a node (wsn/common/crypto/keystore.c), together  *)
(* with the two things that it shares memory with: the queue of signatures  *)
(* to verify (crypto-support.c) and the trust messages received from peers  *)
(* (wsn/node/trust/trust.c), which pin the key they are verified with.      *)
(*                                                                          *)
(* Contiki-NG processes are cooperative: one event handler is one action.   *)
(* The list public_keys is a set here: its order only decides which of two  *)
(* entries for one subject keystore_find returns, and the model allows both.*)
(***************************************************************************)
EXTENDS Naturals, Sequences, FiniteSets

CONSTANTS
    Slots,          \* the blocks of public_keys_memb
    Subjects,       \* the EUI-64s certificates are issued to
    RootSubject,    \* root_cert.subject
    Rx,             \* the blocks of trust_rx_memb
    VerifySize,     \* MESSAGES_TO_VERIFY_SIZE
    MaxExchanges,   \* COAP_MAX_OPEN_TRANSACTIONS available to key requests
    EncodeMayFail,  \* certificate_encode_tbs may fail
    PostMayFail,    \* process_post may find the kernel's event queue full
    EcdhMayFail,    \* ecdh2 may report an error
    None            \* no certificate, no key, no item

ASSUME SlotsAssumption    == IsFiniteSet(Slots) /\ Slots # {} /\ None \notin Slots
ASSUME SubjectsAssumption == RootSubject \in Subjects /\ None \notin Subjects
ASSUME RxAssumption       == IsFiniteSet(Rx) /\ None \notin Rx
                             /\ None \notin [key : Slots, from : Subjects]
ASSUME SizesAssumption    == VerifySize \in Nat /\ MaxExchanges \in Nat
ASSUME FlagsAssumption    == /\ EncodeMayFail \in BOOLEAN
                             /\ PostMayFail \in BOOLEAN
                             /\ EcdhMayFail \in BOOLEAN

VARIABLES
    cert,                   \* block -> subject of its certificate, None = block free
    context,                \* block -> subject its OSCORE context was derived for
    pin_count,              \* block -> pin_count
    public_keys,            \* verified keys
    public_keys_to_verify,  \* queue of certificates to verify
    add_buffer_in_use,      \* a certificate is being verified
    poll,                   \* keystore_add_verifier has been polled
    pkitem,                 \* key whose shared secret is being computed (ecdh2 spawned)
    in_use,                 \* the timed lock on key requests
    exchanges,              \* open CoAP exchanges with the key server, per subject
    rx,                     \* trust_rx block -> [key, from], None = block free
    verifyQueue,            \* messages_to_verify: who asked, and for which item
    posted,                 \* pe_message_verified events in the kernel's queue
    leaked                  \* messages_to_verify entries never given back

keys    == <<cert, context, pin_count, public_keys, public_keys_to_verify, poll>>
adding  == <<add_buffer_in_use, pkitem>>
request == <<in_use, exchanges>>
service == <<verifyQueue, posted, leaked>>
vars    == <<keys, adding, request, rx, service>>

Job      == [owner : {"keystore"}, item : Slots] \cup [owner : {"trust"}, item : Rx]
RxItem   == [key : Slots, from : Subjects]
KeyJob(s)   == [owner |-> "keystore", item |-> s]
TrustJob(r) == [owner |-> "trust", item |-> r]

-----------------------------------------------------------------------------
(* Memory blocks.  memb_free returns 0 when it frees the block (see the test *)
(* of its result in stereotypes.c), and keystore_remove returns that as a    *)
(* boolean: it reports failure exactly when it has removed the key.          *)

MembFreeResult == 0

KeystoreRemoveReturns == MembFreeResult # 0

FreeSlots == {s \in Slots : cert[s] = None}

ListSet(l) == {l[i] : i \in 1..Len(l)}

ListRemove(l, s) ==
    LET i == CHOOSE j \in 1..Len(l) : l[j] = s
    IN  IF s \in ListSet(l)
        THEN [j \in 1..(Len(l) - 1) |-> IF j < i THEN l[j] ELSE l[j + 1]]
        ELSE l

(* keystore_find_in_list never looks at the list it is given *)
FindInList(c, l) == {s \in public_keys : cert[s] = c}

Find(c) == FindInList(c, public_keys)

IsPinned(s) == pin_count[s] > 0

Evictable_IgnoringPins(s) == cert[s] # RootSubject

Evictable(s) == cert[s] # RootSubject /\ ~IsPinned(s)

(* keystore_free_up_space stops at the first key for which keystore_remove  *)
(* says TRUE, so it goes through all of them.                               *)
FreeUpSpace(evicted, ret) ==
    LET candidates == {s \in public_keys : Evictable(s)}
    IN  IF KeystoreRemoveReturns /\ candidates # {}
        THEN /\ ret = TRUE
             /\ \E s \in candidates : evicted = {s}
        ELSE /\ ret = FALSE
             /\ evicted = candidates

(* A new block is filled, queued to be verified, and the process is polled. *)
QueueToVerify(s, c, evicted) ==
    /\ cert' = [t \in Slots |-> IF t = s THEN c
                                ELSE IF t \in evicted THEN None ELSE cert[t]]
    /\ pin_count' = [pin_count EXCEPT ![s] = 0]
    /\ public_keys' = public_keys \ evicted
    /\ public_keys_to_verify' = Append(public_keys_to_verify, s)
    /\ poll' = TRUE
    /\ UNCHANGED context

(* keystore_add(c) returning ret *)
KeystoreAdd(c, ret) ==
    \/ /\ Find(c) \cup FindInList(c, public_keys_to_verify) # {}
       /\ ret = TRUE
       /\ poll' = (poll \/ Find(c) = {})
       /\ UNCHANGED <<cert, context, pin_count, public_keys, public_keys_to_verify>>
    \/ /\ Find(c) \cup FindInList(c, public_keys_to_verify) = {}
       /\ FreeSlots # {}
       /\ ret = TRUE
       /\ \E s \in FreeSlots : QueueToVerify(s, c, {})
    \/ /\ Find(c) \cup FindInList(c, public_keys_to_verify) = {}
       /\ FreeSlots = {}
       /\ \E evicted \in SUBSET public_keys :
             /\ FreeUpSpace(evicted, ret)
             /\ IF ret
                THEN \E s \in evicted : QueueToVerify(s, c, evicted)
                ELSE /\ cert' = [t \in Slots |-> IF t \in evicted THEN None ELSE cert[t]]
                     /\ public_keys' = public_keys \ evicted
                     /\ UNCHANGED <<context, pin_count, public_keys_to_verify, poll>>

-----------------------------------------------------------------------------
(* Key requests.  A request is sent only if no key is known and none is      *)
(* being requested; coap_send_request may also refuse it.                    *)

OpenExchanges == {e \in Subjects \X (1..MaxExchanges) : e[2] <= exchanges[e[1]]}

RequestAllowed(c) ==
    /\ Find(c) = {}
    /\ FindInList(c, public_keys_to_verify) = {}
    /\ ~in_use

Send(c) ==
    /\ Cardinality(OpenExchanges) < MaxExchanges
    /\ exchanges' = [exchanges EXCEPT ![c] = @ + 1]
    /\ in_use' = TRUE

RequestPublicKey(c) == /\ RequestAllowed(c)
                       /\ Send(c)
                       /\ UNCHANGED <<keys, adding, rx, service>>

(* The request's answer: the callback runs with RESPONSE (which may carry a  *)
(* certificate) and then with FINISHED, in one event.                        *)
Response(c) ==
    /\ exchanges[c] > 0
    /\ exchanges' = [exchanges EXCEPT ![c] = @ - 1]
    /\ in_use' = FALSE
    /\ \/ \E ret \in BOOLEAN : KeystoreAdd(c, ret)
       \/ UNCHANGED keys
    /\ UNCHANGED <<adding, rx, service>>

(* The request fails, or times out after its retransmissions. *)
RequestFailed(c) ==
    /\ exchanges[c] > 0
    /\ exchanges' = [exchanges EXCEPT ![c] = @ - 1]
    /\ in_use' = FALSE
    /\ UNCHANGED <<keys, adding, rx, service>>

(* The lock's timer expires while the exchange may still be open. *)
RequestLockExpires ==
    /\ in_use
    /\ in_use' = FALSE
    /\ UNCHANGED <<keys, adding, exchanges, rx, service>>

(* process_certificate: add the announced certificate, or failing that ask   *)
(* the key server for it.  The request is made after the eviction.           *)
ProcessCertificate(c) ==
    /\ c # RootSubject      \* only Edge nodes announce themselves
    /\ \E ret \in BOOLEAN :
          /\ KeystoreAdd(c, ret)
          /\ \/ UNCHANGED request
             \/ ~ret /\ ~in_use /\ Send(c)
    /\ UNCHANGED <<adding, rx, service>>

-----------------------------------------------------------------------------
(* Verification of certificates. *)

PoolUsed == Len(verifyQueue) + Len(posted) + leaked

Rejected == EncodeMayFail \/ PoolUsed >= VerifySize

DropHead ==
    LET item == Head(public_keys_to_verify)
    IN  /\ public_keys_to_verify' = ListRemove(public_keys_to_verify, item)
        /\ cert' = [cert EXCEPT ![item] = None]

AddStart_BufferUnchecked ==
    /\ pkitem = None
    /\ poll
    /\ poll' = FALSE
    /\ public_keys_to_verify # <<>>
    /\ PoolUsed < VerifySize
    /\ verifyQueue' = Append(verifyQueue, KeyJob(Head(public_keys_to_verify)))
    /\ add_buffer_in_use' = TRUE
    /\ UNCHANGED <<cert, context, pin_count, public_keys, public_keys_to_verify,
                   pkitem, request, rx, posted, leaked>>

(* PROCESS_EVENT_POLL, in the main loop: keystore_add_start *)
AddStart ==
    /\ pkitem = None
    /\ poll
    /\ poll' = FALSE
    /\ IF add_buffer_in_use \/ public_keys_to_verify = <<>>
       THEN UNCHANGED <<cert, public_keys_to_verify, add_buffer_in_use, verifyQueue>>
       ELSE \/ /\ PoolUsed < VerifySize
               /\ verifyQueue' = Append(verifyQueue, KeyJob(Head(public_keys_to_verify)))
               /\ add_buffer_in_use' = TRUE
               /\ UNCHANGED <<cert, public_keys_to_verify>>
            \/ /\ Rejected
               /\ DropHead
               /\ UNCHANGED <<add_buffer_in_use, verifyQueue>>
    /\ UNCHANGED <<context, pin_count, public_keys, pkitem, request, rx, posted, leaked>>

(* PROCESS_EVENT_POLL while ecdh2 runs: the spawned protothread eats it *)
PollDuringEcdh ==
    /\ pkitem # None
    /\ poll
    /\ poll' = FALSE
    /\ UNCHANGED <<cert, context, pin_count, public_keys, public_keys_to_verify,
                   adding, request, rx, service>>

(* The verifier process takes the next message and posts its result. *)
Verify(ok) ==
    /\ verifyQueue # <<>>
    /\ verifyQueue' = Tail(verifyQueue)
    /\ \/ /\ posted' = Append(posted, [job |-> Head(verifyQueue), ok |-> ok])
          /\ UNCHANGED leaked
       \/ /\ PostMayFail
          /\ leaked' = leaked + 1
          /\ UNCHANGED posted
    /\ UNCHANGED <<keys, adding, request, rx>>

Deliver(owner) == /\ posted # <<>>
                  /\ Head(posted).job.owner = owner
                  /\ posted' = Tail(posted)

(* keystore_add_continued, and the pin taken for the ECDH that follows *)
AddContinued ==
    /\ pkitem = None
    /\ Deliver("keystore")
    /\ LET item == Head(posted).job.item
       IN  /\ public_keys_to_verify' = ListRemove(public_keys_to_verify, item)
           /\ IF Head(posted).ok
              THEN /\ public_keys' = public_keys \cup {item}
                   /\ pin_count' = [pin_count EXCEPT ![item] = @ + 1]
                   /\ pkitem' = item
                   /\ UNCHANGED <<cert, poll>>
              ELSE /\ cert' = [cert EXCEPT ![item] = None]
                   /\ poll' = TRUE
                   /\ UNCHANGED <<public_keys, pin_count, pkitem>>
    /\ add_buffer_in_use' = FALSE
    /\ UNCHANGED <<context, request, rx, verifyQueue, leaked>>

EcdhEnds(ok, pins, contexts, polled) ==
    /\ pkitem # None
    /\ ok \/ EcdhMayFail
    /\ context' = contexts
    /\ pin_count' = [pin_count EXCEPT ![pkitem] = pins]
    /\ pkitem' = None
    /\ poll' = polled
    /\ UNCHANGED <<cert, public_keys, public_keys_to_verify, add_buffer_in_use,
                   request, rx, service>>

DerivedContexts(ok) == IF ok THEN [context EXCEPT ![pkitem] = cert[pkitem]] ELSE context

EcdhDone_NoUnpin(ok) == EcdhEnds(ok, pin_count[pkitem], DerivedContexts(ok), TRUE)

EcdhDone_NoPoll(ok) == EcdhEnds(ok, pin_count[pkitem] - 1, DerivedContexts(ok), poll)

(* ecdh2 ends: derive the context if it succeeded, unpin, poll ourselves *)
EcdhDone(ok) == EcdhEnds(ok, pin_count[pkitem] - 1, DerivedContexts(ok), TRUE)

-----------------------------------------------------------------------------
(* Trust messages of peers. *)

TrustPostInto(c, items) ==
    /\ PoolUsed < VerifySize
    /\ \E k \in Find(c), r \in items :
          /\ rx' = [rx EXCEPT ![r] = [key |-> k, from |-> c]]
          /\ pin_count' = [pin_count EXCEPT ![k] = @ + 1]
          /\ verifyQueue' = Append(verifyQueue, TrustJob(r))
    /\ UNCHANGED <<cert, context, public_keys, public_keys_to_verify, poll,
                   adding, request, posted, leaked>>

(* res_trust_post_handler with a known key: pin the key, queue the message.  *)
(* When the verify pool is full everything is undone in the same handler,    *)
(* and without a key the handler is a RequestPublicKey.                      *)
TrustPost(c) == TrustPostInto(c, {r \in Rx : rx[r] = None})

TrustRxEnds(unpins) ==
    /\ Deliver("trust")
    /\ LET r == Head(posted).job.item
       IN  /\ pin_count' = [pin_count EXCEPT ![rx[r].key] = @ - unpins]
           /\ rx' = [rx EXCEPT ![r] = None]
    /\ UNCHANGED <<cert, context, public_keys, public_keys_to_verify, poll,
                   adding, request, verifyQueue, leaked>>

(* trust_rx_continue: unpin, give the entry back, free the item *)
TrustRxContinue == TrustRxEnds(1)

-----------------------------------------------------------------------------
(* keystore_init has queued the root's own certificate *)
Init ==
    /\ \E s \in Slots :
          /\ cert = [t \in Slots |-> IF t = s THEN RootSubject ELSE None]
          /\ public_keys_to_verify = <<s>>
    /\ context = [s \in Slots |-> None]
    /\ pin_count = [s \in Slots |-> 0]
    /\ public_keys = {}
    /\ poll = TRUE
    /\ add_buffer_in_use = FALSE
    /\ pkitem = None
    /\ in_use = FALSE
    /\ exchanges = [c \in Subjects |-> 0]
    /\ rx = [r \in Rx |-> None]
    /\ verifyQueue = <<>>
    /\ posted = <<>>
    /\ leaked = 0

Next ==
    \/ \E c \in Subjects :
          \/ ProcessCertificate(c)
          \/ RequestPublicKey(c)
          \/ Response(c)
          \/ RequestFailed(c)
          \/ TrustPost(c)
    \/ RequestLockExpires
    \/ AddStart
    \/ PollDuringEcdh
    \/ AddContinued
    \/ TrustRxContinue
    \/ \E ok \in BOOLEAN : Verify(ok) \/ EcdhDone(ok)

Spec == Init /\ [][Next]_vars

-----------------------------------------------------------------------------
KeyJobs == {i \in 1..Len(verifyQueue) : verifyQueue[i].owner = "keystore"}

KeyEvents == {i \in 1..Len(posted) : posted[i].job.owner = "keystore"}

Users(s) == {r \in Rx : rx[r] # None /\ rx[r].key = s}

(* Every variable holds a value of its C type (keystore.c:26-29,270-273). *)
TypeOK ==
    /\ cert \in [Slots -> Subjects \cup {None}]
    /\ context \in [Slots -> Subjects \cup {None}]
    /\ pin_count \in [Slots -> Nat]
    /\ public_keys \subseteq Slots
    /\ public_keys_to_verify \in Seq(Slots)
    /\ add_buffer_in_use \in BOOLEAN
    /\ poll \in BOOLEAN
    /\ pkitem \in Slots \cup {None}
    /\ in_use \in BOOLEAN
    /\ exchanges \in [Subjects -> Nat]
    /\ rx \in [Rx -> RxItem \cup {None}]
    /\ verifyQueue \in Seq(Job)
    /\ posted \in Seq([job : Job, ok : BOOLEAN])
    /\ leaked \in Nat

(* A block is allocated exactly while it is on one of the two lists, and on  *)
(* only one of them, once: no block of public_keys_memb is lost or freed     *)
(* twice over any sequence of adds, evictions and failed verifications.      *)
PoolAccounting ==
    /\ \A s \in Slots :
          (cert[s] # None) <=> (s \in public_keys \/ s \in ListSet(public_keys_to_verify))
    /\ public_keys \cap ListSet(public_keys_to_verify) = {}
    /\ \A i, j \in 1..Len(public_keys_to_verify) :
          public_keys_to_verify[i] = public_keys_to_verify[j] => i = j

(* pin_count is exactly the number of its users: the trust messages waiting  *)
(* for the key, and the ECDH computation (so keystore_unpin's assertion      *)
(* holds and a key that nobody uses can be evicted).                         *)
PinAccounting ==
    \A s \in Slots :
       pin_count[s] = Cardinality(Users(s)) + (IF pkitem = s THEN 1 ELSE 0)

(* Blocks and pins are accounted for, and every variable keeps its type. *)
Accounting == TypeOK /\ PoolAccounting /\ PinAccounting

(* The key a trust message is verified with is still in the store, and is    *)
(* still its sender's, when the result comes back: trust_rx_continue takes   *)
(* the sender's address from it.  The key of a running ECDH stays as well.   *)
KeyOfSender ==
    /\ \A r \in Rx : rx[r] # None => /\ rx[r].key \in public_keys
                                     /\ cert[rx[r].key] = rx[r].from
    /\ pkitem # None => pkitem \in public_keys

(* No item is waiting for two results at once, in the queue or as an event,  *)
(* and the item of every awaited trust result is still allocated.            *)
ResultsHaveItems ==
    /\ \A i, j \in 1..Len(verifyQueue) : verifyQueue[i] = verifyQueue[j] => i = j
    /\ \A i, j \in 1..Len(posted) : posted[i].job = posted[j].job => i = j
    /\ \A i \in 1..Len(verifyQueue), j \in 1..Len(posted) : verifyQueue[i] # posted[j].job
    /\ \A i \in 1..Len(verifyQueue) :
          verifyQueue[i].owner = "trust" => rx[verifyQueue[i].item] # None
    /\ \A i \in 1..Len(posted) :
          posted[i].job.owner = "trust" => rx[posted[i].job.item] # None

(* One certificate is verified at a time, it is the head of the queue, and   *)
(* add_buffer (which holds its encoding) is in use exactly then, unless the  *)
(* result was lost.                                                          *)
OneVerification ==
    /\ \A i \in KeyJobs : verifyQueue[i].item = Head(public_keys_to_verify)
    /\ \A i \in KeyEvents : posted[i].job.item = Head(public_keys_to_verify)
    /\ \A i, j \in KeyJobs : i = j
    /\ \A i, j \in KeyEvents : i = j
    /\ KeyJobs = {} \/ KeyEvents = {}
    /\ KeyJobs \cup KeyEvents # {} => add_buffer_in_use
    /\ add_buffer_in_use => public_keys_to_verify # <<>>
    /\ add_buffer_in_use /\ leaked = 0 => KeyJobs \cup KeyEvents # {}

(* No result can arrive while the process is inside ecdh2, whose protothread *)
(* would swallow the event and with it the certificate.                      *)
NoResultDuringEcdh == pkitem # None => KeyJobs \cup KeyEvents = {} /\ ~add_buffer_in_use

(* Results, in the queue or on their way, find what they were asked for:     *)
(* handlers take a result's item, the head of the list and add_buffer for    *)
(* granted (keystore.c:419,497,664; trust.c:232).                            *)
VerificationConsistent == ResultsHaveItems /\ OneVerification /\ NoResultDuringEcdh

(* As long as no event was lost, a certificate is never dropped for want of  *)
(* an entry: one entry for the keystore and one per trust message fit in the *)
(* pool (MESSAGES_TO_VERIFY_SIZE = 1 + TRUST_RX_SIZE).                        *)
VerifyPoolSuffices ==
    Cardinality(Rx) < VerifySize /\ leaked = 0 /\ ~add_buffer_in_use
        => PoolUsed < VerifySize

(* While no event is lost and certificates can be encoded, a queued            *)
(* certificate is never left behind: the process has been polled, the head of  *)
(* the queue is being verified or its result is on its way, or ecdh2 runs.     *)
(* Polls that ecdh2 swallows are made good by the one at its end, and the      *)
(* pool never makes keystore_add_start drop the head without another poll.     *)
CertificatesTakenUp ==
    Cardinality(Rx) < VerifySize /\ ~EncodeMayFail /\ leaked = 0
        => \/ public_keys_to_verify = <<>>
           \/ poll
           \/ KeyJobs \cup KeyEvents # {}
           \/ pkitem # None

(* Once the root's key is in the store it is never evicted. *)
RootKept == [][Find(RootSubject) # {} => Find(RootSubject)' # {}]_vars

(* A key in use by a trust message or by ecdh2 is neither evicted nor        *)
(* overwritten by the step of another handler.                               *)
PinnedKept == [][\A s \in Slots : IsPinned(s) => s \in public_keys' /\ cert'[s] = cert[s]]_vars

(* keystore_free_up_space spares the root's key and keys in use. *)
EvictionSpares == RootKept /\ PinnedKept

-----------------------------------------------------------------------------
(* keystore_free_up_space: "We need to try to free up space for a new         *)
(* certificate": whenever keys are evicted, a new certificate is queued.      *)
EvictionMakesRoom ==
    [][(\E s \in public_keys : s \notin public_keys')
          => Len(public_keys_to_verify') > Len(public_keys_to_verify)]_vars
=============================================================================
