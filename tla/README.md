# TLA+ verification of the IoT trust and task-allocation system

This directory models the control logic of the repository in TLA+, checks it
with TLC on small instances, and proves the most important invariants with
TLAPS for every value of the constants. `PROJECT.json` gives, for every
definition that models code, the source lines it stands for, and lists the runs,
the hazards of the code, the mutants that show each property can fail, and the
theorems.

Paths below are relative to `src/`. Contiki-NG, MbedTLS, tinycrypt,
aiocoap and asyncio-mqtt are outside the repository; what the models say of
them is what the code here relies on.

## 1. The system

Three kinds of machine take part.

* **Nodes** (`wsn/node`, `wsn/common`, `wsn/applications/*/node`) run Contiki-NG
  on boards with a few kilobytes of memory. A node has tasks (a route to plan, a
  reading to send), chooses an *Edge* by how much it trusts it, sends the task,
  and updates that trust by what comes back.
* **Edges** (`wsn/edge`, `wsn/applications/*/edge`) are Contiki boards attached by
  a serial line to a *resource-rich device* (`resource_rich/applications/edge_bridge.py`,
  `resource_rich/applications`) that does the computing.
* The **root** (`resource_rich/root`) runs the border router's services: the
  MQTT-to-CoAP bridge, the key server and the stereotype server.

### Parts, state and operations

| Part | State it keeps | Operations | Hard because |
|---|---|---|---|
| key store, `wsn/common/crypto/keystore.c` | pool of key blocks, `public_keys`, `public_keys_to_verify`, pin counts, OSCORE contexts, `add_buffer`, request lock | add, request, response, verify one at a time, ECDH, evict, pin and unpin | protothread that yields in the middle, polls that coalesce, pool at its limit, full event queue |
| crypto-support, `wsn/common/crypto/crypto-support.c` | sign and verify pools and queues, a process each | queue, sign, verify, post the result | two processes and the key store compete for one processor and wake on any event |
| platform crypto, `crypto/targets/*` | `crypto_processor_mutex`, PKA state | `ecc_sign`, `ecc_verify`, `ecdh2` | many error paths; one static result on the nrf52840 |
| MQTT over CoAP client, `wsn/common/mqtt-over-coap` | topic states, timed lock, callback index, connectivity, timers | subscribe, publish, ping, retry | one lock and one callback state for two users, locks that expire, pings with several replies |
| MQTT–CoAP bridge, `resource_rich/root/mqtt_coap_bridge.py` | subscription table, its pickled copy, the broker's subscriptions | subscribe, unsubscribe, forward, restore at start-up | every `await` lets other requests in; crashes and torn writes |
| edge-info, `wsn/common/trust/edge-info.c` | list of Edges, flags, capability blocks | add, remove, capability add and remove, evict | two pools at their limits, three builds |
| trust-common, `wsn/common/trust/trust-common.c` | none of its own | handlers of announcements, capabilities and certificates | publications are lost, duplicated and overtaken |
| Edge announcements, `wsn/edge` | whether the bridge is up, applications available, timers | announce, unannounce, publish capabilities | a timer's event survives its timer |
| routing application, `wsn/applications/routing/node` | endpoint and coordinates of the current task, two timed locks, block state, trust updates | submit, acknowledge, status, blocks, timeouts | messages without a task identity, locks that expire before CoAP gives up |
| node trust exchange, `wsn/node/trust` | messages waiting for their signature check | receive, verify, apply; multicast own trust | the sender's key must outlive the wait |
| peer-info, `wsn/common/trust/peer-info.c` | peers, what each said of Edges and capabilities, three pools | add, find, update from a message | records are keyed by raw pointers into edge-info and are never given back; fair shares |
| stereotypes, `wsn/common/trust/stereotypes.c` | tags requested, stereotypes held, one pool for both, timed lock | request, answer, expire, make room | one request at a time, polls that are missing on error paths, pool at its limit |
| trust models, interaction-history and choice rules, `wsn/common/trust` | counts or a ring buffer per Edge and capability | update by an outcome, value, choose | records live in edge-info's reused memory; ring at its capacity; integer shares |
| challenge-response, `wsn/applications/challenge-response/node` | list of challengers, `next_challenge`, two timers, timed lock | challenge, acknowledge, answer, time out | one current challenge that removals and late events move under the handlers |
| Edge applications and serial line, `resource_rich/applications`, `wsn/edge/edge.c`, `wsn/applications/*/edge` | tasks computed, result being sent, connections, `msg_buf`, timed lock | receive a task, send its result line by line, start, stop | acknowledgements without identity; three programs, each of which may end on its own |
| monitoring, edge-ping | a period; a round of pings | one-way readings; pings | not modelled, section 8 |
| key server, stereotype server | files written at set-up | answer | stateless |

### How they interact

An Edge starts when its resource-rich device says so on the serial line,
publishes an announcement and its capabilities by CoAP to the bridge, which gives
them to the MQTT broker and pushes them to every node that subscribed. The
node's trust-common handlers add the Edge to edge-info, ask the key server for
its certificate, have the key store verify it (crypto-support checks the
signature, the key store derives an OSCORE context), and tell the application,
which from then on may choose that Edge. A task goes by CoAP directly to the Edge;
its acknowledgement, status and result each update trust. Nodes also exchange
signed trust messages, verified by the same crypto-support queue.

Facts of Contiki that the models use, because the code depends on them:
`PROCESS_YIELD_UNTIL` yields once before it tests its condition; `PROCESS_PAUSE`
ends at *any* event; a poll is a flag, so polls coalesce; `process_post` fails when
the event queue is full; a broadcast reaches processes in list order (verifier,
signer, key store); `process_post_synch` runs the receiver before it returns;
`etimer_stop` does not take back an event already posted; the expiry of a
timed lock runs synchronously in a timer callback.

## 2. Modules

```
Keystore ------------ KeystoreProofs              MCKeystore
CryptoSupport ------- CryptoSupportProofs         MCCryptoSupport
   `- refines FifoService
SubscriptionBridge -- MqttProofs                  MCSubscriptionBridge
MqttOverCoap -------- MqttProofs                  MCMqttOverCoap
EdgeDiscovery ------- EdgeDiscoveryProofs         MCEdgeDiscovery
RoutingTask --------- RoutingTaskProofs           MCRoutingTask
ChallengeResponse --- ChallengeResponseProofs     MCChallengeResponse
EdgeTask ------------ EdgeTaskProofs              MCEdgeTask
NodeTrust ----------- NodeTrustProofs             MCNodeTrust
   |- TrustChoose
   `- InteractionHistory
```

Each MC module only gives values to constants and states symmetry.

All modules but Keystore take a set of **scenarios**: a variable, chosen in `Init`
from the constant `Scenarios` and never changed, names the build, the actors and
the failures of this behaviour. One run then covers several mixtures of
failures, and a property that holds only without one of them says so. In Keystore
the failures are Boolean constants.

### Keystore

`keystore.c`, with the reception of trust messages in `wsn/node/trust/trust.c`,
because the latter's pins decide what the former may evict. A certificate is
reduced to its subject. An action is what runs between two yields.

* `cert`, `context`, `pin_count` are the fields of a block; a block never cleared by
  `memb_alloc` keeps its old `context`, as in the code. `public_keys` and
  `public_keys_to_verify` are the two lists, `pkitem` and `add_buffer_in_use` the
  certificate being verified, `poll` the poll flag, `in_use` the request lock
  with `exchanges` the CoAP exchanges behind it, `rx` the trust messages received
  and `verifyQueue` and `posted` the part of crypto-support the two use (entries
  served in order, the abstraction that FifoService names). `leaked` is a ghost: pool
  entries, blocks and pins lost because an event could not be posted.
* `keystore_find_in_list` ignores its argument and searches `public_keys`
  (`keystore.c:46`), so one subject can be queued more than once. The model
  keeps that.

### CryptoSupport and FifoService

`crypto-support.c` and both `platform-crypto-support.c`. The scheduler is explicit:
`Poll(p)` runs a process whose poll flag is set, `Deliver` the head of the event
queue, and a process may be at any of its yields. On the zoul an operation takes
the mutex, starts the PKA and ends with its interrupt; on the nrf52840 it is
one step. `FifoService` says what a client is promised: each entry is answered
once, in order of queueing. `ServesInOrder` states that CryptoSupport implements
it for the sign and for the verify queue.

### SubscriptionBridge

`mqtt_coap_bridge.py`. asyncio switches tasks only at an `await`, so one action
is the code between two suspensions. `table` is the dictionary, `disk` its
pickled copy (`Empty` while there is no file), `phase`, `socket` and `toRestore` the start-up, `tasks` the CoAP
requests in progress, `link`, `acks`, `broker`, `inbox` and `unpublished` the MQTT
connection and broker (external), `current` and `forwarder` the loop that takes up one
message after the other and pushes it to all its subscribers before the next; a message
without a known content type ends it (`ForwardRaises`), as a failing push does. `believes` is a ghost: what each host has been told. A filter may have a
wildcard, given by the constant `Matching`.

### MqttOverCoap

`mqtt-over-coap.c`: the topics' states, `coap_callback_i`, the lock shared by
subscribing and publishing, the pings and the retry timers. Failures: answers
that are slow, sends that fail, connectivity that comes and goes, event posts
that fail, publishing at the same time, and a lock that expires (60 s) before CoAP
has given up retransmitting (about 93 s).

### EdgeDiscovery

The path from the Edge's `edge.c` and `capability.c` through a channel per Edge to
`trust-common.c`, `edge-info.c` and the applications' `running` flag, in the
three builds (`NO_ACTIVE_REMOVAL_ON_UNANNOUNCE`, default,
`AGGRESSIVE_REMOVAL_ON_UNANNOUNCE`). Publications may be lost or overtake each
other: one whose exchange outlives the Edge's lock may reach the bridge after a later one,
and one that the bridge gave up pushing after 10 s may still be on its way. (The bridge
forwards one at a time, so the channel allows more than it does.) The node's handlers are
operators on the record `node`, one per C function and with its name. `settled` says
that devices are left alone from now on and nothing more is lost; liveness is about
what happens then.

### RoutingTask

`routing.c`: the submission, its two locks (120 s for the task, 60 s for the callback
state), acknowledgement, status, blocks and timeouts, and the trust updates
each causes. A task asks for a route, a pair of coordinates, and may ask for the same
route as the one before; an answer's blocks carry coordinates and no task, as in the
code. Failures: a callback lock that expires early, answers that come after the
task's lock has expired (`late`; `alike` if they may have the current task's
coordinates), and blocks that are lost. What a status means to the trust model and
whether it unlocks the task are two things: a code 2.01 to 2.04 counts as good and ends
the task, any other failure leaves it locked until it times out, which is told as well.
`choose_edge` may return any active Edge that has the capability.

### ChallengeResponse

`challenge-response.c` on the node, with its trust model and the `badlisted` choice
rule. Time is explicit: a tick moves `now`, a timer that runs out posts an
event, and stopping it does not take the event back. `block` is the memory of
`challengers_memb`, which outlives the list entry, because the handlers go
on reading it through `next_challenge`. A tick stands for 20 s of the default build:
an answer is due (`Duration`) before the lock expires (`LockTime`, 60 s), that before
the next challenge (`Period`, 120 s), and CoAP may give up only after that (`Transmit`,
139.5 s). With the fault `slow` an acknowledgement, or the failure of the request, takes
that long, and two requests are open. `failed` and `solved` are ghosts: what each Edge
really did.

### EdgeTask

How a result gets from the application on the resource-rich device to the node
that asked: `client_common.py` with `routing.py` and `challenge_response.py`,
`edge_bridge.py`, `edge.c` and the task files of both applications on the Edge's
sensor node. The client writes a line only when the one before was acknowledged;
the sensor node puts the chunks of several lines together in `msg_buf`, sends the
block by CoAP and acknowledges the line when the exchange ends. Actions are the
steps of the asyncio tasks between two `await`s, the bridge's coroutines (one
handler per connection, one for the serial line) and the Contiki process. `down` and
`up` are the serial line, `conn` a TCP connection per run of the
application. Failures: requests that cannot be sent, a lock that expires before its
exchange ends, lost lines, crashes, tasks that raise, a restart before the bridge has seen
the old connection's end, acknowledgements after the bridge's timeout. A block may be
longer than `msg_buf`: `routing.py` only logs that. The bridge ends when a write to a
connection raises, when its start is not acknowledged for too long, and after its first
stop line, since closing the server ends `serve_forever` (so it never waits for the
acknowledgement of a stop). `_send_result` itself raises only where the connection is
lost, and then the client ends as a whole.

### NodeTrust, TrustChoose, InteractionHistory

What a node believes of its Edges and how it picks one. `NodeTrust` has edge-info's
blocks (`edge`, `capability`, reused memory included), the models `basic`,
`basic_with_reputation` and `hmm`'s observations, peer-info, and stereotypes with
their process and lock. The callbacks of the routing application that tell the trust
models something are an action each (`Report`): a submission, a result, a timeout or a
quality may be reported of any task given, in any order and more than once, as a failed
task is told as failed and as timed out. `given` counts the tasks of each Edge and the
bound `reports` the reports. Trust values are multiples of `1/Unit`, rounded down, where the
code has floats; in the run `Unit` is divisible by every denominator the bounds
allow, so they are exact there. `UnitAssumption` says that the unit is finer than the least mean
a record can have, so that nothing is rounded to zero; a float has
that resolution for any count a node reaches. What a peer may say (`Told`) is bounded in the same way.
`TrustChoose` has the rules `fcfs`, `random`, `highest`, `banded` and
`proportional` as operators over a list of candidates and their trust, each beside a
definition of what it should pick; the shares of `proportional` are rounded to
integers as the code does. `InteractionHistory` is the ring buffer. `Observed` is what `hmm` observes of a sequence of reports. The ghosts
`log`, `since`, `owners`, `homes` and `said` record what happened, so that the
properties can compare the records with it.

## 3. Runs

| Run | Instance | Shows |
|---|---|---|
| `keystore` | 2 blocks, 3 subjects, 1 trust message, 2 verify entries, posts that fail | blocks, pins and the one verification in progress stay consistent; the root's key and keys in use are never evicted; unless an event is lost a queued certificate always has a poll, a verification or an ECDH ahead of it |
| `keystore_eviction` | 3 blocks, no failures | *violated*: eviction makes room for the new certificate |
| `bridge` | 2 hosts; concurrent requests on one topic with all failures; one request at a time on a topic and a wildcard that matches it with all failures; the same with crashes only and 2 messages | the saved table never lags behind; confirmed subscriptions survive all but a torn write; while MQTT works topics with subscribers are subscribed at the broker, requests and start-ups end, every message reaches all confirmed subscribers |
| `bridge_race` | 2 hosts, 1 topic, 2 requests, no failures | *violated*: a topic with subscribers is subscribed at the broker |
| `mqtt` | 3 topics, 2 exchanges, 4 mixtures of failures | the lock has a request behind it and protects the callback state; SUBSCRIBED is the bridge's word; a topic left to subscribe has a retry coming; all topics end up subscribed |
| `mqtt_stuck` | publishing, no failure | *violated*: a topic marked SUBSCRIBING has been requested |
| `crypto` | 1 sign and 2 verify entries, both platforms, 5 mixtures of failures | one user of the processor, freed on every path; no lost wake-up; success only for a good signature; both queues implement FifoService; results keep coming while a message waits |
| `routing` | 2 tasks, answers of 2 blocks; 2 Edges and 1 coordinate with late answers and lost blocks, with and without early expiry; 1 Edge and 2 coordinates with early expiry and either late answers with other coordinates or lost blocks | locks protect the task; trust updates are about the right Edge; a wrong answer is never called good, a right one never bad |
| `discovery` | 2 Edges that compete for room for 1; an Edge with 2 applications; one with 2 publications under way; 3 builds | memory accounting, eviction of inactive Edges only, applications know what is available and converge |
| `challenge` | 2 Edges, CoAP transmitting for longer than a period; 3 periods with sends that fail; 2 periods with late answers and an Edge that comes and goes, without and with all other failures | list, memory, timers and the open request stay consistent; an Edge is passed over only for cause; one that stays silent is bad when its time is up |
| `edge_task` | 3 tasks, results of up to 2 blocks of up to 3 chunks, 2 workers, a block too long for the buffer, 8 mixtures of failures and restarts | a node is sent whole blocks of its own result; of each line awaited there is one trace; sensor node, bridge and client agree on availability; every task is done with |
| `trust` | 3 Edges with room for 2, 3 peers with room for 2, 3 tags with room for 2, a history of 3, 9 mixtures of models, rules and failures | records are the node's own experience and the peers' words about that very Edge; the rules favour whom they should and trust follows experience; stereotypes that are asked for arrive |

Why these bounds. *Two blocks*: one in use and one that can be evicted and reused
(three in `keystore_eviction`, where eviction has to go on past the first).
*Two requests or exchanges*: each race in the code is between two users of one lock or
between one request and one suspended in an `await`. *Three topics*: the first, the
next and the last one of a round. *Two tasks*: the one a late message belongs to and
the one it is taken for. *One coordinate* where only Edges matter, *two* where verdicts do:
a right one and a wrong one. *Two blocks of a result*: a first, which carries the verdict,
and a last one. *Two verify entries and one sign entry*: the smallest with a queue
behind the entry being served and a competitor for the processor. *One slot for two
Edges, two for three*: eviction and reuse of memory happen. *Three periods*: a
challenge, the one that its late events meet, and the one after. *A history of 3 and 5
tasks*: the ring wraps past its first entry. The bounds `MaxExchanges`,
`MaxPackets`, `MaxEvents`, `MaxPings`, `MaxTasks`, `MaxInFlight`, `MaxRuns` and a
scenario's `until`, `tasks`, `reports`, `messages` and `moves` cap what the environment does;
they are guards, so a full network delays a sender and loses nothing.

Deadlock is checked except in `mqtt`, where a node whose topics are all
subscribed and which publishes nothing has nothing to do; in `crypto`, where a
full event queue may strand every entry; in `challenge`, whose clock is bounded; in
`edge_task`, where the client may wait for ever for a line that was lost, and may
have nothing left to do; and in `trust`, where an idle node has nothing to do.

## 4. Fairness

* **Keystore**: none. That every queued certificate is verified in the end would need
  crypto-support to serve every client in turn, which it does not ensure (section 6), so what is
  stated is `CertificatesTakenUp`, an invariant: no certificate is ever queued without
  something that will take it up.
* **CryptoSupport**: weak fairness of `Poll`, `Deliver`, of a client's handling of
  results and of the PKA interrupt, for the same reason. It is not assumed that each
  process gets the processor: the code does not ensure it (section 6).
* **SubscriptionBridge**: weak fairness of the event loop's steps (start,
  connect, restore, resume a task, push) and of a broker that works.
  Crashes and requests are not fair.
* **MqttOverCoap**: weak fairness of events, timers, echo replies, connectivity and the ends of
  exchanges, and strong fairness of a positive answer: a bridge that is
  asked again and again does not refuse for ever. `AllSubscribed` is only claimed when
  the scenario's failure set is empty.
* **EdgeDiscovery**: weak fairness of the timer and of delivery; strong fairness
  of the two periodic publications, which wait for a timed lock that is
  released again and again.

* **EdgeTask**: weak fairness of the client's event loop and workers (a worker computes
  each task to a result or an exception, `Work`), of the bridge's
  coroutines and of the sensor node's process, and every CoAP exchange ends (CoAP
  gives up after its last retransmission). Nobody has to start or stop an
  application, and nothing lost comes back.
* **NodeTrust**: weak fairness of the polled stereotype process and of the root's
  answer to a request under way. Failures, expiries and new requests are not fair.

RoutingTask and ChallengeResponse have no liveness property: `SilenceNoticed` is about
a deadline, and so an invariant over the explicit clock.

## 5. Proofs

TLAPS proves the following for every value of the constants, from the named
assumptions on them (`Slots` finite, bounds natural numbers, `None` outside the
sets and the like). The state machines are the ones TLC runs.

**KeystoreProofs.** The inductive invariant is
`TypeOK ∧ PoolAccounting ∧ PinAccounting ∧ KeyOfSender ∧ ResultsHaveItems ∧
OneVerification ∧ NoResultDuringEcdh`. None is inductive alone. That the key of a
waiting message stays needs that its pin is counted; that pin counts are exact
needs that unpinning finds a key that is still listed (`KeyOfSender`); that a
block is on one list only needs that a verification result belongs to the item under way
(`ResultsHaveItems`, `OneVerification`), since the process moves `pkitem` from
one list to the other without looking; and that no result is lost needs that none
can arrive during ECDH. The action properties `RootKept` and `PinnedKept` follow.
Theorems: `Invariance`, from which `TypeCorrect`, `BlocksAccounted`, `PinsAccounted`,
`AllAccounted`, `SendersKeyStays` and `VerificationsSerial` follow, and
`EvictionSparesKeys`.
`VerifyPoolIsEnough` follows from the same invariant by counting: when no certificate is
under way, every job is a trust message's, and distinct jobs have distinct
blocks of `trust_rx_memb`, so there are fewer than `MESSAGES_TO_VERIFY_SIZE`.
`NoCertificateLeftBehind` adds, step by step (`StepTakesUp`), that whoever leaves the list of
queued certificates non-empty and the process idle has polled it (`AddPolls`); that
`keystore_add_start` does not return without a verification needs `VerifyPoolSuffices` of the state
before. It assumes nothing of what `ecdh2` returns.

**CryptoSupportProofs.** Four theorems, on both platforms and for any mixture of failures.
`ProcessorExclusive`: the semaphore is taken exactly when one process, or the key
store, is inside an operation; type correctness is part of it. `WakeUpsReach` needs,
besides the property, that a process in its pause has *two* events on their way to it,
the broadcast of the mutex and its own continue event (`Awake`): the first ends the
pause, and the second finds the next message. `SuccessesAreOwn` needs that an entry is
in one place at a time (`AnswerInv`): free, once in a service's hands or queue, or in one
result event. Freeing an entry then touches no other result. `ServicesInOrder` is
the refinement of FifoService, from the same invariant: the end of an operation is
`Answer`, or `Lose` if the post failed, `QueueMessage` is `Submit`, a client's handling of a
result is `Collect`, and every other step leaves what clients see as it was. What
`AnswersIn` computes is recursive; that it grows with a result posted, shrinks with
the head and ignores other events is proved by induction on the number of events,
with the induction principle stated for a *set* of numbers (`Induct`, from the
well-foundedness of <), which the provers can instantiate where they cannot an
operator.

**RoutingTaskProofs.** `LocksProtect`, `BlameIsRight`, `PraiseIsRight`, `BadIsWrong`,
`RoutingTypeCorrect`. The invariant adds, to the properties, that a task is sent
before anything about it arrives, that a judged task is over, and two
conditional parts: *unless the callback lock expires early*, the
exchange under way belongs to the current task, from which `BlamesTarget`
follows; *unless a block is lost or late answers look alike*, the first block whose
verdict counts was received for the answer being assembled, from which `GoodIsRight`
follows whatever routes are asked for again. `BadIsWrong` adds that
the first block judged bad is not the right one (`FirstBadIsWrong`).

**MqttProofs**, of MqttOverCoap. `LockCovers`, `SubscribedGranted`, `RetryAlwaysPending`, for any
number of topics and exchanges. The two lock properties and `SubscribedIsGranted`
need each other and one fact more, `CallbackIsOwn`: while no lock expires, what
`subscribe_callback` will find in `coap_callback_i` is the topic of the one exchange that is open, so
the topic it marks is the one that was granted. `RetryPending` needs the lock to have
an exchange behind it, and that exchange to be a subscription's (`SubscribesOnly`): a
`subscribe()` that finds the lock taken takes the -1 for success and sets no timer.

**MqttProofs**, of SubscriptionBridge. `DiskFollows`, `PromisesAreDurable` and
`SnapshotIsComplete` rest on one small invariant: before the table is loaded nobody
is in it, afterwards it and the file have the same subscribers, a host that was told
CREATED is in the file, and forwarding starts after loading. Their proofs walk through
every suspension of every request. `ServedOneAtATime` needs the traffic with the
broker as well (`TurnInv`): every packet and every acknowledgement belongs to the
request that waits for it or to `start()`, none is under way twice, a
request that waits for the broker to drop a topic is its last subscriber's, and a
topic with subscribers is with the broker, still to be restored, or on its way.

**ChallengeResponseProofs.** Three layers, each on top of the one before.
`ChallengesAreConsistent` needs time: no open request is younger than the period that runs, and
when that ends every open request is at least a period old (`PeriodCovers`), so that a
request younger than a period has `next_challenge` and the copy of its endpoint to itself. Nothing
is assumed of how long CoAP transmits (`OpenInTime` says only that requests are open no longer
than that). `PassedOverOnlyForCause` adds the books (`BookInv`: a challenge is made
once a period, and only the challenge of `next_challenge` is younger than that), that
the response timer runs out after the duration of the current challenge and before
the next one (`TimerFits`), and, of each Edge that stays, that an unanswered challenge is
still asked and a late answer was held against it (`Honest`). `SilenceIsNoticed` adds
that an acknowledged challenge that is not solved has its timer running or its event
posted, or its Edge is bad. Each condition in the statements of the two properties is the
point where a step of the proof needs it. Of the times, `TimeAssumption` says what the code asserts
statically, that `Duration` is less than `Period` (`challenge-response.c:50`), and that a
duration is not zero; `LockTime` and `Transmit` are any numbers.

**EdgeDiscoveryProofs.** `EdgeInfoPoolSuffices`, `ActiveEdgesAreKept` and
`ApplicationsAreTold`, for any Edges, applications and limits. The invariant `NodeOK`
says that capabilities belong to Edges that are listed, and that the memory that is free
and the memory that is taken add up; every operation of `edge-info.c` has its
lemma. `PoolBound` then counts: a capability is told apart by the place of its
Edge in the list and its number among those of the Edge, and an Edge that may have
another one leaves a number unused, so not all memory is taken.
`ApplicationsAreTold` needs that only active Edges have active capabilities (`Told`), and that
no capability is added to an Edge that is listed but not active. Under aggressive removal
there is no such Edge; when nothing is lost or overtaken, every capability
that is sent without a certificate follows a publication that makes its Edge
active, with no unannouncement in between (`InOrder`, over what is in flight).

**EdgeTaskProofs.** `BlocksAreWhole`, `EachLineOneTrace` and `AvailabilityIsTold`, for any
tasks, results, runs and combinations of failures; the run only tries some
combinations. Types and what holds whatever fails are in `BaseInv`; `ConnInv` says that without
overlap only the connection of the running application is open. `OneTrace` adds
that closed connections hold no lines of results (`TraceInv`): otherwise a line of an ended
run would reach the sensor node and be acknowledged to the next one. The
proof counts lines, exchanges and acknowledgements, one lemma per action, each of which
moves the one trace to its next place. `BlockIsWhole` builds on it (`BlockInv`), for results
whose blocks fit in `msg_buf` (`Fits`, which no step changes: `StillFits`): the line on its way is
the one the client waits for, the sensor node's buffer and endpoint are what
they should be before that line, or after it once there is an exchange or an
acknowledgement, and a cancel is read before the acknowledgement it comes with, so a
cancelled result stops at the end of a block with the buffer empty.
`AvailabilityFollows` rests on two other invariants. `BridgeInv`: until the bridge stops or
fails, no stop of it is on the serial line, and an acknowledgement of its start on its way
was true when printed and still is. `WordInv`: until the bridge stops or fails, the last word on the application among
what is unsent, on the line and known is its client's. The proof of types found that
the endpoint of a request may be unset when a line was lost and the application
crashed, a combination that the run does not try: `TypeOK` allows it.

**NodeTrustProofs.** `ExperienceIsRecorded` and `ReputationIsOfItsEdge`
(together `TrustIsRecorded`, which is what the run checks as `TrustRecorded`), `ChosenIsBestAlways` and
`StereotypesAreKept` (no stereotype of use is dropped to make room, which no run repeats),
for any Edges, peers, tags, messages, pools and history size, and `RulesAsIntended`, for any
list of candidates. Loops are recursive functions in the model, and what they
compute is proved by `Induct`, induction over a set of numbers; `LoopExists` gives
the function that a loop's definition chooses.
The inductive invariant `IInv` has these parts.
`BlocksOK`: Edges in the list share neither address nor capability block.
`RecordsOK`: the counts of a listed Edge are the tally of what was reported of it since its memory was
set up, each report once however many a task has, and the ring buffer *holds the last* outcomes (`HoldsLast`: the k-th entry from
`head` is the k-th oldest, and `tail` follows the newest), from which `IteratedIsLast` derives
what a loop with `interaction_history_iter` and `_next` sees, also when the buffer is
full and `head = tail`; what `hmm` pushes for a report is what `Observed` adds for it
(`ObservedAppend`).
`OwnersOK`: while a block is free no Edge has ever lost its own, so a block that has had
one Edge only is that Edge's only one. `KeptOK`: what peer-info keeps at such a block is
what was said of that Edge. Reading a message needs two facts more: there
is room for every Edge that is listed, since neither the share of a peer
nor the pool can be used up by blocks (`RoomForPeerEdge`), and what is read of one Edge
touches nothing kept of another (`ReadTable`). The two conditions in
`ReputationOfItsEdge` are where the proof needs them: `owners[b] = {e}` for the entry, and `homes[e] = {c}`
for the share of capabilities, which entries of blocks left behind would use up.
`ChosenIsBest` adds arithmetic: means are monotone in a record (`ExpectedMonotone`) and
lie in `1..Unit`, because a record counts no more than the reports made (`RecordsTold`, with
`UnitAssumption`); averages stay in between. `RulesAsIntended` does the
rest: `highest` is the first of the most trusted, `banded` keeps those within the band,
and the walk of `proportional` gives each candidate exactly its share of the draws
(`DrawsAreShares`), so that at most one draw per candidate is nobody's. That there are such
draws at all is a flaw (section 6), and no property asks for it.

**Only model-checked**: liveness, which rests on fairness and is outside the
prover's reach: `EverythingAnswered`, `EveryMessageHandled`, `AllSubscribed`,
`NeverStalls`, `Converges`, `EveryResultSent` and `StereotypesServed`. Every
invariant and every action property that a passing run checks is also a theorem.

## 6. Where code and intention disagree

Three runs show a disagreement by a counterexample.

* `keystore_eviction` - `keystore_remove` returns `memb_free`'s result, which is
  0 on success, as a `bool` (`keystore.c:260`). A full store therefore evicts *every*
  unpinned key and still refuses the new certificate.
* `bridge_race` - the decision to unsubscribe is made before the `await` and used
  after it (`mqtt_coap_bridge.py:209`); a host that subscribes in between is
  confirmed without an MQTT subscription.
* `mqtt_stuck` - `mqtt_over_coap_subscribe` returns −1 when the lock is held, and
  `subscribe()` tests for non-zero only (`mqtt-over-coap.c:208`); the topic is
  SUBSCRIBING with no request, for ever. Two replies to one ping lead there too.

Others were met while modelling. They are kept in the models, and the properties
exclude them by name.

* `keystore.c:482`: a block of `public_keys_memb` is not cleared, and its key can be found from the
  moment it is on `public_keys`, before `ecdh2` has derived its OSCORE context:
  `keystore-oscore.c:47` then hands out the context of the block's previous subject. If
  `ecdh2` fails the key keeps that context for good (675). `context` in Keystore shows both, and
  no property says that a key has its own subject's context.
* `mqtt_coap_bridge.py`: an unsubscribe during start-up is answered and then undone
  by the loaded table (306, 177); the save truncates the only copy first (65);
  `MqttCodeError` is caught but not imported (182); an exception other than a
  timeout ends all forwarding (163), and so does a message without a known content type (244).
* `mqtt-over-coap.c:405`: the lock expires after 60 s, before CoAP gives up; a late
  answer then acts on the next request's topic.
* `crypto-support.c:166`: a verifier polled out of its pause takes the processor
  again before the signer, possibly for ever; after a message without room for a
  signature the ones behind it wait for the next poll. On the nrf52840 a failing hash leaves
  the previous result to be reported (`platform-crypto-support.c:247`), and `ecc_sign` looks at the
  low byte of the hash's error only (152); one that it misses is, in the model, a signature
  like any other, since messages have no contents.
* `routing.c`: a callback after its lock's expiry blames the next task's Edge (175); a
  late answer is taken for the next task's (523), and when the same route is asked for again, as
  `routing-periodic-test.c:67` does every time, the first block of a late answer stands in for the
  current answer's own (588) and a wrong answer is reported good (`AlikeAnswers`); a failed task stays locked and is
  told of twice, as failed and as timed out (397, 457), and one that succeeds without sending
  blocks as good and as timed out; when the first block is lost the previous answer's verdict is used (621).
* `trust-common.c:97`: a capability added to an inactive Edge is not told to the
  application when the Edge is announced. The comment at line 287 assumes the
  Edge is active.
* `capability.c:230`: a capability timer's posted event survives
  `etimer_stop`, so capabilities are published after the unannouncement.
* `challenge-response.c:200`: there is one copy of the endpoint for all requests; when CoAP
  transmits for longer than a period the next challenge overwrites it, and the end of the old
  request is blamed on the new one's Edge (why `ChallengesConsistent` speaks of a period only).
* `challenge-response.c`: a challenge that could not be sent counts as generated (315;
  "only check if we have previously sent a challenge", 223), so a stray timer event is
  taken for its timeout; `next_challenge` keeps pointing at freed memory when the only
  challenger is removed (543); a late answer stops the timer of another Edge's
  challenge (452), whose silence then goes unnoticed, although `trust-models.c:130`
  says that the timeout of a late answer has been handled; an answer that arrives after
  the capability was removed counts as failed (447).
* Results on the Edge: an application that ends between two chunks leaves
  them in `msg_buf`, and the next result's block is corrupted or dropped; the
  acknowledgement of its last line is taken for one of the restarted application's.
  `edge_bridge.py:153` deletes the entry of the new connection when the old one
  ends late. A lost line stalls the client for good, and so would a block longer than
  `msg_buf` spoil those behind it, which `routing.py:133` only logs. A task that raises has no
  result, and its node hears nothing. The bridge's wait for the acknowledgement of its stop
  never happens, as closing the server ends it first. A crash leaves the application
  available, and so does a start that is forwarded after the bridge's own stop.
* `peer-info.c`: `peer_info_remove_edges` is never called, so what a peer said
  of an Edge is taken for what it says of the next Edge in the same block (157), and
  capabilities that moved use up the fair share (261). Peers are never freed.
* `proportional/trust-choose.c:113`: shares are rounded down and the last number is
  nobody's, so that there is always a draw for which no Edge is chosen, even when there is one
  only. The code logs "a problem with the maths" and sets an index it does not use. `RulesAgree`
  bounds these draws by one per Edge and does not ask for them.
* `stereotypes.c:210`: a request that fails unlocks without polling, so the ones queued
  behind it wait for the next request; tags that the root refuses stay at the head of the
  list and are asked for again and again.

## 7. Mutants

Every property of every passing run has a mutant in `PROJECT.json`: a variant of
one mapped definition with a plausible slip (a dropped guard, a missing unpin, a
swapped order), for which TLC finds that property violated under the run's own
configuration. The variants stand just before the definitions they replace, with a
suffix that says what they change (`Inactive_Any`, `NextIdx_Stays`).

## 8. Not modelled, and the plan

Left out for good: the values of the floating-point trust models (`hmm`,
`continuous`, `stanco`, `throughput`) and of Gaussian and exponential
distributions, which are arithmetic without control state (`hmm.c:162` reads entries of
`c` that were not written, and `alpha[-1]` when the history is empty); CBOR and
certificate encodings; profiling; the attacks and misbehaving Edges used in experiments
(RoutingTask already lets an Edge answer wrongly, late or never); stateless
root services; deployment, flashing and analysis scripts; logging.

Also left out, for what little control they have: **edge-ping**, which only builds for
the throughput model contain; the **monitoring** application, one-way readings whose send
path has the shape of MqttOverCoap's publish; the sending of a node's own trust (`trust.c`), which
queues a message for CryptoSupport and frees it when signed; node start-up.

Next, in order of importance:

1. The composition of MqttOverCoap and SubscriptionBridge, whose states
   disagree after a crash of the bridge or a missed answer.
2. Edge-ping and monitoring, as two more users of timed locks.
