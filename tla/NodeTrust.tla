----------------------------- MODULE NodeTrust -----------------------------
(***************************************************************************)
(* What a node believes of its Edges and how it uses that to pick one.     *)
(* Its own experience is kept with each Edge and capability in edge-info   *)
(* by the trust model; what peers say is kept in peer-info, by pointers    *)
(* into edge-info; what is typical of Edges with the same tags is fetched  *)
(* from the root by stereotypes.  One application is modelled: an Edge has *)
(* its capability or has not.                                              *)
(***************************************************************************)
EXTENDS TrustChoose, InteractionHistory, FiniteSets, FiniteSetsExt, TLC

CONSTANTS
    Edges, Peers, Tags,
    TagOf,                      \* Edge -> the tags in its certificate
    Typical,                    \* tags -> the stereotype the root has for them
    NumEdgeResources,           \* NUM_EDGE_RESOURCES
    NumEdgeCapabilities,        \* NUM_EDGE_CAPABILITIES
    NumPeers,                   \* NUM_PEERS
    MaxNumStereotypes,          \* MAX_NUM_STEREOTYPES
    Unit,                       \* trust values are multiples of 1 / Unit
    MaxExchanges,               \* bound on the stereotype requests under way
    Messages,                   \* what peers may say: Edges and their trust, in order
    Scenarios                   \* the trust model, rules, faults, actors and bounds to consider

Models == {"basic", "basic_with_reputation", "hmm"}
Rules  == {"fcfs", "random", "highest", "banded", "proportional"}
Faults == {"send",              \* CoAP has no memory for a request
           "error",             \* a request is not answered
           "refused",           \* the root has no stereotype for the tags
           "slow"}              \* an answer takes longer than the lock lasts

EdgeBlocks == 1..NumEdgeResources
CapBlocks  == 1..(NumEdgeResources * NumEdgeCapabilities)
Beta       == (Nat \ {0}) \X (Nat \ {0})
EdgeTm     == [sub : Beta, res : Beta]
(* What the trust model is told of: a submission, the result (a failure and *)
(* a time-out count alike) and the quality of the result                    *)
Reports    == {"acked", "unacked", "answered", "unanswered", "correct", "incorrect"}
Told       == {d \in Beta : d[2] < Unit}    \* whose mean is not rounded to zero
Opinion    == [edge : Edges, tm : [sub : Told, res : Told], qual : Told \cup {NULL}]

ASSUME TrustAssumption ==
    /\ NumEdgeResources \in Nat \ {0} /\ NumEdgeCapabilities \in Nat \ {0}
    /\ NumPeers \in Nat /\ MaxNumStereotypes \in Nat \ {0}
    /\ Unit \in Nat \ {0} /\ MaxExchanges \in Nat \ {0}
    /\ TagOf \in [Edges -> Tags]
    /\ DOMAIN Typical = Tags /\ \A t \in Tags : Typical[t] \in EdgeTm
    /\ NULL \notin Edges /\ NULL \notin Nat /\ NULL \notin EdgeTm /\ NULL \notin Beta
    /\ \A m \in Messages : /\ m \in Seq(Opinion)
                           /\ \A i, j \in DOMAIN m : m[i].edge = m[j].edge => i = j
    /\ \A s \in Scenarios : /\ s.model \in Models /\ s.rules \subseteq Rules
                            /\ s.faults \subseteq Faults /\ s.stereotypes \in BOOLEAN
                            /\ s.edges \subseteq Edges /\ s.peers \subseteq Peers
                            /\ s.tasks \in Nat /\ s.reports \in Nat
                            /\ s.messages \in Nat /\ s.moves \in Nat

(* 1 / Unit is so small that the node's own trust is not rounded to zero either *)
ASSUME UnitAssumption ==
    \A s \in Scenarios : /\ s.reports + 1 < Unit
                         /\ \A t \in Tags : /\ s.reports + Typical[t].sub[2] < Unit
                                            /\ s.reports + Typical[t].res[2] < Unit

VARIABLES
    scenario,
    edge_resources, \* blocks of the known Edges, the one added last first
    edge,           \* block -> address, EDGE_RESOURCE_ACTIVE, its capability's block, tm
    capability,     \* block -> tm of the capability: result quality and history
    key,            \* Edge -> where its certificate is in the key store
    peer,           \* Peer that is stored -> block of an Edge -> what the peer said of it
    requesting,     \* tags in stereotypes_requesting
    stereotypes,    \* tags in stereotypes
    polled,         \* the stereotype process has been polled
    locked,         \* coap_callback_in_use
    exchanges,      \* tags -> number of requests for them that CoAP has under way
    \* what happened, for the properties and the bounds
    given,          \* the Edges that have been given a task
    log,            \* Edge -> the reports on it that the trust model was given, in order
    since,          \* block of an Edge or capability -> length of its log when it was set up
    owners,         \* block of an Edge -> the Edges it has held
    homes,          \* Edge -> blocks its capability has been in
    said,           \* Peer, Edge -> what the peer last said of the Edge while it was known
    failed,         \* a stereotype request failed and nobody has asked for another since
    used            \* tasks, reports, messages and announcements so far

edgeVars       == <<edge_resources, edge, capability, since, owners, homes>>
peerVars       == <<peer, said>>
stereotypeVars == <<requesting, stereotypes, polled, locked, exchanges, failed>>
taskVars       == <<given, log>>
vars == <<scenario, edgeVars, key, peerVars, stereotypeVars, taskVars, used>>

Allowed(k) == used[k] < scenario[k] /\ used' = [used EXCEPT ![k] = @ + 1]

-----------------------------------------------------------------------------
(* The trust models.  Trust records are beta distributions, pairs of counts *)

beta_dist_expected_OfBad(d) == (d[2] * Unit) \div (d[1] + d[2])

beta_dist_expected(d) == (d[1] * Unit) \div (d[1] + d[2])

beta_dist_add_good(d) == <<d[1] + 1, d[2]>>

beta_dist_add_bad(d) == <<d[1], d[2] + 1>>

Count(d, good) == IF good THEN beta_dist_add_good(d) ELSE beta_dist_add_bad(d)

(* b is NULL when there is no stereotype *)
beta_dist_combine(a, b) == IF b = NULL THEN a ELSE <<a[1] - 1 + b[1], a[2] - 1 + b[2]>>

edge_resource_tm_init == [sub |-> <<1, 1>>, res |-> <<1, 1>>]

edge_capability_tm_init == [qual |-> <<1, 1>>, hist |-> interaction_history_init]

edge_info_find_addr(e) ==
    LET at == {b \in ToSet(edge_resources) : edge[b].addr = e}
    IN IF at = {} THEN NULL ELSE CHOOSE b \in at : TRUE

(* keystore_find_addr finds verified certificates only *)
Stereotype(b) ==
    LET e == edge[b].addr
    IN IF key[e] = "verified" /\ TagOf[e] \in ToSet(stereotypes) THEN Typical[TagOf[e]] ELSE NULL

Metrics          == 3   \* trust_weights_find: each of the three metrics weighs 1 / 3 ...
ReputationWeight == 4   \* ... and reputation 1 / 4

OwnTrust(b) ==
    LET s == Stereotype(b)
    IN (  beta_dist_expected(beta_dist_combine(edge[b].tm.sub, IF s = NULL THEN NULL ELSE s.sub))
        + beta_dist_expected(beta_dist_combine(edge[b].tm.res, IF s = NULL THEN NULL ELSE s.res))
        + beta_dist_expected(capability[edge[b].cap].qual)) \div Metrics

peer_info_find_edge(p, b) == p \in DOMAIN peer /\ b \in DOMAIN peer[p]

(* One peer's view, of the parts it has told *)
PeerTrust(p, b) ==
    LET x == peer[p][b]
        c == edge[b].cap
        told == beta_dist_expected(x.tm.sub) + beta_dist_expected(x.tm.res)
    IN IF c \in DOMAIN x.caps THEN (told + beta_dist_expected(x.caps[c])) \div Metrics
       ELSE told \div (Metrics - 1)

calculate_trust_value(b) ==
    LET who == {p \in Peers : peer_info_find_edge(p, b)}
        ps  == SetToSeq(who)
        rep == Total(ps, [p \in who |-> PeerTrust(p, b)]) \div Len(ps)
    IN IF scenario.model = "basic_with_reputation" /\ who # {}
       THEN ((ReputationWeight - 1) * OwnTrust(b) + rep) \div ReputationWeight
       ELSE OwnTrust(b)

-----------------------------------------------------------------------------
(* Choosing an Edge and learning from what comes of it *)

Usable(b) == edge[b].active /\ edge[b].cap # NULL

Candidates ==
    LET kept[i \in 0..Len(edge_resources)] ==
            IF i = 0 THEN <<>>
            ELSE LET b == edge_resources[i]
                 IN IF Usable(b) THEN Append(kept[i - 1], b) ELSE kept[i - 1]
    IN kept[Len(edge_resources)]

Trust == [b \in ToSet(Candidates) |-> calculate_trust_value(b)]

choose_edge(rule) ==
    CASE rule = "fcfs"         -> {fcfs(Candidates)}
      [] rule = "random"       -> random(Candidates)
      [] rule = "highest"      -> {highest(Candidates, Trust)}
      [] rule = "banded"       -> banded(Candidates, Trust)
      [] rule = "proportional" -> {proportional(Candidates, Trust, r) : r \in 0..RandMax}

(* A task is given to the Edge the rule picks; its address is kept in ep *)
Submit(b) ==
    /\ Allowed("tasks")
    /\ b # NULL
    /\ given' = given \cup {edge[b].addr}
    /\ UNCHANGED <<scenario, edgeVars, key, peerVars, stereotypeVars, log>>

Learn_basic(b, c, x) ==
    /\ edge' = [edge EXCEPT ![b].tm =
                   [sub |-> IF x \in {"acked", "unacked"} THEN Count(@.sub, x = "acked") ELSE @.sub,
                    res |-> IF x \in {"answered", "unanswered"} THEN Count(@.res, x = "answered")
                            ELSE @.res]]
    /\ capability' = [capability EXCEPT ![c].qual =
                         IF x \in {"correct", "incorrect"} THEN Count(@, x = "correct") ELSE @]

(* What went well before the result itself is no observation *)
Learn_hmm(b, c, x) ==
    /\ capability' = [capability EXCEPT ![c].hist =
                         IF x \in {"acked", "answered"} THEN @ ELSE interaction_history_push(@, x)]
    /\ UNCHANGED edge

(* The callbacks of a task given to e some time ago: on its submission, its *)
(* status, its time-out and its result.  They come on their own, in any     *)
(* order and number (a failed task is reported as failed and again as timed *)
(* out), about whatever is known at e's address by then, if anything is.    *)
Report(e, x) ==
    LET b == edge_info_find_addr(e)
    IN /\ Allowed("reports")
       /\ b # NULL
       /\ edge[b].cap # NULL
       /\ IF scenario.model = "hmm" THEN Learn_hmm(b, edge[b].cap, x)
                                    ELSE Learn_basic(b, edge[b].cap, x)
       /\ log' = [log EXCEPT ![e] = Append(@, x)]
       /\ UNCHANGED <<scenario, edge_resources, since, owners, homes, key, peerVars, stereotypeVars,
                      given>>

-----------------------------------------------------------------------------
(* Stereotypes *)

keystore_certificate_contains_tags(t) == \E e \in Edges : TagOf[e] = t /\ key[e] # "none"

Useless(t) == ~keystore_certificate_contains_tags(t)

(* The stereotypes once there is room for another, or NULL if there is none *)
MakeStereotypeRoom ==
    LET useless == SelectInSeq(stereotypes, Useless)
    IN IF Len(stereotypes) + Len(requesting) < MaxNumStereotypes THEN stereotypes
       ELSE IF useless = 0 THEN NULL
       ELSE RemoveAt(stereotypes, useless)

(* process_poll: whatever is waiting will be tried again *)
Poll == polled' = TRUE /\ failed' = FALSE

stereotypes_request(t) ==
    LET room == MakeStereotypeRoom
    IN /\ IF t \in ToSet(stereotypes) \cup ToSet(requesting) \/ room = NULL
          THEN UNCHANGED <<requesting, stereotypes, polled, failed>>
          ELSE /\ stereotypes' = room
               /\ requesting' = <<t>> \o requesting
               /\ Poll
       /\ UNCHANGED <<locked, exchanges>>

(* Ask the root for the tags requested last, if there are any.  A second    *)
(* exchange can be under way when the lock of the first has run out.        *)
stereotypes_send_request(l) ==
    \/ /\ requesting # <<>>
       /\ MapThenSumSet(LAMBDA t : exchanges[t], Tags) < MaxExchanges
       /\ exchanges' = [exchanges EXCEPT ![Head(requesting)] = @ + 1]
       /\ locked' = TRUE
       /\ UNCHANGED failed
    \/ /\ requesting # <<>>
       /\ "send" \in scenario.faults
       /\ failed' = TRUE
       /\ locked' = l
       /\ UNCHANGED exchanges
    \/ /\ requesting = <<>>
       /\ locked' = l
       /\ UNCHANGED <<exchanges, failed>>

StereotypePolled ==
    /\ scenario.stereotypes
    /\ polled
    /\ polled' = FALSE
    /\ IF locked THEN UNCHANGED <<locked, exchanges, failed>>
                 ELSE stereotypes_send_request(FALSE)
    /\ UNCHANGED <<scenario, edgeVars, key, peerVars, requesting, stereotypes, taskVars, used>>

(* The lock's timer runs out and the process is told at once *)
StereotypeUnlocked ==
    /\ "slow" \in scenario.faults
    /\ locked
    /\ stereotypes_send_request(FALSE)
    /\ UNCHANGED <<scenario, edgeVars, key, peerVars, requesting, stereotypes, polled, taskVars, used>>

process_sterotype_response(t) ==
    IF t \in ToSet(requesting)
    THEN requesting' = RemoveFirst(requesting, t) /\ stereotypes' = <<t>> \o stereotypes
    ELSE UNCHANGED <<requesting, stereotypes>>

Finished_Quiet == locked' = FALSE /\ UNCHANGED <<polled, failed>>

Finished == locked' = FALSE /\ Poll

(* CoAP reports a response and then that the request has finished, or an    *)
(* error: the latter does not poll the process.                             *)
send_callback(t, status) ==
    /\ exchanges[t] > 0
    /\ exchanges' = [exchanges EXCEPT ![t] = @ - 1]
    /\ \/ status = "content" /\ process_sterotype_response(t) /\ Finished
       \/ status = "refused" /\ UNCHANGED <<requesting, stereotypes>> /\ Finished
       \/ /\ status = "error"
          /\ locked' = FALSE /\ failed' = TRUE
          /\ UNCHANGED <<requesting, stereotypes, polled>>
    /\ UNCHANGED <<scenario, edgeVars, key, peerVars, taskVars, used>>

StereotypeFails(t) == \E status \in {"refused", "error"} \cap scenario.faults : send_callback(t, status)

-----------------------------------------------------------------------------
(* Edges come and go.  An Edge that is in use is never evicted.             *)

EdgeRoom ==
    LET free     == EdgeBlocks \ ToSet(edge_resources)
        inactive == SelectInSeq(edge_resources, LAMBDA b : ~edge[b].active)
    IN IF free # {} THEN Min(free)
       ELSE IF inactive = 0 THEN NULL ELSE edge_resources[inactive]

FreeCaps == CapBlocks \ {edge[b].cap : b \in ToSet(edge_resources)}

(* A capability announced with the Edge's certificate: process_certificate  *)
(* and mqtt_publish_capability_add_handler.                                 *)
Available(e) ==
    LET old == edge_info_find_addr(e)
        b   == IF old = NULL THEN EdgeRoom ELSE old
        has == old # NULL /\ edge[b].cap # NULL
        c   == IF has THEN edge[b].cap ELSE Min(FreeCaps)
    IN /\ Allowed("moves")
       /\ b # NULL
       /\ edge_resources' = IF old = NULL THEN <<b>> \o RemoveFirst(edge_resources, b)
                             ELSE edge_resources
       /\ edge' = [edge EXCEPT ![b] = [addr |-> e, active |-> TRUE, cap |-> c,
                      tm |-> IF old = NULL THEN edge_resource_tm_init ELSE @.tm]]
       /\ capability' = IF has THEN capability ELSE [capability EXCEPT ![c] = edge_capability_tm_init]
       /\ since' = [edge |-> IF old = NULL THEN [since.edge EXCEPT ![b] = Len(log[e])] ELSE since.edge,
                    cap  |-> IF has THEN since.cap ELSE [since.cap EXCEPT ![c] = Len(log[e])]]
       /\ owners' = [owners EXCEPT ![b] = @ \cup {e}]
       /\ homes' = [homes EXCEPT ![e] = @ \cup {c}]
       /\ stereotypes_request(TagOf[e])
       /\ key' = [key EXCEPT ![e] = IF @ = "none" THEN "to_verify" ELSE @]
       /\ UNCHANGED <<scenario, peerVars, taskVars>>

(* mqtt_publish_unannounce_handler, in the default build *)
Unavailable(e) ==
    LET b == edge_info_find_addr(e)
    IN /\ Allowed("moves")
       /\ b # NULL
       /\ edge' = [edge EXCEPT ![b].active = FALSE, ![b].cap = NULL]
       /\ UNCHANGED <<scenario, edge_resources, capability, since, owners, homes, key, peerVars,
                      stereotypeVars, taskVars>>

KeyVerified(e) ==
    /\ scenario.stereotypes
    /\ key[e] = "to_verify"
    /\ key' = [key EXCEPT ![e] = "verified"]
    /\ UNCHANGED <<scenario, edgeVars, peerVars, stereotypeVars, taskVars, used>>

(* The certificate does not verify, or is evicted *)
KeyRemoved(e) ==
    /\ scenario.stereotypes
    /\ key[e] # "none"
    /\ key' = [key EXCEPT ![e] = "none"]
    /\ UNCHANGED <<scenario, edgeVars, peerVars, stereotypeVars, taskVars, used>>

-----------------------------------------------------------------------------
(* What peers say.  Nothing in peer-info is ever given back: peers, Edges   *)
(* and capabilities stay, whatever becomes of the blocks they point to.     *)

(* The table f with v at x *)
Put(f, x, v) == [y \in DOMAIN f \cup {x} |-> IF y = x THEN v ELSE f[y]]

peer_info_add(p) ==
    IF p \in DOMAIN peer \/ Cardinality(DOMAIN peer) = NumPeers THEN peer
    ELSE Put(peer, p, <<>>)

(* peer_edges_memb: the entries in use, of all peers *)
Allocated(s) == {x \in (DOMAIN s) \X EdgeBlocks : x[2] \in DOMAIN s[x[1]]}

peer_info_find_edge_or_allocate(s, p, b) ==
    IF \/ b \in DOMAIN s[p]
       \/ Cardinality(DOMAIN s[p]) >= NumEdgeResources
       \/ Cardinality(Allocated(s)) = NumPeers * NumEdgeResources
       THEN s
       ELSE [s EXCEPT ![p] = Put(@, b, [tm |-> NULL, caps |-> <<>>])]

peer_info_update_edge_Once(s, p, b, tm) ==
    LET a == peer_info_find_edge_or_allocate(s, p, b)
    IN IF b \in DOMAIN s[p] THEN s
       ELSE IF b \in DOMAIN a[p] THEN [a EXCEPT ![p][b].tm = tm] ELSE a

peer_info_update_edge(s, p, b, tm) ==
    LET a == peer_info_find_edge_or_allocate(s, p, b)
    IN IF b \in DOMAIN a[p] THEN [a EXCEPT ![p][b].tm = tm] ELSE a

(* A peer's fair share of an Edge's capabilities.  The pool is as large as  *)
(* all the shares together.                                                 *)
CapabilityRoom(caps) == Cardinality(DOMAIN caps) < NumEdgeCapabilities

peer_info_update_capability(s, p, b, c, tm) ==
    LET a == peer_info_find_edge_or_allocate(s, p, b)
    IN IF b \in DOMAIN a[p] /\ (c \in DOMAIN a[p][b].caps \/ CapabilityRoom(a[p][b].caps))
       THEN [a EXCEPT ![p][b].caps = Put(@, c, tm)] ELSE a

deserialise_trust_edge_and_capabilities(s, p, b, x) ==
    LET u == peer_info_update_edge(s, p, b, x.tm)
    IN IF x.qual = NULL \/ edge[b].cap = NULL THEN u
       ELSE peer_info_update_capability(u, p, b, edge[b].cap, x.qual)

(* What a peer has said of an Edge, x so far, once the message m is read *)
Heard(x, e, m) ==
    LET at == {i \in DOMAIN m : m[i].edge = e}
        i  == CHOOSE i \in at : TRUE
        b  == edge_info_find_addr(e)
    IN IF at = {} \/ b = NULL THEN x
       ELSE [tm |-> m[i].tm,
             qual |-> IF m[i].qual # NULL /\ edge[b].cap # NULL THEN m[i].qual ELSE x.qual]

(* Once its signature is verified, trust_rx_continue; Edges that are not    *)
(* known are skipped.                                                       *)
process_received_trust(p, m) ==
    LET s == peer_info_add(p)
        read[i \in 0..Len(m)] ==
            IF i = 0 THEN s
            ELSE LET b == edge_info_find_addr(m[i].edge)
                 IN IF b = NULL THEN read[i - 1]
                    ELSE deserialise_trust_edge_and_capabilities(read[i - 1], p, b, m[i])
    IN /\ Allowed("messages")
       /\ p \in DOMAIN s
       /\ peer' = read[Len(m)]
       /\ said' = [said EXCEPT ![p] = [e \in Edges |-> Heard(@[e], e, m)]]
       /\ UNCHANGED <<scenario, edgeVars, key, stereotypeVars, taskVars>>

-----------------------------------------------------------------------------
Nothing == [addr |-> NULL, active |-> FALSE, cap |-> NULL, tm |-> edge_resource_tm_init]

Init ==
    /\ scenario \in Scenarios
    /\ edge_resources = <<>>
    /\ edge = [b \in EdgeBlocks |-> Nothing]
    /\ capability = [c \in CapBlocks |-> edge_capability_tm_init]
    /\ key = [e \in Edges |-> "none"]
    /\ peer = <<>>
    /\ requesting = <<>> /\ stereotypes = <<>>
    /\ polled = FALSE /\ locked = FALSE /\ failed = FALSE
    /\ exchanges = [t \in Tags |-> 0]
    /\ given = {} /\ log = [e \in Edges |-> <<>>]
    /\ since = [edge |-> [b \in EdgeBlocks |-> 0], cap |-> [c \in CapBlocks |-> 0]]
    /\ owners = [b \in EdgeBlocks |-> {}]
    /\ homes = [e \in Edges |-> {}]
    /\ said = [p \in Peers |-> [e \in Edges |-> [tm |-> NULL, qual |-> NULL]]]
    /\ used = [tasks |-> 0, reports |-> 0, messages |-> 0, moves |-> 0]

Next ==
    \/ \E rule \in scenario.rules : \E b \in choose_edge(rule) : Submit(b)
    \/ \E e \in given, x \in Reports : Report(e, x)
    \/ StereotypePolled
    \/ StereotypeUnlocked
    \/ \E t \in Tags : send_callback(t, "content")
    \/ \E t \in Tags : StereotypeFails(t)
    \/ \E e \in scenario.edges : Available(e)
    \/ \E e \in Edges : Unavailable(e)
    \/ \E e \in Edges : KeyVerified(e)
    \/ \E e \in Edges : KeyRemoved(e)
    \/ \E p \in scenario.peers, m \in Messages : process_received_trust(p, m)

(* The stereotype process runs when it has been polled, and the root answers *)
Fairness == /\ WF_vars(StereotypePolled)
            /\ \A t \in Tags : WF_vars(send_callback(t, "content"))

Spec == Init /\ [][Next]_vars /\ Fairness

-----------------------------------------------------------------------------
(* Every record has its type, and the lists of blocks and tags are without  *)
(* repetitions and within their pools.                                      *)
TypeOK ==
    /\ scenario \in Scenarios
    /\ edge_resources \in Seq(EdgeBlocks) /\ IsInjective(edge_resources)
    /\ edge \in [EdgeBlocks -> [addr : Edges \cup {NULL}, active : BOOLEAN,
                                cap : CapBlocks \cup {NULL}, tm : EdgeTm]]
    /\ capability \in [CapBlocks -> [qual : Beta, hist : Histories(Reports)]]
    /\ key \in [Edges -> {"none", "to_verify", "verified"}]
    /\ requesting \in Seq(Tags) /\ stereotypes \in Seq(Tags)
    /\ IsInjective(requesting \o stereotypes)
    /\ Len(requesting) + Len(stereotypes) <= MaxNumStereotypes
    /\ exchanges \in [Tags -> Nat]
    /\ {polled, locked, failed} \subseteq BOOLEAN /\ given \subseteq Edges

(* The reports on an Edge after the n-th *)
Experience(e, n) == SubSeq(log[e], n + 1, Len(log[e]))

(* The distribution that counts the reports that are good and bad *)
Tally(xs, good, bad) == <<1 + Cardinality({i \in DOMAIN xs : xs[i] \in good}),
                          1 + Cardinality({i \in DOMAIN xs : xs[i] \in bad})>>

(* The reports that are observations of the HMM models, in order *)
Observed(xs) ==
    LET kept[i \in 0..Len(xs)] ==
            IF i = 0 THEN <<>>
            ELSE IF xs[i] \in {"acked", "answered"} THEN kept[i - 1] ELSE Append(kept[i - 1], xs[i])
    IN kept[Len(xs)]

(* What the trust model holds of an Edge and of its capability is what has  *)
(* been reported on that Edge, late or not, since edge-info got to know it: *)
(* nothing of an Edge that had the same memory before, and each report once *)
(* (but a task may be reported on more than once).  The HMM models' history *)
(* is the last HistorySize observations, oldest first.                      *)
RecordIsExperience ==
    \A b \in ToSet(edge_resources) :
        LET e    == edge[b].addr
            c    == edge[b].cap
            all  == Experience(e, since.edge[b])
            last == Experience(e, since.cap[c])
            seen == Observed(last)
        IN IF scenario.model = "hmm"
           THEN c # NULL => Iterated(capability[c].hist)
                            = SubSeq(seen, Max({1, Len(seen) - HistorySize + 1}), Len(seen))
           ELSE /\ edge[b].tm.sub = Tally(all, {"acked"}, {"unacked"})
                /\ edge[b].tm.res = Tally(all, {"answered"}, {"unanswered"})
                /\ c # NULL => capability[c].qual = Tally(last, {"correct"}, {"incorrect"})

(* The node's own experience is recorded about the Edge it is about (trust  *)
(* models, interaction-history.c).                                          *)
ExperienceRecorded == TypeOK /\ RecordIsExperience

(* What the reputation of an Edge is computed from is what each peer that   *)
(* is stored last said of that Edge, as long as peer-info's pointers have   *)
(* not been overtaken (peer-info.c): the Edge's block has never been        *)
(* another Edge's, and its capability has never moved to another block.     *)
ReputationOfItsEdge ==
    \A p \in DOMAIN peer, b \in ToSet(edge_resources) :
        LET e == edge[b].addr
            c == edge[b].cap
        IN owners[b] = {e} =>
              /\ peer_info_find_edge(p, b) <=> said[p][e].tm # NULL
              /\ peer_info_find_edge(p, b) =>
                    /\ peer[p][b].tm = said[p][e].tm
                    /\ homes[e] = {c} => IF c \in DOMAIN peer[p][b].caps
                                         THEN peer[p][b].caps[c] = said[p][e].qual
                                         ELSE said[p][e].qual = NULL

(* What trust is computed from is about the Edge it is used for: the node's *)
(* own experience, and what its peers have told it.                         *)
TrustRecorded == ExperienceRecorded /\ ReputationOfItsEdge

AtLeast(d1, d2) == d1[1] >= d2[1] /\ d1[2] <= d2[2]

(* From the trust the node has come to have in the Edges it may use, which  *)
(* is never zero, the rules favour the Edges they should (RulesAgree: the   *)
(* first of the most trusted, those within the band, or each in proportion, *)
(* with at most one draw per Edge that favours none).  And trust follows    *)
(* experience: of two Edges without stereotype or reputation, one with a    *)
(* record as good in every respect is trusted as much.                      *)
ChosenIsBest ==
    LET t  == Trust
        es == ToSet(Candidates)
    IN (scenario.model # "hmm" /\ scenario.rules # {}) =>
         /\ \A e \in es : t[e] \in 1..Unit
         /\ RulesAgree(Candidates, t, scenario.rules)
         /\ \A e, f \in es :
               (/\ scenario.model = "basic" /\ Stereotype(e) = NULL /\ Stereotype(f) = NULL
                /\ AtLeast(edge[e].tm.sub, edge[f].tm.sub) /\ AtLeast(edge[e].tm.res, edge[f].tm.res)
                /\ AtLeast(capability[edge[e].cap].qual, capability[edge[f].cap].qual))
               => t[e] >= t[f]

(* Stereotypes that are asked for arrive, in whatever order the answers,    *)
(* polls and expiries of the lock come, unless the root refuses tags (their *)
(* request then stays at the head of the list and is repeated) or a request *)
(* fails and nothing polls the process afterwards (stereotypes.c:210).      *)
StereotypesServed ==
    \A t \in Tags :
       (/\ scenario.stereotypes /\ "refused" \notin scenario.faults
        /\ t \in ToSet(requesting))
       ~> (t \in ToSet(stereotypes) \/ failed)

=============================================================================
