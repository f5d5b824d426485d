-------------------------- MODULE RoutingTaskProofs --------------------------
(***************************************************************************)
(* The locks of the routing application protect what they are meant to       *)
(* protect, for any number of Edges, tasks and blocks.                       *)
(***************************************************************************)
EXTENDS RoutingTask, TLAPS

(* Nothing is said of a task before it is sent. *)
UpdatesAreOfSent == \A u \in updates : u.task \in 1..sent

(* Without early expiry only the current task has an exchange, under its lock *)
ExchangeIsCurrent == /\ open \subseteq {sent}
                     /\ sent \in open => coap_callback_in_use /\ ep = target[sent]

(* The verdict kept from the first block, once the current task has had one,  *)
(* is about the current task.                                                *)
FirstIsOwn == /\ \A t \in Tasks : stage[t] <= 1 \/ t > sent => ~wrong[t]
              /\ task # 0 /\ stage[task] \in 2..(Over - 1) /\ first_src_isclose => ~wrong[task]

(* The quality of an answer is told at its end. *)
JudgedIsOver == \A u \in updates : u.kind = "quality" => stage[u.task] = Over

(* A task under way has been sent. *)
TaskSentFirst == task_in_use => sent # 0

IInv == /\ TypeOK
        /\ TaskSentFirst
        /\ CallbackLockHasExchange
        /\ TaskLockKeepsTask
        /\ UpdatesAreOfSent
        /\ task <= sent
        /\ JudgedIsOver
        /\ EarlyExpiry \/ (ExchangeIsCurrent /\ BlamesTarget)
        /\ LostBlocks \/ AlikeAnswers \/ (FirstIsOwn /\ GoodIsRight)

(* The faults that may happen are the same throughout. *)
LEMMA SameFaults ==
    ASSUME scenario' = scenario
    PROVE  /\ EarlyExpiry' <=> EarlyExpiry
           /\ LostBlocks' <=> LostBlocks
           /\ AlikeAnswers' <=> AlikeAnswers
  BY DEF EarlyExpiry, LostBlocks, AlikeAnswers, faults

LEMMA InitIInv == Init => IInv
<1> SUFFICES ASSUME Init PROVE IInv
  OBVIOUS
<1>1. sent = 0 /\ task = 0 /\ open = {} /\ updates = {} /\ ~coap_callback_in_use /\ ~task_in_use
  BY DEF Init
<1>2. TypeOK
  <2>1. target \in [Tasks -> Edges \cup {None}] /\ route \in [Tasks -> Routes \cup {None}] /\ wrong \in [Tasks -> BOOLEAN]
    BY DEF Init
  <2>2. Over \in StatusNext..Over
    BY NatAssumption DEF StatusNext, Over
  <2>3. stage \in [Tasks -> StatusNext..Over]
    BY <2>2 DEF Init
  <2>4. 0 \in 0..MaxTasks
    BY NatAssumption
  <2> QED
    BY <1>1, <2>1, <2>3, <2>4, ScenarioAssumption DEF Init, TypeOK
<1>3. CallbackLockHasExchange /\ TaskLockKeepsTask /\ UpdatesAreOfSent /\ JudgedIsOver /\ task <= sent
      /\ TaskSentFirst
  BY <1>1 DEF TaskSentFirst, CallbackLockHasExchange, TaskLockKeepsTask, UpdatesAreOfSent, JudgedIsOver
<1>4. ExchangeIsCurrent /\ BlamesTarget /\ GoodIsRight
  BY <1>1 DEF ExchangeIsCurrent, BlamesTarget, GoodIsRight
<1>5. FirstIsOwn
  BY <1>1 DEF Init, FirstIsOwn
<1> QED
  BY <1>2, <1>3, <1>4, <1>5 DEF IInv

(* Steps that leave the tasks, the locks and the updates alone *)
LEMMA EdgeInfoIInv ==
    ASSUME IInv, known' \subseteq Edges, active' \subseteq known', running' \in BOOLEAN,
           UNCHANGED <<scenario, current, locks, remote, updates>>
    PROVE  IInv'
  BY SameFaults DEF IInv, TypeOK, TaskSentFirst, CallbackLockHasExchange, TaskLockKeepsTask, UpdatesAreOfSent, JudgedIsOver,
         ExchangeIsCurrent, BlamesTarget, FirstIsOwn, GoodIsRight, current, locks, remote

LEMMA SubmitIInv == ASSUME IInv, NEW e \in Edges, NEW r \in Routes, Submit(e, r) PROVE IInv'
<1> USE DEF IInv
<1>0. ~coap_callback_in_use /\ ~task_in_use /\ ep' = e /\ UNCHANGED <<scenario, edgeInfo, first_src_isclose, wrong, updates>>
  BY DEF Submit, SubmitWith
<1>1. CASE /\ sent < MaxTasks
           /\ sent' = sent + 1
           /\ target' = [target EXCEPT ![sent'] = e]
           /\ route' = [route EXCEPT ![sent'] = r]
           /\ open' = open \cup {sent'}
           /\ stage' = [stage EXCEPT ![sent'] = StatusNext]
           /\ task' = sent'
           /\ task_in_use' = TRUE
           /\ coap_callback_in_use' = TRUE
  <2>1. sent' \in Tasks /\ sent' \in 1..MaxTasks /\ sent \in Nat /\ sent' \in Nat
    BY <1>1, NatAssumption DEF TypeOK, Tasks
  <2>2. TypeOK'
    BY <1>0, <1>1, <2>1, NatAssumption DEF TypeOK, edgeInfo, StatusNext, Over, Tasks
  <2>3. target'[sent'] = e /\ stage'[sent'] = 0 /\ \A t \in Tasks : t # sent' => target'[t] = target[t] /\ stage'[t] = stage[t]
    BY <1>1, <2>1 DEF TypeOK, StatusNext
  <2>4. \A u \in updates : u.task \in Tasks /\ u.task # sent' /\ u.task \in 1..sent'
    BY <1>1, <2>1, NatAssumption DEF UpdatesAreOfSent, Tasks, TypeOK
  <2>5. CallbackLockHasExchange' /\ TaskLockKeepsTask' /\ task' <= sent' /\ TaskSentFirst'
    BY <1>0, <1>1, <2>1, <2>3 DEF TaskSentFirst, CallbackLockHasExchange, TaskLockKeepsTask
  <2>6. UpdatesAreOfSent' /\ JudgedIsOver'
    BY <1>0, <2>3, <2>4 DEF UpdatesAreOfSent, JudgedIsOver
  <2>7. ASSUME ~EarlyExpiry PROVE ExchangeIsCurrent' /\ BlamesTarget'
    <3>1. open = {}
      BY <1>0, <2>7 DEF ExchangeIsCurrent
    <3> QED
      BY <1>0, <1>1, <2>3, <2>4, <2>7, <3>1 DEF ExchangeIsCurrent, BlamesTarget
  <2>8. ASSUME ~LostBlocks, ~AlikeAnswers PROVE FirstIsOwn' /\ GoodIsRight'
    <3>1. GoodIsRight'
      BY <1>0, <2>8 DEF GoodIsRight
    <3>2. ~wrong[sent']
      BY <1>1, <2>1, <2>8 DEF FirstIsOwn
    <3> QED
      BY <1>0, <1>1, <2>1, <2>3, <2>8, <3>1, <3>2 DEF FirstIsOwn
  <2> QED
    BY <1>0, <2>2, <2>5, <2>6, <2>7, <2>8, SameFaults
<1>2. CASE /\ task' = 0
           /\ UNCHANGED <<sent, target, route, open, stage, locks>>
  <2>1. TypeOK'
    BY <1>0, <1>2, NatAssumption DEF TypeOK, edgeInfo, locks
  <2>2. CallbackLockHasExchange' /\ TaskLockKeepsTask' /\ task' <= sent' /\ TaskSentFirst'
    BY <1>0, <1>2 DEF TaskSentFirst, CallbackLockHasExchange, TaskLockKeepsTask, locks, TypeOK
  <2>3. UpdatesAreOfSent' /\ JudgedIsOver'
    BY <1>0, <1>2 DEF UpdatesAreOfSent, JudgedIsOver
  <2>4. ASSUME ~EarlyExpiry PROVE ExchangeIsCurrent' /\ BlamesTarget'
    BY <1>0, <1>2, <2>4 DEF ExchangeIsCurrent, BlamesTarget
  <2>5. ASSUME ~LostBlocks, ~AlikeAnswers PROVE FirstIsOwn' /\ GoodIsRight'
    BY <1>0, <1>2, <2>5 DEF FirstIsOwn, GoodIsRight
  <2> QED
    BY <1>0, <2>1, <2>2, <2>3, <2>4, <2>5, SameFaults
<1> QED
  BY <1>1, <1>2 DEF Submit, SubmitWith

LEMMA RejectedIInv == IInv /\ Rejected => IInv'
<1> SUFFICES ASSUME IInv, Rejected PROVE IInv'
  OBVIOUS
<1> USE DEF IInv, Rejected
<1>1. TypeOK'
  BY NatAssumption DEF TypeOK, edgeInfo, locks, remote
<1>2. CallbackLockHasExchange' /\ TaskLockKeepsTask' /\ task' <= sent' /\ TaskSentFirst'
  BY DEF TaskSentFirst, CallbackLockHasExchange, TaskLockKeepsTask, locks, remote, TypeOK
<1>3. UpdatesAreOfSent' /\ JudgedIsOver'
  BY DEF UpdatesAreOfSent, JudgedIsOver, remote
<1>4. ASSUME ~EarlyExpiry PROVE ExchangeIsCurrent' /\ BlamesTarget'
  BY <1>4 DEF ExchangeIsCurrent, BlamesTarget, remote, locks
<1>5. ASSUME ~LostBlocks, ~AlikeAnswers PROVE FirstIsOwn' /\ GoodIsRight'
  BY <1>5 DEF FirstIsOwn, GoodIsRight, remote
<1> QED
  BY <1>1, <1>2, <1>3, <1>4, <1>5, SameFaults

(* What Tell adds to the updates is well formed and of a task that was sent.  *)
LEMMA Told ==
    ASSUME IInv, NEW u, u.edge \in known => u \in Update /\ u.task \in 1..sent, Tell(u)
    PROVE  /\ updates' \subseteq Update
           /\ updates' \subseteq updates \cup {u}
           /\ \A v \in updates' : v.task \in 1..sent
  BY DEF IInv, TypeOK, UpdatesAreOfSent, Tell

LEMMA CallbackIInv ==
    ASSUME IInv, NEW t \in Tasks, NEW good \in BOOLEAN, NEW unlocks,
           "coap" \in unlocks, CallbackWith(t, good, unlocks)
    PROVE  IInv'
<1> USE DEF IInv
<1> DEFINE u == Submission(good, t)
<1>1. /\ open' = open \ {t} /\ t \in open /\ ~coap_callback_in_use' /\ Tell(u)
      /\ (task_in_use' => task_in_use) /\ task_in_use' \in BOOLEAN
      /\ UNCHANGED <<scenario, edgeInfo, current, sent, target, route, stage, wrong>>
  BY DEF CallbackWith, TypeOK
<1>2. u.kind = "submission" /\ u.edge = ep /\ u.task = t
  BY DEF Submission
<1>3. u.edge \in known => u \in Update /\ u.task \in 1..sent
  BY <1>1 DEF Submission, Update, TypeOK
<1>4. /\ updates' \subseteq Update /\ updates' \subseteq updates \cup {u}
      /\ \A v \in updates' : v.task \in 1..sent
  BY <1>1, <1>3, Told
<1>5. TypeOK'
  <2>1. open' \subseteq 1..sent'
    BY <1>1 DEF TypeOK
  <2>2. coap_callback_in_use' \in BOOLEAN
    BY DEF CallbackWith, TypeOK
  <2> QED
    BY <1>1, <1>4, <2>1, <2>2 DEF TypeOK, edgeInfo, current
<1>6. CallbackLockHasExchange' /\ TaskLockKeepsTask' /\ task' <= sent' /\ TaskSentFirst'
  BY <1>1 DEF TaskSentFirst, CallbackLockHasExchange, TaskLockKeepsTask, current
<1>7. UpdatesAreOfSent' /\ JudgedIsOver'
  BY <1>1, <1>2, <1>4 DEF UpdatesAreOfSent, JudgedIsOver
<1>8. ASSUME ~EarlyExpiry PROVE ExchangeIsCurrent' /\ BlamesTarget'
  BY <1>1, <1>2, <1>4, <1>8 DEF ExchangeIsCurrent, BlamesTarget, current
<1>9. ASSUME ~LostBlocks, ~AlikeAnswers PROVE FirstIsOwn' /\ GoodIsRight'
  BY <1>1, <1>2, <1>4, <1>9 DEF FirstIsOwn, GoodIsRight, current
<1> QED
  BY <1>1, <1>5, <1>6, <1>7, <1>8, <1>9, SameFaults

LEMMA CallbackLockExpiresIInv == IInv /\ CallbackLockExpires => IInv'
<1> SUFFICES ASSUME IInv, CallbackLockExpires PROVE IInv'
  OBVIOUS
<1> USE DEF IInv, CallbackLockExpires
<1>1. TypeOK'
  BY DEF TypeOK, edgeInfo, current, remote
<1>2. CallbackLockHasExchange' /\ TaskLockKeepsTask' /\ task' <= sent' /\ TaskSentFirst'
  BY DEF TaskSentFirst, CallbackLockHasExchange, TaskLockKeepsTask, current, remote
<1>3. UpdatesAreOfSent' /\ JudgedIsOver'
  BY DEF UpdatesAreOfSent, JudgedIsOver, remote
<1>4. ASSUME ~LostBlocks, ~AlikeAnswers PROVE FirstIsOwn' /\ GoodIsRight'
  BY <1>4 DEF FirstIsOwn, GoodIsRight, current, remote
<1> QED
  BY <1>1, <1>2, <1>3, <1>4, SameFaults

LEMMA TaskLockExpiresIInv == IInv /\ TaskLockExpires => IInv'
<1> SUFFICES ASSUME IInv, TaskLockExpires PROVE IInv'
  OBVIOUS
<1> USE DEF IInv
<1> DEFINE u == [kind |-> "result", good |-> FALSE, edge |-> ep, task |-> sent]
<1>1. /\ task_in_use /\ ~task_in_use' /\ task_in_use' \in BOOLEAN /\ Tell(u)
      /\ UNCHANGED <<scenario, edgeInfo, current, coap_callback_in_use, remote>>
  BY DEF TaskLockExpires
<1>2. u.edge = target[sent] /\ u.task = sent
  BY <1>1 DEF TaskLockKeepsTask
<1>3. u.edge \in known => u \in Update /\ u.task \in 1..sent
  <2>1. SUFFICES ASSUME ep \in known PROVE ep \in Edges /\ sent \in Tasks /\ sent \in 1..sent
    BY DEF Update
  <2>2. sent # 0
    BY <1>1, <2>1 DEF TaskSentFirst
  <2> QED
    BY <2>1, <2>2, NatAssumption DEF TypeOK, Tasks
<1>4. /\ updates' \subseteq Update /\ updates' \subseteq updates \cup {u}
      /\ \A v \in updates' : v.task \in 1..sent
  BY <1>1, <1>3, Told
<1>5. TypeOK'
  BY <1>1, <1>4 DEF TypeOK, edgeInfo, current, remote
<1>6. CallbackLockHasExchange' /\ TaskLockKeepsTask' /\ task' <= sent' /\ TaskSentFirst'
  BY <1>1 DEF CallbackLockHasExchange, TaskLockKeepsTask, TaskSentFirst, current, remote
<1>7. UpdatesAreOfSent' /\ JudgedIsOver'
  BY <1>1, <1>4 DEF UpdatesAreOfSent, JudgedIsOver, remote
<1>8. ASSUME ~EarlyExpiry PROVE ExchangeIsCurrent' /\ BlamesTarget'
  BY <1>1, <1>2, <1>4, <1>8 DEF ExchangeIsCurrent, BlamesTarget, current, remote
<1>9. ASSUME ~LostBlocks, ~AlikeAnswers PROVE FirstIsOwn' /\ GoodIsRight'
  BY <1>1, <1>4, <1>9 DEF FirstIsOwn, GoodIsRight, current, remote
<1> QED
  BY <1>1, <1>5, <1>6, <1>7, <1>8, <1>9, SameFaults

(* A message of task t moves its Edge on, and nothing else about the task. *)
LEMMA Arrived ==
    ASSUME IInv, NEW t \in Tasks, NEW s \in 0..(Over - 1), Arrives(t, s)
    PROVE  /\ t \in 1..sent /\ stage[t] = s /\ s # Over /\ Over \in Nat
           /\ \A u \in updates : u.kind = "quality" => u.task # t
<1>1. t \in 1..sent /\ stage[t] = s /\ s # Over /\ Over \in Nat
  BY NatAssumption DEF Arrives, Tasks, IInv, TypeOK, Over
<1> QED
  BY <1>1 DEF IInv, JudgedIsOver

LEMMA RefuseIInv ==
    ASSUME IInv, NEW t \in Tasks, NEW s \in StatusNext..(Over - 1), Refuse(t, s)
    PROVE  IInv'
<1> USE DEF IInv
<1>1. /\ Arrives(t, s) /\ stage' = [stage EXCEPT ![t] = Over]
      /\ UNCHANGED <<scenario, edgeInfo, current, locks, sent, target, route, open, wrong, updates>>
  BY DEF Refuse
<1>2. Over \in StatusNext..Over /\ Over > 1
  BY NatAssumption DEF StatusNext, Over
<1>3. \A v \in Tasks : stage'[v] = IF v = t THEN Over ELSE stage[v]
  BY <1>1 DEF TypeOK
<1>4. TypeOK'
  BY <1>1, <1>2 DEF TypeOK, edgeInfo, current, locks
<1>5. CallbackLockHasExchange' /\ TaskLockKeepsTask' /\ task' <= sent' /\ TaskSentFirst'
  BY <1>1 DEF TaskSentFirst, CallbackLockHasExchange, TaskLockKeepsTask, current, locks
<1>6. UpdatesAreOfSent'
  BY <1>1 DEF UpdatesAreOfSent
<1>7. JudgedIsOver'
  BY <1>1, <1>3 DEF JudgedIsOver, TypeOK, Update
<1>8. ASSUME ~EarlyExpiry PROVE ExchangeIsCurrent' /\ BlamesTarget'
  BY <1>1, <1>8 DEF ExchangeIsCurrent, BlamesTarget, current, locks
<1>9. ASSUME ~LostBlocks, ~AlikeAnswers PROVE FirstIsOwn' /\ GoodIsRight'
  <2>1. GoodIsRight'
    BY <1>1, <1>9 DEF GoodIsRight
  <2>2. ASSUME NEW v \in Tasks, stage'[v] <= 1 \/ v > sent' PROVE ~wrong'[v]
    BY <1>1, <1>2, <1>3, <1>9, <2>2 DEF FirstIsOwn
  <2>3. ASSUME task' # 0, stage'[task'] \in 2..(Over - 1), first_src_isclose' PROVE ~wrong'[task']
    <3>1. task \in Tasks
      BY <1>1, <2>3, NatAssumption DEF TypeOK, Tasks, current
    <3>2. task # t
      BY <1>1, <1>2, <1>3, <2>3 DEF current
    <3> QED
      BY <1>1, <1>3, <1>9, <2>3, <3>1, <3>2 DEF FirstIsOwn, current
  <2> QED
    BY <2>1, <2>2, <2>3 DEF FirstIsOwn
<1> QED
  BY <1>1, <1>4, <1>5, <1>6, <1>7, <1>8, <1>9, SameFaults

LEMMA StatusIInv ==
    ASSUME IInv, NEW t \in Tasks, NEW ok \in BOOLEAN, Status(t, ok)
    PROVE  IInv'
<1> USE DEF IInv
<1> DEFINE u == [kind |-> "result", good |-> ok, edge |-> target[t], task |-> t]
           s == IF ok THEN 1 ELSE Over
<1>1. /\ Arrives(t, 0) /\ stage' = [stage EXCEPT ![t] = s] /\ Tell(u)
      /\ UNCHANGED <<scenario, edgeInfo, current, locks, sent, target, route, open, wrong>>
  BY DEF Status, StatusNext
<1>2. s \in StatusNext..Over /\ s \notin 2..(Over - 1) /\ 0 \in 0..(Over - 1)
  BY NatAssumption DEF StatusNext, Over
<1>3. \A v \in Tasks : stage'[v] = IF v = t THEN s ELSE stage[v]
  BY <1>1 DEF TypeOK
<1>4. /\ t \in 1..sent /\ stage[t] = 0
      /\ \A v \in updates : v.kind = "quality" => v.task # t
  BY <1>1, <1>2, Arrived
<1>5. u.edge \in known => u \in Update /\ u.task \in 1..sent
  BY <1>4 DEF Update, TypeOK
<1>6. /\ updates' \subseteq Update /\ updates' \subseteq updates \cup {u}
      /\ \A v \in updates' : v.task \in 1..sent
  BY <1>1, <1>5, Told
<1>7. u.kind # "quality" /\ u.edge = target[t] /\ u.task = t
  OBVIOUS
<1> HIDE DEF u, s
<1>8. TypeOK'
  BY <1>1, <1>2, <1>6 DEF TypeOK, edgeInfo, current, locks
<1>9. CallbackLockHasExchange' /\ TaskLockKeepsTask' /\ task' <= sent' /\ TaskSentFirst'
  BY <1>1 DEF TaskSentFirst, CallbackLockHasExchange, TaskLockKeepsTask, current, locks
<1>10. UpdatesAreOfSent'
  BY <1>1, <1>6 DEF UpdatesAreOfSent
<1>11. JudgedIsOver'
  BY <1>1, <1>3, <1>4, <1>6, <1>7 DEF JudgedIsOver, Update
<1>12. ASSUME ~EarlyExpiry PROVE ExchangeIsCurrent' /\ BlamesTarget'
  BY <1>1, <1>6, <1>7, <1>12 DEF ExchangeIsCurrent, BlamesTarget, current, locks
<1>13. ASSUME ~LostBlocks, ~AlikeAnswers PROVE FirstIsOwn' /\ GoodIsRight'
  <2>1. GoodIsRight'
    BY <1>1, <1>6, <1>7, <1>13 DEF GoodIsRight
  <2>2. ASSUME NEW v \in Tasks, stage'[v] <= 1 \/ v > sent' PROVE ~wrong'[v]
    BY <1>1, <1>3, <1>4, <1>13, <2>2 DEF FirstIsOwn
  <2>3. ASSUME task' # 0, stage'[task'] \in 2..(Over - 1), first_src_isclose' PROVE ~wrong'[task']
    <3>1. task \in Tasks
      BY <1>1, <2>3, NatAssumption DEF TypeOK, Tasks, current
    <3>2. task # t
      BY <1>1, <1>2, <1>3, <2>3 DEF current
    <3> QED
      BY <1>1, <1>3, <1>13, <2>3, <3>1, <3>2 DEF FirstIsOwn, current
  <2> QED
    BY <2>1, <2>2, <2>3 DEF FirstIsOwn
<1> QED
  BY <1>1, <1>8, <1>9, <1>10, <1>11, <1>12, <1>13, SameFaults

(* A block that is taken: the last one says what the quality is. *)
LEMMA BlockIInv ==
    ASSUME IInv, NEW t \in Tasks, NEW b \in Blocks, NEW first \in Coords, NEW last \in Coords,
           Block(t, b, first, last)
    PROVE  IInv'
<1> USE DEF IInv
<1> DEFINE u == [kind |-> "quality", edge |-> target[t], task |-> t,
                 good |-> first_src_isclose' /\ last = route[task].dest]
<1>1. /\ Arrives(t, b + 1)
      /\ first_src_isclose' = FirstBlock(b, first)
      /\ wrong' = [wrong EXCEPT ![t] = @ \/ Departs(t, b, first, last)]
      /\ stage' = [stage EXCEPT ![t] = b + 2]
      /\ UNCHANGED <<scenario, edgeInfo, ep, task, coap_callback_in_use, sent, target, route, open>>
      /\ task_in_use /\ task = sent
      /\ AlikeAnswers \/ t = sent \/ (first # route[task].src /\ last # route[task].dest)
  BY DEF Block, TaskLockKeepsTask
<1>2. /\ b \in Nat /\ LastBlock \in Nat /\ b <= LastBlock /\ Over = LastBlock + 2
      /\ b + 1 \in 0..(Over - 1) /\ b + 2 \in StatusNext..Over
  BY NatAssumption DEF Blocks, Over, StatusNext
<1>3. /\ t \in 1..sent /\ stage[t] = b + 1
      /\ \A v \in updates : v.kind = "quality" => v.task # t
  BY <1>1, <1>2, Arrived
<1>4. /\ \A v \in Tasks : stage'[v] = IF v = t THEN b + 2 ELSE stage[v]
      /\ \A v \in Tasks \ {t} : wrong'[v] = wrong[v]
      /\ wrong'[t] = (wrong[t] \/ Departs(t, b, first, last))
  BY <1>1 DEF TypeOK
<1>5. first_src_isclose' \in BOOLEAN /\ wrong' \in [Tasks -> BOOLEAN]
  <2>1. FirstBlock(b, first) \in BOOLEAN
    BY DEF FirstBlock, TypeOK
  <2>2. (wrong[t] \/ Departs(t, b, first, last)) \in BOOLEAN
    OBVIOUS
  <2> QED
    BY <1>1, <2>1, <2>2 DEF TypeOK
<1>6. task_in_use' \in BOOLEAN /\ (task_in_use' => task_in_use)
  BY DEF Block, TypeOK
<1>7. u.edge \in known => u \in Update /\ u.task \in 1..sent
  <2>1. (first_src_isclose' /\ last = route[task].dest) \in BOOLEAN
    OBVIOUS
  <2> QED
    BY <1>3, <2>1 DEF Update, TypeOK
<1>8. u.kind = "quality" /\ u.edge = target[t] /\ u.task = t
      /\ u.good = (first_src_isclose' /\ last = route[task].dest)
  OBVIOUS
<1>9. \/ updates' = updates
      \/ b = LastBlock /\ Tell(u)
  BY DEF Block
<1> HIDE DEF u
<1>10. /\ updates' \subseteq Update /\ updates' \subseteq updates \cup {u}
       /\ \A v \in updates' : v.task \in 1..sent
       /\ u \in updates' => u \in updates \/ b = LastBlock
  <2>1. CASE updates' = updates
    BY <2>1 DEF TypeOK, UpdatesAreOfSent
  <2>2. CASE b = LastBlock /\ Tell(u)
    BY <1>7, <2>2, Told
  <2> QED
    BY <1>9, <2>1, <2>2
<1>11. TypeOK'
  BY <1>1, <1>2, <1>5, <1>6, <1>10 DEF TypeOK, edgeInfo
<1>12. CallbackLockHasExchange' /\ TaskLockKeepsTask' /\ task' <= sent' /\ TaskSentFirst'
  BY <1>1 DEF TaskSentFirst, CallbackLockHasExchange, TaskLockKeepsTask
<1>13. UpdatesAreOfSent'
  BY <1>1, <1>10 DEF UpdatesAreOfSent
<1>14. JudgedIsOver'
  <2> SUFFICES ASSUME NEW v \in updates', v.kind = "quality" PROVE stage'[v.task] = Over
    BY DEF JudgedIsOver
  <2>1. CASE v \in updates
    BY <1>3, <1>4, <2>1 DEF JudgedIsOver, TypeOK, Update
  <2>2. CASE v \notin updates
    BY <1>2, <1>4, <1>8, <1>10, <2>2
  <2> QED
    BY <2>1, <2>2
<1>15. ASSUME ~EarlyExpiry PROVE ExchangeIsCurrent' /\ BlamesTarget'
  BY <1>1, <1>8, <1>10, <1>15 DEF ExchangeIsCurrent, BlamesTarget
<1>16. ASSUME ~LostBlocks, ~AlikeAnswers PROVE FirstIsOwn' /\ GoodIsRight'
  <2>1. ASSUME NEW v \in Tasks, stage'[v] <= 1 \/ v > sent' PROVE ~wrong'[v]
    <3>1. SUFFICES ASSUME v = t PROVE FALSE
      BY <1>1, <1>4, <1>16, <2>1 DEF FirstIsOwn
    <3>2. stage'[v] = b + 2 /\ sent' = sent /\ sent \in Nat
      BY <1>1, <1>4, <3>1, NatAssumption DEF TypeOK
    <3> QED
      BY <1>2, <1>3, <2>1, <3>1, <3>2
  <2>2. ASSUME t = task, first_src_isclose', b = LastBlock => last = route[task].dest PROVE ~wrong'[t]
    <3>1. CASE b = 0
      <4>1. ~Departs(t, b, first, last)
        BY <1>1, <2>2, <3>1 DEF FirstBlock, Departs
      <4>2. ~wrong[t]
        BY <1>3, <1>16, <3>1 DEF FirstIsOwn
      <4> QED
        BY <1>4, <4>1, <4>2
    <3>2. CASE b # 0
      <4>1. first_src_isclose
        BY <1>1, <2>2, <3>2 DEF FirstBlock
      <4>2. task # 0 /\ stage[task] \in 2..(Over - 1)
        BY <1>2, <1>3, <2>2, <3>2
      <4> QED
        BY <1>4, <1>16, <2>2, <3>2, <4>1, <4>2 DEF FirstIsOwn, Departs
    <3> QED
      BY <3>1, <3>2
  <2>3. ASSUME task' # 0, stage'[task'] \in 2..(Over - 1), first_src_isclose' PROVE ~wrong'[task']
    <3>1. task \in Tasks /\ task' = task
      BY <1>1, <2>3, NatAssumption DEF TypeOK, Tasks
    <3>2. CASE task = t
      <4>1. b # LastBlock
        BY <1>2, <1>4, <2>3, <3>1, <3>2
      <4> QED
        BY <2>2, <2>3, <3>1, <3>2, <4>1
    <3>3. CASE task # t
      <4>1. first_src_isclose
        BY <1>1, <1>16, <2>3, <3>3 DEF FirstBlock
      <4> QED
        BY <1>4, <1>16, <2>3, <3>1, <3>3, <4>1 DEF FirstIsOwn
    <3> QED
      BY <3>2, <3>3
  <2>4. ASSUME NEW v \in updates', v.kind = "quality", v.good PROVE ~wrong'[v.task]
    <3>1. CASE v \in updates
      BY <1>3, <1>4, <1>16, <2>4, <3>1 DEF GoodIsRight, TypeOK, Update
    <3>2. CASE v \notin updates
      <4>1. v = u /\ t = task /\ last = route[task].dest /\ first_src_isclose'
        BY <1>1, <1>8, <1>10, <1>16, <2>4, <3>2
      <4> QED
        BY <1>8, <2>2, <4>1
    <3> QED
      BY <3>1, <3>2
  <2> QED
    BY <2>1, <2>3, <2>4 DEF FirstIsOwn, GoodIsRight
<1> QED
  BY <1>1, <1>11, <1>12, <1>13, <1>14, <1>15, <1>16, SameFaults

LEMMA BlockLostIInv ==
    ASSUME IInv, NEW t \in Tasks, NEW b \in Blocks, BlockLost(t, b)
    PROVE  IInv'
<1> USE DEF IInv
<1>1. /\ LostBlocks
      /\ Arrives(t, b + 1)
      /\ stage' = [stage EXCEPT ![t] = b + 2]
      /\ wrong' = [wrong EXCEPT ![t] = TRUE]
      /\ UNCHANGED <<scenario, edgeInfo, current, locks, sent, target, route, open, updates>>
  BY DEF BlockLost
<1>2. b + 1 \in 0..(Over - 1) /\ b + 2 \in StatusNext..Over
  BY NatAssumption DEF Blocks, Over, StatusNext
<1>3. \A v \in updates : v.kind = "quality" => v.task # t
  BY <1>1, <1>2, Arrived
<1>4. TypeOK'
  BY <1>1, <1>2 DEF TypeOK, edgeInfo, current, locks
<1>5. CallbackLockHasExchange' /\ TaskLockKeepsTask' /\ task' <= sent' /\ TaskSentFirst'
  BY <1>1 DEF TaskSentFirst, CallbackLockHasExchange, TaskLockKeepsTask, current, locks
<1>6. UpdatesAreOfSent'
  BY <1>1 DEF UpdatesAreOfSent
<1>7. JudgedIsOver'
  BY <1>1, <1>3 DEF JudgedIsOver, TypeOK, Update
<1>8. ASSUME ~EarlyExpiry PROVE ExchangeIsCurrent' /\ BlamesTarget'
  BY <1>1, <1>8 DEF ExchangeIsCurrent, BlamesTarget, current, locks
<1> QED
  BY <1>1, <1>4, <1>5, <1>6, <1>7, <1>8, SameFaults

(* The Edges and the coordinates of a scenario are among those there are. *)
LEMMA ScenarioIsKnown ==
    ASSUME TypeOK
    PROVE  /\ scenario.edges \subseteq Edges
           /\ scenario.coords \subseteq Coords
           /\ \A src, dest \in scenario.coords : [src |-> src, dest |-> dest] \in Routes
  BY DEF TypeOK, Scenario, Routes

LEMMA StepIInv == IInv /\ [Next]_vars => IInv'
<1> SUFFICES ASSUME IInv, [Next]_vars PROVE IInv'
  OBVIOUS
<1>0. known \subseteq Edges /\ active \subseteq known /\ running \in BOOLEAN
  BY DEF IInv, TypeOK
<1>1. ASSUME NEW e \in Edges, NEW r \in Routes, Submit(e, r) PROVE IInv'
  BY <1>1, SubmitIInv
<1>2. ASSUME NEW e \in Edges, CapabilityAdded(e) PROVE IInv'
  <2>1. known' \subseteq Edges /\ active' \subseteq known'
    BY <1>0, <1>2 DEF CapabilityAdded
  <2>2. running' \in BOOLEAN
    BY <1>2 DEF CapabilityAdded
  <2> QED
    BY <1>2, <2>1, <2>2, EdgeInfoIInv DEF CapabilityAdded
<1>3. ASSUME NEW e \in Edges, CapabilityRemoved(e) PROVE IInv'
  <2>1. known' \subseteq Edges /\ active' \subseteq known'
    BY <1>0, <1>3 DEF CapabilityRemoved
  <2>2. running' \in BOOLEAN
    BY <1>3 DEF CapabilityRemoved
  <2> QED
    BY <1>3, <2>1, <2>2, EdgeInfoIInv DEF CapabilityRemoved
<1>4. ASSUME NEW e \in Edges, EdgeEvicted(e) PROVE IInv'
  BY <1>0, <1>4, EdgeInfoIInv DEF EdgeEvicted
<1>5. CASE Rejected
  BY <1>5, RejectedIInv
<1>6. ASSUME NEW e \in Edges, Announced(e) PROVE IInv'
  BY <1>0, <1>6, EdgeInfoIInv DEF Announced
<1>7. CASE CallbackLockExpires
  BY <1>7, CallbackLockExpiresIInv
<1>8. CASE TaskLockExpires
  BY <1>8, TaskLockExpiresIInv
<1>9. ASSUME NEW t \in Tasks, NEW good \in BOOLEAN, Acknowledged(t) \/ Failed(t, good) PROVE IInv'
  BY <1>9, CallbackIInv DEF Acknowledged, Failed
<1>10. ASSUME NEW t \in Tasks, Unexpected(t) PROVE IInv'
  BY <1>10, RefuseIInv DEF Unexpected
<1>11. ASSUME NEW t \in Tasks, NEW ok \in BOOLEAN, Status(t, ok) PROVE IInv'
  BY <1>11, StatusIInv
<1>12. ASSUME NEW t \in Tasks, NEW b \in Blocks, BlockLost(t, b) PROVE IInv'
  BY <1>12, BlockLostIInv
<1>13. ASSUME NEW t \in Tasks, NEW b \in Blocks, NEW first \in Coords, NEW last \in Coords,
              Block(t, b, first, last)
       PROVE  IInv'
  BY <1>13, BlockIInv
<1>14. CASE UNCHANGED vars
  BY <1>0, <1>14, EdgeInfoIInv DEF vars, edgeInfo
<1> QED
  BY <1>1, <1>2, <1>3, <1>4, <1>5, <1>6, <1>7, <1>8, <1>9, <1>10, <1>11, <1>12, <1>13, <1>14, ScenarioIsKnown DEF Next, IInv

(* The strengthened invariant holds in every reachable state. *)
THEOREM RoutingInvariance == Spec => []IInv
  BY InitIInv, StepIInv, PTL DEF Spec

(* Every variable of routing.c keeps its type. *)
THEOREM RoutingTypeCorrect == Spec => []TypeOK
<1>1. IInv => TypeOK
  BY DEF IInv
<1> QED
  BY <1>1, RoutingInvariance, PTL

(* While coap_callback_in_use is locked the current task's exchange is open,  *)
(* and while task_in_use is locked the endpoint and the coordinates are the   *)
(* current task's: whatever expires early, arrives late or is lost.           *)
THEOREM LocksProtect == Spec => []LocksProtectTask
<1>1. IInv => LocksProtectTask
  BY DEF IInv, LocksProtectTask
<1> QED
  BY <1>1, RoutingInvariance, PTL

(* Unless the callback lock expires before CoAP gives up, the trust model is   *)
(* told of a task only about the Edge it was sent to.                        *)
THEOREM BlameIsRight == Spec => []BlamesTarget
<1>1. IInv => BlamesTarget
  BY DEF IInv, BlamesTarget
<1> QED
  BY <1>1, RoutingInvariance, PTL

(* Unless a block is lost, or a late answer has the coordinates of the current *)
(* task, an answer is called good only if it starts and ends as its task asked *)
(* for, whatever routes are asked for again and however late answers          *)
(* interleave with it (routing.c:576-622).                                    *)
THEOREM PraiseIsRight == Spec => []GoodIsRight
<1>1. IInv => GoodIsRight
  BY DEF IInv, GoodIsRight
<1> QED
  BY <1>1, RoutingInvariance, PTL

-----------------------------------------------------------------------------
(* While a task is under way, a verdict on its first block that it is not      *)
(* close is there because the block was lost or not what was asked for.       *)
FirstBadIsWrong == task_in_use /\ stage[sent] \in 2..(Over - 1) /\ ~first_src_isclose => wrong[sent]

RightInv == IInv /\ (LateAnswers \/ (FirstBadIsWrong /\ RightIsGood))

(* A step that keeps the stages, tells of no quality and stores no verdict *)
LEMMA NothingJudged ==
    ASSUME RightInv, scenario' = scenario, UNCHANGED <<sent, stage, wrong, first_src_isclose>>,
           task_in_use' => task_in_use,
           \A v \in updates' : v.kind = "quality" => v \in updates
    PROVE  LateAnswers' \/ (FirstBadIsWrong /\ RightIsGood)'
<1>1. LateAnswers' <=> LateAnswers
  BY DEF LateAnswers, faults
<1> QED
  BY <1>1 DEF RightInv, FirstBadIsWrong, RightIsGood

(* A message of the current task, which is the only one without late answers *)
LEMMA CurrentArrives ==
    ASSUME RightInv, ~LateAnswers, NEW t \in Tasks, NEW s \in 0..(Over - 1), Arrives(t, s)
    PROVE  t = sent /\ stage[t] = s /\ (task_in_use => task = t)
  BY DEF RightInv, IInv, TaskLockKeepsTask, Arrives

(* A block, taken or lost: until the last one the verdict is kept.            *)
LEMMA BlockRight ==
    ASSUME RightInv, ~LateAnswers, NEW t \in Tasks, NEW b \in Blocks,
           NEW first \in Coords, NEW last \in Coords, Block(t, b, first, last)
    PROVE  FirstBadIsWrong' /\ RightIsGood'
<1> DEFINE u == [kind |-> "quality", edge |-> target[t], task |-> t,
                 good |-> first_src_isclose' /\ last = route[task].dest]
<1>1. /\ Arrives(t, b + 1) /\ task_in_use
      /\ first_src_isclose' = FirstBlock(b, first)
      /\ wrong' = [wrong EXCEPT ![t] = @ \/ Departs(t, b, first, last)]
      /\ stage' = [stage EXCEPT ![t] = b + 2]
      /\ sent' = sent
  BY DEF Block
<1>2. /\ b \in Nat /\ LastBlock \in Nat /\ b <= LastBlock /\ Over = LastBlock + 2
      /\ b + 1 \in 0..(Over - 1)
  BY NatAssumption DEF Blocks, Over
<1>3. t = sent /\ stage[t] = b + 1 /\ task = t
  BY <1>1, <1>2, CurrentArrives
<1>4. stage'[t] = b + 2 /\ \A v \in Tasks \ {t} : wrong'[v] = wrong[v]
  BY <1>1 DEF RightInv, IInv, TypeOK
<1>5. wrong'[t] <=> (wrong[t] \/ Departs(t, b, first, last))
  BY <1>1 DEF RightInv, IInv, TypeOK
<1>6. Departs(t, b, first, last)
        <=> (b = 0 /\ first # route[task].src) \/ (b = LastBlock /\ last # route[task].dest)
  BY <1>3 DEF Departs
<1>7. ~first_src_isclose' => wrong'[t]
  <2>1. CASE b = 0
    BY <1>1, <1>5, <1>6, <2>1 DEF FirstBlock
  <2>2. CASE b # 0
    <3>1. stage[sent] \in 2..(Over - 1)
      BY <1>2, <1>3, <2>2
    <3> QED
      BY <1>1, <1>3, <1>5, <2>2, <3>1 DEF FirstBlock, RightInv, FirstBadIsWrong
  <2> QED
    BY <2>1, <2>2
<1>8. FirstBadIsWrong'
  BY <1>1, <1>3, <1>7 DEF FirstBadIsWrong
<1>9. updates' = updates \/ (b = LastBlock /\ updates' \subseteq updates \cup {u})
  BY DEF Block, Tell
<1>10. b = LastBlock /\ ~u.good => wrong'[t]
  BY <1>5, <1>6, <1>7
<1>11. u.task = t
  OBVIOUS
<1> HIDE DEF u
<1>12. ASSUME NEW v \in updates', v.kind = "quality", ~v.good PROVE wrong'[v.task]
  <2>1. CASE v \in updates
    <3>1. wrong[v.task] /\ v.task \in Tasks
      BY <1>12, <2>1 DEF RightInv, RightIsGood, IInv, TypeOK, Update
    <3> QED
      BY <1>4, <1>5, <3>1
  <2>2. CASE v \notin updates
    BY <1>9, <1>10, <1>11, <1>12, <2>2
  <2> QED
    BY <2>1, <2>2
<1> QED
  BY <1>8, <1>12 DEF RightIsGood

LEMMA BlockLostRight ==
    ASSUME RightInv, ~LateAnswers, NEW t \in Tasks, NEW b \in Blocks, BlockLost(t, b)
    PROVE  FirstBadIsWrong' /\ RightIsGood'
<1>1. /\ Arrives(t, b + 1)
      /\ wrong' = [wrong EXCEPT ![t] = TRUE]
      /\ UNCHANGED <<sent, updates>>
  BY DEF BlockLost
<1>2. b + 1 \in 0..(Over - 1)
  BY NatAssumption DEF Blocks, Over
<1>3. t = sent
  BY <1>1, <1>2, CurrentArrives
<1>4. wrong'[t] /\ \A v \in Tasks : wrong[v] => wrong'[v]
  BY <1>1 DEF RightInv, IInv, TypeOK
<1>5. \A v \in updates : v.task \in Tasks
  BY DEF RightInv, IInv, TypeOK, Update
<1> QED
  BY <1>1, <1>3, <1>4, <1>5 DEF FirstBadIsWrong, RightIsGood, RightInv

(* The current task's Edge moves on, but not past the status *)
LEMMA StageRight ==
    ASSUME RightInv, ~LateAnswers, NEW t \in Tasks, NEW s \in {0, 1, Over},
           stage' = [stage EXCEPT ![t] = s], t = sent,
           UNCHANGED <<sent, wrong>>,
           \A v \in updates' : v.kind = "quality" => v \in updates
    PROVE  FirstBadIsWrong' /\ RightIsGood'
<1>1. stage'[sent'] = s
  BY DEF RightInv, IInv, TypeOK
<1>2. s \notin 2..(Over - 1)
  BY NatAssumption DEF Over
<1>3. FirstBadIsWrong'
  BY <1>1, <1>2 DEF FirstBadIsWrong
<1>4. RightIsGood'
  BY DEF RightInv, RightIsGood
<1> QED
  BY <1>3, <1>4

LEMMA RightStep == RightInv /\ [Next]_vars => RightInv'
<1> SUFFICES ASSUME RightInv, [Next]_vars PROVE LateAnswers' \/ (FirstBadIsWrong /\ RightIsGood)'
  BY StepIInv DEF RightInv
<1>1. ASSUME NEW e \in Edges, NEW r \in Routes, Submit(e, r) PROVE LateAnswers' \/ (FirstBadIsWrong /\ RightIsGood)'
  <2>1. UNCHANGED <<scenario, wrong, updates, first_src_isclose>>
    BY <1>1 DEF Submit, SubmitWith
  <2>2. CASE sent' = sent /\ UNCHANGED <<stage, locks>>
    BY <2>1, <2>2, NothingJudged DEF locks
  <2>3. CASE sent < MaxTasks /\ sent' = sent + 1 /\ stage' = [stage EXCEPT ![sent'] = StatusNext]
    <3>1. sent' \in Tasks
      BY <2>3, NatAssumption DEF RightInv, IInv, TypeOK, Tasks
    <3>2. stage'[sent'] = 0
      BY <2>3, <3>1 DEF RightInv, IInv, TypeOK, StatusNext
    <3>3. FirstBadIsWrong'
      BY <3>2 DEF FirstBadIsWrong
    <3> QED
      BY <2>1, <3>3 DEF RightInv, RightIsGood, LateAnswers, faults
  <2> QED
    BY <1>1, <2>2, <2>3 DEF Submit, SubmitWith
<1>2. ASSUME NEW e \in Edges, CapabilityAdded(e) \/ CapabilityRemoved(e) \/ Announced(e) \/ EdgeEvicted(e)
      PROVE LateAnswers' \/ (FirstBadIsWrong /\ RightIsGood)'
  BY <1>2, NothingJudged DEF CapabilityAdded, CapabilityRemoved, Announced, EdgeEvicted, current, locks, remote
<1>3. CASE Rejected \/ CallbackLockExpires
  BY <1>3, NothingJudged DEF Rejected, CallbackLockExpires, current, locks, remote
<1>4. CASE TaskLockExpires
  <2>1. UNCHANGED <<scenario, sent, stage, wrong, first_src_isclose>> /\ ~task_in_use'
    BY <1>4 DEF TaskLockExpires, current, remote
  <2>2. \A v \in updates' : v.kind = "quality" => v \in updates
    BY <1>4 DEF TaskLockExpires, Tell
  <2> QED
    BY <2>1, <2>2, NothingJudged
<1>5. ASSUME NEW t \in Tasks, NEW g \in BOOLEAN, Acknowledged(t) \/ Failed(t, g) PROVE LateAnswers' \/ (FirstBadIsWrong /\ RightIsGood)'
  <2>1. UNCHANGED <<scenario, sent, stage, wrong, first_src_isclose>> /\ (task_in_use' => task_in_use)
    BY <1>5 DEF Acknowledged, Failed, CallbackWith, current
  <2>2. \A v \in updates' : v.kind = "quality" => v \in updates
    <3>1. PICK good \in BOOLEAN : Tell(Submission(good, t))
      BY <1>5 DEF Acknowledged, Failed, CallbackWith
    <3>2. Submission(good, t).kind # "quality"
      BY DEF Submission
    <3> QED
      BY <3>1, <3>2 DEF Tell
  <2> QED
    BY <2>1, <2>2, NothingJudged
<1>6. ASSUME NEW t \in Tasks, NEW s \in StatusNext..(Over - 1), Refuse(t, s)
      PROVE LateAnswers' \/ (FirstBadIsWrong /\ RightIsGood)'
  <2>1. /\ Arrives(t, s) /\ stage' = [stage EXCEPT ![t] = Over]
        /\ UNCHANGED <<sent, wrong, updates>>
    BY <1>6 DEF Refuse
  <2>2. ~LateAnswers => t = sent
    BY <2>1 DEF Arrives
  <2>3. LateAnswers' <=> LateAnswers
    BY <1>6 DEF Refuse, LateAnswers, faults
  <2> QED
    BY <2>1, <2>2, <2>3, StageRight
<1>7. ASSUME NEW t \in Tasks, NEW ok \in BOOLEAN, Status(t, ok)
      PROVE LateAnswers' \/ (FirstBadIsWrong /\ RightIsGood)'
  <2> DEFINE s == IF ok THEN 1 ELSE Over
  <2>1. /\ Arrives(t, StatusNext) /\ stage' = [stage EXCEPT ![t] = s]
        /\ UNCHANGED <<sent, wrong>>
    BY <1>7 DEF Status
  <2>2. ~LateAnswers => t = sent
    BY <2>1 DEF Arrives
  <2>3. LateAnswers' <=> LateAnswers
    BY <1>7 DEF Status, LateAnswers, faults
  <2>4. \A v \in updates' : v.kind = "quality" => v \in updates
    BY <1>7 DEF Status, Tell
  <2>5. s \in {0, 1, Over}
    OBVIOUS
  <2> HIDE DEF s
  <2> QED
    BY <2>1, <2>2, <2>3, <2>4, <2>5, StageRight
<1>8. ASSUME NEW t \in Tasks, NEW b \in Blocks, BlockLost(t, b)
      PROVE LateAnswers' \/ (FirstBadIsWrong /\ RightIsGood)'
  BY <1>8, BlockLostRight DEF BlockLost, LateAnswers, faults
<1>9. ASSUME NEW t \in Tasks, NEW b \in Blocks, NEW first \in Coords, NEW last \in Coords,
             Block(t, b, first, last)
      PROVE LateAnswers' \/ (FirstBadIsWrong /\ RightIsGood)'
  BY <1>9, BlockRight DEF Block, LateAnswers, faults
<1>10. CASE UNCHANGED vars
  BY <1>10, NothingJudged DEF vars, current, locks, remote
<1> QED
  BY <1>1, <1>2, <1>3, <1>4, <1>5, <1>6, <1>7, <1>8, <1>9, <1>10, ScenarioIsKnown
     DEF Next, Unexpected, RightInv, IInv

(* Unless answers to earlier tasks come in between, an answer is called bad    *)
(* only if a block of it was lost or is not what was asked for                *)
(* (routing.c:576-622).                                                      *)
THEOREM BadIsWrong == Spec => []RightIsGood
<1>1. Init => RightInv
  BY InitIInv DEF Init, RightInv, FirstBadIsWrong, RightIsGood
<1>2. RightInv => RightIsGood
  BY DEF RightInv, RightIsGood
<1> QED
  BY <1>1, <1>2, RightStep, PTL DEF Spec
=============================================================================
