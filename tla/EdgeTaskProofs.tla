--------------------------- MODULE EdgeTaskProofs ---------------------------
(***************************************************************************)
(* Proofs about EdgeTask, for any tasks, results, scenarios and             *)
(* combinations of faults: nodes are sent whole blocks of their own results,  *)
(* each line the client waits for has one trace, and the sensor node is told  *)
(* of applications and of the bridge as they start and stop.                *)
(***************************************************************************)
EXTENDS EdgeTask, FiniteSetTheorems, TLAPS

(* The tasks of the scenario. *)
Asked == DOMAIN scenario.blocks

(* A line of a result. *)
Valid(l) == \E t \in Asked : \E b \in 0..Len(scenario.blocks[t]) : \E c \in 1..Size(t, b) :
                l = Line(t, b, c)

TasksReported(reports) ==
    \A i \in 1..Len(reports) : reports[i].kind = "task" => reports[i].task \in Asked

(* Types, and what is known of the client and of new connections whatever       *)
(* fails.                                                                    *)
BaseInv ==
    /\ TypeOK
    /\ scenario \in Scenarios
    /\ run <= scenario.runs
    /\ IsFiniteSet(open)
    /\ jobs \in Seq(Asked) /\ ready \in Seq(Asked)
    /\ TasksReported(up) /\ TasksReported(rx)
    /\ sending # None => Valid(sending)
    /\ woken => sending # None
    /\ ~running => sending = None /\ ~woken /\ ~was_cancelled /\ rx = <<>>
    /\ running => run # 0
    /\ \A r \in Runs : conn[r].handler = "connected" =>
                           conn[r].tx # <<>> /\ conn[r].tx[1].kind = "name"

(* Only the connection of the running application is open, unless one was        *)
(* started before the old one's had ended.                                   *)
ConnInv ==
    "overlap" \notin scenario.faults =>
        /\ \A r \in Runs : /\ r # run => conn[r].handler \in {"none", "ended"}
                           /\ conn[r].handler \in {"none", "ended"} => conn[r].tx = <<>>
                           /\ conn[r].handler = "named" => application = r
        /\ running => conn[run].handler \in {"connected", "named"}
        /\ application # None => conn[application].handler = "named"
        /\ running /\ conn[run].handler = "connected" =>
               rx = <<>> /\ jobs = <<>> /\ ready = <<>> /\ sending = None

(* The lines of applications that have ended are no lines of results. *)
TraceInv ==
    /\ OneTrace
    /\ ~torn => \A r \in Runs : Closed(r) => Count(conn[r].tx, Result) = 0

-----------------------------------------------------------------------------
(* The first chunks of a block. *)
Chunks(t, b, n) == [c \in 1..n |-> Line(t, b, c)]

(* The sensor node before it gets line l, *)
Before(l) ==
    /\ msg_buf = IF l.block = 0 THEN <<>> ELSE Chunks(l.task, l.block, l.chunk - 1)
    /\ l.block > 0 => ep = l.task

(* and after. *)
After(l) ==
    /\ msg_buf = IF l.block = 0 \/ LastOfBlock(l) THEN <<>> ELSE Chunks(l.task, l.block, l.chunk)
    /\ l.kind # "stats" => ep = l.task

Whole(x) == /\ x.to \in Asked
            /\ \E b \in 0..Len(scenario.blocks[x.to]) :
                x.body = IF b = 0 THEN <<Line(x.to, 0, 2)>>
                         ELSE [c \in 1..Size(x.to, b) |-> Line(x.to, b, c)]

Results(s) == \E i \in 1..Len(s) : s[i].kind \in Result

Only(s, l) == \A i \in 1..Len(s) : s[i].kind \in Result => s[i] = l

Has(s, k) == \E i \in 1..Len(s) : s[i].kind = k

(* A line on its way is the one the client waits for, and the sensor node has    *)
(* had all before it; once it has an exchange or an acknowledgement the sensor *)
(* node has had it too.                                                       *)
LinesInv ==
    /\ Only(down, sending)
    /\ running => Only(conn[run].tx, sending)
    /\ Results(down) \/ (running /\ Results(conn[run].tx)) => Before(sending)
    /\ Has(up, "ack") \/ Has(rx, "ack") \/ woken \/ open # {} => After(sending)
    /\ sending = None => msg_buf = <<>>
    /\ \A x \in open : Whole(x)
    /\ open # {} => LastOfBlock(sending) /\ sending.kind # "stats"

(* The line waited for ends a block and was refused. *)
Cancelled == /\ sending # None /\ LastOfBlock(sending) /\ sending.kind # "stats"
             /\ scenario.app = "routing"

CancelFirst(s) == \A i, j \in 1..Len(s) : s[i].kind = "ack" /\ s[j].kind = "cancel" => j < i

(* A cancel is read before the acknowledgement it comes with. *)
CancelInv ==
    /\ Has(up, "cancel") => Cancelled /\ ~Has(rx, "ack") /\ ~woken
    /\ Has(rx, "cancel") => Cancelled /\ ~woken
    /\ CancelFirst(up) /\ CancelFirst(rx)
    /\ was_cancelled => Cancelled

BlockInv == ~torn => LinesInv /\ CancelInv

-----------------------------------------------------------------------------
(* What the bridge has told the sensor node, and what it has heard, until it is  *)
(* stopped or fails.                                                         *)
BridgeInv ==
    /\ bridge.state \in {"starting", "up"} =>
           /\ ~Has(down, "edge_stop")
           /\ Has(up, "start_ack") \/ "start_ack" \in bridge.acked => started
    /\ bridge.state = "up" => "start_ack" \in bridge.acked
    /\ \A r \in Runs : ~Has(conn[r].tx, "edge_start") /\ ~Has(conn[r].tx, "edge_stop")

Switch == {"start", "stop"}

Silent(s) == \A i \in 1..Len(s) : s[i].kind \notin Switch

(* The last that a queue says of the application is w. *)
LastIn(s, w) == \E i \in 1..Len(s) : s[i].kind = w /\ \A j \in (i + 1)..Len(s) : s[j].kind \notin Switch

Unsent == IF run = 0 THEN <<>> ELSE conn[run].tx

(* The last that the sensor node has heard, or will hear, of it is w. *)
LastWord(w) ==
    \/ LastIn(Unsent, w)
    \/ /\ Silent(Unsent)
       /\ \/ LastIn(down, w)
          \/ Silent(down) /\ available = (w = "start")

WordInv ==
    scenario.faults \cap {"loss", "overlap"} = {} /\ bridge.state \in {"starting", "up"} =>
        /\ running => LastWord("start")
        /\ ~running /\ ~orphaned => LastWord("stop")
-----------------------------------------------------------------------------
(* Counting the lines of some kinds in a queue. *)

Places(s, K) == {i \in DOMAIN s : s[i].kind \in K}

LEMMA CountNat ==
    ASSUME NEW S, NEW s \in Seq(S), NEW K
    PROVE  /\ IsFiniteSet(Places(s, K))
           /\ Count(s, K) \in Nat
           /\ Count(s, K) = 0 <=> \A i \in 1..Len(s) : s[i].kind \notin K
<1> DEFINE I == Places(s, K)
<1>1. DOMAIN s = 1..Len(s) /\ Len(s) \in Nat
  OBVIOUS
<1>2. IsFiniteSet(1..Len(s))
  BY <1>1, FS_Interval
<1>3. IsFiniteSet(I)
  BY <1>1, <1>2, FS_Subset DEF Places
<1>4. Cardinality(I) \in Nat /\ (Cardinality(I) = 0 <=> I = {})
  BY <1>3, FS_CardinalityType, FS_EmptySet
<1> QED
  BY <1>1, <1>3, <1>4 DEF Count, Places

LEMMA CountEmpty == ASSUME NEW K PROVE Count(<<>>, K) = 0
<1>1. {i \in DOMAIN <<>> : <<>>[i].kind \in K} = {}
  OBVIOUS
<1> QED
  BY <1>1, FS_EmptySet DEF Count, Places

LEMMA CountAppend ==
    ASSUME NEW S, NEW s \in Seq(S), NEW e \in S, NEW K
    PROVE  Count(Append(s, e), K) = IF e.kind \in K THEN Count(s, K) + 1 ELSE Count(s, K)
<1> DEFINE I == Places(s, K)
           J == Places(Append(s, e), K)
<1>1. /\ DOMAIN s = 1..Len(s) /\ Len(s) \in Nat
      /\ DOMAIN Append(s, e) = 1..(Len(s) + 1)
      /\ \A i \in 1..Len(s) : Append(s, e)[i] = s[i]
      /\ Append(s, e)[Len(s) + 1] = e
  OBVIOUS
<1>2. J = IF e.kind \in K THEN I \cup {Len(s) + 1} ELSE I
  <2>1. \A i \in 1..(Len(s) + 1) : i \in 1..Len(s) \/ i = Len(s) + 1
    BY <1>1
  <2>2. \A i \in 1..Len(s) : i \in 1..(Len(s) + 1)
    BY <1>1
  <2>3. Len(s) + 1 \in 1..(Len(s) + 1)
    BY <1>1
  <2>4. \A i \in 1..Len(s) : i \in J <=> i \in I
    BY <1>1, <2>2 DEF Places
  <2>5. Len(s) + 1 \in J <=> e.kind \in K
    BY <1>1, <2>3 DEF Places
  <2>6. J \subseteq 1..Len(s) \cup {Len(s) + 1} /\ I \subseteq 1..Len(s)
    BY <1>1, <2>1 DEF Places
  <2> HIDE DEF I, J
  <2>7. CASE e.kind \in K
    <3>1. \A i : i \in J <=> i \in I \cup {Len(s) + 1}
      BY <2>4, <2>5, <2>6, <2>7
    <3> QED
      BY <2>7, <3>1
  <2>8. CASE e.kind \notin K
    <3>1. \A i : i \in J <=> i \in I
      BY <2>4, <2>5, <2>6, <2>8
    <3> QED
      BY <2>8, <3>1
  <2> QED
    BY <2>7, <2>8
<1>3. Len(s) + 1 \notin I
  BY <1>1 DEF Places
<1>4. IsFiniteSet(I)
  BY CountNat
<1>5. Cardinality(I \cup {Len(s) + 1}) = Cardinality(I) + 1
  BY <1>3, <1>4, FS_AddElement
<1> QED
  BY <1>2, <1>5 DEF Count, Places

LEMMA CountTail ==
    ASSUME NEW S, NEW s \in Seq(S), s # <<>>, NEW K
    PROVE  Count(s, K) = IF Head(s).kind \in K THEN Count(Tail(s), K) + 1 ELSE Count(Tail(s), K)
<1> DEFINE I == Places(s, K)
           J == Places(Tail(s), K)
           M == {i \in I : i # 1}
<1>1. /\ DOMAIN s = 1..Len(s) /\ Len(s) \in Nat \ {0} /\ Head(s) = s[1]
      /\ DOMAIN Tail(s) = 1..(Len(s) - 1)
      /\ \A i \in 1..(Len(s) - 1) : Tail(s)[i] = s[i + 1]
      /\ Tail(s) \in Seq(S)
  OBVIOUS
<1>2. IsFiniteSet(I) /\ IsFiniteSet(J)
  BY <1>1, CountNat
<1>3. M \subseteq I /\ IsFiniteSet(M)
  BY <1>2, FS_Subset
<1>4. Cardinality(J) = Cardinality(M)
  <2> DEFINE f == [i \in J |-> i + 1]
  <2>1. \A i \in J : i + 1 \in M
    BY <1>1 DEF Places
  <2>2. \A i, j \in J : i + 1 = j + 1 => i = j
    BY <1>1 DEF Places
  <2>3. ASSUME NEW m \in M PROVE m - 1 \in J /\ (m - 1) + 1 = m
    BY <1>1 DEF Places
  <2>4. f \in Bijection(J, M)
    BY <2>1, <2>2, <2>3 DEF Bijection, Injection, Surjection, IsInjective
  <2>5. ExistsBijection(J, M)
    BY <2>4 DEF ExistsBijection
  <2> QED
    BY <1>2, <2>5, FS_Bijection
<1>5. I = IF Head(s).kind \in K THEN M \cup {1} ELSE M
  BY <1>1 DEF Places
<1>6. 1 \notin M
  OBVIOUS
<1>7. Cardinality(M \cup {1}) = Cardinality(M) + 1
  BY <1>3, <1>6, FS_AddElement
<1> QED
  BY <1>4, <1>5, <1>7 DEF Count, Places

(* What is known of a queue whose head is taken, *)
LEMMA TailFacts ==
    ASSUME NEW S, NEW s \in Seq(S), s # <<>>
    PROVE  /\ Tail(s) \in Seq(S)
           /\ Len(s) \in Nat \ {0}
           /\ Len(Tail(s)) = Len(s) - 1
           /\ Head(s) = s[1] /\ s[1] \in S
           /\ 1 \in 1..Len(s)
           /\ \A i \in 1..Len(Tail(s)) : Tail(s)[i] = s[i + 1] /\ i + 1 \in 1..Len(s)
  OBVIOUS

(* and of one that something is added to. *)
LEMMA AppendFacts ==
    ASSUME NEW S, NEW s \in Seq(S), NEW e \in S
    PROVE  /\ Append(s, e) \in Seq(S)
           /\ s \o <<e>> = Append(s, e)
           /\ Len(s) \in Nat
           /\ Len(Append(s, e)) = Len(s) + 1
           /\ Append(s, e) # <<>>
           /\ Append(s, e)[Len(s) + 1] = e
           /\ \A i \in 1..Len(s) : Append(s, e)[i] = s[i]
           /\ \A i \in 1..(Len(s) + 1) : i \in 1..Len(s) \/ i = Len(s) + 1
<1>1. Append(s, e) \in Seq(S) /\ Len(s) \in Nat /\ Len(Append(s, e)) = Len(s) + 1
  OBVIOUS
<1>2. /\ Append(s, e)[Len(s) + 1] = e
      /\ \A i \in 1..Len(s) : Append(s, e)[i] = s[i]
  OBVIOUS
<1>3. s \o <<e>> = Append(s, e)
  <2>1. s \o <<e>> \in Seq(S) /\ Len(s \o <<e>>) = Len(s) + 1
    OBVIOUS
  <2>2. \A i \in 1..Len(s) : (s \o <<e>>)[i] = s[i]
    OBVIOUS
  <2>3. (s \o <<e>>)[Len(s) + 1] = e
    OBVIOUS
  <2>4. \A i \in 1..(Len(s) + 1) : (s \o <<e>>)[i] = Append(s, e)[i]
    BY <1>1, <1>2, <2>2, <2>3
  <2> QED
    BY <1>1, <2>1, <2>4
<1>4. Append(s, e) # <<>>
  BY <1>1
<1>5. \A i \in 1..(Len(s) + 1) : i \in 1..Len(s) \/ i = Len(s) + 1
  BY <1>1
<1> QED
  BY <1>1, <1>2, <1>3, <1>4, <1>5
-----------------------------------------------------------------------------
(* Scenarios and lines. *)

LEMMA ScenarioFacts ==
    ASSUME scenario \in Scenarios
    PROVE  /\ scenario.app \in {"routing", "cr"}
           /\ Asked \subseteq Tasks /\ None \notin Asked
           /\ \A t \in Asked : Len(scenario.blocks[t]) \in Nat
           /\ \A t \in Asked : \A b \in 1..Len(scenario.blocks[t]) :
                  scenario.blocks[t][b] \in Nat \ {0}
           /\ scenario.runs \in 0..MaxRuns
           /\ BufLen \in Nat /\ MaxRuns \in Nat /\ AckRetryThreshold \in Nat \ {0}
<1>1. \A t \in Asked : scenario.blocks[t] \in Seq(Nat \ {0})
  BY ScenarioAssumption DEF Asked
<1>2. BufLen \in Nat /\ MaxRuns \in Nat /\ AckRetryThreshold \in Nat \ {0}
  BY BoundAssumption
<1>3. Asked \subseteq Tasks /\ scenario.app \in {"routing", "cr"} /\ scenario.runs \in 0..MaxRuns
  BY ScenarioAssumption DEF Asked
<1>4. None \notin Asked
  BY <1>3, TaskAssumption
<1> QED
  BY <1>1, <1>2, <1>3, <1>4

LEMMA SizeFacts ==
    ASSUME scenario \in Scenarios, NEW t \in Asked, NEW b \in 0..Len(scenario.blocks[t])
    PROVE  /\ Size(t, b) \in Nat /\ Size(t, b) >= 1
           /\ b = 0 => Size(t, b) = 2
           /\ b # 0 /\ Fits => Size(t, b) <= BufLen
<1>1. CASE b = 0
  BY <1>1 DEF Size
<1>2. CASE b # 0
  <2>1. b \in 1..Len(scenario.blocks[t])
    BY <1>2, ScenarioFacts
  <2>2. scenario.blocks[t][b] \in Nat \ {0}
    BY <2>1, ScenarioFacts
  <2>3. ASSUME Fits PROVE scenario.blocks[t][b] \in 1..BufLen
    <3>1. scenario.blocks[t] \in Seq(1..BufLen)
      BY <2>3 DEF Fits, Asked
    <3>2. \A S, s : s \in Seq(S) => \A i \in 1..Len(s) : s[i] \in S
      OBVIOUS
    <3> QED
      BY <2>1, <3>1, <3>2, Zenon
  <2>4. Size(t, b) = scenario.blocks[t][b] /\ BufLen \in Nat
    BY <1>2, ScenarioFacts DEF Size
  <2> QED
    BY <1>2, <2>2, <2>3, <2>4
<1> QED
  BY <1>1, <1>2

(* A line of a result is known by its task, its block and its chunk. *)
LEMMA ValidFacts ==
    ASSUME scenario \in Scenarios, NEW l, Valid(l)
    PROVE  /\ l \in Lines /\ l # None
           /\ l.task \in Asked
           /\ l.block \in 0..Len(scenario.blocks[l.task]) /\ l.block \in Nat
           /\ l.chunk \in 1..Size(l.task, l.block) /\ l.chunk \in Nat /\ l.chunk >= 1
           /\ l = Line(l.task, l.block, l.chunk)
           /\ l.kind \in Result
           /\ l.kind = "stats" <=> l.block = 0 /\ l.chunk = 1
           /\ l.kind = "head" <=> l.block = 0 /\ l.chunk = 2
           /\ l.kind = "chunk" <=> l.block # 0
<1>0. PICK t \in Asked : \E b \in 0..Len(scenario.blocks[t]) : \E c \in 1..Size(t, b) : l = Line(t, b, c)
  BY DEF Valid
<1>1. PICK b \in 0..Len(scenario.blocks[t]) : \E c \in 1..Size(t, b) : l = Line(t, b, c)
  BY <1>0
<1>2. PICK c \in 1..Size(t, b) : l = Line(t, b, c)
  BY <1>1
<1>3. /\ t \in Tasks /\ b \in Nat /\ Len(scenario.blocks[t]) \in Nat
      /\ Size(t, b) \in Nat /\ (b = 0 => Size(t, b) = 2)
  BY ScenarioFacts, SizeFacts
<1>4. /\ l.task = t /\ l.block = b /\ l.chunk = c
      /\ l.kind = IF b > 0 THEN "chunk" ELSE IF c = 1 THEN "stats" ELSE "head"
  BY <1>2 DEF Line
<1>5. c \in Nat /\ c >= 1 /\ (b = 0 => c \in {1, 2})
  BY <1>3
<1>6. l.kind \in {"stats", "head", "chunk"}
  BY <1>4
<1>7. l \in Lines
  BY <1>2, <1>3, <1>5 DEF Line, Lines, Result
<1>8. l # None
  <2>1. None \notin Lines
    BY LineAssumption
  <2> QED
    BY <1>7, <2>1
<1> QED
  BY <1>1, <1>2, <1>3, <1>4, <1>5, <1>6, <1>7, <1>8 DEF Result

(* The first line of a result, and the line after another. *)
LEMMA FirstLine ==
    ASSUME scenario \in Scenarios, NEW t \in Asked
    PROVE  Valid(Line(t, 0, 1))
<1>1. 0 \in 0..Len(scenario.blocks[t])
  BY ScenarioFacts
<1>2. 1 \in 1..Size(t, 0)
  BY DEF Size
<1> QED
  BY <1>1, <1>2 DEF Valid

LEMMA LineAfter ==
    ASSUME scenario \in Scenarios, NEW l, Valid(l), ~LastOfResult(l)
    PROVE  Valid(NextLine(l))
<1>1. /\ l.task \in Asked
      /\ l.block \in 0..Len(scenario.blocks[l.task]) /\ l.block \in Nat
      /\ l.chunk \in 1..Size(l.task, l.block) /\ l.chunk \in Nat
      /\ Len(scenario.blocks[l.task]) \in Nat
      /\ Size(l.task, l.block) \in Nat
  BY ValidFacts, ScenarioFacts, SizeFacts
<1>2. CASE LastOfBlock(l)
  <2>1. l.block + 1 \in 0..Len(scenario.blocks[l.task])
    BY <1>1, <1>2 DEF LastOfResult
  <2>2. 1 \in 1..Size(l.task, l.block + 1)
    BY <1>1, <2>1, SizeFacts
  <2>3. NextLine(l) = Line(l.task, l.block + 1, 1)
    BY <1>2 DEF NextLine
  <2> QED
    BY <1>1, <2>1, <2>2, <2>3 DEF Valid
<1>3. CASE ~LastOfBlock(l)
  <2>1. l.chunk + 1 \in 1..Size(l.task, l.block)
    BY <1>1, <1>3 DEF LastOfBlock
  <2>2. NextLine(l) = Line(l.task, l.block, l.chunk + 1)
    BY <1>3 DEF NextLine
  <2> QED
    BY <1>1, <2>1, <2>2 DEF Valid
<1> QED
  BY <1>2, <1>3

LEMMA NoteFacts ==
    ASSUME NEW k \in {"name", "start", "stop", "edge_start", "edge_stop"}
    PROVE  Note(k) \in Lines /\ Note(k).kind = k /\ k \notin Result
  BY DEF Note, Lines, Result

LEMMA ReportFacts ==
    ASSUME NEW k \in {"ack", "cancel", "start_ack", "stop_ack"}
    PROVE  [kind |-> k, task |-> None] \in Reports
  BY DEF Reports

(* The scenario does not change, so neither does what is a line of a result. *)
LEMMA SameScenario ==
    ASSUME scenario' = scenario
    PROVE  /\ Asked' = Asked
           /\ \A l : Valid(l)' <=> Valid(l)
  BY DEF Asked, Valid, Size, Line

(* One more report, or one less. *)
LEMMA ReportedAppend ==
    ASSUME NEW s \in Seq(Reports), TasksReported(s), NEW e \in Reports,
           e.kind = "task" => e.task \in Asked
    PROVE  Append(s, e) \in Seq(Reports) /\ TasksReported(Append(s, e))
<1>1. /\ Append(s, e) \in Seq(Reports)
      /\ Len(s) \in Nat
      /\ Len(Append(s, e)) = Len(s) + 1
      /\ Append(s, e)[Len(s) + 1] = e
      /\ \A i \in 1..Len(s) : Append(s, e)[i] = s[i]
      /\ \A i \in 1..(Len(s) + 1) : i \in 1..Len(s) \/ i = Len(s) + 1
  BY AppendFacts
<1> QED
  BY <1>1 DEF TasksReported

LEMMA ReportedTail ==
    ASSUME NEW s \in Seq(Reports), TasksReported(s), s # <<>>
    PROVE  /\ Tail(s) \in Seq(Reports) /\ TasksReported(Tail(s))
           /\ Head(s) \in Reports
           /\ Head(s).kind = "task" => Head(s).task \in Asked
<1>1. /\ Tail(s) \in Seq(Reports)
      /\ Head(s) = s[1] /\ s[1] \in Reports
      /\ 1 \in 1..Len(s)
      /\ \A i \in 1..Len(Tail(s)) : Tail(s)[i] = s[i + 1] /\ i + 1 \in 1..Len(s)
  BY TailFacts
<1> QED
  BY <1>1 DEF TasksReported
-----------------------------------------------------------------------------
(* BaseInv is an invariant. *)

(* What it says of the variables that are not given by their types. *)
BaseRest ==
    /\ run <= scenario.runs
    /\ IsFiniteSet(open)
    /\ sending # None => Valid(sending)
    /\ woken => sending # None
    /\ ~running => sending = None /\ ~woken /\ ~was_cancelled /\ rx = <<>>
    /\ running => run # 0
    /\ \A r \in Runs : conn[r].handler = "connected" =>
                           conn[r].tx # <<>> /\ conn[r].tx[1].kind = "name"

LEMMA BaseParts ==
    ASSUME BaseInv, scenario' = scenario, TypeOK', BaseRest',
           jobs' \in Seq(Asked), ready' \in Seq(Asked), TasksReported(up'), TasksReported(rx')
    PROVE  BaseInv'
<1>1. Asked' = Asked
  BY SameScenario
<1>2. TasksReported(up)' /\ TasksReported(rx)'
  BY <1>1 DEF TasksReported
<1>3. (jobs \in Seq(Asked) /\ ready \in Seq(Asked))'
  BY <1>1
<1>4. (scenario \in Scenarios)'
  BY DEF BaseInv
<1> QED
  BY <1>2, <1>3, <1>4 DEF BaseInv, BaseRest

LEMMA EmptyTyped == \A S : <<>> \in Seq(S)
  OBVIOUS

LEMMA InitBase == Init => BaseInv
<1> SUFFICES ASSUME Init PROVE BaseInv
  OBVIOUS
<1>1. scenario \in Scenarios /\ scenario.runs \in 0..MaxRuns /\ MaxRuns \in Nat /\ BufLen \in Nat
  BY ScenarioFacts DEF Init
<1>2. Note("edge_start") \in Lines
  BY NoteFacts
<1>3. TypeOK
  <2>1. conn \in [Runs -> [tx : Seq(Lines), handler : {"none", "connected", "named", "ended"}]]
    BY DEF Init
  <2>2. bridge \in [state : {"starting", "up", "stopping", "stopped", "failed"},
                    tries : 0..AckRetryThreshold, acked : SUBSET {"start_ack", "stop_ack"}]
    BY BoundAssumption DEF Init
  <2>3. run \in 0..MaxRuns /\ down \in Seq(Lines) /\ Len(msg_buf) <= BufLen
    BY <1>1, <1>2 DEF Init
  <2>4. open \subseteq [to : Tasks \cup {None}, body : Seq(Lines)] /\ posted \subseteq Tasks
    BY DEF Init
  <2>5. running \in BOOLEAN /\ woken \in BOOLEAN /\ was_cancelled \in BOOLEAN /\ locked \in BOOLEAN
    BY DEF Init
  <2>6. available \in BOOLEAN /\ started \in BOOLEAN /\ torn \in BOOLEAN /\ orphaned \in BOOLEAN
    BY DEF Init
  <2>7. jobs \in Seq(Tasks) /\ ready \in Seq(Tasks) /\ rx \in Seq(Reports) /\ up \in Seq(Reports) /\ msg_buf \in Seq(Lines)
    BY EmptyTyped DEF Init
  <2>8. sending \in Lines \cup {None} /\ application \in Runs \cup {None} /\ ep \in Tasks \cup {None}
    BY DEF Init
  <2> QED
    BY <2>1, <2>2, <2>3, <2>4, <2>5, <2>6, <2>7, <2>8 DEF TypeOK
<1>4. IsFiniteSet(open)
  BY FS_EmptySet DEF Init
<1> QED
  BY <1>1, <1>3, <1>4 DEF Init, BaseInv, TasksReported, Runs

(* Lines that the client writes. *)
LEMMA WritesTyped ==
    ASSUME TypeOK, running, run # 0, NEW l \in Lines, Writes(<<l>>)
    PROVE  /\ run \in Runs
           /\ conn' \in [Runs -> [tx : Seq(Lines), handler : {"none", "connected", "named", "ended"}]]
           /\ \A r \in Runs : conn'[r].handler = conn[r].handler
           /\ \A r \in Runs : r # run => conn'[r] = conn[r]
           /\ conn[run].tx \in Seq(Lines)
           /\ conn'[run].tx = Append(conn[run].tx, l)
           /\ \A r \in Runs : conn[r].tx # <<>> => conn'[r].tx # <<>> /\ conn'[r].tx[1] = conn[r].tx[1]
<1>1. run \in Runs
  BY BoundAssumption DEF TypeOK, Runs
<1>2. conn \in [Runs -> [tx : Seq(Lines), handler : {"none", "connected", "named", "ended"}]]
  BY DEF TypeOK
<1>3. conn[run].tx \in Seq(Lines)
  BY <1>1, <1>2
<1>4. /\ conn[run].tx \o <<l>> = Append(conn[run].tx, l)
      /\ Append(conn[run].tx, l) \in Seq(Lines)
  BY <1>3, AppendFacts
<1>5. conn' = [conn EXCEPT ![run].tx = Append(conn[run].tx, l)]
  BY <1>4 DEF Writes
<1>6. conn[run].tx # <<>> => Append(conn[run].tx, l) # <<>> /\ Append(conn[run].tx, l)[1] = conn[run].tx[1]
  <2>1. conn[run].tx # <<>> => 1 \in 1..Len(conn[run].tx)
    BY <1>3
  <2> QED
    BY <1>3, <2>1, AppendFacts
<1> QED
  BY <1>1, <1>2, <1>3, <1>4, <1>5, <1>6

LEMMA StartBase == BaseInv /\ AppStart => BaseInv'
<1> SUFFICES ASSUME BaseInv, AppStart PROVE BaseInv'
  OBVIOUS
<1> USE DEF client, mote
<1>1. scenario' = scenario /\ scenario \in Scenarios /\ TypeOK
  BY DEF BaseInv, AppStart
<1>2. scenario.runs \in 0..MaxRuns /\ MaxRuns \in Nat /\ run \in Nat
  BY <1>1, ScenarioFacts DEF TypeOK
<1>3. run + 1 \in Runs /\ run + 1 <= scenario.runs /\ run + 1 \in 0..MaxRuns /\ run + 1 # 0
  BY <1>2 DEF AppStart, Runs
<1>4. <<Note("name"), Note("start")>> \in Seq(Lines) /\ Note("name").kind = "name"
  BY NoteFacts
<1>5. conn' \in [Runs -> [tx : Seq(Lines), handler : {"none", "connected", "named", "ended"}]]
  BY <1>1, <1>3, <1>4 DEF AppStart, TypeOK
<1>6. TypeOK'
  <2>1. /\ (application \in Runs \cup {None})' /\ (ep \in Tasks \cup {None})'
        /\ (bridge \in [state : {"starting", "up", "stopping", "stopped", "failed"},
                        tries : 0..AckRetryThreshold, acked : SUBSET {"start_ack", "stop_ack"}])'
        /\ (down \in Seq(Lines) /\ up \in Seq(Reports))'
        /\ (msg_buf \in Seq(Lines) /\ Len(msg_buf) <= BufLen)'
        /\ (open \subseteq [to : Tasks \cup {None}, body : Seq(Lines)])' /\ (posted \subseteq Tasks)'
    BY <1>1 DEF AppStart, TypeOK
  <2>2. (available \in BOOLEAN /\ started \in BOOLEAN /\ locked \in BOOLEAN /\ torn \in BOOLEAN /\ orphaned \in BOOLEAN)'
    BY <1>1 DEF AppStart, TypeOK
  <2>3. /\ (run \in 0..MaxRuns /\ running \in BOOLEAN /\ jobs \in Seq(Tasks) /\ ready \in Seq(Tasks))'
        /\ (sending \in Lines \cup {None} /\ woken \in BOOLEAN /\ was_cancelled \in BOOLEAN /\ rx \in Seq(Reports))'
    <3>1. (jobs \in Seq(Tasks) /\ ready \in Seq(Tasks) /\ rx \in Seq(Reports))'
      BY EmptyTyped DEF AppStart
    <3>2. (running \in BOOLEAN /\ woken \in BOOLEAN /\ was_cancelled \in BOOLEAN)'
      BY DEF AppStart
    <3>3. (run \in 0..MaxRuns /\ sending \in Lines \cup {None})'
      BY <1>3 DEF AppStart
    <3> QED
      BY <3>1, <3>2, <3>3
  <2> QED
    BY <1>5, <2>1, <2>2, <2>3 DEF TypeOK
<1>7. \A r \in Runs : conn'[r].handler = "connected" => conn'[r].tx # <<>> /\ conn'[r].tx[1].kind = "name"
  BY <1>1, <1>3, <1>4 DEF AppStart, TypeOK, BaseInv
<1>8. BaseRest'
  BY <1>1, <1>3, <1>7 DEF AppStart, BaseRest, BaseInv
<1>9. jobs' \in Seq(Asked) /\ ready' \in Seq(Asked) /\ TasksReported(up') /\ TasksReported(rx')
  BY DEF AppStart, BaseInv, TasksReported
<1> QED
  BY <1>1, <1>6, <1>8, <1>9, BaseParts

(* The application's end. *)
LEMMA EndBase ==
    ASSUME BaseInv, EndRun, scenario' = scenario, UNCHANGED <<down, up, mote, posted>>,
           application' \in Runs \cup {None},
           bridge' \in [state : {"starting", "up", "stopping", "stopped", "failed"},
                        tries : 0..AckRetryThreshold, acked : SUBSET {"start_ack", "stop_ack"}],
           orphaned' \in BOOLEAN,
           conn' \in [Runs -> [tx : Seq(Lines), handler : {"none", "connected", "named", "ended"}]],
           \A r \in Runs : conn'[r].handler = "connected" => conn'[r].tx # <<>> /\ conn'[r].tx[1].kind = "name"
    PROVE  BaseInv'
<1> USE DEF mote
<1>1. TypeOK'
  <2>1. /\ (ep \in Tasks \cup {None})'
        /\ (down \in Seq(Lines) /\ up \in Seq(Reports))'
        /\ (msg_buf \in Seq(Lines) /\ Len(msg_buf) <= BufLen)'
        /\ (open \subseteq [to : Tasks \cup {None}, body : Seq(Lines)])' /\ (posted \subseteq Tasks)'
    BY DEF BaseInv, TypeOK
  <2>2. (available \in BOOLEAN /\ started \in BOOLEAN /\ locked \in BOOLEAN)'
    BY DEF BaseInv, TypeOK
  <2>3. /\ (run \in 0..MaxRuns /\ running \in BOOLEAN /\ jobs \in Seq(Tasks) /\ ready \in Seq(Tasks))'
        /\ (sending \in Lines \cup {None} /\ woken \in BOOLEAN /\ was_cancelled \in BOOLEAN /\ rx \in Seq(Reports))'
    <3>1. (jobs \in Seq(Tasks) /\ ready \in Seq(Tasks) /\ rx \in Seq(Reports))'
      BY EmptyTyped DEF EndRun
    <3>2. (running \in BOOLEAN /\ woken \in BOOLEAN /\ was_cancelled \in BOOLEAN)'
      BY DEF EndRun
    <3>3. (run \in 0..MaxRuns /\ sending \in Lines \cup {None})'
      BY DEF EndRun, BaseInv, TypeOK
    <3> QED
      BY <3>1, <3>2, <3>3
  <2>4. torn' \in BOOLEAN
    BY DEF EndRun
  <2> QED
    BY <2>1, <2>2, <2>3, <2>4 DEF TypeOK
<1>2. BaseRest'
  BY DEF BaseInv, BaseRest, EndRun
<1>3. jobs' \in Seq(Asked) /\ ready' \in Seq(Asked) /\ TasksReported(up') /\ TasksReported(rx')
  BY DEF EndRun, BaseInv, TasksReported
<1> QED
  BY <1>1, <1>2, <1>3, BaseParts

LEMMA StopBase == BaseInv /\ (AppStop \/ AppCrash) => BaseInv'
<1> SUFFICES ASSUME BaseInv, AppStop \/ AppCrash PROVE BaseInv'
  OBVIOUS
<1>1. TypeOK /\ EndRun /\ running /\ run # 0
  BY DEF BaseInv, AppStop, AppCrash
<1>2. CASE AppStop
  <2>1. Note("stop") \in Lines
    BY NoteFacts
  <2>2. Writes(<<Note("stop")>>)
    BY <1>2 DEF AppStop
  <2>3. /\ conn' \in [Runs -> [tx : Seq(Lines), handler : {"none", "connected", "named", "ended"}]]
        /\ \A r \in Runs : conn'[r].handler = conn[r].handler
        /\ \A r \in Runs : conn[r].tx # <<>> => conn'[r].tx # <<>> /\ conn'[r].tx[1] = conn[r].tx[1]
    BY <1>1, <2>1, <2>2, WritesTyped
  <2>4. \A r \in Runs : conn'[r].handler = "connected" => conn'[r].tx # <<>> /\ conn'[r].tx[1].kind = "name"
    BY <2>3 DEF BaseInv
  <2>5. /\ scenario' = scenario /\ UNCHANGED <<down, up, mote, posted, application, bridge>> /\ orphaned' \in BOOLEAN
    BY <1>2 DEF AppStop
  <2> QED
    BY <1>1, <2>3, <2>4, <2>5, EndBase DEF TypeOK
<1>3. CASE AppCrash
  <2>1. /\ scenario' = scenario /\ UNCHANGED <<conn, down, up, mote, posted, application, bridge>>
        /\ orphaned' \in BOOLEAN
    BY <1>3 DEF AppCrash
  <2>2. \A r \in Runs : conn'[r].handler = "connected" => conn'[r].tx # <<>> /\ conn'[r].tx[1].kind = "name"
    BY <2>1 DEF BaseInv
  <2> QED
    BY <1>1, <2>1, <2>2, EndBase DEF TypeOK
<1> QED
  BY <1>2, <1>3

LEMMA BridgeEndBase == BaseInv /\ BridgeEnd => BaseInv'
<1> SUFFICES ASSUME BaseInv, BridgeEnd PROVE BaseInv'
  OBVIOUS
<1>1. TypeOK
  BY DEF BaseInv
<1>2. /\ EndRun /\ scenario' = scenario /\ UNCHANGED <<down, up, mote, posted, orphaned>>
      /\ application' = None
  BY DEF BridgeEnd
<1>3. conn' = [r \in Runs |-> [tx |-> <<>>, handler |-> IF conn[r].handler = "none" THEN "none" ELSE "ended"]]
  BY DEF BridgeEnd
<1>4. conn' \in [Runs -> [tx : Seq(Lines), handler : {"none", "connected", "named", "ended"}]]
  BY <1>3
<1>5. \A r \in Runs : conn'[r].handler # "connected"
  BY <1>3
<1>6. bridge' \in [state : {"starting", "up", "stopping", "stopped", "failed"},
                   tries : 0..AckRetryThreshold, acked : SUBSET {"start_ack", "stop_ack"}]
  BY <1>1 DEF BridgeEnd, TypeOK
<1> QED
  BY <1>1, <1>2, <1>4, <1>5, <1>6, EndBase DEF TypeOK

(* The types, one process at a time. *)
ClientType ==
    /\ run \in 0..MaxRuns /\ running \in BOOLEAN
    /\ jobs \in Seq(Tasks) /\ ready \in Seq(Tasks)
    /\ sending \in Lines \cup {None}
    /\ woken \in BOOLEAN /\ was_cancelled \in BOOLEAN
    /\ rx \in Seq(Reports)

LinkType ==
    /\ conn \in [Runs -> [tx : Seq(Lines), handler : {"none", "connected", "named", "ended"}]]
    /\ application \in Runs \cup {None}
    /\ bridge \in [state : {"starting", "up", "stopping", "stopped", "failed"},
                   tries : 0..AckRetryThreshold, acked : SUBSET {"start_ack", "stop_ack"}]
    /\ down \in Seq(Lines) /\ up \in Seq(Reports)

MoteType ==
    /\ available \in BOOLEAN /\ started \in BOOLEAN
    /\ ep \in Tasks \cup {None}
    /\ msg_buf \in Seq(Lines) /\ Len(msg_buf) <= BufLen
    /\ locked \in BOOLEAN
    /\ open \subseteq [to : Tasks \cup {None}, body : Seq(Lines)]

HistoryType == posted \subseteq Tasks /\ torn \in BOOLEAN /\ orphaned \in BOOLEAN

LEMMA Types == TypeOK <=> ClientType /\ LinkType /\ MoteType /\ HistoryType
  BY DEF TypeOK, ClientType, LinkType, MoteType, HistoryType

LEMMA TypesPrimed ==
    /\ TypeOK' <=> ClientType' /\ LinkType' /\ MoteType' /\ HistoryType'
    /\ ClientType /\ UNCHANGED <<client, rx>> => ClientType'
    /\ LinkType /\ UNCHANGED <<conn, application, bridge, down, up>> => LinkType'
    /\ MoteType /\ UNCHANGED mote => MoteType'
    /\ HistoryType /\ UNCHANGED <<posted, torn, orphaned>> => HistoryType'
<1>1. TypeOK' <=> ClientType' /\ LinkType' /\ MoteType' /\ HistoryType'
  BY DEF TypeOK, ClientType, LinkType, MoteType, HistoryType
<1>2. ClientType /\ UNCHANGED <<client, rx>> => ClientType'
  BY DEF ClientType, client
<1>3. LinkType /\ UNCHANGED <<conn, application, bridge, down, up>> => LinkType'
  BY DEF LinkType
<1>4. MoteType /\ UNCHANGED mote => MoteType'
  BY DEF MoteType, mote
<1>5. HistoryType /\ UNCHANGED <<posted, torn, orphaned>> => HistoryType'
  BY DEF HistoryType
<1> QED
  BY <1>1, <1>2, <1>3, <1>4, <1>5

(* What is asked for is a task. *)
LEMMA AskedTyped ==
    ASSUME scenario \in Scenarios, NEW s \in Seq(Asked)
    PROVE  s \in Seq(Tasks)
<1>1. Asked \subseteq Tasks
  BY ScenarioFacts
<1>2. \A i \in 1..Len(s) : s[i] \in Tasks
  BY <1>1
<1>3. s \in [1..Len(s) -> Tasks] /\ Len(s) \in Nat
  BY <1>2
<1> QED
  BY <1>3

LEMMA ReadsBase == BaseInv /\ AppReads => BaseInv'
<1> SUFFICES ASSUME BaseInv, AppReads PROVE BaseInv'
  OBVIOUS
<1>1. /\ scenario' = scenario /\ scenario \in Scenarios
      /\ UNCHANGED <<run, running, ready, sending, conn, application, bridge, down, up, mote, posted, torn, orphaned>>
      /\ running /\ rx # <<>> /\ rx' = Tail(rx)
  BY DEF BaseInv, AppReads
<1>2. ClientType /\ LinkType /\ MoteType /\ HistoryType
  BY Types DEF BaseInv
<1>3. rx \in Seq(Reports) /\ TasksReported(rx)
  BY <1>2 DEF ClientType, BaseInv
<1>4. /\ rx' \in Seq(Reports) /\ TasksReported(rx')
      /\ Head(rx).kind = "task" => Head(rx).task \in Asked
  BY <1>1, <1>3, ReportedTail
<1>5. jobs' \in Seq(Asked)
  <2>1. jobs \in Seq(Asked)
    BY DEF BaseInv
  <2>2. CASE Head(rx).kind = "task"
    BY <1>4, <2>1, <2>2 DEF AppReads
  <2>3. CASE Head(rx).kind # "task"
    BY <2>1, <2>3 DEF AppReads
  <2> QED
    BY <2>2, <2>3
<1>6. woken' \in BOOLEAN /\ was_cancelled' \in BOOLEAN
  BY DEF AppReads
<1>7. ClientType'
  BY <1>1, <1>2, <1>4, <1>5, <1>6, AskedTyped DEF ClientType
<1>8. TypeOK'
  BY <1>1, <1>2, <1>7, TypesPrimed DEF mote
<1>9. woken' => sending' # None
  BY <1>1 DEF AppReads, BaseInv
<1>10. BaseRest'
  <2>1. sending' # None => Valid(sending)'
    BY <1>1, SameScenario DEF BaseInv
  <2> QED
    BY <1>1, <1>9, <2>1 DEF BaseRest, BaseInv, mote
<1> QED
  BY <1>1, <1>4, <1>5, <1>8, <1>10, BaseParts DEF BaseInv

(* The client sends a line. *)
LEMMA SendingBase ==
    ASSUME BaseInv, running, running' = running, UNCHANGED <<scenario, run, rx, application, bridge, down, up, mote,
               posted, torn, orphaned>>,
           NEW l, Valid(l), sending' = l, Writes(<<l>>),
           woken' \in BOOLEAN, was_cancelled' \in BOOLEAN,
           jobs' \in Seq(Asked), ready' \in Seq(Asked)
    PROVE  BaseInv'
<1>1. ClientType /\ LinkType /\ MoteType /\ HistoryType /\ scenario \in Scenarios /\ TypeOK
  BY Types DEF BaseInv
<1>2. l \in Lines /\ l # None
  BY <1>1, ValidFacts
<1>3. /\ conn' \in [Runs -> [tx : Seq(Lines), handler : {"none", "connected", "named", "ended"}]]
      /\ \A r \in Runs : conn'[r].handler = conn[r].handler
      /\ \A r \in Runs : conn[r].tx # <<>> => conn'[r].tx # <<>> /\ conn'[r].tx[1] = conn[r].tx[1]
  BY <1>1, <1>2, WritesTyped DEF BaseInv
<1>4. ClientType'
  BY <1>1, <1>2, AskedTyped DEF ClientType
<1>5. LinkType'
  BY <1>1, <1>3 DEF LinkType
<1>6. TypeOK'
  BY <1>1, <1>4, <1>5, TypesPrimed
<1>7. BaseRest'
  <2>1. Valid(sending)'
    BY SameScenario
  <2>2. \A r \in Runs : conn'[r].handler = "connected" => conn'[r].tx # <<>> /\ conn'[r].tx[1].kind = "name"
    BY <1>3 DEF BaseInv
  <2> QED
    BY <1>2, <2>1, <2>2 DEF BaseRest, BaseInv, mote
<1> QED
  BY <1>6, <1>7, BaseParts DEF BaseInv

(* A task that ends is no longer the executor's. *)
LEMMA JobEndsTyped ==
    ASSUME jobs \in Seq(Asked), NEW k \in DOMAIN jobs, JobEnds(k)
    PROVE  jobs' \in Seq(Asked)
<1>1. Len(jobs) - 1 \in Nat
  OBVIOUS
<1>2. \A i \in 1..(Len(jobs) - 1) : i \in 1..Len(jobs) /\ i + 1 \in 1..Len(jobs)
  OBVIOUS
<1>3. \A i \in 1..(Len(jobs) - 1) : (IF i < k THEN jobs[i] ELSE jobs[i + 1]) \in Asked
  BY <1>2
<1>4. jobs' = [i \in 1..(Len(jobs) - 1) |-> IF i < k THEN jobs[i] ELSE jobs[i + 1]]
  BY DEF JobEnds
<1> QED
  BY <1>1, <1>3, <1>4

LEMMA FailsBase == ASSUME BaseInv, NEW k, TaskFails(k) PROVE BaseInv'
<1>1. /\ running /\ k \in DOMAIN jobs /\ JobEnds(k)
      /\ UNCHANGED <<scenario, run, running, ready, sending, woken, was_cancelled, rx, conn, application, bridge,
                     down, up, mote, posted, torn, orphaned>>
  BY DEF TaskFails
<1>2. ClientType /\ LinkType /\ MoteType /\ HistoryType /\ scenario \in Scenarios
  BY Types DEF BaseInv
<1>3. jobs' \in Seq(Asked)
  BY <1>1, JobEndsTyped DEF BaseInv
<1>4. ClientType'
  BY <1>1, <1>2, <1>3, AskedTyped DEF ClientType
<1>5. TypeOK'
  BY <1>1, <1>2, <1>4, TypesPrimed
<1>6. sending' # None => Valid(sending)'
  BY <1>1, SameScenario DEF BaseInv
<1>7. BaseRest'
  BY <1>1, <1>6 DEF BaseRest, BaseInv, mote
<1> QED
  BY <1>1, <1>3, <1>5, <1>7, BaseParts DEF BaseInv

LEMMA DoneBase == ASSUME BaseInv, NEW k, TaskDone(k) PROVE BaseInv'
<1>1. /\ running /\ running' = running /\ k \in DOMAIN jobs
      /\ UNCHANGED <<scenario, run, rx, application, bridge, down, up, mote, posted, torn, orphaned>>
      /\ UNCHANGED <<woken, was_cancelled>>
      /\ scenario \in Scenarios
  BY DEF TaskDone, BaseInv
<1>2. ClientType /\ LinkType /\ MoteType /\ HistoryType
  BY Types DEF BaseInv
<1>3. jobs \in Seq(Asked) /\ ready \in Seq(Asked) /\ woken \in BOOLEAN /\ was_cancelled \in BOOLEAN
  BY <1>2 DEF BaseInv, ClientType
<1>4. k \in 1..Len(jobs) /\ Len(jobs) \in Nat /\ jobs[k] \in Asked
  BY <1>1, <1>3
<1>5. jobs' \in Seq(Asked)
  BY <1>1, <1>3, JobEndsTyped DEF TaskDone
<1>6. CASE sending = None
  <2>1. /\ sending' = Line(jobs[k], 0, 1) /\ Writes(<<Line(jobs[k], 0, 1)>>)
        /\ ready' = ready
    BY <1>6 DEF TaskDone, Begin
  <2>2. Valid(Line(jobs[k], 0, 1))
    BY <1>1, <1>4, FirstLine
  <2> QED
    BY <1>1, <1>3, <1>5, <2>1, <2>2, SendingBase
<1>7. CASE sending # None
  <2>1. ready' = Append(ready, jobs[k]) /\ sending' = sending /\ conn' = conn
    BY <1>7 DEF TaskDone
  <2>2. ready' \in Seq(Asked)
    BY <1>3, <1>4, <2>1
  <2>3. ClientType'
    BY <1>1, <1>2, <1>5, <2>1, <2>2, AskedTyped DEF ClientType
  <2>4. TypeOK'
    BY <1>1, <1>2, <2>1, <2>3, TypesPrimed
  <2>5. Valid(sending)'
    BY <1>1, <1>7, <2>1, SameScenario DEF BaseInv
  <2>6. BaseRest'
    BY <1>1, <2>1, <2>5 DEF BaseRest, BaseInv, mote
  <2> QED
    BY <1>1, <1>5, <2>2, <2>4, <2>6, BaseParts DEF BaseInv
<1> QED
  BY <1>6, <1>7

(* What the client does after an acknowledgement. *)
LEMMA SendNextCases ==
    ASSUME BaseInv, SendNext
    PROVE  /\ running /\ woken /\ ~woken' /\ woken' \in BOOLEAN /\ was_cancelled' \in BOOLEAN
           /\ was_cancelled' = (was_cancelled /\ ~Checked)
           /\ running' = running /\ jobs' = jobs
           /\ UNCHANGED <<scenario, run, rx, application, bridge, down, up, mote, posted, torn, orphaned>>
           /\ Valid(sending)
           /\ ready \in Seq(Asked) /\ ready' \in Seq(Asked)
           /\ \/ /\ ~LastOfResult(sending) /\ ~(Checked /\ was_cancelled)
                 /\ Valid(NextLine(sending)) /\ sending' = NextLine(sending)
                 /\ Writes(<<NextLine(sending)>>) /\ ready' = ready
              \/ /\ LastOfResult(sending) \/ (Checked /\ was_cancelled)
                 /\ \E t \in Asked : sending' = Line(t, 0, 1) /\ Writes(<<Line(t, 0, 1)>>)
              \/ /\ LastOfResult(sending) \/ (Checked /\ was_cancelled)
                 /\ sending' = None /\ conn' = conn
<1>1. /\ running /\ woken /\ ~woken' /\ running' = running /\ jobs' = jobs /\ woken' \in BOOLEAN
      /\ UNCHANGED <<scenario, run, rx, application, bridge, down, up, mote, posted, torn, orphaned>>
  BY DEF SendNext
<1>2. was_cancelled' = (was_cancelled /\ ~Checked) /\ was_cancelled' \in BOOLEAN
  BY DEF SendNext
<1>3. Valid(sending) /\ ready \in Seq(Asked) /\ scenario \in Scenarios
  BY <1>1 DEF BaseInv
<1>4. CASE ~LastOfResult(sending) /\ ~(Checked /\ was_cancelled)
  <2>1. sending' = NextLine(sending) /\ Writes(<<NextLine(sending)>>) /\ ready' = ready
    BY <1>4 DEF SendNext
  <2>2. Valid(NextLine(sending))
    BY <1>3, <1>4, LineAfter
  <2> QED
    BY <1>1, <1>2, <1>3, <1>4, <2>1, <2>2
<1>5. CASE LastOfResult(sending) \/ (Checked /\ was_cancelled)
  <2>1. CASE ready # <<>>
    <3>1. ready' = Tail(ready) /\ sending' = Line(Head(ready), 0, 1) /\ Writes(<<Line(Head(ready), 0, 1)>>)
      BY <1>5, <2>1 DEF SendNext, Begin
    <3>2. Tail(ready) \in Seq(Asked) /\ Head(ready) \in Asked
      BY <1>3, <2>1
    <3> QED
      BY <1>1, <1>2, <1>3, <1>5, <3>1, <3>2
  <2>2. CASE ready = <<>>
    <3>1. sending' = None /\ conn' = conn /\ ready' = ready
      BY <1>5, <2>2 DEF SendNext
    <3> QED
      BY <1>1, <1>2, <1>3, <1>5, <3>1
  <2> QED
    BY <2>1, <2>2
<1> QED
  BY <1>4, <1>5

LEMMA SendNextBase == BaseInv /\ SendNext => BaseInv'
<1> SUFFICES ASSUME BaseInv, SendNext PROVE BaseInv'
  OBVIOUS
<1>1. /\ running /\ ~woken' /\ woken' \in BOOLEAN /\ was_cancelled' \in BOOLEAN
      /\ running' = running /\ jobs' = jobs /\ ready' \in Seq(Asked)
      /\ UNCHANGED <<scenario, run, rx, application, bridge, down, up, mote, posted, torn, orphaned>>
  BY SendNextCases
<1>2. ClientType /\ LinkType /\ MoteType /\ HistoryType /\ scenario \in Scenarios /\ jobs' \in Seq(Asked)
  BY <1>1, Types DEF BaseInv
<1>3. CASE Valid(NextLine(sending)) /\ sending' = NextLine(sending) /\ Writes(<<NextLine(sending)>>)
  BY <1>1, <1>2, <1>3, SendingBase
<1>4. CASE \E t \in Asked : sending' = Line(t, 0, 1) /\ Writes(<<Line(t, 0, 1)>>)
  <2>1. PICK t \in Asked : sending' = Line(t, 0, 1) /\ Writes(<<Line(t, 0, 1)>>)
    BY <1>4
  <2>2. Valid(Line(t, 0, 1))
    BY <1>2, FirstLine
  <2> QED
    BY <1>1, <1>2, <2>1, <2>2, SendingBase
<1>5. CASE sending' = None /\ conn' = conn
  <2>1. ClientType'
    BY <1>1, <1>2, <1>5, AskedTyped DEF ClientType
  <2>2. TypeOK'
    BY <1>1, <1>2, <1>5, <2>1, TypesPrimed
  <2>3. BaseRest'
    BY <1>1, <1>5 DEF BaseRest, BaseInv, mote
  <2> QED
    BY <1>1, <1>2, <2>2, <2>3, BaseParts DEF BaseInv
<1> QED
  BY <1>3, <1>4, <1>5, SendNextCases

(* What the bridge does with a line of an application. *)
LEMMA HandleConnCases ==
    ASSUME BaseInv, NEW r \in Runs, HandleConn(r)
    PROVE  /\ UNCHANGED <<scenario, client, rx, bridge, up, mote, posted, torn, orphaned>>
           /\ conn' \in [Runs -> [tx : Seq(Lines), handler : {"none", "connected", "named", "ended"}]]
           /\ \A q \in Runs : q # r => conn'[q] = conn[q]
           /\ conn[r].tx \in Seq(Lines) /\ down \in Seq(Lines)
           /\ \/ /\ conn[r].handler = "connected" /\ conn'[r].handler = "named" /\ conn[r].tx # <<>>
                 /\ Head(conn[r].tx).kind = "name"
                 /\ conn'[r].tx = Tail(conn[r].tx)
                 /\ application' = r /\ down' = down
              \/ /\ conn[r].handler = "named" /\ conn'[r].handler = "named" /\ conn[r].tx # <<>>
                 /\ conn'[r].tx = Tail(conn[r].tx)
                 /\ application' = application /\ down' = Append(down, Head(conn[r].tx))
              \/ /\ conn[r].handler = "named" /\ conn'[r].handler = "ended" /\ Closed(r)
                 /\ conn[r].tx = <<>> /\ conn'[r].tx = <<>>
                 /\ application' = None /\ down' = down
<1>1. /\ conn \in [Runs -> [tx : Seq(Lines), handler : {"none", "connected", "named", "ended"}]]
      /\ down \in Seq(Lines)
  BY DEF BaseInv, TypeOK
<1>2. conn[r] \in [tx : Seq(Lines), handler : {"none", "connected", "named", "ended"}] /\ conn[r].tx \in Seq(Lines)
  BY <1>1
<1>3. UNCHANGED <<scenario, client, rx, bridge, up, mote, posted, torn, orphaned>>
  BY DEF HandleConn
<1>4. CASE /\ conn[r].handler = "connected"
           /\ conn' = [conn EXCEPT ![r].tx = Tail(@), ![r].handler = "named"]
           /\ application' = r
           /\ UNCHANGED down
  <2>1. conn[r].tx # <<>> /\ conn[r].tx[1].kind = "name"
    BY <1>4 DEF BaseInv
  <2>2. Tail(conn[r].tx) \in Seq(Lines) /\ Head(conn[r].tx) = conn[r].tx[1]
    BY <1>2, <2>1, TailFacts
  <2>3. conn'[r].tx = Tail(conn[r].tx) /\ conn'[r].handler = "named"
    BY <1>1, <1>2, <1>4
  <2>4. \A q \in Runs : q # r => conn'[q] = conn[q]
    BY <1>1, <1>4
  <2>5. conn' \in [Runs -> [tx : Seq(Lines), handler : {"none", "connected", "named", "ended"}]]
    BY <1>1, <1>2, <1>4, <2>2
  <2> QED
    BY <1>1, <1>2, <1>3, <1>4, <2>1, <2>2, <2>3, <2>4, <2>5
<1>5. CASE /\ conn[r].handler = "named" /\ conn[r].tx # <<>>
           /\ conn' = [conn EXCEPT ![r].tx = Tail(@)]
           /\ down' = Append(down, Head(conn[r].tx))
           /\ UNCHANGED application
  <2>2. Tail(conn[r].tx) \in Seq(Lines)
    BY <1>2, <1>5, TailFacts
  <2>3. conn'[r].tx = Tail(conn[r].tx) /\ conn'[r].handler = "named"
    BY <1>1, <1>2, <1>5
  <2>4. \A q \in Runs : q # r => conn'[q] = conn[q]
    BY <1>1, <1>5
  <2>5. conn' \in [Runs -> [tx : Seq(Lines), handler : {"none", "connected", "named", "ended"}]]
    BY <1>1, <1>2, <1>5, <2>2
  <2> QED
    BY <1>1, <1>2, <1>3, <1>5, <2>2, <2>3, <2>4, <2>5
<1>6. CASE /\ conn[r].handler = "named" /\ conn[r].tx = <<>> /\ Closed(r)
           /\ conn' = [conn EXCEPT ![r].handler = "ended"]
           /\ application' = None
           /\ UNCHANGED down
  <2>3. conn'[r].tx = conn[r].tx /\ conn'[r].handler = "ended"
    BY <1>1, <1>2, <1>6
  <2>4. \A q \in Runs : q # r => conn'[q] = conn[q]
    BY <1>1, <1>6
  <2>5. conn' \in [Runs -> [tx : Seq(Lines), handler : {"none", "connected", "named", "ended"}]]
    BY <1>1, <1>2, <1>6
  <2> QED
    BY <1>1, <1>2, <1>3, <1>6, <2>3, <2>4, <2>5
<1> QED
  BY <1>4, <1>5, <1>6 DEF HandleConn

LEMMA HandleConnBase == ASSUME BaseInv, NEW r \in Runs, HandleConn(r) PROVE BaseInv'
<1>1. ClientType /\ LinkType /\ MoteType /\ HistoryType /\ TypeOK
  BY Types DEF BaseInv
<1>2. /\ UNCHANGED <<scenario, client, rx, bridge, up, mote, posted, torn, orphaned>>
      /\ conn' \in [Runs -> [tx : Seq(Lines), handler : {"none", "connected", "named", "ended"}]]
      /\ \A q \in Runs : q # r => conn'[q] = conn[q]
      /\ conn'[r].handler \in {"named", "ended"}
      /\ conn[r].tx \in Seq(Lines) /\ down \in Seq(Lines)
  BY <1>1, HandleConnCases
<1>3. application' \in Runs \cup {None}
  BY <1>1, HandleConnCases DEF LinkType
<1>4. down' \in Seq(Lines)
  <2>1. CASE down' = down
    BY <1>2, <2>1
  <2>2. CASE conn[r].tx # <<>> /\ down' = Append(down, Head(conn[r].tx))
    <3>1. Head(conn[r].tx) \in Lines
      BY <1>2, <2>2
    <3> QED
      BY <1>2, <2>2, <3>1
  <2> QED
    BY <1>1, <2>1, <2>2, HandleConnCases
<1>5. LinkType'
  BY <1>1, <1>2, <1>3, <1>4 DEF LinkType
<1>6. TypeOK'
  BY <1>1, <1>2, <1>5, TypesPrimed
<1>7. BaseRest'
  <2>1. sending' # None => Valid(sending)'
    BY <1>2, SameScenario DEF BaseInv, client
  <2>2. \A q \in Runs : conn'[q].handler = "connected" => conn'[q].tx # <<>> /\ conn'[q].tx[1].kind = "name"
    BY <1>2 DEF BaseInv
  <2> QED
    BY <1>2, <2>1, <2>2 DEF BaseRest, BaseInv, client, mote
<1> QED
  BY <1>2, <1>6, <1>7, BaseParts DEF BaseInv, client

(* Steps that only add to, or take from, the serial line, or change the bridge. *)
LEMMA SerialBase ==
    ASSUME BaseInv, UNCHANGED <<scenario, client, conn, application, mote, torn, orphaned>>,
           posted' \subseteq Tasks, down' \in Seq(Lines),
           rx' \in Seq(Reports), TasksReported(rx'), ~running => rx' = <<>>,
           up' \in Seq(Reports), TasksReported(up'),
           bridge' \in [state : {"starting", "up", "stopping", "stopped", "failed"},
                        tries : 0..AckRetryThreshold, acked : SUBSET {"start_ack", "stop_ack"}]
    PROVE  BaseInv'
<1>1. ClientType /\ LinkType /\ MoteType /\ HistoryType
  BY Types DEF BaseInv
<1>2. ClientType'
  BY <1>1 DEF ClientType, client
<1>3. LinkType' /\ HistoryType'
  BY <1>1 DEF LinkType, HistoryType
<1>4. TypeOK'
  BY <1>1, <1>2, <1>3, TypesPrimed
<1>5. BaseRest'
  <2>1. sending' # None => Valid(sending)'
    BY SameScenario DEF BaseInv, client
  <2> QED
    BY <2>1 DEF BaseRest, BaseInv, client, mote
<1> QED
  BY <1>4, <1>5, BaseParts DEF BaseInv, client

LEMMA RunSerialBase == BaseInv /\ RunSerial => BaseInv'
<1> SUFFICES ASSUME BaseInv, RunSerial PROVE BaseInv'
  OBVIOUS
<1>1. ClientType /\ LinkType /\ MoteType /\ HistoryType
  BY Types DEF BaseInv
<1>2. /\ UNCHANGED <<scenario, client, conn, application, down, mote, posted, torn, orphaned>>
      /\ up # <<>> /\ up' = Tail(up)
  BY DEF RunSerial
<1>3. up \in Seq(Reports) /\ TasksReported(up) /\ rx \in Seq(Reports) /\ TasksReported(rx)
  BY <1>1 DEF BaseInv, LinkType, ClientType
<1>4. /\ up' \in Seq(Reports) /\ TasksReported(up')
      /\ Head(up) \in Reports
      /\ Head(up).kind = "task" => Head(up).task \in Asked
  BY <1>2, <1>3, ReportedTail
<1>5. rx' \in Seq(Reports) /\ TasksReported(rx') /\ (~running => rx' = <<>>)
  <2>1. CASE Head(up).kind \in {"ack", "cancel", "task"} /\ running /\ application = run
    <3>1. rx' = Append(rx, Head(up))
      BY <2>1 DEF RunSerial
    <3> QED
      BY <1>3, <1>4, <2>1, <3>1, ReportedAppend
  <2>2. CASE ~(Head(up).kind \in {"ack", "cancel", "task"} /\ running /\ application = run)
    <3>1. rx' = rx
      BY <2>2 DEF RunSerial
    <3> QED
      BY <1>3, <3>1 DEF BaseInv
  <2> QED
    BY <2>1, <2>2
<1>6. bridge' \in [state : {"starting", "up", "stopping", "stopped", "failed"},
                   tries : 0..AckRetryThreshold, acked : SUBSET {"start_ack", "stop_ack"}]
  BY <1>1 DEF LinkType, RunSerial
<1>7. down' \in Seq(Lines) /\ posted' \subseteq Tasks
  BY <1>1, <1>2 DEF LinkType, HistoryType
<1> QED
  BY <1>2, <1>4, <1>5, <1>6, <1>7, SerialBase

LEMMA BridgeBase == BaseInv /\ (Informed \/ NotInformed \/ BridgeStop) => BaseInv'
<1> SUFFICES ASSUME BaseInv, Informed \/ NotInformed \/ BridgeStop PROVE BaseInv'
  OBVIOUS
<1>1. ClientType /\ LinkType /\ MoteType /\ HistoryType
  BY Types DEF BaseInv
<1>2. UNCHANGED <<scenario, client, rx, conn, application, up, mote, posted, torn, orphaned>>
  BY DEF Informed, NotInformed, BridgeStop
<1>3. /\ up' \in Seq(Reports) /\ TasksReported(up') /\ rx' \in Seq(Reports) /\ TasksReported(rx')
      /\ ~running => rx' = <<>>
      /\ posted' \subseteq Tasks
  BY <1>1, <1>2 DEF BaseInv, LinkType, ClientType, HistoryType
<1>4. down' \in Seq(Lines)
  <2>1. down \in Seq(Lines) /\ Note("edge_start") \in Lines /\ Note("edge_stop") \in Lines
    BY <1>1, NoteFacts DEF LinkType
  <2> QED
    BY <2>1 DEF Informed, NotInformed, BridgeStop
<1>5. bridge' \in [state : {"starting", "up", "stopping", "stopped", "failed"},
                   tries : 0..AckRetryThreshold, acked : SUBSET {"start_ack", "stop_ack"}]
  <2>1. AckRetryThreshold \in Nat \ {0}
    BY BoundAssumption
  <2>2. bridge \in [state : {"starting", "up", "stopping", "stopped", "failed"},
                    tries : 0..AckRetryThreshold, acked : SUBSET {"start_ack", "stop_ack"}]
    BY <1>1 DEF LinkType
  <2>3. CASE Informed
    BY <2>2, <2>3 DEF Informed
  <2>4. CASE NotInformed
    <3>1. bridge.tries + 1 \in 0..AckRetryThreshold
      BY <2>1, <2>2, <2>4 DEF NotInformed
    <3> QED
      BY <2>2, <2>4, <3>1 DEF NotInformed
  <2>5. CASE BridgeStop
    <3>1. bridge' = [bridge EXCEPT !.state = "stopping"]
      BY <2>5 DEF BridgeStop
    <3> QED
      BY <2>2, <3>1
  <2> QED
    BY <2>3, <2>4, <2>5
<1> QED
  BY <1>2, <1>3, <1>4, <1>5, SerialBase

LEMMA PostBase == ASSUME BaseInv, NEW t \in Tasks, post_handler(t) PROVE BaseInv'
<1>1. ClientType /\ LinkType /\ MoteType /\ HistoryType
  BY Types DEF BaseInv
<1>2. /\ UNCHANGED <<scenario, client, rx, conn, application, bridge, down, mote, torn, orphaned>>
      /\ up' = Append(up, [kind |-> "task", task |-> t])
      /\ t \in Asked
      /\ posted' = posted \cup {t}
  BY DEF post_handler, Asked
<1>3. [kind |-> "task", task |-> t] \in Reports
  BY DEF Reports
<1>4. up' \in Seq(Reports) /\ TasksReported(up')
  BY <1>1, <1>2, <1>3, ReportedAppend DEF LinkType, BaseInv
<1>5. /\ rx' \in Seq(Reports) /\ TasksReported(rx') /\ (~running => rx' = <<>>)
      /\ posted' \subseteq Tasks /\ down' \in Seq(Lines)
      /\ bridge' \in [state : {"starting", "up", "stopping", "stopped", "failed"},
                      tries : 0..AckRetryThreshold, acked : SUBSET {"start_ack", "stop_ack"}]
  BY <1>1, <1>2 DEF BaseInv, LinkType, ClientType, HistoryType
<1> QED
  BY <1>2, <1>4, <1>5, SerialBase

LEMMA LostBase == BaseInv /\ LineLost => BaseInv'
<1> SUFFICES ASSUME BaseInv, LineLost PROVE BaseInv'
  OBVIOUS
<1>1. ClientType /\ LinkType /\ MoteType /\ HistoryType
  BY Types DEF BaseInv
<1>2. UNCHANGED <<scenario, client, rx, conn, application, bridge, mote, posted, torn, orphaned>>
  BY DEF LineLost
<1>3. /\ rx' \in Seq(Reports) /\ TasksReported(rx') /\ (~running => rx' = <<>>)
      /\ posted' \subseteq Tasks
      /\ bridge' \in [state : {"starting", "up", "stopping", "stopped", "failed"},
                      tries : 0..AckRetryThreshold, acked : SUBSET {"start_ack", "stop_ack"}]
  BY <1>1, <1>2 DEF BaseInv, LinkType, ClientType, HistoryType
<1>4. down' \in Seq(Lines)
  <2>1. down \in Seq(Lines)
    BY <1>1 DEF LinkType
  <2>2. down' = down \/ (down # <<>> /\ down' = Tail(down))
    BY DEF LineLost
  <2> QED
    BY <2>1, <2>2, TailFacts
<1>5. up' \in Seq(Reports) /\ TasksReported(up')
  <2>1. up \in Seq(Reports) /\ TasksReported(up)
    BY <1>1 DEF LinkType, BaseInv
  <2>2. up' = up \/ (up # <<>> /\ up' = Tail(up))
    BY DEF LineLost
  <2> QED
    BY <2>1, <2>2, ReportedTail
<1> QED
  BY <1>2, <1>3, <1>4, <1>5, SerialBase

(* The sensor node acknowledges a line, or sends a request for it. *)
Acks == up' = Append(up, [kind |-> "ack", task |-> None]) /\ UNCHANGED <<locked, open>>

Answers(x) == Acks \/ (open' = open \cup {x} /\ locked' = TRUE /\ up' = up)

LEMMA SendOrAckAnswers ==
    ASSUME NEW to, NEW body, SendOrAck(to, body)
    PROVE  Answers([to |-> to, body |-> body])
  BY DEF SendOrAck, Answers, Acks, ack_serial_input, Prints

(* What it does with the line l. *)
HearsResult(l) ==
    \/ /\ l.kind = "stats" /\ Acks /\ UNCHANGED <<ep, msg_buf>>
    \/ /\ l.kind = "head" /\ Answers([to |-> l.task, body |-> <<l>>])
       /\ ep' = l.task /\ UNCHANGED msg_buf
    \/ /\ l.kind = "chunk" /\ scenario.app = "routing" /\ UNCHANGED ep
       /\ \/ ~(Len(msg_buf) < BufLen) /\ Acks /\ UNCHANGED msg_buf
          \/ /\ LastOfBlock(l)
             /\ Answers([to |-> ep, body |-> Append(msg_buf, l)]) /\ msg_buf' = <<>>
          \/ /\ Len(msg_buf) < BufLen /\ ~LastOfBlock(l)
             /\ Acks /\ msg_buf' = Append(msg_buf, l)

HearsSwitch(l) == /\ l.kind \in {"start", "stop"}
                  /\ available' = (l.kind = "start")
                  /\ UNCHANGED <<started, up, ep, msg_buf, locked, open>>

HearsBridge(l) == /\ l.kind \in {"edge_start", "edge_stop"}
                  /\ started' = (l.kind = "edge_start")
                  /\ available' = (available /\ l.kind = "edge_start")
                  /\ up' = Append(up, [kind |-> IF l.kind = "edge_start" THEN "start_ack" ELSE "stop_ack", task |-> None])
                  /\ UNCHANGED <<ep, msg_buf, locked, open>>

LEMMA ProcessCases ==
    ASSUME process_serial_message
    PROVE  /\ down # <<>> /\ down' = Tail(down)
           /\ UNCHANGED <<scenario, client, rx, conn, application, bridge, posted, torn, orphaned>>
           /\ \/ Head(down).kind \in Result /\ HearsResult(Head(down)) /\ UNCHANGED <<available, started>>
              \/ HearsSwitch(Head(down))
              \/ HearsBridge(Head(down))
<1> DEFINE l == Head(down)
<1>1. /\ down # <<>> /\ down' = Tail(down)
      /\ UNCHANGED <<scenario, client, rx, conn, application, bridge, posted, torn, orphaned>>
  BY DEF process_serial_message
<1>2. CASE l.kind \in Result /\ UNCHANGED <<available, started>> /\ scenario.app = "routing"
           /\ routing_taskresp_process_serial_input(l)
  <2>1. CASE l.kind = "stats" /\ process_task_stats
    BY <1>1, <1>2, <2>1 DEF process_task_stats, ack_serial_input, Prints, HearsResult, Acks
  <2>2. CASE l.kind = "head" /\ process_task_resp1(l)
    BY <1>1, <1>2, <2>2, SendOrAckAnswers DEF process_task_resp1, HearsResult
  <2>3. CASE l.kind = "chunk" /\ process_task_resp2(l)
    <3>1. UNCHANGED ep
      BY <2>3 DEF process_task_resp2
    <3>0. PICK fits \in Room(l) :
             IF ~fits THEN ack_serial_input /\ UNCHANGED <<msg_buf, locked, open>>
             ELSE IF LastOfBlock(l)
             THEN process_task_resp_send_success(Append(msg_buf, l)) /\ msg_buf' = <<>>
             ELSE msg_buf' = Append(msg_buf, l) /\ ack_serial_input /\ UNCHANGED <<locked, open>>
      BY <2>3 DEF process_task_resp2
    <3>2. CASE ~fits
      <4>1. ~(Len(msg_buf) < BufLen)
        BY <3>2 DEF Room
      <4> QED
        BY <1>1, <1>2, <2>3, <3>0, <3>1, <3>2, <4>1 DEF ack_serial_input, Prints, HearsResult, Acks
    <3>3. CASE fits /\ LastOfBlock(l)
      <4>1. SendOrAck(ep, Append(msg_buf, l)) /\ msg_buf' = <<>>
        BY <3>0, <3>3 DEF process_task_resp_send_success
      <4> QED
        BY <1>1, <1>2, <2>3, <3>1, <3>3, <4>1, SendOrAckAnswers DEF HearsResult
    <3>4. CASE fits /\ ~LastOfBlock(l)
      <4>1. Len(msg_buf) < BufLen
        BY <3>4 DEF Room
      <4> QED
        BY <1>1, <1>2, <2>3, <3>0, <3>1, <3>4, <4>1 DEF ack_serial_input, Prints, HearsResult, Acks
    <3> QED
      BY <3>2, <3>3, <3>4
  <2> QED
    BY <1>2, <2>1, <2>2, <2>3 DEF routing_taskresp_process_serial_input
<1>3. CASE l.kind \in Result /\ UNCHANGED <<available, started>> /\ cr_taskresp_process_serial_input(l)
  <2>1. CASE l.kind = "stats" /\ process_task_stats
    BY <1>1, <1>3, <2>1 DEF process_task_stats, ack_serial_input, Prints, HearsResult, Acks
  <2>2. CASE l.kind = "head" /\ process_task_resp(l)
    BY <1>1, <1>3, <2>2, SendOrAckAnswers DEF process_task_resp, HearsResult
  <2> QED
    BY <1>3, <2>1, <2>2 DEF cr_taskresp_process_serial_input
<1>4. CASE l.kind \in {"start", "stop"} /\ process_application_serial_message(l) /\ UNCHANGED started
  BY <1>1, <1>4 DEF process_application_serial_message, HearsSwitch
<1>5. CASE l.kind \in {"edge_start", "edge_stop"} /\ process_edge_serial_message(l)
  BY <1>1, <1>5 DEF process_edge_serial_message, HearsBridge, Prints
<1> QED
  BY <1>2, <1>3, <1>4, <1>5 DEF process_serial_message

LEMMA ProcessBase == BaseInv /\ process_serial_message => BaseInv'
<1> SUFFICES ASSUME BaseInv, process_serial_message PROVE BaseInv'
  OBVIOUS
<1> DEFINE l == Head(down)
<1>1. ClientType /\ LinkType /\ MoteType /\ HistoryType /\ BufLen \in Nat
  BY Types, BoundAssumption DEF BaseInv
<1>2. /\ down # <<>> /\ down' = Tail(down)
      /\ UNCHANGED <<scenario, client, rx, conn, application, bridge, posted, torn, orphaned>>
  BY ProcessCases
<1>3. down' \in Seq(Lines) /\ l \in Lines
  BY <1>1, <1>2, TailFacts DEF LinkType
<1>4. l.task \in Tasks \cup {None}
  BY <1>3 DEF Lines
<1> HIDE DEF l
<1>5. up \in Seq(Reports) /\ TasksReported(up)
  BY <1>1 DEF LinkType, BaseInv
<1>6. \A k \in {"ack", "start_ack", "stop_ack"} :
         /\ Append(up, [kind |-> k, task |-> None]) \in Seq(Reports)
         /\ TasksReported(Append(up, [kind |-> k, task |-> None]))
  <2>1. ASSUME NEW k \in {"ack", "start_ack", "stop_ack"}
        PROVE  /\ Append(up, [kind |-> k, task |-> None]) \in Seq(Reports)
               /\ TasksReported(Append(up, [kind |-> k, task |-> None]))
    <3>1. [kind |-> k, task |-> None] \in Reports
      BY ReportFacts
    <3>2. [kind |-> k, task |-> None].kind # "task"
      OBVIOUS
    <3> QED
      BY <1>5, <3>1, <3>2, ReportedAppend
  <2> QED
    BY <2>1
<1>7. up' \in Seq(Reports) /\ TasksReported(up')
  <2>1. up' = up \/ \E k \in {"ack", "start_ack", "stop_ack"} : up' = Append(up, [kind |-> k, task |-> None])
    BY ProcessCases DEF HearsResult, HearsSwitch, HearsBridge, Answers, Acks
  <2> QED
    BY <1>5, <1>6, <2>1
<1>8. /\ msg_buf \in Seq(Lines) /\ Len(msg_buf) <= BufLen /\ ep \in Tasks \cup {None} /\ locked \in BOOLEAN
      /\ available \in BOOLEAN /\ started \in BOOLEAN
      /\ open \subseteq [to : Tasks \cup {None}, body : Seq(Lines)] /\ IsFiniteSet(open)
  BY <1>1 DEF MoteType, BaseInv
<1>9. /\ Append(msg_buf, l) \in Seq(Lines) /\ Len(Append(msg_buf, l)) = Len(msg_buf) + 1
      /\ <<l>> \in Seq(Lines)
  BY <1>3, <1>8
<1>10. msg_buf' \in Seq(Lines) /\ Len(msg_buf') <= BufLen
  <2>1. \/ msg_buf' = msg_buf \/ msg_buf' = <<>>
        \/ Len(msg_buf) < BufLen /\ msg_buf' = Append(msg_buf, l)
    <3>1. CASE HearsResult(l)
      BY <3>1 DEF HearsResult
    <3>2. CASE HearsSwitch(l) \/ HearsBridge(l)
      BY <3>2 DEF HearsSwitch, HearsBridge
    <3> QED
      BY <3>1, <3>2, ProcessCases DEF l
  <2>2. Len(msg_buf) < BufLen => Len(msg_buf) + 1 <= BufLen
    BY <1>1, <1>8
  <2>3. <<>> \in Seq(Lines) /\ Len(<<>>) <= BufLen
    BY <1>1
  <2>4. CASE msg_buf' = msg_buf
    BY <1>8, <2>4
  <2>5. CASE msg_buf' = <<>>
    BY <2>3, <2>5
  <2>6. CASE Len(msg_buf) < BufLen /\ msg_buf' = Append(msg_buf, l)
    BY <1>9, <2>2, <2>6
  <2> QED
    BY <2>1, <2>4, <2>5, <2>6
<1>11. ep' \in Tasks \cup {None}
  BY <1>4, <1>8, ProcessCases DEF HearsResult, HearsSwitch, HearsBridge, l
<1>12. /\ locked' \in BOOLEAN
       /\ open' \subseteq [to : Tasks \cup {None}, body : Seq(Lines)] /\ IsFiniteSet(open')
  <2>1. \/ UNCHANGED <<locked, open>>
        \/ \E to \in Tasks \cup {None}, body \in Seq(Lines) :
               open' = open \cup {[to |-> to, body |-> body]} /\ locked' = TRUE
    <3>1. CASE l.kind \in Result /\ HearsResult(l)
      BY <1>4, <1>8, <1>9, <3>1 DEF HearsResult, Answers, Acks
    <3>2. CASE HearsSwitch(l) \/ HearsBridge(l)
      BY <3>2 DEF HearsSwitch, HearsBridge
    <3> QED
      BY <3>1, <3>2, ProcessCases DEF l
  <2>2. CASE UNCHANGED <<locked, open>>
    BY <1>8, <2>2
  <2>3. ASSUME NEW to \in Tasks \cup {None}, NEW body \in Seq(Lines),
               open' = open \cup {[to |-> to, body |-> body]}, locked' = TRUE
        PROVE  /\ locked' \in BOOLEAN
               /\ open' \subseteq [to : Tasks \cup {None}, body : Seq(Lines)] /\ IsFiniteSet(open')
    <3>1. [to |-> to, body |-> body] \in [to : Tasks \cup {None}, body : Seq(Lines)]
      OBVIOUS
    <3>2. open' \subseteq [to : Tasks \cup {None}, body : Seq(Lines)]
      BY <1>8, <2>3, <3>1
    <3>3. IsFiniteSet(open')
      BY <1>8, <2>3, FS_AddElement
    <3> QED
      BY <2>3, <3>2, <3>3
  <2> QED
    BY <2>1, <2>2, <2>3
<1>13. available' \in BOOLEAN /\ started' \in BOOLEAN
  BY <1>8, ProcessCases DEF HearsSwitch, HearsBridge
<1>14. MoteType'
  BY <1>10, <1>11, <1>12, <1>13 DEF MoteType
<1>15. LinkType'
  BY <1>1, <1>2, <1>3, <1>7 DEF LinkType
<1>16. TypeOK'
  BY <1>1, <1>2, <1>14, <1>15, TypesPrimed
<1>17. BaseRest'
  <2>1. sending' # None => Valid(sending)'
    BY <1>2, SameScenario DEF BaseInv, client
  <2> QED
    BY <1>2, <1>12, <2>1 DEF BaseRest, BaseInv, client
<1> QED
  BY <1>2, <1>7, <1>16, <1>17, BaseParts DEF BaseInv, client

(* An exchange ends: the line is acknowledged, after a cancel if it was refused. *)
LEMMA ExchangeCases ==
    ASSUME BaseInv, NEW x \in open, NEW outcome \in Outcomes, ExchangeEnds(x, outcome)
    PROVE  /\ UNCHANGED <<scenario, client, rx, conn, application, bridge, down, available, started, ep, msg_buf,
                          posted, torn, orphaned>>
           /\ open' = open \ {x} /\ locked' = FALSE
           /\ \/ up' = Append(up, [kind |-> "ack", task |-> None])
              \/ /\ scenario.app = "routing"
                 /\ up' = Append(Append(up, [kind |-> "cancel", task |-> None]), [kind |-> "ack", task |-> None])
<1>1. up \in Seq(Reports)
  BY DEF BaseInv, TypeOK
<1>2. [kind |-> "cancel", task |-> None] \in Reports /\ [kind |-> "ack", task |-> None] \in Reports
  BY ReportFacts
<1>3. /\ up \o <<[kind |-> "cancel", task |-> None]>> = Append(up, [kind |-> "cancel", task |-> None])
      /\ Append(up, [kind |-> "cancel", task |-> None]) \in Seq(Reports)
      /\ up \o <<[kind |-> "ack", task |-> None]>> = Append(up, [kind |-> "ack", task |-> None])
  BY <1>1, <1>2, AppendFacts
<1>4. Append(up, [kind |-> "cancel", task |-> None]) \o <<[kind |-> "ack", task |-> None]>>
        = Append(Append(up, [kind |-> "cancel", task |-> None]), [kind |-> "ack", task |-> None])
  BY <1>2, <1>3, AppendFacts
<1>5. up \o <<>> = up
  BY <1>1
<1>6. /\ UNCHANGED <<scenario, client, rx, conn, application, bridge, down, available, started, ep, msg_buf,
                     posted, torn, orphaned>>
      /\ open' = open \ {x} /\ locked' = FALSE
  BY DEF ExchangeEnds, send_callback, cr_send_callback
<1>7. CASE scenario.app = "routing"
  <2>1. CASE outcome = "refused"
    BY <1>3, <1>4, <1>6, <1>7, <2>1 DEF ExchangeEnds, send_callback
  <2>2. CASE outcome # "refused"
    BY <1>3, <1>5, <1>6, <1>7, <2>2 DEF ExchangeEnds, send_callback
  <2> QED
    BY <2>1, <2>2
<1>8. CASE scenario.app # "routing"
  BY <1>6, <1>8 DEF ExchangeEnds, cr_send_callback, ack_serial_input, Prints
<1> QED
  BY <1>7, <1>8

LEMMA ExchangeBase ==
    ASSUME BaseInv, NEW x \in open, NEW outcome \in Outcomes, ExchangeEnds(x, outcome)
    PROVE  BaseInv'
<1>1. ClientType /\ LinkType /\ MoteType /\ HistoryType
  BY Types DEF BaseInv
<1>2. /\ UNCHANGED <<scenario, client, rx, conn, application, bridge, down, available, started, ep, msg_buf,
                     posted, torn, orphaned>>
      /\ open' = open \ {x} /\ locked' = FALSE
  BY ExchangeCases
<1>3. up' \in Seq(Reports) /\ TasksReported(up')
  <2>1. up \in Seq(Reports) /\ TasksReported(up)
    BY <1>1 DEF LinkType, BaseInv
  <2>2. [kind |-> "cancel", task |-> None] \in Reports /\ [kind |-> "ack", task |-> None] \in Reports
    BY ReportFacts
  <2>3. /\ Append(up, [kind |-> "cancel", task |-> None]) \in Seq(Reports)
        /\ TasksReported(Append(up, [kind |-> "cancel", task |-> None]))
        /\ Append(up, [kind |-> "ack", task |-> None]) \in Seq(Reports)
        /\ TasksReported(Append(up, [kind |-> "ack", task |-> None]))
    BY <2>1, <2>2, ReportedAppend
  <2>4. LET s == Append(Append(up, [kind |-> "cancel", task |-> None]), [kind |-> "ack", task |-> None])
        IN  s \in Seq(Reports) /\ TasksReported(s)
    BY <2>2, <2>3, ReportedAppend
  <2> QED
    BY <2>3, <2>4, ExchangeCases
<1>4. IsFiniteSet(open')
  BY <1>2, FS_Subset DEF BaseInv
<1>5. MoteType' /\ LinkType'
  BY <1>1, <1>2, <1>3 DEF MoteType, LinkType
<1>6. TypeOK'
  BY <1>1, <1>2, <1>5, TypesPrimed
<1>7. BaseRest'
  <2>1. sending' # None => Valid(sending)'
    BY <1>2, SameScenario DEF BaseInv, client
  <2> QED
    BY <1>2, <1>4, <2>1 DEF BaseRest, BaseInv, client
<1> QED
  BY <1>2, <1>3, <1>6, <1>7, BaseParts DEF BaseInv, client

LEMMA ExpiresBase == BaseInv /\ LockExpires => BaseInv'
<1> SUFFICES ASSUME BaseInv, LockExpires PROVE BaseInv'
  OBVIOUS
<1>1. ClientType /\ LinkType /\ MoteType /\ HistoryType
  BY Types DEF BaseInv
<1>2. /\ UNCHANGED <<scenario, client, rx, conn, application, bridge, down, up, available, started, ep, msg_buf, open,
                     posted, torn, orphaned>>
      /\ locked' = FALSE
  BY DEF LockExpires
<1>3. MoteType'
  BY <1>1, <1>2 DEF MoteType
<1>4. TypeOK'
  BY <1>1, <1>2, <1>3, TypesPrimed
<1>5. BaseRest'
  <2>1. sending' # None => Valid(sending)'
    BY <1>2, SameScenario DEF BaseInv, client
  <2> QED
    BY <1>2, <2>1 DEF BaseRest, BaseInv, client
<1> QED
  BY <1>2, <1>4, <1>5, BaseParts DEF BaseInv, client

LEMMA NextBase == BaseInv /\ [Next]_vars => BaseInv'
<1> SUFFICES ASSUME BaseInv, [Next]_vars PROVE BaseInv'
  OBVIOUS
<1>1. CASE UNCHANGED vars
  <2>1. sending' # None => Valid(sending)'
    BY <1>1, SameScenario DEF BaseInv, vars, client
  <2>2. BaseRest'
    BY <1>1, <2>1 DEF BaseRest, BaseInv, vars, client, mote
  <2>3. TypeOK'
    BY <1>1, Types, TypesPrimed DEF BaseInv, vars
  <2> QED
    BY <1>1, <2>2, <2>3, BaseParts DEF BaseInv, vars, client
<1>2. CASE Client
  BY <1>2, ReadsBase, DoneBase, FailsBase, SendNextBase DEF Client, Work
<1>3. CASE Bridge
  BY <1>3, HandleConnBase, RunSerialBase DEF Bridge
<1>4. CASE \E t \in Tasks : post_handler(t)
  BY <1>4, PostBase
<1>5. CASE \E x \in open, outcome \in Outcomes : ExchangeEnds(x, outcome)
  BY <1>5, ExchangeBase
<1> QED
  BY <1>1, <1>2, <1>3, <1>4, <1>5, StartBase, StopBase, BridgeBase, BridgeEndBase, ProcessBase, ExpiresBase, LostBase
     DEF Next

-----------------------------------------------------------------------------
(* ConnInv is an invariant. *)

LEMMA InitConn == Init => ConnInv
  BY DEF Init, ConnInv

LEMMA RunTyped ==
    ASSUME BaseInv
    PROVE  /\ run \in Nat /\ run # None
           /\ running => run \in Runs
           /\ \A r \in Runs : r \in Nat /\ r # None
           /\ conn \in [Runs -> [tx : Seq(Lines), handler : {"none", "connected", "named", "ended"}]]
           /\ \A r \in Runs : conn[r].tx \in Seq(Lines)
<1>1. run \in 0..MaxRuns /\ MaxRuns \in Nat
  BY BoundAssumption DEF BaseInv, TypeOK
<1>2. None \notin Nat
  BY TaskAssumption
<1>3. running => run # 0
  BY DEF BaseInv
<1>4. conn \in [Runs -> [tx : Seq(Lines), handler : {"none", "connected", "named", "ended"}]]
  BY DEF BaseInv, TypeOK
<1>5. \A r \in Runs : conn[r].tx \in Seq(Lines)
  BY <1>4
<1> QED
  BY <1>1, <1>2, <1>3, <1>4, <1>5 DEF Runs

LEMMA NextConn == BaseInv /\ ConnInv /\ [Next]_vars => ConnInv'
<1> SUFFICES ASSUME BaseInv, ConnInv, [Next]_vars PROVE ConnInv'
  OBVIOUS
<1>1. /\ run \in Nat /\ run # None
      /\ running => run \in Runs
      /\ \A r \in Runs : r \in Nat /\ r # None
      /\ conn \in [Runs -> [tx : Seq(Lines), handler : {"none", "connected", "named", "ended"}]]
      /\ \A r \in Runs : conn[r].tx \in Seq(Lines)
  BY RunTyped
<1> USE DEF client, mote
<1>2. ASSUME AppStart PROVE ConnInv'
  <2> SUFFICES ASSUME "overlap" \notin scenario.faults PROVE ConnInv'
    BY <1>2 DEF ConnInv, AppStart
  <2>1. run + 1 \in Runs
    BY <1>1, <1>2, ScenarioFacts DEF AppStart, Runs, BaseInv
  <2>2. \A r \in Runs : conn[r].handler \in {"none", "ended"} /\ conn[r].tx = <<>>
    BY <1>2 DEF AppStart, Fault, ConnInv
  <2>3. application = None
    <3>1. application \in Runs \cup {None}
      BY DEF BaseInv, TypeOK
    <3> QED
      BY <2>2, <3>1 DEF ConnInv
  <2>4. /\ run' = run + 1 /\ running' /\ application' = application
        /\ conn' = [conn EXCEPT ![run + 1] = [tx |-> <<Note("name"), Note("start")>>, handler |-> "connected"]]
        /\ rx' = <<>> /\ jobs' = <<>> /\ ready' = <<>> /\ sending' = None
    BY <1>2 DEF AppStart
  <2>5. conn'[run + 1].handler = "connected" /\ \A r \in Runs : r # run + 1 => conn'[r] = conn[r]
    BY <1>1, <2>1, <2>4
  <2> QED
    BY <2>1, <2>2, <2>3, <2>4, <2>5 DEF ConnInv
<1>3. ASSUME running, run # 0, NEW l \in Lines, Writes(<<l>>), UNCHANGED <<scenario, run, application>>,
             conn[run].handler = "named" \/ (~running' /\ jobs' = <<>> /\ ready' = <<>> /\ rx' = <<>> /\ sending' = None)
      PROVE  ConnInv'
  <2> SUFFICES ASSUME "overlap" \notin scenario.faults PROVE ConnInv'
    BY <1>3 DEF ConnInv
  <2>1. /\ run \in Runs
        /\ \A r \in Runs : conn'[r].handler = conn[r].handler
        /\ \A r \in Runs : r # run => conn'[r] = conn[r]
    BY <1>3, WritesTyped DEF BaseInv
  <2>2. conn[run].handler \in {"connected", "named"}
    BY <1>3 DEF ConnInv
  <2>3. application \in Runs \cup {None}
    BY DEF BaseInv, TypeOK
  <2> QED
    BY <1>3, <2>1, <2>2, <2>3 DEF ConnInv
<1>4. ASSUME AppStop PROVE ConnInv'
  <2>1. Note("stop") \in Lines
    BY NoteFacts
  <2>2. /\ running /\ Writes(<<Note("stop")>>) /\ UNCHANGED <<scenario, run, application>>
        /\ ~running' /\ jobs' = <<>> /\ ready' = <<>> /\ rx' = <<>> /\ sending' = None
    BY <1>4 DEF AppStop, EndRun
  <2>3. run # 0
    BY <2>2 DEF BaseInv
  <2> QED
    BY <1>3, <2>1, <2>2, <2>3
<1>5. ASSUME AppCrash PROVE ConnInv'
  BY <1>1, <1>5 DEF AppCrash, EndRun, ConnInv
<1>6. ASSUME BridgeEnd PROVE ConnInv'
  <2>1. conn' = [r \in Runs |-> [tx |-> <<>>, handler |-> IF conn[r].handler = "none" THEN "none" ELSE "ended"]]
    BY <1>6 DEF BridgeEnd
  <2>2. \A r \in Runs : conn'[r].tx = <<>> /\ conn'[r].handler \in {"none", "ended"}
    BY <2>1
  <2>3. application' = None /\ ~running' /\ scenario' = scenario
    BY <1>6 DEF BridgeEnd, EndRun
  <2> QED
    BY <2>2, <2>3 DEF ConnInv
<1>7. ASSUME AppReads PROVE ConnInv'
  BY <1>7 DEF AppReads, ConnInv
<1>8. ASSUME NEW k, TaskDone(k) PROVE ConnInv'
  <2> SUFFICES ASSUME "overlap" \notin scenario.faults PROVE ConnInv'
    BY <1>8 DEF ConnInv, TaskDone
  <2>1. running /\ jobs # <<>> /\ UNCHANGED <<scenario, run, application, running>> /\ k \in DOMAIN jobs
    BY <1>8 DEF TaskDone
  <2>2. conn[run].handler = "named" /\ run # 0
    BY <2>1 DEF ConnInv, BaseInv
  <2>3. CASE conn' = conn
    BY <2>1, <2>2, <2>3 DEF ConnInv
  <2>4. CASE sending = None
    <3>1. jobs[k] \in Asked
      BY <2>1 DEF BaseInv
    <3>2. Line(jobs[k], 0, 1) \in Lines
      BY <3>1, FirstLine, ValidFacts DEF BaseInv
    <3>3. Writes(<<Line(jobs[k], 0, 1)>>)
      BY <1>8, <2>4 DEF TaskDone, Begin
    <3> QED
      BY <1>3, <2>1, <2>2, <3>2, <3>3
  <2> QED
    BY <1>8, <2>3, <2>4 DEF TaskDone
<1>18. ASSUME NEW k, TaskFails(k) PROVE ConnInv'
  <2>1. /\ running /\ jobs # <<>>
        /\ UNCHANGED <<scenario, run, running, ready, sending, rx, conn, application>>
    BY <1>18 DEF TaskFails
  <2>2. "overlap" \notin scenario.faults => conn[run].handler = "named"
    BY <2>1 DEF ConnInv
  <2> QED
    BY <2>1, <2>2 DEF ConnInv
<1>9. ASSUME SendNext PROVE ConnInv'
  <2> SUFFICES ASSUME "overlap" \notin scenario.faults PROVE ConnInv'
    BY <1>9, SendNextCases DEF ConnInv
  <2>1. running /\ woken /\ UNCHANGED <<scenario, run, application, running>> /\ scenario \in Scenarios
    BY <1>9, SendNextCases DEF BaseInv
  <2>2. conn[run].handler = "named" /\ run # 0
    BY <2>1 DEF ConnInv, BaseInv
  <2>3. CASE conn' = conn
    BY <2>1, <2>2, <2>3 DEF ConnInv
  <2>4. CASE Valid(NextLine(sending)) /\ Writes(<<NextLine(sending)>>)
    BY <1>3, <2>1, <2>2, <2>4, ValidFacts
  <2>5. CASE \E t \in Asked : Writes(<<Line(t, 0, 1)>>)
    <3>1. PICK t \in Asked : Writes(<<Line(t, 0, 1)>>)
      BY <2>5
    <3>2. Line(t, 0, 1) \in Lines
      BY <2>1, FirstLine, ValidFacts
    <3> QED
      BY <1>3, <2>1, <2>2, <3>1, <3>2
  <2> QED
    BY <1>9, <2>3, <2>4, <2>5, SendNextCases
<1>10. ASSUME NEW r \in Runs, HandleConn(r) PROVE ConnInv'
  <2>0. UNCHANGED <<scenario, client, rx>>
    BY <1>10, HandleConnCases
  <2> SUFFICES ASSUME "overlap" \notin scenario.faults PROVE ConnInv'
    BY <2>0 DEF ConnInv
  <2>1. /\ \A q \in Runs : q # r => conn'[q] = conn[q]
        /\ conn[r].handler \in {"connected", "named"}
        /\ \/ conn'[r].handler = "named" /\ application' = r
           \/ conn'[r].handler = "named" /\ conn[r].handler = "named" /\ application' = application
           \/ conn'[r].handler = "ended" /\ conn'[r].tx = <<>> /\ application' = None /\ Closed(r)
    BY <1>10, HandleConnCases
  <2>2. r = run /\ \A q \in Runs : q # r => conn[q].handler \in {"none", "ended"}
    BY <2>1 DEF ConnInv
  <2>3. CASE conn'[r].handler = "named" /\ application' = r
    BY <1>1, <2>0, <2>1, <2>2, <2>3 DEF ConnInv
  <2>4. CASE conn'[r].handler = "named" /\ conn[r].handler = "named" /\ application' = application
    BY <1>1, <2>0, <2>1, <2>2, <2>4 DEF ConnInv
  <2>5. CASE conn'[r].handler = "ended" /\ conn'[r].tx = <<>> /\ application' = None /\ Closed(r)
    BY <1>1, <2>0, <2>1, <2>2, <2>5 DEF ConnInv, Closed
  <2> QED
    BY <2>1, <2>3, <2>4, <2>5
<1>11. ASSUME RunSerial PROVE ConnInv'
  <2>1. /\ UNCHANGED <<scenario, client, conn, application>>
        /\ rx' = rx \/ (running /\ application = run)
    BY <1>11 DEF RunSerial
  <2> QED
    BY <1>1, <2>1 DEF ConnInv
<1>12. ASSUME UNCHANGED <<scenario, client, rx, conn, application>> PROVE ConnInv'
  BY <1>12 DEF ConnInv
<1>13. CASE Client
  BY <1>7, <1>8, <1>9, <1>13, <1>18 DEF Client, Work
<1>14. CASE Bridge
  BY <1>10, <1>11, <1>14 DEF Bridge
<1>15. CASE Informed \/ NotInformed \/ BridgeStop \/ process_serial_message \/ LockExpires \/ LineLost \/ UNCHANGED vars
  BY <1>12, <1>15 DEF Informed, NotInformed, BridgeStop, process_serial_message, LockExpires, LineLost, vars
<1>16. CASE \E t \in Tasks : post_handler(t)
  BY <1>12, <1>16 DEF post_handler
<1>17. CASE \E x \in open, outcome \in Outcomes : ExchangeEnds(x, outcome)
  BY <1>12, <1>17, ExchangeCases
<1> QED
  BY <1>2, <1>4, <1>5, <1>6, <1>13, <1>14, <1>15, <1>16, <1>17 DEF Next
-----------------------------------------------------------------------------
(* TraceInv is an invariant. *)

TxLines == IF running THEN Count(conn[run].tx, Result) ELSE 0
Wanted  == IF sending = None THEN 0 ELSE 1
NoLoss  == scenario.faults \cap {"loss", "overlap"} = {}
Woken   == IF woken THEN 1 ELSE 0

LEMMA PendingParts ==
    ASSUME BaseInv
    PROVE  /\ Pending = TxLines + Count(down, Result) + Cardinality(open) + Count(up, {"ack"})
                        + Count(rx, {"ack"}) + Woken
           /\ TxLines \in Nat /\ Count(down, Result) \in Nat /\ Cardinality(open) \in Nat
           /\ Count(up, {"ack"}) \in Nat /\ Count(rx, {"ack"}) \in Nat /\ Woken \in Nat
           /\ Cardinality(open) = 0 <=> open = {}
<1>1. down \in Seq(Lines) /\ up \in Seq(Reports) /\ rx \in Seq(Reports)
  BY DEF BaseInv, TypeOK
<1>2. Count(down, Result) \in Nat /\ Count(up, {"ack"}) \in Nat /\ Count(rx, {"ack"}) \in Nat
  BY <1>1, CountNat
<1>3. running => Count(conn[run].tx, Result) \in Nat
  BY RunTyped, CountNat
<1>4. Cardinality(open) \in Nat /\ (Cardinality(open) = 0 <=> open = {})
  BY FS_CardinalityType, FS_EmptySet DEF BaseInv
<1>5. TxLines \in Nat /\ Woken \in Nat
  BY <1>3 DEF TxLines, Woken
<1>6. Pending = TxLines + Count(down, Result) + Cardinality(open) + Count(up, {"ack"}) + Count(rx, {"ack"}) + Woken
  BY DEF Pending, TxLines, Woken
<1> QED
  BY <1>2, <1>4, <1>5, <1>6

LEMMA SumTyped ==
    ASSUME NEW a \in Nat, NEW b \in Nat, NEW c \in Nat, NEW d \in Nat, NEW e \in Nat, NEW f \in Nat
    PROVE  a + b + c + d + e + f \in Nat
  OBVIOUS

(* Nothing is pending when all of it is nothing. *)
LEMMA NothingPending ==
    ASSUME BaseInv, Pending <= 0
    PROVE  /\ TxLines = 0 /\ Count(down, Result) = 0 /\ Cardinality(open) = 0
           /\ Count(up, {"ack"}) = 0 /\ Count(rx, {"ack"}) = 0 /\ Woken = 0 /\ Pending = 0
<1> DEFINE a == TxLines
           b == Count(down, Result)
           c == Cardinality(open)
           d == Count(up, {"ack"})
           e == Count(rx, {"ack"})
<1>1. /\ Pending = a + b + c + d + e + Woken
      /\ a \in Nat /\ b \in Nat /\ c \in Nat /\ d \in Nat /\ e \in Nat /\ Woken \in Nat
  BY PendingParts
<1> HIDE DEF a, b, c, d, e
<1>2. a = 0 /\ b = 0 /\ c = 0 /\ d = 0 /\ e = 0 /\ Woken = 0 /\ Pending = 0
  BY <1>1
<1> QED
  BY <1>2 DEF a, b, c, d, e

LEMMA PendingPrimed ==
    Pending' = TxLines' + Count(down', Result) + Cardinality(open') + Count(up', {"ack"})
               + Count(rx', {"ack"}) + Woken'
<1>1. Pending' = (IF running' THEN Count(conn'[run'].tx, Result) ELSE 0) + Count(down', Result) + Cardinality(open')
                 + Count(up', {"ack"}) + Count(rx', {"ack"}) + (IF woken' THEN 1 ELSE 0)
  BY DEF Pending, Count
<1>2. TxLines' = IF running' THEN Count(conn'[run'].tx, Result) ELSE 0
  BY DEF TxLines, Count
<1>3. Woken' = IF woken' THEN 1 ELSE 0
  BY DEF Woken
<1> QED
  BY <1>1, <1>2, <1>3

LEMMA TxPrimed ==
    /\ running' => TxLines' = Count(conn'[run'].tx, Result)
    /\ ~running' => TxLines' = 0
  BY DEF TxLines, Count

(* The invariant in those terms, and what establishes it after a step. *)
LEMMA TraceUse ==
    ASSUME BaseInv, TraceInv, ~torn
    PROVE  /\ Pending <= Wanted
           /\ sending # None /\ NoLoss => Pending = 1
           /\ \A r \in Runs : Closed(r) => Count(conn[r].tx, Result) = 0
  BY DEF TraceInv, OneTrace, Wanted, NoLoss

LEMMA TraceMake ==
    ASSUME scenario' = scenario,
           ~torn' => /\ Pending' <= Wanted'
                     /\ sending' # None /\ NoLoss => Pending' = 1
                     /\ \A r \in Runs : (r # run' \/ ~running') => Count(conn'[r].tx, Result) = 0
    PROVE  TraceInv'
<1> SUFFICES ASSUME ~torn'
             PROVE  /\ (Pending <= (IF sending = None THEN 0 ELSE 1))'
                    /\ (sending # None /\ scenario.faults \cap {"loss", "overlap"} = {} => Pending = 1)'
                    /\ (\A r \in Runs : Closed(r) => Count(conn[r].tx, Result) = 0)'
  BY DEF TraceInv, OneTrace
<1>1. (Pending <= (IF sending = None THEN 0 ELSE 1))'
  BY DEF Wanted
<1>2. (sending # None /\ scenario.faults \cap {"loss", "overlap"} = {} => Pending = 1)'
  BY DEF NoLoss
<1>3. (\A r \in Runs : Closed(r) => Count(conn[r].tx, Result) = 0)'
  BY DEF Closed, Count
<1> QED
  BY <1>1, <1>2, <1>3

LEMMA InitTrace == Init => TraceInv
<1> SUFFICES ASSUME Init PROVE TraceInv
  OBVIOUS
<1>1. BaseInv
  BY InitBase
<1>2. /\ down = <<Note("edge_start")>> /\ up = <<>> /\ rx = <<>> /\ open = {} /\ ~woken /\ ~running /\ sending = None
      /\ \A r \in Runs : conn[r].tx = <<>>
  BY DEF Init
<1>3. Count(down, Result) = 0
  <2>1. down \in Seq(Lines) /\ Len(down) = 1 /\ down[1].kind \notin Result
    BY <1>1, <1>2, NoteFacts DEF BaseInv, TypeOK
  <2> QED
    BY <2>1, CountNat
<1>4. Count(up, {"ack"}) = 0 /\ Count(rx, {"ack"}) = 0 /\ \A r \in Runs : Count(conn[r].tx, Result) = 0
  BY <1>2, CountEmpty
<1>5. TxLines = 0 /\ Woken = 0 /\ Cardinality(open) = 0
  BY <1>2, FS_EmptySet DEF TxLines, Woken
<1>6. Pending = 0
  BY <1>1, <1>3, <1>4, <1>5, PendingParts
<1> QED
  BY <1>2, <1>4, <1>6 DEF TraceInv, OneTrace

(* Steps that leave the client and its connections alone. *)
LEMMA TraceKept ==
    ASSUME BaseInv, TraceInv, UNCHANGED <<scenario, run, running, sending, conn, torn>>,
           ~torn => Pending' <= Pending /\ (NoLoss /\ sending # None => Pending' = Pending),
           Pending' \in Nat
    PROVE  TraceInv'
<1>1. Wanted' = Wanted /\ Wanted \in Nat
  BY DEF Wanted
<1>2. Pending \in Nat
  BY PendingParts
<1>3. ASSUME ~torn'
      PROVE  /\ Pending' <= Wanted'
             /\ sending' # None /\ NoLoss => Pending' = 1
             /\ \A r \in Runs : (r # run' \/ ~running') => Count(conn'[r].tx, Result) = 0
  <2>1. ~torn
    BY <1>3
  <2>2. /\ Pending <= Wanted
        /\ sending # None /\ NoLoss => Pending = 1
        /\ \A r \in Runs : Closed(r) => Count(conn[r].tx, Result) = 0
    BY <2>1, TraceUse
  <2>3. Pending' <= Wanted'
    BY <1>1, <1>2, <2>1, <2>2
  <2> QED
    BY <2>1, <2>2, <2>3 DEF Closed
<1> QED
  BY <1>3, TraceMake

LEMMA StartTrace == BaseInv /\ TraceInv /\ AppStart => TraceInv'
<1> SUFFICES ASSUME BaseInv, TraceInv, AppStart, ~torn'
             PROVE  /\ Pending' <= Wanted'
                    /\ sending' # None /\ NoLoss => Pending' = 1
                    /\ \A r \in Runs : (r # run' \/ ~running') => Count(conn'[r].tx, Result) = 0
  BY TraceMake DEF AppStart
<1>1. /\ ~torn /\ ~running /\ running' /\ ~woken' /\ sending' = None /\ rx' = <<>> /\ run' = run + 1
      /\ UNCHANGED <<down, up, open>>
      /\ conn' = [conn EXCEPT ![run + 1] = [tx |-> <<Note("name"), Note("start")>>, handler |-> "connected"]]
  BY DEF AppStart, mote
<1>2. sending = None /\ ~woken /\ rx = <<>>
  BY <1>1 DEF BaseInv
<1>3. Pending <= 0 /\ \A r \in Runs : Count(conn[r].tx, Result) = 0
  BY <1>1, <1>2, TraceUse DEF Wanted, Closed
<1>4. run + 1 \in Runs
  BY RunTyped, ScenarioFacts DEF AppStart, Runs, BaseInv
<1>5. /\ conn'[run + 1].tx = <<Note("name"), Note("start")>>
      /\ \A r \in Runs : r # run + 1 => conn'[r] = conn[r]
  BY <1>1, <1>4, RunTyped
<1>6. Count(conn'[run + 1].tx, Result) = 0
  <2>1. /\ Note("name") \in Lines /\ Note("start") \in Lines
        /\ Note("name").kind \notin Result /\ Note("start").kind \notin Result
    BY NoteFacts
  <2> DEFINE s == <<Note("name"), Note("start")>>
  <2>2. s \in Seq(Lines) /\ Len(s) = 2 /\ s[1] = Note("name") /\ s[2] = Note("start")
    BY <2>1
  <2>3. \A i \in 1..Len(s) : i = 1 \/ i = 2
    BY <2>2
  <2> HIDE DEF s
  <2>4. \A i \in 1..Len(s) : s[i].kind \notin Result
    BY <2>1, <2>2, <2>3
  <2>5. Count(s, Result) = 0
    BY <2>2, <2>4, CountNat
  <2> QED
    BY <1>5, <2>5 DEF s
<1>7. TxLines' = 0 /\ Woken' = 0 /\ TxLines = 0 /\ Woken = 0
  BY <1>1, <1>2, <1>6, TxPrimed DEF TxLines, Woken
<1>8. Pending' = Pending
  BY <1>1, <1>2, <1>7, PendingParts, PendingPrimed
<1> QED
  BY <1>1, <1>3, <1>5, <1>8, PendingParts DEF Wanted

(* The application ends between two results. *)
LEMMA EndTrace ==
    ASSUME BaseInv, TraceInv, EndRun, UNCHANGED <<scenario, down, up, open>>,
           \A r \in Runs : Count(conn'[r].tx, Result) \in {0, Count(conn[r].tx, Result)}
    PROVE  TraceInv'
<1> SUFFICES ASSUME ~torn'
             PROVE  /\ Pending' <= Wanted'
                    /\ sending' # None /\ NoLoss => Pending' = 1
                    /\ \A r \in Runs : (r # run' \/ ~running') => Count(conn'[r].tx, Result) = 0
  BY TraceMake
<1>1. /\ ~torn /\ sending = None /\ sending' = None /\ ~running' /\ ~woken' /\ rx' = <<>>
  BY DEF EndRun
<1>2. Pending <= 0 /\ \A r \in Runs : Closed(r) => Count(conn[r].tx, Result) = 0
  BY <1>1, TraceUse DEF Wanted
<1>3. /\ TxLines = 0 /\ Count(down, Result) = 0 /\ Cardinality(open) = 0
      /\ Count(up, {"ack"}) = 0
  BY <1>2, NothingPending
<1>4. TxLines' = 0 /\ Woken' = 0 /\ Count(rx', {"ack"}) = 0
  BY <1>1, TxPrimed, CountEmpty DEF Woken
<1>5. Pending' = 0
  BY <1>3, <1>4, PendingPrimed
<1>6. \A r \in Runs : Count(conn[r].tx, Result) = 0
  BY <1>2, <1>3 DEF Closed, TxLines
<1> QED
  BY <1>1, <1>5, <1>6 DEF Wanted

LEMMA StopTrace == BaseInv /\ TraceInv /\ (AppStop \/ AppCrash) => TraceInv'
<1> SUFFICES ASSUME BaseInv, TraceInv, AppStop \/ AppCrash PROVE TraceInv'
  OBVIOUS
<1>1. EndRun /\ UNCHANGED <<scenario, down, up, open>>
  BY DEF AppStop, AppCrash, mote
<1>2. CASE AppCrash
  <2>1. conn' = conn
    BY <1>2 DEF AppCrash
  <2> QED
    BY <1>1, <2>1, EndTrace
<1>3. CASE AppStop
  <2>1. running /\ run # 0 /\ Writes(<<Note("stop")>>) /\ TypeOK
    BY <1>3 DEF AppStop, BaseInv
  <2>2. Note("stop") \in Lines /\ Note("stop").kind \notin Result
    BY NoteFacts
  <2>3. /\ run \in Runs /\ conn[run].tx \in Seq(Lines)
        /\ \A r \in Runs : r # run => conn'[r] = conn[r]
        /\ conn'[run].tx = Append(conn[run].tx, Note("stop"))
    BY <2>1, <2>2, WritesTyped
  <2>4. Count(conn'[run].tx, Result) = Count(conn[run].tx, Result)
    BY <2>2, <2>3, CountAppend
  <2>5. \A r \in Runs : Count(conn'[r].tx, Result) = Count(conn[r].tx, Result)
    BY <2>3, <2>4
  <2> QED
    BY <1>1, <2>5, EndTrace
<1> QED
  BY <1>2, <1>3

LEMMA BridgeEndTrace == BaseInv /\ TraceInv /\ BridgeEnd => TraceInv'
<1> SUFFICES ASSUME BaseInv, TraceInv, BridgeEnd PROVE TraceInv'
  OBVIOUS
<1>1. EndRun /\ UNCHANGED <<scenario, down, up, open>>
  BY DEF BridgeEnd, mote
<1>2. conn' = [r \in Runs |-> [tx |-> <<>>, handler |-> IF conn[r].handler = "none" THEN "none" ELSE "ended"]]
  BY DEF BridgeEnd
<1>3. \A r \in Runs : Count(conn'[r].tx, Result) = 0
  BY <1>2, CountEmpty
<1> QED
  BY <1>1, <1>3, EndTrace

LEMMA ReadsTrace == BaseInv /\ TraceInv /\ AppReads => TraceInv'
<1> SUFFICES ASSUME BaseInv, TraceInv, AppReads PROVE TraceInv'
  OBVIOUS
<1>1. /\ UNCHANGED <<scenario, run, running, sending, conn, torn, down, up, open>>
      /\ rx # <<>> /\ rx' = Tail(rx)
      /\ woken' = (woken \/ (Head(rx).kind = "ack" /\ sending # None))
  BY DEF AppReads, mote
<1>2. TxLines' = TxLines
  BY <1>1 DEF TxLines, Count
<1>3. rx \in Seq(Reports) /\ Tail(rx) \in Seq(Reports)
  BY <1>1, TailFacts DEF BaseInv, TypeOK
<1>4. Count(rx, {"ack"}) = IF Head(rx).kind \in {"ack"} THEN Count(rx', {"ack"}) + 1 ELSE Count(rx', {"ack"})
  BY <1>1, <1>3, CountTail
<1>5. Count(rx', {"ack"}) \in Nat
  BY <1>1, <1>3, CountNat
<1>6. Woken' \in Nat /\ Pending' \in Nat
  <2>1. Woken' \in Nat
    BY DEF Woken
  <2>2. TxLines' \in Nat /\ Count(down', Result) \in Nat /\ Cardinality(open') \in Nat /\ Count(up', {"ack"}) \in Nat
    BY <1>1, <1>2, PendingParts
  <2> QED
    BY <1>5, <2>1, <2>2, PendingPrimed, SumTyped
<1>7. ASSUME ~torn PROVE Pending' = Pending
  <2>1. Pending <= Wanted
    BY <1>7, TraceUse
  <2>2. CASE Head(rx).kind = "ack"
    <3>1. Pending >= 1 + Woken
      BY <1>4, <1>5, <2>2, PendingParts
    <3>2. Pending \in Nat /\ Woken \in {0, 1}
      BY PendingParts DEF Woken
    <3>3. Wanted = 1 /\ Woken = 0
      BY <2>1, <3>1, <3>2 DEF Wanted
    <3>4. sending # None /\ ~woken
      BY <3>3 DEF Wanted, Woken
    <3>5. Woken' = 1
      BY <1>1, <2>2, <3>4 DEF Woken
    <3> QED
      BY <1>1, <1>2, <1>4, <1>5, <2>2, <3>3, <3>5, PendingParts, PendingPrimed
  <2>3. CASE Head(rx).kind # "ack"
    <3>1. Woken' = Woken
      BY <1>1, <2>3 DEF Woken
    <3> QED
      BY <1>1, <1>2, <1>4, <1>5, <2>3, <3>1, PendingParts, PendingPrimed
  <2> QED
    BY <2>2, <2>3
<1> QED
  BY <1>1, <1>6, <1>7, TraceKept, PendingParts

(* A line is written when nothing is on its way. *)
LEMMA SendingTrace ==
    ASSUME BaseInv, TraceInv, running, running' = running, UNCHANGED <<scenario, run, rx, down, up, open, torn>>,
           NEW l, Valid(l), sending' = l, Writes(<<l>>), ~woken',
           ~torn => Pending = Woken
    PROVE  TraceInv'
<1> SUFFICES ASSUME ~torn'
             PROVE  /\ Pending' <= Wanted'
                    /\ sending' # None /\ NoLoss => Pending' = 1
                    /\ \A r \in Runs : (r # run' \/ ~running') => Count(conn'[r].tx, Result) = 0
  BY TraceMake
<1>1. l \in Lines /\ l # None /\ l.kind \in Result
  BY ValidFacts DEF BaseInv
<1>2. /\ run \in Runs /\ conn[run].tx \in Seq(Lines)
      /\ \A r \in Runs : r # run => conn'[r] = conn[r]
      /\ conn'[run].tx = Append(conn[run].tx, l)
  BY <1>1, WritesTyped DEF BaseInv
<1>3. Count(conn'[run].tx, Result) = Count(conn[run].tx, Result) + 1
  BY <1>1, <1>2, CountAppend
<1>4. TxLines' = TxLines + 1
  BY <1>3, TxPrimed DEF TxLines
<1>5. Woken' = 0
  BY DEF Woken
<1>6. Pending' = 1
  BY <1>4, <1>5, PendingParts, PendingPrimed
<1>7. Wanted' = 1
  BY <1>1 DEF Wanted
<1>8. \A r \in Runs : Closed(r) => Count(conn[r].tx, Result) = 0
  BY TraceUse
<1> QED
  BY <1>2, <1>6, <1>7, <1>8 DEF Closed

LEMMA DoneTrace == ASSUME BaseInv, TraceInv, NEW k, TaskDone(k) PROVE TraceInv'
<1>1. /\ running /\ running' = running /\ k \in DOMAIN jobs
      /\ UNCHANGED <<scenario, run, rx, down, up, open, torn, woken>>
      /\ jobs \in Seq(Asked)
  BY DEF TaskDone, mote, BaseInv
<1>2. CASE sending = None
  <2>1. sending' = Line(jobs[k], 0, 1) /\ Writes(<<Line(jobs[k], 0, 1)>>)
    BY <1>2 DEF TaskDone, Begin
  <2>2. Valid(Line(jobs[k], 0, 1))
    BY <1>1, FirstLine DEF BaseInv
  <2>3. ~woken /\ ~woken'
    BY <1>1, <1>2 DEF BaseInv
  <2>4. ~torn => Pending = 0
    BY <1>2, TraceUse, NothingPending DEF Wanted
  <2>5. Woken = 0
    BY <2>3 DEF Woken
  <2> QED
    BY <1>1, <2>1, <2>2, <2>3, <2>4, <2>5, SendingTrace
<1>3. CASE sending # None
  <2>1. sending' = sending /\ conn' = conn
    BY <1>3 DEF TaskDone
  <2>2. TxLines' = TxLines /\ Woken' = Woken
    BY <1>1, <2>1 DEF TxLines, Woken, Count
  <2>3. Pending \in Nat
    BY PendingParts, SumTyped
  <2>4. UNCHANGED <<down, open, up, rx>>
    BY <1>1 DEF mote
  <2>5. Pending' = TxLines + Count(down, Result) + Cardinality(open) + Count(up, {"ack"}) + Count(rx, {"ack"}) + Woken
    BY <2>2, <2>4, PendingPrimed
  <2>6. Pending' = Pending
    BY <2>5, PendingParts
  <2> QED
    BY <1>1, <2>1, <2>3, <2>6, TraceKept
<1> QED
  BY <1>2, <1>3

LEMMA SendNextTrace == BaseInv /\ TraceInv /\ SendNext => TraceInv'
<1> SUFFICES ASSUME BaseInv, TraceInv, SendNext PROVE TraceInv'
  OBVIOUS
<1>1. /\ running /\ woken /\ ~woken' /\ running' = running
      /\ UNCHANGED <<scenario, run, rx, down, up, open, torn>>
  BY SendNextCases DEF mote
<1>2. Woken = 1 /\ Woken' = 0
  BY <1>1 DEF Woken
<1>3. ~torn => Pending = Woken
  BY <1>2, TraceUse, PendingParts DEF Wanted
<1>4. CASE Valid(NextLine(sending)) /\ sending' = NextLine(sending) /\ Writes(<<NextLine(sending)>>)
  BY <1>1, <1>3, <1>4, SendingTrace
<1>5. CASE \E t \in Asked : sending' = Line(t, 0, 1) /\ Writes(<<Line(t, 0, 1)>>)
  <2>1. PICK t \in Asked : sending' = Line(t, 0, 1) /\ Writes(<<Line(t, 0, 1)>>)
    BY <1>5
  <2>2. Valid(Line(t, 0, 1))
    BY FirstLine DEF BaseInv
  <2> QED
    BY <1>1, <1>3, <2>1, <2>2, SendingTrace
<1>6. CASE sending' = None /\ conn' = conn
  <2> SUFFICES ASSUME ~torn'
               PROVE  /\ Pending' <= Wanted'
                      /\ sending' # None /\ NoLoss => Pending' = 1
                      /\ \A r \in Runs : (r # run' \/ ~running') => Count(conn'[r].tx, Result) = 0
    BY <1>1, TraceMake
  <2>1. TxLines' = TxLines
    BY <1>1, <1>6 DEF TxLines, Count
  <2>2. Pending' = 0
    BY <1>1, <1>2, <1>3, <2>1, PendingParts, PendingPrimed
  <2>3. \A r \in Runs : Closed(r) => Count(conn[r].tx, Result) = 0
    BY <1>1, TraceUse
  <2> QED
    BY <1>1, <1>6, <2>2, <2>3 DEF Closed, Wanted
<1> QED
  BY <1>4, <1>5, <1>6, SendNextCases

(* Of two things that may be pending only one is. *)
LEMMA OnePending ==
    ASSUME BaseInv, TraceInv, ~torn
    PROVE  /\ TxLines > 0 => Count(down, Result) = 0 /\ open = {} /\ Count(up, {"ack"}) = 0 /\ Count(rx, {"ack"}) = 0
                             /\ Woken = 0
           /\ Count(down, Result) > 0 => TxLines = 0 /\ open = {} /\ Count(up, {"ack"}) = 0 /\ Count(rx, {"ack"}) = 0
                                         /\ Woken = 0 /\ Count(down, Result) = 1
           /\ open # {} => TxLines = 0 /\ Count(down, Result) = 0 /\ Count(up, {"ack"}) = 0 /\ Count(rx, {"ack"}) = 0
                           /\ Woken = 0 /\ Cardinality(open) = 1
           /\ Count(up, {"ack"}) > 0 => TxLines = 0 /\ Count(down, Result) = 0 /\ open = {} /\ Count(rx, {"ack"}) = 0
                                        /\ Woken = 0 /\ Count(up, {"ack"}) = 1
           /\ Count(rx, {"ack"}) > 0 => TxLines = 0 /\ Count(down, Result) = 0 /\ open = {} /\ Count(up, {"ack"}) = 0
                                        /\ Woken = 0 /\ Count(rx, {"ack"}) = 1
           /\ woken => TxLines = 0 /\ Count(down, Result) = 0 /\ open = {} /\ Count(up, {"ack"}) = 0
                       /\ Count(rx, {"ack"}) = 0
           /\ sending = None => TxLines = 0 /\ Count(down, Result) = 0 /\ open = {} /\ Count(up, {"ack"}) = 0
                                /\ Count(rx, {"ack"}) = 0 /\ ~woken
<1> DEFINE a == TxLines
           b == Count(down, Result)
           c == Cardinality(open)
           d == Count(up, {"ack"})
           e == Count(rx, {"ack"})
<1>1. /\ Pending = a + b + c + d + e + Woken
      /\ a \in Nat /\ b \in Nat /\ c \in Nat /\ d \in Nat /\ e \in Nat
      /\ c = 0 <=> open = {}
  BY PendingParts
<1>2. Pending <= Wanted /\ Wanted \in {0, 1} /\ Woken \in {0, 1} /\ (woken <=> Woken = 1) /\ (sending = None => Wanted = 0)
  BY TraceUse DEF Wanted, Woken
<1> HIDE DEF a, b, c, d, e
<1>3. a + b + c + d + e + Woken <= 1 /\ (sending = None => a + b + c + d + e + Woken <= 0)
  BY <1>1, <1>2
<1>4. /\ a > 0 => b = 0 /\ c = 0 /\ d = 0 /\ e = 0 /\ Woken = 0
      /\ b > 0 => a = 0 /\ c = 0 /\ d = 0 /\ e = 0 /\ Woken = 0 /\ b = 1
      /\ c > 0 => a = 0 /\ b = 0 /\ d = 0 /\ e = 0 /\ Woken = 0 /\ c = 1
  BY <1>1, <1>2, <1>3
<1>5. /\ d > 0 => a = 0 /\ b = 0 /\ c = 0 /\ e = 0 /\ Woken = 0 /\ d = 1
      /\ e > 0 => a = 0 /\ b = 0 /\ c = 0 /\ d = 0 /\ Woken = 0 /\ e = 1
      /\ Woken = 1 => a = 0 /\ b = 0 /\ c = 0 /\ d = 0 /\ e = 0
  BY <1>1, <1>2, <1>3
<1>6. sending = None => a = 0 /\ b = 0 /\ c = 0 /\ d = 0 /\ e = 0 /\ Woken = 0
  BY <1>1, <1>2, <1>3
<1>7. c > 0 <=> open # {}
  BY <1>1
<1>8. /\ a > 0 => b = 0 /\ open = {} /\ d = 0 /\ e = 0 /\ Woken = 0
      /\ b > 0 => a = 0 /\ open = {} /\ d = 0 /\ e = 0 /\ Woken = 0 /\ b = 1
      /\ open # {} => a = 0 /\ b = 0 /\ d = 0 /\ e = 0 /\ Woken = 0 /\ c = 1
  BY <1>1, <1>4, <1>7
<1>9. /\ d > 0 => a = 0 /\ b = 0 /\ open = {} /\ e = 0 /\ Woken = 0 /\ d = 1
      /\ e > 0 => a = 0 /\ b = 0 /\ open = {} /\ d = 0 /\ Woken = 0 /\ e = 1
      /\ woken => a = 0 /\ b = 0 /\ open = {} /\ d = 0 /\ e = 0
  BY <1>1, <1>2, <1>5
<1>10. sending = None => a = 0 /\ b = 0 /\ open = {} /\ d = 0 /\ e = 0 /\ ~woken
  BY <1>1, <1>2, <1>6
<1> QED
  BY <1>8, <1>9, <1>10, Zenon DEF a, b, c, d, e

(* A step that moves the trace from one place to the next. *)
LEMMA TraceMoved ==
    ASSUME BaseInv, TraceInv, UNCHANGED <<scenario, run, running, sending, conn, torn, woken>>,
           Count(down', Result) \in Nat, Cardinality(open') \in Nat, Count(up', {"ack"}) \in Nat,
           Count(rx', {"ack"}) \in Nat,
           ~torn => Count(down', Result) + Cardinality(open') + Count(up', {"ack"}) + Count(rx', {"ack"})
                    <= Count(down, Result) + Cardinality(open) + Count(up, {"ack"}) + Count(rx, {"ack"}),
           ~torn /\ NoLoss /\ sending # None =>
               Count(down', Result) + Cardinality(open') + Count(up', {"ack"}) + Count(rx', {"ack"})
               = Count(down, Result) + Cardinality(open) + Count(up, {"ack"}) + Count(rx, {"ack"})
    PROVE  TraceInv'
<1>1. TxLines' = TxLines /\ Woken' = Woken
  BY DEF TxLines, Woken, Count
<1> DEFINE t == TxLines
           b0 == Count(down, Result)
           c0 == Cardinality(open)
           d0 == Count(up, {"ack"})
           e0 == Count(rx, {"ack"})
           b == Count(down', Result)
           c == Cardinality(open')
           d == Count(up', {"ack"})
           e == Count(rx', {"ack"})
<1>2. /\ Pending = t + b0 + c0 + d0 + e0 + Woken
      /\ t \in Nat /\ b0 \in Nat /\ c0 \in Nat /\ d0 \in Nat /\ e0 \in Nat /\ Woken \in Nat
  BY PendingParts
<1>3. Pending' = t + b + c + d + e + Woken
  BY <1>1, PendingPrimed
<1>4. /\ ~torn => b + c + d + e <= b0 + c0 + d0 + e0
      /\ ~torn /\ NoLoss /\ sending # None => b + c + d + e = b0 + c0 + d0 + e0
      /\ b \in Nat /\ c \in Nat /\ d \in Nat /\ e \in Nat
  OBVIOUS
<1> HIDE DEF t, b0, c0, d0, e0, b, c, d, e
<1>5. Pending' \in Nat
  BY <1>2, <1>3, <1>4
<1>6. ~torn => Pending' <= Pending /\ (NoLoss /\ sending # None => Pending' = Pending)
  BY <1>2, <1>3, <1>4
<1> QED
  BY <1>5, <1>6, TraceKept

(* Steps with no line and no acknowledgement in them. *)
LEMMA TraceAside ==
    ASSUME BaseInv, TraceInv, UNCHANGED <<scenario, run, running, sending, conn, torn, woken, open>>,
           Count(down', Result) = Count(down, Result), Count(up', {"ack"}) = Count(up, {"ack"}),
           Count(rx', {"ack"}) = Count(rx, {"ack"})
    PROVE  TraceInv'
<1>1. /\ Count(down, Result) \in Nat /\ Cardinality(open) \in Nat /\ Count(up, {"ack"}) \in Nat
      /\ Count(rx, {"ack"}) \in Nat
  BY PendingParts
<1> QED
  BY <1>1, TraceMoved

LEMMA HandleConnTrace == ASSUME BaseInv, TraceInv, NEW r \in Runs, HandleConn(r) PROVE TraceInv'
<1>1. /\ UNCHANGED <<scenario, client, rx, up, mote, torn>>
      /\ \A q \in Runs : q # r => conn'[q] = conn[q]
      /\ conn[r].tx \in Seq(Lines) /\ down \in Seq(Lines)
  BY HandleConnCases
<1>2. /\ UNCHANGED <<scenario, run, running, sending, woken, rx, up, open, torn>>
      /\ Woken' = Woken
  BY <1>1 DEF client, mote, Woken
<1>3. Count(conn[r].tx, Result) \in Nat /\ Count(down, Result) \in Nat
  BY <1>1, CountNat
<1>4. \E n \in {0, 1} : /\ Count(conn[r].tx, Result) = Count(conn'[r].tx, Result) + n
                        /\ Count(down', Result) = Count(down, Result) + n
                        /\ Count(conn'[r].tx, Result) \in Nat
  <2>1. CASE conn'[r].tx = conn[r].tx /\ down' = down
    BY <1>3, <2>1
  <2>2. CASE conn[r].tx # <<>> /\ conn'[r].tx = Tail(conn[r].tx) /\ Head(conn[r].tx).kind = "name" /\ down' = down
    <3>1. Head(conn[r].tx).kind \notin Result
      BY <2>2 DEF Result
    <3>2. Count(conn[r].tx, Result) = Count(conn'[r].tx, Result)
      BY <1>1, <2>2, <3>1, CountTail
    <3> QED
      BY <1>3, <2>2, <3>2
  <2>3. CASE conn[r].tx # <<>> /\ conn'[r].tx = Tail(conn[r].tx) /\ down' = Append(down, Head(conn[r].tx))
    <3>1. Head(conn[r].tx) \in Lines /\ Tail(conn[r].tx) \in Seq(Lines)
      BY <1>1, <2>3, TailFacts
    <3>2. Count(conn[r].tx, Result) = IF Head(conn[r].tx).kind \in Result THEN Count(conn'[r].tx, Result) + 1
                                      ELSE Count(conn'[r].tx, Result)
      BY <1>1, <2>3, CountTail
    <3>3. Count(down', Result) = IF Head(conn[r].tx).kind \in Result THEN Count(down, Result) + 1
                                 ELSE Count(down, Result)
      BY <1>1, <2>3, <3>1, CountAppend
    <3>4. Count(conn'[r].tx, Result) \in Nat
      BY <2>3, <3>1, CountNat
    <3>5. CASE Head(conn[r].tx).kind \in Result
      BY <3>2, <3>3, <3>4, <3>5
    <3>6. CASE Head(conn[r].tx).kind \notin Result
      BY <1>3, <3>2, <3>3, <3>4, <3>6
    <3> QED
      BY <3>5, <3>6
  <2> QED
    BY <2>1, <2>2, <2>3, HandleConnCases
<1>5. PICK n \in {0, 1} : /\ Count(conn[r].tx, Result) = Count(conn'[r].tx, Result) + n
                          /\ Count(down', Result) = Count(down, Result) + n
                          /\ Count(conn'[r].tx, Result) \in Nat
  BY <1>4
<1> SUFFICES ASSUME ~torn'
             PROVE  /\ Pending' <= Wanted'
                    /\ sending' # None /\ NoLoss => Pending' = 1
                    /\ \A q \in Runs : (q # run' \/ ~running') => Count(conn'[q].tx, Result) = 0
  BY <1>2, TraceMake
<1>6. /\ Pending <= Wanted
      /\ sending # None /\ NoLoss => Pending = 1
      /\ \A q \in Runs : Closed(q) => Count(conn[q].tx, Result) = 0
  BY <1>2, TraceUse
<1>7. \A q \in Runs : (q # run' \/ ~running') => Count(conn'[q].tx, Result) = 0
  <2>1. ASSUME Closed(r) PROVE Count(conn'[r].tx, Result) = 0
    <3>1. Count(conn'[r].tx, Result) + n = 0
      BY <1>5, <1>6, <2>1
    <3> QED
      BY <1>5, <3>1
  <2> QED
    BY <1>1, <1>2, <1>6, <2>1 DEF Closed
<1>8. TxLines' + Count(down', Result) = TxLines + Count(down, Result) /\ TxLines' \in Nat /\ Count(down', Result) \in Nat
  <2>1. CASE Closed(r)
    <3>1. n = 0
      BY <1>5, <1>6, <2>1
    <3>2. TxLines' = TxLines
      BY <1>1, <1>2, <2>1, RunTyped, TxPrimed DEF Closed, TxLines
    <3> QED
      BY <1>3, <1>5, <3>1, <3>2, PendingParts
  <2>2. CASE ~Closed(r)
    <3>1. TxLines' = Count(conn'[r].tx, Result) /\ TxLines = Count(conn[r].tx, Result)
      BY <1>2, <2>2, TxPrimed DEF Closed, TxLines
    <3> QED
      BY <1>3, <1>5, <3>1
  <2> QED
    BY <2>1, <2>2
<1>9. Pending' = Pending
  <2> DEFINE t1 == TxLines'
             b1 == Count(down', Result)
             t == TxLines
             b == Count(down, Result)
             c == Cardinality(open)
             d == Count(up, {"ack"})
             e == Count(rx, {"ack"})
  <2>1. Pending = t + b + c + d + e + Woken /\ Pending' = t1 + b1 + c + d + e + Woken
    BY <1>2, PendingParts, PendingPrimed
  <2>2. /\ t \in Nat /\ b \in Nat /\ c \in Nat /\ d \in Nat /\ e \in Nat /\ Woken \in Nat /\ t1 \in Nat /\ b1 \in Nat
        /\ t1 + b1 = t + b
    BY <1>8, PendingParts
  <2> HIDE DEF t, b, c, d, e, t1, b1
  <2> QED
    BY <2>1, <2>2
<1>10. Wanted' = Wanted
  BY <1>2 DEF Wanted
<1> QED
  BY <1>2, <1>6, <1>7, <1>9, <1>10

LEMMA RunSerialTrace == BaseInv /\ ConnInv /\ TraceInv /\ RunSerial => TraceInv'
<1> SUFFICES ASSUME BaseInv, ConnInv, TraceInv, RunSerial PROVE TraceInv'
  OBVIOUS
<1>1. /\ UNCHANGED <<scenario, run, running, sending, woken, conn, down, open, torn>>
      /\ up # <<>> /\ up' = Tail(up)
      /\ rx' = IF Head(up).kind \in {"ack", "cancel", "task"} /\ running /\ application = run
               THEN Append(rx, Head(up)) ELSE rx
  BY DEF RunSerial, client, mote
<1>2. up \in Seq(Reports) /\ rx \in Seq(Reports) /\ Head(up) \in Reports /\ Tail(up) \in Seq(Reports)
  BY <1>1, TailFacts DEF BaseInv, TypeOK
<1>3. /\ Count(up, {"ack"}) = IF Head(up).kind \in {"ack"} THEN Count(up', {"ack"}) + 1 ELSE Count(up', {"ack"})
      /\ Count(up', {"ack"}) \in Nat
  BY <1>1, <1>2, CountTail, CountNat
<1>4. rx' = Append(rx, Head(up)) =>
          Count(rx', {"ack"}) = IF Head(up).kind \in {"ack"} THEN Count(rx, {"ack"}) + 1 ELSE Count(rx, {"ack"})
  BY <1>2, CountAppend
<1>5. /\ Count(down, Result) \in Nat /\ Cardinality(open) \in Nat /\ Count(rx, {"ack"}) \in Nat
  BY PendingParts
<1>6. CASE Head(up).kind # "ack"
  <2>1. Count(up', {"ack"}) = Count(up, {"ack"}) /\ Count(rx', {"ack"}) = Count(rx, {"ack"})
    BY <1>1, <1>3, <1>4, <1>6
  <2> QED
    BY <1>1, <2>1, TraceAside
<1>7. CASE Head(up).kind = "ack" /\ running /\ application = run
  <2>1. Count(rx', {"ack"}) = Count(rx, {"ack"}) + 1 /\ Count(up, {"ack"}) = Count(up', {"ack"}) + 1
    BY <1>1, <1>3, <1>4, <1>7
  <2>2. Count(down', Result) + Cardinality(open') + Count(up', {"ack"}) + Count(rx', {"ack"})
          = Count(down, Result) + Cardinality(open) + Count(up, {"ack"}) + Count(rx, {"ack"})
    <3> DEFINE b == Count(down, Result)
               c == Cardinality(open)
               d == Count(up', {"ack"})
               e == Count(rx, {"ack"})
    <3>1. b \in Nat /\ c \in Nat /\ d \in Nat /\ e \in Nat
      BY <1>3, <1>5
    <3>2. Count(down', Result) = b /\ Cardinality(open') = c /\ Count(up, {"ack"}) = d + 1 /\ Count(rx', {"ack"}) = e + 1
      BY <1>1, <2>1
    <3> HIDE DEF b, c, d, e
    <3>3. b + c + d + (e + 1) = b + c + (d + 1) + e
      BY <3>1
    <3> QED
      BY <3>2, <3>3 DEF b, c, d, e
  <2> QED
    BY <1>1, <1>3, <1>5, <2>1, <2>2, TraceMoved
<1>8. CASE Head(up).kind = "ack" /\ ~(running /\ application = run)
  <2>1. Count(rx', {"ack"}) = Count(rx, {"ack"}) /\ Count(up, {"ack"}) = Count(up', {"ack"}) + 1
    BY <1>1, <1>3, <1>8
  <2>2. ~(NoLoss /\ sending # None)
    <3> SUFFICES ASSUME NoLoss, sending # None PROVE FALSE
      OBVIOUS
    <3>1. running /\ "overlap" \notin scenario.faults
      BY DEF NoLoss, BaseInv
    <3>2. run \in Runs /\ conn[run].handler = "named"
      BY <3>1, RunTyped DEF ConnInv
    <3>3. application = run
      BY <3>1, <3>2 DEF ConnInv
    <3> QED
      BY <1>8, <3>1, <3>3
  <2> QED
    BY <1>1, <1>3, <1>5, <2>1, <2>2, TraceMoved
<1> QED
  BY <1>6, <1>7, <1>8
LEMMA ProcessTrace == BaseInv /\ TraceInv /\ process_serial_message => TraceInv'
<1> SUFFICES ASSUME BaseInv, TraceInv, process_serial_message PROVE TraceInv'
  OBVIOUS
<1> DEFINE l == Head(down)
<1>1. /\ down # <<>> /\ down' = Tail(down)
      /\ UNCHANGED <<scenario, run, running, sending, woken, rx, conn, torn>>
  BY ProcessCases DEF client
<1>2. /\ down \in Seq(Lines) /\ Tail(down) \in Seq(Lines) /\ l \in Lines
      /\ up \in Seq(Reports)
  BY <1>1, TailFacts DEF BaseInv, TypeOK
<1>3. /\ Count(down, Result) = IF l.kind \in Result THEN Count(down', Result) + 1 ELSE Count(down', Result)
      /\ Count(down', Result) \in Nat
  BY <1>1, <1>2, CountTail, CountNat
<1>4. \A k \in {"ack", "start_ack", "stop_ack"} :
         Count(Append(up, [kind |-> k, task |-> None]), {"ack"}) =
             IF k = "ack" THEN Count(up, {"ack"}) + 1 ELSE Count(up, {"ack"})
  <2>1. ASSUME NEW k \in {"ack", "start_ack", "stop_ack"}
        PROVE  Count(Append(up, [kind |-> k, task |-> None]), {"ack"}) =
                   IF k = "ack" THEN Count(up, {"ack"}) + 1 ELSE Count(up, {"ack"})
    <3>1. [kind |-> k, task |-> None] \in Reports /\ [kind |-> k, task |-> None].kind = k
      BY ReportFacts
    <3> QED
      BY <1>2, <3>1, CountAppend
  <2> QED
    BY <2>1
<1>5. /\ Cardinality(open) \in Nat /\ Count(up, {"ack"}) \in Nat /\ Count(rx, {"ack"}) \in Nat
  BY PendingParts
<1> HIDE DEF l
<1>6. CASE l.kind \in Result /\ HearsResult(l)
  <2>0. Count(down, Result) = Count(down', Result) + 1
    BY <1>3, <1>6
  <2>1. Acks \/ \E x : Answers(x)
    BY <1>6 DEF HearsResult
  <2>2. CASE Acks
    <3>1. Count(up', {"ack"}) = Count(up, {"ack"}) + 1 /\ open' = open
      BY <1>4, <2>2 DEF Acks
    <3>2. Count(down', Result) + Cardinality(open') + Count(up', {"ack"}) + Count(rx', {"ack"})
            = Count(down, Result) + Cardinality(open) + Count(up, {"ack"}) + Count(rx, {"ack"})
      <4> DEFINE b == Count(down', Result)
                 c == Cardinality(open)
                 d == Count(up, {"ack"})
                 e == Count(rx, {"ack"})
      <4>1. b \in Nat /\ c \in Nat /\ d \in Nat /\ e \in Nat
        BY <1>3, <1>5
      <4>2. Count(down, Result) = b + 1 /\ Cardinality(open') = c /\ Count(up', {"ack"}) = d + 1 /\ Count(rx', {"ack"}) = e
        BY <1>1, <2>0, <3>1
      <4> HIDE DEF b, c, d, e
      <4>3. b + c + (d + 1) + e = (b + 1) + c + d + e
        BY <4>1
      <4> QED
        BY <4>2, <4>3 DEF b, c, d, e
    <3> QED
      BY <1>1, <1>3, <1>5, <3>1, <3>2, TraceMoved
  <2>3. ASSUME NEW x, open' = open \cup {x}, up' = up PROVE TraceInv'
    <3>1. ~torn => open = {}
      <4>1. Count(down, Result) > 0
        BY <1>3, <2>0
      <4> QED
        BY <4>1, OnePending
    <3>2. ~torn => Cardinality(open) = 0 /\ Cardinality(open') = 1
      BY <2>3, <3>1, FS_EmptySet, FS_Singleton
    <3>3. Cardinality(open') \in Nat
      BY <2>3, FS_AddElement, FS_CardinalityType DEF BaseInv
    <3>4. ~torn => Count(down', Result) + Cardinality(open') + Count(up', {"ack"}) + Count(rx', {"ack"})
                    = Count(down, Result) + Cardinality(open) + Count(up, {"ack"}) + Count(rx, {"ack"})
      <4> DEFINE b == Count(down', Result)
                 d == Count(up, {"ack"})
                 e == Count(rx, {"ack"})
      <4>1. b \in Nat /\ d \in Nat /\ e \in Nat
        BY <1>3, <1>5
      <4>2. Count(down, Result) = b + 1 /\ Count(up', {"ack"}) = d /\ Count(rx', {"ack"}) = e
        BY <1>1, <2>0, <2>3
      <4> HIDE DEF b, d, e
      <4>3. b + 1 + d + e = (b + 1) + 0 + d + e
        BY <4>1
      <4> QED
        BY <3>2, <4>1, <4>2, <4>3 DEF b, d, e
    <3> QED
      BY <1>1, <1>3, <1>5, <2>3, <3>3, <3>4, TraceMoved
  <2> QED
    BY <2>1, <2>2, <2>3 DEF Answers
<1>7. CASE HearsSwitch(l)
  <2>1. l.kind \notin Result /\ up' = up /\ open' = open
    BY <1>7 DEF HearsSwitch, Result
  <2> QED
    BY <1>1, <1>3, <2>1, TraceAside
<1>8. CASE HearsBridge(l)
  <2>1. l.kind \notin Result /\ open' = open
    BY <1>8 DEF HearsBridge, Result
  <2>2. \E k \in {"start_ack", "stop_ack"} : up' = Append(up, [kind |-> k, task |-> None])
    BY <1>8 DEF HearsBridge
  <2>3. Count(up', {"ack"}) = Count(up, {"ack"})
    BY <1>4, <2>2
  <2> QED
    BY <1>1, <1>3, <2>1, <2>3, TraceAside
<1> QED
  BY <1>6, <1>7, <1>8, ProcessCases DEF l

LEMMA ExchangeTrace ==
    ASSUME BaseInv, TraceInv, NEW x \in open, NEW outcome \in Outcomes, ExchangeEnds(x, outcome)
    PROVE  TraceInv'
<1>1. /\ UNCHANGED <<scenario, run, running, sending, woken, rx, conn, down, torn>>
      /\ open' = open \ {x}
  BY ExchangeCases DEF client
<1>2. up \in Seq(Reports)
  BY DEF BaseInv, TypeOK
<1>3. /\ [kind |-> "cancel", task |-> None] \in Reports /\ [kind |-> "cancel", task |-> None].kind \notin {"ack"}
      /\ [kind |-> "ack", task |-> None] \in Reports /\ [kind |-> "ack", task |-> None].kind \in {"ack"}
  BY ReportFacts
<1>4. /\ Append(up, [kind |-> "cancel", task |-> None]) \in Seq(Reports)
      /\ Count(Append(up, [kind |-> "cancel", task |-> None]), {"ack"}) = Count(up, {"ack"})
      /\ Count(Append(up, [kind |-> "ack", task |-> None]), {"ack"}) = Count(up, {"ack"}) + 1
  BY <1>2, <1>3, CountAppend
<1>5. Count(Append(Append(up, [kind |-> "cancel", task |-> None]), [kind |-> "ack", task |-> None]), {"ack"})
        = Count(up, {"ack"}) + 1
  <2> DEFINE s == Append(up, [kind |-> "cancel", task |-> None])
             e == [kind |-> "ack", task |-> None]
  <2>1. s \in Seq(Reports) /\ e \in Reports /\ e.kind \in {"ack"} /\ Count(s, {"ack"}) = Count(up, {"ack"})
    BY <1>3, <1>4
  <2> HIDE DEF s, e
  <2>2. Count(Append(s, e), {"ack"}) = IF e.kind \in {"ack"} THEN Count(s, {"ack"}) + 1 ELSE Count(s, {"ack"})
    BY <2>1, CountAppend
  <2>3. Count(Append(s, e), {"ack"}) = Count(up, {"ack"}) + 1
    BY <2>1, <2>2
  <2> QED
    BY <2>3 DEF s, e
<1>6. Count(up', {"ack"}) = Count(up, {"ack"}) + 1
  <2>1. \/ up' = Append(up, [kind |-> "ack", task |-> None])
        \/ up' = Append(Append(up, [kind |-> "cancel", task |-> None]), [kind |-> "ack", task |-> None])
    BY ExchangeCases
  <2> QED
    BY <1>4, <1>5, <2>1, Zenon
<1>7. Cardinality(open') = Cardinality(open) - 1 /\ Cardinality(open') \in Nat
  BY <1>1, FS_RemoveElement, FS_CardinalityType DEF BaseInv
<1>8. /\ Count(down, Result) \in Nat /\ Cardinality(open) \in Nat /\ Count(up, {"ack"}) \in Nat
      /\ Count(rx, {"ack"}) \in Nat
  BY PendingParts
<1>9. Count(down', Result) + Cardinality(open') + Count(up', {"ack"}) + Count(rx', {"ack"})
        = Count(down, Result) + Cardinality(open) + Count(up, {"ack"}) + Count(rx, {"ack"})
  <2> DEFINE b == Count(down, Result)
             c == Cardinality(open)
             d == Count(up, {"ack"})
             e == Count(rx, {"ack"})
  <2>1. b \in Nat /\ c \in Nat /\ d \in Nat /\ e \in Nat
    BY <1>8
  <2>2. Count(down', Result) = b /\ Cardinality(open') = c - 1 /\ Count(up', {"ack"}) = d + 1 /\ Count(rx', {"ack"}) = e
    BY <1>1, <1>6, <1>7
  <2> HIDE DEF b, c, d, e
  <2>3. b + (c - 1) + (d + 1) + e = b + c + d + e
    BY <2>1
  <2> QED
    BY <2>2, <2>3 DEF b, c, d, e
<1>10. Count(up', {"ack"}) \in Nat
  BY <1>6, <1>8
<1> QED
  BY <1>1, <1>7, <1>8, <1>9, <1>10, TraceMoved

LEMMA LostTrace == BaseInv /\ TraceInv /\ LineLost => TraceInv'
<1> SUFFICES ASSUME BaseInv, TraceInv, LineLost PROVE TraceInv'
  OBVIOUS
<1>1. /\ UNCHANGED <<scenario, run, running, sending, woken, rx, conn, open, torn>>
      /\ ~NoLoss
  BY DEF LineLost, client, mote, NoLoss, Fault
<1>2. down \in Seq(Lines) /\ up \in Seq(Reports)
  BY DEF BaseInv, TypeOK
<1>3. /\ Count(down, Result) \in Nat /\ Cardinality(open) \in Nat /\ Count(up, {"ack"}) \in Nat
      /\ Count(rx, {"ack"}) \in Nat
  BY PendingParts
<1>4. CASE down # <<>> /\ down' = Tail(down) /\ up' = up
  <2>1. Count(down', Result) \in Nat /\ Count(down', Result) <= Count(down, Result)
    <3>1. Tail(down) \in Seq(Lines)
      BY <1>2, <1>4, TailFacts
    <3>2. Count(down', Result) \in Nat
      BY <1>4, <3>1, CountNat
    <3>3. Count(down, Result) = IF Head(down).kind \in Result THEN Count(down', Result) + 1 ELSE Count(down', Result)
      BY <1>2, <1>4, CountTail
    <3> QED
      BY <3>2, <3>3
  <2> QED
    BY <1>1, <1>3, <1>4, <2>1, TraceMoved
<1>5. CASE up # <<>> /\ up' = Tail(up) /\ down' = down
  <2>1. Count(up', {"ack"}) \in Nat /\ Count(up', {"ack"}) <= Count(up, {"ack"})
    <3>1. Tail(up) \in Seq(Reports)
      BY <1>2, <1>5, TailFacts
    <3>2. Count(up', {"ack"}) \in Nat
      BY <1>5, <3>1, CountNat
    <3>3. Count(up, {"ack"}) = IF Head(up).kind \in {"ack"} THEN Count(up', {"ack"}) + 1 ELSE Count(up', {"ack"})
      BY <1>2, <1>5, CountTail
    <3> QED
      BY <3>2, <3>3
  <2> QED
    BY <1>1, <1>3, <1>5, <2>1, TraceMoved
<1> QED
  BY <1>4, <1>5 DEF LineLost

LEMMA FailsTrace == ASSUME BaseInv, TraceInv, NEW k, TaskFails(k) PROVE TraceInv'
<1>1. /\ UNCHANGED <<scenario, run, running, sending, woken, rx, conn, open, torn, down, up>>
  BY DEF TaskFails, mote
<1>2. Count(down', Result) = Count(down, Result) /\ Count(up', {"ack"}) = Count(up, {"ack"})
  BY <1>1 DEF Count
<1> QED
  BY <1>1, <1>2, TraceAside

LEMMA AsideTrace ==
    ASSUME BaseInv, TraceInv,
           Informed \/ NotInformed \/ BridgeStop \/ LockExpires \/ (\E t \in Tasks : post_handler(t)) \/ UNCHANGED vars
    PROVE  TraceInv'
<1>1. UNCHANGED <<scenario, run, running, sending, woken, rx, conn, open, torn>>
  BY DEF Informed, NotInformed, BridgeStop, LockExpires, post_handler, client, mote, vars
<1>2. down \in Seq(Lines) /\ up \in Seq(Reports)
  BY DEF BaseInv, TypeOK
<1>3. Count(down', Result) = Count(down, Result)
  <2>1. down' = down \/ \E k \in {"edge_start", "edge_stop"} : down' = Append(down, Note(k))
    BY DEF Informed, NotInformed, BridgeStop, LockExpires, post_handler, vars
  <2>2. ASSUME NEW k \in {"edge_start", "edge_stop"}, down' = Append(down, Note(k))
        PROVE  Count(down', Result) = Count(down, Result)
    <3>1. Note(k) \in Lines /\ Note(k).kind \notin Result
      BY NoteFacts
    <3> QED
      BY <1>2, <2>2, <3>1, CountAppend
  <2>3. CASE down' = down
    BY <2>3
  <2> QED
    BY <2>1, <2>2, <2>3
<1>4. Count(up', {"ack"}) = Count(up, {"ack"})
  <2>1. up' = up \/ \E t \in Tasks : up' = Append(up, [kind |-> "task", task |-> t])
    BY DEF Informed, NotInformed, BridgeStop, LockExpires, post_handler, vars
  <2>2. ASSUME NEW t \in Tasks, up' = Append(up, [kind |-> "task", task |-> t])
        PROVE  Count(up', {"ack"}) = Count(up, {"ack"})
    <3>1. [kind |-> "task", task |-> t] \in Reports /\ [kind |-> "task", task |-> t].kind \notin {"ack"}
      BY DEF Reports
    <3> QED
      BY <1>2, <2>2, <3>1, CountAppend
  <2>3. CASE up' = up
    BY <2>3
  <2> QED
    BY <2>1, <2>2, <2>3
<1> QED
  BY <1>1, <1>3, <1>4, TraceAside

LEMMA NextTrace == BaseInv /\ ConnInv /\ TraceInv /\ [Next]_vars => TraceInv'
<1> SUFFICES ASSUME BaseInv, ConnInv, TraceInv, [Next]_vars PROVE TraceInv'
  OBVIOUS
<1>1. CASE Client
  BY <1>1, ReadsTrace, DoneTrace, FailsTrace, SendNextTrace DEF Client, Work
<1>2. CASE Bridge
  BY <1>2, HandleConnTrace, RunSerialTrace DEF Bridge
<1>3. CASE \E x \in open, outcome \in Outcomes : ExchangeEnds(x, outcome)
  BY <1>3, ExchangeTrace
<1> QED
  BY <1>1, <1>2, <1>3, StartTrace, StopTrace, BridgeEndTrace, ProcessTrace, LostTrace, AsideTrace DEF Next

LEMMA TraceInvariance == Spec => [](BaseInv /\ ConnInv /\ TraceInv)
<1>1. Init => BaseInv /\ ConnInv /\ TraceInv
  BY InitBase, InitConn, InitTrace
<1>2. BaseInv /\ ConnInv /\ TraceInv /\ [Next]_vars => (BaseInv /\ ConnInv /\ TraceInv)'
  BY NextBase, NextConn, NextTrace
<1> QED
  BY <1>1, <1>2, PTL DEF Spec

(* Of each line the client waits for there is one trace: the line, its exchange  *)
(* or its acknowledgement (_send_result and ack_serial_input), as long as no    *)
(* application has been stopped in the middle of a result.                    *)
THEOREM EachLineOneTrace == Spec => []OneTrace
<1>1. BaseInv /\ ConnInv /\ TraceInv => OneTrace
  BY DEF TraceInv
<1> QED
  BY <1>1, TraceInvariance, PTL
-----------------------------------------------------------------------------
(* BridgeInv is an invariant. *)

LEMMA HasAppend ==
    ASSUME NEW S, NEW s \in Seq(S), NEW e \in S, NEW k
    PROVE  Has(Append(s, e), k) <=> Has(s, k) \/ e.kind = k
<1>1. /\ Len(s) \in Nat
      /\ Len(Append(s, e)) = Len(s) + 1
      /\ Append(s, e)[Len(s) + 1] = e
      /\ \A i \in 1..Len(s) : Append(s, e)[i] = s[i]
      /\ \A i \in 1..(Len(s) + 1) : i \in 1..Len(s) \/ i = Len(s) + 1
  BY AppendFacts
<1>2. Len(s) + 1 \in 1..(Len(s) + 1) /\ \A i \in 1..Len(s) : i \in 1..(Len(s) + 1)
  BY <1>1
<1> QED
  BY <1>1, <1>2 DEF Has

LEMMA HasTail ==
    ASSUME NEW S, NEW s \in Seq(S), s # <<>>, NEW k
    PROVE  Has(s, k) <=> Has(Tail(s), k) \/ Head(s).kind = k
<1>1. /\ Len(s) \in Nat \ {0}
      /\ Len(Tail(s)) = Len(s) - 1
      /\ Head(s) = s[1] /\ 1 \in 1..Len(s)
      /\ \A i \in 1..Len(Tail(s)) : Tail(s)[i] = s[i + 1] /\ i + 1 \in 1..Len(s)
  BY TailFacts
<1>2. ASSUME NEW i \in 1..Len(s), s[i].kind = k PROVE Has(Tail(s), k) \/ Head(s).kind = k
  <2>1. CASE i = 1
    BY <1>1, <1>2, <2>1
  <2>2. CASE i # 1
    <3>1. i - 1 \in 1..Len(Tail(s)) /\ (i - 1) + 1 = i
      BY <1>1, <2>2
    <3>2. Tail(s)[i - 1] = s[i]
      BY <1>1, <3>1
    <3> QED
      BY <1>2, <3>1, <3>2 DEF Has
  <2> QED
    BY <2>1, <2>2
<1>3. ASSUME Has(Tail(s), k) PROVE Has(s, k)
  BY <1>1, <1>3 DEF Has
<1> QED
  BY <1>1, <1>2, <1>3 DEF Has

LEMMA HasNone == \A k : ~Has(<<>>, k)
  BY DEF Has

LEMMA InitBridge == Init => BridgeInv
<1> SUFFICES ASSUME Init PROVE BridgeInv
  OBVIOUS
<1>1. ~Has(down, "edge_stop")
  <2>1. down = <<Note("edge_start")>> /\ Note("edge_start").kind = "edge_start"
    BY NoteFacts DEF Init
  <2>2. \A i \in 1..Len(down) : down[i].kind = "edge_start"
    BY <2>1
  <2> QED
    BY <2>2 DEF Has
<1>2. bridge.state = "starting" /\ bridge.acked = {} /\ up = <<>> /\ \A r \in Runs : conn[r].tx = <<>>
  BY DEF Init
<1>3. /\ ~Has(up, "start_ack")
      /\ \A r \in Runs : ~Has(conn[r].tx, "edge_start") /\ ~Has(conn[r].tx, "edge_stop")
  BY <1>2, HasNone
<1> QED
  BY <1>1, <1>2, <1>3 DEF BridgeInv

(* Steps that leave the bridge and the sensor node's view of it alone. *)
LEMMA BridgeKept ==
    ASSUME BridgeInv, bridge' = bridge, started' = started,
           Has(down', "edge_start") => Has(down, "edge_start"),
           Has(down', "edge_stop") => Has(down, "edge_stop"),
           Has(up', "start_ack") => Has(up, "start_ack"),
           \A r \in Runs : ~Has(conn'[r].tx, "edge_start") /\ ~Has(conn'[r].tx, "edge_stop")
    PROVE  BridgeInv'
  BY DEF BridgeInv

LEMMA StopKinds == ASSUME NEW l, l.kind \in Result \cup {"name", "start", "stop"}
                   PROVE  l.kind # "edge_start" /\ l.kind # "edge_stop"
  BY DEF Result

(* What the client writes is not the bridge's. *)
LEMMA WritesBridge ==
    ASSUME BaseInv, BridgeInv, running, NEW l \in Lines, l.kind \in Result \cup {"name", "start", "stop"}, Writes(<<l>>)
    PROVE  \A r \in Runs : ~Has(conn'[r].tx, "edge_start") /\ ~Has(conn'[r].tx, "edge_stop")
<1>1. /\ run \in Runs /\ conn[run].tx \in Seq(Lines)
      /\ \A r \in Runs : r # run => conn'[r] = conn[r]
      /\ conn'[run].tx = Append(conn[run].tx, l)
  BY WritesTyped DEF BaseInv
<1>2. ~Has(conn'[run].tx, "edge_start") /\ ~Has(conn'[run].tx, "edge_stop")
  BY <1>1, HasAppend, StopKinds DEF BridgeInv
<1> QED
  BY <1>1, <1>2 DEF BridgeInv

(* Lines that wait, one after another: one taken from the front, one added at    *)
(* the back that is not the bridge's.                                         *)
LEMMA DownTail ==
    ASSUME BaseInv, down # <<>>, down' = Tail(down)
    PROVE  /\ Has(down', "edge_start") => Has(down, "edge_start")
           /\ Has(down', "edge_stop") => Has(down, "edge_stop")
<1>1. down \in Seq(Lines)
  BY DEF BaseInv, TypeOK
<1> QED
  BY <1>1, HasTail

LEMMA UpTail ==
    ASSUME BaseInv, up # <<>>, up' = Tail(up), NEW k
    PROVE  Has(up, k) <=> Has(up', k) \/ Head(up).kind = k
<1>1. up \in Seq(Reports)
  BY DEF BaseInv, TypeOK
<1> QED
  BY <1>1, HasTail

LEMMA UpAppend ==
    ASSUME BaseInv, NEW e \in Reports, up' = Append(up, e), NEW k
    PROVE  Has(up', k) <=> Has(up, k) \/ e.kind = k
<1>1. up \in Seq(Reports)
  BY DEF BaseInv, TypeOK
<1> QED
  BY <1>1, HasAppend

LEMMA UnchangedBridge ==
    ASSUME BridgeInv, UNCHANGED <<bridge, started, down, conn>>,
           Has(up', "start_ack") => Has(up, "start_ack")
    PROVE  BridgeInv'
<1>1. \A r \in Runs : ~Has(conn'[r].tx, "edge_start") /\ ~Has(conn'[r].tx, "edge_stop")
  BY DEF BridgeInv
<1> QED
  BY <1>1, BridgeKept

LEMMA ClientBridge ==
    ASSUME BaseInv, BridgeInv, AppStart \/ AppStop \/ AppCrash \/ Client
    PROVE  BridgeInv'
<1>1. CASE AppStart
  <2>1. UNCHANGED <<bridge, started, down, up>>
    BY <1>1 DEF AppStart, mote
  <2>2. run + 1 \in Runs
    <3>1. run \in Nat /\ run < scenario.runs /\ scenario.runs \in 0..MaxRuns /\ MaxRuns \in Nat
      BY <1>1, RunTyped, ScenarioFacts DEF AppStart, BaseInv
    <3> QED
      BY <3>1 DEF Runs
  <2>3. /\ \A r \in Runs : r # run + 1 => conn'[r] = conn[r]
        /\ conn'[run + 1].tx = <<Note("name"), Note("start")>>
    BY <1>1, <2>2, RunTyped DEF AppStart
  <2>4. ~Has(<<Note("name"), Note("start")>>, "edge_start") /\ ~Has(<<Note("name"), Note("start")>>, "edge_stop")
    <3>1. /\ Note("name") \in Lines /\ Note("name").kind = "name"
          /\ Note("start") \in Lines /\ Note("start").kind = "start"
      BY NoteFacts
    <3> DEFINE s == <<Note("name"), Note("start")>>
    <3>2. Len(s) = 2 /\ s[1] = Note("name") /\ s[2] = Note("start")
      OBVIOUS
    <3>3. \A i \in 1..2 : i = 1 \/ i = 2
      OBVIOUS
    <3> HIDE DEF s
    <3>4. \A i \in 1..Len(s) : s[i].kind \in {"name", "start"}
      BY <3>1, <3>2, <3>3
    <3>5. ~Has(s, "edge_start") /\ ~Has(s, "edge_stop")
      BY <3>4 DEF Has
    <3> QED
      BY <3>5 DEF s
  <2>5. \A r \in Runs : ~Has(conn'[r].tx, "edge_start") /\ ~Has(conn'[r].tx, "edge_stop")
    BY <2>3, <2>4 DEF BridgeInv
  <2> QED
    BY <2>1, <2>5, BridgeKept
<1>2. CASE AppStop
  <2>1. UNCHANGED <<bridge, started, down, up>> /\ running /\ Writes(<<Note("stop")>>)
    BY <1>2 DEF AppStop, mote
  <2>2. Note("stop") \in Lines /\ Note("stop").kind = "stop"
    BY NoteFacts
  <2>3. \A r \in Runs : ~Has(conn'[r].tx, "edge_start") /\ ~Has(conn'[r].tx, "edge_stop")
    BY <2>1, <2>2, WritesBridge
  <2> QED
    BY <2>1, <2>3, BridgeKept
<1>3. CASE AppCrash
  <2>1. UNCHANGED <<bridge, started, down, up, conn>>
    BY <1>3 DEF AppCrash, mote
  <2> QED
    BY <2>1, UnchangedBridge
<1>4. CASE AppReads
  <2>1. UNCHANGED <<bridge, started, down, up, conn>>
    BY <1>4 DEF AppReads, mote
  <2> QED
    BY <2>1, UnchangedBridge
<1>5. ASSUME NEW k, TaskDone(k) PROVE BridgeInv'
  <2>1. UNCHANGED <<bridge, started, down, up>> /\ running /\ k \in DOMAIN jobs
    BY <1>5 DEF TaskDone, mote
  <2>2. jobs[k] \in Asked
    BY <2>1 DEF BaseInv
  <2>3. /\ Line(jobs[k], 0, 1) \in Lines /\ Line(jobs[k], 0, 1).kind \in Result
    BY <2>2, FirstLine, ValidFacts DEF BaseInv
  <2>4. Writes(<<Line(jobs[k], 0, 1)>>) \/ conn' = conn
    BY <1>5 DEF TaskDone, Begin
  <2>5. CASE Writes(<<Line(jobs[k], 0, 1)>>)
    <3>1. \A r \in Runs : ~Has(conn'[r].tx, "edge_start") /\ ~Has(conn'[r].tx, "edge_stop")
      BY <2>1, <2>3, <2>5, WritesBridge
    <3> QED
      BY <2>1, <3>1, BridgeKept
  <2>6. CASE conn' = conn
    BY <2>1, <2>6, UnchangedBridge
  <2> QED
    BY <2>4, <2>5, <2>6
<1>7. ASSUME NEW k, TaskFails(k) PROVE BridgeInv'
  <2>1. UNCHANGED <<bridge, started, down, up, conn>>
    BY <1>7 DEF TaskFails, mote
  <2> QED
    BY <2>1, UnchangedBridge
<1>6. CASE SendNext
  <2>1. UNCHANGED <<bridge, started, down, up>> /\ running
    BY <1>6 DEF SendNext, mote
  <2>2. ASSUME NEW l, Valid(l), Writes(<<l>>) PROVE BridgeInv'
    <3>1. l \in Lines /\ l.kind \in Result
      BY <2>2, ValidFacts DEF BaseInv
    <3>2. \A r \in Runs : ~Has(conn'[r].tx, "edge_start") /\ ~Has(conn'[r].tx, "edge_stop")
      BY <2>1, <2>2, <3>1, WritesBridge
    <3> QED
      BY <2>1, <3>2, BridgeKept
  <2>3. CASE conn' = conn
    BY <2>1, <2>3, UnchangedBridge
  <2>4. (\E l : Valid(l) /\ Writes(<<l>>)) \/ conn' = conn
    <3>1. scenario \in Scenarios
      BY DEF BaseInv
    <3> QED
      BY <1>6, <3>1, SendNextCases, FirstLine
  <2> QED
    BY <2>2, <2>3, <2>4
<1> QED
  BY <1>1, <1>2, <1>3, <1>4, <1>5, <1>6, <1>7 DEF Client, Work

LEMMA ConnBridge ==
    ASSUME BaseInv, BridgeInv, NEW r \in Runs, HandleConn(r)
    PROVE  BridgeInv'
<1>1. /\ UNCHANGED <<bridge, started, up>>
      /\ \A q \in Runs : q # r => conn'[q] = conn[q]
      /\ conn[r].tx \in Seq(Lines) /\ down \in Seq(Lines)
  BY HandleConnCases DEF mote
<1>2. /\ ~Has(conn[r].tx, "edge_start") /\ ~Has(conn[r].tx, "edge_stop")
      /\ \A q \in Runs : ~Has(conn[q].tx, "edge_start") /\ ~Has(conn[q].tx, "edge_stop")
  BY DEF BridgeInv
<1>3. ASSUME ~Has(conn'[r].tx, "edge_start"), ~Has(conn'[r].tx, "edge_stop"), down' = down
      PROVE  BridgeInv'
  <2>1. \A q \in Runs : ~Has(conn'[q].tx, "edge_start") /\ ~Has(conn'[q].tx, "edge_stop")
    BY <1>1, <1>2, <1>3
  <2> QED
    BY <1>1, <1>3, <2>1, BridgeKept
<1>4. CASE conn[r].tx # <<>> /\ conn'[r].tx = Tail(conn[r].tx)
  <2>1. /\ ~Has(conn'[r].tx, "edge_start") /\ ~Has(conn'[r].tx, "edge_stop")
        /\ Head(conn[r].tx).kind # "edge_start" /\ Head(conn[r].tx).kind # "edge_stop"
    BY <1>1, <1>2, <1>4, HasTail
  <2>2. CASE down' = down
    BY <1>3, <2>1, <2>2
  <2>3. CASE down' = Append(down, Head(conn[r].tx))
    <3>1. Head(conn[r].tx) \in Lines
      BY <1>1, <1>4, TailFacts
    <3>2. /\ Has(down', "edge_start") => Has(down, "edge_start")
          /\ Has(down', "edge_stop") => Has(down, "edge_stop")
      BY <1>1, <2>1, <2>3, <3>1, HasAppend
    <3>3. \A q \in Runs : ~Has(conn'[q].tx, "edge_start") /\ ~Has(conn'[q].tx, "edge_stop")
      BY <1>1, <1>2, <2>1
    <3> QED
      BY <1>1, <3>2, <3>3, BridgeKept
  <2> QED
    BY <2>2, <2>3, HandleConnCases
<1>5. CASE conn'[r].tx = <<>> /\ down' = down
  BY <1>3, <1>5, HasNone
<1> QED
  BY <1>4, <1>5, HandleConnCases

LEMMA SerialBridge ==
    ASSUME BaseInv, BridgeInv, RunSerial
    PROVE  BridgeInv'
<1>1. UNCHANGED <<started, down, conn>> /\ up # <<>> /\ up' = Tail(up)
  BY DEF RunSerial, mote
<1>2. \A k : Has(up, k) <=> Has(up', k) \/ Head(up).kind = k
  BY <1>1, UpTail
<1>3. CASE bridge' = bridge
  BY <1>1, <1>2, <1>3, UnchangedBridge
<1>4. CASE bridge' = [bridge EXCEPT !.acked = @ \cup {Head(up).kind}]
  <2>1. bridge'.state = bridge.state /\ bridge'.acked = bridge.acked \cup {Head(up).kind}
    BY <1>4 DEF BaseInv, TypeOK
  <2>2. /\ "start_ack" \in bridge'.acked => "start_ack" \in bridge.acked \/ Has(up, "start_ack")
        /\ "start_ack" \in bridge.acked => "start_ack" \in bridge'.acked
    BY <1>2, <2>1
  <2>3. Has(up', "start_ack") => Has(up, "start_ack")
    BY <1>2
  <2>4. \A r \in Runs : ~Has(conn'[r].tx, "edge_start") /\ ~Has(conn'[r].tx, "edge_stop")
    BY <1>1 DEF BridgeInv
  <2>5. bridge.state \in {"starting", "up"} =>
          /\ ~Has(down', "edge_stop")
          /\ Has(up', "start_ack") \/ "start_ack" \in bridge'.acked => started'
    BY <1>1, <2>2, <2>3 DEF BridgeInv
  <2>6. bridge.state = "up" => "start_ack" \in bridge'.acked
    BY <2>2 DEF BridgeInv
  <2> QED
    BY <2>1, <2>4, <2>5, <2>6 DEF BridgeInv
<1> QED
  BY <1>3, <1>4 DEF RunSerial

(* The bridge starts and stops. *)
LEMMA TellsBridge ==
    ASSUME BaseInv, BridgeInv, Informed \/ NotInformed \/ BridgeStop \/ BridgeEnd
    PROVE  BridgeInv'
<1>0. /\ down \in Seq(Lines)
      /\ bridge \in [state : {"starting", "up", "stopping", "stopped", "failed"},
                     tries : 0..AckRetryThreshold, acked : SUBSET {"start_ack", "stop_ack"}]
      /\ \A r \in Runs : ~Has(conn[r].tx, "edge_start") /\ ~Has(conn[r].tx, "edge_stop")
  BY DEF BaseInv, TypeOK, BridgeInv
<1>00. /\ Note("edge_start") \in Lines /\ Note("edge_start").kind = "edge_start"
       /\ Note("edge_stop") \in Lines /\ Note("edge_stop").kind = "edge_stop"
  BY NoteFacts
<1>1. CASE Informed
  <2>1. /\ UNCHANGED <<down, up, conn, started>>
        /\ bridge.state = "starting" /\ "start_ack" \in bridge.acked
        /\ bridge' = [bridge EXCEPT !.state = "up"]
    BY <1>1 DEF Informed, mote
  <2>2. bridge'.state = "up" /\ bridge'.acked = bridge.acked
    BY <1>0, <2>1
  <2>3. \A r \in Runs : ~Has(conn'[r].tx, "edge_start") /\ ~Has(conn'[r].tx, "edge_stop")
    BY <1>0, <2>1
  <2> QED
    BY <2>1, <2>2, <2>3 DEF BridgeInv
<1>2. CASE NotInformed
  <2>1. /\ UNCHANGED <<up, conn, started>>
        /\ bridge.state = "starting"
        /\ bridge' = [bridge EXCEPT !.tries = @ + 1]
        /\ down' = down \/ down' = Append(down, Note("edge_start"))
    BY <1>2 DEF NotInformed, mote
  <2>2. bridge'.state = bridge.state /\ bridge'.acked = bridge.acked
    BY <1>0, <2>1
  <2>3. \A r \in Runs : ~Has(conn'[r].tx, "edge_start") /\ ~Has(conn'[r].tx, "edge_stop")
    BY <1>0, <2>1
  <2>4. Has(down', "edge_stop") => Has(down, "edge_stop")
    BY <1>0, <1>00, <2>1, HasAppend
  <2> QED
    BY <2>1, <2>2, <2>3, <2>4 DEF BridgeInv
<1>3. CASE BridgeStop
  <2>1. UNCHANGED conn /\ bridge' = [bridge EXCEPT !.state = "stopping"]
    BY <1>3 DEF BridgeStop
  <2>2. bridge'.state = "stopping"
    BY <1>0, <2>1
  <2> QED
    BY <1>0, <2>1, <2>2 DEF BridgeInv
<1>4. CASE BridgeEnd
  <2>1. /\ bridge' = [bridge EXCEPT !.state = IF @ = "stopping" THEN "stopped" ELSE "failed"]
        /\ \A r \in Runs : conn'[r].tx = <<>>
    BY <1>4 DEF BridgeEnd
  <2>2. bridge'.state \in {"stopped", "failed"}
    BY <1>0, <2>1
  <2>3. \A r \in Runs : ~Has(conn'[r].tx, "edge_start") /\ ~Has(conn'[r].tx, "edge_stop")
    BY <2>1, HasNone
  <2> QED
    BY <2>2, <2>3 DEF BridgeInv
<1> QED
  BY <1>1, <1>2, <1>3, <1>4

(* The sensor node hears a line. *)
LEMMA HearsBridgeInv ==
    ASSUME BaseInv, BridgeInv, process_serial_message
    PROVE  BridgeInv'
<1> DEFINE l == Head(down)
<1>1. /\ down # <<>> /\ down' = Tail(down) /\ UNCHANGED <<conn, bridge>>
      /\ down \in Seq(Lines)
  BY ProcessCases DEF BaseInv, TypeOK
<1>2. /\ Has(down', "edge_start") => Has(down, "edge_start")
      /\ Has(down', "edge_stop") => Has(down, "edge_stop")
  BY <1>1, DownTail
<1>3. \A r \in Runs : ~Has(conn'[r].tx, "edge_start") /\ ~Has(conn'[r].tx, "edge_stop")
  BY <1>1 DEF BridgeInv
<1>4. CASE HearsResult(l) /\ UNCHANGED started
  <2>1. up' = up \/ up' = Append(up, [kind |-> "ack", task |-> None])
    BY <1>4 DEF HearsResult, Answers, Acks
  <2>2. [kind |-> "ack", task |-> None] \in Reports
    BY ReportFacts
  <2>3. Has(up', "start_ack") => Has(up, "start_ack")
    BY <2>1, <2>2, UpAppend
  <2> QED
    BY <1>1, <1>2, <1>3, <1>4, <2>3, BridgeKept
<1>5. CASE HearsSwitch(l)
  <2>1. UNCHANGED <<started, up>>
    BY <1>5 DEF HearsSwitch
  <2> QED
    BY <1>1, <1>2, <1>3, <2>1, BridgeKept
<1>6. CASE HearsBridge(l) /\ l.kind = "edge_start"
  <2>1. started' = TRUE
    BY <1>6 DEF HearsBridge
  <2> QED
    BY <1>1, <1>2, <1>3, <2>1 DEF BridgeInv
<1>7. CASE HearsBridge(l) /\ l.kind = "edge_stop"
  <2>1. Has(down, "edge_stop")
    BY <1>1, <1>7, HasTail
  <2>2. bridge'.state \notin {"starting", "up"}
    BY <1>1, <2>1 DEF BridgeInv
  <2> QED
    BY <1>3, <2>2 DEF BridgeInv
<1>8. HearsBridge(l) => l.kind = "edge_start" \/ l.kind = "edge_stop"
  BY DEF HearsBridge
<1> QED
  BY <1>4, <1>5, <1>6, <1>7, <1>8, ProcessCases

LEMMA NextBridge == BaseInv /\ BridgeInv /\ [Next]_vars => BridgeInv'
<1> SUFFICES ASSUME BaseInv, BridgeInv, [Next]_vars PROVE BridgeInv'
  OBVIOUS
<1>1. CASE UNCHANGED vars
  <2>1. UNCHANGED <<bridge, started, down, up, conn>>
    BY <1>1 DEF vars, mote
  <2> QED
    BY <2>1, UnchangedBridge
<1>2. CASE Bridge
  BY <1>2, ConnBridge, SerialBridge DEF Bridge
<1>3. ASSUME NEW t \in Tasks, post_handler(t) PROVE BridgeInv'
  <2>1. UNCHANGED <<bridge, started, down, conn>> /\ up' = Append(up, [kind |-> "task", task |-> t])
    BY <1>3 DEF post_handler, mote
  <2>2. [kind |-> "task", task |-> t] \in Reports
    BY DEF Reports
  <2>3. Has(up', "start_ack") => Has(up, "start_ack")
    BY <2>1, <2>2, UpAppend
  <2> QED
    BY <2>1, <2>3, UnchangedBridge
<1>4. ASSUME NEW x \in open, NEW outcome \in Outcomes, ExchangeEnds(x, outcome) PROVE BridgeInv'
  <2> DEFINE c == [kind |-> "cancel", task |-> None]
             a == [kind |-> "ack", task |-> None]
  <2>1. /\ UNCHANGED <<bridge, started, down, conn>>
        /\ up' = Append(up, a) \/ up' = Append(Append(up, c), a)
    BY <1>4, ExchangeCases
  <2>2. a \in Reports /\ c \in Reports /\ a.kind = "ack" /\ c.kind = "cancel"
    BY ReportFacts
  <2>3. up \in Seq(Reports)
    BY DEF BaseInv, TypeOK
  <2> HIDE DEF a, c
  <2>4. Append(up, c) \in Seq(Reports)
    BY <2>2, <2>3
  <2>5. \A k : /\ Has(Append(up, a), k) <=> Has(up, k) \/ a.kind = k
               /\ Has(Append(up, c), k) <=> Has(up, k) \/ c.kind = k
               /\ Has(Append(Append(up, c), a), k) <=> Has(Append(up, c), k) \/ a.kind = k
    BY <2>2, <2>3, <2>4, HasAppend
  <2>6. Has(up', "start_ack") => Has(up, "start_ack")
    BY <2>1, <2>2, <2>5
  <2> QED
    BY <2>1, <2>6, UnchangedBridge
<1>5. CASE LockExpires
  <2>1. UNCHANGED <<bridge, started, down, up, conn>>
    BY <1>5 DEF LockExpires
  <2> QED
    BY <2>1, UnchangedBridge
<1>6. CASE LineLost
  <2>1. UNCHANGED <<bridge, started, conn>>
    BY <1>6 DEF LineLost, mote
  <2>2. \A r \in Runs : ~Has(conn'[r].tx, "edge_start") /\ ~Has(conn'[r].tx, "edge_stop")
    BY <2>1 DEF BridgeInv
  <2>3. CASE down # <<>> /\ down' = Tail(down) /\ UNCHANGED up
    BY <2>1, <2>2, <2>3, DownTail, BridgeKept
  <2>4. CASE up # <<>> /\ up' = Tail(up) /\ UNCHANGED down
    <3>1. Has(up', "start_ack") => Has(up, "start_ack")
      BY <2>4, UpTail
    <3> QED
      BY <2>1, <2>4, <3>1, UnchangedBridge
  <2> QED
    BY <1>6, <2>3, <2>4 DEF LineLost
<1> QED
  BY <1>1, <1>2, <1>3, <1>4, <1>5, <1>6, ClientBridge, TellsBridge, HearsBridgeInv DEF Next

-----------------------------------------------------------------------------
(* WordInv is an invariant. *)

LEMMA SilentAppend ==
    ASSUME NEW S, NEW s \in Seq(S), NEW e \in S
    PROVE  Silent(Append(s, e)) <=> Silent(s) /\ e.kind \notin Switch
<1>1. \A k : Has(Append(s, e), k) <=> Has(s, k) \/ e.kind = k
  BY HasAppend
<1>2. ASSUME NEW t PROVE Silent(t) <=> ~Has(t, "start") /\ ~Has(t, "stop")
  BY DEF Silent, Has, Switch
<1>3. e.kind \notin Switch <=> e.kind # "start" /\ e.kind # "stop"
  BY DEF Switch
<1> QED
  BY <1>1, <1>2, <1>3

LEMMA SilentTail ==
    ASSUME NEW S, NEW s \in Seq(S), s # <<>>
    PROVE  Silent(s) <=> Silent(Tail(s)) /\ Head(s).kind \notin Switch
<1>1. \A k : Has(s, k) <=> Has(Tail(s), k) \/ Head(s).kind = k
  BY HasTail
<1>2. ASSUME NEW t PROVE Silent(t) <=> ~Has(t, "start") /\ ~Has(t, "stop")
  BY DEF Silent, Has, Switch
<1>3. Head(s).kind \notin Switch <=> Head(s).kind # "start" /\ Head(s).kind # "stop"
  BY DEF Switch
<1> QED
  BY <1>1, <1>2, <1>3

LEMMA LastAppend ==
    ASSUME NEW S, NEW s \in Seq(S), NEW e \in S, NEW w \in Switch
    PROVE  LastIn(Append(s, e), w) <=> e.kind = w \/ (e.kind \notin Switch /\ LastIn(s, w))
<1>1. /\ Len(s) \in Nat
      /\ Len(Append(s, e)) = Len(s) + 1
      /\ Append(s, e)[Len(s) + 1] = e
      /\ \A i \in 1..Len(s) : Append(s, e)[i] = s[i]
      /\ \A i \in 1..(Len(s) + 1) : i \in 1..Len(s) \/ i = Len(s) + 1
  BY AppendFacts
<1> DEFINE a == Append(s, e)
<1>a. Len(a) = Len(s) + 1 /\ a[Len(s) + 1] = e /\ \A i \in 1..Len(s) : a[i] = s[i]
  BY <1>1
<1> HIDE DEF a
<1>2. ASSUME e.kind = w PROVE LastIn(a, w)
  <2>1. Len(s) + 1 \in 1..Len(a) /\ \A j \in ((Len(s) + 1) + 1)..Len(a) : FALSE
    BY <1>1, <1>a
  <2> QED
    BY <1>2, <1>a, <2>1 DEF LastIn
<1>3. ASSUME e.kind \notin Switch, LastIn(s, w) PROVE LastIn(a, w)
  <2>1. PICK i \in 1..Len(s) : s[i].kind = w /\ \A j \in (i + 1)..Len(s) : s[j].kind \notin Switch
    BY <1>3 DEF LastIn
  <2>2. i \in 1..Len(a) /\ a[i].kind = w
    BY <1>1, <1>a, <2>1
  <2>3. ASSUME NEW j \in (i + 1)..Len(a) PROVE a[j].kind \notin Switch
    <3>1. j \in (i + 1)..Len(s) \/ j = Len(s) + 1
      BY <1>1, <1>a
    <3>2. CASE j \in (i + 1)..Len(s)
      <4>1. j \in 1..Len(s)
        BY <1>1, <3>2
      <4> QED
        BY <1>a, <2>1, <3>2, <4>1
    <3> QED
      BY <1>3, <1>a, <3>1, <3>2
  <2> QED
    BY <2>2, <2>3 DEF LastIn
<1>4. ASSUME LastIn(a, w) PROVE e.kind = w \/ (e.kind \notin Switch /\ LastIn(s, w))
  <2>1. PICK i \in 1..Len(a) : a[i].kind = w /\ \A j \in (i + 1)..Len(a) : a[j].kind \notin Switch
    BY <1>4 DEF LastIn
  <2>2. CASE i = Len(s) + 1
    BY <1>a, <2>1, <2>2
  <2>3. CASE i \in 1..Len(s)
    <3>1. Len(s) + 1 \in (i + 1)..Len(a) /\ \A j \in (i + 1)..Len(s) : j \in (i + 1)..Len(a) /\ j \in 1..Len(s)
      BY <1>1, <1>a, <2>3
    <3>2. e.kind \notin Switch
      BY <1>a, <2>1, <3>1
    <3>3. s[i].kind = w /\ \A j \in (i + 1)..Len(s) : s[j].kind \notin Switch
      BY <1>a, <2>1, <2>3, <3>1
    <3> QED
      BY <2>3, <3>2, <3>3 DEF LastIn
  <2> QED
    BY <1>1, <1>a, <2>2, <2>3
<1> QED
  BY <1>2, <1>3, <1>4 DEF a

LEMMA LastTail ==
    ASSUME NEW S, NEW s \in Seq(S), s # <<>>, NEW w \in Switch
    PROVE  LastIn(s, w) <=> LastIn(Tail(s), w) \/ (Silent(Tail(s)) /\ Head(s).kind = w)
<1> DEFINE t == Tail(s)
<1>1. /\ Len(s) \in Nat \ {0}
      /\ Len(t) = Len(s) - 1
      /\ Head(s) = s[1] /\ 1 \in 1..Len(s)
      /\ \A i \in 1..Len(t) : t[i] = s[i + 1] /\ i + 1 \in 1..Len(s)
  BY TailFacts
<1> HIDE DEF t
<1>2. ASSUME LastIn(t, w) PROVE LastIn(s, w)
  <2>1. PICK i \in 1..Len(t) : t[i].kind = w /\ \A j \in (i + 1)..Len(t) : t[j].kind \notin Switch
    BY <1>2 DEF LastIn
  <2>2. i + 1 \in 1..Len(s) /\ s[i + 1].kind = w
    BY <1>1, <2>1
  <2>3. ASSUME NEW j \in ((i + 1) + 1)..Len(s) PROVE s[j].kind \notin Switch
    <3>1. j - 1 \in (i + 1)..Len(t) /\ j - 1 \in 1..Len(t) /\ (j - 1) + 1 = j
      BY <1>1
    <3> QED
      BY <1>1, <2>1, <3>1
  <2> QED
    BY <2>2, <2>3 DEF LastIn
<1>3. ASSUME Silent(t), Head(s).kind = w PROVE LastIn(s, w)
  <2>1. ASSUME NEW j \in (1 + 1)..Len(s) PROVE s[j].kind \notin Switch
    <3>1. j - 1 \in 1..Len(t) /\ (j - 1) + 1 = j
      BY <1>1
    <3> QED
      BY <1>1, <1>3, <3>1 DEF Silent
  <2> QED
    BY <1>1, <1>3, <2>1 DEF LastIn
<1>4. ASSUME LastIn(s, w) PROVE LastIn(t, w) \/ (Silent(t) /\ Head(s).kind = w)
  <2>1. PICK i \in 1..Len(s) : s[i].kind = w /\ \A j \in (i + 1)..Len(s) : s[j].kind \notin Switch
    BY <1>4 DEF LastIn
  <2>2. CASE i = 1
    <3>1. ASSUME NEW j \in 1..Len(t) PROVE t[j].kind \notin Switch
      <4>1. j + 1 \in (1 + 1)..Len(s)
        BY <1>1
      <4> QED
        BY <1>1, <2>1, <2>2, <4>1
    <3> QED
      BY <1>1, <2>1, <2>2, <3>1 DEF Silent
  <2>3. CASE i # 1
    <3>1. i - 1 \in 1..Len(t) /\ (i - 1) + 1 = i
      BY <1>1, <2>3
    <3>2. t[i - 1].kind = w
      BY <1>1, <2>1, <3>1
    <3>3. ASSUME NEW j \in ((i - 1) + 1)..Len(t) PROVE t[j].kind \notin Switch
      <4>1. j + 1 \in (i + 1)..Len(s) /\ j \in 1..Len(t)
        BY <1>1, <3>1
      <4> QED
        BY <1>1, <2>1, <4>1
    <3> QED
      BY <3>1, <3>2, <3>3 DEF LastIn
  <2> QED
    BY <2>2, <2>3
<1> QED
  BY <1>2, <1>3, <1>4 DEF t

LEMMA NothingSaid == Silent(<<>>) /\ \A w : ~LastIn(<<>>, w)
  BY DEF Silent, LastIn

LEMMA InitWord == Init => WordInv
<1> SUFFICES ASSUME Init PROVE WordInv
  OBVIOUS
<1>1. Unsent = <<>> /\ available = FALSE /\ running = FALSE
  BY DEF Init, Unsent
<1>2. down = <<Note("edge_start")>> /\ Note("edge_start").kind = "edge_start"
  BY NoteFacts DEF Init
<1>3. \A i \in 1..Len(down) : down[i].kind = "edge_start"
  BY <1>2
<1>4. Silent(down) /\ Silent(Unsent)
  BY <1>1, <1>3, NothingSaid DEF Silent, Switch
<1>5. LastWord("stop")
  BY <1>1, <1>4 DEF LastWord
<1> QED
  BY <1>1, <1>5 DEF WordInv

(* Steps that change only where the word is. *)
LEMMA WordKept ==
    ASSUME WordInv, UNCHANGED <<scenario, running, orphaned>>,
           bridge'.state \in {"starting", "up"} => bridge.state \in {"starting", "up"},
           NoLoss /\ bridge.state \in {"starting", "up"} =>
               /\ LastWord("start") => LastWord("start")'
               /\ LastWord("stop") => LastWord("stop")'
    PROVE  WordInv'
  BY DEF WordInv, NoLoss

LEMMA WordUnchanged ==
    ASSUME WordInv, UNCHANGED <<scenario, running, orphaned, bridge, run, conn, down, available>>
    PROVE  WordInv'
<1>1. Unsent' = Unsent
  BY DEF Unsent
<1>2. /\ LastWord("start") => LastWord("start")'
      /\ LastWord("stop") => LastWord("stop")'
  BY <1>1 DEF LastWord
<1> QED
  BY <1>2, WordKept

(* The client writes a line that says nothing of the application. *)
LEMMA WritesWord ==
    ASSUME BaseInv, WordInv, running, NEW l \in Lines, l.kind \in Result, Writes(<<l>>),
           UNCHANGED <<scenario, running, orphaned, bridge, run, down, available>>
    PROVE  WordInv'
<1>1. conn'[run].tx = Append(conn[run].tx, l) /\ conn[run].tx \in Seq(Lines) /\ run # 0
  BY WritesTyped DEF BaseInv
<1>2. Unsent' = Append(Unsent, l) /\ Unsent \in Seq(Lines)
  BY <1>1 DEF Unsent
<1>3. l.kind \notin Switch
  BY DEF Result, Switch
<1>4. \A w \in Switch : /\ LastIn(Unsent, w) => LastIn(Unsent', w)
                        /\ Silent(Unsent) => Silent(Unsent')
  BY <1>2, <1>3, LastAppend, SilentAppend
<1>5. "start" \in Switch /\ "stop" \in Switch
  BY DEF Switch
<1>6. /\ LastWord("start") => LastWord("start")'
      /\ LastWord("stop") => LastWord("stop")'
  BY <1>4, <1>5 DEF LastWord
<1> QED
  BY <1>6, WordKept

LEMMA ClientWord ==
    ASSUME BaseInv, WordInv, AppStart \/ AppStop \/ AppCrash \/ Client
    PROVE  WordInv'
<1>0. "start" \in Switch /\ "stop" \in Switch
  BY DEF Switch
<1>1. CASE AppStart
  <2>1. /\ running' = TRUE /\ run' = run + 1 /\ scenario' = scenario /\ bridge' = bridge
        /\ conn' = [conn EXCEPT ![run + 1] = [tx |-> <<Note("name"), Note("start")>>, handler |-> "connected"]]
    BY <1>1 DEF AppStart
  <2>2. run + 1 \in Runs /\ run + 1 # 0
    <3>1. run \in Nat /\ run < scenario.runs /\ scenario.runs \in 0..MaxRuns /\ MaxRuns \in Nat
      BY <1>1, RunTyped, ScenarioFacts DEF AppStart, BaseInv
    <3> QED
      BY <3>1 DEF Runs
  <2>3. conn'[run + 1].tx = <<Note("name"), Note("start")>>
    BY <2>1, <2>2, RunTyped
  <2>4. Unsent' = <<Note("name"), Note("start")>>
    BY <2>1, <2>2, <2>3 DEF Unsent
  <2>5. Note("name") \in Lines /\ Note("start") \in Lines /\ Note("start").kind = "start"
    BY NoteFacts
  <2>6. <<Note("name"), Note("start")>> = Append(<<Note("name")>>, Note("start")) /\ <<Note("name")>> \in Seq(Lines)
    BY <2>5
  <2>7. LastIn(Append(<<Note("name")>>, Note("start")), "start")
    BY <1>0, <2>5, <2>6, LastAppend
  <2>8. LastWord("start")'
    BY <2>4, <2>6, <2>7 DEF LastWord
  <2> QED
    BY <2>1, <2>8 DEF WordInv
<1>2. CASE AppStop
  <2>1. running /\ running' = FALSE /\ Writes(<<Note("stop")>>) /\ run' = run
    BY <1>2 DEF AppStop, EndRun
  <2>2. Note("stop") \in Lines /\ Note("stop").kind = "stop"
    BY NoteFacts
  <2>3. conn'[run].tx = Append(conn[run].tx, Note("stop")) /\ conn[run].tx \in Seq(Lines) /\ run # 0
    BY <2>1, <2>2, WritesTyped DEF BaseInv
  <2>4. Unsent' = Append(Unsent, Note("stop")) /\ Unsent \in Seq(Lines)
    BY <2>1, <2>3 DEF Unsent
  <2>5. LastIn(Append(Unsent, Note("stop")), "stop")
    BY <1>0, <2>2, <2>4, LastAppend
  <2>6. LastWord("stop")'
    BY <2>4, <2>5 DEF LastWord
  <2> QED
    BY <2>1, <2>6 DEF WordInv
<1>3. CASE AppCrash
  <2>1. running' = FALSE /\ orphaned' = TRUE
    BY <1>3 DEF AppCrash, EndRun
  <2> QED
    BY <2>1 DEF WordInv
<1>4. CASE AppReads
  <2>1. UNCHANGED <<scenario, running, orphaned, bridge, run, conn, down, available>>
    BY <1>4 DEF AppReads, mote
  <2> QED
    BY <2>1, WordUnchanged
<1>5. ASSUME NEW k, TaskDone(k) PROVE WordInv'
  <2>1. /\ UNCHANGED <<scenario, running, orphaned, bridge, run, down, available>>
        /\ running /\ k \in DOMAIN jobs
    BY <1>5 DEF TaskDone, mote
  <2>2. jobs[k] \in Asked
    BY <2>1 DEF BaseInv
  <2>3. Line(jobs[k], 0, 1) \in Lines /\ Line(jobs[k], 0, 1).kind \in Result
    BY <2>2, FirstLine, ValidFacts DEF BaseInv
  <2>4. Writes(<<Line(jobs[k], 0, 1)>>) \/ conn' = conn
    BY <1>5 DEF TaskDone, Begin
  <2> QED
    BY <2>1, <2>3, <2>4, WritesWord, WordUnchanged
<1>7. ASSUME NEW k, TaskFails(k) PROVE WordInv'
  <2>1. UNCHANGED <<scenario, running, orphaned, bridge, run, conn, down, available>>
    BY <1>7 DEF TaskFails, mote
  <2> QED
    BY <2>1, WordUnchanged
<1>6. CASE SendNext
  <2>1. UNCHANGED <<scenario, running, orphaned, bridge, run, down, available>> /\ running
    BY <1>6 DEF SendNext, mote
  <2>2. ASSUME NEW l, Valid(l), Writes(<<l>>) PROVE WordInv'
    <3>1. l \in Lines /\ l.kind \in Result
      BY <2>2, ValidFacts DEF BaseInv
    <3> QED
      BY <2>1, <2>2, <3>1, WritesWord
  <2>3. CASE conn' = conn
    BY <2>1, <2>3, WordUnchanged
  <2>4. (\E l : Valid(l) /\ Writes(<<l>>)) \/ conn' = conn
    <3>1. scenario \in Scenarios
      BY DEF BaseInv
    <3> QED
      BY <1>6, <3>1, SendNextCases, FirstLine
  <2> QED
    BY <2>2, <2>3, <2>4
<1> QED
  BY <1>1, <1>2, <1>3, <1>4, <1>5, <1>6, <1>7 DEF Client, Work

(* The bridge passes on what the application said, in order. *)
LEMMA ConnWord ==
    ASSUME BaseInv, ConnInv, WordInv, NEW r \in Runs, HandleConn(r)
    PROVE  WordInv'
<1>1. /\ UNCHANGED <<scenario, running, orphaned, bridge, run, available>>
      /\ conn[r].tx \in Seq(Lines) /\ down \in Seq(Lines)
  BY HandleConnCases DEF client, mote
<1>2. ASSUME NoLoss, NEW w \in Switch, LastWord(w) PROVE LastWord(w)'
  <2>1. conn[r].handler \notin {"none", "ended"}
    BY HandleConnCases
  <2>2. r = run
    BY <1>2, <2>1 DEF ConnInv, NoLoss
  <2>3. run # 0
    BY <2>2 DEF Runs
  <2>4. Unsent = conn[r].tx /\ Unsent' = conn'[r].tx
    BY <1>1, <2>2, <2>3 DEF Unsent
  <2>5. CASE /\ Unsent # <<>> /\ Unsent' = Tail(Unsent)
             /\ down' = down /\ Head(Unsent).kind = "name"
    <3>1. Head(Unsent).kind \notin Switch /\ Head(Unsent).kind # w
      BY <2>5 DEF Switch
    <3>2. /\ LastIn(Unsent, w) => LastIn(Unsent', w)
          /\ Silent(Unsent) => Silent(Unsent')
      BY <1>1, <2>4, <2>5, <3>1, LastTail, SilentTail
    <3> QED
      BY <1>1, <1>2, <2>5, <3>2 DEF LastWord
  <2>6. CASE /\ Unsent # <<>> /\ Unsent' = Tail(Unsent)
             /\ down' = Append(down, Head(Unsent))
    <3>1. Head(Unsent) \in Lines
      BY <1>1, <2>4, <2>6, TailFacts
    <3>2. /\ LastIn(Unsent, w) <=> LastIn(Unsent', w) \/ (Silent(Unsent') /\ Head(Unsent).kind = w)
          /\ Silent(Unsent) <=> Silent(Unsent') /\ Head(Unsent).kind \notin Switch
      BY <1>1, <2>4, <2>6, LastTail, SilentTail
    <3>3. /\ LastIn(down', w) <=> Head(Unsent).kind = w \/ (Head(Unsent).kind \notin Switch /\ LastIn(down, w))
          /\ Silent(down') <=> Silent(down) /\ Head(Unsent).kind \notin Switch
      BY <1>1, <2>6, <3>1, LastAppend, SilentAppend
    <3> QED
      BY <1>1, <1>2, <3>2, <3>3 DEF LastWord
  <2>7. CASE Unsent = <<>> /\ Unsent' = <<>> /\ down' = down
    BY <1>1, <1>2, <2>7 DEF LastWord
  <2> QED
    BY <2>4, <2>5, <2>6, <2>7, HandleConnCases
<1>3. "start" \in Switch /\ "stop" \in Switch
  BY DEF Switch
<1>4. NoLoss => /\ LastWord("start") => LastWord("start")'
                /\ LastWord("stop") => LastWord("stop")'
  BY <1>2, <1>3
<1> QED
  BY <1>1, <1>4, WordKept

(* The sensor node hears the next line; only the bridge's stop, which is not sent *)
(* by a bridge that is up, would change what it knows out of turn.             *)
LEMMA HearsWord ==
    ASSUME BaseInv, BridgeInv, WordInv, process_serial_message
    PROVE  WordInv'
<1> DEFINE l == Head(down)
<1>1. /\ down # <<>> /\ down' = Tail(down) /\ down \in Seq(Lines)
      /\ UNCHANGED <<scenario, running, orphaned, bridge, run, conn>>
  BY ProcessCases DEF BaseInv, TypeOK, client
<1>2. Unsent' = Unsent
  BY <1>1 DEF Unsent
<1>3. ASSUME bridge.state \in {"starting", "up"}, NEW w \in Switch, LastWord(w) PROVE LastWord(w)'
  <2>1. /\ LastIn(down, w) <=> LastIn(down', w) \/ (Silent(down') /\ l.kind = w)
        /\ Silent(down) <=> Silent(down') /\ l.kind \notin Switch
    BY <1>1, LastTail, SilentTail
  <2>2. available \in BOOLEAN /\ (w = "start" \/ w = "stop")
    BY DEF BaseInv, TypeOK, Switch
  <2>3. CASE l.kind \in Result /\ available' = available
    <3>1. l.kind \notin Switch /\ l.kind # w
      BY <2>3 DEF Result, Switch
    <3> QED
      BY <1>2, <1>3, <2>1, <2>3, <3>1 DEF LastWord
  <2>4. CASE HearsSwitch(l)
    <3>1. l.kind \in Switch /\ (l.kind = "start" \/ l.kind = "stop") /\ available' = (l.kind = "start")
      BY <2>4 DEF HearsSwitch, Switch
    <3>2. l.kind = w => available' = (w = "start")
      BY <3>1
    <3>3. LastIn(down, w) => LastIn(down', w) \/ (Silent(down') /\ available' = (w = "start"))
      BY <2>1, <3>2
    <3>4. ~Silent(down)
      BY <2>1, <3>1
    <3> QED
      BY <1>2, <1>3, <3>3, <3>4 DEF LastWord
  <2>5. CASE HearsBridge(l)
    <3>1. ~Has(down, "edge_stop")
      BY <1>3 DEF BridgeInv
    <3>2. l.kind # "edge_stop"
      BY <1>1, <3>1, HasTail
    <3>3. l.kind = "edge_start" /\ available' = available
      BY <2>2, <2>5, <3>2 DEF HearsBridge
    <3>4. l.kind \notin Switch /\ l.kind # w
      BY <3>3 DEF Switch
    <3> QED
      BY <1>2, <1>3, <2>1, <3>3, <3>4 DEF LastWord
  <2> QED
    BY <2>3, <2>4, <2>5, ProcessCases
<1>4. "start" \in Switch /\ "stop" \in Switch
  BY DEF Switch
<1>5. bridge.state \in {"starting", "up"} =>
          /\ LastWord("start") => LastWord("start")'
          /\ LastWord("stop") => LastWord("stop")'
  BY <1>3, <1>4
<1>6. UNCHANGED <<scenario, running, orphaned>> /\ bridge'.state = bridge.state
  BY <1>1
<1> QED
  BY <1>5, <1>6, WordKept

LEMMA TellsWord ==
    ASSUME BaseInv, WordInv, Informed \/ NotInformed \/ BridgeStop \/ BridgeEnd
    PROVE  WordInv'
<1>0. bridge \in [state : {"starting", "up", "stopping", "stopped", "failed"},
                  tries : 0..AckRetryThreshold, acked : SUBSET {"start_ack", "stop_ack"}]
  BY DEF BaseInv, TypeOK
<1>1. CASE Informed
  <2>1. /\ UNCHANGED <<scenario, running, orphaned, run, conn, down, available>>
        /\ bridge.state = "starting"
    BY <1>1 DEF Informed, client, mote
  <2>2. Unsent' = Unsent
    BY <2>1 DEF Unsent
  <2>3. /\ LastWord("start") => LastWord("start")'
        /\ LastWord("stop") => LastWord("stop")'
    BY <2>1, <2>2 DEF LastWord
  <2> QED
    BY <2>1, <2>3, WordKept
<1>2. CASE NotInformed
  <2>1. /\ UNCHANGED <<scenario, running, orphaned, run, conn, available>>
        /\ bridge' = [bridge EXCEPT !.tries = @ + 1]
        /\ down' = down \/ down' = Append(down, Note("edge_start"))
    BY <1>2 DEF NotInformed, client, mote
  <2>2. bridge'.state = bridge.state /\ Unsent' = Unsent
    BY <1>0, <2>1 DEF Unsent
  <2>3. Note("edge_start") \in Lines /\ Note("edge_start").kind = "edge_start"
    BY NoteFacts
  <2>4. Note("edge_start").kind \notin Switch /\ "start" \in Switch /\ "stop" \in Switch
    BY <2>3 DEF Switch
  <2>5. down \in Seq(Lines)
    BY DEF BaseInv, TypeOK
  <2>6. \A w \in Switch : /\ LastIn(down, w) => LastIn(down', w)
                          /\ Silent(down) => Silent(down')
    <3> DEFINE e == Note("edge_start")
    <3>1. e \in Lines /\ e.kind \notin Switch /\ (down' = down \/ down' = Append(down, e))
      BY <2>1, <2>3, <2>4
    <3> HIDE DEF e
    <3>2. CASE down' = down
      BY <3>2
    <3>3. CASE down' = Append(down, e)
      BY <2>5, <3>1, <3>3, LastAppend, SilentAppend
    <3> QED
      BY <3>1, <3>2, <3>3
  <2>7. /\ LastWord("start") => LastWord("start")'
        /\ LastWord("stop") => LastWord("stop")'
    BY <2>1, <2>2, <2>4, <2>6 DEF LastWord
  <2> QED
    BY <2>1, <2>2, <2>7, WordKept
<1>3. CASE BridgeStop
  <2>1. bridge'.state = "stopping"
    BY <1>0, <1>3 DEF BridgeStop
  <2> QED
    BY <2>1 DEF WordInv
<1>4. CASE BridgeEnd
  <2>1. bridge'.state \in {"failed", "stopped"}
    BY <1>0, <1>4 DEF BridgeEnd
  <2> QED
    BY <2>1 DEF WordInv
<1> QED
  BY <1>1, <1>2, <1>3, <1>4

LEMMA NextWord == BaseInv /\ ConnInv /\ BridgeInv /\ WordInv /\ [Next]_vars => WordInv'
<1> SUFFICES ASSUME BaseInv, ConnInv, BridgeInv, WordInv, [Next]_vars PROVE WordInv'
  OBVIOUS
<1>1. CASE UNCHANGED vars
  <2>1. UNCHANGED <<scenario, running, orphaned, bridge, run, conn, down, available>>
    BY <1>1 DEF vars, client, mote
  <2> QED
    BY <2>1, WordUnchanged
<1>2. CASE RunSerial
  <2>1. UNCHANGED <<scenario, running, orphaned, run, conn, down, available>> /\ bridge'.state = bridge.state
    BY <1>2 DEF RunSerial, client, mote, BaseInv, TypeOK
  <2>2. Unsent' = Unsent
    BY <2>1 DEF Unsent
  <2>3. /\ LastWord("start") => LastWord("start")'
        /\ LastWord("stop") => LastWord("stop")'
    BY <2>1, <2>2 DEF LastWord
  <2> QED
    BY <2>1, <2>3, WordKept
<1>3. ASSUME NEW t \in Tasks, post_handler(t) PROVE WordInv'
  <2>1. UNCHANGED <<scenario, running, orphaned, bridge, run, conn, down, available>>
    BY <1>3 DEF post_handler, client, mote
  <2> QED
    BY <2>1, WordUnchanged
<1>4. ASSUME NEW x \in open, NEW outcome \in Outcomes, ExchangeEnds(x, outcome) PROVE WordInv'
  <2>1. UNCHANGED <<scenario, running, orphaned, bridge, run, conn, down, available>>
    BY <1>4 DEF ExchangeEnds, client
  <2> QED
    BY <2>1, WordUnchanged
<1>5. CASE LockExpires
  <2>1. UNCHANGED <<scenario, running, orphaned, bridge, run, conn, down, available>>
    BY <1>5 DEF LockExpires, client
  <2> QED
    BY <2>1, WordUnchanged
<1>6. CASE LineLost
  <2>1. "loss" \in scenario'.faults
    BY <1>6 DEF LineLost, Fault
  <2> QED
    BY <2>1 DEF WordInv
<1>7. CASE \E r \in Runs : HandleConn(r)
  BY <1>7, ConnWord
<1> QED
  BY <1>1, <1>2, <1>3, <1>4, <1>5, <1>6, <1>7, ClientWord, TellsWord, HearsWord DEF Next, Bridge

(* When all that was said has been heard, the sensor node and the bridge agree   *)
(* with the client on whether the application runs, and whenever the bridge is  *)
(* up the sensor node knows it                                                 *)
(* (process_application_serial_message, process_edge_serial_message,           *)
(* _handle_application_conn).                                                 *)
THEOREM AvailabilityIsTold == Spec => []AvailabilityFollows
<1> DEFINE I == BaseInv /\ ConnInv /\ BridgeInv /\ WordInv
<1>1. Init => I
  BY InitBase, InitConn, InitBridge, InitWord
<1>2. I /\ [Next]_vars => I'
  BY NextBase, NextConn, NextBridge, NextWord
<1>3. I => AvailabilityFollows
  <2> SUFFICES ASSUME I PROVE AvailabilityFollows
    OBVIOUS
  <2>1. bridge.state = "up" => started
    BY DEF BridgeInv
  <2>3. ASSUME NoLoss, bridge.state = "up", Settled
        PROVE  /\ running => available /\ application = run
               /\ ~running => application = None /\ (available => orphaned)
    <3>1. Unsent = <<>> /\ down = <<>>
      <4>1. run # 0 => run \in Runs
        BY BoundAssumption DEF BaseInv, TypeOK, Runs
      <4> QED
        BY <2>3, <4>1 DEF Unsent, Settled
    <3>2. /\ LastWord("start") => available
          /\ LastWord("stop") => ~available
      BY <3>1, NothingSaid DEF LastWord, BaseInv, TypeOK
    <3>3. /\ running => available
          /\ ~running => (available => orphaned)
      BY <2>3, <3>2 DEF WordInv, NoLoss
    <3>4. ASSUME running PROVE application = run
      <4>1. run \in Runs /\ conn[run].tx = <<>>
        BY <2>3, <3>4, RunTyped DEF Settled
      <4>2. conn[run].handler # "connected"
        BY <4>1 DEF BaseInv
      <4> QED
        BY <2>3, <3>4, <4>1, <4>2 DEF ConnInv, NoLoss
    <3>5. ASSUME ~running PROVE application = None
      <4>1. \A r \in Runs : conn[r].handler \in {"none", "ended"}
        BY <2>3, <3>5 DEF Settled, Closed
      <4>2. application \in Runs \cup {None}
        BY DEF BaseInv, TypeOK
      <4> QED
        BY <2>3, <4>1, <4>2 DEF ConnInv, NoLoss
    <3> QED
      BY <3>3, <3>4, <3>5
  <2> QED
    BY <2>1, <2>3 DEF AvailabilityFollows, NoLoss
<1> HIDE DEF I
<1> QED
  BY <1>1, <1>2, <1>3, PTL DEF Spec
-----------------------------------------------------------------------------
(* BlockInv is an invariant. *)

LEMMA ResultsAppend ==
    ASSUME NEW S, NEW s \in Seq(S), NEW e \in S
    PROVE  Results(Append(s, e)) <=> Results(s) \/ e.kind \in Result
<1>1. \A k : Has(Append(s, e), k) <=> Has(s, k) \/ e.kind = k
  BY HasAppend
<1>2. ASSUME NEW t PROVE Results(t) <=> \E k \in Result : Has(t, k)
  BY DEF Results, Has
<1> QED
  BY <1>1, <1>2

LEMMA ResultsTail ==
    ASSUME NEW S, NEW s \in Seq(S), s # <<>>
    PROVE  Results(s) <=> Results(Tail(s)) \/ Head(s).kind \in Result
<1>1. \A k : Has(s, k) <=> Has(Tail(s), k) \/ Head(s).kind = k
  BY HasTail
<1>2. ASSUME NEW t PROVE Results(t) <=> \E k \in Result : Has(t, k)
  BY DEF Results, Has
<1> QED
  BY <1>1, <1>2

LEMMA OnlyAppend ==
    ASSUME NEW S, NEW s \in Seq(S), NEW e \in S, NEW l
    PROVE  Only(Append(s, e), l) <=> Only(s, l) /\ (e.kind \in Result => e = l)
<1>1. /\ Len(s) \in Nat
      /\ Len(Append(s, e)) = Len(s) + 1
      /\ Append(s, e)[Len(s) + 1] = e
      /\ \A i \in 1..Len(s) : Append(s, e)[i] = s[i]
      /\ \A i \in 1..(Len(s) + 1) : i \in 1..Len(s) \/ i = Len(s) + 1
  BY AppendFacts
<1>2. Len(s) + 1 \in 1..(Len(s) + 1) /\ \A i \in 1..Len(s) : i \in 1..(Len(s) + 1)
  BY <1>1
<1> QED
  BY <1>1, <1>2 DEF Only

LEMMA OnlyTail ==
    ASSUME NEW S, NEW s \in Seq(S), s # <<>>, NEW l, Only(s, l)
    PROVE  Only(Tail(s), l) /\ (Head(s).kind \in Result => Head(s) = l)
<1>1. /\ Head(s) = s[1] /\ 1 \in 1..Len(s)
      /\ \A i \in 1..Len(Tail(s)) : Tail(s)[i] = s[i + 1] /\ i + 1 \in 1..Len(s)
  BY TailFacts
<1> QED
  BY <1>1 DEF Only

LEMMA OnlyNone == ASSUME NEW s, ~Results(s), NEW l PROVE Only(s, l)
  BY DEF Only, Results

LEMMA CancelAppend ==
    ASSUME NEW S, NEW s \in Seq(S), NEW e \in S, CancelFirst(s), e.kind # "cancel" \/ ~Has(s, "ack")
    PROVE  CancelFirst(Append(s, e))
<1> DEFINE a == Append(s, e)
<1>1. /\ Len(s) \in Nat
      /\ Len(a) = Len(s) + 1
      /\ a[Len(s) + 1] = e
      /\ \A i \in 1..Len(s) : a[i] = s[i]
      /\ \A i \in 1..(Len(s) + 1) : i \in 1..Len(s) \/ i = Len(s) + 1
  BY AppendFacts
<1> HIDE DEF a
<1>2. ASSUME NEW i \in 1..Len(a), NEW j \in 1..Len(a), a[i].kind = "ack", a[j].kind = "cancel"
      PROVE  j < i
  <2>1. CASE i \in 1..Len(s) /\ j \in 1..Len(s)
    BY <1>1, <1>2, <2>1 DEF CancelFirst
  <2>2. CASE i \in 1..Len(s) /\ j = Len(s) + 1
    BY <1>1, <1>2, <2>2 DEF Has
  <2>3. CASE i = Len(s) + 1 /\ j \in 1..Len(s)
    BY <1>1, <2>3
  <2>4. CASE i = Len(s) + 1 /\ j = Len(s) + 1
    BY <1>1, <1>2, <2>4
  <2> QED
    BY <1>1, <2>1, <2>2, <2>3, <2>4
<1> QED
  BY <1>2 DEF a, CancelFirst

LEMMA CancelTail ==
    ASSUME NEW S, NEW s \in Seq(S), s # <<>>, CancelFirst(s)
    PROVE  /\ CancelFirst(Tail(s))
           /\ Head(s).kind = "ack" => ~Has(s, "cancel")
<1> DEFINE t == Tail(s)
<1>1. /\ Len(s) \in Nat \ {0}
      /\ Len(t) = Len(s) - 1
      /\ Head(s) = s[1] /\ 1 \in 1..Len(s)
      /\ \A i \in 1..Len(t) : t[i] = s[i + 1] /\ i + 1 \in 1..Len(s)
  BY TailFacts
<1> HIDE DEF t
<1>2. ASSUME NEW i \in 1..Len(t), NEW j \in 1..Len(t), t[i].kind = "ack", t[j].kind = "cancel"
      PROVE  j < i
  <2>1. j + 1 < i + 1
    BY <1>1, <1>2 DEF CancelFirst
  <2> QED
    BY <1>1, <2>1
<1>3. ASSUME Head(s).kind = "ack", NEW j \in 1..Len(s), s[j].kind = "cancel" PROVE FALSE
  <2>1. j < 1
    BY <1>1, <1>3 DEF CancelFirst
  <2> QED
    BY <1>1, <2>1
<1> QED
  BY <1>2, <1>3 DEF t, CancelFirst, Has

LEMMA NothingThere == ~Results(<<>>) /\ CancelFirst(<<>>)
  BY DEF Results, CancelFirst

(* The counts, as what is there and what is not. *)
LEMMA ResultsCount ==
    ASSUME NEW S, NEW s \in Seq(S)
    PROVE  Count(s, Result) \in Nat /\ (Results(s) <=> Count(s, Result) > 0)
<1>1. Count(s, Result) \in Nat /\ (Count(s, Result) = 0 <=> \A i \in 1..Len(s) : s[i].kind \notin Result)
  BY CountNat
<1>2. Results(s) <=> Count(s, Result) # 0
  BY <1>1 DEF Results
<1> QED
  BY <1>1, <1>2

LEMMA AckCount ==
    ASSUME NEW S, NEW s \in Seq(S)
    PROVE  Count(s, {"ack"}) \in Nat /\ (Has(s, "ack") <=> Count(s, {"ack"}) > 0)
<1>1. /\ Count(s, {"ack"}) \in Nat
      /\ Count(s, {"ack"}) = 0 <=> \A i \in 1..Len(s) : s[i].kind \notin {"ack"}
  BY CountNat
<1>2. Has(s, "ack") <=> Count(s, {"ack"}) # 0
  BY <1>1 DEF Has
<1> QED
  BY <1>1, <1>2

Waiting == running /\ Results(conn[run].tx)

(* Where the trace of a line is, there is no other. *)
LEMMA OnePlace ==
    ASSUME BaseInv, TraceInv, ~torn
    PROVE  /\ Results(down) => ~Waiting /\ open = {} /\ ~Has(up, "ack") /\ ~Has(rx, "ack") /\ ~woken
           /\ Results(down) /\ Head(down).kind \in Result => ~Results(Tail(down))
           /\ open # {} => ~Waiting /\ ~Results(down) /\ ~Has(up, "ack") /\ ~Has(rx, "ack") /\ ~woken
           /\ woken => ~Waiting /\ ~Results(down) /\ open = {} /\ ~Has(up, "ack") /\ ~Has(rx, "ack")
           /\ sending = None => /\ ~Waiting /\ ~Results(down) /\ open = {}
                                /\ ~Has(up, "ack") /\ ~Has(rx, "ack") /\ ~woken
           /\ \A r \in Runs : Closed(r) => ~Results(conn[r].tx)
<1>1. down \in Seq(Lines) /\ up \in Seq(Reports) /\ rx \in Seq(Reports) /\ woken \in BOOLEAN
  BY DEF BaseInv, TypeOK
<1> DEFINE a == TxLines
           b == Count(down, Result)
           d == Count(up, {"ack"})
           e == Count(rx, {"ack"})
<1>2. /\ Results(down) <=> b > 0
      /\ Has(up, "ack") <=> d > 0
      /\ Has(rx, "ack") <=> e > 0
      /\ b \in Nat /\ d \in Nat /\ e \in Nat
  BY <1>1, ResultsCount, AckCount
<1>3. Waiting <=> a > 0
  <2>1. CASE running
    <3>1. conn[run].tx \in Seq(Lines)
      BY <2>1, RunTyped
    <3> QED
      BY <2>1, <3>1, ResultsCount DEF Waiting, TxLines
  <2>2. CASE ~running
    BY <2>2 DEF Waiting, TxLines
  <2> QED
    BY <2>1, <2>2
<1>4. woken <=> Woken # 0
  BY <1>1 DEF Woken
<1>5. /\ b > 0 => a = 0 /\ open = {} /\ d = 0 /\ e = 0 /\ Woken = 0 /\ b = 1
      /\ open # {} => a = 0 /\ b = 0 /\ d = 0 /\ e = 0 /\ Woken = 0
      /\ woken => a = 0 /\ b = 0 /\ open = {} /\ d = 0 /\ e = 0
      /\ sending = None => a = 0 /\ b = 0 /\ open = {} /\ d = 0 /\ e = 0 /\ ~woken
  BY OnePending
<1>6. Results(down) /\ Head(down).kind \in Result => ~Results(Tail(down))
  <2> SUFFICES ASSUME Results(down), Head(down).kind \in Result PROVE ~Results(Tail(down))
    OBVIOUS
  <2>1. down # <<>>
    BY NothingThere
  <2>2. b = Count(Tail(down), Result) + 1 /\ Tail(down) \in Seq(Lines)
    BY <1>1, <2>1, CountTail
  <2>3. Count(Tail(down), Result) \in Nat /\ (Results(Tail(down)) <=> Count(Tail(down), Result) > 0)
    BY <2>2, ResultsCount
  <2> HIDE DEF b
  <2> QED
    BY <1>2, <1>5, <2>2, <2>3
<1>7. \A r \in Runs : Closed(r) => ~Results(conn[r].tx)
  <2>1. ASSUME NEW r \in Runs, Closed(r) PROVE ~Results(conn[r].tx)
    <3>1. Count(conn[r].tx, Result) = 0 /\ conn[r].tx \in Seq(Lines)
      BY <2>1, TraceUse, RunTyped
    <3> QED
      BY <3>1, ResultsCount
  <2> QED
    BY <2>1
<1> HIDE DEF a, b, d, e
<1>8. /\ Results(down) => ~Waiting /\ open = {} /\ ~Has(up, "ack") /\ ~Has(rx, "ack") /\ ~woken
      /\ open # {} => ~Waiting /\ ~Results(down) /\ ~Has(up, "ack") /\ ~Has(rx, "ack") /\ ~woken
  BY <1>2, <1>3, <1>4, <1>5
<1>9. /\ woken => ~Waiting /\ ~Results(down) /\ open = {} /\ ~Has(up, "ack") /\ ~Has(rx, "ack")
      /\ sending = None => /\ ~Waiting /\ ~Results(down) /\ open = {}
                           /\ ~Has(up, "ack") /\ ~Has(rx, "ack") /\ ~woken
  BY <1>2, <1>3, <1>4, <1>5
<1> QED
  BY <1>6, <1>7, <1>8, <1>9

LEMMA SameLast ==
    ASSUME scenario' = scenario
    PROVE  /\ \A l : LastOfBlock(l)' <=> LastOfBlock(l)
           /\ \A x : Whole(x)' <=> Whole(x)
<1>1. Asked' = Asked
  BY SameScenario
<1>2. \A l : LastOfBlock(l)' <=> LastOfBlock(l)
  BY DEF LastOfBlock, Size
<1>3. ASSUME NEW x PROVE Whole(x)' <=> Whole(x)
  BY <1>1 DEF Whole, Size, Line
<1> QED
  BY <1>2, <1>3

LEMMA SameNode ==
    ASSUME UNCHANGED <<scenario, sending, ep, msg_buf>>
    PROVE  /\ Before(sending)' <=> Before(sending)
           /\ After(sending)' <=> After(sending)
           /\ Cancelled' <=> Cancelled
           /\ LastOfBlock(sending)' <=> LastOfBlock(sending)
<1>1. LastOfBlock(sending)' <=> LastOfBlock(sending)
  BY DEF LastOfBlock, Size
<1>2. Before(sending)' <=> Before(sending)
  BY DEF Before, Chunks, Line
<1>3. After(sending)' <=> After(sending)
  BY <1>1 DEF After, Chunks, Line
<1> QED
  BY <1>1, <1>2, <1>3 DEF Cancelled

(* Steps in which lines, acknowledgements and cancels move on. *)
LEMMA BlockSame ==
    ASSUME BlockInv, UNCHANGED <<scenario, sending, ep, msg_buf, open, torn>>,
           ~torn =>
             /\ Only(down', sending)
             /\ running' => Only(conn'[run'].tx, sending)
             /\ Results(down') \/ (running' /\ Results(conn'[run'].tx)) => Results(down) \/ Waiting
             /\ Has(up', "ack") \/ Has(rx', "ack") \/ woken' => Has(up, "ack") \/ Has(rx, "ack") \/ woken
             /\ Has(up', "cancel") => Has(up, "cancel") /\ ~Has(rx', "ack") /\ ~woken'
             /\ Has(rx', "cancel") => (Has(up, "cancel") \/ Has(rx, "cancel")) /\ ~woken'
             /\ CancelFirst(up') /\ CancelFirst(rx')
             /\ was_cancelled' => was_cancelled \/ Has(rx, "cancel")
    PROVE  BlockInv'
<1> SUFFICES ASSUME ~torn PROVE LinesInv' /\ CancelInv'
  BY DEF BlockInv
<1>1. LinesInv /\ CancelInv
  BY DEF BlockInv
<1>2. /\ Before(sending)' <=> Before(sending)
      /\ After(sending)' <=> After(sending)
      /\ Cancelled' <=> Cancelled
      /\ LastOfBlock(sending)' <=> LastOfBlock(sending)
  BY SameNode
<1>3. \A x : Whole(x)' <=> Whole(x)
  BY SameLast
<1>4. Only(down, sending)' /\ (running => Only(conn[run].tx, sending))'
  BY DEF Only
<1>5. (Results(down) \/ (running /\ Results(conn[run].tx)) => Before(sending))'
  <2>1. Results(down') \/ (running' /\ Results(conn'[run'].tx)) => Before(sending)
    BY <1>1 DEF LinesInv, Waiting
  <2> QED
    BY <1>2, <2>1 DEF Results
<1>6. (Has(up, "ack") \/ Has(rx, "ack") \/ woken \/ open # {} => After(sending))'
  <2>1. Has(up', "ack") \/ Has(rx', "ack") \/ woken' \/ open' # {} => After(sending)
    BY <1>1 DEF LinesInv
  <2> QED
    BY <1>2, <2>1 DEF Has
<1>7. (/\ sending = None => msg_buf = <<>>
       /\ \A x \in open : Whole(x)
       /\ open # {} => LastOfBlock(sending) /\ sending.kind # "stats")'
  BY <1>1, <1>2, <1>3 DEF LinesInv
<1>8. /\ (Has(up, "cancel") => Cancelled /\ ~Has(rx, "ack") /\ ~woken)'
      /\ (Has(rx, "cancel") => Cancelled /\ ~woken)'
  BY <1>1, <1>2 DEF CancelInv, Has
<1>9. (CancelFirst(up) /\ CancelFirst(rx) /\ (was_cancelled => Cancelled))'
  BY <1>1, <1>2 DEF CancelInv, CancelFirst
<1> QED
  BY <1>4, <1>5, <1>6, <1>7, <1>8, <1>9 DEF LinesInv, CancelInv

(* Steps after which the client waits for a line it has just written, or for     *)
(* none.                                                                     *)
LEMMA BlockNew ==
    ASSUME ~torn' =>
             /\ ~Results(down') /\ open' = {}
             /\ ~Has(up', "ack") /\ ~Has(rx', "ack") /\ ~woken'
             /\ ~Has(up', "cancel") /\ ~Has(rx', "cancel") /\ ~was_cancelled'
             /\ running' => Only(conn'[run'].tx, sending')
             /\ running' /\ Results(conn'[run'].tx) => Before(sending)'
             /\ sending' = None => msg_buf' = <<>>
    PROVE  BlockInv'
<1> SUFFICES ASSUME ~torn' PROVE LinesInv' /\ CancelInv'
  BY DEF BlockInv
<1>1. Only(down', sending')
  BY OnlyNone
<1>2. Only(down, sending)' /\ (running => Only(conn[run].tx, sending))'
  BY <1>1 DEF Only
<1>3. (Results(down) \/ (running /\ Results(conn[run].tx)) => Before(sending))'
  BY DEF Results
<1>4. ~(Has(up, "ack") \/ Has(rx, "ack") \/ woken \/ open # {})'
  BY DEF Has
<1>5. LinesInv'
  BY <1>2, <1>3, <1>4 DEF LinesInv
<1>6. CancelFirst(up)' /\ CancelFirst(rx)' /\ ~Has(up, "cancel")' /\ ~Has(rx, "cancel")'
  BY DEF CancelFirst, Has
<1> QED
  BY <1>5, <1>6 DEF CancelInv

(* The client waits for nothing: there is nothing. *)
LEMMA NothingCancelled ==
    ASSUME BaseInv, TraceInv, BlockInv, ~torn, sending = None \/ woken
    PROVE  /\ ~Has(up, "cancel") /\ ~Has(rx, "cancel")
           /\ ~Results(down) /\ open = {} /\ ~Has(up, "ack") /\ ~Has(rx, "ack") /\ ~Waiting
           /\ sending = None => ~was_cancelled /\ ~woken /\ msg_buf = <<>>
<1>1. LinesInv /\ CancelInv
  BY DEF BlockInv
<1>2. sending = None => ~Cancelled
  BY DEF Cancelled
<1> QED
  BY <1>1, <1>2, OnePlace DEF LinesInv, CancelInv

LEMMA EndsBlock ==
    ASSUME BaseInv, TraceInv, BlockInv, EndRun, UNCHANGED <<down, up, mote>>
    PROVE  BlockInv'
<1>1. /\ running' = FALSE /\ sending' = None /\ woken' = FALSE /\ was_cancelled' = FALSE /\ rx' = <<>>
      /\ ~torn' => ~torn /\ sending = None
      /\ UNCHANGED <<down, up, open, msg_buf>>
  BY DEF EndRun, mote
<1>2. ~torn' => /\ ~Has(up, "cancel") /\ ~Results(down) /\ open = {} /\ ~Has(up, "ack") /\ msg_buf = <<>>
  BY <1>1, NothingCancelled
<1>3. ~Has(rx', "ack") /\ ~Has(rx', "cancel")
  BY <1>1, HasNone
<1> QED
  BY <1>1, <1>2, <1>3, BlockNew

LEMMA StartsBlock == ASSUME BaseInv, TraceInv, BlockInv, AppStart PROVE BlockInv'
<1>1. /\ ~running /\ running' = TRUE /\ run' = run + 1 /\ sending' = None /\ woken' = FALSE
      /\ was_cancelled' = FALSE /\ rx' = <<>>
      /\ conn' = [conn EXCEPT ![run + 1] = [tx |-> <<Note("name"), Note("start")>>, handler |-> "connected"]]
      /\ UNCHANGED <<down, up, open, msg_buf, torn>>
  BY DEF AppStart, mote
<1>2. sending = None
  BY <1>1 DEF BaseInv
<1>3. ~torn' => /\ ~Has(up, "cancel") /\ ~Results(down) /\ open = {} /\ ~Has(up, "ack") /\ msg_buf = <<>>
  BY <1>1, <1>2, NothingCancelled
<1>4. ~Has(rx', "ack") /\ ~Has(rx', "cancel")
  BY <1>1, HasNone
<1>5. run + 1 \in Runs
  <2>1. run \in Nat /\ run < scenario.runs /\ scenario.runs \in 0..MaxRuns /\ MaxRuns \in Nat
    BY RunTyped, ScenarioFacts DEF AppStart, BaseInv
  <2> QED
    BY <2>1 DEF Runs
<1>6. conn'[run'].tx = <<Note("name"), Note("start")>>
  BY <1>1, <1>5, RunTyped
<1>7. ~Results(<<Note("name"), Note("start")>>)
  <2>1. /\ Note("name") \in Lines /\ Note("name").kind \notin Result
        /\ Note("start") \in Lines /\ Note("start").kind \notin Result
    BY NoteFacts
  <2>2. /\ <<Note("name"), Note("start")>> = Append(Append(<<>>, Note("name")), Note("start"))
        /\ Append(<<>>, Note("name")) \in Seq(Lines) /\ <<>> \in Seq(Lines)
    BY <2>1
  <2>3. ~Results(Append(<<>>, Note("name")))
    BY <2>1, <2>2, ResultsAppend, NothingThere
  <2>4. ~Results(Append(Append(<<>>, Note("name")), Note("start")))
    BY <2>1, <2>2, <2>3, ResultsAppend
  <2> QED
    BY <2>2, <2>4
<1>8. ~Results(conn'[run'].tx) /\ Only(conn'[run'].tx, sending')
  BY <1>6, <1>7, OnlyNone
<1> QED
  BY <1>1, <1>3, <1>4, <1>8, BlockNew

LEMMA ReadsBlock == ASSUME BaseInv, BlockInv, AppReads PROVE BlockInv'
<1>1. /\ rx # <<>> /\ rx' = Tail(rx)
      /\ woken' = (woken \/ (Head(rx).kind = "ack" /\ sending # None))
      /\ was_cancelled' = (was_cancelled \/ Head(rx).kind = "cancel")
      /\ UNCHANGED <<scenario, run, running, sending, conn, down, up, ep, msg_buf, open, torn>>
      /\ rx \in Seq(Reports)
  BY DEF AppReads, mote, BaseInv, TypeOK
<1>2. \A k : Has(rx, k) <=> Has(rx', k) \/ Head(rx).kind = k
  BY <1>1, HasTail
<1>3. ASSUME ~torn
      PROVE  /\ Only(down', sending)
             /\ running' => Only(conn'[run'].tx, sending)
             /\ Results(down') \/ (running' /\ Results(conn'[run'].tx)) => Results(down) \/ Waiting
             /\ Has(up', "ack") \/ Has(rx', "ack") \/ woken' => Has(up, "ack") \/ Has(rx, "ack") \/ woken
             /\ Has(up', "cancel") => Has(up, "cancel") /\ ~Has(rx', "ack") /\ ~woken'
             /\ Has(rx', "cancel") => (Has(up, "cancel") \/ Has(rx, "cancel")) /\ ~woken'
             /\ CancelFirst(up') /\ CancelFirst(rx')
             /\ was_cancelled' => was_cancelled \/ Has(rx, "cancel")
  <2>1. LinesInv /\ CancelInv
    BY <1>3 DEF BlockInv
  <2>2. CancelFirst(rx') /\ (Head(rx).kind = "ack" => ~Has(rx, "cancel"))
    BY <1>1, <2>1, CancelTail DEF CancelInv
  <2>3. Only(down', sending) /\ (running' => Only(conn'[run'].tx, sending)) /\ CancelFirst(up')
    BY <1>1, <2>1 DEF LinesInv, CancelInv
  <2>4. Results(down') \/ (running' /\ Results(conn'[run'].tx)) => Results(down) \/ Waiting
    BY <1>1 DEF Waiting
  <2>5. /\ Has(up', "ack") \/ Has(rx', "ack") \/ woken' => Has(up, "ack") \/ Has(rx, "ack") \/ woken
        /\ was_cancelled' => was_cancelled \/ Has(rx, "cancel")
    BY <1>1, <1>2
  <2>6. Has(up', "cancel") => Has(up, "cancel") /\ ~Has(rx', "ack") /\ ~woken'
    BY <1>1, <1>2, <2>1 DEF CancelInv
  <2>7. Has(rx', "cancel") => Has(rx, "cancel") /\ ~woken'
    BY <1>1, <1>2, <2>1, <2>2 DEF CancelInv
  <2> QED
    BY <2>2, <2>3, <2>4, <2>5, <2>6, <2>7
<1> QED
  BY <1>1, <1>3, BlockSame

(* The client writes line l, the sensor node having had all before it. *)
LEMMA BeginsBlock ==
    ASSUME BaseInv, TraceInv, BlockInv, sending = None \/ woken, running, NEW l, Valid(l), Writes(<<l>>),
           sending' = l, ~woken', ~was_cancelled', Before(l),
           UNCHANGED <<scenario, run, running, rx, down, up, mote, torn>>
    PROVE  BlockInv'
<1> SUFFICES ASSUME ~torn' PROVE BlockInv'
  BY DEF BlockInv
<1>1. UNCHANGED <<ep, msg_buf, open>> /\ ~torn
  BY DEF mote
<1>2. /\ ~Has(up, "cancel") /\ ~Has(rx, "cancel")
      /\ ~Results(down) /\ open = {} /\ ~Has(up, "ack") /\ ~Has(rx, "ack") /\ ~Waiting
  BY <1>1, NothingCancelled
<1>3. l \in Lines /\ l # None /\ l.kind \in Result
  BY ValidFacts DEF BaseInv
<1>4. conn'[run].tx = Append(conn[run].tx, l) /\ conn[run].tx \in Seq(Lines)
  BY <1>3, WritesTyped DEF BaseInv
<1>5. Only(conn[run].tx, l)
  BY <1>2, OnlyNone DEF Waiting
<1>6. Only(conn'[run'].tx, sending')
  BY <1>3, <1>4, <1>5, OnlyAppend
<1>7. Before(sending)'
  BY <1>1 DEF Before, Chunks, Line
<1> QED
  BY <1>1, <1>2, <1>3, <1>6, <1>7, BlockNew

LEMMA FirstBefore ==
    ASSUME scenario \in Scenarios, NEW t \in Asked, msg_buf = <<>>
    PROVE  Before(Line(t, 0, 1))
  BY DEF Before, Line

LEMMA UnchangedBlock ==
    ASSUME BlockInv, UNCHANGED <<scenario, run, running, sending, woken, was_cancelled, rx, conn, down, up, ep, msg_buf,
                                 open, torn>>
    PROVE  BlockInv'
<1>1. ~torn => LinesInv /\ CancelInv
  BY DEF BlockInv
<1>2. Waiting <=> running' /\ Results(conn'[run'].tx)
  BY DEF Waiting
<1> QED
  BY <1>1, <1>2, BlockSame DEF LinesInv, CancelInv

LEMMA DoneBlock == ASSUME BaseInv, TraceInv, BlockInv, NEW k, TaskDone(k) PROVE BlockInv'
<1>1. /\ running /\ k \in DOMAIN jobs
      /\ UNCHANGED <<scenario, run, running, woken, was_cancelled, rx, down, up, mote, torn>>
  BY DEF TaskDone
<1>2. CASE sending = None
  <2>1. jobs[k] \in Asked /\ scenario \in Scenarios
    BY <1>1 DEF BaseInv
  <2>2. Valid(Line(jobs[k], 0, 1))
    BY <2>1, FirstLine
  <2>3. sending' = Line(jobs[k], 0, 1) /\ Writes(<<Line(jobs[k], 0, 1)>>)
    BY <1>2 DEF TaskDone, Begin
  <2>4. CASE torn
    BY <1>1, <2>4 DEF BlockInv
  <2>5. CASE ~torn
    <3>1. ~was_cancelled /\ ~woken /\ msg_buf = <<>>
      BY <1>2, <2>5, NothingCancelled
    <3>2. Before(Line(jobs[k], 0, 1))
      BY <2>1, <3>1, FirstBefore
    <3> QED
      BY <1>1, <1>2, <2>2, <2>3, <3>1, <3>2, BeginsBlock
  <2> QED
    BY <2>4, <2>5
<1>3. CASE sending # None
  <2>1. UNCHANGED <<sending, conn, ep, msg_buf, open>>
    BY <1>1, <1>3 DEF TaskDone, mote
  <2> QED
    BY <1>1, <2>1, UnchangedBlock
<1> QED
  BY <1>2, <1>3

(* Once the sensor node has had a line it is ready for the next. *)
LEMMA AfterBefore ==
    ASSUME scenario \in Scenarios, NEW l, Valid(l), After(l), ~LastOfResult(l)
    PROVE  Before(NextLine(l))
<1>1. /\ l.task \in Asked
      /\ l.block \in Nat /\ l.chunk \in Nat /\ l.chunk >= 1
      /\ l.kind = "stats" <=> l.block = 0 /\ l.chunk = 1
  BY ValidFacts
<1>2. CASE LastOfBlock(l)
  <2>1. NextLine(l) = Line(l.task, l.block + 1, 1)
    BY <1>2 DEF NextLine
  <2>2. /\ Line(l.task, l.block + 1, 1).block = l.block + 1 /\ Line(l.task, l.block + 1, 1).task = l.task
        /\ Line(l.task, l.block + 1, 1).chunk = 1 /\ l.block + 1 # 0
    BY <1>1 DEF Line
  <2>3. Chunks(l.task, l.block + 1, 1 - 1) = <<>>
    BY DEF Chunks
  <2>4. l.kind # "stats"
    BY <1>1, <1>2 DEF LastOfBlock, Size
  <2>5. msg_buf = <<>> /\ ep = l.task
    BY <1>2, <2>4 DEF After
  <2> QED
    BY <2>1, <2>2, <2>3, <2>5 DEF Before
<1>3. CASE ~LastOfBlock(l)
  <2>1. NextLine(l) = Line(l.task, l.block, l.chunk + 1)
    BY <1>3 DEF NextLine
  <2>2. /\ Line(l.task, l.block, l.chunk + 1).block = l.block /\ Line(l.task, l.block, l.chunk + 1).task = l.task
        /\ Line(l.task, l.block, l.chunk + 1).chunk = l.chunk + 1 /\ (l.chunk + 1) - 1 = l.chunk
    BY <1>1 DEF Line
  <2>3. /\ l.block = 0 => msg_buf = <<>>
        /\ l.block # 0 => msg_buf = Chunks(l.task, l.block, l.chunk) /\ ep = l.task
    BY <1>1, <1>3 DEF After
  <2>4. l.block > 0 => l.block # 0
    BY <1>1
  <2> QED
    BY <2>1, <2>2, <2>3, <2>4 DEF Before
<1> QED
  BY <1>2, <1>3

LEMMA SendNextBlock == ASSUME BaseInv, TraceInv, BlockInv, SendNext PROVE BlockInv'
<1>1. /\ running /\ woken /\ ~woken'
      /\ was_cancelled' = (was_cancelled /\ ~Checked)
      /\ running' = running
      /\ UNCHANGED <<scenario, run, rx, down, up, mote, torn>>
      /\ Valid(sending) /\ scenario \in Scenarios
  BY SendNextCases DEF BaseInv
<1> SUFFICES ASSUME ~torn PROVE BlockInv'
  BY <1>1 DEF BlockInv
<1>2. LinesInv /\ CancelInv
  BY DEF BlockInv
<1>3. After(sending) /\ (was_cancelled => Cancelled)
  BY <1>1, <1>2 DEF LinesInv, CancelInv
<1>4. was_cancelled => Checked /\ LastOfBlock(sending)
  BY <1>3 DEF Cancelled, Checked
<1>5. ~was_cancelled'
  BY <1>1, <1>4
<1>6. CASE /\ ~LastOfResult(sending) /\ ~(Checked /\ was_cancelled)
           /\ Valid(NextLine(sending)) /\ sending' = NextLine(sending)
           /\ Writes(<<NextLine(sending)>>)
  <2>1. Before(NextLine(sending))
    BY <1>1, <1>3, <1>6, AfterBefore
  <2> QED
    BY <1>1, <1>5, <1>6, <2>1, BeginsBlock
<1>7. ASSUME LastOfResult(sending) \/ (Checked /\ was_cancelled) PROVE msg_buf = <<>>
  <2>1. LastOfBlock(sending)
    BY <1>4, <1>7 DEF LastOfResult
  <2> QED
    BY <1>3, <2>1 DEF After
<1>8. ASSUME LastOfResult(sending) \/ (Checked /\ was_cancelled), NEW t \in Asked,
             sending' = Line(t, 0, 1), Writes(<<Line(t, 0, 1)>>)
      PROVE  BlockInv'
  <2>1. Valid(Line(t, 0, 1)) /\ Before(Line(t, 0, 1))
    BY <1>1, <1>7, <1>8, FirstLine, FirstBefore
  <2> QED
    BY <1>1, <1>5, <1>8, <2>1, BeginsBlock
<1>9. CASE (LastOfResult(sending) \/ (Checked /\ was_cancelled)) /\ sending' = None /\ conn' = conn
  <2>1. msg_buf' = <<>> /\ open' = open
    BY <1>1, <1>7, <1>9 DEF mote
  <2>2. /\ ~Has(up, "cancel") /\ ~Has(rx, "cancel")
        /\ ~Results(down) /\ open = {} /\ ~Has(up, "ack") /\ ~Has(rx, "ack") /\ ~Waiting
    BY <1>1, NothingCancelled
  <2>3. ~Results(conn'[run'].tx) /\ Only(conn'[run'].tx, sending')
    BY <1>1, <1>9, <2>2, OnlyNone DEF Waiting
  <2> QED
    BY <1>1, <1>5, <2>1, <2>2, <2>3, BlockNew
<1> QED
  BY <1>6, <1>8, <1>9, SendNextCases

(* Lines on their way down. *)
LEMMA DownBlock ==
    ASSUME BlockInv, UNCHANGED <<scenario, running, run, sending, woken, was_cancelled, rx, up, ep, msg_buf, open, torn>>,
           ~torn => /\ Only(down', sending)
                    /\ running => Only(conn'[run].tx, sending)
                    /\ Results(down') \/ (running /\ Results(conn'[run].tx)) => Results(down) \/ Waiting
    PROVE  BlockInv'
<1>1. ~torn => LinesInv /\ CancelInv
  BY DEF BlockInv
<1> QED
  BY <1>1, BlockSame DEF CancelInv

(* A line passes through the bridge. *)
LEMMA ConnBlock ==
    ASSUME BaseInv, TraceInv, BlockInv, NEW r \in Runs, HandleConn(r)
    PROVE  BlockInv'
<1>1. /\ UNCHANGED <<scenario, running, run, sending, woken, was_cancelled, rx, up, ep, msg_buf, open, torn>>
      /\ \A q \in Runs : q # r => conn'[q] = conn[q]
      /\ conn[r].tx \in Seq(Lines) /\ down \in Seq(Lines)
  BY HandleConnCases DEF client, mote
<1>2. /\ running => run \in Runs
      /\ ~torn => LinesInv
  BY RunTyped DEF BlockInv
<1>3. ~torn => (Closed(r) => ~Results(conn[r].tx))
  BY OnePlace
<1>4. Closed(r) \/ (running /\ r = run)
  BY DEF Closed
<1>5. CASE conn[r].tx # <<>> /\ conn'[r].tx = Tail(conn[r].tx)
  <2>1. /\ Results(conn[r].tx) <=> Results(conn'[r].tx) \/ Head(conn[r].tx).kind \in Result
        /\ Only(conn[r].tx, sending) => Only(conn'[r].tx, sending) /\ (Head(conn[r].tx).kind \in Result => Head(conn[r].tx) = sending)
        /\ Head(conn[r].tx) \in Lines
    BY <1>1, <1>5, ResultsTail, OnlyTail, TailFacts
  <2>2. ASSUME ~torn PROVE /\ running => Only(conn'[run].tx, sending)
                           /\ running /\ Results(conn'[run].tx) => Waiting
                           /\ Head(conn[r].tx).kind \in Result => Waiting /\ Head(conn[r].tx) = sending
    <3>1. CASE running /\ r = run
      BY <1>2, <2>1, <2>2, <3>1 DEF LinesInv, Waiting
    <3>2. CASE Closed(r)
      <4>1. Head(conn[r].tx).kind \notin Result
        BY <1>3, <2>1, <2>2, <3>2
      <4>2. running => conn'[run] = conn[run]
        BY <1>1, <1>2, <3>2 DEF Closed
      <4> QED
        BY <1>2, <2>2, <4>1, <4>2 DEF LinesInv, Waiting
    <3> QED
      BY <1>4, <3>1, <3>2
  <2>3. CASE down' = down
    <3>1. ~torn => Only(down', sending)
      BY <1>2, <2>3 DEF LinesInv
    <3> QED
      BY <1>1, <2>2, <2>3, <3>1, DownBlock
  <2>4. CASE down' = Append(down, Head(conn[r].tx))
    <3>1. /\ Results(down') <=> Results(down) \/ Head(conn[r].tx).kind \in Result
          /\ Only(down', sending) <=> Only(down, sending) /\ (Head(conn[r].tx).kind \in Result => Head(conn[r].tx) = sending)
      BY <1>1, <2>1, <2>4, ResultsAppend, OnlyAppend
    <3>2. ~torn => Only(down, sending)
      BY <1>2 DEF LinesInv
    <3>3. ~torn => /\ Only(down', sending)
                   /\ Results(down') \/ (running /\ Results(conn'[run].tx)) => Results(down) \/ Waiting
      BY <2>2, <3>1, <3>2
    <3> QED
      BY <1>1, <2>2, <3>3, DownBlock
  <2> QED
    BY <2>3, <2>4, HandleConnCases
<1>6. CASE conn[r].tx = <<>> /\ conn'[r].tx = <<>> /\ down' = down
  <2>1. running => conn'[run].tx = conn[run].tx
    BY <1>1, <1>2, <1>6
  <2>2. ~torn => /\ Only(down', sending)
                 /\ running => Only(conn'[run].tx, sending)
    BY <1>2, <1>6, <2>1 DEF LinesInv
  <2>3. Results(down') \/ (running /\ Results(conn'[run].tx)) => Results(down) \/ Waiting
    BY <1>6, <2>1 DEF Waiting
  <2> QED
    BY <1>1, <2>2, <2>3, DownBlock
<1> QED
  BY <1>5, <1>6, HandleConnCases

(* Acknowledgements and cancels on their way up. *)
LEMMA UpBlock ==
    ASSUME BlockInv, UNCHANGED <<scenario, running, run, conn, sending, woken, was_cancelled, down, ep, msg_buf, open, torn>>,
           ~torn =>
             /\ Has(up', "ack") \/ Has(rx', "ack") => Has(up, "ack") \/ Has(rx, "ack")
             /\ Has(up', "cancel") => Has(up, "cancel") /\ ~Has(rx', "ack")
             /\ Has(rx', "cancel") => Has(up, "cancel") \/ Has(rx, "cancel")
             /\ CancelFirst(up') /\ CancelFirst(rx')
    PROVE  BlockInv'
<1>1. ~torn => LinesInv /\ CancelInv
  BY DEF BlockInv
<1>2. ~torn => /\ Only(down', sending)
               /\ running' => Only(conn'[run'].tx, sending)
  BY <1>1 DEF LinesInv
<1>3. Results(down') \/ (running' /\ Results(conn'[run'].tx)) => Results(down) \/ Waiting
  BY DEF Waiting
<1>4. ~torn => /\ Has(up', "cancel") => Has(up, "cancel") /\ ~Has(rx', "ack") /\ ~woken'
               /\ Has(rx', "cancel") => (Has(up, "cancel") \/ Has(rx, "cancel")) /\ ~woken'
               /\ Has(up', "ack") \/ Has(rx', "ack") \/ woken' => Has(up, "ack") \/ Has(rx, "ack") \/ woken
  BY <1>1 DEF CancelInv
<1> QED
  BY <1>2, <1>3, <1>4, BlockSame

LEMMA SerialBlock == ASSUME BaseInv, BlockInv, RunSerial PROVE BlockInv'
<1>1. /\ UNCHANGED <<scenario, running, run, conn, sending, woken, was_cancelled, down, ep, msg_buf, open, torn>>
      /\ up # <<>> /\ up' = Tail(up)
      /\ rx' = rx \/ rx' = Append(rx, Head(up))
      /\ up \in Seq(Reports) /\ rx \in Seq(Reports)
  BY DEF RunSerial, client, mote, BaseInv, TypeOK
<1>2. Head(up) \in Reports /\ \A k : Has(up, k) <=> Has(up', k) \/ Head(up).kind = k
  BY <1>1, HasTail, TailFacts
<1> SUFFICES ASSUME ~torn
             PROVE  /\ Has(up', "ack") \/ Has(rx', "ack") => Has(up, "ack") \/ Has(rx, "ack")
                    /\ Has(up', "cancel") => Has(up, "cancel") /\ ~Has(rx', "ack")
                    /\ Has(rx', "cancel") => Has(up, "cancel") \/ Has(rx, "cancel")
                    /\ CancelFirst(up') /\ CancelFirst(rx')
  BY <1>1, UpBlock
<1>3. /\ Has(up, "cancel") => ~Has(rx, "ack")
      /\ CancelFirst(up) /\ CancelFirst(rx)
  BY DEF BlockInv, CancelInv
<1>4. CancelFirst(up') /\ (Head(up).kind = "ack" => ~Has(up, "cancel"))
  BY <1>1, <1>3, CancelTail
<1>5. CASE rx' = rx
  BY <1>2, <1>3, <1>4, <1>5
<1>6. CASE rx' = Append(rx, Head(up))
  <2>1. \A k : Has(rx', k) <=> Has(rx, k) \/ Head(up).kind = k
    BY <1>1, <1>2, <1>6, HasAppend
  <2>2. Head(up).kind # "cancel" \/ ~Has(rx, "ack")
    BY <1>2, <1>3
  <2>3. CancelFirst(rx')
    BY <1>1, <1>2, <1>3, <1>6, <2>2, CancelAppend
  <2> QED
    BY <1>2, <1>3, <1>4, <2>1, <2>3
<1> QED
  BY <1>1, <1>5, <1>6

(* The sensor node prints something that is neither. *)
LEMMA PrintsBlock ==
    ASSUME BaseInv, BlockInv, NEW e \in Reports, e.kind \notin {"ack", "cancel"}, up' = Append(up, e),
           UNCHANGED <<scenario, running, run, conn, sending, woken, was_cancelled, rx, down, ep, msg_buf, open, torn>>
    PROVE  BlockInv'
<1>1. up \in Seq(Reports)
  BY DEF BaseInv, TypeOK
<1>2. /\ Has(up', "ack") <=> Has(up, "ack")
      /\ Has(up', "cancel") <=> Has(up, "cancel")
  BY <1>1, HasAppend
<1>3. ~torn => /\ Has(up, "cancel") => ~Has(rx, "ack")
               /\ CancelFirst(up) /\ CancelFirst(rx)
  BY DEF BlockInv, CancelInv
<1>4. ~torn => CancelFirst(up')
  BY <1>1, <1>3, CancelAppend
<1> QED
  BY <1>2, <1>3, <1>4, UpBlock

(* The chunks of a block, one more at a time. *)
LEMMA ChunkAppended ==
    ASSUME NEW t, NEW b, NEW n \in Nat
    PROVE  /\ Len(Chunks(t, b, n)) = n
           /\ Append(Chunks(t, b, n), Line(t, b, n + 1)) = Chunks(t, b, n + 1)
<1> DEFINE S == {Line(t, b, c) : c \in Nat}
           s == Chunks(t, b, n)
           e == Line(t, b, n + 1)
           u == Chunks(t, b, n + 1)
<1>1. e \in S /\ \A c \in 1..(n + 1) : Line(t, b, c) \in S
  OBVIOUS
<1>2. s = [c \in 1..n |-> Line(t, b, c)] /\ u = [c \in 1..(n + 1) |-> Line(t, b, c)]
  BY DEF Chunks
<1>a. n + 1 \in Nat /\ \A c \in 1..n : c \in 1..(n + 1)
  OBVIOUS
<1> HIDE DEF S, s, e, u
<1>3. s \in [1..n -> S] /\ u \in [1..(n + 1) -> S]
  BY <1>1, <1>2, <1>a
<1>4. s \in Seq(S) /\ Len(s) = n /\ u \in Seq(S) /\ Len(u) = n + 1
  BY <1>3, <1>a
<1>5. /\ Append(s, e) \in Seq(S) /\ Len(Append(s, e)) = n + 1
      /\ Append(s, e)[n + 1] = e
      /\ \A i \in 1..n : Append(s, e)[i] = s[i]
      /\ \A i \in 1..(n + 1) : i \in 1..n \/ i = n + 1
  BY <1>1, <1>4, AppendFacts
<1>6. u[n + 1] = e /\ \A i \in 1..n : u[i] = s[i]
  BY <1>2, <1>a DEF e
<1>7. \A i \in 1..(n + 1) : Append(s, e)[i] = u[i]
  BY <1>5, <1>6
<1>8. Append(s, e) = u
  BY <1>4, <1>5, <1>7
<1> QED
  BY <1>4, <1>8 DEF s, e, u

(* What the sensor node makes of the line the client waits for. *)
LEMMA HeardAfter ==
    ASSUME BaseInv, Fits, Valid(sending), Before(sending), HearsResult(sending), UNCHANGED <<scenario, sending>>
    PROVE  /\ After(sending)'
           /\ \/ Acks
              \/ \E x : /\ open' = open \cup {x} /\ up' = up /\ Whole(x)
                        /\ LastOfBlock(sending) /\ sending.kind # "stats"
<1> DEFINE l == sending
<1>1. /\ scenario \in Scenarios
      /\ l.task \in Asked
      /\ l.block \in 0..Len(scenario.blocks[l.task]) /\ l.block \in Nat
      /\ l.chunk \in 1..Size(l.task, l.block) /\ l.chunk \in Nat /\ l.chunk >= 1
      /\ l = Line(l.task, l.block, l.chunk)
      /\ l.kind = "stats" <=> l.block = 0 /\ l.chunk = 1
      /\ l.kind = "head" <=> l.block = 0 /\ l.chunk = 2
      /\ l.kind = "chunk" <=> l.block # 0
  BY ValidFacts DEF BaseInv
<1>2. LastOfBlock(sending)' <=> LastOfBlock(sending)
  BY SameLast
<1>3. CASE l.kind = "stats" /\ Acks /\ UNCHANGED <<ep, msg_buf>>
  <2>1. l.block = 0
    BY <1>1, <1>3
  <2>2. msg_buf' = <<>> /\ sending'.block = 0 /\ sending'.kind = "stats"
    BY <1>3, <2>1 DEF Before
  <2>3. After(sending)'
    BY <2>2 DEF After
  <2> QED
    BY <1>3, <2>3
<1>4. CASE l.kind = "head" /\ Answers([to |-> l.task, body |-> <<l>>]) /\ ep' = l.task /\ UNCHANGED msg_buf
  <2>1. l.block = 0 /\ l.chunk = 2
    BY <1>1, <1>4
  <2>2. msg_buf' = <<>> /\ sending'.block = 0 /\ ep' = sending'.task
    BY <1>4, <2>1 DEF Before
  <2>3. After(sending)'
    BY <2>2 DEF After
  <2> DEFINE x == [to |-> l.task, body |-> <<l>>]
  <2>4. x.to = l.task /\ x.body = <<Line(l.task, 0, 2)>>
    BY <1>1, <2>1
  <2>5. 0 \in 0..Len(scenario.blocks[l.task])
    BY <1>1, <2>1
  <2>6. LastOfBlock(l) /\ l.kind # "stats"
    BY <1>4, <2>1 DEF LastOfBlock, Size
  <2>7. Acks \/ (open' = open \cup {x} /\ up' = up)
    BY <1>4 DEF Answers
  <2> HIDE DEF x
  <2>8. Whole(x)
    BY <1>1, <2>4, <2>5 DEF Whole
  <2> QED
    BY <2>3, <2>6, <2>7, <2>8
<1>5. CASE l.kind = "chunk" /\ UNCHANGED ep
  <2> DEFINE n == l.chunk - 1
  <2>1. l.block # 0 /\ l.block > 0 /\ n \in Nat /\ n + 1 = l.chunk
    BY <1>1, <1>5
  <2>2. msg_buf = Chunks(l.task, l.block, n) /\ ep = l.task
    BY <2>1 DEF Before
  <2>3. /\ Len(Chunks(l.task, l.block, n)) = n
        /\ Append(Chunks(l.task, l.block, n), Line(l.task, l.block, n + 1)) = Chunks(l.task, l.block, n + 1)
    BY <2>1, ChunkAppended
  <2>4. Size(l.task, l.block) \in Nat /\ Size(l.task, l.block) <= BufLen /\ BufLen \in Nat
    BY <1>1, <2>1, SizeFacts, ScenarioFacts
  <2>5. Len(msg_buf) < BufLen
    BY <1>1, <2>1, <2>2, <2>3, <2>4
  <2>6. Append(msg_buf, l) = Chunks(l.task, l.block, l.chunk)
    BY <1>1, <2>1, <2>2, <2>3
  <2>7. CASE LastOfBlock(l) /\ Answers([to |-> ep, body |-> Append(msg_buf, l)]) /\ msg_buf' = <<>>
    <3>1. After(sending)'
      BY <1>2, <1>5, <2>2, <2>7 DEF After
    <3> DEFINE x == [to |-> ep, body |-> Append(msg_buf, l)]
    <3>2. x.to = l.task /\ x.body = Chunks(l.task, l.block, Size(l.task, l.block))
      BY <2>2, <2>6, <2>7 DEF LastOfBlock
    <3>3. Acks \/ (open' = open \cup {x} /\ up' = up)
      BY <2>7 DEF Answers
    <3> HIDE DEF x
    <3>4. x.body = [c \in 1..Size(x.to, l.block) |-> Line(x.to, l.block, c)] /\ x.to \in Asked
          /\ l.block \in 0..Len(scenario.blocks[x.to])
      BY <1>1, <3>2 DEF Chunks
    <3>5. Whole(x)
      BY <2>1, <3>4 DEF Whole
    <3> QED
      BY <1>5, <2>7, <3>1, <3>3, <3>5
  <2>8. CASE ~LastOfBlock(l) /\ Acks /\ msg_buf' = Append(msg_buf, l)
    <3>1. msg_buf' = Chunks(sending'.task, sending'.block, sending'.chunk) /\ sending'.block # 0
          /\ ep' = sending'.task /\ ~LastOfBlock(sending)'
      BY <1>2, <1>5, <2>1, <2>2, <2>6, <2>8
    <3>2. After(sending)'
      BY <3>1 DEF After, Chunks, Line
    <3> QED
      BY <2>8, <3>2
  <2> QED
    BY <1>5, <2>5, <2>7, <2>8 DEF HearsResult
<1> QED
  BY <1>3, <1>4, <1>5 DEF HearsResult

(* Steps after which the sensor node has had the line. *)
LEMMA BlockHeard ==
    ASSUME UNCHANGED <<scenario, sending>>,
           ~torn' =>
             /\ ~Results(down') /\ (running' => ~Results(conn'[run'].tx))
             /\ sending # None /\ After(sending)'
             /\ \A x \in open' : Whole(x)
             /\ open' # {} => LastOfBlock(sending) /\ sending.kind # "stats"
             /\ Has(up', "cancel") => Cancelled /\ ~Has(rx', "ack") /\ ~woken'
             /\ Has(rx', "cancel") => Cancelled /\ ~woken'
             /\ CancelFirst(up') /\ CancelFirst(rx')
             /\ was_cancelled' => Cancelled
    PROVE  BlockInv'
<1> SUFFICES ASSUME ~torn' PROVE LinesInv' /\ CancelInv'
  BY DEF BlockInv
<1>1. /\ LastOfBlock(sending)' <=> LastOfBlock(sending)
      /\ \A x : Whole(x)' <=> Whole(x)
  BY SameLast
<1>2. Cancelled' <=> Cancelled
  BY <1>1 DEF Cancelled
<1>3. Only(down', sending') /\ (running' => Only(conn'[run'].tx, sending'))
  BY OnlyNone
<1>4. Only(down, sending)' /\ (running => Only(conn[run].tx, sending))'
  BY <1>3 DEF Only
<1>5. ~(Results(down) \/ (running /\ Results(conn[run].tx)))'
  BY DEF Results
<1>6. LinesInv'
  BY <1>1, <1>4, <1>5 DEF LinesInv
<1>7. /\ (Has(up, "cancel") => Cancelled /\ ~Has(rx, "ack") /\ ~woken)'
      /\ (Has(rx, "cancel") => Cancelled /\ ~woken)'
      /\ (CancelFirst(up) /\ CancelFirst(rx) /\ (was_cancelled => Cancelled))'
  BY <1>2 DEF Has, CancelFirst
<1> QED
  BY <1>6, <1>7 DEF CancelInv

LEMMA ProcessBlock == ASSUME BaseInv, Fits, TraceInv, BlockInv, process_serial_message PROVE BlockInv'
<1> DEFINE l == Head(down)
<1>1. /\ down # <<>> /\ down' = Tail(down)
      /\ UNCHANGED <<scenario, running, run, sending, woken, was_cancelled, rx, conn, torn>>
      /\ down \in Seq(Lines) /\ up \in Seq(Reports)
  BY ProcessCases DEF client, BaseInv, TypeOK
<1> SUFFICES ASSUME ~torn PROVE BlockInv'
  BY <1>1 DEF BlockInv
<1>2. LinesInv /\ CancelInv
  BY DEF BlockInv
<1>3. /\ Results(down) <=> Results(down') \/ l.kind \in Result
      /\ Only(down', sending) /\ (l.kind \in Result => l = sending)
  BY <1>1, <1>2, ResultsTail, OnlyTail DEF LinesInv
<1>4. CASE l.kind \in Result /\ HearsResult(l)
  <2>1. Results(down) /\ l = sending /\ Before(sending)
    BY <1>2, <1>3, <1>4 DEF LinesInv
  <2>2. /\ ~Waiting /\ open = {} /\ ~Has(up, "ack") /\ ~Has(rx, "ack") /\ ~woken
        /\ ~Results(down') /\ sending # None
    BY <1>1, <1>4, <2>1, OnePlace
  <2>3. Valid(sending)
    BY <2>2 DEF BaseInv
  <2>4. /\ After(sending)'
        /\ \/ Acks
           \/ \E x : /\ open' = open \cup {x} /\ up' = up /\ Whole(x)
                     /\ LastOfBlock(sending) /\ sending.kind # "stats"
    BY <1>1, <1>4, <2>1, <2>3, HeardAfter
  <2>5. /\ \A x \in open' : Whole(x)
        /\ open' # {} => LastOfBlock(sending) /\ sending.kind # "stats"
    BY <2>2, <2>4 DEF Acks
  <2>6. up' = up \/ up' = Append(up, [kind |-> "ack", task |-> None])
    BY <2>4 DEF Acks
  <2>7. (Has(up', "cancel") => Has(up, "cancel")) /\ CancelFirst(up')
    <3>1. [kind |-> "ack", task |-> None] \in Reports /\ [kind |-> "ack", task |-> None].kind = "ack"
      BY ReportFacts
    <3>2. CancelFirst(up)
      BY <1>2 DEF CancelInv
    <3>3. CASE up' = up
      BY <3>2, <3>3
    <3>4. CASE up' = Append(up, [kind |-> "ack", task |-> None])
      BY <1>1, <3>1, <3>2, <3>4, HasAppend, CancelAppend
    <3> QED
      BY <2>6, <3>3, <3>4
  <2>8. running' => ~Results(conn'[run'].tx)
    BY <1>1, <2>2 DEF Waiting
  <2>9. /\ Has(up', "cancel") => Cancelled /\ ~Has(rx', "ack") /\ ~woken'
        /\ Has(rx', "cancel") => Cancelled /\ ~woken'
        /\ CancelFirst(rx')
        /\ was_cancelled' => Cancelled
    BY <1>1, <1>2, <2>7 DEF CancelInv
  <2> QED
    BY <1>1, <2>2, <2>4, <2>5, <2>7, <2>8, <2>9, BlockHeard
<1>5. Results(down') \/ (running' /\ Results(conn'[run'].tx)) => Results(down) \/ Waiting
  BY <1>1, <1>3 DEF Waiting
<1>6. /\ Only(down', sending) /\ (running' => Only(conn'[run'].tx, sending))
      /\ CancelFirst(up) /\ CancelFirst(rx') /\ (was_cancelled' => was_cancelled)
      /\ Has(up, "cancel") => ~Has(rx', "ack") /\ ~woken'
      /\ Has(rx', "cancel") => Has(rx, "cancel") /\ ~woken'
      /\ (Has(rx', "ack") <=> Has(rx, "ack")) /\ (woken' <=> woken)
  BY <1>1, <1>2, <1>3 DEF LinesInv, CancelInv
<1>7. CASE HearsSwitch(l)
  <2>1. UNCHANGED <<up, ep, msg_buf, open>>
    BY <1>7 DEF HearsSwitch
  <2> QED
    BY <1>1, <1>5, <1>6, <2>1, BlockSame
<1>8. CASE HearsBridge(l)
  <2> DEFINE e == [kind |-> IF l.kind = "edge_start" THEN "start_ack" ELSE "stop_ack", task |-> None]
  <2>1. UNCHANGED <<ep, msg_buf, open>> /\ up' = Append(up, e)
    BY <1>8 DEF HearsBridge
  <2>2. e \in Reports /\ e.kind # "ack" /\ e.kind # "cancel"
    BY ReportFacts
  <2> HIDE DEF e
  <2>3. /\ Has(up', "ack") <=> Has(up, "ack")
        /\ Has(up', "cancel") <=> Has(up, "cancel")
        /\ CancelFirst(up')
    BY <1>1, <1>6, <2>1, <2>2, HasAppend, CancelAppend
  <2> QED
    BY <1>1, <1>5, <1>6, <2>1, <2>3, BlockSame
<1> QED
  BY <1>4, <1>7, <1>8, ProcessCases

(* The exchange of the line ends. *)
LEMMA ExchangeBlock ==
    ASSUME BaseInv, TraceInv, BlockInv, NEW x \in open, NEW outcome \in Outcomes, ExchangeEnds(x, outcome)
    PROVE  BlockInv'
<1> DEFINE c == [kind |-> "cancel", task |-> None]
           a == [kind |-> "ack", task |-> None]
<1>1. /\ UNCHANGED <<scenario, running, run, sending, woken, was_cancelled, rx, conn, down, ep, msg_buf, torn>>
      /\ open' = open \ {x}
      /\ up \in Seq(Reports)
      /\ up' = Append(up, a) \/ (scenario.app = "routing" /\ up' = Append(Append(up, c), a))
  BY ExchangeCases DEF client, BaseInv, TypeOK
<1> SUFFICES ASSUME ~torn PROVE BlockInv'
  BY <1>1 DEF BlockInv
<1>2. LinesInv /\ CancelInv
  BY DEF BlockInv
<1>3. /\ ~Waiting /\ ~Results(down) /\ ~Has(up, "ack") /\ ~Has(rx, "ack") /\ ~woken
      /\ sending # None
  BY OnePlace
<1>4. /\ After(sending) /\ LastOfBlock(sending) /\ sending.kind # "stats"
      /\ \A y \in open : Whole(y)
      /\ CancelFirst(up) /\ CancelFirst(rx) /\ (was_cancelled => Cancelled)
      /\ Has(up, "cancel") \/ Has(rx, "cancel") => Cancelled
  BY <1>2 DEF LinesInv, CancelInv
<1>5. After(sending)'
  BY <1>1, <1>4, SameNode
<1>6. a \in Reports /\ c \in Reports /\ a.kind = "ack" /\ c.kind = "cancel"
  BY ReportFacts
<1> HIDE DEF a, c
<1>7. Append(up, c) \in Seq(Reports) /\ CancelFirst(Append(up, c))
  BY <1>1, <1>3, <1>4, <1>6, CancelAppend, AppendFacts
<1>8. CancelFirst(up')
  <2>1. CancelFirst(Append(up, a)) /\ CancelFirst(Append(Append(up, c), a))
    BY <1>1, <1>4, <1>6, <1>7, CancelAppend
  <2> QED
    BY <1>1, <2>1
<1>9. Has(up', "cancel") => Cancelled
  <2>1. CASE up' = Append(up, a)
    BY <1>1, <1>4, <1>6, <2>1, HasAppend
  <2>2. CASE scenario.app = "routing"
    BY <1>3, <1>4, <2>2 DEF Cancelled
  <2> QED
    BY <1>1, <2>1, <2>2
<1>10. running' => ~Results(conn'[run'].tx)
  BY <1>1, <1>3 DEF Waiting
<1>11. \A y \in open' : Whole(y)
  BY <1>1, <1>4
<1> QED
  BY <1>1, <1>3, <1>4, <1>5, <1>8, <1>9, <1>10, <1>11, BlockHeard

LEMMA LostBlock == ASSUME BaseInv, BlockInv, LineLost PROVE BlockInv'
<1>1. /\ UNCHANGED <<scenario, running, run, sending, woken, was_cancelled, rx, conn, ep, msg_buf, open, torn>>
      /\ down \in Seq(Lines) /\ up \in Seq(Reports)
  BY DEF LineLost, client, mote, BaseInv, TypeOK
<1>2. ~torn => LinesInv /\ CancelInv
  BY DEF BlockInv
<1>3. CASE down # <<>> /\ down' = Tail(down) /\ UNCHANGED up
  <2>1. /\ Results(down') => Results(down)
        /\ Only(down, sending) => Only(down', sending)
    BY <1>1, <1>3, ResultsTail, OnlyTail
  <2>2. running => conn'[run] = conn[run]
    BY <1>1
  <2>3. ~torn => /\ Only(down', sending)
                 /\ running => Only(conn'[run].tx, sending)
    BY <1>2, <2>1, <2>2 DEF LinesInv
  <2>4. Results(down') \/ (running /\ Results(conn'[run].tx)) => Results(down) \/ Waiting
    BY <2>1, <2>2 DEF Waiting
  <2> QED
    BY <1>1, <1>3, <2>3, <2>4, DownBlock
<1>4. CASE up # <<>> /\ up' = Tail(up) /\ UNCHANGED down
  <2>1. /\ Has(up', "ack") => Has(up, "ack")
        /\ Has(up', "cancel") => Has(up, "cancel")
        /\ CancelFirst(up) => CancelFirst(up')
    BY <1>1, <1>4, HasTail, CancelTail
  <2>2. ~torn => /\ CancelFirst(up') /\ CancelFirst(rx)
                 /\ Has(up', "cancel") => Has(up, "cancel") /\ ~Has(rx, "ack")
    BY <1>2, <2>1 DEF CancelInv
  <2> QED
    BY <1>1, <1>4, <2>1, <2>2, UpBlock
<1> QED
  BY <1>3, <1>4 DEF LineLost

(* The bridge says that it starts or stops. *)
LEMMA TellsBlock == ASSUME BaseInv, BlockInv, Informed \/ NotInformed \/ BridgeStop PROVE BlockInv'
<1>1. /\ UNCHANGED <<scenario, running, run, sending, woken, was_cancelled, rx, conn, up, ep, msg_buf, open, torn>>
      /\ down \in Seq(Lines)
  BY DEF Informed, NotInformed, BridgeStop, client, mote, BaseInv, TypeOK
<1>2. ~torn => LinesInv
  BY DEF BlockInv
<1>3. down' = down \/ \E k \in {"edge_start", "edge_stop"} : down' = Append(down, Note(k))
  BY DEF Informed, NotInformed, BridgeStop
<1>4. (Results(down') => Results(down)) /\ (Only(down, sending) => Only(down', sending))
  <2>1. CASE down' = down
    BY <2>1
  <2>2. ASSUME NEW k \in {"edge_start", "edge_stop"}, down' = Append(down, Note(k))
        PROVE  (Results(down') => Results(down)) /\ (Only(down, sending) => Only(down', sending))
    <3>1. Note(k) \in Lines /\ Note(k).kind \notin Result
      BY NoteFacts
    <3> QED
      BY <1>1, <2>2, <3>1, ResultsAppend, OnlyAppend
  <2> QED
    BY <1>3, <2>1, <2>2
<1>5. running => conn'[run] = conn[run]
  BY <1>1
<1>6. ~torn => /\ Only(down', sending)
               /\ running => Only(conn'[run].tx, sending)
  BY <1>2, <1>4, <1>5 DEF LinesInv
<1>7. Results(down') \/ (running /\ Results(conn'[run].tx)) => Results(down) \/ Waiting
  BY <1>4, <1>5 DEF Waiting
<1> QED
  BY <1>1, <1>6, <1>7, DownBlock

LEMMA InitBlock == Init => BlockInv
<1> SUFFICES ASSUME Init PROVE BlockInv
  OBVIOUS
<1>1. /\ running = FALSE /\ sending = None /\ woken = FALSE /\ was_cancelled = FALSE /\ rx = <<>> /\ up = <<>>
      /\ open = {} /\ msg_buf = <<>>
  BY DEF Init
<1>2. down = <<Note("edge_start")>> /\ Note("edge_start").kind \notin Result
  BY NoteFacts DEF Init
<1>3. \A i \in 1..Len(down) : down[i].kind \notin Result
  BY <1>2
<1>4. ~Results(down) /\ Only(down, sending)
  BY <1>3 DEF Results, Only
<1>5. /\ ~Has(up, "ack") /\ ~Has(rx, "ack") /\ ~Has(up, "cancel") /\ ~Has(rx, "cancel")
      /\ CancelFirst(up) /\ CancelFirst(rx)
  BY <1>1, HasNone, NothingThere
<1> QED
  BY <1>1, <1>4, <1>5 DEF BlockInv, LinesInv, CancelInv

LEMMA FailsBlock == ASSUME BlockInv, NEW k, TaskFails(k) PROVE BlockInv'
<1>1. UNCHANGED <<scenario, run, running, sending, woken, was_cancelled, rx, conn, down, up, ep, msg_buf, open, torn>>
  BY DEF TaskFails, mote
<1> QED
  BY <1>1, UnchangedBlock

(* Blocks that fit do so from the start. *)
LEMMA StillFits == BaseInv /\ [Next]_vars => (Fits' <=> Fits)
<1> SUFFICES ASSUME BaseInv, [Next]_vars PROVE scenario' = scenario
  BY DEF Fits
<1>1. CASE AppStart \/ AppStop \/ AppCrash \/ Client
  BY <1>1 DEF AppStart, AppStop, AppCrash, Client, Work, AppReads, TaskDone, TaskFails, SendNext
<1>2. CASE Bridge \/ Informed \/ NotInformed \/ BridgeStop \/ BridgeEnd
  BY <1>2 DEF Bridge, HandleConn, RunSerial, Informed, NotInformed, BridgeStop, BridgeEnd
<1>3. CASE process_serial_message \/ LockExpires \/ LineLost \/ \E t \in Tasks : post_handler(t)
  BY <1>3 DEF process_serial_message, LockExpires, LineLost, post_handler
<1>4. CASE \E x \in open, outcome \in Outcomes : ExchangeEnds(x, outcome)
  BY <1>4 DEF ExchangeEnds
<1> QED
  BY <1>1, <1>2, <1>3, <1>4 DEF Next, vars

LEMMA NextBlock == BaseInv /\ Fits /\ TraceInv /\ BlockInv /\ [Next]_vars => BlockInv'
<1> SUFFICES ASSUME BaseInv, Fits, TraceInv, BlockInv, [Next]_vars PROVE BlockInv'
  OBVIOUS
<1>1. CASE UNCHANGED vars
  <2>1. UNCHANGED <<scenario, run, running, sending, woken, was_cancelled, rx, conn, down, up, ep, msg_buf, open, torn>>
    BY <1>1 DEF vars, client, mote
  <2> QED
    BY <2>1, UnchangedBlock
<1>2. CASE AppStop \/ AppCrash \/ BridgeEnd
  <2>1. EndRun /\ UNCHANGED <<down, up, mote>>
    BY <1>2 DEF AppStop, AppCrash, BridgeEnd
  <2> QED
    BY <2>1, EndsBlock
<1>3. CASE Client
  BY <1>3, ReadsBlock, DoneBlock, FailsBlock, SendNextBlock DEF Client, Work
<1>4. CASE Bridge
  BY <1>4, ConnBlock, SerialBlock DEF Bridge
<1>5. ASSUME NEW t \in Tasks, post_handler(t) PROVE BlockInv'
  <2>1. /\ up' = Append(up, [kind |-> "task", task |-> t])
        /\ UNCHANGED <<scenario, running, run, conn, sending, woken, was_cancelled, rx, down, ep, msg_buf, open, torn>>
    BY <1>5 DEF post_handler, client, mote
  <2>2. [kind |-> "task", task |-> t] \in Reports
    BY DEF Reports
  <2> QED
    BY <2>1, <2>2, PrintsBlock
<1>6. CASE LockExpires
  <2>1. UNCHANGED <<scenario, run, running, sending, woken, was_cancelled, rx, conn, down, up, ep, msg_buf, open, torn>>
    BY <1>6 DEF LockExpires, client
  <2> QED
    BY <2>1, UnchangedBlock
<1>7. CASE \E x \in open, outcome \in Outcomes : ExchangeEnds(x, outcome)
  BY <1>7, ExchangeBlock
<1> QED
  BY <1>1, <1>2, <1>3, <1>4, <1>5, <1>6, <1>7, StartsBlock, TellsBlock, ProcessBlock, LostBlock DEF Next

(* Every request the sensor node sends for a result is one block of it, whole    *)
(* and in order (process_task_resp1, process_task_resp2 and _send_result), as    *)
(* long as no application has been stopped in the middle of a result and no     *)
(* block is longer than msg_buf.                                              *)
THEOREM BlocksAreWhole == Spec => []BlockIsWhole
<1> DEFINE I == BaseInv /\ ConnInv /\ TraceInv /\ (Fits => BlockInv)
<1>1. Init => I
  BY InitBase, InitConn, InitTrace, InitBlock
<1>2. I /\ [Next]_vars => I'
  BY NextBase, NextConn, NextTrace, NextBlock, StillFits
<1>3. I => BlockIsWhole
  <2> SUFFICES ASSUME I PROVE BlockIsWhole
    OBVIOUS
  <2>1. ~torn /\ Fits => \A x \in open : Whole(x)
    BY DEF BlockInv, LinesInv
  <2> QED
    BY <2>1 DEF BlockIsWhole, Whole, BaseInv
<1> HIDE DEF I
<1> QED
  BY <1>1, <1>2, <1>3, PTL DEF Spec
=============================================================================
