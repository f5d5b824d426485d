------------------------------- MODULE EdgeTask -------------------------------
(***************************************************************************)
(* How the result of a task gets from an application on the resource-rich   *)
(* side of an Edge to the node that asked for it: the application's client   *)
(* (client_common.py, routing.py, challenge_response.py), the bridge between *)
(* it and the serial line (edge_bridge.py), and the Edge's sensor node       *)
(* (edge.c and the task-receive and task-response files).                    *)
(*                                                                           *)
(* A result is sent as lines of at most 127 characters, each one only after  *)
(* the one before it was acknowledged.  Block 0 of a result is its           *)
(* statistics and its head; each further block is one CoAP message, put      *)
(* together from the chunks of several lines.  A challenge's result has a    *)
(* block 0 only.  Each task comes from a node of its own, which is known by   *)
(* the task.  At most one line is on its way, so the client's drain() never   *)
(* waits and writing a line and waiting for its acknowledgement is one step. *)
(***************************************************************************)
EXTENDS Naturals, Sequences, FiniteSets

CONSTANTS
    Tasks,
    BufLen,       \* chunks that msg_buf holds
    MaxWorkers,   \* tasks computed at the same time
    AckRetryThreshold,
    MaxRuns,      \* bound: times the application is started
    Scenarios,
    None

(* "send": coap_send_request may fail,  "expire": the lock may expire before   *)
(* the exchange ends,  "loss": the serial line may lose a line,               *)
(* "crash": the application may end without a word,  "overlap": it may be      *)
(* started again before the bridge has seen the end of its old connection,    *)
(* "timeout": an acknowledgement may come after the bridge's timeout,         *)
(* "raise": a task may not be parsed, or the executor may raise.             *)
Faults == {"send", "expire", "loss", "crash", "overlap", "timeout", "raise"}

Runs == 1..MaxRuns

ASSUME TaskAssumption == None \notin Tasks \cup Nat
ASSUME BoundAssumption == {BufLen, MaxWorkers, AckRetryThreshold, MaxRuns} \subseteq Nat \ {0}

(* app; the sizes of the blocks of each task's result, in chunks, of which      *)
(* msg_buf may hold fewer; how often the application is started and whether    *)
(* the bridge is stopped.                                                    *)
ASSUME ScenarioAssumption ==
    \A s \in Scenarios : /\ s.app \in {"routing", "cr"}
                         /\ s.faults \subseteq Faults
                         /\ DOMAIN s.blocks \subseteq Tasks
                         /\ \A t \in DOMAIN s.blocks : s.blocks[t] \in Seq(Nat \ {0})
                         /\ s.runs \in 0..MaxRuns
                         /\ s.stops \in BOOLEAN

VARIABLES
    scenario,
    \* the client
    run,            \* the run of the application, 0 before the first
    running,
    jobs,           \* tasks given to the executor
    ready,          \* results that wait for response_lock
    sending,        \* the line last written under response_lock, or None
    woken,          \* ack_cond has been notified
    was_cancelled,
    rx,             \* lines from the bridge
    \* the bridge
    conn,           \* per run: the lines written, and how far the bridge's handler is
    application,    \* self.applications[name]
    bridge,         \* its state, the lines of it sent in vain, the acks it has had
    down, up,       \* the serial line
    \* the sensor node
    available,      \* applications_available
    started,        \* resource_rich_edge_started
    ep, msg_buf,    \* msg_buf up to msg_buf_offset
    locked,         \* coap_callback_in_use
    open,           \* requests that CoAP has not ended
    \* history
    posted,         \* tasks that nodes have sent
    torn,           \* the application ended in the middle of a result
    orphaned        \* its last end was a crash

client == <<run, running, jobs, ready, sending, woken, was_cancelled>>
mote   == <<available, started, ep, msg_buf, locked, open>>
vars   == <<scenario, client, rx, conn, application, bridge, down, up, mote, posted, torn, orphaned>>

Fault(f) == f \in scenario.faults

-----------------------------------------------------------------------------
(* Lines. *)

Note(kind) == [kind |-> kind, task |-> None, block |-> 0, chunk |-> 0]

(* The chunks of a block of t's result. *)
Size(t, block) == IF block = 0 THEN 2 ELSE scenario.blocks[t][block]

Line(t, block, chunk) ==
    [kind |-> IF block > 0 THEN "chunk" ELSE IF chunk = 1 THEN "stats" ELSE "head",
     task |-> t, block |-> block, chunk |-> chunk]

LastOfBlock(l) == l.chunk = Size(l.task, l.block)

LastOfResult(l) == LastOfBlock(l) /\ l.block = Len(scenario.blocks[l.task])

NextLine(l) == IF LastOfBlock(l) THEN Line(l.task, l.block + 1, 1) ELSE Line(l.task, l.block, l.chunk + 1)

Result == {"stats", "head", "chunk"}

-----------------------------------------------------------------------------
(* The client. *)

Writes(lines) == conn' = [conn EXCEPT ![run].tx = @ \o lines]

(* start: the application's name, and that it is available. *)
AppStart ==
    /\ ~running /\ run < scenario.runs
    /\ bridge.state \in {"starting", "up"}
    /\ Fault("overlap") \/ \A r \in Runs : conn[r].handler \in {"none", "ended"}
    /\ run' = run + 1 /\ running' = TRUE
    /\ conn' = [conn EXCEPT ![run + 1] = [tx |-> <<Note("name"), Note("start")>>, handler |-> "connected"]]
    /\ jobs' = <<>> /\ ready' = <<>> /\ sending' = None
    /\ woken' = FALSE /\ was_cancelled' = FALSE /\ rx' = <<>>
    /\ UNCHANGED <<scenario, application, bridge, down, up, mote, posted, torn, orphaned>>

EndRun ==
    /\ running' = FALSE
    /\ jobs' = <<>> /\ ready' = <<>> /\ sending' = None
    /\ woken' = FALSE /\ was_cancelled' = FALSE /\ rx' = <<>>
    /\ torn' = (torn \/ sending # None)
    /\ UNCHANGED run

(* A signal stops the application: it says so and closes the connection.      *)
AppStop ==
    /\ running /\ run < scenario.runs
    /\ EndRun
    /\ Writes(<<Note("stop")>>)
    /\ orphaned' = FALSE
    /\ UNCHANGED <<scenario, application, bridge, down, up, mote, posted>>

AppCrash ==
    /\ running /\ run < scenario.runs /\ Fault("crash")
    /\ EndRun
    /\ orphaned' = TRUE
    /\ UNCHANGED <<scenario, conn, application, bridge, down, up, mote, posted>>

(* run: a line from the bridge.  An acknowledgement that nobody waits for, or  *)
(* a second one before the waiting coroutine has run, is lost.               *)
AppReads ==
    /\ running /\ rx # <<>>
    /\ rx' = Tail(rx)
    /\ woken' = (woken \/ (Head(rx).kind = "ack" /\ sending # None))
    /\ was_cancelled' = (was_cancelled \/ Head(rx).kind = "cancel")
    /\ jobs' = IF Head(rx).kind = "task" THEN Append(jobs, Head(rx).task) ELSE jobs
    /\ UNCHANGED <<scenario, run, running, ready, sending, conn, application, bridge, down, up, mote,
                   posted, torn, orphaned>>

Begin(t) == sending' = Line(t, 0, 1) /\ Writes(<<Line(t, 0, 1)>>)

JobEnds(k) == jobs' = [i \in 1..(Len(jobs) - 1) |-> IF i < k THEN jobs[i] ELSE jobs[i + 1]]

(* One of the tasks the workers are at is done: its result is sent at once, or *)
(* when the others before it have been.                                      *)
TaskDone(k) ==
    /\ running
    /\ k \in DOMAIN jobs /\ k <= MaxWorkers
    /\ JobEnds(k)
    /\ IF sending = None THEN Begin(jobs[k]) /\ UNCHANGED ready
       ELSE ready' = Append(ready, jobs[k]) /\ UNCHANGED <<sending, conn>>
    /\ UNCHANGED <<scenario, run, running, woken, was_cancelled, rx, application, bridge, down, up, mote,
                   posted, torn, orphaned>>

(* A task that cannot be parsed, or whose computation raises, has no result. *)
TaskFails(k) ==
    /\ running /\ Fault("raise")
    /\ k \in DOMAIN jobs
    /\ JobEnds(k)
    /\ UNCHANGED <<scenario, run, running, ready, sending, woken, was_cancelled, rx, conn, application, bridge,
                   down, up, mote, posted, torn, orphaned>>

(* routing.py looks at was_cancelled after every line but the statistics. *)
Checked == scenario.app = "routing" /\ sending.kind # "stats"

(* _send_result goes on after an acknowledgement: the next line, or the next   *)
(* result.                                                                   *)
SendNext ==
    /\ running /\ woken
    /\ woken' = FALSE
    /\ was_cancelled' = (was_cancelled /\ ~Checked)
    /\ IF ~LastOfResult(sending) /\ ~(Checked /\ was_cancelled)
       THEN /\ sending' = NextLine(sending)
            /\ Writes(<<NextLine(sending)>>)
            /\ UNCHANGED ready
       ELSE IF ready # <<>> THEN Begin(Head(ready)) /\ ready' = Tail(ready)
       ELSE sending' = None /\ UNCHANGED <<conn, ready>>
    /\ UNCHANGED <<scenario, run, running, jobs, rx, application, bridge, down, up, mote, posted, torn, orphaned>>

-----------------------------------------------------------------------------
(* The bridge. *)

Closed(r) == r # run \/ ~running

(* _handle_application_conn *)
HandleConn(r) ==
    /\ \/ /\ conn[r].handler = "connected"
          /\ conn' = [conn EXCEPT ![r].tx = Tail(@), ![r].handler = "named"]
          /\ application' = r
          /\ UNCHANGED down
       \/ /\ conn[r].handler = "named" /\ conn[r].tx # <<>>
          /\ conn' = [conn EXCEPT ![r].tx = Tail(@)]
          /\ down' = Append(down, Head(conn[r].tx))
          /\ UNCHANGED application
       \/ /\ conn[r].handler = "named" /\ conn[r].tx = <<>> /\ Closed(r)
          /\ conn' = [conn EXCEPT ![r].handler = "ended"]
          /\ application' = None    \* whoever's it is
          /\ UNCHANGED down
    /\ UNCHANGED <<scenario, client, rx, bridge, up, mote, posted, torn, orphaned>>

(* _run_serial: a line of an application goes to its connection if there is    *)
(* one; one of the Edge's sets the event of the acknowledgement.  SerialFails    *)
(* is when writing to a connection that its client has closed can raise.      *)
RunSerial ==
    /\ up # <<>> /\ bridge.state \in {"starting", "up", "stopping"}
    /\ up' = Tail(up)
    /\ bridge' = IF Head(up).kind \in {"start_ack", "stop_ack"}
                 THEN [bridge EXCEPT !.acked = @ \cup {Head(up).kind}] ELSE bridge
    /\ rx' = IF Head(up).kind \in {"ack", "cancel", "task"} /\ running /\ application = run
             THEN Append(rx, Head(up)) ELSE rx
    /\ UNCHANGED <<scenario, client, conn, application, down, mote, posted, torn, orphaned>>

SerialFails ==
    /\ up # <<>> /\ Head(up).kind \in {"ack", "cancel", "task"}
    /\ application # None /\ Closed(application)

(* _inform_edge_bridge_started: the wait for the acknowledgement ends with it, *)
Informed ==
    /\ bridge.state = "starting" /\ "start_ack" \in bridge.acked /\ bridge.tries < AckRetryThreshold
    /\ bridge' = [bridge EXCEPT !.state = "up"]
    /\ UNCHANGED <<scenario, client, rx, conn, application, down, up, mote, posted, torn, orphaned>>

(* or with a timeout, and then the line is sent again, so many times. *)
NotInformed ==
    /\ bridge.state = "starting" /\ "start_ack" \notin bridge.acked
    /\ Fault("timeout") \/ ~\E l \in {down[i] : i \in DOMAIN down} \cup {up[i] : i \in DOMAIN up} :
                                l.kind \in {"edge_start", "start_ack"}
    /\ bridge.tries < AckRetryThreshold
    /\ bridge' = [bridge EXCEPT !.tries = @ + 1]
    /\ down' = IF bridge.tries + 1 < AckRetryThreshold THEN Append(down, Note("edge_start")) ELSE down
    /\ UNCHANGED <<scenario, client, rx, conn, application, up, mote, posted, torn, orphaned>>

(* stop: the server is closed and the sensor node is told, once: the end of     *)
(* serve_forever ends run and the program, before _inform_edge_bridge_stopped  *)
(* has waited for an answer.                                                 *)
BridgeStop ==
    /\ bridge.state \in {"starting", "up"} /\ scenario.stops
    /\ bridge' = [bridge EXCEPT !.state = "stopping"]
    /\ down' = Append(down, Note("edge_stop"))
    /\ UNCHANGED <<scenario, client, rx, conn, application, up, mote, posted, torn, orphaned>>

(* The bridge ends, because it was stopped, could not be started or failed to   *)
(* write, and with it the connections of the applications, which end without   *)
(* a word.                                                                   *)
BridgeEnd ==
    /\ \/ bridge.state = "stopping"
       \/ bridge.state = "starting" /\ bridge.tries = AckRetryThreshold
       \/ bridge.state \in {"starting", "up"} /\ SerialFails
    /\ bridge' = [bridge EXCEPT !.state = IF @ = "stopping" THEN "stopped" ELSE "failed"]
    /\ conn' = [r \in Runs |-> [tx |-> <<>>, handler |-> IF conn[r].handler = "none" THEN "none" ELSE "ended"]]
    /\ application' = None
    /\ EndRun
    /\ UNCHANGED <<scenario, down, up, mote, posted, orphaned>>

-----------------------------------------------------------------------------
(* The sensor node. *)

Prints(kind) == up' = Append(up, [kind |-> kind, task |-> None])

ack_serial_input == Prints("ack")

(* post_handler: a node's task is printed for the application. *)
post_handler(t) ==
    /\ t \in DOMAIN scenario.blocks \ posted
    /\ posted' = posted \cup {t}
    /\ up' = Append(up, [kind |-> "task", task |-> t])
    /\ UNCHANGED <<scenario, client, rx, conn, application, bridge, down, mote, torn, orphaned>>

(* A request is sent and the lock taken, or the line is acknowledged. *)
SendOrAck(to, body) ==
    \E sent \in (IF locked THEN {FALSE} ELSE IF Fault("send") THEN BOOLEAN ELSE {TRUE}) :
        IF sent
        THEN locked' = TRUE /\ open' = open \cup {[to |-> to, body |-> body]} /\ UNCHANGED up
        ELSE ack_serial_input /\ UNCHANGED <<locked, open>>

process_task_resp_send_success(body) == SendOrAck(ep, body)

(* The endpoint is set whether or not the request can be sent. *)
process_task_resp1(l) ==
    /\ ep' = l.task
    /\ SendOrAck(l.task, <<l>>)
    /\ UNCHANGED msg_buf

(* Whether a chunk fits into msg_buf: the last one of a block may be shorter    *)
(* than the others, and fit where they do not.                               *)
Room(l) == IF Len(msg_buf) < BufLen THEN {TRUE} ELSE IF LastOfBlock(l) THEN BOOLEAN ELSE {FALSE}

process_task_resp2_Kept(l) ==
    /\ UNCHANGED ep
    /\ LET body == Append(msg_buf, l)
       IN  IF Len(msg_buf) = BufLen THEN ack_serial_input /\ UNCHANGED <<msg_buf, locked, open>>
           ELSE IF LastOfBlock(l)
           THEN process_task_resp_send_success(body) /\ msg_buf' = IF locked' THEN <<>> ELSE body
           ELSE msg_buf' = body /\ ack_serial_input /\ UNCHANGED <<locked, open>>

process_task_resp2_AckTwice(l) ==
    /\ UNCHANGED ep
    /\ LET body == Append(msg_buf, l)
       IN  IF LastOfBlock(l) THEN process_task_resp_send_success(body) /\ msg_buf' = <<>>
           ELSE /\ msg_buf' = body
                /\ up' = up \o <<[kind |-> "ack", task |-> None], [kind |-> "ack", task |-> None]>>
                /\ UNCHANGED <<locked, open>>

(* A chunk that does not fit is dropped; the last one of a block, if it fits,  *)
(* empties the buffer whether or not the request can be sent.                *)
process_task_resp2(l) ==
    /\ UNCHANGED ep
    /\ LET body == Append(msg_buf, l)
       IN  \E fits \in Room(l) :
               IF ~fits THEN ack_serial_input /\ UNCHANGED <<msg_buf, locked, open>>
               ELSE IF LastOfBlock(l) THEN process_task_resp_send_success(body) /\ msg_buf' = <<>>
               ELSE msg_buf' = body /\ ack_serial_input /\ UNCHANGED <<locked, open>>

process_task_stats == ack_serial_input /\ UNCHANGED <<ep, msg_buf, locked, open>>

routing_taskresp_process_serial_input(l) ==
    \/ l.kind = "stats" /\ process_task_stats
    \/ l.kind = "head" /\ process_task_resp1(l)
    \/ l.kind = "chunk" /\ process_task_resp2(l)

(* A challenge's response has its endpoint and its answer in one line. *)
process_task_resp(l) ==
    /\ ep' = l.task
    /\ SendOrAck(l.task, <<l>>)
    /\ UNCHANGED msg_buf

cr_taskresp_process_serial_input(l) ==
    \/ l.kind = "stats" /\ process_task_stats
    \/ l.kind = "head" /\ process_task_resp(l)

process_application_serial_message_Ignores(l) ==
    /\ available' = (available \/ l.kind = "start")
    /\ UNCHANGED <<up, ep, msg_buf, locked, open>>

(* process_application_serial_message: start and stop. *)
process_application_serial_message(l) ==
    /\ available' = (l.kind = "start")
    /\ UNCHANGED <<up, ep, msg_buf, locked, open>>

process_edge_serial_message(l) ==
    /\ started' = (l.kind = "edge_start")
    /\ available' = (available /\ l.kind = "edge_start")
    /\ Prints(IF l.kind = "edge_start" THEN "start_ack" ELSE "stop_ack")
    /\ UNCHANGED <<ep, msg_buf, locked, open>>

process_serial_message ==
    /\ down # <<>>
    /\ down' = Tail(down)
    /\ \/ /\ Head(down).kind \in Result
          /\ IF scenario.app = "routing" THEN routing_taskresp_process_serial_input(Head(down))
             ELSE cr_taskresp_process_serial_input(Head(down))
          /\ UNCHANGED <<available, started>>
       \/ Head(down).kind \in {"start", "stop"} /\ process_application_serial_message(Head(down)) /\ UNCHANGED started
       \/ Head(down).kind \in {"edge_start", "edge_stop"} /\ process_edge_serial_message(Head(down))
    /\ UNCHANGED <<scenario, client, rx, conn, application, bridge, posted, torn, orphaned>>

Outcomes == {"accepted", "refused", "failed"}

send_callback_NoAck(x, outcome) ==
    /\ open' = open \ {x}
    /\ locked' = FALSE
    /\ up' = IF outcome = "failed" THEN up ELSE Append(up, [kind |-> "ack", task |-> None])

(* The exchange ends, and with it the line is acknowledged.  A node that no    *)
(* longer expects the result refuses it, and the result is then cancelled.    *)
send_callback(x, outcome) ==
    /\ open' = open \ {x}
    /\ locked' = FALSE
    /\ up' = up \o (IF outcome = "refused" THEN <<[kind |-> "cancel", task |-> None]>> ELSE <<>>)
                \o <<[kind |-> "ack", task |-> None]>>

(* challenge-response's, which cancels nothing *)
cr_send_callback(x) ==
    /\ open' = open \ {x}
    /\ locked' = FALSE
    /\ ack_serial_input

ExchangeEnds(x, outcome) ==
    /\ IF scenario.app = "routing" THEN send_callback(x, outcome) ELSE cr_send_callback(x)
    /\ UNCHANGED <<scenario, client, rx, conn, application, bridge, down, available, started, ep, msg_buf,
                   posted, torn, orphaned>>

LockExpires ==
    /\ Fault("expire") /\ locked
    /\ locked' = FALSE
    /\ UNCHANGED <<scenario, client, rx, conn, application, bridge, down, up, available, started, ep, msg_buf, open,
                   posted, torn, orphaned>>

(* The serial line loses the line at one of its ends. *)
LineLost ==
    /\ Fault("loss")
    /\ \/ down # <<>> /\ down' = Tail(down) /\ UNCHANGED up
       \/ up # <<>> /\ up' = Tail(up) /\ UNCHANGED down
    /\ UNCHANGED <<scenario, client, rx, conn, application, bridge, mote, posted, torn, orphaned>>

-----------------------------------------------------------------------------
Init ==
    /\ scenario \in Scenarios
    /\ run = 0 /\ running = FALSE
    /\ jobs = <<>> /\ ready = <<>> /\ sending = None
    /\ woken = FALSE /\ was_cancelled = FALSE /\ rx = <<>>
    /\ conn = [r \in Runs |-> [tx |-> <<>>, handler |-> "none"]]
    /\ application = None
    /\ bridge = [state |-> "starting", tries |-> 0, acked |-> {}]
    /\ down = <<Note("edge_start")>> /\ up = <<>>
    /\ available = FALSE /\ started = FALSE
    /\ ep = None /\ msg_buf = <<>> /\ locked = FALSE /\ open = {}
    /\ posted = {} /\ torn = FALSE /\ orphaned = FALSE

Work == (\E k \in 1..MaxWorkers : TaskDone(k)) \/ (\E k \in DOMAIN jobs : TaskFails(k))

Client == AppReads \/ Work \/ SendNext

Bridge == (\E r \in Runs : HandleConn(r)) \/ RunSerial

Next ==
    \/ AppStart \/ AppStop \/ AppCrash
    \/ Client
    \/ Bridge
    \/ Informed \/ NotInformed \/ BridgeStop \/ BridgeEnd
    \/ \E t \in Tasks : post_handler(t)
    \/ process_serial_message
    \/ \E x \in open, outcome \in Outcomes : ExchangeEnds(x, outcome)
    \/ LockExpires \/ LineLost

Spec == Init /\ [][Next]_vars

(* Each process goes on: the client's event loop, its workers and the bridge's *)
(* coroutines, the sensor node's process; CoAP ends every exchange, if only    *)
(* by giving up.  Nobody has to start or stop an application.                 *)
FairSpec ==
    /\ Spec
    /\ WF_vars(AppReads) /\ WF_vars(SendNext) /\ WF_vars(Work)
    /\ \A r \in Runs : WF_vars(HandleConn(r))
    /\ WF_vars(RunSerial)
    /\ WF_vars(process_serial_message)
    /\ WF_vars(\E x \in open, outcome \in Outcomes : ExchangeEnds(x, outcome))

-----------------------------------------------------------------------------
Lines == [kind : Result \cup {"name", "start", "stop", "edge_start", "edge_stop"},
          task : Tasks \cup {None}, block : Nat, chunk : Nat]

ASSUME LineAssumption == None \notin Lines

Reports == [kind : {"ack", "cancel", "task", "start_ack", "stop_ack"}, task : Tasks \cup {None}]

(* Every variable holds a value of its type. *)
TypeOK ==
    /\ run \in 0..MaxRuns /\ running \in BOOLEAN
    /\ jobs \in Seq(Tasks) /\ ready \in Seq(Tasks)
    /\ sending \in Lines \cup {None}
    /\ woken \in BOOLEAN /\ was_cancelled \in BOOLEAN
    /\ rx \in Seq(Reports)
    /\ conn \in [Runs -> [tx : Seq(Lines), handler : {"none", "connected", "named", "ended"}]]
    /\ application \in Runs \cup {None}
    /\ bridge \in [state : {"starting", "up", "stopping", "stopped", "failed"},
                   tries : 0..AckRetryThreshold, acked : SUBSET {"start_ack", "stop_ack"}]
    /\ down \in Seq(Lines) /\ up \in Seq(Reports)
    /\ available \in BOOLEAN /\ started \in BOOLEAN
    /\ ep \in Tasks \cup {None}
    /\ msg_buf \in Seq(Lines) /\ Len(msg_buf) <= BufLen
    /\ locked \in BOOLEAN
    /\ open \subseteq [to : Tasks \cup {None}, body : Seq(Lines)]
    /\ posted \subseteq Tasks
    /\ torn \in BOOLEAN /\ orphaned \in BOOLEAN

(* No block is longer than msg_buf. *)
Fits == \A t \in DOMAIN scenario.blocks : scenario.blocks[t] \in Seq(1..BufLen)

(* What a node is sent is one block of the result of its own task, whole and   *)
(* in order: the head, or all the chunks of one block, whatever requests       *)
(* could not be sent, lines were lost, locks expired or results were           *)
(* cancelled before it.  Not so once an application has been stopped in the    *)
(* middle of a result: msg_buf keeps its chunks for the next one's, and the    *)
(* acknowledgement still to come is taken for that of a later line.  Nor when   *)
(* a block is too long for msg_buf, which the client only logs: chunks of it    *)
(* are left out, or stay for the next block.                                 *)
BlockIsWhole ==
    /\ TypeOK
    /\ ~torn /\ Fits =>
        \A x \in open :
            \E b \in 0..Len(scenario.blocks[x.to]) :
                x.body = IF b = 0 THEN <<Line(x.to, 0, 2)>>
                         ELSE [c \in 1..Size(x.to, b) |-> Line(x.to, b, c)]

Count(seq, kinds) == Cardinality({i \in DOMAIN seq : seq[i].kind \in kinds})

(* The line that was written last, wherever it or its acknowledgement is. *)
Pending ==
    (IF running THEN Count(conn[run].tx, Result) ELSE 0)
        + Count(down, Result) + Cardinality(open)
        + Count(up, {"ack"}) + Count(rx, {"ack"}) + (IF woken THEN 1 ELSE 0)

(* Of each line that the client waits for there is exactly one trace: the line *)
(* on its way, its exchange or its acknowledgement; none when it does not      *)
(* wait.  So no acknowledgement is taken for another's, and no line gets to    *)
(* the sensor node while the lock is held.  A line or an acknowledgement that  *)
(* is lost leaves the client waiting for good.  Acknowledgements of an         *)
(* application stopped in the middle of a result are not counted for.          *)
OneTrace ==
    ~torn =>
        /\ Pending <= (IF sending = None THEN 0 ELSE 1)
        /\ sending # None /\ scenario.faults \cap {"loss", "overlap"} = {} => Pending = 1

Settled ==
    /\ down = <<>>
    /\ \A r \in Runs : conn[r].tx = <<>> /\ (Closed(r) => conn[r].handler \in {"none", "ended"})

(* When all that was said has been heard, the sensor node and the bridge agree *)
(* with the client: a running application is available and reachable, one that *)
(* has stopped is neither.  One that crashed stays available; so it may when a *)
(* stop is lost; and when an application is started before its old connection  *)
(* has ended, the bridge forgets the new one with the old (line 153).  A        *)
(* bridge that is up was announced.                                           *)
AvailabilityFollows ==
    /\ scenario.faults \cap {"loss", "overlap"} = {} /\ bridge.state = "up" /\ Settled =>
           /\ running => available /\ application = run
           /\ ~running => application = None /\ (available => orphaned)
    /\ bridge.state = "up" => started

Held(t) == \/ \E i \in DOMAIN jobs : jobs[i] = t
           \/ \E i \in DOMAIN ready : ready[i] = t
           \/ sending # None /\ sending.task = t

(* Every task that the application has received is done with, its result sent  *)
(* or cancelled, unless the application ends before: also after a restart, and  *)
(* whatever requests fail.  Not so when the serial line loses a line, or when   *)
(* the bridge has forgotten the connection.                                   *)
EveryResultSent ==
    \A t \in Tasks : Held(t) ~> (~Held(t) \/ scenario.faults \cap {"loss", "overlap"} # {})
===============================================================================
