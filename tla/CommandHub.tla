----------------------------- MODULE CommandHub -----------------------------
(***************************************************************************)
(* Commands from the controller to one Agent: the Hub of                   *)
(* internal/controller/hub.go with the WebSocket and HTTPS handlers that   *)
(* feed it, and the connection loops of internal/agent/client.go.          *)
(*                                                                         *)
(* The Hub's maps are per Agent and Agents do not share entries, so one    *)
(* Agent is modelled.  A connection is a number, used once: the n-th time  *)
(* the Agent reaches the controller, over WebSocket or by HTTPS Push/Pull. *)
(* A command is a request identifier; its payload does not matter here.    *)
(*                                                                         *)
(* A step is one critical section of Hub.mu or of the Agent's maps, with   *)
(* the work up to the next point where another goroutine can notice.       *)
(* Connections break, dials fail, answers get lost, timers fire and the    *)
(* Agent process is killed and started again at any point.  What only a    *)
(* dead connection could still see is dropped: frames for a socket the     *)
(* Agent has closed, the flush or the parked pull of such a connection,    *)
(* and the handler of a connection the Hub has replaced, whose deferred    *)
(* Unregister finds another connection and does nothing.                   *)
(***************************************************************************)
EXTENDS Naturals, Sequences, FiniteSets

CONSTANTS Requests,    \* request identifiers (randomToken in Hub.request)
          MaxConns,    \* bound: how often the Agent connects
          None         \* nil

ASSUME MaxConnsAssumption == MaxConns \in Nat \ {0}

VARIABLES
  \* Hub
  conns,        \* connections made so far
  registered,   \* Hub.agents[id]: connection number, 0 for nil
  link,         \* its kind: "ws", "closing" (a write to it failed), "https", or "none"
  lapsed,       \* it is an HTTPS session idle for more than 45 s
  notify,       \* its notify channel holds a token
  pending,      \* keys of Hub.pending (and of pendingAgents)
  commands,     \* keys of Hub.httpsCommands[id]
  commandIDs,   \* Hub.httpsCommandIDs[id]
  \* one goroutine in Hub.request per command
  call,         \* "idle", "writing", "waiting", "returned"
  target,       \* the agentConnection Hub.request writes to
  channel,      \* the buffered result channel (capacity 1)
  outcome,      \* what Hub.request returned
  \* the Agent's connection
  main,         \* its number, 0 while the Agent is not connected
  mode,         \* "dialing", "ws", "https"
  flush,        \* flushHTTPSCommandsToWebSocket: "off", "start", "run"
  flushIDs,     \* what is left of its snapshot
  down,         \* commands on their way over the WebSocket
  up,           \* results on their way to the registered connection's handler
  exchange,     \* HTTPS exchange: "none", "sent", "pull", "parked", "answered", "failed"
  reply,        \* command carried by its response
  queued,       \* result at the head of the HTTPS loop's queue
  \* the Agent's workers: one readLoop or HTTPS loop per connection
  worker,       \* "idle", "accept" (before acceptCommand), "execute", or the result to answer
  job,          \* the command it is processing
  seen,         \* Client.seen
  results,      \* Client.results
  aged,         \* commands issued more than 2 minutes ago
  effects,      \* history: how often each command was carried out
  live          \* history: commands CommandService lets this Agent process carry out

hubVars == <<conns, registered, link, lapsed>>
queueVars == <<pending, commands, commandIDs>>
callVars == <<call, target, channel, outcome>>
wsVars == <<flush, flushIDs, down>>
httpsVars == <<exchange, reply, queued>>
agentVars == <<main, mode>>
workVars == <<worker, job>>
memoryVars == <<seen, results, aged, effects, live>>
vars == <<hubVars, notify, queueVars, callVars, agentVars, wsVars, up, httpsVars, workVars,
          memoryVars>>

Conns == 1..MaxConns
Results == [request : Requests, result : {"success", "failure"}]
Outcomes == {"success", "failure", "timeout", "offline"}

ASSUME NoneAssumption ==
    None \notin Requests /\ None \notin Results /\ None \notin Outcomes \cup {"idle"}

Init ==
    /\ conns = 0 /\ registered = 0 /\ link = "none" /\ lapsed = FALSE /\ notify = FALSE
    /\ pending = {} /\ commands = {} /\ commandIDs = <<>>
    /\ call = [r \in Requests |-> "idle"]
    /\ target = [r \in Requests |-> 0]
    /\ channel = [r \in Requests |-> None]
    /\ outcome = [r \in Requests |-> None]
    /\ main = 0 /\ mode = "dialing"
    /\ flush = "off" /\ flushIDs = <<>> /\ down = <<>> /\ up = <<>>
    /\ exchange = "none" /\ reply = None /\ queued = None
    /\ worker = [c \in Conns |-> "idle"]
    /\ job = [c \in Conns |-> None]
    /\ seen = {} /\ aged = {}
    /\ results = [r \in Requests |-> None]
    /\ effects = [r \in Requests |-> 0] /\ live = {}

-----------------------------------------------------------------------------
\* The Hub.

\* Mutant of RemoveCommand: the id list is never dropped.
RemoveKeepingIDs(r) == commands' = commands \ {r} /\ UNCHANGED commandIDs

\* removeHTTPSCommandLocked: the id list is only dropped with the last command, so
\* ids of removed commands stay in it.
RemoveCommand(r) ==
    /\ commands' = commands \ {r}
    /\ commandIDs' = IF commands \ {r} = {} THEN <<>> ELSE commandIDs

\* Hub.Resolve: nothing for a request nobody waits for; a second result is dropped
\* by the full channel.
Resolve(res) ==
    LET r == res.request
    IN  IF r \in pending
        THEN /\ RemoveCommand(r)
             /\ channel' = [channel EXCEPT ![r] = IF @ = None THEN res.result ELSE @]
        ELSE UNCHANGED <<commands, commandIDs, channel>>

\* Mutant of SignalAgent: the new command waits for the next pull.
SignalForgotten == UNCHANGED notify

\* signalAgent: a token, unless one is there already.
SignalAgent == notify' = (link = "https")

\* Hub.request up to the unlock: refused when offline, else queued for every
\* transport, and the parked pull of an HTTPS session is woken.
Request(r) ==
    /\ call[r] = "idle"
    /\ IF registered = 0 \/ lapsed
       THEN /\ call' = [call EXCEPT ![r] = "returned"]
            /\ outcome' = [outcome EXCEPT ![r] = "offline"]
            /\ UNCHANGED <<queueVars, target, notify, live>>
       ELSE /\ pending' = pending \cup {r}
            /\ commands' = commands \cup {r}
            /\ commandIDs' = Append(commandIDs, r)
            /\ SignalAgent
            /\ call' = [call EXCEPT ![r] = IF link = "https" THEN "waiting" ELSE "writing"]
            /\ target' = [target EXCEPT ![r] = IF link = "https" THEN 0 ELSE registered]
            /\ live' = live \cup {r}
            /\ UNCHANGED outcome
    /\ UNCHANGED <<hubVars, channel, agentVars, wsVars, up, httpsVars, workVars, seen, results,
                   aged, effects>>

\* A frame is worth keeping only while the Agent is on that connection.
Push(c, r) == down' = IF main = c THEN Append(down, r) ELSE down

\* writeWebSocketMessage from Hub.request: a failed write closes the connection and
\* the command waits for another transport.
WriteCommand(r) ==
    /\ call[r] = "writing"
    /\ call' = [call EXCEPT ![r] = "waiting"]
    /\ target' = [target EXCEPT ![r] = 0]
    /\ \/ /\ target[r] = registered /\ link = "ws"
          /\ Push(registered, r)
          /\ UNCHANGED link
       \/ /\ link' = IF target[r] = registered THEN "closing" ELSE link
          /\ UNCHANGED down
    /\ UNCHANGED <<conns, registered, lapsed, notify, queueVars, channel, outcome, agentVars,
                   flush, flushIDs, up, httpsVars, workVars, memoryVars>>

\* The select of Hub.request and its deferred clean-up: a result, or ctx.Done.
Return(r, o) ==
    /\ call[r] = "waiting"
    /\ o = "timeout" \/ (o = channel[r] /\ o # None)
    /\ call' = [call EXCEPT ![r] = "returned"]
    /\ outcome' = [outcome EXCEPT ![r] = o]
    /\ pending' = pending \ {r}
    /\ RemoveCommand(r)
    /\ channel' = [channel EXCEPT ![r] = None]
    /\ UNCHANGED <<hubVars, notify, target, agentVars, wsVars, up, httpsVars, workVars, memoryVars>>

\* Mutant of Register: the new entry inherits the idle time of the old one.
RegisterInheriting(kind) ==
    /\ conns < MaxConns
    /\ conns' = conns + 1
    /\ registered' = conns + 1
    /\ link' = kind
    /\ notify' = FALSE /\ up' = <<>>
    /\ UNCHANGED lapsed

\* Hub.Register and Hub.RegisterHTTPS replace the Agent's entry and close the old
\* connection, whose unread results are lost with it.
Register(kind) ==
    /\ conns < MaxConns
    /\ conns' = conns + 1
    /\ registered' = conns + 1
    /\ link' = kind
    /\ lapsed' = FALSE /\ notify' = FALSE
    /\ up' = <<>>

\* The entry is deleted and the connection closed.
Unregister ==
    /\ registered' = 0 /\ link' = "none" /\ lapsed' = FALSE /\ notify' = FALSE
    /\ up' = <<>>
    /\ UNCHANGED conns

\* Hub.Disconnect (revocation, re-enrolment).
Disconnect ==
    /\ registered # 0
    /\ Unregister
    /\ UNCHANGED <<queueVars, callVars, agentVars, wsVars, httpsVars, workVars, memoryVars>>

\* handleAgentWS returns on a read error: deferred Hub.Unregister and conn.Close.
StopServing ==
    /\ link \in {"ws", "closing"}
    /\ Unregister
    /\ UNCHANGED <<queueVars, callVars, agentVars, wsVars, httpsVars, workVars, memoryVars>>

\* One turn of handleAgentWS's loop on a result message.
ReadResult ==
    /\ link = "ws" /\ up # <<>>
    /\ up' = Tail(up)
    /\ Resolve(Head(up))
    /\ UNCHANGED <<hubVars, notify, pending, call, target, outcome, agentVars, wsVars, httpsVars,
                   workVars, memoryVars>>

\* The session has been idle for 45 s; nothing inside an exchange lets it lapse.
Lapse ==
    /\ link = "https" /\ ~lapsed
    /\ ~(main = registered /\ exchange \in {"pull", "parked"})
    /\ lapsed' = TRUE
    /\ UNCHANGED <<conns, registered, link, notify, queueVars, callVars, agentVars, wsVars, up,
                   httpsVars, workVars, memoryVars>>

\* expireAgentHTTPSSession -> UnregisterHTTPS.
ExpireHTTPS ==
    /\ link = "https" /\ lapsed
    /\ Unregister
    /\ UNCHANGED <<queueVars, callVars, agentVars, wsVars, httpsVars, workVars, memoryVars>>

-----------------------------------------------------------------------------
\* flushHTTPSCommandsToWebSocket, the goroutine of Register.

FlushStart ==
    /\ flush = "start"
    /\ flush' = "run"
    /\ flushIDs' = commandIDs
    /\ UNCHANGED <<hubVars, notify, queueVars, callVars, agentVars, down, up, httpsVars, workVars,
                   memoryVars>>

StopFlush == flush' = "off" /\ flushIDs' = <<>>

\* Look up the next id and write its command.  The goroutine returns when the list is
\* exhausted, when its connection was replaced, at the first id whose command is
\* gone, and on a failed write.
FlushWrite ==
    /\ flush = "run"
    /\ \/ /\ flushIDs # <<>> /\ registered = main /\ Head(flushIDs) \in commands
          /\ link = "ws"
          /\ Push(main, Head(flushIDs))
          /\ flushIDs' = Tail(flushIDs)
          /\ UNCHANGED flush
       \/ /\ \/ flushIDs = <<>> \/ registered # main \/ link = "closing"
             \/ flushIDs # <<>> /\ Head(flushIDs) \notin commands
          /\ StopFlush
          /\ UNCHANGED down
    /\ UNCHANGED <<hubVars, notify, queueVars, callVars, agentVars, up, httpsVars, workVars,
                   memoryVars>>

-----------------------------------------------------------------------------
\* handleAgentHTTPSExchange.

\* BeginHTTPSExchange, DecryptHTTPS and Resolve of the result the request carries.
\* The Agent may have given up on the exchange; its result still counts.
ServeExchange ==
    /\ \/ /\ mode = "https" /\ exchange = "sent"
          /\ exchange' = IF registered = main /\ ~lapsed THEN "pull" ELSE "failed"
       \/ /\ link = "https" /\ registered # main /\ up # <<>>
          /\ UNCHANGED exchange
    /\ IF link = "https" /\ ~lapsed /\ up # <<>>
       THEN up' = <<>> /\ Resolve(Head(up))
       ELSE up' = <<>> /\ UNCHANGED <<commands, commandIDs, channel>>
    /\ UNCHANGED <<hubVars, notify, pending, call, target, outcome, agentVars, wsVars, reply,
                   queued, workVars, memoryVars>>

\* The first id of the list whose command is still outstanding.
FirstCommand(i) ==
    /\ commandIDs[i] \in commands
    /\ \A j \in 1..(i - 1) : commandIDs[j] \notin commands

Answer(state, r) == exchange' = state /\ reply' = r

\* One look of nextHTTPSCommand under Hub.mu.
PullCommand ==
    /\ exchange = "pull"
    /\ \/ registered # main /\ Answer("failed", None)
       \/ \E i \in DOMAIN commandIDs :
             registered = main /\ FirstCommand(i) /\ Answer("answered", commandIDs[i])
       \/ /\ registered = main /\ \A i \in DOMAIN commandIDs : commandIDs[i] \notin commands
          /\ Answer("parked", None)
    /\ UNCHANGED <<hubVars, notify, queueVars, callVars, agentVars, wsVars, up, queued, workVars,
                   memoryVars>>

\* Its select: a token, the 4 s of the pull (or the request's end), or the done channel.
UnparkPull ==
    /\ exchange = "parked"
    /\ \/ registered = main /\ notify /\ notify' = FALSE /\ Answer("pull", None)
       \/ Answer("answered", None) /\ UNCHANGED notify
       \/ registered # main /\ Answer("failed", None) /\ UNCHANGED notify
    /\ UNCHANGED <<hubVars, queueVars, callVars, agentVars, wsVars, up, queued, workVars,
                   memoryVars>>

-----------------------------------------------------------------------------
\* The Agent: Client.Run alternates between its two transports.  Any number of dials
\* may fail in between, so either may come next.

\* handleAgentWS up to Register and its flush, and connect up to the start of
\* readLoop; the Agent may have given up before the acknowledgement reached it.
DialWS ==
    /\ mode = "dialing"
    /\ Register("ws")
    /\ \/ mode' = "ws" /\ main' = conns + 1 /\ flush' = "start"
       \/ UNCHANGED <<mode, main, flush>>
    /\ UNCHANGED <<queueVars, callVars, flushIDs, down, httpsVars, workVars, memoryVars>>

\* handleAgentHTTPSOpen, its response received or lost.
DialHTTPS ==
    /\ mode = "dialing"
    /\ Register("https")
    /\ \/ mode' = "https" /\ main' = conns + 1
       \/ UNCHANGED <<mode, main>>
    /\ UNCHANGED <<queueVars, callVars, wsVars, httpsVars, workVars, memoryVars>>

\* connect returns (failed telemetry write, failed read, rotated credential): it
\* closes the connection but does not wait for its readLoop goroutine.
LeaveWS ==
    /\ mode = "ws"
    /\ mode' = "dialing" /\ main' = 0
    /\ StopFlush /\ down' = <<>>
    /\ UNCHANGED <<hubVars, notify, queueVars, callVars, up, httpsVars, workVars, memoryVars>>

\* connectHTTPS returns: an exchange failed or its answer was lost, the result of a
\* rotation was delivered, or 10 minutes are over.  Its loop is the worker.
LeaveHTTPS ==
    /\ mode = "https" /\ worker[main] = "idle"
    /\ mode' = "dialing" /\ main' = 0
    /\ Answer("none", None) /\ queued' = None
    /\ UNCHANGED <<hubVars, notify, queueVars, callVars, wsVars, up, workVars, memoryVars>>

\* exchangeHTTPS, request: the head of the queue goes with it.
SendExchange ==
    /\ mode = "https" /\ worker[main] = "idle" /\ exchange = "none"
    /\ exchange' = "sent"
    /\ up' = IF registered = main /\ queued # None THEN <<queued>> ELSE up
    /\ UNCHANGED <<hubVars, notify, queueVars, callVars, agentVars, wsVars, reply, queued,
                   workVars, memoryVars>>

-----------------------------------------------------------------------------
\* Client.processControllerMessage, run by the worker of connection c.

\* The result goes to cacheResult and back on the connection it came from: written to
\* the WebSocket, or put at the head of the HTTPS loop's queue.
ReplyTo(c, r, result) ==
    LET res == [request |-> r, result |-> result]
    IN  /\ queued' = IF main = c /\ mode = "https" THEN res ELSE queued
        /\ up' = IF main = c /\ mode = "ws" /\ registered = c /\ link = "ws"
                 THEN Append(up, res) ELSE up

\* ValidateCommand (stale commands are dropped without an answer), then cachedResult.
Check(c, r) ==
    \/ /\ r \notin aged /\ results[r] = None
       /\ worker' = [worker EXCEPT ![c] = "accept"]
       /\ job' = [job EXCEPT ![c] = r]
       /\ queued' = None /\ UNCHANGED up
    \/ /\ r \notin aged /\ results[r] # None
       /\ ReplyTo(c, r, results[r])
       /\ UNCHANGED <<worker, job>>
    \/ /\ r \in aged
       /\ queued' = None /\ UNCHANGED <<worker, job, up>>

\* readLoop: the next frame.
ReadCommand ==
    /\ mode = "ws" /\ worker[main] = "idle" /\ down # <<>>
    /\ down' = Tail(down)
    /\ Check(main, Head(down))
    /\ UNCHANGED <<hubVars, notify, queueVars, callVars, agentVars, flush, flushIDs, exchange,
                   reply, memoryVars>>

\* exchangeHTTPS, response: the result it sent leaves the queue, a command is processed.
ReceiveExchange ==
    /\ mode = "https" /\ exchange = "answered"
    /\ Answer("none", None)
    /\ IF reply # None THEN Check(main, reply)
                       ELSE queued' = None /\ UNCHANGED <<up, worker, job>>
    /\ UNCHANGED <<hubVars, notify, queueVars, callVars, agentVars, wsVars, memoryVars>>

\* Mutant of Acceptable: acceptCommand no longer looks at the ids it has seen.
AcceptableAgain(r) == r \notin aged

\* acceptCommand's test: fresh (ValidateCommand) and not seen before.
Acceptable(r) == r \notin aged /\ r \notin seen

\* acceptCommand; a refusal is a result like any other.
AcceptCommand(c) ==
    LET r == job[c]
    IN  /\ worker[c] = "accept"
        /\ IF Acceptable(r)
           THEN /\ worker' = [worker EXCEPT ![c] = "execute"]
                /\ seen' = seen \cup {r}
                /\ UNCHANGED <<job, results, up, queued>>
           ELSE /\ worker' = [worker EXCEPT ![c] = "idle"]
                /\ job' = [job EXCEPT ![c] = None]
                /\ results' = [results EXCEPT ![r] = "failure"]
                /\ ReplyTo(c, r, "failure")
                /\ UNCHANGED seen
        /\ UNCHANGED <<hubVars, notify, queueVars, callVars, agentVars, wsVars, exchange, reply,
                       aged, effects, live>>

\* The switch on the message type: Apply, SyncBans, saveConfig, QueueAgentUpdate either
\* take effect or fail; a failure may come after the effect (a policy in force whose
\* files could not be written).
Execute(c) ==
    /\ worker[c] = "execute"
    /\ \E result \in {"success", "failure"} :
           /\ worker' = [worker EXCEPT ![c] = result]
           /\ \/ /\ effects' = [effects EXCEPT ![job[c]] = @ + 1]
                 /\ live' = live \ {job[c]}
              \/ result = "failure" /\ UNCHANGED <<effects, live>>
    /\ UNCHANGED <<hubVars, notify, queueVars, callVars, agentVars, wsVars, up, httpsVars, job,
                   seen, results, aged>>

\* The closure result: cacheResult and the answer.
AnswerCommand(c) ==
    LET r == job[c]
    IN  /\ worker[c] \in {"success", "failure"}
        /\ results' = [results EXCEPT ![r] = worker[c]]
        /\ ReplyTo(c, r, worker[c])
        /\ worker' = [worker EXCEPT ![c] = "idle"]
        /\ job' = [job EXCEPT ![c] = None]
        /\ UNCHANGED <<hubVars, notify, queueVars, callVars, agentVars, wsVars, exchange, reply,
                       seen, aged, effects, live>>

\* The Agent process is killed and systemd starts another, which knows the credential but
\* not the commands (seen and results are made anew): one that is still open at the Hub,
\* carried out or not, is sent to it as if for the first time.
RestartAgent ==
    /\ mode' = "dialing" /\ main' = 0
    /\ StopFlush /\ down' = <<>>
    /\ Answer("none", None) /\ queued' = None
    /\ worker' = [c \in Conns |-> "idle"]
    /\ job' = [c \in Conns |-> None]
    /\ seen' = {}
    /\ results' = [r \in Requests |-> None]
    /\ live' = {r \in Requests : call[r] \in {"writing", "waiting"}}
    /\ UNCHANGED <<hubVars, notify, queueVars, callVars, up, aged, effects>>

\* Time: every call gives up within 45 s, so only commands nobody waits for are older
\* than 2 minutes; seen entries are dropped after 5, cached results after 10.
Age(r) ==
    /\ call[r] = "returned" /\ outcome[r] # "offline" /\ r \notin aged
    /\ aged' = aged \cup {r}
    /\ UNCHANGED <<hubVars, notify, queueVars, callVars, agentVars, wsVars, up, httpsVars,
                   workVars, seen, results, effects, live>>

Forget(r) ==
    /\ r \in aged /\ r \in seen
    /\ seen' = seen \ {r}
    /\ results' = [results EXCEPT ![r] = None]
    /\ UNCHANGED <<hubVars, notify, queueVars, callVars, agentVars, wsVars, up, httpsVars,
                   workVars, aged, effects, live>>

-----------------------------------------------------------------------------
Next ==
    \/ \E r \in Requests : \/ Request(r) \/ WriteCommand(r)
                            \/ \E o \in {"success", "failure", "timeout"} : Return(r, o)
                            \/ Age(r) \/ Forget(r)
    \/ Disconnect \/ StopServing \/ ReadResult \/ Lapse \/ ExpireHTTPS
    \/ FlushStart \/ FlushWrite
    \/ ServeExchange \/ PullCommand \/ UnparkPull
    \/ DialWS \/ DialHTTPS \/ LeaveWS \/ LeaveHTTPS \/ SendExchange
    \/ ReadCommand \/ ReceiveExchange
    \/ \E c \in Conns : AcceptCommand(c) \/ Execute(c) \/ AnswerCommand(c)
    \/ RestartAgent

Spec == Init /\ [][Next]_vars

-----------------------------------------------------------------------------
\* Types; only a registered HTTPS session lapses or is signalled, and a WebSocket
\* registered in its place starts afresh (lastSeen, notify).
TypeOK ==
    /\ conns \in 0..MaxConns /\ registered \in 0..conns /\ main \in 0..conns
    /\ link \in {"none", "ws", "closing", "https"} /\ (link = "none") = (registered = 0)
    /\ lapsed \in BOOLEAN /\ notify \in BOOLEAN
    /\ lapsed \/ notify => link = "https"
    /\ pending \subseteq Requests /\ commands \subseteq Requests
    /\ commandIDs \in Seq(Requests)
    /\ call \in [Requests -> {"idle", "writing", "waiting", "returned"}]
    /\ target \in [Requests -> 0..conns]
    /\ channel \in [Requests -> {None, "success", "failure"}]
    /\ outcome \in [Requests -> {None} \cup Outcomes]
    /\ mode \in {"dialing", "ws", "https"} /\ (mode = "dialing") = (main = 0)
    /\ flush \in {"off", "start", "run"} /\ flushIDs \in Seq(Requests)
    /\ down \in Seq(Requests) /\ up \in Seq(Results)
    /\ exchange \in {"none", "sent", "pull", "parked", "answered", "failed"}
    /\ reply \in {None} \cup Requests /\ queued \in {None} \cup Results
    /\ worker \in [Conns -> {"idle", "accept", "execute", "success", "failure"}]
    /\ job \in [Conns -> {None} \cup Requests]
    /\ seen \subseteq Requests /\ aged \subseteq Requests
    /\ results \in [Requests -> {None, "success", "failure"}]
    /\ effects \in [Requests -> Nat] /\ live \subseteq Requests

\* Hub.pending, the command queue and the goroutines of Hub.request agree: a command
\* is offered to transports only while its caller waits and has no result yet, it is
\* always reachable through the id list, and the list goes away with the last one.
QueueConsistent ==
    /\ pending = {r \in Requests : call[r] \in {"writing", "waiting"}}
    /\ commands = {r \in pending : channel[r] = None}
    /\ \A r \in commands : \E i \in 1..Len(commandIDs) : commandIDs[i] = r
    /\ commands = {} => commandIDs = <<>>

\* A pull parked on the session the Hub uses never misses a command: whenever one is
\* outstanding, the wake-up token is there (Hub.request signals under the same lock
\* under which nextHTTPSCommand decides to park).
NoLostWakeup ==
    exchange = "parked" /\ registered = main /\ commands # {} => notify

\* Across redelivery by flush and by every transport: at most one effect per command and
\* Agent process, and none in a later process once the caller has its answer; success
\* only for a command that took effect, no effect of a refused one.
Service == INSTANCE CommandService WITH
    status <- [r \in Requests |-> CASE call[r] = "idle" -> "idle"
                                     [] call[r] = "returned" -> outcome[r]
                                     [] OTHER -> "open"]
CommandSpec == Service!Spec

\* Does not hold: that what a result calls a failure did not and will not take effect.
\* Apply's files can fail after its rules are in force (firewall/manager.go:105), and the
\* refusal of a command that another connection's reader executes (processControllerMessage,
\* client.go:732) goes back as its result.
FailureMeansNoEffect ==
    \A r \in Requests :
        outcome[r] = "failure" =>
            effects[r] = 0 /\ \A c \in Conns : ~(job[c] = r /\ worker[c] = "execute")
=============================================================================
