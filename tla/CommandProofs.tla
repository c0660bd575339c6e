---------------------------- MODULE CommandProofs ----------------------------
(***************************************************************************)
(* Proofs about CommandHub, for every set of commands and every number of  *)
(* connections, among them that it implements CommandService; and about    *)
(* AgentTasks, for any number of tasks, attempts, triggers and             *)
(* administrators.                                                         *)
(*                                                                         *)
(* The argument about the Hub follows a command from the moment            *)
(* Hub.request accepts it.  Everything on its way to the Agent is Known:   *)
(* its process may still carry it out, or has accepted it, or will find it *)
(* too old (Ways); a restart, which empties what the process remembers,    *)
(* also empties the way, and what the Hub still holds is open.  A command  *)
(* is carried out by one worker, for it is in Client.seen from then on,    *)
(* or too old to be accepted (Once).  Every success on its way back is     *)
(* that of a command carried out (Truthful).  And what the Hub registers   *)
(* fits the Agent's side of the same connection (Links).                   *)
(*                                                                         *)
(* The first invariant of the tasks needs nothing else; the second one,    *)
(* about who executes what, leaves out the tasks that two retry requests   *)
(* have found failed: those may get two executors.                         *)
(***************************************************************************)
EXTENDS AgentTasks, CommandHub, SequenceTheorems, TLAPS

Known == live \cup seen \cup aged

Truthful == {res \in Results : res.result = "success" => effects[res.request] > 0}

Flags == lapsed \in BOOLEAN /\ notify \in BOOLEAN

HubTypes ==
    /\ conns \in 0..MaxConns /\ registered \in 0..conns /\ main \in 0..conns
    /\ link \in {"none", "ws", "closing", "https"}
    /\ link = "none" <=> registered = 0
    /\ Flags
    /\ lapsed => link = "https"
    /\ notify => link = "https"
    /\ mode \in {"dialing", "ws", "https"}
    /\ mode = "dialing" <=> main = 0
    /\ flush \in {"off", "start", "run"}
    /\ exchange \in {"none", "sent", "pull", "parked", "answered", "failed"}

CallTypes ==
    /\ call \in [Requests -> {"idle", "writing", "waiting", "returned"}]
    /\ target \in [Requests -> 0..conns]
    /\ channel \in [Requests -> {None, "success", "failure"}]
    /\ outcome \in [Requests -> {None} \cup Outcomes]
    /\ \A r \in Requests : call[r] = "returned" => outcome[r] \in Outcomes

WorkTypes ==
    /\ worker \in [Conns -> {"idle", "accept", "execute", "success", "failure"}]
    /\ job \in [Conns -> {None} \cup Requests]
    /\ seen \subseteq Requests /\ aged \subseteq Requests
    /\ results \in [Requests -> {None, "success", "failure"}]
    /\ effects \in [Requests -> Nat] /\ live \subseteq Requests

\* What the Agent has not answered, or is about to get, it knows.
Ways ==
    /\ pending \subseteq Known /\ commands \subseteq Requests
    /\ commandIDs \in Seq(Requests) /\ flushIDs \in Seq(Requests) /\ down \in Seq(Known)
    /\ reply \in {None} \cup Known
    /\ \A c \in Conns : worker[c] # "idle" => job[c] \in Known

\* The connection the Hub has registered and the one the Agent is on, when they are the same,
\* are of one kind; Hub.request writes to WebSockets only.
Links ==
    /\ registered = main /\ mode = "https" => link = "https"
    /\ exchange # "none" => mode = "https"
    /\ \A r \in Requests :
          call[r] = "writing" =>
              /\ target[r] # 0
              /\ target[r] = registered => link \in {"ws", "closing"}

\* Client.acceptCommand lets a command through once in a process.
Once ==
    /\ \A c \in Conns : worker[c] = "execute" => job[c] \in live /\ job[c] \in seen \cup aged
    /\ \A c, d \in Conns :
          worker[c] = "execute" /\ worker[d] = "execute" /\ job[c] = job[d] => c = d

\* A success is that of a command carried out, wherever it is kept or sent.
Reports ==
    /\ \A r \in Requests : results[r] = "success" \/ channel[r] = "success" => effects[r] > 0
    /\ \A c \in Conns : worker[c] = "success" => effects[job[c]] > 0
    /\ up \in Seq(Truthful) /\ queued \in {None} \cup Truthful

Queues == QueueConsistent /\ \A r \in Requests : r \notin pending => channel[r] = None

Types == HubTypes /\ CallTypes /\ WorkTypes

IInv == Types /\ Ways /\ Links /\ Once /\ Reports /\ Queues /\ NoLostWakeup

\* The two outcomes of Hub.request's critical section.
Refuses(r) ==
    /\ call[r] = "idle"
    /\ call' = [call EXCEPT ![r] = "returned"]
    /\ outcome' = [outcome EXCEPT ![r] = "offline"]
    /\ UNCHANGED <<hubVars, notify, queueVars, target, channel, agentVars, wsVars, up, httpsVars,
                   workVars, memoryVars>>

Takes(r) ==
    /\ call[r] = "idle" /\ registered # 0
    /\ pending' = pending \cup {r} /\ commands' = commands \cup {r}
    /\ commandIDs' = Append(commandIDs, r)
    /\ SignalAgent
    /\ call' = [call EXCEPT ![r] = IF link = "https" THEN "waiting" ELSE "writing"]
    /\ target' = [target EXCEPT ![r] = IF link = "https" THEN 0 ELSE registered]
    /\ live' = live \cup {r}
    /\ UNCHANGED <<hubVars, outcome, channel, agentVars, wsVars, up, httpsVars, workVars, seen,
                   results, aged, effects>>

-----------------------------------------------------------------------------
LEMMA SeqGrows ==
  ASSUME NEW S, NEW T, S \subseteq T, NEW s \in Seq(S)
  PROVE  s \in Seq(T)
  OBVIOUS

LEMMA RequestCases ==
  ASSUME NEW r \in Requests, Request(r)
  PROVE  Refuses(r) \/ Takes(r)
<1>1. CASE registered = 0 \/ lapsed BY <1>1, Zenon DEF Request, Refuses, queueVars, memoryVars
<1>2. CASE ~(registered = 0 \/ lapsed) BY <1>2, Zenon DEF Request, Takes
<1> QED BY <1>1, <1>2

LEMMA HeadIsTruthful ==
  ASSUME up \in Seq(Truthful), up # <<>>
  PROVE  Head(up) \in Truthful /\ Tail(up) \in Seq(Truthful)
  OBVIOUS

\* Hub.Resolve keeps the type of the result channels.
LEMMA ResolveTypes ==
  ASSUME CallTypes, NEW res \in Results, Resolve(res)
  PROVE  channel' \in [Requests -> {None, "success", "failure"}]
  BY DEF CallTypes, Resolve, Results

\* The flags of a session are set and reset.
LEMMA NextFlags ==
  ASSUME Flags, [Next]_vars
  PROVE  Flags'
<1> USE DEF Flags, hubVars, queueVars, callVars, wsVars, httpsVars, agentVars, workVars,
        memoryVars
<1>1. ASSUME NEW r \in Requests, Refuses(r) PROVE Flags'
  BY <1>1, Zenon DEF Refuses
<1>2. ASSUME NEW r \in Requests, Takes(r) PROVE Flags'
  BY <1>2, Zenon DEF Takes, SignalAgent
<1>3. ASSUME NEW r \in Requests, WriteCommand(r) PROVE Flags'
  BY <1>3, Zenon DEF WriteCommand, Push
<1>4. ASSUME NEW r \in Requests, NEW o \in {"success", "failure", "timeout"}, Return(r, o)
       PROVE Flags'
  BY <1>4, Zenon DEF Return, RemoveCommand
<1>5. ASSUME NEW r \in Requests, Age(r) PROVE Flags'
  BY <1>5, Zenon DEF Age
<1>6. ASSUME NEW r \in Requests, Forget(r) PROVE Flags'
  BY <1>6, Zenon DEF Forget
<1>7. ASSUME Disconnect PROVE Flags'
  BY <1>7, Zenon DEF Disconnect, Unregister
<1>8. ASSUME StopServing PROVE Flags'
  BY <1>8, Zenon DEF StopServing, Unregister
<1>9. ASSUME ReadResult PROVE Flags'
  BY <1>9, Zenon DEF ReadResult, Resolve, RemoveCommand
<1>10. ASSUME Lapse PROVE Flags'
  BY <1>10, Zenon DEF Lapse
<1>11. ASSUME ExpireHTTPS PROVE Flags'
  BY <1>11, Zenon DEF ExpireHTTPS, Unregister
<1>12. ASSUME FlushStart PROVE Flags'
  BY <1>12, Zenon DEF FlushStart
<1>13. ASSUME FlushWrite PROVE Flags'
  BY <1>13, Zenon DEF FlushWrite, Push, StopFlush
<1>14. ASSUME ServeExchange PROVE Flags'
  BY <1>14, Zenon DEF ServeExchange, Resolve, RemoveCommand
<1>15. ASSUME PullCommand PROVE Flags'
  BY <1>15, Zenon DEF PullCommand, Answer
<1>16. ASSUME UnparkPull PROVE Flags'
  BY <1>16, Zenon DEF UnparkPull, Answer
<1>17. ASSUME DialWS PROVE Flags'
  BY <1>17, Zenon DEF DialWS, Register
<1>18. ASSUME DialHTTPS PROVE Flags'
  BY <1>18, Zenon DEF DialHTTPS, Register
<1>19. ASSUME LeaveWS PROVE Flags'
  BY <1>19, Zenon DEF LeaveWS, StopFlush
<1>20. ASSUME LeaveHTTPS PROVE Flags'
  BY <1>20, Zenon DEF LeaveHTTPS, Answer
<1>21. ASSUME SendExchange PROVE Flags'
  BY <1>21, Zenon DEF SendExchange
<1>22. ASSUME ReadCommand PROVE Flags'
  BY <1>22, Zenon DEF ReadCommand, Check, ReplyTo
<1>23. ASSUME ReceiveExchange PROVE Flags'
  BY <1>23, Zenon DEF ReceiveExchange, Answer, Check, ReplyTo
<1>24. ASSUME NEW c \in Conns, AcceptCommand(c) PROVE Flags'
  BY <1>24, Zenon DEF AcceptCommand, Acceptable, ReplyTo
<1>25. ASSUME NEW c \in Conns, Execute(c) PROVE Flags'
  BY <1>25, Zenon DEF Execute, ReplyTo
<1>26. ASSUME NEW c \in Conns, AnswerCommand(c) PROVE Flags'
  BY <1>26, Zenon DEF AnswerCommand, ReplyTo
<1>27. ASSUME RestartAgent PROVE Flags'
  BY <1>27, Zenon DEF RestartAgent, StopFlush, Answer
<1>28. CASE UNCHANGED vars BY <1>28 DEF vars
<1> QED BY <1>1, <1>2, <1>3, <1>4, <1>5, <1>6, <1>7, <1>8, <1>9, <1>10, <1>11, <1>12, <1>13,
     <1>14, <1>15, <1>16, <1>17, <1>18, <1>19, <1>20, <1>21, <1>22, <1>23, <1>24, <1>25,
     <1>26, <1>27, <1>28, RequestCases DEF Next

\* The registry and the connections keep their types.
LEMMA NextHub ==
  ASSUME HubTypes, Links, CallTypes, [Next]_vars
  PROVE  HubTypes'
<1> USE MaxConnsAssumption DEF HubTypes, hubVars, queueVars, callVars, wsVars, httpsVars,
        agentVars, workVars, memoryVars
<1> Flags'
  BY NextFlags DEF HubTypes
<1>1. ASSUME NEW r \in Requests, Refuses(r) PROVE HubTypes'
  BY <1>1 DEF Refuses
<1>2. ASSUME NEW r \in Requests, Takes(r) PROVE HubTypes'
  <2>1. notify' => link = "https" BY <1>2, Zenon DEF Takes, SignalAgent
  <2> QED BY <2>1, <1>2 DEF Takes
<1>3. ASSUME NEW r \in Requests, WriteCommand(r) PROVE HubTypes'
  <2>1. link' \in {"none", "ws", "closing", "https"} /\ (link' = "none" <=> registered = 0)
    BY <1>3 DEF WriteCommand, Links
  <2>2. (lapsed \/ notify) => link' = "https"
    <3>1. CASE target[r] = registered BY <3>1, <1>3 DEF WriteCommand, Links
    <3>2. CASE target[r] # registered BY <3>2, <1>3 DEF WriteCommand
    <3> QED BY <3>1, <3>2
  <2> QED BY <2>1, <2>2, <1>3 DEF WriteCommand
<1>4. ASSUME NEW r \in Requests, NEW o \in {"success", "failure", "timeout"}, Return(r, o)
       PROVE HubTypes'
  BY <1>4 DEF Return, RemoveCommand
<1>5. ASSUME NEW r \in Requests, Age(r) PROVE HubTypes'
  BY <1>5 DEF Age
<1>6. ASSUME NEW r \in Requests, Forget(r) PROVE HubTypes'
  BY <1>6 DEF Forget
<1>7. ASSUME Disconnect PROVE HubTypes'
  BY <1>7 DEF Disconnect, Unregister
<1>8. ASSUME StopServing PROVE HubTypes'
  BY <1>8 DEF StopServing, Unregister
<1>9. ASSUME ReadResult PROVE HubTypes'
  BY <1>9 DEF ReadResult, Resolve, RemoveCommand
<1>10. ASSUME Lapse PROVE HubTypes'
  BY <1>10 DEF Lapse
<1>11. ASSUME ExpireHTTPS PROVE HubTypes'
  BY <1>11 DEF ExpireHTTPS, Unregister
<1>12. ASSUME FlushStart PROVE HubTypes'
  BY <1>12 DEF FlushStart
<1>13. ASSUME FlushWrite PROVE HubTypes'
  BY <1>13 DEF FlushWrite, Push, StopFlush
<1>14. ASSUME ServeExchange PROVE HubTypes'
  BY <1>14 DEF ServeExchange, Resolve, RemoveCommand
<1>15. ASSUME PullCommand PROVE HubTypes'
  BY <1>15 DEF PullCommand, Answer
<1>16. ASSUME UnparkPull PROVE HubTypes'
  BY <1>16 DEF UnparkPull, Answer
<1>17. ASSUME DialWS PROVE HubTypes'
  BY <1>17 DEF DialWS, Register
<1>18. ASSUME DialHTTPS PROVE HubTypes'
  BY <1>18 DEF DialHTTPS, Register
<1>19. ASSUME LeaveWS PROVE HubTypes'
  BY <1>19 DEF LeaveWS, StopFlush
<1>20. ASSUME LeaveHTTPS PROVE HubTypes'
  BY <1>20 DEF LeaveHTTPS, Answer
<1>21. ASSUME SendExchange PROVE HubTypes'
  BY <1>21 DEF SendExchange
<1>22. ASSUME ReadCommand PROVE HubTypes'
  BY <1>22 DEF ReadCommand, Check, ReplyTo
<1>23. ASSUME ReceiveExchange PROVE HubTypes'
  BY <1>23 DEF ReceiveExchange, Answer, Check, ReplyTo
<1>24. ASSUME NEW c \in Conns, AcceptCommand(c) PROVE HubTypes'
  BY <1>24 DEF AcceptCommand, Acceptable, ReplyTo
<1>25. ASSUME NEW c \in Conns, Execute(c) PROVE HubTypes'
  BY <1>25 DEF Execute, ReplyTo
<1>26. ASSUME NEW c \in Conns, AnswerCommand(c) PROVE HubTypes'
  BY <1>26 DEF AnswerCommand, ReplyTo
<1>27. ASSUME RestartAgent PROVE HubTypes'
  BY <1>27 DEF RestartAgent, StopFlush, Answer
<1>28. CASE UNCHANGED vars BY <1>28 DEF vars
<1> QED BY <1>1, <1>2, <1>3, <1>4, <1>5, <1>6, <1>7, <1>8, <1>9, <1>10, <1>11, <1>12, <1>13,
     <1>14, <1>15, <1>16, <1>17, <1>18, <1>19, <1>20, <1>21, <1>22, <1>23, <1>24, <1>25,
     <1>26, <1>27, <1>28, RequestCases DEF Next

\* So do the calls.
LEMMA NextCalls ==
  ASSUME HubTypes, CallTypes, Reports, [Next]_vars
  PROVE  CallTypes'
<1> USE MaxConnsAssumption DEF HubTypes, CallTypes, Outcomes, hubVars, queueVars, callVars,
        wsVars, httpsVars, agentVars, workVars, memoryVars
<1>1. ASSUME NEW r \in Requests, Refuses(r) PROVE CallTypes'
  BY <1>1 DEF Refuses
<1>2. ASSUME NEW r \in Requests, Takes(r) PROVE CallTypes'
  BY <1>2 DEF Takes
<1>3. ASSUME NEW r \in Requests, WriteCommand(r) PROVE CallTypes'
  BY <1>3 DEF WriteCommand, Push
<1>4. ASSUME NEW r \in Requests, NEW o \in {"success", "failure", "timeout"}, Return(r, o)
       PROVE CallTypes'
  BY <1>4 DEF Return, RemoveCommand
<1>5. ASSUME NEW r \in Requests, Age(r) PROVE CallTypes'
  BY <1>5 DEF Age
<1>6. ASSUME NEW r \in Requests, Forget(r) PROVE CallTypes'
  BY <1>6 DEF Forget
<1>7. ASSUME Disconnect PROVE CallTypes'
  BY <1>7 DEF Disconnect, Unregister
<1>8. ASSUME StopServing PROVE CallTypes'
  BY <1>8 DEF StopServing, Unregister
<1>9. ASSUME ReadResult PROVE CallTypes'
  <2>1. up \in Seq(Truthful) /\ up # <<>> BY <1>9 DEF ReadResult, Reports
  <2>2. channel' \in [Requests -> {None, "success", "failure"}]
    BY <2>1, HeadIsTruthful, ResolveTypes, <1>9 DEF ReadResult, Truthful
  <2> QED BY <2>2, <1>9 DEF ReadResult
<1>10. ASSUME Lapse PROVE CallTypes'
  BY <1>10 DEF Lapse
<1>11. ASSUME ExpireHTTPS PROVE CallTypes'
  BY <1>11 DEF ExpireHTTPS, Unregister
<1>12. ASSUME FlushStart PROVE CallTypes'
  BY <1>12 DEF FlushStart
<1>13. ASSUME FlushWrite PROVE CallTypes'
  BY <1>13 DEF FlushWrite, Push, StopFlush
<1>14. ASSUME ServeExchange PROVE CallTypes'
  <2>1. up \in Seq(Truthful) BY DEF Reports
  <2>2. channel' \in [Requests -> {None, "success", "failure"}]
    <3>1. CASE link = "https" /\ ~lapsed /\ up # <<>>
      BY <3>1, <2>1, HeadIsTruthful, ResolveTypes, <1>14 DEF ServeExchange, Truthful
    <3>2. CASE ~(link = "https" /\ ~lapsed /\ up # <<>>)
      BY <3>2, <1>14 DEF ServeExchange
    <3> QED BY <3>1, <3>2
  <2> QED BY <2>2, <1>14 DEF ServeExchange
<1>15. ASSUME PullCommand PROVE CallTypes'
  BY <1>15 DEF PullCommand, Answer
<1>16. ASSUME UnparkPull PROVE CallTypes'
  BY <1>16 DEF UnparkPull, Answer
<1>17. ASSUME DialWS PROVE CallTypes'
  BY <1>17 DEF DialWS, Register
<1>18. ASSUME DialHTTPS PROVE CallTypes'
  BY <1>18 DEF DialHTTPS, Register
<1>19. ASSUME LeaveWS PROVE CallTypes'
  BY <1>19 DEF LeaveWS, StopFlush
<1>20. ASSUME LeaveHTTPS PROVE CallTypes'
  BY <1>20 DEF LeaveHTTPS, Answer
<1>21. ASSUME SendExchange PROVE CallTypes'
  BY <1>21 DEF SendExchange
<1>22. ASSUME ReadCommand PROVE CallTypes'
  BY <1>22 DEF ReadCommand, Check, ReplyTo
<1>23. ASSUME ReceiveExchange PROVE CallTypes'
  BY <1>23 DEF ReceiveExchange, Answer, Check, ReplyTo
<1>24. ASSUME NEW c \in Conns, AcceptCommand(c) PROVE CallTypes'
  BY <1>24 DEF AcceptCommand, Acceptable, ReplyTo
<1>25. ASSUME NEW c \in Conns, Execute(c) PROVE CallTypes'
  BY <1>25 DEF Execute, ReplyTo
<1>26. ASSUME NEW c \in Conns, AnswerCommand(c) PROVE CallTypes'
  BY <1>26 DEF AnswerCommand, ReplyTo
<1>27. ASSUME RestartAgent PROVE CallTypes'
  BY <1>27 DEF RestartAgent, StopFlush, Answer
<1>28. CASE UNCHANGED vars BY <1>28 DEF vars
<1> QED BY <1>1, <1>2, <1>3, <1>4, <1>5, <1>6, <1>7, <1>8, <1>9, <1>10, <1>11, <1>12, <1>13,
     <1>14, <1>15, <1>16, <1>17, <1>18, <1>19, <1>20, <1>21, <1>22, <1>23, <1>24, <1>25,
     <1>26, <1>27, <1>28, RequestCases DEF Next

\* A connection is registered as what it is.
LEMMA NextLinks ==
  ASSUME HubTypes, CallTypes, Links, [Next]_vars
  PROVE  Links'
<1> USE DEF HubTypes, CallTypes, Links, hubVars, queueVars, callVars, wsVars, httpsVars,
        agentVars, workVars, memoryVars
<1>1. ASSUME NEW r \in Requests, Refuses(r) PROVE Links'
  BY <1>1 DEF Refuses
<1>2. ASSUME NEW r \in Requests, Takes(r) PROVE Links'
  BY <1>2 DEF Takes
<1>3. ASSUME NEW r \in Requests, WriteCommand(r) PROVE Links'
  BY <1>3 DEF WriteCommand, Push
<1>4. ASSUME NEW r \in Requests, NEW o \in {"success", "failure", "timeout"}, Return(r, o)
       PROVE Links'
  BY <1>4 DEF Return, RemoveCommand
<1>5. ASSUME NEW r \in Requests, Age(r) PROVE Links'
  BY <1>5 DEF Age
<1>6. ASSUME NEW r \in Requests, Forget(r) PROVE Links'
  BY <1>6 DEF Forget
<1>7. ASSUME Disconnect PROVE Links'
  BY <1>7 DEF Disconnect, Unregister
<1>8. ASSUME StopServing PROVE Links'
  BY <1>8 DEF StopServing, Unregister
<1>9. ASSUME ReadResult PROVE Links'
  BY <1>9 DEF ReadResult, Resolve, RemoveCommand
<1>10. ASSUME Lapse PROVE Links'
  BY <1>10 DEF Lapse
<1>11. ASSUME ExpireHTTPS PROVE Links'
  BY <1>11 DEF ExpireHTTPS, Unregister
<1>12. ASSUME FlushStart PROVE Links'
  BY <1>12 DEF FlushStart
<1>13. ASSUME FlushWrite PROVE Links'
  BY <1>13 DEF FlushWrite, Push, StopFlush
<1>14. ASSUME ServeExchange PROVE Links'
  BY <1>14 DEF ServeExchange, Resolve, RemoveCommand
<1>15. ASSUME PullCommand PROVE Links'
  BY <1>15 DEF PullCommand, Answer
<1>16. ASSUME UnparkPull PROVE Links'
  BY <1>16 DEF UnparkPull, Answer
<1>17. ASSUME DialWS PROVE Links'
  BY <1>17 DEF DialWS, Register
<1>18. ASSUME DialHTTPS PROVE Links'
  BY <1>18 DEF DialHTTPS, Register
<1>19. ASSUME LeaveWS PROVE Links'
  BY <1>19 DEF LeaveWS, StopFlush
<1>20. ASSUME LeaveHTTPS PROVE Links'
  BY <1>20 DEF LeaveHTTPS, Answer
<1>21. ASSUME SendExchange PROVE Links'
  BY <1>21 DEF SendExchange
<1>22. ASSUME ReadCommand PROVE Links'
  BY <1>22 DEF ReadCommand, Check, ReplyTo
<1>23. ASSUME ReceiveExchange PROVE Links'
  BY <1>23 DEF ReceiveExchange, Answer, Check, ReplyTo
<1>24. ASSUME NEW c \in Conns, AcceptCommand(c) PROVE Links'
  BY <1>24 DEF AcceptCommand, Acceptable, ReplyTo
<1>25. ASSUME NEW c \in Conns, Execute(c) PROVE Links'
  BY <1>25 DEF Execute, ReplyTo
<1>26. ASSUME NEW c \in Conns, AnswerCommand(c) PROVE Links'
  BY <1>26 DEF AnswerCommand, ReplyTo
<1>27. ASSUME RestartAgent PROVE Links'
  BY <1>27 DEF RestartAgent, StopFlush, Answer
<1>28. CASE UNCHANGED vars BY <1>28 DEF vars
<1> QED BY <1>1, <1>2, <1>3, <1>4, <1>5, <1>6, <1>7, <1>8, <1>9, <1>10, <1>11, <1>12, <1>13,
     <1>14, <1>15, <1>16, <1>17, <1>18, <1>19, <1>20, <1>21, <1>22, <1>23, <1>24, <1>25,
     <1>26, <1>27, <1>28, RequestCases DEF Next

-----------------------------------------------------------------------------
\* What a process knows it knows until the end: what it carries out it has accepted, and
\* what it forgets is too old.
LEMMA KnownGrows ==
  ASSUME WorkTypes, Once, [Next]_vars, ~RestartAgent
  PROVE  Known \subseteq Known'
<1> USE DEF Known, WorkTypes, hubVars, queueVars, callVars, wsVars, httpsVars, agentVars,
        workVars, memoryVars
<1>1. ASSUME NEW r \in Requests, Refuses(r) PROVE Known \subseteq Known'
  BY <1>1 DEF Refuses
<1>2. ASSUME NEW r \in Requests, Takes(r) PROVE Known \subseteq Known'
  BY <1>2 DEF Takes
<1>3. ASSUME NEW r \in Requests, WriteCommand(r) PROVE Known \subseteq Known'
  BY <1>3 DEF WriteCommand, Push
<1>4. ASSUME NEW r \in Requests, NEW o \in {"success", "failure", "timeout"}, Return(r, o)
       PROVE Known \subseteq Known'
  BY <1>4 DEF Return
<1>5. ASSUME NEW r \in Requests, Age(r) PROVE Known \subseteq Known'
  BY <1>5 DEF Age
<1>6. ASSUME NEW r \in Requests, Forget(r) PROVE Known \subseteq Known'
  BY <1>6 DEF Forget
<1>7. ASSUME Disconnect PROVE Known \subseteq Known'
  BY <1>7 DEF Disconnect, Unregister
<1>8. ASSUME StopServing PROVE Known \subseteq Known'
  BY <1>8 DEF StopServing, Unregister
<1>9. ASSUME ReadResult PROVE Known \subseteq Known'
  BY <1>9 DEF ReadResult, Resolve, RemoveCommand
<1>10. ASSUME Lapse PROVE Known \subseteq Known'
  BY <1>10 DEF Lapse
<1>11. ASSUME ExpireHTTPS PROVE Known \subseteq Known'
  BY <1>11 DEF ExpireHTTPS, Unregister
<1>12. ASSUME FlushStart PROVE Known \subseteq Known'
  BY <1>12 DEF FlushStart
<1>13. ASSUME FlushWrite PROVE Known \subseteq Known'
  BY <1>13 DEF FlushWrite, Push, StopFlush
<1>14. ASSUME ServeExchange PROVE Known \subseteq Known'
  BY <1>14 DEF ServeExchange, Resolve, RemoveCommand
<1>15. ASSUME PullCommand PROVE Known \subseteq Known'
  BY <1>15 DEF PullCommand, Answer
<1>16. ASSUME UnparkPull PROVE Known \subseteq Known'
  BY <1>16 DEF UnparkPull, Answer
<1>17. ASSUME DialWS PROVE Known \subseteq Known'
  BY <1>17 DEF DialWS, Register
<1>18. ASSUME DialHTTPS PROVE Known \subseteq Known'
  BY <1>18 DEF DialHTTPS, Register
<1>19. ASSUME LeaveWS PROVE Known \subseteq Known'
  BY <1>19 DEF LeaveWS, StopFlush
<1>20. ASSUME LeaveHTTPS PROVE Known \subseteq Known'
  BY <1>20 DEF LeaveHTTPS, Answer
<1>21. ASSUME SendExchange PROVE Known \subseteq Known'
  BY <1>21 DEF SendExchange
<1>22. ASSUME ReadCommand PROVE Known \subseteq Known'
  BY <1>22 DEF ReadCommand, Check, ReplyTo
<1>23. ASSUME ReceiveExchange PROVE Known \subseteq Known'
  BY <1>23 DEF ReceiveExchange, Answer, Check, ReplyTo
<1>24. ASSUME NEW c \in Conns, AcceptCommand(c) PROVE Known \subseteq Known'
  BY <1>24 DEF AcceptCommand, Acceptable, ReplyTo
<1>25. ASSUME NEW c \in Conns, Execute(c) PROVE Known \subseteq Known'
  <2>1. job[c] \in seen \cup aged BY <1>25 DEF Execute, Once
  <2> QED BY <2>1, <1>25 DEF Execute
<1>26. ASSUME NEW c \in Conns, AnswerCommand(c) PROVE Known \subseteq Known'
  BY <1>26 DEF AnswerCommand, ReplyTo
<1>27. CASE UNCHANGED vars BY <1>27 DEF vars
<1> QED BY <1>1, <1>2, <1>3, <1>4, <1>5, <1>6, <1>7, <1>8, <1>9, <1>10, <1>11, <1>12, <1>13,
     <1>14, <1>15, <1>16, <1>17, <1>18, <1>19, <1>20, <1>21, <1>22, <1>23, <1>24, <1>25,
     <1>26, <1>27, RequestCases DEF Next

LEMMA WaysGrow ==
  ASSUME WorkTypes, Once, Ways, [Next]_vars, ~RestartAgent
  PROVE  /\ pending \subseteq Known' /\ down \in Seq(Known') /\ reply \in {None} \cup Known'
         /\ \A c \in Conns : worker[c] # "idle" => job[c] \in Known'
  BY KnownGrows, SeqGrows DEF Ways

\* RemoveCommand drops the ids or leaves them.
LEMMA RemovedIDs ==
  ASSUME Ways, NEW r, RemoveCommand(r), NEW S, commandIDs \in Seq(S)
  PROVE  commandIDs' \in Seq(S) /\ commands' \subseteq Requests
  BY EmptySeq DEF RemoveCommand, Ways

LEMMA ResolvedIDs ==
  ASSUME Ways, NEW res, Resolve(res), NEW S, commandIDs \in Seq(S)
  PROVE  commandIDs' \in Seq(S) /\ commands' \subseteq Requests
  BY RemovedIDs DEF Resolve, Ways

LEMMA AppendedIn ==
  ASSUME NEW S, NEW s \in Seq(S), NEW x \in S
  PROVE  Append(s, x) \in Seq(S)
  OBVIOUS

LEMMA RestIn ==
  ASSUME NEW S, NEW s \in Seq(S), s # <<>>
  PROVE  Head(s) \in S /\ Tail(s) \in Seq(S)
  OBVIOUS

\* The workers and what the Agent remembers keep their types.
LEMMA NextWork ==
  ASSUME HubTypes, CallTypes, WorkTypes, Ways, Once, [Next]_vars
  PROVE  WorkTypes'
<1> USE DEF WorkTypes, HubTypes, hubVars, queueVars, callVars, wsVars, httpsVars, agentVars,
        workVars, memoryVars
<1>1. ASSUME NEW r \in Requests, Refuses(r) PROVE WorkTypes'
  BY <1>1 DEF Refuses
<1>2. ASSUME NEW r \in Requests, Takes(r) PROVE WorkTypes'
  BY <1>2 DEF Takes
<1>3. ASSUME NEW r \in Requests, WriteCommand(r) PROVE WorkTypes'
  BY <1>3 DEF WriteCommand, Push
<1>4. ASSUME NEW r \in Requests, NEW o \in {"success", "failure", "timeout"}, Return(r, o)
       PROVE WorkTypes'
  BY <1>4 DEF Return, RemoveCommand
<1>5. ASSUME NEW r \in Requests, Age(r) PROVE WorkTypes'
  BY <1>5 DEF Age
<1>6. ASSUME NEW r \in Requests, Forget(r) PROVE WorkTypes'
  BY <1>6 DEF Forget
<1>7. ASSUME Disconnect PROVE WorkTypes'
  BY <1>7 DEF Disconnect, Unregister
<1>8. ASSUME StopServing PROVE WorkTypes'
  BY <1>8 DEF StopServing, Unregister
<1>9. ASSUME ReadResult PROVE WorkTypes'
  BY <1>9 DEF ReadResult, Resolve, RemoveCommand
<1>10. ASSUME Lapse PROVE WorkTypes'
  BY <1>10 DEF Lapse
<1>11. ASSUME ExpireHTTPS PROVE WorkTypes'
  BY <1>11 DEF ExpireHTTPS, Unregister
<1>12. ASSUME FlushStart PROVE WorkTypes'
  BY <1>12 DEF FlushStart
<1>13. ASSUME FlushWrite PROVE WorkTypes'
  BY <1>13 DEF FlushWrite, Push, StopFlush
<1>14. ASSUME ServeExchange PROVE WorkTypes'
  BY <1>14 DEF ServeExchange, Resolve, RemoveCommand
<1>15. ASSUME PullCommand PROVE WorkTypes'
  BY <1>15 DEF PullCommand, Answer
<1>16. ASSUME UnparkPull PROVE WorkTypes'
  BY <1>16 DEF UnparkPull, Answer
<1>17. ASSUME DialWS PROVE WorkTypes'
  BY <1>17 DEF DialWS, Register
<1>18. ASSUME DialHTTPS PROVE WorkTypes'
  BY <1>18 DEF DialHTTPS, Register
<1>19. ASSUME LeaveWS PROVE WorkTypes'
  BY <1>19 DEF LeaveWS, StopFlush
<1>20. ASSUME LeaveHTTPS PROVE WorkTypes'
  BY <1>20 DEF LeaveHTTPS, Answer
<1>21. ASSUME SendExchange PROVE WorkTypes'
  BY <1>21 DEF SendExchange
<1>22. ASSUME ReadCommand PROVE WorkTypes'
  <2>1. Head(down) \in Requests BY <1>22, RestIn DEF ReadCommand, Ways, Known
  <2> QED BY <2>1, <1>22 DEF ReadCommand, Check
<1>23. ASSUME ReceiveExchange PROVE WorkTypes'
  <2>1. reply # None => reply \in Requests BY DEF Ways, Known
  <2> QED BY <2>1, <1>23 DEF ReceiveExchange, Check
<1>24. ASSUME NEW c \in Conns, AcceptCommand(c) PROVE WorkTypes'
  <2>1. job[c] \in Requests BY <1>24 DEF AcceptCommand, Ways, Known
  <2> QED BY <2>1, <1>24 DEF AcceptCommand
<1>25. ASSUME NEW c \in Conns, Execute(c) PROVE WorkTypes'
  <2>1. job[c] \in Requests BY <1>25 DEF Execute, Ways, Known
  <2>2. effects' \in [Requests -> Nat] /\ live' \subseteq Requests
    BY <2>1, <1>25 DEF Execute
  <2> QED BY <2>1, <2>2, <1>25 DEF Execute
<1>26. ASSUME NEW c \in Conns, AnswerCommand(c) PROVE WorkTypes'
  <2>1. job[c] \in Requests BY <1>26 DEF AnswerCommand, Ways, Known
  <2> QED BY <2>1, <1>26 DEF AnswerCommand
<1>27. ASSUME RestartAgent PROVE WorkTypes'
  BY <1>27 DEF RestartAgent, StopFlush, Answer
<1>28. CASE UNCHANGED vars BY <1>28 DEF vars
<1> QED BY <1>1, <1>2, <1>3, <1>4, <1>5, <1>6, <1>7, <1>8, <1>9, <1>10, <1>11, <1>12, <1>13,
     <1>14, <1>15, <1>16, <1>17, <1>18, <1>19, <1>20, <1>21, <1>22, <1>23, <1>24, <1>25,
     <1>26, <1>27, <1>28, RequestCases DEF Next

\* Only what the Agent's process knows travels to it.
LEMMA NextWays ==
  ASSUME HubTypes, CallTypes, WorkTypes, Queues, Once, Ways, [Next]_vars
  PROVE  Ways'
<1> USE DEF Ways, hubVars, queueVars, callVars, wsVars, httpsVars, agentVars, workVars,
        memoryVars
<1>0. CASE RestartAgent
  <2>1. pending' \subseteq Known'
    <3>1. pending' \subseteq live' BY <1>0 DEF RestartAgent, Queues, QueueConsistent
    <3> QED BY <3>1 DEF Known
  <2>2. flushIDs' = <<>> /\ down' = <<>> BY <1>0 DEF RestartAgent, StopFlush
  <2> QED BY <2>1, <2>2, <1>0, EmptySeq DEF RestartAgent, Answer
<1>s. SUFFICES ASSUME ~RestartAgent PROVE Ways'
  BY <1>0
<1> /\ pending \subseteq Known' /\ down \in Seq(Known') /\ reply \in {None} \cup Known'
    /\ \A c \in Conns : worker[c] # "idle" => job[c] \in Known'
  BY <1>s, WaysGrow
<1>c. commands \subseteq pending /\ Known' \subseteq Requests
  <2>1. commands \subseteq pending BY DEF Queues, QueueConsistent
  <2>2. WorkTypes' BY NextWork
  <2> QED BY <2>1, <2>2 DEF WorkTypes, Known
<1>1. ASSUME NEW r \in Requests, Refuses(r) PROVE Ways'
  BY <1>1 DEF Refuses
<1>2. ASSUME NEW r \in Requests, Takes(r) PROVE Ways'
  <2>1. commandIDs' \in Seq(Requests) BY <1>2, AppendedIn DEF Takes
  <2>2. r \in Known' BY <1>2 DEF Takes, Known
  <2> QED BY <2>1, <2>2, <1>2 DEF Takes
<1>3. ASSUME NEW r \in Requests, WriteCommand(r) PROVE Ways'
  <2>1. r \in Known' BY <1>3 DEF WriteCommand, Queues, QueueConsistent
  <2>2. down' \in Seq(Known')
    <3>1. down' = Append(down, r) \/ down' = down BY <1>3 DEF WriteCommand, Push
    <3> QED BY <3>1, <2>1, AppendedIn
  <2> QED BY <2>2, <1>3 DEF WriteCommand
<1>4. ASSUME NEW r \in Requests, NEW o \in {"success", "failure", "timeout"}, Return(r, o)
       PROVE Ways'
  <2>1. commandIDs' \in Seq(Requests) /\ commands' \subseteq Requests
    BY <1>4, RemovedIDs DEF Return
  <2> QED BY <2>1, <1>4 DEF Return
<1>5. ASSUME NEW r \in Requests, Age(r) PROVE Ways'
  BY <1>5 DEF Age
<1>6. ASSUME NEW r \in Requests, Forget(r) PROVE Ways'
  BY <1>6 DEF Forget
<1>7. ASSUME Disconnect PROVE Ways'
  BY <1>7 DEF Disconnect, Unregister
<1>8. ASSUME StopServing PROVE Ways'
  BY <1>8 DEF StopServing, Unregister
<1>9. ASSUME ReadResult PROVE Ways'
  <2>1. commandIDs' \in Seq(Requests) /\ commands' \subseteq Requests
    BY <1>9, ResolvedIDs DEF ReadResult
  <2> QED BY <2>1, <1>9 DEF ReadResult
<1>10. ASSUME Lapse PROVE Ways'
  BY <1>10 DEF Lapse
<1>11. ASSUME ExpireHTTPS PROVE Ways'
  BY <1>11 DEF ExpireHTTPS, Unregister
<1>12. ASSUME FlushStart PROVE Ways'
  BY <1>12 DEF FlushStart
<1>13. ASSUME FlushWrite PROVE Ways'
  <2>1. CASE flushIDs # <<>>
    <3>1. Tail(flushIDs) \in Seq(Requests) BY <2>1, RestIn
    <3>2. flushIDs' \in Seq(Requests)
      BY <3>1, <1>13, EmptySeq DEF FlushWrite, StopFlush
    <3>3. (Head(flushIDs) \in Known' /\ down' = Append(down, Head(flushIDs))) \/ down' = down
      BY <1>c, <1>13 DEF FlushWrite, Push
    <3>4. down' \in Seq(Known') BY <3>3, AppendedIn
    <3> QED BY <3>2, <3>4, <1>13 DEF FlushWrite
  <2>2. CASE flushIDs = <<>>
    BY <2>2, <1>13 DEF FlushWrite, StopFlush
  <2> QED BY <2>1, <2>2
<1>14. ASSUME ServeExchange PROVE Ways'
  <2>1. commandIDs' \in Seq(Requests) /\ commands' \subseteq Requests
    BY <1>14, ResolvedIDs DEF ServeExchange
  <2> QED BY <2>1, <1>14 DEF ServeExchange
<1>15. ASSUME PullCommand PROVE Ways'
  <2>1. reply' \in {None} \cup Known'
    BY <1>c, <1>15 DEF PullCommand, FirstCommand, Answer
  <2> QED BY <2>1, <1>15 DEF PullCommand
<1>16. ASSUME UnparkPull PROVE Ways'
  BY <1>16 DEF UnparkPull, Answer
<1>17. ASSUME DialWS PROVE Ways'
  BY <1>17 DEF DialWS, Register
<1>18. ASSUME DialHTTPS PROVE Ways'
  BY <1>18 DEF DialHTTPS, Register
<1>19. ASSUME LeaveWS PROVE Ways'
  BY <1>19 DEF LeaveWS, StopFlush
<1>20. ASSUME LeaveHTTPS PROVE Ways'
  BY <1>20 DEF LeaveHTTPS, Answer
<1>21. ASSUME SendExchange PROVE Ways'
  BY <1>21 DEF SendExchange
<1>22. ASSUME ReadCommand PROVE Ways'
  <2>1. Head(down) \in Known' /\ Tail(down) \in Seq(Known') BY <1>22, RestIn DEF ReadCommand
  <2>2. down' \in Seq(Known') BY <2>1, <1>22 DEF ReadCommand
  <2>3. \A c \in Conns : worker'[c] # "idle" => job'[c] \in Known'
    BY <2>1, <1>22 DEF ReadCommand, Check, WorkTypes
  <2> QED BY <2>2, <2>3, <1>22 DEF ReadCommand
<1>23. ASSUME ReceiveExchange PROVE Ways'
  <2>1. reply # None => reply \in Known' OBVIOUS
  <2>2. \A c \in Conns : worker'[c] # "idle" => job'[c] \in Known'
    BY <2>1, <1>23 DEF ReceiveExchange, Check, WorkTypes
  <2> QED BY <2>2, <1>23 DEF ReceiveExchange, Answer
<1>24. ASSUME NEW c \in Conns, AcceptCommand(c) PROVE Ways'
  <2>1. \A d \in Conns : worker'[d] # "idle" => job'[d] \in Known'
    BY <1>24 DEF AcceptCommand, WorkTypes
  <2> QED BY <2>1, <1>24 DEF AcceptCommand
<1>25. ASSUME NEW c \in Conns, Execute(c) PROVE Ways'
  <2>1. \A d \in Conns : worker'[d] # "idle" => job'[d] \in Known'
    BY <1>25 DEF Execute, WorkTypes
  <2> QED BY <2>1, <1>25 DEF Execute
<1>26. ASSUME NEW c \in Conns, AnswerCommand(c) PROVE Ways'
  <2>1. \A d \in Conns : worker'[d] # "idle" => job'[d] \in Known'
    BY <1>26 DEF AnswerCommand, WorkTypes
  <2> QED BY <2>1, <1>26 DEF AnswerCommand
<1>27. CASE UNCHANGED vars BY <1>27 DEF vars
<1> QED BY <1>1, <1>2, <1>3, <1>4, <1>5, <1>6, <1>7, <1>8, <1>9, <1>10, <1>11, <1>12, <1>13,
     <1>14, <1>15, <1>16, <1>17, <1>18, <1>19, <1>20, <1>21, <1>22, <1>23, <1>24, <1>25,
     <1>26, <1>27, <1>s, RequestCases DEF Next

-----------------------------------------------------------------------------
\* acceptCommand refuses what was accepted before, and what is too old.
LEMMA NextOnce ==
  ASSUME HubTypes, WorkTypes, Ways, Once, [Next]_vars
  PROVE  Once'
<1> USE DEF WorkTypes, HubTypes, Once, hubVars, queueVars, callVars, wsVars, httpsVars,
        agentVars, workVars, memoryVars
<1>1. ASSUME NEW r \in Requests, Refuses(r) PROVE Once'
  BY <1>1 DEF Refuses
<1>2. ASSUME NEW r \in Requests, Takes(r) PROVE Once'
  BY <1>2 DEF Takes
<1>3. ASSUME NEW r \in Requests, WriteCommand(r) PROVE Once'
  BY <1>3 DEF WriteCommand, Push
<1>4. ASSUME NEW r \in Requests, NEW o \in {"success", "failure", "timeout"}, Return(r, o)
       PROVE Once'
  BY <1>4 DEF Return, RemoveCommand
<1>5. ASSUME NEW r \in Requests, Age(r) PROVE Once'
  BY <1>5 DEF Age
<1>6. ASSUME NEW r \in Requests, Forget(r) PROVE Once'
  BY <1>6 DEF Forget
<1>7. ASSUME Disconnect PROVE Once'
  BY <1>7 DEF Disconnect, Unregister
<1>8. ASSUME StopServing PROVE Once'
  BY <1>8 DEF StopServing, Unregister
<1>9. ASSUME ReadResult PROVE Once'
  BY <1>9 DEF ReadResult, Resolve, RemoveCommand
<1>10. ASSUME Lapse PROVE Once'
  BY <1>10 DEF Lapse
<1>11. ASSUME ExpireHTTPS PROVE Once'
  BY <1>11 DEF ExpireHTTPS, Unregister
<1>12. ASSUME FlushStart PROVE Once'
  BY <1>12 DEF FlushStart
<1>13. ASSUME FlushWrite PROVE Once'
  BY <1>13 DEF FlushWrite, Push, StopFlush
<1>14. ASSUME ServeExchange PROVE Once'
  BY <1>14 DEF ServeExchange, Resolve, RemoveCommand
<1>15. ASSUME PullCommand PROVE Once'
  BY <1>15 DEF PullCommand, Answer
<1>16. ASSUME UnparkPull PROVE Once'
  BY <1>16 DEF UnparkPull, Answer
<1>17. ASSUME DialWS PROVE Once'
  BY <1>17 DEF DialWS, Register
<1>18. ASSUME DialHTTPS PROVE Once'
  BY <1>18 DEF DialHTTPS, Register
<1>19. ASSUME LeaveWS PROVE Once'
  BY <1>19 DEF LeaveWS, StopFlush
<1>20. ASSUME LeaveHTTPS PROVE Once'
  BY <1>20 DEF LeaveHTTPS, Answer
<1>21. ASSUME SendExchange PROVE Once'
  BY <1>21 DEF SendExchange
<1>22. ASSUME ReadCommand PROVE Once'
  <2>1. \A d \in Conns : worker'[d] = "execute" => worker[d] = "execute" /\ job'[d] = job[d]
    BY <1>22 DEF ReadCommand, Check
  <2> QED BY <2>1, <1>22 DEF ReadCommand
<1>23. ASSUME ReceiveExchange PROVE Once'
  <2>1. \A d \in Conns : worker'[d] = "execute" => worker[d] = "execute" /\ job'[d] = job[d]
    BY <1>23 DEF ReceiveExchange, Check
  <2> QED BY <2>1, <1>23 DEF ReceiveExchange
<1>24. ASSUME NEW c \in Conns, AcceptCommand(c) PROVE Once'
  <2>1. job[c] \in Requests /\ job[c] \in Known BY <1>24 DEF AcceptCommand, Ways, Known
  <2>2. CASE Acceptable(job[c])
    <3>1. job[c] \in live /\ job[c] \notin seen \cup aged BY <2>1, <2>2 DEF Acceptable, Known
    <3>2. seen' = seen \cup {job[c]} BY <2>2, <1>24 DEF AcceptCommand
    <3>3. \A d \in Conns : worker'[d] = "execute" => d = c \/ worker[d] = "execute"
      BY <2>2, <1>24 DEF AcceptCommand
    <3> QED BY <2>1, <3>1, <3>2, <3>3, <2>2, <1>24 DEF AcceptCommand
  <2>3. CASE ~Acceptable(job[c])
    BY <2>1, <2>3, <1>24 DEF AcceptCommand
  <2> QED BY <2>2, <2>3
<1>25. ASSUME NEW c \in Conns, Execute(c) PROVE Once'
  <2>1. live \ {job[c]} \subseteq live' BY <1>25 DEF Execute
  <2>2. \A d \in Conns :
           worker'[d] = "execute" => d # c /\ worker[d] = "execute" /\ job'[d] = job[d]
    BY <1>25 DEF Execute
  <2> QED BY <2>1, <2>2, <1>25 DEF Execute
<1>26. ASSUME NEW c \in Conns, AnswerCommand(c) PROVE Once'
  <2>1. \A d \in Conns :
           worker'[d] = "execute" => worker[d] = "execute" /\ job'[d] = job[d]
    BY <1>26 DEF AnswerCommand
  <2> QED BY <2>1, <1>26 DEF AnswerCommand
<1>27. ASSUME RestartAgent PROVE Once'
  BY <1>27 DEF RestartAgent, StopFlush, Answer
<1>28. CASE UNCHANGED vars BY <1>28 DEF vars
<1> QED BY <1>1, <1>2, <1>3, <1>4, <1>5, <1>6, <1>7, <1>8, <1>9, <1>10, <1>11, <1>12, <1>13,
     <1>14, <1>15, <1>16, <1>17, <1>18, <1>19, <1>20, <1>21, <1>22, <1>23, <1>24, <1>25,
     <1>26, <1>27, <1>28, RequestCases DEF Next

\* A success that is true stays true.
LEMMA TruthfulGrows ==
  ASSUME WorkTypes, Ways, Once, [Next]_vars
  PROVE  Truthful \subseteq Truthful'
<1> USE DEF Truthful, hubVars, queueVars, callVars, wsVars, httpsVars, agentVars, workVars,
        memoryVars
<1>1. ASSUME NEW r \in Requests, Refuses(r) PROVE Truthful \subseteq Truthful'
  BY <1>1 DEF Refuses
<1>2. ASSUME NEW r \in Requests, Takes(r) PROVE Truthful \subseteq Truthful'
  BY <1>2 DEF Takes
<1>3. ASSUME NEW r \in Requests, WriteCommand(r) PROVE Truthful \subseteq Truthful'
  BY <1>3 DEF WriteCommand, Push
<1>4. ASSUME NEW r \in Requests, NEW o \in {"success", "failure", "timeout"}, Return(r, o)
       PROVE Truthful \subseteq Truthful'
  BY <1>4 DEF Return, RemoveCommand
<1>5. ASSUME NEW r \in Requests, Age(r) PROVE Truthful \subseteq Truthful'
  BY <1>5 DEF Age
<1>6. ASSUME NEW r \in Requests, Forget(r) PROVE Truthful \subseteq Truthful'
  BY <1>6 DEF Forget
<1>7. ASSUME Disconnect PROVE Truthful \subseteq Truthful'
  BY <1>7 DEF Disconnect, Unregister
<1>8. ASSUME StopServing PROVE Truthful \subseteq Truthful'
  BY <1>8 DEF StopServing, Unregister
<1>9. ASSUME ReadResult PROVE Truthful \subseteq Truthful'
  BY <1>9 DEF ReadResult, Resolve, RemoveCommand
<1>10. ASSUME Lapse PROVE Truthful \subseteq Truthful'
  BY <1>10 DEF Lapse
<1>11. ASSUME ExpireHTTPS PROVE Truthful \subseteq Truthful'
  BY <1>11 DEF ExpireHTTPS, Unregister
<1>12. ASSUME FlushStart PROVE Truthful \subseteq Truthful'
  BY <1>12 DEF FlushStart
<1>13. ASSUME FlushWrite PROVE Truthful \subseteq Truthful'
  BY <1>13 DEF FlushWrite, Push, StopFlush
<1>14. ASSUME ServeExchange PROVE Truthful \subseteq Truthful'
  BY <1>14 DEF ServeExchange, Resolve, RemoveCommand
<1>15. ASSUME PullCommand PROVE Truthful \subseteq Truthful'
  BY <1>15 DEF PullCommand, Answer
<1>16. ASSUME UnparkPull PROVE Truthful \subseteq Truthful'
  BY <1>16 DEF UnparkPull, Answer
<1>17. ASSUME DialWS PROVE Truthful \subseteq Truthful'
  BY <1>17 DEF DialWS, Register
<1>18. ASSUME DialHTTPS PROVE Truthful \subseteq Truthful'
  BY <1>18 DEF DialHTTPS, Register
<1>19. ASSUME LeaveWS PROVE Truthful \subseteq Truthful'
  BY <1>19 DEF LeaveWS, StopFlush
<1>20. ASSUME LeaveHTTPS PROVE Truthful \subseteq Truthful'
  BY <1>20 DEF LeaveHTTPS, Answer
<1>21. ASSUME SendExchange PROVE Truthful \subseteq Truthful'
  BY <1>21 DEF SendExchange
<1>22. ASSUME ReadCommand PROVE Truthful \subseteq Truthful'
  BY <1>22 DEF ReadCommand, Check, ReplyTo
<1>23. ASSUME ReceiveExchange PROVE Truthful \subseteq Truthful'
  BY <1>23 DEF ReceiveExchange, Answer, Check, ReplyTo
<1>24. ASSUME NEW c \in Conns, AcceptCommand(c) PROVE Truthful \subseteq Truthful'
  BY <1>24 DEF AcceptCommand, Acceptable, ReplyTo
<1>25. ASSUME NEW c \in Conns, Execute(c) PROVE Truthful \subseteq Truthful'
  <2>1. job[c] \in Requests BY <1>25 DEF Execute, Ways, Known, WorkTypes
  <2>2. \A r \in Requests : effects[r] > 0 => effects'[r] > 0
    BY <2>1, <1>25 DEF Execute, WorkTypes
  <2> QED BY <2>2 DEF Results
<1>26. ASSUME NEW c \in Conns, AnswerCommand(c) PROVE Truthful \subseteq Truthful'
  BY <1>26 DEF AnswerCommand, ReplyTo
<1>27. ASSUME RestartAgent PROVE Truthful \subseteq Truthful'
  BY <1>27 DEF RestartAgent, StopFlush, Answer
<1>28. CASE UNCHANGED vars BY <1>28 DEF vars
<1> QED BY <1>1, <1>2, <1>3, <1>4, <1>5, <1>6, <1>7, <1>8, <1>9, <1>10, <1>11, <1>12, <1>13,
     <1>14, <1>15, <1>16, <1>17, <1>18, <1>19, <1>20, <1>21, <1>22, <1>23, <1>24, <1>25,
     <1>26, <1>27, <1>28, RequestCases DEF Next

-----------------------------------------------------------------------------
LEMMA ReplyIn ==
  ASSUME NEW S, up \in Seq(S), queued \in {None} \cup S, NEW c, NEW r, NEW x,
         [request |-> r, result |-> x] \in S, ReplyTo(c, r, x)
  PROVE  up' \in Seq(S) /\ queued' \in {None} \cup S
<1>1. up' = up \/ up' = Append(up, [request |-> r, result |-> x]) BY DEF ReplyTo
<1>2. up' \in Seq(S) BY <1>1, AppendedIn
<1> QED BY <1>2 DEF ReplyTo

\* A cached result is sent again as it was.
LEMMA CheckIn ==
  ASSUME WorkTypes, Reports, NEW S, Truthful \subseteq S, up \in Seq(S), queued \in {None} \cup S,
         NEW c, NEW r \in Requests, Check(c, r)
  PROVE  up' \in Seq(S) /\ queued' \in {None} \cup S
<1>1. CASE results[r] = None \/ r \in aged
  <2>1. up' = up /\ queued' = None BY <1>1 DEF Check
  <2> QED BY <2>1
<1>2. CASE results[r] # None /\ r \notin aged
  <2>1. ReplyTo(c, r, results[r]) BY <1>2 DEF Check
  <2>2. [request |-> r, result |-> results[r]] \in Truthful
    BY <1>2 DEF Truthful, Results, Reports, WorkTypes
  <2>3. [request |-> r, result |-> results[r]] \in S BY <2>2
  <2> QED BY <2>1, <2>3, ReplyIn
<1> QED BY <1>1, <1>2

\* Hub.Resolve passes on what it was given.
LEMMA ResolvedTrue ==
  ASSUME CallTypes, Reports, NEW res \in Truthful, Resolve(res)
  PROVE  \A r \in Requests : channel'[r] = "success" => effects[r] > 0
  BY DEF CallTypes, Reports, Truthful, Results, Resolve

\* What the Agent reports, and what the Hub hands to the caller, is true.
LEMMA NextReports ==
  ASSUME HubTypes, CallTypes, WorkTypes, Ways, Once, Reports, [Next]_vars
  PROVE  Reports'
<1> USE DEF Reports, hubVars, queueVars, callVars, wsVars, httpsVars, agentVars, workVars,
        memoryVars
<1>0. Truthful \subseteq Truthful' /\ up \in Seq(Truthful') /\ queued \in {None} \cup Truthful'
  BY TruthfulGrows, SeqGrows DEF Reports
<1>e. <<>> \in Seq(Truthful') BY EmptySeq
<1>1. ASSUME NEW r \in Requests, Refuses(r) PROVE Reports'
  BY <1>0, <1>e, <1>1 DEF Refuses
<1>2. ASSUME NEW r \in Requests, Takes(r) PROVE Reports'
  BY <1>0, <1>e, <1>2 DEF Takes
<1>3. ASSUME NEW r \in Requests, WriteCommand(r) PROVE Reports'
  BY <1>0, <1>e, <1>3 DEF WriteCommand, Push
<1>4. ASSUME NEW r \in Requests, NEW o \in {"success", "failure", "timeout"}, Return(r, o)
       PROVE Reports'
  BY <1>0, <1>4, NoneAssumption DEF Return, CallTypes, Outcomes
<1>5. ASSUME NEW r \in Requests, Age(r) PROVE Reports'
  BY <1>0, <1>e, <1>5 DEF Age
<1>6. ASSUME NEW r \in Requests, Forget(r) PROVE Reports'
  <2>1. \A q \in Requests : results'[q] = "success" => results[q] = "success"
    BY <1>6, NoneAssumption DEF Forget, WorkTypes, Outcomes
  <2> QED BY <1>0, <2>1, <1>6 DEF Forget
<1>7. ASSUME Disconnect PROVE Reports'
  BY <1>0, <1>e, <1>7 DEF Disconnect, Unregister
<1>8. ASSUME StopServing PROVE Reports'
  BY <1>0, <1>e, <1>8 DEF StopServing, Unregister
<1>9. ASSUME ReadResult PROVE Reports'
  <2>1. Head(up) \in Truthful /\ Tail(up) \in Seq(Truthful') BY <1>0, <1>9, RestIn DEF ReadResult
  <2>2. \A r \in Requests : channel'[r] = "success" => effects[r] > 0
    BY <2>1, <1>9, ResolvedTrue DEF ReadResult
  <2> QED BY <1>0, <2>1, <2>2, <1>9 DEF ReadResult
<1>10. ASSUME Lapse PROVE Reports'
  BY <1>0, <1>e, <1>10 DEF Lapse
<1>11. ASSUME ExpireHTTPS PROVE Reports'
  BY <1>0, <1>e, <1>11 DEF ExpireHTTPS, Unregister
<1>12. ASSUME FlushStart PROVE Reports'
  BY <1>0, <1>e, <1>12 DEF FlushStart
<1>13. ASSUME FlushWrite PROVE Reports'
  BY <1>0, <1>e, <1>13 DEF FlushWrite, Push, StopFlush
<1>14. ASSUME ServeExchange PROVE Reports'
  <2>1. up' = <<>> BY <1>14 DEF ServeExchange
  <2>2. \A r \in Requests : channel'[r] = "success" => effects[r] > 0
    <3>1. CASE up # <<>> /\ Resolve(Head(up)) BY <3>1, RestIn, ResolvedTrue
    <3>2. CASE channel' = channel BY <3>2
    <3> QED BY <3>1, <3>2, <1>14 DEF ServeExchange
  <2> QED BY <1>0, <1>e, <2>1, <2>2, <1>14 DEF ServeExchange
<1>15. ASSUME PullCommand PROVE Reports'
  BY <1>0, <1>e, <1>15 DEF PullCommand, Answer
<1>16. ASSUME UnparkPull PROVE Reports'
  BY <1>0, <1>e, <1>16 DEF UnparkPull, Answer
<1>17. ASSUME DialWS PROVE Reports'
  BY <1>0, <1>e, <1>17 DEF DialWS, Register
<1>18. ASSUME DialHTTPS PROVE Reports'
  BY <1>0, <1>e, <1>18 DEF DialHTTPS, Register
<1>19. ASSUME LeaveWS PROVE Reports'
  BY <1>0, <1>e, <1>19 DEF LeaveWS, StopFlush
<1>20. ASSUME LeaveHTTPS PROVE Reports'
  BY <1>0, <1>e, <1>20 DEF LeaveHTTPS, Answer
<1>21. ASSUME SendExchange PROVE Reports'
  <2>1. up' \in Seq(Truthful')
    <3>1. CASE queued # None
      <4>1. <<queued>> \in Seq(Truthful') BY <1>0, <3>1
      <4> QED BY <1>0, <4>1, <1>21 DEF SendExchange
    <3>2. CASE queued = None BY <1>0, <3>2, <1>21 DEF SendExchange
    <3> QED BY <3>1, <3>2
  <2> QED BY <1>0, <2>1, <1>21 DEF SendExchange
<1>22. ASSUME ReadCommand PROVE Reports'
  <2>1. Head(down) \in Requests BY <1>22, RestIn DEF ReadCommand, Ways, Known, WorkTypes
  <2>2. up' \in Seq(Truthful') /\ queued' \in {None} \cup Truthful'
    BY <1>0, <2>1, <1>22, CheckIn DEF ReadCommand
  <2>3. \A d \in Conns : worker'[d] = "success" => worker[d] = "success" /\ job'[d] = job[d]
    BY <1>22 DEF ReadCommand, Check, WorkTypes
  <2> QED BY <2>2, <2>3, <1>22 DEF ReadCommand
<1>23. ASSUME ReceiveExchange PROVE Reports'
  <2>1. up' \in Seq(Truthful') /\ queued' \in {None} \cup Truthful'
    <3>1. CASE reply # None
      <4>1. reply \in Requests BY <3>1 DEF Ways, Known, WorkTypes
      <4> QED BY <1>0, <4>1, <3>1, <1>23, CheckIn DEF ReceiveExchange
    <3>2. CASE reply = None BY <1>0, <3>2, <1>23 DEF ReceiveExchange
    <3> QED BY <3>1, <3>2
  <2>2. \A d \in Conns : worker'[d] = "success" => worker[d] = "success" /\ job'[d] = job[d]
    BY <1>23 DEF ReceiveExchange, Check, WorkTypes
  <2> QED BY <2>1, <2>2, <1>23 DEF ReceiveExchange
<1>24. ASSUME NEW c \in Conns, AcceptCommand(c) PROVE Reports'
  <2>1. job[c] \in Requests BY <1>24 DEF AcceptCommand, Ways, Known, WorkTypes
  <2>0. \A d \in Conns : worker'[d] = "success" => worker[d] = "success" /\ job'[d] = job[d]
    BY <1>24 DEF AcceptCommand, WorkTypes
  <2>2. CASE Acceptable(job[c]) BY <1>0, <2>0, <2>2, <1>24 DEF AcceptCommand
  <2>3. CASE ~Acceptable(job[c])
    <3>1. [request |-> job[c], result |-> "failure"] \in Truthful
      BY <2>1 DEF Truthful, Results
    <3>2. up' \in Seq(Truthful') /\ queued' \in {None} \cup Truthful'
      BY <1>0, <3>1, <2>3, <1>24, ReplyIn DEF AcceptCommand
    <3>3. \A r \in Requests : results'[r] = "success" => results[r] = "success"
      BY <2>1, <2>3, <1>24 DEF AcceptCommand, WorkTypes
    <3> QED BY <2>0, <3>2, <3>3, <1>24 DEF AcceptCommand
  <2> QED BY <2>2, <2>3
<1>25. ASSUME NEW c \in Conns, Execute(c) PROVE Reports'
  <2>1. job[c] \in Requests BY <1>25 DEF Execute, Ways, Known, WorkTypes
  <2>2. \A r \in Requests : effects[r] > 0 => effects'[r] > 0
    BY <2>1, <1>25 DEF Execute, WorkTypes
  <2>3. \A d \in Conns : worker'[d] = "success" => effects'[job[d]] > 0
    <3> SUFFICES ASSUME NEW d \in Conns, worker'[d] = "success" PROVE effects'[job[d]] > 0
      OBVIOUS
    <3>1. CASE d = c
      <4>1. effects' = [effects EXCEPT ![job[c]] = effects[job[c]] + 1]
        BY <3>1, <1>25 DEF Execute, WorkTypes
      <4> QED BY <3>1, <4>1, <2>1 DEF WorkTypes
    <3>2. CASE d # c
      <4>1. worker[d] = "success" BY <3>2, <1>25 DEF Execute, WorkTypes
      <4>2. job[d] \in Requests BY <4>1 DEF Ways, Known, WorkTypes
      <4> QED BY <4>1, <4>2, <2>2
    <3> QED BY <3>1, <3>2
  <2> QED BY <1>0, <2>2, <2>3, <1>25 DEF Execute
<1>26. ASSUME NEW c \in Conns, AnswerCommand(c) PROVE Reports'
  <2>1. job[c] \in Requests BY <1>26 DEF AnswerCommand, Ways, Known, WorkTypes
  <2>2. worker[c] \in {"success", "failure"} /\ ReplyTo(c, job[c], worker[c])
    BY <1>26 DEF AnswerCommand
  <2>3. [request |-> job[c], result |-> worker[c]] \in Truthful
    BY <2>1, <2>2 DEF Truthful, Results
  <2>4. up' \in Seq(Truthful') /\ queued' \in {None} \cup Truthful'
    BY <1>0, <2>3, <2>2, ReplyIn
  <2>5. \A r \in Requests : results'[r] = "success" => effects[r] > 0
    BY <2>1, <1>26 DEF AnswerCommand, WorkTypes
  <2>6. \A d \in Conns : worker'[d] = "success" => worker[d] = "success" /\ job'[d] = job[d]
    BY <1>26 DEF AnswerCommand, WorkTypes
  <2> QED BY <2>4, <2>5, <2>6, <1>26 DEF AnswerCommand
<1>27. ASSUME RestartAgent PROVE Reports'
  BY <1>0, <1>27, NoneAssumption DEF RestartAgent, Outcomes
<1>28. CASE UNCHANGED vars BY <1>0, <1>28 DEF vars
<1> QED BY <1>1, <1>2, <1>3, <1>4, <1>5, <1>6, <1>7, <1>8, <1>9, <1>10, <1>11, <1>12, <1>13,
     <1>14, <1>15, <1>16, <1>17, <1>18, <1>19, <1>20, <1>21, <1>22, <1>23, <1>24, <1>25,
     <1>26, <1>27, <1>28, RequestCases DEF Next

-----------------------------------------------------------------------------
LEMMA ResolvedQueues ==
  ASSUME CallTypes, Ways, Queues, NEW res \in Results, Resolve(res),
         UNCHANGED <<call, pending>>
  PROVE  Queues'
<1>1. CASE res.request \in pending
  <2>1. res.request \in Requests /\ res.result \in {"success", "failure"} BY DEF Results
  <2>2. /\ channel'[res.request] # None
        /\ \A q \in Requests : q # res.request => channel'[q] = channel[q]
    BY <1>1, <2>1, NoneAssumption DEF Resolve, CallTypes, Outcomes
  <2>3. RemoveCommand(res.request) BY <1>1 DEF Resolve
  <2>4. commands' = {q \in pending : channel'[q] = None}
    BY <2>1, <2>2, <2>3 DEF RemoveCommand, Queues, QueueConsistent, Ways
  <2>5. /\ \A q \in commands' : \E i \in 1..Len(commandIDs') : commandIDs'[i] = q
        /\ commands' = {} => commandIDs' = <<>>
    BY <2>3 DEF RemoveCommand, Queues, QueueConsistent
  <2>6. \A q \in Requests : q \notin pending => channel'[q] = None
    BY <1>1, <2>2 DEF Queues
  <2> QED BY <2>4, <2>5, <2>6 DEF Queues, QueueConsistent
<1>2. CASE res.request \notin pending BY <1>2 DEF Resolve, Queues, QueueConsistent
<1> QED BY <1>1, <1>2

\* The Hub's maps change together, under its lock.
LEMMA NextQueues ==
  ASSUME HubTypes, CallTypes, Ways, Reports, Queues, [Next]_vars
  PROVE  Queues'
<1> USE DEF hubVars, queueVars, callVars, wsVars, httpsVars, agentVars, workVars, memoryVars
<1>1. ASSUME NEW r \in Requests, Refuses(r) PROVE Queues'
  <2>1. pending = {q \in Requests : call'[q] \in {"writing", "waiting"}}
    BY <1>1 DEF Refuses, CallTypes, Queues, QueueConsistent
  <2> QED BY <2>1, <1>1 DEF Refuses, Queues, QueueConsistent
<1>2. ASSUME NEW r \in Requests, Takes(r) PROVE Queues'
  <2>1. r \notin pending /\ channel[r] = None BY <1>2 DEF Takes, Queues, QueueConsistent
  <2>2. pending' = {q \in Requests : call'[q] \in {"writing", "waiting"}}
    BY <1>2 DEF Takes, CallTypes, Queues, QueueConsistent
  <2>3. commands' = {q \in pending' : channel'[q] = None}
    BY <2>1, <1>2 DEF Takes, Queues, QueueConsistent
  <2>4. /\ Len(commandIDs') = Len(commandIDs) + 1 /\ Len(commandIDs) \in Nat
        /\ \A i \in 1..Len(commandIDs) : commandIDs'[i] = commandIDs[i]
        /\ commandIDs'[Len(commandIDs) + 1] = r
    BY <1>2, AppendProperties, LenProperties DEF Takes, Ways
  <2>5. \A q \in commands' : \E i \in 1..Len(commandIDs') : commandIDs'[i] = q
    <3> SUFFICES ASSUME NEW q \in commands'
          PROVE  \E i \in 1..Len(commandIDs') : commandIDs'[i] = q
      OBVIOUS
    <3>1. CASE q = r BY <3>1, <2>4
    <3>2. CASE q # r
      <4>1. PICK i \in 1..Len(commandIDs) : commandIDs[i] = q
        BY <3>2, <1>2 DEF Takes, Queues, QueueConsistent
      <4> QED BY <4>1, <2>4
    <3> QED BY <3>1, <3>2
  <2>6. \A q \in Requests : q \notin pending' => channel'[q] = None
    BY <1>2 DEF Takes, Queues
  <2> QED BY <2>2, <2>3, <2>5, <2>6, <1>2 DEF Takes, Queues, QueueConsistent
<1>3. ASSUME NEW r \in Requests, WriteCommand(r) PROVE Queues'
  <2>1. pending = {q \in Requests : call'[q] \in {"writing", "waiting"}}
    BY <1>3 DEF WriteCommand, CallTypes, Queues, QueueConsistent
  <2> QED BY <2>1, <1>3 DEF WriteCommand, Queues, QueueConsistent
<1>4. ASSUME NEW r \in Requests, NEW o \in {"success", "failure", "timeout"}, Return(r, o)
       PROVE Queues'
  <2>1. pending' = {q \in Requests : call'[q] \in {"writing", "waiting"}}
    BY <1>4 DEF Return, CallTypes, Queues, QueueConsistent
  <2>2. channel'[r] = None /\ \A q \in Requests : q # r => channel'[q] = channel[q]
    BY <1>4 DEF Return, CallTypes
  <2>3. commands' = {q \in pending' : channel'[q] = None}
    BY <2>2, <1>4 DEF Return, RemoveCommand, Queues, QueueConsistent, Ways
  <2>4. /\ \A q \in commands' : \E i \in 1..Len(commandIDs') : commandIDs'[i] = q
        /\ commands' = {} => commandIDs' = <<>>
    BY <1>4 DEF Return, RemoveCommand, Queues, QueueConsistent
  <2>5. \A q \in Requests : q \notin pending' => channel'[q] = None
    BY <2>2, <1>4 DEF Return, Queues
  <2> QED BY <2>1, <2>3, <2>4, <2>5 DEF Queues, QueueConsistent
<1>5. ASSUME NEW r \in Requests, Age(r) PROVE Queues'
  BY <1>5 DEF Age, Queues, QueueConsistent
<1>6. ASSUME NEW r \in Requests, Forget(r) PROVE Queues'
  BY <1>6 DEF Forget, Queues, QueueConsistent
<1>7. ASSUME Disconnect PROVE Queues'
  BY <1>7 DEF Disconnect, Unregister, Queues, QueueConsistent
<1>8. ASSUME StopServing PROVE Queues'
  BY <1>8 DEF StopServing, Unregister, Queues, QueueConsistent
<1>9. ASSUME ReadResult PROVE Queues'
  <2>1. Head(up) \in Results BY <1>9, RestIn DEF ReadResult, Reports, Truthful
  <2> QED BY <2>1, <1>9, ResolvedQueues DEF ReadResult
<1>10. ASSUME Lapse PROVE Queues'
  BY <1>10 DEF Lapse, Queues, QueueConsistent
<1>11. ASSUME ExpireHTTPS PROVE Queues'
  BY <1>11 DEF ExpireHTTPS, Unregister, Queues, QueueConsistent
<1>12. ASSUME FlushStart PROVE Queues'
  BY <1>12 DEF FlushStart, Queues, QueueConsistent
<1>13. ASSUME FlushWrite PROVE Queues'
  BY <1>13 DEF FlushWrite, Push, StopFlush, Queues, QueueConsistent
<1>14. ASSUME ServeExchange PROVE Queues'
  <2>1. CASE up # <<>> /\ Resolve(Head(up))
    <3>1. Head(up) \in Results BY <2>1, RestIn DEF Reports, Truthful
    <3> QED BY <2>1, <3>1, <1>14, ResolvedQueues DEF ServeExchange
  <2>2. CASE UNCHANGED <<commands, commandIDs, channel>>
    BY <2>2, <1>14 DEF ServeExchange, Queues, QueueConsistent
  <2> QED BY <2>1, <2>2, <1>14 DEF ServeExchange
<1>15. ASSUME PullCommand PROVE Queues'
  BY <1>15 DEF PullCommand, Answer, Queues, QueueConsistent
<1>16. ASSUME UnparkPull PROVE Queues'
  BY <1>16 DEF UnparkPull, Answer, Queues, QueueConsistent
<1>17. ASSUME DialWS PROVE Queues'
  BY <1>17 DEF DialWS, Register, Queues, QueueConsistent
<1>18. ASSUME DialHTTPS PROVE Queues'
  BY <1>18 DEF DialHTTPS, Register, Queues, QueueConsistent
<1>19. ASSUME LeaveWS PROVE Queues'
  BY <1>19 DEF LeaveWS, StopFlush, Queues, QueueConsistent
<1>20. ASSUME LeaveHTTPS PROVE Queues'
  BY <1>20 DEF LeaveHTTPS, Answer, Queues, QueueConsistent
<1>21. ASSUME SendExchange PROVE Queues'
  BY <1>21 DEF SendExchange, Queues, QueueConsistent
<1>22. ASSUME ReadCommand PROVE Queues'
  BY <1>22 DEF ReadCommand, Check, ReplyTo, Queues, QueueConsistent
<1>23. ASSUME ReceiveExchange PROVE Queues'
  BY <1>23 DEF ReceiveExchange, Answer, Check, ReplyTo, Queues, QueueConsistent
<1>24. ASSUME NEW c \in Conns, AcceptCommand(c) PROVE Queues'
  BY <1>24 DEF AcceptCommand, Acceptable, ReplyTo, Queues, QueueConsistent
<1>25. ASSUME NEW c \in Conns, Execute(c) PROVE Queues'
  BY <1>25 DEF Execute, ReplyTo, Queues, QueueConsistent
<1>26. ASSUME NEW c \in Conns, AnswerCommand(c) PROVE Queues'
  BY <1>26 DEF AnswerCommand, ReplyTo, Queues, QueueConsistent
<1>27. ASSUME RestartAgent PROVE Queues'
  BY <1>27 DEF RestartAgent, StopFlush, Answer, Queues, QueueConsistent
<1>28. CASE UNCHANGED vars BY <1>28 DEF vars, Queues, QueueConsistent
<1> QED BY <1>1, <1>2, <1>3, <1>4, <1>5, <1>6, <1>7, <1>8, <1>9, <1>10, <1>11, <1>12, <1>13,
     <1>14, <1>15, <1>16, <1>17, <1>18, <1>19, <1>20, <1>21, <1>22, <1>23, <1>24, <1>25,
     <1>26, <1>27, <1>28, RequestCases DEF Next

\* A pull parks when nothing is outstanding; whoever queues a command then leaves a token.
LEMMA NextWakeup ==
  ASSUME HubTypes, CallTypes, Links, Ways, Queues, NoLostWakeup, [Next]_vars
  PROVE  NoLostWakeup'
<1> USE DEF NoLostWakeup, HubTypes, Links, hubVars, queueVars, callVars, wsVars, httpsVars,
        agentVars, workVars, memoryVars
<1>1. ASSUME NEW r \in Requests, Refuses(r) PROVE NoLostWakeup'
  BY <1>1 DEF Refuses
<1>2. ASSUME NEW r \in Requests, Takes(r) PROVE NoLostWakeup'
  <2>1. (link = "https") => notify' BY <1>2, Zenon DEF Takes, SignalAgent
  <2>2. exchange = "parked" /\ registered = main => link = "https" OBVIOUS
  <2> QED BY <2>1, <2>2, <1>2 DEF Takes
<1>3. ASSUME NEW r \in Requests, WriteCommand(r) PROVE NoLostWakeup'
  BY <1>3 DEF WriteCommand, Push
<1>4. ASSUME NEW r \in Requests, NEW o \in {"success", "failure", "timeout"}, Return(r, o)
       PROVE NoLostWakeup'
  BY <1>4 DEF Return, RemoveCommand
<1>5. ASSUME NEW r \in Requests, Age(r) PROVE NoLostWakeup'
  BY <1>5 DEF Age
<1>6. ASSUME NEW r \in Requests, Forget(r) PROVE NoLostWakeup'
  BY <1>6 DEF Forget
<1>7. ASSUME Disconnect PROVE NoLostWakeup'
  BY <1>7 DEF Disconnect, Unregister
<1>8. ASSUME StopServing PROVE NoLostWakeup'
  BY <1>8 DEF StopServing, Unregister
<1>9. ASSUME ReadResult PROVE NoLostWakeup'
  BY <1>9 DEF ReadResult, Resolve, RemoveCommand
<1>10. ASSUME Lapse PROVE NoLostWakeup'
  BY <1>10 DEF Lapse
<1>11. ASSUME ExpireHTTPS PROVE NoLostWakeup'
  BY <1>11 DEF ExpireHTTPS, Unregister
<1>12. ASSUME FlushStart PROVE NoLostWakeup'
  BY <1>12 DEF FlushStart
<1>13. ASSUME FlushWrite PROVE NoLostWakeup'
  BY <1>13 DEF FlushWrite, Push, StopFlush
<1>14. ASSUME ServeExchange PROVE NoLostWakeup'
  BY <1>14 DEF ServeExchange, Resolve, RemoveCommand
<1>15. ASSUME PullCommand PROVE NoLostWakeup'
  <2>1. exchange' = "parked" => commands = {}
    <3> SUFFICES ASSUME exchange' = "parked", NEW q \in commands PROVE FALSE
      OBVIOUS
    <3>1. \A i \in DOMAIN commandIDs : commandIDs[i] \notin commands
      BY <1>15 DEF PullCommand, Answer
    <3>2. DOMAIN commandIDs = 1..Len(commandIDs) BY LenProperties DEF Ways
    <3> QED BY <3>1, <3>2 DEF Queues, QueueConsistent
  <2> QED BY <2>1, <1>15 DEF PullCommand
<1>16. ASSUME UnparkPull PROVE NoLostWakeup'
  BY <1>16 DEF UnparkPull, Answer
<1>17. ASSUME DialWS PROVE NoLostWakeup'
  BY <1>17 DEF DialWS, Register
<1>18. ASSUME DialHTTPS PROVE NoLostWakeup'
  BY <1>18 DEF DialHTTPS, Register
<1>19. ASSUME LeaveWS PROVE NoLostWakeup'
  BY <1>19 DEF LeaveWS, StopFlush
<1>20. ASSUME LeaveHTTPS PROVE NoLostWakeup'
  BY <1>20 DEF LeaveHTTPS, Answer
<1>21. ASSUME SendExchange PROVE NoLostWakeup'
  BY <1>21 DEF SendExchange
<1>22. ASSUME ReadCommand PROVE NoLostWakeup'
  BY <1>22 DEF ReadCommand, Check, ReplyTo
<1>23. ASSUME ReceiveExchange PROVE NoLostWakeup'
  BY <1>23 DEF ReceiveExchange, Answer, Check, ReplyTo
<1>24. ASSUME NEW c \in Conns, AcceptCommand(c) PROVE NoLostWakeup'
  BY <1>24 DEF AcceptCommand, Acceptable, ReplyTo
<1>25. ASSUME NEW c \in Conns, Execute(c) PROVE NoLostWakeup'
  BY <1>25 DEF Execute, ReplyTo
<1>26. ASSUME NEW c \in Conns, AnswerCommand(c) PROVE NoLostWakeup'
  BY <1>26 DEF AnswerCommand, ReplyTo
<1>27. ASSUME RestartAgent PROVE NoLostWakeup'
  BY <1>27 DEF RestartAgent, StopFlush, Answer
<1>28. CASE UNCHANGED vars BY <1>28 DEF vars
<1> QED BY <1>1, <1>2, <1>3, <1>4, <1>5, <1>6, <1>7, <1>8, <1>9, <1>10, <1>11, <1>12, <1>13,
     <1>14, <1>15, <1>16, <1>17, <1>18, <1>19, <1>20, <1>21, <1>22, <1>23, <1>24, <1>25,
     <1>26, <1>27, <1>28, RequestCases DEF Next

LEMMA InitIInv == Init => IInv
<1> SUFFICES ASSUME Init PROVE IInv
  OBVIOUS
<1> USE NoneAssumption, MaxConnsAssumption DEF Outcomes
<1>1. Flags BY Zenon DEF Init, Flags
<1>2. Types BY <1>1 DEF Init, Types, HubTypes, CallTypes, WorkTypes, Conns
<1>3. Ways BY EmptySeq DEF Init, Ways
<1>4. Links /\ Once BY DEF Init, Links, Once
<1>5. Reports BY EmptySeq DEF Init, Reports
<1>6. Queues BY DEF Init, Queues, QueueConsistent
<1>7. NoLostWakeup BY DEF Init, NoLostWakeup
<1> QED BY <1>2, <1>3, <1>4, <1>5, <1>6, <1>7 DEF IInv

LEMMA NextIInv == IInv /\ [Next]_vars => IInv'
<1> SUFFICES ASSUME IInv, [Next]_vars PROVE IInv'
  OBVIOUS
<1>1. /\ HubTypes /\ CallTypes /\ WorkTypes /\ Ways /\ Links /\ Once /\ Reports /\ Queues
      /\ NoLostWakeup
  BY DEF IInv, Types
<1>2. HubTypes' /\ CallTypes' /\ WorkTypes' BY <1>1, NextHub, NextCalls, NextWork
<1>3. Ways' /\ Links' /\ Once' BY <1>1, NextWays, NextLinks, NextOnce
<1>4. Reports' /\ Queues' /\ NoLostWakeup' BY <1>1, NextReports, NextQueues, NextWakeup
<1> QED BY <1>2, <1>3, <1>4 DEF IInv, Types

-----------------------------------------------------------------------------
\* Every variable keeps its type, and only a registered HTTPS session lapses or holds a token
\* (Hub.Register, Hub.RegisterHTTPS).
THEOREM HubTypeCorrect == Spec => []TypeOK
<1>1. Init => IInv BY InitIInv
<1>2. IInv /\ [Next]_vars => IInv' BY NextIInv
<1>3. IInv => TypeOK
  <2> SUFFICES ASSUME IInv PROVE TypeOK
    OBVIOUS
  <2>1. HubTypes /\ CallTypes /\ WorkTypes /\ Ways /\ Reports BY DEF IInv, Types
  <2>2. (link = "none") = (registered = 0) /\ (mode = "dialing") = (main = 0) BY <2>1 DEF HubTypes
  <2>3. lapsed \in BOOLEAN /\ notify \in BOOLEAN BY <2>1 DEF HubTypes, Flags
  <2>4. lapsed \/ notify => link = "https" BY <2>1 DEF HubTypes
  <2>5. Known \subseteq Requests /\ Truthful \subseteq Results
    BY <2>1 DEF Known, WorkTypes, Truthful
  <2>6. commandIDs \in Seq(Requests) /\ flushIDs \in Seq(Requests) /\ down \in Seq(Requests)
    BY <2>1, <2>5, SeqGrows DEF Ways
  <2>7. up \in Seq(Results) BY <2>1, <2>5, SeqGrows DEF Reports
  <2>8. reply \in {None} \cup Requests /\ queued \in {None} \cup Results
    BY <2>1, <2>5 DEF Ways, Reports
  <2>9. pending \subseteq Requests /\ live \subseteq Requests BY <2>1, <2>5 DEF Ways, WorkTypes
  <2> QED BY <2>1, <2>2, <2>3, <2>4, <2>6, <2>7, <2>8, <2>9
       DEF TypeOK, HubTypes, CallTypes, WorkTypes, Ways
<1> QED BY <1>1, <1>2, <1>3, PTL DEF Spec

\* A command is offered to the transports exactly while its caller waits and has no result
\* yet, and can always be found (Hub.request, Hub.Resolve, removeHTTPSCommandLocked).
THEOREM QueuesAgree == Spec => []QueueConsistent
<1>1. Init => IInv BY InitIInv
<1>2. IInv /\ [Next]_vars => IInv' BY NextIInv
<1>3. IInv => QueueConsistent BY DEF IInv, Queues
<1> QED BY <1>1, <1>2, <1>3, PTL DEF Spec

\* A pull that waits on the registered session is woken for every command (signalAgent,
\* nextHTTPSCommand).
THEOREM PullsAreWoken == Spec => []NoLostWakeup
<1>1. Init => IInv BY InitIInv
<1>2. IInv /\ [Next]_vars => IInv' BY NextIInv
<1>3. IInv => NoLostWakeup BY DEF IInv
<1> QED BY <1>1, <1>2, <1>3, PTL DEF Spec

-----------------------------------------------------------------------------
\* Each step is one of the service's, or none.
LEMMA NextRefines ==
  ASSUME HubTypes, CallTypes, WorkTypes, Ways, Once, Reports, Queues, [Next]_vars
  PROVE  [Service!Next]_(Service!vars)
<1> USE DEF hubVars, queueVars, callVars, wsVars, httpsVars, agentVars, workVars, memoryVars
<1>1. ASSUME NEW r \in Requests, Refuses(r) PROVE [Service!Next]_(Service!vars)
  <2>1. Service!Refuse(r) BY <1>1 DEF Refuses, CallTypes, Service!Refuse
  <2> QED BY <2>1 DEF Service!Next
<1>2. ASSUME NEW r \in Requests, Takes(r) PROVE [Service!Next]_(Service!vars)
  <2>1. Service!Accept(r) BY <1>2 DEF Takes, CallTypes, Service!Accept
  <2> QED BY <2>1 DEF Service!Next
<1>3. ASSUME NEW r \in Requests, WriteCommand(r) PROVE [Service!Next]_(Service!vars)
  BY <1>3 DEF WriteCommand, CallTypes, Service!vars
<1>4. ASSUME NEW r \in Requests, NEW o \in {"success", "failure", "timeout"}, Return(r, o)
       PROVE [Service!Next]_(Service!vars)
  <2>1. o = "success" => effects[r] > 0 BY <1>4, NoneAssumption DEF Return, Reports, Outcomes
  <2>2. Service!Report(r, o) BY <2>1, <1>4 DEF Return, CallTypes, Service!Report
  <2> QED BY <2>2 DEF Service!Next
<1>5. ASSUME NEW r \in Requests, Age(r) PROVE [Service!Next]_(Service!vars)
  BY <1>5 DEF Age, Service!vars
<1>6. ASSUME NEW r \in Requests, Forget(r) PROVE [Service!Next]_(Service!vars)
  BY <1>6 DEF Forget, Service!vars
<1>7. ASSUME Disconnect PROVE [Service!Next]_(Service!vars)
  BY <1>7 DEF Disconnect, Unregister, Service!vars
<1>8. ASSUME StopServing PROVE [Service!Next]_(Service!vars)
  BY <1>8 DEF StopServing, Unregister, Service!vars
<1>9. ASSUME ReadResult PROVE [Service!Next]_(Service!vars)
  BY <1>9 DEF ReadResult, Resolve, RemoveCommand, Service!vars
<1>10. ASSUME Lapse PROVE [Service!Next]_(Service!vars)
  BY <1>10 DEF Lapse, Service!vars
<1>11. ASSUME ExpireHTTPS PROVE [Service!Next]_(Service!vars)
  BY <1>11 DEF ExpireHTTPS, Unregister, Service!vars
<1>12. ASSUME FlushStart PROVE [Service!Next]_(Service!vars)
  BY <1>12 DEF FlushStart, Service!vars
<1>13. ASSUME FlushWrite PROVE [Service!Next]_(Service!vars)
  BY <1>13 DEF FlushWrite, Push, StopFlush, Service!vars
<1>14. ASSUME ServeExchange PROVE [Service!Next]_(Service!vars)
  BY <1>14 DEF ServeExchange, Resolve, RemoveCommand, Service!vars
<1>15. ASSUME PullCommand PROVE [Service!Next]_(Service!vars)
  BY <1>15 DEF PullCommand, Answer, Service!vars
<1>16. ASSUME UnparkPull PROVE [Service!Next]_(Service!vars)
  BY <1>16 DEF UnparkPull, Answer, Service!vars
<1>17. ASSUME DialWS PROVE [Service!Next]_(Service!vars)
  BY <1>17 DEF DialWS, Register, Service!vars
<1>18. ASSUME DialHTTPS PROVE [Service!Next]_(Service!vars)
  BY <1>18 DEF DialHTTPS, Register, Service!vars
<1>19. ASSUME LeaveWS PROVE [Service!Next]_(Service!vars)
  BY <1>19 DEF LeaveWS, StopFlush, Service!vars
<1>20. ASSUME LeaveHTTPS PROVE [Service!Next]_(Service!vars)
  BY <1>20 DEF LeaveHTTPS, Answer, Service!vars
<1>21. ASSUME SendExchange PROVE [Service!Next]_(Service!vars)
  BY <1>21 DEF SendExchange, Service!vars
<1>22. ASSUME ReadCommand PROVE [Service!Next]_(Service!vars)
  BY <1>22 DEF ReadCommand, Check, ReplyTo, Service!vars
<1>23. ASSUME ReceiveExchange PROVE [Service!Next]_(Service!vars)
  BY <1>23 DEF ReceiveExchange, Answer, Check, ReplyTo, Service!vars
<1>24. ASSUME NEW c \in Conns, AcceptCommand(c) PROVE [Service!Next]_(Service!vars)
  BY <1>24 DEF AcceptCommand, Acceptable, ReplyTo, Service!vars
<1>25. ASSUME NEW c \in Conns, Execute(c) PROVE [Service!Next]_(Service!vars)
  <2>1. job[c] \in Requests /\ job[c] \in live BY <1>25 DEF Execute, Ways, Known, WorkTypes, Once
  <2>2. UNCHANGED <<call, outcome>> BY <1>25 DEF Execute
  <2>3. CASE /\ effects' = [effects EXCEPT ![job[c]] = effects[job[c]] + 1]
             /\ live' = live \ {job[c]}
    <3>1. Service!TakeEffect(job[c]) BY <2>1, <2>2, <2>3 DEF Service!TakeEffect
    <3> QED BY <2>1, <3>1 DEF Service!Next
  <2>4. CASE UNCHANGED <<effects, live>> BY <2>2, <2>4 DEF Service!vars
  <2> QED BY <2>3, <2>4, <1>25 DEF Execute
<1>26. ASSUME NEW c \in Conns, AnswerCommand(c) PROVE [Service!Next]_(Service!vars)
  BY <1>26 DEF AnswerCommand, ReplyTo, Service!vars
<1>27. ASSUME RestartAgent PROVE [Service!Next]_(Service!vars)
  <2>1. \A r \in Requests :
           call[r] \in {"writing", "waiting"} <=>
               "open" = CASE call[r] = "idle" -> "idle"
                          [] call[r] = "returned" -> outcome[r]
                          [] OTHER -> "open"
    BY DEF CallTypes, Outcomes
  <2>2. Service!Restart BY <2>1, <1>27 DEF RestartAgent, Service!Restart
  <2> QED BY <2>2 DEF Service!Next
<1>28. CASE UNCHANGED vars BY <1>28 DEF vars, Service!vars
<1> QED BY <1>1, <1>2, <1>3, <1>4, <1>5, <1>6, <1>7, <1>8, <1>9, <1>10, <1>11, <1>12, <1>13,
     <1>14, <1>15, <1>16, <1>17, <1>18, <1>19, <1>20, <1>21, <1>22, <1>23, <1>24, <1>25,
     <1>26, <1>27, <1>28, RequestCases DEF Next

\* The Hub, both transports and the Agent together keep what CommandService promises: an Agent
\* process carries a command out at most once, and not at all when its caller had the answer
\* before the process started; a success is only reported for a command that took effect, and
\* one that was refused never does (Hub.request, acceptCommand, cacheResult, LoadOrEnroll).
THEOREM HubImplementsService == Spec => CommandSpec
<1>1. Init => Service!Init BY DEF Init, Service!Init
<1>2. IInv /\ [Next]_vars => [Service!Next]_(Service!vars)
  BY NextRefines DEF IInv, Types
<1>3. Init => IInv BY InitIInv
<1>4. IInv /\ [Next]_vars => IInv' BY NextIInv
<1> QED BY <1>1, <1>2, <1>3, <1>4, PTL DEF Spec, CommandSpec, Service!Spec

-----------------------------------------------------------------------------
\* The part that always holds. RunningHasExecutor needs no strengthening: a row becomes
\* running only in the step that gives it an executor.
QInv == TasksTypeOK /\ QueuedHasAttemptsLeft /\ RunningHasExecutor

\* A task in execution is running, unless its row was deleted meanwhile.
ExecutedIsRunning ==
    \A t \in Tasks \ raced : current = t \/ HandlerRuns(t) => state[t] \in {"running", "none"}

\* A task between the two halves of handleRetryTask is not queued and not running, and only
\* one request has it there.
RetryPending ==
    \A a \in Retriers : \A t \in Tasks \ raced : retry[a] = t =>
        /\ t <= created /\ state[t] \notin {"queued", "running"} /\ current # t /\ ~HandlerRuns(t)
        /\ \A b \in Retriers : retry[b] = t => b = a

EInv == /\ OneExecutor
        /\ ExecutedIsRunning
        /\ current <= created
        /\ RetryPending

-----------------------------------------------------------------------------
LEMMA TaskNumbers == \A t : t \in Tasks <=> t \in Nat /\ 1 <= t /\ t <= MaxTasks
BY BoundsAssumption DEF Tasks

\* The first rows: nothing is queued or running.
LEMMA InitQInv == TasksInit => QInv
<1> SUFFICES ASSUME TasksInit PROVE QInv
  OBVIOUS
<1> USE BoundsAssumption, TaskNumbers
<1>1. TasksTypeOK
  <2>1. /\ kind \in [Tasks -> Kinds]
        /\ state \in [Tasks -> {"none", "queued", "running", "failed", "succeeded", "canceled"}]
        /\ attempts \in [Tasks -> 0..MaxAttempts]
    BY DEF TasksInit, Kinds
  <2>2. /\ handler \in [Tasks -> {"idle", "created", "run", "requeue", "done", "abandoned"}]
        /\ retry \in [Retriers -> 0..MaxTasks] /\ raced \subseteq Tasks
    BY DEF TasksInit
  <2>3. \A t \in Tasks : state[t] = "none" /\ handler[t] = "idle" /\ attempts[t] = 0
    BY DEF TasksInit
  <2>4. /\ created \in 0..MaxTasks /\ triggers \in 0..MaxTriggers
        /\ saving \in {"none", "online", "offline"}
        /\ processor \in {"off", "list", "next", "run", "requeue", "stopping"}
        /\ batch \subseteq Tasks /\ current \in 0..MaxTasks
    BY DEF TasksInit
  <2>6. online \in BOOLEAN
    BY DEF TasksInit
  <2>5. current # 0 <=> processor \in {"run", "requeue"}
    BY DEF TasksInit
  <2> QED
    BY <2>1, <2>2, <2>3, <2>4, <2>5, <2>6 DEF TasksTypeOK
<1>2. QueuedHasAttemptsLeft /\ RunningHasExecutor
  BY DEF TasksInit, QueuedHasAttemptsLeft, RunningHasExecutor
<1> QED
  BY <1>1, <1>2 DEF QInv

\* Every step keeps the types, the attempts and an executor for every running row.
LEMMA NextQInv == QInv /\ [TasksNext]_tasksVars => QInv'
<1> SUFFICES ASSUME QInv, [TasksNext]_tasksVars PROVE QInv'
  OBVIOUS
<1> USE BoundsAssumption, TaskNumbers DEF QInv, HandlerRuns, retryVars, NoteRace
<1>1. CASE Connect
  BY <1>1 DEF TasksTypeOK, QueuedHasAttemptsLeft, RunningHasExecutor, Connect, rowVars,
     processorVars
<1>2. CASE Drop
  BY <1>2 DEF TasksTypeOK, QueuedHasAttemptsLeft, RunningHasExecutor, Drop, rowVars, processorVars
<1>3. CASE StartSave
  BY <1>3 DEF TasksTypeOK, QueuedHasAttemptsLeft, RunningHasExecutor, StartSave, rowVars,
     processorVars
<1>4. CASE CreateDeployTask
  <2>1. TasksTypeOK'
    BY <1>4 DEF TasksTypeOK, Kinds, CreateDeployTask, CreateAgentTask, processorVars
  <2>2. QueuedHasAttemptsLeft'
    BY <1>4 DEF TasksTypeOK, QueuedHasAttemptsLeft, CreateDeployTask, CreateAgentTask,
       processorVars
  <2>3. RunningHasExecutor'
    BY <1>4 DEF TasksTypeOK, RunningHasExecutor, CreateDeployTask, CreateAgentTask, processorVars
  <2> QED
    BY <2>1, <2>2, <2>3
<1>5. CASE CreateBanTask
  <2>1. TasksTypeOK'
    BY <1>5 DEF TasksTypeOK, Kinds, CreateBanTask, CreateAgentTask, processorVars
  <2>2. QueuedHasAttemptsLeft'
    BY <1>5 DEF TasksTypeOK, QueuedHasAttemptsLeft, CreateBanTask, CreateAgentTask, processorVars
  <2>3. RunningHasExecutor'
    BY <1>5 DEF TasksTypeOK, RunningHasExecutor, CreateBanTask, CreateAgentTask, processorVars
  <2> QED
    BY <2>1, <2>2, <2>3
<1>6. ASSUME NEW t \in Tasks, HandlerClaim(t) PROVE QInv'
  <2>1. TasksTypeOK'
    BY <1>6 DEF TasksTypeOK, Kinds, HandlerClaim, ClaimAgentTask, Claimable, rowVars,
       processorVars
  <2>2. QueuedHasAttemptsLeft'
    BY <1>6 DEF TasksTypeOK, QueuedHasAttemptsLeft, HandlerClaim, ClaimAgentTask, Claimable,
       rowVars, processorVars
  <2>3. RunningHasExecutor'
    BY <1>6 DEF TasksTypeOK, RunningHasExecutor, HandlerClaim, ClaimAgentTask, Claimable,
       rowVars, processorVars
  <2> QED
    BY <2>1, <2>2, <2>3
<1>7. ASSUME NEW t \in Tasks, HandlerGiveUp(t) PROVE QInv'
  BY <1>7 DEF TasksTypeOK, QueuedHasAttemptsLeft, RunningHasExecutor, HandlerGiveUp, rowVars,
     processorVars
<1>8. ASSUME NEW t \in Tasks, HandlerRequeue(t) PROVE QInv'
  BY <1>8 DEF TasksTypeOK, QueuedHasAttemptsLeft, RunningHasExecutor, HandlerRequeue,
     RequeueAgentTask, processorVars
<1>9. ASSUME NEW t \in Tasks, HandlerAbandon(t) PROVE QInv'
  BY <1>9 DEF TasksTypeOK, QueuedHasAttemptsLeft, RunningHasExecutor, HandlerAbandon, rowVars,
     processorVars
<1>10. ASSUME NEW t \in Tasks, NEW result \in {"succeeded", "failed"}, HandlerFinish(t, result)
       PROVE QInv'
  BY <1>10 DEF TasksTypeOK, QueuedHasAttemptsLeft, RunningHasExecutor, HandlerFinish,
     FinishAgentTask, processorVars
<1>11. ASSUME NEW t \in Tasks, Cancel(t) PROVE QInv'
  BY <1>11 DEF TasksTypeOK, QueuedHasAttemptsLeft, RunningHasExecutor, Cancel, processorVars
<1>12. ASSUME NEW t \in Tasks, NEW a \in Retriers, CheckRetry(a, t) PROVE QInv'
  BY <1>12 DEF TasksTypeOK, QueuedHasAttemptsLeft, RunningHasExecutor, CheckRetry, rowVars,
     processorVars
<1>13. CASE StartProcessor
  BY <1>13 DEF TasksTypeOK, QueuedHasAttemptsLeft, RunningHasExecutor, StartProcessor, rowVars
<1>14. CASE ListTasks
  <2>1. TasksTypeOK'
    BY <1>14 DEF TasksTypeOK, Kinds, ListTasks, QueuedTasks, rowVars
  <2>2. QueuedHasAttemptsLeft'
    BY <1>14 DEF TasksTypeOK, QueuedHasAttemptsLeft, ListTasks, QueuedTasks, rowVars
  <2>3. RunningHasExecutor'
    BY <1>14 DEF TasksTypeOK, RunningHasExecutor, ListTasks, QueuedTasks, rowVars
  <2> QED
    BY <2>1, <2>2, <2>3
<1>15. CASE NextTask
  <2>1. TasksTypeOK'
    BY <1>15 DEF TasksTypeOK, Kinds, NextTask, ClaimAgentTask, Claimable, rowVars
  <2>2. QueuedHasAttemptsLeft'
    BY <1>15 DEF TasksTypeOK, QueuedHasAttemptsLeft, NextTask, ClaimAgentTask, Claimable, rowVars
  <2>3. RunningHasExecutor'
    BY <1>15 DEF TasksTypeOK, RunningHasExecutor, NextTask, ClaimAgentTask, Claimable, rowVars
  <2> QED
    BY <2>1, <2>2, <2>3
<1>16. CASE ProcessorGiveUp
  BY <1>16 DEF TasksTypeOK, QueuedHasAttemptsLeft, RunningHasExecutor, ProcessorGiveUp, rowVars
<1>17. CASE ProcessorRequeue
  BY <1>17 DEF TasksTypeOK, QueuedHasAttemptsLeft, RunningHasExecutor, ProcessorRequeue,
     RequeueAgentTask
<1>18. CASE StopProcessor
  BY <1>18 DEF TasksTypeOK, QueuedHasAttemptsLeft, RunningHasExecutor, StopProcessor, rowVars
<1>19. ASSUME NEW result \in {"succeeded", "failed"}, ProcessorFinish(result) PROVE QInv'
  BY <1>19 DEF TasksTypeOK, QueuedHasAttemptsLeft, RunningHasExecutor, ProcessorFinish,
     FinishAgentTask
<1>20. ASSUME NEW a \in Retriers, Retry(a) PROVE QInv'
  BY <1>20 DEF TasksTypeOK, QueuedHasAttemptsLeft, RunningHasExecutor, Retry, RequeueAgentTask,
     processorVars
<1>21. CASE Restart
  <2>1. TasksTypeOK'
    <3>1. state' \in [Tasks -> {"none", "queued", "running", "failed", "succeeded", "canceled"}]
      BY <1>21 DEF TasksTypeOK, Restart, RecoverTasks
    <3>2. handler' \in [Tasks -> {"idle", "created", "run", "requeue", "done", "abandoned"}]
      BY <1>21 DEF TasksTypeOK, Restart
    <3>3. retry' \in [Retriers -> 0..MaxTasks] /\ raced' \subseteq Tasks
      BY <1>21 DEF Restart
    <3>4. \A t \in Tasks :
             t > created => state'[t] = "none" /\ handler'[t] = "idle" /\ attempts[t] = 0
      BY <1>21 DEF TasksTypeOK, Restart, RecoverTasks
    <3>5. UNCHANGED <<created, kind, attempts>>
      BY <1>21 DEF Restart, RecoverTasks
    <3>6. /\ triggers' \in 0..MaxTriggers
          /\ saving' \in {"none", "online", "offline"}
          /\ processor' \in {"off", "list", "next", "run", "requeue", "stopping"}
          /\ batch' \subseteq Tasks /\ current' \in 0..MaxTasks
      BY <1>21 DEF Restart
    <3>8. online' \in BOOLEAN
      BY <1>21 DEF Restart
    <3>7. current' # 0 <=> processor' \in {"run", "requeue"}
      BY <1>21 DEF Restart
    <3> QED
      BY <3>1, <3>2, <3>3, <3>4, <3>5, <3>6, <3>7, <3>8 DEF TasksTypeOK
  <2>2. QueuedHasAttemptsLeft'
    BY <1>21 DEF TasksTypeOK, QueuedHasAttemptsLeft, Restart, RecoverTasks
  <2>3. RunningHasExecutor'
    BY <1>21 DEF TasksTypeOK, RunningHasExecutor, Restart, RecoverTasks
  <2> QED
    BY <2>1, <2>2, <2>3
<1>23. CASE CreateForAnother
  BY <1>23 DEF TasksTypeOK, QueuedHasAttemptsLeft, RunningHasExecutor, CreateForAnother,
     processorVars
<1>22. CASE UNCHANGED tasksVars
  BY <1>22 DEF TasksTypeOK, QueuedHasAttemptsLeft, RunningHasExecutor, tasksVars, rowVars,
     processorVars
<1> QED
  BY <1>1, <1>2, <1>3, <1>4, <1>5, <1>6, <1>7, <1>8, <1>9, <1>10, <1>11, <1>12, <1>13, <1>14,
     <1>15, <1>16, <1>17, <1>18, <1>19, <1>20, <1>21, <1>22, <1>23 DEF TasksNext, Work

\* The table and the goroutines keep their types.
THEOREM TasksTypeCorrect == TasksSpec => []TasksTypeOK
<1>1. TasksInit => QInv BY InitQInv
<1>2. QInv /\ [TasksNext]_tasksVars => QInv' BY NextQInv
<1>3. QInv => TasksTypeOK BY DEF QInv
<1> QED BY <1>1, <1>2, <1>3, PTL DEF TasksSpec

\* A queued task can be claimed, whatever restarts, retries and give-ups came before: the
\* processor never spins on a row that ClaimAgentTask refuses.
THEOREM QueuedTasksClaimable == TasksSpec => []QueuedHasAttemptsLeft
<1>1. TasksInit => QInv BY InitQInv
<1>2. QInv /\ [TasksNext]_tasksVars => QInv' BY NextQInv
<1>3. QInv => QueuedHasAttemptsLeft BY DEF QInv
<1> QED BY <1>1, <1>2, <1>3, PTL DEF TasksSpec

\* A running row has an executor, or lost it with the request that ran it.
THEOREM RunningTasksExecuted == TasksSpec => []RunningHasExecutor
<1>1. TasksInit => QInv BY InitQInv
<1>2. QInv /\ [TasksNext]_tasksVars => QInv' BY NextQInv
<1>3. QInv => RunningHasExecutor BY DEF QInv
<1> QED BY <1>1, <1>2, <1>3, PTL DEF TasksSpec

-----------------------------------------------------------------------------
LEMMA InitEInv == TasksInit => EInv
BY TaskNumbers DEF TasksInit, EInv, OneExecutor, ExecutedIsRunning, RetryPending, HandlerRuns

\* A task that one request retries, or none, has no executor left when it is back in the
\* queue, so a claim never adds a second one.
LEMMA NextEInv == QInv /\ EInv /\ [TasksNext]_tasksVars => EInv'
<1> SUFFICES ASSUME QInv, EInv, [TasksNext]_tasksVars PROVE EInv'
  OBVIOUS
<1> USE BoundsAssumption, TaskNumbers
      DEF QInv, TasksTypeOK, EInv, OneExecutor, ExecutedIsRunning, RetryPending, HandlerRuns,
          retryVars, NoteRace
<1>1. CASE Connect
  BY <1>1 DEF Connect, rowVars, processorVars
<1>2. CASE Drop
  BY <1>2 DEF Drop, rowVars, processorVars
<1>3. CASE StartSave
  BY <1>3 DEF StartSave, rowVars, processorVars
<1>4. CASE CreateDeployTask
  BY <1>4 DEF CreateDeployTask, CreateAgentTask, processorVars
<1>5. CASE CreateBanTask
  BY <1>5 DEF CreateBanTask, CreateAgentTask, processorVars
<1>6. ASSUME NEW t \in Tasks, HandlerClaim(t) PROVE EInv'
  BY <1>6 DEF HandlerClaim, ClaimAgentTask, Claimable, rowVars, processorVars
<1>7. ASSUME NEW t \in Tasks, HandlerGiveUp(t) PROVE EInv'
  BY <1>7 DEF HandlerGiveUp, rowVars, processorVars
<1>8. ASSUME NEW t \in Tasks, HandlerRequeue(t) PROVE EInv'
  BY <1>8 DEF HandlerRequeue, RequeueAgentTask, processorVars
<1>9. ASSUME NEW t \in Tasks, HandlerAbandon(t) PROVE EInv'
  BY <1>9 DEF HandlerAbandon, rowVars, processorVars
<1>10. ASSUME NEW t \in Tasks, NEW result \in {"succeeded", "failed"}, HandlerFinish(t, result)
       PROVE EInv'
  BY <1>10 DEF HandlerFinish, FinishAgentTask, processorVars
<1>11. ASSUME NEW t \in Tasks, Cancel(t) PROVE EInv'
  BY <1>11 DEF Cancel, processorVars
<1>12. ASSUME NEW t \in Tasks, NEW a \in Retriers, CheckRetry(a, t) PROVE EInv'
  BY <1>12 DEF CheckRetry, rowVars, processorVars
<1>13. CASE StartProcessor
  BY <1>13 DEF StartProcessor, rowVars
<1>14. CASE ListTasks
  BY <1>14 DEF ListTasks, rowVars
<1>15. CASE NextTask
  BY <1>15 DEF NextTask, ClaimAgentTask, Claimable, rowVars
<1>16. CASE ProcessorGiveUp
  BY <1>16 DEF ProcessorGiveUp, rowVars
<1>17. CASE ProcessorRequeue
  BY <1>17 DEF ProcessorRequeue, RequeueAgentTask
<1>18. CASE StopProcessor
  BY <1>18 DEF StopProcessor, rowVars
<1>19. ASSUME NEW result \in {"succeeded", "failed"}, ProcessorFinish(result) PROVE EInv'
  BY <1>19 DEF ProcessorFinish, FinishAgentTask
<1>20. ASSUME NEW a \in Retriers, Retry(a) PROVE EInv'
  BY <1>20 DEF Retry, RequeueAgentTask, processorVars
<1>21. CASE Restart
  BY <1>21 DEF Restart, RecoverTasks
<1>23. CASE CreateForAnother
  BY <1>23 DEF CreateForAnother, processorVars
<1>22. CASE UNCHANGED tasksVars
  BY <1>22 DEF tasksVars, rowVars, processorVars
<1> QED
  BY <1>1, <1>2, <1>3, <1>4, <1>5, <1>6, <1>7, <1>8, <1>9, <1>10, <1>11, <1>12, <1>13,
     <1>14, <1>15, <1>16, <1>17, <1>18, <1>19, <1>20, <1>21, <1>22, <1>23 DEF TasksNext, Work

\* No task is executed by two goroutines, but for one that two retry requests found failed.
THEOREM TasksExecutedOnce == TasksSpec => []OneExecutor
<1>1. TasksInit => QInv /\ EInv BY InitQInv, InitEInv
<1>2. QInv /\ EInv /\ [TasksNext]_tasksVars => (QInv /\ EInv)' BY NextQInv, NextEInv
<1>3. QInv /\ EInv => OneExecutor BY DEF EInv
<1> QED BY <1>1, <1>2, <1>3, PTL DEF TasksSpec

\* Nor is a task queued while it is executed, with the same exception (handleRetryTask).
THEOREM RetriesOnlyFailed == TasksSpec => []RetryOnlyFailed
<1>1. TasksInit => QInv /\ EInv BY InitQInv, InitEInv
<1>2. QInv /\ EInv /\ [TasksNext]_tasksVars => (QInv /\ EInv)' BY NextQInv, NextEInv
<1>3. QInv /\ EInv => RetryOnlyFailed
  BY DEF EInv, ExecutedIsRunning, RetryOnlyFailed
<1> QED BY <1>1, <1>2, <1>3, PTL DEF TasksSpec

-----------------------------------------------------------------------------
SettledStep == \A t \in Tasks : state[t] \in {"succeeded", "canceled"} =>
                                   state'[t] \in {state[t], "none"}

\* No statement touches a settled row except the pruning DELETE.
LEMMA StepSettled == QInv /\ [TasksNext]_tasksVars => SettledStep
<1> SUFFICES ASSUME QInv, [TasksNext]_tasksVars PROVE SettledStep
  OBVIOUS
<1> USE TaskNumbers DEF QInv, TasksTypeOK, SettledStep, retryVars
<1>1. CASE CreateDeployTask \/ CreateBanTask \/ CreateForAnother
  BY <1>1 DEF CreateDeployTask, CreateBanTask, CreateAgentTask, CreateForAnother
<1>2. CASE \E t \in Tasks : HandlerClaim(t) \/ HandlerRequeue(t) \/ Cancel(t)
  BY <1>2 DEF HandlerClaim, ClaimAgentTask, Claimable, HandlerRequeue, RequeueAgentTask, Cancel,
      rowVars
<1>3. CASE \E t \in Tasks, result \in {"succeeded", "failed"} : HandlerFinish(t, result)
  BY <1>3 DEF HandlerFinish, FinishAgentTask
<1>4. CASE NextTask
  BY <1>4 DEF NextTask, ClaimAgentTask, Claimable, rowVars
<1>5. CASE \E result \in {"succeeded", "failed"} : ProcessorFinish(result)
  BY <1>5 DEF ProcessorFinish, FinishAgentTask
<1>6. CASE ProcessorRequeue
  BY <1>6 DEF ProcessorRequeue, RequeueAgentTask
<1>7. CASE \E a \in Retriers : Retry(a)
  BY <1>7 DEF Retry, RequeueAgentTask
<1>8. CASE Restart
  BY <1>8 DEF Restart, RecoverTasks
<1>9. CASE UNCHANGED state
  BY <1>9
<1>10. ASSUME \/ Connect \/ Drop \/ StartSave \/ StartProcessor \/ ListTasks \/ ProcessorGiveUp
              \/ StopProcessor \/ UNCHANGED tasksVars
              \/ \E t \in Tasks : \/ HandlerGiveUp(t) \/ HandlerAbandon(t)
                                   \/ \E a \in Retriers : CheckRetry(a, t)
       PROVE UNCHANGED state
  BY <1>10 DEF Connect, Drop, StartSave, StartProcessor, ListTasks, ProcessorGiveUp,
     StopProcessor,
      HandlerGiveUp, HandlerAbandon, CheckRetry, rowVars, tasksVars
<1> QED
  BY <1>1, <1>2, <1>3, <1>4, <1>5, <1>6, <1>7, <1>8, <1>9, <1>10 DEF TasksNext, Work

\* A succeeded or canceled task is never revived.
THEOREM TasksSettle == TasksSpec => Settled
<1>1. TasksInit => QInv BY InitQInv
<1>2. QInv /\ [TasksNext]_tasksVars => QInv' BY NextQInv
<1>3. QInv /\ [TasksNext]_tasksVars => [SettledStep]_tasksVars BY StepSettled
<1>4. [SettledStep]_tasksVars <=> [\A t \in Tasks : state[t] \in {"succeeded", "canceled"} =>
                                   state'[t] \in {state[t], "none"}]_tasksVars
  BY DEF SettledStep
<1> QED BY <1>1, <1>2, <1>3, <1>4, PTL DEF TasksSpec, Settled
=============================================================================
