------------------------------ MODULE Presence ------------------------------
(***************************************************************************)
(* What the controller shows of one Agent's connection: status and         *)
(* secure_channel of its agents row (internal/store/store.go), written by  *)
(* the handlers of its WebSockets, the handlers and expiry goroutines of   *)
(* its HTTPS sessions, its telemetry, and a revocation or re-pairing       *)
(* (internal/controller/server.go).  Each SQL statement, each critical     *)
(* section of the Hub and of acceptTelemetry is a step.                    *)
(*                                                                         *)
(* The handshakes are in SecureChannel and Credentials, commands in        *)
(* CommandHub, what telemetry says in DropCounter: here it is a message    *)
(* that may be on its way.                                                 *)
(***************************************************************************)
EXTENDS Naturals

CONSTANTS Sockets,   \* connections by WebSocket, each used once
          Sessions,  \* connections by HTTPS push and pull, each used once
          MaxFaults, \* bound: restarts of the controller, revocations and re-pairings
          None

Conns == Sockets \cup Sessions

ASSUME ConnsAssumption ==
    Sockets \cap Sessions = {} /\ None \notin Conns /\ MaxFaults \in Nat

VARIABLES
  registered, \* Hub.agents: the connection registered for the Agent
  status,     \* agents.status
  secure,     \* agents.secure_channel
  pc,         \* the handler of each connection; of a session, its exchange
  expiry,     \* expireAgentHTTPSSession of each session
  recent,     \* telemetryAt is less than four seconds old
  admin,      \* a revocation or re-pairing has written the row and will cut the connection
  link,       \* the connection the Agent uses
  mail,       \* connections with telemetry on its way
  faults,
  \* History: no step reads these.
  misled      \* the row was written for a connection that is not, or without regard to one
              \* that is, registered

rowVars == <<status, secure>>
agentVars == <<link, mail>>
vars == <<registered, rowVars, pc, expiry, recent, admin, agentVars, faults, misled>>

Init ==
    /\ registered = None /\ status = "offline" /\ secure = FALSE
    /\ pc = [c \in Conns |-> "new"] /\ expiry = [c \in Sessions |-> "off"]
    /\ recent = FALSE /\ admin = "idle" /\ link = None /\ mail = {}
    /\ faults = 0 /\ misled = FALSE

Goto(c, from, to) == pc[c] = from /\ pc' = [pc EXCEPT ![c] = to]

-----------------------------------------------------------------------------
\* The store.

\* SetAgentConnected; the Agent's connections are all encrypted.
SetAgentConnected ==
    /\ status' = "online" /\ secure' = TRUE
    /\ misled' = (registered = None)

\* Mutant of UpdateTelemetry: last_seen and the telemetry only.
UpdateWithoutStatus == UNCHANGED <<rowVars, misled>>

\* UpdateTelemetry: last_seen and the status, not secure_channel.
UpdateTelemetry ==
    /\ status' = "online" /\ UNCHANGED secure
    /\ misled' = (misled \/ registered = None)

SetAgentOffline ==
    /\ status' = "offline" /\ secure' = FALSE
    /\ misled' = (registered # None)

-----------------------------------------------------------------------------
\* The Agent.

Dial(c) ==
    /\ link = None /\ link' = c
    /\ Goto(c, "new", "handshake")
    /\ UNCHANGED <<registered, rowVars, expiry, recent, admin, mail, faults, misled>>

\* It has lost or closed the connection, or was restarted.
HangUp ==
    /\ link # None /\ link' = None
    /\ UNCHANGED <<registered, rowVars, pc, expiry, recent, admin, mail, faults, misled>>

\* Every five seconds.
Report(c) ==
    /\ link = c /\ pc[c] = "open"
    /\ c \notin mail /\ mail' = mail \cup {c}
    /\ UNCHANGED <<registered, rowVars, pc, expiry, recent, admin, link, faults, misled>>

-----------------------------------------------------------------------------
\* A connection comes up: handleAgentWS, handleAgentHTTPSOpen.

\* The Agent may have given up by now.
Register(c) ==
    /\ Goto(c, "handshake", "greet")
    /\ registered' = c
    /\ UNCHANGED <<rowVars, expiry, recent, admin, agentVars, faults, misled>>

\* The answer to the Agent's hello cannot be written.
Abort(c) ==
    /\ link # c /\ Goto(c, "handshake", "end")
    /\ UNCHANGED <<registered, rowVars, expiry, recent, admin, agentVars, faults, misled>>

\* A session's request may have been canceled, which fails its statement.
Greet(c) ==
    /\ Goto(c, "greet", "open")
    /\ \/ SetAgentConnected
       \/ c \in Sessions /\ link # c /\ misled' = TRUE /\ UNCHANGED rowVars
    /\ expiry' = [s \in Sessions |-> IF s = c THEN "on" ELSE expiry[s]]
    /\ UNCHANGED <<registered, recent, admin, agentVars, faults>>

-----------------------------------------------------------------------------
\* Its telemetry: handleAgentMessage.

\* acceptTelemetry: one message of the Agent in four seconds.
Accept(c, from) ==
    /\ Goto(c, from, IF recent THEN "open" ELSE "store")
    /\ mail' = mail \ {c} /\ recent' = TRUE
    /\ UNCHANGED <<registered, rowVars, expiry, admin, link, faults, misled>>

FourSeconds ==
    /\ recent /\ recent' = FALSE
    /\ UNCHANGED <<registered, rowVars, pc, expiry, admin, agentVars, faults, misled>>

\* The reader of a WebSocket, also of one that has been replaced a moment ago.
Read(c) == c \in Sockets /\ c \in mail /\ Accept(c, "open")

\* BeginHTTPSExchange.
Begin(c) ==
    /\ c \in Sessions /\ c \in mail /\ registered = c
    /\ Goto(c, "open", "begun")
    /\ UNCHANGED <<registered, rowVars, expiry, recent, admin, agentVars, faults, misled>>

\* DecryptHTTPS of a session that is still registered.
Decrypt(c) == registered = c /\ Accept(c, "begun")

Store(c) ==
    /\ Goto(c, "store", "open")
    /\ \/ UpdateTelemetry
       \/ c \in Sessions /\ link # c /\ UNCHANGED <<rowVars, misled>>
    /\ UNCHANGED <<registered, expiry, recent, admin, agentVars, faults>>

-----------------------------------------------------------------------------
\* A connection ends.

\* A WebSocket's reader ends: the Agent has gone, the connection was closed for another or
\* cut, or a message was refused.
StopReading(c) ==
    /\ c \in Sockets
    /\ Goto(c, "open", "leave")
    /\ UNCHANGED <<registered, rowVars, expiry, recent, admin, agentVars, faults, misled>>

Closed(c) == link # c \/ registered # c

UnregisterSelf(c) == registered' = IF registered = c THEN None ELSE registered

\* Mutant of Unregister: the deferred function looks before it removes its own connection.
UnregisterLater(c) ==
    /\ Goto(c, "leave", IF registered = None THEN "mark" ELSE "end")
    /\ UnregisterSelf(c)
    /\ UNCHANGED <<rowVars, expiry, recent, admin, agentVars, faults, misled>>

Unregister(c) ==
    /\ Goto(c, "leave", "look")
    /\ UnregisterSelf(c)
    /\ UNCHANGED <<rowVars, expiry, recent, admin, agentVars, faults, misled>>

\* Hub.Online: a session that has been idle for 45 seconds is not.
Look(c) ==
    /\ \/ registered # None /\ Goto(c, "look", "end")
       \/ registered = None /\ Goto(c, "look", "mark")
       \/ registered \in Sessions /\ link # registered /\ Goto(c, "look", "mark")
    /\ UNCHANGED <<registered, rowVars, expiry, recent, admin, agentVars, faults, misled>>

Mark(c) ==
    /\ Goto(c, "mark", "end")
    /\ SetAgentOffline
    /\ UNCHANGED <<registered, expiry, recent, admin, agentVars, faults>>

\* Mutant of Reject: the session stays registered.
RejectMessage(c) ==
    /\ Goto(c, "begun", "mark")
    /\ UNCHANGED <<registered, rowVars, expiry, recent, admin, agentVars, faults, misled>>

\* handleAgentHTTPSExchange: the session was replaced since BeginHTTPSExchange, or the
\* message is refused. Whatever is registered now, the row will say offline.
Reject(c) ==
    /\ Goto(c, "begun", "mark")
    /\ UnregisterSelf(c)
    /\ UNCHANGED <<rowVars, expiry, recent, admin, agentVars, faults, misled>>

\* expireAgentHTTPSSession finds its session replaced, removed or idle for 45 seconds.
Expire(c) ==
    /\ expiry[c] = "on"
    /\ \/ registered # c /\ expiry' = [expiry EXCEPT ![c] = "end"] /\ UNCHANGED registered
       \/ /\ registered = c /\ link # c /\ pc[c] = "open"
          /\ expiry' = [expiry EXCEPT ![c] = "mark"] /\ registered' = None
    /\ UNCHANGED <<rowVars, pc, recent, admin, agentVars, faults, misled>>

MarkExpired(c) ==
    /\ expiry[c] = "mark" /\ expiry' = [expiry EXCEPT ![c] = "end"]
    /\ SetAgentOffline
    /\ UNCHANGED <<registered, pc, recent, admin, agentVars, faults>>

-----------------------------------------------------------------------------
\* handleRevokeAgentCredential, and the re-pairing of handleAgentEnroll: the row, then
\* Hub.Disconnect.

Revoke ==
    /\ admin = "idle" /\ admin' = "cut"
    /\ faults < MaxFaults /\ faults' = faults + 1
    /\ status' = "offline" /\ secure' = FALSE
    /\ UNCHANGED <<registered, pc, expiry, recent, agentVars, misled>>

Disconnect ==
    /\ admin = "cut" /\ admin' = "idle"
    /\ registered' = None /\ misled' = (status = "online")
    /\ UNCHANGED <<rowVars, pc, expiry, recent, agentVars, faults>>

\* The row stays as it is.
Restart ==
    /\ faults < MaxFaults /\ faults' = faults + 1
    /\ registered' = None /\ admin' = "idle" /\ recent' = FALSE /\ mail' = {}
    /\ pc' = [c \in Conns |-> IF pc[c] = "new" THEN "new" ELSE "end"]
    /\ expiry' = [c \in Sessions |-> IF expiry[c] = "off" THEN "off" ELSE "end"]
    /\ misled' = (status = "online")
    /\ UNCHANGED <<rowVars, link>>

-----------------------------------------------------------------------------
\* What a handler, once it runs, does by itself.
Handle(c) ==
    \/ Greet(c) \/ Read(c) \/ Begin(c) \/ Decrypt(c) \/ Store(c)
    \/ Closed(c) /\ StopReading(c)
    \/ Unregister(c) \/ Look(c) \/ Mark(c)
    \/ pc[c] = "begun" /\ registered # c /\ Reject(c)

Expiring(c) == Expire(c) \/ MarkExpired(c)

Next ==
    \/ HangUp \/ FourSeconds \/ Revoke \/ Disconnect \/ Restart
    \/ \E c \in Conns :
           \/ Dial(c) \/ Report(c) \/ Register(c) \/ Abort(c)
           \/ Handle(c) \/ StopReading(c) \/ Reject(c)
    \/ \E c \in Sessions : Expiring(c)

Spec == Init /\ [][Next]_vars

\* Handlers and goroutines are scheduled, a connection the Agent has left is noticed, and an
\* Agent that keeps its connection reports.
FairSpec ==
    /\ Spec
    /\ WF_vars(FourSeconds)
    /\ \A c \in Conns : WF_vars(Handle(c)) /\ WF_vars(Report(c))
    /\ \A c \in Sessions : WF_vars(Expiring(c))

-----------------------------------------------------------------------------
TypeOK ==
    /\ registered \in Conns \cup {None}
    /\ status \in {"online", "offline"} /\ secure \in BOOLEAN
    /\ pc \in [Conns -> {"new", "handshake", "greet", "open", "begun", "store", "leave", "look",
                         "mark", "end"}]
    /\ \A c \in Sockets : pc[c] # "begun"
    /\ \A c \in Sessions : pc[c] \notin {"leave", "look"}
    /\ expiry \in [Sessions -> {"off", "on", "mark", "end"}]
    /\ recent \in BOOLEAN /\ admin \in {"idle", "cut"}
    /\ link \in Conns \cup {None} /\ mail \subseteq Conns
    /\ registered # None => pc[registered] \notin {"new", "handshake", "look", "end"}
    /\ faults \in 0..MaxFaults /\ misled \in BOOLEAN

\* Nobody is about to write the row.
Quiet ==
    /\ admin = "idle"
    /\ \A c \in Sockets : pc[c] \in {"new", "handshake", "end"} \/ (pc[c] = "open" /\ registered = c)
    /\ \A c \in Sessions : pc[c] \in {"new", "handshake", "open", "end"} /\ expiry[c] # "mark"

\* Between the writes the row tells whether the Agent is connected and that the connection is
\* encrypted, whatever connections replace, overlap and follow each other (server.go:489,
\* 620, 643), unless one of them wrote it for the wrong one: offline for a connection that has
\* been followed by another, online for a session that is gone, or a restart left it.
RowIsTrue == Quiet /\ ~misled =>
    /\ (status = "online") = (registered # None)
    /\ secure = (registered # None)

\* An Agent that is connected does not stay shown as offline, whoever wrote that
\* (UpdateTelemetry sets the status again).
ShownOnline == (registered # None /\ status = "offline") ~> (registered = None \/ status = "online")
=============================================================================
