----------------------------- MODULE Credentials -----------------------------
(***************************************************************************)
(* The secret an enrolled Agent and the controller share, and the ways it  *)
(* is replaced: online rotation, revocation and one-time re-pairing        *)
(* (internal/controller/server.go, the agents and enrollment_tokens tables *)
(* of internal/store/store.go, LoadOrEnroll, EnrollOnly and the rotation   *)
(* command of internal/agent/client.go, and the re-pairing script of       *)
(* internal/controller/install.go).                                        *)
(*                                                                         *)
(* One Agent.  A secret is the request that generated it: the rotation or  *)
(* the re-pairing, or Initial for the one the Agent was enrolled with; a   *)
(* hash matches exactly the secret it was made from.  Every SQL statement  *)
(* or transaction is a step (the store has a single connection), and so is *)
(* every rename of a file on the Agent.  What the Hub does with a rotation *)
(* command is what CommandHub shows of it: it may be carried out at any    *)
(* time before it is two minutes old, a success is reported only when it   *)
(* was, a failure or a timeout says nothing.  Connections break, both      *)
(* processes are killed and installers are interrupted at any point.       *)
(***************************************************************************)
EXTENDS Naturals

CONSTANTS Rotations,   \* administrators' rotation requests
          Pairings,    \* runs of the re-pairing command
          Tokens,      \* one-time tokens for it
          Handlers,    \* connection handlers of the controller
          Initial,     \* the secret of the first enrolment
          None

ASSUME SecretsAssumption ==
    /\ Initial \notin Rotations \cup Pairings
    /\ None \notin Rotations \cup Pairings \cup Tokens \cup Handlers \cup {Initial}
    /\ Rotations \cap Pairings = {}

Secrets == Rotations \cup Pairings \cup {Initial}

VARIABLES
  \* the row of the Agent
  current,      \* secret_hash
  pending,      \* pending_secret_hash
  fresh,        \* pending_secret_expires_at lies ahead
  revoked,      \* credential_revoked_at is set
  token,        \* enrollment_tokens: "none", "valid", "used", "expired"
  \* the controller's handlers
  registered,   \* the handler whose connection the Hub holds
  step,         \* handleAgentWS, handleAgentHTTPSOpen: "idle", "dialed", "accepted" by
                \* authenticateAgentRequest, "promoted", "online"
  presented,    \* the secret of the request
  viaPending,   \* it matched the pending one
  rotation,     \* handleRotateAgentCredential: "idle", "checked", "begun", "sent", "refused", "over"
  revoker,      \* handleRevokeAgentCredential has written the row, not yet disconnected
  pairing,      \* handleAgentEnroll: "idle", "asked", "checked", "consumed", "prepared",
                \* "answered", "failed"
  with,         \* its token
  \* the Agent
  running,      \* the service
  memory,       \* Client.config.Secret
  config,       \* agent.json
  override,     \* agent-credentials.json
  delivery,     \* a rotation command: "none", "due", "accepted", "saved", "done", "ended"
  installer,    \* EnrollOnly: "idle", "asking", "granted", "saved" (one of the two files)
  run,          \* its request
  \* history
  held,         \* secrets the Agent has had on disk
  discarded,    \* secrets removed from the row without having been promoted
  since,        \* re-pairings prepared since the last revocation
  repeatable    \* rotations an Agent process has saved and its successor may be sent again

row == <<current, pending, fresh, revoked>>
connVars == <<registered, step, presented, viaPending>>
adminVars == <<rotation, revoker>>
pairVars == <<token, pairing, with>>
diskVars == <<config, override, held, repeatable>>
agentVars == <<running, memory, diskVars, delivery, installer, run>>
history == <<discarded, since>>
vars == <<row, connVars, adminVars, pairVars, agentVars, history>>

Init ==
    /\ current = Initial /\ pending = None /\ fresh = FALSE /\ revoked = FALSE
    /\ token = [t \in Tokens |-> "none"]
    /\ registered = None
    /\ step = [h \in Handlers |-> "idle"]
    /\ presented = [h \in Handlers |-> None]
    /\ viaPending = [h \in Handlers |-> FALSE]
    /\ rotation = [r \in Rotations |-> "idle"] /\ revoker = FALSE
    /\ pairing = [p \in Pairings |-> "idle"]
    /\ with = [p \in Pairings |-> None]
    /\ running = TRUE /\ memory = Initial /\ config = Initial /\ override = None
    /\ delivery = [r \in Rotations |-> "none"]
    /\ installer = "idle" /\ run = None
    /\ held = {Initial} /\ discarded = {} /\ since = {} /\ repeatable = {}

\* The secret LoadOrEnroll starts with: the override wins.
Disk == IF override = None THEN config ELSE override

-----------------------------------------------------------------------------
\* The row.

\* The pending secret leaves the row without having been promoted.
Discard == discarded' = discarded \cup ({pending} \ {None})

BeginCredentialRotation(r) ==
    /\ ~revoked /\ (pending = None \/ ~fresh)
    /\ pending' = r /\ fresh' = TRUE
    /\ Discard
    /\ UNCHANGED <<current, revoked, since>>

\* Mutant of ClearCredentialRotation: the expiry stays.
ClearKeepingExpiry ==
    /\ pending' = None
    /\ Discard
    /\ UNCHANGED <<current, fresh, revoked, since>>

ClearCredentialRotation ==
    /\ pending' = None /\ fresh' = FALSE
    /\ Discard
    /\ UNCHANGED <<current, revoked, since>>

\* Mutant of Promotable: any pending secret will do.
PromotableAny(s) == pending # None /\ fresh

\* PromoteCredential finds its row.
Promotable(s) == pending = s /\ fresh

PromoteCredential ==
    /\ current' = pending /\ pending' = None /\ fresh' = FALSE /\ revoked' = FALSE
    /\ UNCHANGED history

\* Mutant of RevokeCredential: the pending secret survives.
RevokeKeepingPending ==
    /\ revoked' = TRUE /\ since' = {}
    /\ UNCHANGED <<current, pending, fresh, discarded>>

RevokeCredential ==
    /\ revoked' = TRUE /\ pending' = None /\ fresh' = FALSE
    /\ Discard /\ since' = {}
    /\ UNCHANGED current

\* PrepareAgentReenrollment: a pending secret is overwritten, revoked or not.
PrepareReenrollment(p) ==
    /\ pending' = p /\ fresh' = TRUE
    /\ Discard /\ since' = since \cup {p}
    /\ UNCHANGED <<current, revoked>>

PendingMatch(s) == pending = s /\ fresh

\* authenticateAgentRequest.
Accepts(s) == PendingMatch(s) \/ (~revoked /\ current = s)

-----------------------------------------------------------------------------
\* Connections.

\* Hub.Disconnect, and the end of the connection's handler.
Disconnect ==
    /\ registered' = None
    /\ step' = IF registered = None THEN step ELSE [step EXCEPT ![registered] = "idle"]
    /\ UNCHANGED <<presented, viaPending>>

\* Client.connect or openHTTPS sends its request.
Dial(h) ==
    /\ running /\ step[h] = "idle"
    /\ step' = [step EXCEPT ![h] = "dialed"]
    /\ presented' = [presented EXCEPT ![h] = memory]
    /\ UNCHANGED <<row, registered, viaPending, adminVars, pairVars, agentVars, history>>

Authenticate(h) ==
    /\ step[h] = "dialed" /\ Accepts(presented[h])
    /\ step' = [step EXCEPT ![h] = "accepted"]
    /\ viaPending' = [viaPending EXCEPT ![h] = PendingMatch(presented[h])]
    /\ UNCHANGED <<row, registered, presented, adminVars, pairVars, agentVars, history>>

\* The Hello has been checked and acknowledged; a secret that was pending is promoted.
Promote(h) ==
    /\ step[h] = "accepted"
    /\ IF viaPending[h]
       THEN Promotable(presented[h]) /\ PromoteCredential
       ELSE UNCHANGED <<row, history>>
    /\ step' = [step EXCEPT ![h] = "promoted"]
    /\ UNCHANGED <<registered, presented, viaPending, adminVars, pairVars, agentVars>>

\* Hub.Register, Hub.RegisterHTTPS: the connection replaces the registered one.
Register(h) ==
    /\ step[h] = "promoted"
    /\ registered' = h
    /\ step' = [g \in Handlers |-> IF g = h THEN "online"
                                   ELSE IF g = registered THEN "idle" ELSE step[g]]
    /\ UNCHANGED <<row, presented, viaPending, adminVars, pairVars, agentVars, history>>

\* A handler ends: the request is refused, a promotion fails, the connection breaks, the
\* Agent leaves or its session times out.
Drop(h) ==
    /\ step[h] # "idle"
    /\ step' = [step EXCEPT ![h] = "idle"]
    /\ registered' = IF registered = h THEN None ELSE registered
    /\ UNCHANGED <<row, presented, viaPending, adminVars, pairVars, agentVars, history>>

-----------------------------------------------------------------------------
\* handleRotateAgentCredential, and the command it sends.

\* Online and Secure hold.
CheckOnline(r) ==
    /\ rotation[r] = "idle" /\ registered # None
    /\ rotation' = [rotation EXCEPT ![r] = "checked"]
    /\ UNCHANGED <<row, connVars, revoker, pairVars, agentVars, history>>

Begin(r) ==
    /\ rotation[r] = "checked" /\ BeginCredentialRotation(r)
    /\ rotation' = [rotation EXCEPT ![r] = "begun"]
    /\ UNCHANGED <<connVars, revoker, pairVars, agentVars>>

\* Hub.RotateCredential finds the Agent online and queues the command.
Send(r) ==
    /\ rotation[r] = "begun" /\ registered # None
    /\ rotation' = [rotation EXCEPT ![r] = "sent"]
    /\ delivery' = [delivery EXCEPT ![r] = "due"]
    /\ UNCHANGED <<row, connVars, revoker, pairVars, running, memory, diskVars, installer, run,
                   history>>

\* A result saying that the command failed: the Agent could not save the secret, or the
\* command was redelivered while the Agent was at it and refused as a duplicate.
ReportFailure(r) ==
    /\ rotation[r] = "sent" /\ delivery[r] # "due"
    /\ rotation' = [rotation EXCEPT ![r] = "refused"]
    /\ UNCHANGED <<row, connVars, revoker, pairVars, agentVars, history>>

Clear(r) ==
    /\ rotation[r] = "refused" /\ ClearCredentialRotation
    /\ rotation' = [rotation EXCEPT ![r] = "over"]
    /\ UNCHANGED <<connVars, revoker, pairVars, agentVars>>

\* The handler ends: a refused request, a success, or an error that leaves the pending
\* secret for the Agent to come back with.
End(r) ==
    /\ \/ rotation[r] = "checked" /\ (revoked \/ (pending # None /\ fresh))
       \/ rotation[r] = "begun" /\ registered = None
       \/ rotation[r] = "sent"
    /\ rotation' = [rotation EXCEPT ![r] = "over"]
    /\ UNCHANGED <<row, connVars, revoker, pairVars, agentVars, history>>

\* The command is too old to be accepted by the Agent.
Stale(r) ==
    /\ delivery[r] = "due" /\ rotation[r] = "over"
    /\ delivery' = [delivery EXCEPT ![r] = "ended"]
    /\ UNCHANGED <<row, connVars, adminVars, pairVars, running, memory, diskVars, installer,
                   run, history>>

\* The 15 minutes of the pending secret are over.  They outlast the 30 seconds of the
\* rotation that made it and the two minutes its command stays valid.
Expire ==
    /\ fresh
    /\ pending \in Rotations => /\ rotation[pending] \notin {"begun", "sent", "refused"}
                                /\ delivery[pending] \notin {"due", "accepted", "saved"}
    /\ fresh' = FALSE
    /\ UNCHANGED <<current, pending, revoked, connVars, adminVars, pairVars, agentVars,
                   history>>

-----------------------------------------------------------------------------
\* handleRevokeAgentCredential.

Revoke ==
    /\ ~revoker /\ RevokeCredential
    /\ revoker' = TRUE
    /\ UNCHANGED <<connVars, rotation, pairVars, agentVars>>

RevokeDisconnect ==
    /\ revoker /\ Disconnect
    /\ revoker' = FALSE
    /\ UNCHANGED <<row, rotation, pairVars, agentVars, history>>

-----------------------------------------------------------------------------
\* handleCreateAgentPairing and handleAgentEnroll.

CreatePairing(t) ==
    /\ token[t] = "none"
    /\ token' = [token EXCEPT ![t] = "valid"]
    /\ UNCHANGED <<row, connVars, adminVars, pairing, with, agentVars, history>>

ExpireToken(t) ==
    /\ token[t] = "valid"
    /\ token' = [token EXCEPT ![t] = "expired"]
    /\ UNCHANGED <<row, connVars, adminVars, pairing, with, agentVars, history>>

\* Moves a re-pairing request on.
PairingStep(p, from, to) ==
    /\ pairing[p] = from
    /\ pairing' = [pairing EXCEPT ![p] = to]
    /\ UNCHANGED with

CheckToken(p) ==
    /\ PairingStep(p, "asked", "checked")
    /\ token[with[p]] = "valid"
    /\ UNCHANGED <<token, row, connVars, adminVars, agentVars, history>>

\* Mutant of Usable: the transaction does not look at used_at.
UsableAgain(t) == token[t] # "expired"

\* ConsumeEnrollment finds its row.
Usable(t) == token[t] = "valid"

ConsumeToken(p) ==
    /\ PairingStep(p, "checked", "consumed")
    /\ Usable(with[p])
    /\ token' = [token EXCEPT ![with[p]] = "used"]
    /\ UNCHANGED <<row, connVars, adminVars, agentVars, history>>

Prepare(p) ==
    /\ PairingStep(p, "consumed", "prepared")
    /\ PrepareReenrollment(p)
    /\ UNCHANGED <<token, connVars, adminVars, agentVars>>

PairDisconnect(p) ==
    /\ PairingStep(p, "prepared", "answered")
    /\ Disconnect
    /\ UNCHANGED <<token, row, adminVars, agentVars, history>>

RefusePairing(p) ==
    /\ PairingStep(p, "asked", "failed") \/ PairingStep(p, "checked", "failed")
    /\ token[with[p]] # "valid"
    /\ UNCHANGED <<token, row, connVars, adminVars, agentVars, history>>

\* The controller is killed: its handlers are gone.
ControllerRestart ==
    /\ registered' = None
    /\ step' = [h \in Handlers |-> "idle"]
    /\ rotation' = [r \in Rotations |-> IF rotation[r] = "idle" THEN "idle" ELSE "over"]
    /\ revoker' = FALSE
    /\ pairing' = [p \in Pairings |->
           IF pairing[p] \in {"asked", "checked", "consumed", "prepared"} THEN "failed"
           ELSE pairing[p]]
    /\ UNCHANGED <<row, presented, viaPending, token, with, agentVars, history>>

-----------------------------------------------------------------------------
\* The Agent.

\* saveConfig: one file is replaced.
Save(file, s) ==
    /\ config' = IF file = "config" THEN s ELSE config
    /\ override' = IF file = "override" THEN s ELSE override
    /\ held' = held \cup {Disk'}
    /\ UNCHANGED repeatable

\* Client.acceptCommand lets the command through.
AcceptCommand(r) ==
    /\ running /\ delivery[r] = "due"
    /\ delivery' = [delivery EXCEPT ![r] = "accepted"]
    /\ UNCHANGED <<row, connVars, adminVars, pairVars, running, memory, diskVars, installer,
                   run, history>>

\* Mutant of SaveRotated: the secret is used without having been saved.
SaveRotatedNever(r) ==
    /\ running /\ delivery[r] = "accepted"
    /\ \/ delivery' = [delivery EXCEPT ![r] = "saved"]
       \/ delivery' = [delivery EXCEPT ![r] = "ended"]
    /\ UNCHANGED <<row, connVars, adminVars, pairVars, running, memory, diskVars, installer,
                   run, history>>

\* processControllerMessage saves the override, or cannot.
SaveRotated(r) ==
    /\ running /\ delivery[r] = "accepted"
    /\ \/ /\ Save("override", r)
          /\ delivery' = [delivery EXCEPT ![r] = "saved"]
       \/ /\ delivery' = [delivery EXCEPT ![r] = "ended"]
          /\ UNCHANGED diskVars
    /\ UNCHANGED <<row, connVars, adminVars, pairVars, running, memory, installer, run,
                   history>>

\* replaceConfig.
UseRotated(r) ==
    /\ running /\ delivery[r] = "saved"
    /\ memory' = r
    /\ delivery' = [delivery EXCEPT ![r] = "done"]
    /\ UNCHANGED <<row, connVars, adminVars, pairVars, running, diskVars, installer, run,
                   history>>

\* What the process knew of the commands is gone; an open one may be delivered again.
Forget ==
    /\ delivery' = [r \in Rotations |->
           IF delivery[r] \in {"none", "due", "ended"} THEN delivery[r]
           ELSE IF rotation[r] = "sent" THEN "due"
           ELSE "ended"]
    /\ repeatable' = repeatable \cup {r \in Rotations : delivery'[r] = "due" /\ r \in held}
    /\ UNCHANGED <<config, override, held>>

AgentStops ==
    /\ running
    /\ running' = FALSE /\ memory' = None
    /\ Forget
    /\ UNCHANGED <<row, connVars, adminVars, pairVars, installer, run, history>>

\* LoadOrEnroll.
AgentStarts ==
    /\ ~running /\ installer = "idle"
    /\ running' = TRUE /\ memory' = Disk
    /\ UNCHANGED <<row, connVars, adminVars, pairVars, diskVars, delivery, installer, run,
                   history>>

\* The re-pairing script has stopped the service; EnrollOnly sends the request.
AskPairing(p, t) ==
    /\ ~running /\ installer = "idle" /\ pairing[p] = "idle" /\ token[t] # "none"
    /\ installer' = "asking" /\ run' = p
    /\ pairing' = [pairing EXCEPT ![p] = "asked"]
    /\ with' = [with EXCEPT ![p] = t]
    /\ UNCHANGED <<row, connVars, adminVars, token, running, memory, diskVars, delivery,
                   history>>

Granted ==
    /\ installer = "asking" /\ pairing[run] = "answered"
    /\ installer' = "granted"
    /\ UNCHANGED <<row, connVars, adminVars, pairVars, running, memory, diskVars, delivery, run,
                   history>>

\* EnrollOnly saves agent.json, then the override.
SaveConfig ==
    /\ installer = "granted"
    /\ Save("config", run)
    /\ installer' = "saved"
    /\ UNCHANGED <<row, connVars, adminVars, pairVars, running, memory, delivery, run, history>>

SaveOverride ==
    /\ installer = "saved"
    /\ Save("override", run)
    /\ installer' = "idle" /\ run' = None
    /\ UNCHANGED <<row, connVars, adminVars, pairVars, running, memory, delivery, history>>

\* The script fails, times out or is killed.
InstallerEnds ==
    /\ installer # "idle"
    /\ installer' = "idle" /\ run' = None
    /\ UNCHANGED <<row, connVars, adminVars, pairVars, running, memory, diskVars, delivery,
                   history>>

-----------------------------------------------------------------------------
Connecting(h) == Dial(h) \/ Authenticate(h) \/ Promote(h) \/ Register(h) \/ Drop(h)
Rotating(r) ==
    \/ CheckOnline(r) \/ Begin(r) \/ Send(r) \/ ReportFailure(r) \/ Clear(r) \/ End(r)
    \/ Stale(r) \/ AcceptCommand(r) \/ SaveRotated(r) \/ UseRotated(r)
Pairing(p) ==
    \/ CheckToken(p) \/ ConsumeToken(p) \/ Prepare(p) \/ PairDisconnect(p) \/ RefusePairing(p)
    \/ \E t \in Tokens : AskPairing(p, t)
Installing == Granted \/ SaveConfig \/ SaveOverride \/ InstallerEnds

Next ==
    \/ \E h \in Handlers : Connecting(h)
    \/ \E r \in Rotations : Rotating(r)
    \/ \E p \in Pairings : Pairing(p)
    \/ \E t \in Tokens : CreatePairing(t) \/ ExpireToken(t)
    \/ Revoke \/ RevokeDisconnect \/ Expire \/ ControllerRestart
    \/ AgentStops \/ AgentStarts \/ Installing

Spec == Init /\ [][Next]_vars

-----------------------------------------------------------------------------
RowOK ==
    /\ current \in Secrets /\ pending \in Secrets \cup {None}
    /\ fresh \in BOOLEAN /\ revoked \in BOOLEAN
    /\ fresh => pending # None
    /\ discarded \subseteq Secrets /\ since \subseteq Pairings

ConnOK ==
    /\ registered \in Handlers \cup {None}
    /\ step \in [Handlers -> {"idle", "dialed", "accepted", "promoted", "online"}]
    /\ presented \in [Handlers -> Secrets \cup {None}]
    /\ viaPending \in [Handlers -> BOOLEAN]

AdminOK ==
    /\ rotation \in [Rotations -> {"idle", "checked", "begun", "sent", "refused", "over"}]
    /\ revoker \in BOOLEAN

PairOK ==
    /\ token \in [Tokens -> {"none", "valid", "used", "expired"}]
    /\ pairing \in [Pairings -> {"idle", "asked", "checked", "consumed", "prepared",
                                 "answered", "failed"}]
    /\ with \in [Pairings -> Tokens \cup {None}]

AgentOK ==
    /\ running \in BOOLEAN /\ memory \in Secrets \cup {None}
    /\ config \in Secrets /\ override \in Secrets \cup {None}
    /\ held \subseteq Secrets /\ repeatable \subseteq Rotations
    /\ delivery \in [Rotations -> {"none", "due", "accepted", "saved", "done", "ended"}]
    /\ installer \in {"idle", "asking", "granted", "saved"}
    /\ run \in Pairings \cup {None} /\ (run = None <=> installer = "idle")

\* Types; an expiry belongs to a pending secret (ClearCredentialRotation, PromoteCredential
\* and RevokeAgentCredential empty both columns).
TypeOK == RowOK /\ ConnOK /\ AdminOK /\ PairOK /\ AgentOK

\* A re-pairing token yields one secret, however many runs of the command race for it
\* (ConsumeEnrollment after the unguarded check in handleAgentEnroll).
OneSecretPerToken ==
    \A p, q \in Pairings :
        /\ p # q /\ with[p] = with[q]
        /\ pairing[p] \in {"consumed", "prepared", "answered"}
        => pairing[q] \notin {"consumed", "prepared", "answered"}

\* What the Agent would start with is the current or the pending secret, unless the
\* controller dropped it unpromoted or sent a rotation command to a second Agent process:
\* nothing else, such as a crash in the middle of a rotation or of a re-pairing, a late
\* command or a lost answer, brings back a secret that promotion has superseded.
LockoutNeedsDiscard == Disk \in {current, pending} \cup discarded \cup repeatable

\* The secret in force is replaced only by one the Agent has had on disk
\* (TestReenrollmentKeepsCurrentCredentialUntilReplacementConnects), whatever happens to the
\* row between authenticateAgentRequest and PromoteCredential.
ReplacedByHeld == [][current' # current => current' \in held]_vars

\* A revocation ends only when the Agent connects with a secret that a re-pairing prepared
\* after it: neither a rotation nor a re-pairing that was pending when the administrator
\* revoked can undo it, nor a handshake accepted before with the secret of one of them.
RevocationStands == [][revoked /\ ~revoked' => current' \in since]_vars

\* Does not hold, against SECURITY.md:19 and server.go:811: that an Agent whose secret was not
\* revoked can come back. A pending secret the Agent has saved may expire or be cleared.
NeverLockedOut == ~revoked => Accepts(Disk)

\* Does not hold, against server.go:831 and SECURITY.md:19: that the Agent is not connected once
\* the revocation is done. A handshake authenticated before it registers after the cut.
RevokedIsDisconnected == revoked /\ ~revoker => registered = None
=============================================================================
