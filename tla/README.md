# Formal models of mmwx-guard

TLA+ models of the controller and the Agent of mmwx-guard, with the TLC
configurations that check them and the proofs TLAPS checks. Source references
are to `src/`. `PROJECT.json` lists, for every definition, the lines it models.

- [1. The system](#1-the-system)
- [2. Modules](#2-modules)
- [3. Runs](#3-runs)
- [4. Proofs](#4-proofs)
- [5. Where code and documents disagree](#5-where-code-and-documents-disagree)
- [6. What is not modelled](#6-what-is-not-modelled)
- [7. Plan](#7-plan)
- [8. Running it](#8-running-it)

## 1. The system

A **controller** (one Go process: HTTP server, a SQLite store with a single
connection, the `Hub`) manages **Agents**, one per server. An Agent owns an
nftables table on its host. It dials the controller by WebSocket and falls back
to HTTPS push and pull; over either runs the same application-layer encrypted
channel. Both programs update themselves through a helper that systemd starts as
root when a request file appears.

| component | state | operations | talks to |
|---|---|---|---|
| Secure channel (`protocol/secure.go`) | per handshake and end: two AEAD keys, a send and a receive counter | derive, encrypt, decrypt | every transport |
| Hub and transports (`controller/hub.go`, handlers in `server.go`, `agent/client.go`) | registered connection, pending map, command queue and its id list, wake-up token; on the Agent the `seen` and `results` maps | register, unregister, request, complete, flush, pull, push | task executor, credential and update handlers above; the secure channel below |
| Agent tasks (`store.go`, `server.go`) | the `agent_tasks` rows, `taskRunning`, one executor goroutine per Agent | create, claim, finish, requeue, cancel, retry, recover at start | calls the Hub; started by connections and administrators |
| Credentials (`store.go`, `server.go`, `client.go`, `install.go`) | `secret_hash`, `pending_secret_hash` with its expiry, `credential_revoked_at`, pairing tokens; on the Agent `agent.json`, `agent-credentials.json` and the secret in memory | authenticate, promote, rotate, revoke, re-pair | the Hub carries the rotation command and drops connections |
| Firewall manager and adaptive controller (`firewall/`, `agent/adaptive.go`) | the kernel's table; `current.*`, `previous.*`, `manual-bans.json`, `adaptive-state.json`; two sample counters | Apply, Rollback, Ensure, SyncBans, SetAdaptiveEmergency, Observe | called by commands from the Hub and by the telemetry loop |
| Controller update (`updater/manager.go`, `apply.go`) | `request.json`, `status.json`, three installed files and their backups | request, claim, download, back up, install, restart, check health, roll back | handler, root helper and systemd through files |
| Agent update (`updater/agent.go`) | the same shape, with a health marker | queue, install, wait for the marker, roll back | the Hub carries the command; the reconnected Agent writes the marker |
| Policies, history, bans (`store.go`, `server.go`) | policies with revisions, assignment, history, bans with their apply state | save, restore, assign, delete if unassigned, ban, unban, synchronise | create tasks; applied by the executor and by `startAgentSynchronization` |
| Presence and telemetry (`store.go`, `server.go`) | online flag, last seen, metrics | update on message, connect, disconnect | handlers of several connections write them |
| Login and limits (`login_limiter.go`, `auth.go`, `server.go`) | attempts per address, sessions, message windows | allow, fail, reset, change password | every HTTP handler |
| Telemetry collector (`telemetry/`) | previous samples, cumulative drop counter in memory and in a file | sample, report | reads /proc and nft; its reports end in the controller's samples and charts |
| Manifests, diagnostics, discovery, programs, web interface | none that outlives a call | | |

### Where it is hard

- **Redelivery.** A command may reach the Agent over a WebSocket, over the flush
  to a newer WebSocket and by HTTPS pull; its result over any of them, late or
  never. `seen`, `results`, `pending` and the id list together must make that
  one effect and one answer; the first two are in memory only, and an Agent that
  is killed has forgotten what it carried out.
- **Checks and writes in different statements.** `handleSaveAgentProtection`
  reads `Hub.Online` long before it stores the task; `handleRetryTask`,
  `handleAgentEnroll` and the connection handlers check a row in one statement
  and change it in another; `authenticateAgentRequest` and `Hub.Register` are
  separate.
- **Two copies of one fact.** The secret is a row, two files and a variable; the
  policy is a kernel table, four files and a row; an update is two JSON files
  and three binaries.
- **Interruption.** `os.WriteFile` tears, a context ends after nft has
  committed, a helper is killed between two files, the browser closes while its
  request executes a task.
- **Statements of several goroutines about one row.** A policy is read, sent and
  recorded in three statements by requests, tasks and synchronisations alike; a
  ban list is read, sent and marked; the online flag is written by every
  handler that begins or ends.
- **Counters and limits.** 2^64 envelopes, kernel counters that start again at
  zero, ten attempts, 5000 task rows shared by
  all Agents, streaks of 2 and 12 samples.

The full list, with the line each one bites at and the properties that cover it,
is `hazards` in `PROJECT.json`.

### What makes each part correct

| component | properties |
|---|---|
| Secure channel | what one end accepts is a prefix of what the other sent; no key and nonce twice; a refused envelope does no harm |
| Hub | at most one effect per command and Agent process, none in a process started after the answer, success only after it; maps and callers agree; no parked pull misses its wake-up |
| Tasks | one executor at a time, except for two retries of one failed task; every queued row can be claimed, every running one has somebody to finish it; settled rows stay settled; the executor goroutine ends |
| Credentials | a token yields one secret; only secrets the Agent holds come into force; a revocation stands until a re-pairing prepared after it; a lockout has a known cause |
| Firewall | no ban is lost or invented; disk and kernel agree; the emergency starts and ends after its streaks and only then |
| Controller update | three files of one version or none replaced; the running controller is the installed one; an update that is stuck has a known cause |
| Agent update | a helper that ends by itself leaves nothing that blocks the next one and an Agent of the right version running; the Agent always comes back |
| Policies | a deployment by itself leaves the Agent with the policy its row says; the newest deployment keeps its policy until it is carried out |
| Bans | a ban shown as applied is blocked; after a successful synchronisation the Agent blocks exactly the rows |
| Presence | between the writes the row says what is connected; a connected Agent is shown as online again |
| Drop counter | no packet is counted or charted twice, whatever is replaced, restarted, lost or late |

## 2. Modules

| module | models | lines |
|---|---|---|
| `SecureStream` | abstract: a pair of ordered streams that may stop | 42 |
| `SecureChannel` | the secure channel | 185 |
| `CommandService` | abstract: a process carries a command out at most once and success is honest | 59 |
| `CommandHub` | the Hub, both transports, the Agent's duplicate check | 533 |
| `AgentTasks` | the task table and everyone who uses it | 403 |
| `Credentials` | rotation, revocation, re-pairing | 517 |
| `Firewall` | manager, adaptive controller, kernel and state files | 527 |
| `ControllerUpdate` | update request, root helper, service | 318 |
| `AgentUpdate` | the Agent's update helper and its health marker | 313 |
| `PolicyDeploy` | policies, history, tasks and synchronisation against the policy in force | 464 |
| `BanSync` | ban rows, their lists and marks against the addresses blocked | 343 |
| `Presence` | what the controller shows of a connection | 289 |
| `DropCounter` | the drop counter from the kernel to the chart | 160 |

| proofs | about | lines |
|---|---|---|
| `IdentityProofs` | `SecureChannel`, `Credentials` | 1167 |
| `CommandProofs` | `CommandHub`, `AgentTasks` | 1727 |
| `FirewallProofs` | `Firewall` | 847 |
| `ControllerUpdateProofs` | `ControllerUpdate` | 400 |
| `AgentUpdateProofs` | `AgentUpdate` | 187 |
| `PolicyDeployProofs` | `PolicyDeploy` | 1281 |
| `BanSyncProofs` | `BanSync` | 1183 |
| `TelemetryProofs` | `Presence`, `DropCounter` | 783 |

Where one module of proofs extends two components, the definitions of one of them
carry its name: `ChannelSpec` and `ChannelTypeOK` of `SecureChannel`, `TasksSpec`
and `TasksTypeOK` of `AgentTasks`, `CounterSpec` of `DropCounter`. Elsewhere they
are `Spec`, `TypeOK` and so on.

The modules meet at three seams. `CommandHub` shows what a call to the Agent is:
commands of one connection in order, at most one effect per Agent process, an
answer that may be lost or false when it is a failure; `AgentTasks`, `Credentials`,
`PolicyDeploy` and `BanSync` use a call as that. A command that a restarted Agent
carries out once more is one whose caller still waits: for `PolicyDeploy` and
`BanSync`, whose commands are repeatable, it is one command carried out at the
second of the two moments, since whatever was sent between them overlaps it; in
`Credentials`, where a repetition does harm, it is a step (`repeatable`). `Firewall`
shows what the Agent does with a policy or a ban list, including that it may refuse
after it has put it in force; `PolicyDeploy` and `BanSync` apply it as that.
`AgentTasks` shows that a task has one executor and that a settled row stays
settled; `PolicyDeploy` and `BanSync` have the same statements with attempts,
restarts and races of two retries left out (a retry is one step).

`MC*` modules only name model values, symmetry sets and sets of processes.
Definitions marked "Mutant of X" are plausible mistakes in X; nothing uses them,
except that every property has been seen to fail with one of them in X's place.

Abstractions shared by all modules: a secret, payload, policy, ban or release is
an opaque value; a SQL statement or transaction is one step, since the store has
one connection; a file renamed into place has its old or its new content; what
is written for a human (events, messages, logs) is left out. Variables under
"history" in a declaration are read by properties only.

### SecureChannel

`derived`, `sendSeq`, `recvSeq` are the two `SecureSession` values of a
handshake; `wire` is every envelope ever sent. `DeriveSecureSession`,
`EncryptMessage` and `DecryptMessage` are the functions of the same names, each
atomic under its mutex. `Deliver` hands any envelope of any session to any end,
with its clear-text number intact or not: loss, duplication, reordering, delay
across a reconnect, reflection. AES-GCM and HKDF are ideal: fresh keys per
handshake and direction, and a ciphertext opens only under the key, nonce and
additional data it was sealed with. The counter keeps its width (`Succ` is
modulo `MaxSeq + 1`), so exhaustion is real. The abstract `SecureStream` has no
envelopes, only what was sent and what was accepted.

### CommandHub

One Agent: the Hub's maps are keyed by Agent. A connection is a number used once,
of either transport. The variables follow the Hub's fields; `call`, `target`,
`channel` and `outcome` are the goroutine in `Hub.request`, one per command.
`worker` and `job` are the Agent's loop of each connection, because an old
loop may still be executing when a new connection is up. A step is one critical
section of `Hub.mu` or of the Agent's maps. `LeaveWS`, `LeaveHTTPS`,
`StopServing` and `Disconnect` break connections anywhere; `Return(r, "timeout")`
fires at any time a caller waits; `Age` and `Forget` are the two-minute limit
on a command and the expiry of the Agent's maps. `Execute` is the work of a
command, which may fail with or without an effect, `AnswerCommand` the caching
and sending of its result. `RestartAgent` kills the Agent between any two steps:
its connections end, `seen` and `results` are empty again, the Hub knows nothing
of it and sends what is still outstanding to the next process. `CommandService`
is what the callers of the Hub rely on; `Service!Spec` is checked under the
mapping of `call` and `outcome` to the caller's view, with the histories
`effects` (how often a command took effect) and `live` (what the present process
may still carry out: what was open when it started or has been sent since).

### AgentTasks

One Agent; a task is its row number. Rows are `kind`, `state`, `attempts`.
`CreateAgentTask`, `ClaimAgentTask`, `FinishAgentTask`, `RequeueAgentTask`,
`Cancel` and `RecoverTasks` are the statements of `store.go`. The limit of 5000
rows is on the whole table, so the Agent's oldest row may be deleted by any
insertion, of its own tasks or (`CreateForAnother`) of another Agent's; which
one is not determined by this Agent's rows and is a choice. `handler[t]` is the
request that created row `t` and tries to execute it at once, under a context
that ends when the browser goes: before the claim ("cut"), between the claim's
UPDATE and its SELECT, or while the task runs ("abandoned"). `processor` is
`processQueuedAgentTasks`. A Hub call is a step that succeeds, fails, or gives
up after the Agent has gone. The history `raced` holds the tasks that two retry
requests have found failed, which the code does not keep apart: the second may
requeue such a task while it runs.

### Credentials

One Agent; a secret is the request that generated it. The row, the handlers of
rotation, revocation, pairing and connection, and the Agent's two files and its
memory are variables; each statement and each rename is a step. A rotation
command may be carried out at any time before it is two minutes old, a success
is reported only if it was: this is what `CommandHub` shows, including that a
failure may be false. The history variables `held` (secrets the Agent has had
on disk), `discarded` (secrets the row dropped without promotion) and
`repeatable` (rotations a second Agent process may be sent again) let the
properties name the causes of a lockout; `since` holds the re-pairings prepared
after the last revocation.

### Firewall

`table` is the kernel's table: the policy its rules come from, the policy its
emergency chain was filled from, its bans. `op` and `at` say which manager
operation holds the mutex and what it does next: check, commit, or the file it
is about to write. `Kill`, `KillAtCommit`, `Reboot`, `CommitKilled`,
`SaveFileFails`, `SaveEmergencyFails`, `SaveBansFails` and `DeleteTable` are the
faults; a killed `os.WriteFile` leaves an empty file. `ReadPolicy`, `Decide` and
`SetAdaptiveEmergency` are the three times `Observe` takes the mutex for one
sample; commands from the controller come between them. `SkipSample` is a sample
whose policy cannot be read: the streaks stay as they were. `hot` and `cold` are
the streaks as the samples themselves make them. A ban that expires
leaves the kernel at that moment. Dry-run mode is left out.

The properties carry the exceptions the code has, and no others:
`interrupted` is set when an operation ended between changing the table and
saving what it did, until the next successful Apply; a Rollback from a pair of
`previous.*` files of different policies ends well and leaves `current.*`
different; a decision taken under an adaptive policy may start the emergency
under one that is not, until the next sample; a sample that was skipped inside a
streak (`skipped`) does not end it.

### ControllerUpdate

Files are numbered in the order the helper replaces them; a release is a version
number. `CheckStatus`, `WriteRequest`, `WriteQueued` are the three parts of
`RequestUpdate`, run by any number of handlers; `helper`, `version` and `target`
are `ApplyControllerUpdate`; the service may stop and come up by itself at any
time (`Restart=always`). The history variables name the exceptions: `spoiled`
(the helper was killed, a backup failed after the first file, or a step that
undoes failed), `late` (a status was written after the helper's, lost, or left
behind), `astray` (the service came up by itself during the replacement).

### AgentUpdate

`TakeCommand`, `LookForRequest`, `LookForProcessing`, `WriteRequest` are
`QueueAgentUpdate`, run by the reader of any connection; each of its two `Stat`
calls is a step. `helper` says what `ApplyAgentUpdate` does next: rename the
request, download, stop the service, back up, install, remove the marker, start,
wait, undo, start again, remove `processing.json`. The Agent's process may stop
and be started again at any time `service` is "up"; `AgentConnects` is
`MarkAgentHealthy` after the handshake. The controller may be updated or rolled
back at any time (`ControllerChanges`), after which the download of a version it
no longer has fails. `spoiled` names the exceptions: a helper that was killed,
or whose `systemctl`, undoing step or removal of the marker failed.

### PolicyDeploy

One Agent; a policy is the request that created it, or `Base`. `Request` is one
of the six things an administrator does, each cut into its statements: save
(`handleSaveAgentProtection`), restore (`handleRestorePolicyHistory`), deploy
(`handleDeployPolicy`), edit, cancel and retry. `Connect` and `LoadAndSync` are
`startAgentSynchronization`, `StartProcessor`, `ClaimNext` and `FetchPolicy` the
task processor. All of them share `Deployment`: send a command, wait, fail or
record the assignment, finish the task, delete what it replaced. `inbox` holds
commands on their way with the caller that waits for each, or `None` once it has
given up; `ApplyNext` is the Agent, which may refuse after it has put the policy
in force. `alone` and `muddled` state which deployments had the connection to
themselves.

### BanSync

The rows of the followed addresses, the `ban_sync` tasks, and the lists on their
way. Reading the list (`ListBans`, with the deletion of expired rows), sending it,
and marking every row (`Marks`) are three steps of a request, the processor or a
synchronisation without a task; `ChangeOther` is a request for an address that is
not followed. `Cut` is a browser that goes before the claim, `ListFails` one that
goes after it: the list cannot be read, nothing is sent, no mark is taken back.
`Expire` is a temporary ban that runs out on the Agent, in lists and for the next
read. `alone` and `mixed` say which synchronisations had the connection to
themselves from their read on.

### Presence

`pc[c]` is where the handler of connection `c` is: handshake, registered
("greet"), open, in the middle of a telemetry message, leaving. Registration and
the row are written in different steps by `handleAgentWS`,
`handleAgentHTTPSOpen`, `handleAgentHTTPSExchange`, `expireAgentHTTPSSession`,
`handleAgentMessage` and a revocation. `misled` is set when the row is written
for a connection that is not registered, or without regard to one that is, and
cleared by the next write that is right.

### DropCounter

The counters of the kernel, of the collector in memory, of its file, the reports
under way and the samples of each minute. `cumulativeDrops` is the function of
that name with its saturation; `DroppedTotal` and `DroppedDelta` are the query
and the loop of `ListMetricSamples` as functions of the samples, for every
length of interval. The reference is `real`, the packets dropped.

## 3. Runs

| run | configuration | distinct states | time |
|---|---|---|---|
| `secure_channel` | `MCSecureChannel.cfg` | 88 209 | 6 s |
| `command_hub` | `MCCommandHub.cfg` | 1 161 466 | 120 s |
| `agent_tasks` | `MCAgentTasks.cfg` | 580 476 | 65 s |
| `credentials` | `MCCredentials.cfg` | 2 740 226 | 129 s |
| `firewall` | `MCFirewall.cfg` | 3 216 691 | 75 s |
| `controller_update` | `MCControllerUpdate.cfg` | 652 573 | 12 s |
| `agent_update` | `MCAgentUpdate.cfg` | 132 645 | 12 s |
| `policy_deploy` | `MCPolicyDeploy.cfg` | 2 317 675 | 136 s |
| `ban_sync` | `MCBanSync.cfg` | 2 651 004 | 133 s |
| `presence` | `MCPresence.cfg` | 397 825 | 54 s |
| `drop_counter` | `MCDropCounter.cfg` | 1 493 534 | 24 s |
| `tasks_stranded` | `MCAgentTasksStranded.cfg` | violation | |

**secure_channel.** Two handshakes, two payloads, counters of 0 to 2. Two
handshakes are needed for replay from an older session, two payloads for
reordering to show, and `MaxSeq = 2` makes the counter run out. Shows
`NonceUsedOnce`, `NextGenuineOpens` and that the channel
implements `SecureStream`.

**command_hub.** Two commands, two connections, each of either transport, in
every order: WebSocket after WebSocket, HTTPS after WebSocket (and back) with
the flush and a parked pull between them. One command cannot show the id list
going wrong, one connection cannot show redelivery. The Agent may be killed any
number of times; the two connections are all it has to come back. Shows
`QueueConsistent`, `NoLostWakeup` and the refinement of `CommandService`: at most
one effect in a process, none in one that is started after the answer, no success
without one, no effect of a refused command.

**agent_tasks.** Two rows, two attempts (ten in the code), one goroutine waiting to
call the processor, one administrator. Two rows of one kind show superseding, of
two kinds a batch; two attempts show the requeue and its limit; each row may be
deleted at any time after another is inserted somewhere. Safety: `OneExecutor`,
`RunningHasExecutor`, `Settled`. Liveness: `ProcessorStops`, under weak fairness of
the processor's own steps (`Work`): its goroutine is scheduled, and its Hub calls
return since each has a timeout (40 s, 45 s). Nothing is assumed of connections,
administrators, handlers or restarts. A second administrator makes five million
states of this, in which two retries of one task still cannot meet, since that takes
more than two attempts. One row, four attempts and two administrators are 40 992
states: `OneExecutor`, `RetryOnlyFailed` and `RunningHasExecutor` hold there, and
`NeverRaced` fails (section 5). The theorems are for any number of each.

**credentials.** One rotation, two re-pairings over one token, two connection
handlers, one revocation, restarts of both processes. Two re-pairings are what
a race for a token takes; two handlers what a handshake overtaken by another
takes. Shows `OneSecretPerToken`, `LockoutNeedsDiscard`, `ReplacedByHeld`,
`RevocationStands`.

**firewall.** One policy with adaptive protection and one without, one ban, streaks
of 2 and 2 samples (2 and 12 in the code; the second counter has the same
shape), two faults. Two faults are a failure and a kill or reboot in the
recovery from it. Shows `BansExact`, `PolicyInForce`, `EmergencyKnown`,
`Hysteresis`.

**controller_update.** Two administrators, three releases, two faults: the second
request overtakes the first, and its helper meets what a fault in the first
left. Shows `AllOrNothing`, `InstalledRuns`, `StuckExplained`.

**agent_update.** Two connections that take a command, three releases, two
faults. Two workers are two requests that pass the checks together; three
releases are one that is installed, one that is asked for and one the controller
has by the time of the download; two faults are a failure and a second one in
the recovery from it. Shows `CleanEnd`, and `AgentComesBack` under weak fairness
of the helper's steps (a root process of its own, whose wait for the marker ends after 45 s)
and of `AgentRestarts` (systemd, `Restart=always`).

**policy_deploy.** Two requests of any kind, one synchronisation that may run
several times, the processor, two connections; the Agent has the default policy
at the start. Two requests are what it takes for one to supersede, overtake,
delete or restore the other's policy; two connections are a task left by the
first and carried out by the second. `First` allows an Agent without a policy as
well: the theorems cover it, the run leaves it out to stay short. Shows
`InForceIsAssigned`, `NewestKept`.

**ban_sync.** One followed address, two requests, the processor and a
synchronisation without a task, two lists on their way: of two that overlap the
older can be applied last, or marked last. Other addresses come in by
`ChangeOther`; their rows are treated alike. Shows `AppliedIsBlocked`,
`SucceededIsExact`.

**presence.** Two WebSockets and one HTTPS session, each in any order after or
over another, one restart, revocation or re-pairing. Three connections are one
that ends, one that replaces it and one that replaces that before the first has
written the row. Shows `RowIsTrue`, and `ShownOnline` under weak fairness of
each handler and expiry goroutine (the Go scheduler; reads have deadlines), of
the four seconds of `acceptTelemetry`, and of the Agent's reports while it stays
connected (a ticker of five seconds).

**drop_counter.** Counters of 0 to 3 that saturate, four packets, three minutes,
two reports on their way. Three minutes are a first interval and two that can be
grouped; a late report of an older connection can fall in any of them. Shows
`CountedOnce`.

Deadlock is checked except in the runs of `SecureChannel`, `CommandHub`,
`PolicyDeploy` and `Presence`, which stop when the last counter value, command or
connection the bounds allow has been used. Symmetry is used for identities that
are only compared, and never in a run with a liveness property.

## 4. Proofs

TLAPS proves these for every value of the constants, from the named assumptions on
constants in the component's module and nothing else.

| module | theorem | says |
|---|---|---|
| `IdentityProofs` | `ChannelTypeCorrect` | `[]ChannelTypeOK` |
| | `PrefixDelivery` (+) | `[]AcceptedIsPrefix` |
| | `NonceUniqueness` | `[]NonceUsedOnce` |
| | `NeverDesynchronised` | `[]NextGenuineOpens` |
| | `Refinement` | `SecureChannel` implements `SecureStream` |
| | `CredentialsTypeCorrect` | `[]TypeOK` |
| | `TokensUsedOnce` | `[]OneSecretPerToken` |
| | `LockoutsExplained` | `[]LockoutNeedsDiscard` |
| | `CurrentReplacedByHeld` | `ReplacedByHeld` |
| | `RevocationsStand` | `RevocationStands` |
| `CommandProofs` | `HubTypeCorrect` | `[]TypeOK` |
| | `QueuesAgree` | `[]QueueConsistent` |
| | `PullsAreWoken` | `[]NoLostWakeup` |
| | `HubImplementsService` | `CommandHub` implements `CommandService` |
| | `TasksTypeCorrect` | `[]TasksTypeOK` |
| | `QueuedTasksClaimable` (+) | `[]QueuedHasAttemptsLeft` |
| | `RunningTasksExecuted` | `[]RunningHasExecutor` |
| | `TasksExecutedOnce` | `[]OneExecutor` |
| | `RetriesOnlyFailed` (+) | `[]RetryOnlyFailed` |
| | `TasksSettle` | `Settled` |
| `FirewallProofs` | `FirewallTypeCorrect` | `[]TypeOK` |
| | `BansStayExact` | `[]BansExact` |
| | `RulesOnDisk` | `[]PolicyInForce` |
| | `EmergencyOnDisk` | `[]EmergencyKnown` |
| | `EmergencyHysteresis` | `Hysteresis` |
| `ControllerUpdateProofs` | `UpdateTypeCorrect` | `[]TypeOK` |
| | `ReplacesTogether` | `[]AllOrNothing` |
| | `RunsInstalled` | `[]InstalledRuns` |
| | `StuckOnlyWhenLate` | `[]StuckExplained` |
| `AgentUpdateProofs` | `AgentUpdateTypeCorrect` | `[]TypeOK` |
| | `EndsClean` | `[]CleanEnd` |
| `PolicyDeployProofs` | `PolicyDeployTypeCorrect` | `[]TypeOK` |
| | `DeploymentSettles` | `[]InForceIsAssigned` |
| | `NewestStays` | `[]NewestKept` |
| `BanSyncProofs` | `BanSyncTypeCorrect` | `[]TypeOK` |
| | `AppliedStaysBlocked` | `[]AppliedIsBlocked` |
| | `SucceededStaysExact` | `[]SucceededIsExact` |
| `TelemetryProofs` | `PresenceTypeCorrect` | `[]TypeOK` |
| | `RowTellsTruth` | `[]RowIsTrue` |
| | `DropsCountedOnce` | `[]CountedOnce` |

(+) proved only: the property follows from what a run of the module checks, or is
part of the argument for it, and no run checks it again.

**The arguments.** Each component has an inductive invariant, `IInv` unless the
list says otherwise, which TLC has checked as an invariant of the component's run
before it was proved.

- `SecureChannel`: `ChannelIInv` adds to the types that the counters are the
  lengths of the histories (`Counters`), that every envelope holds the message
  its number stands for (`Genuine`) and that every message has its envelope
  (`Complete`). `Genuine` turns a successful decryption into "the next message
  of the peer", which keeps the prefix; `Complete` provides the genuine next
  envelope. `MaxSeq` is any positive number, so the proof covers 2^64 - 1.
- `CommandHub`: what is on its way to the Agent, queued or at work is `Known`: in
  `live`, seen by the present process, or too old for it (`Ways`); a command is
  executed by one worker at most, after it has been seen and while it is in `live`,
  which it leaves with its effect (`Once`); a success, wherever it is kept
  or sent, is that of a command with an effect (`Reports`); the connection the Hub
  has registered and the one the Agent is on agree in kind (`Links`); and what is
  outstanding is exactly what `Hub.request` waits for (`Queues`). `Once` makes an
  effect of the code one the abstract service allows this process, `Reports` makes
  its answers honest, and `Ways` keeps a refused command, or one answered before the
  process started, from ever taking effect. A restart empties what the Agent
  remembers and what is on its way together, so that `Ways` and `Once` begin anew
  with what is open. `NoLostWakeup` is inductive with `Queues` and `Links`: every
  step that offers a command also leaves a token for a parked pull.
- `AgentTasks`: `QInv` (types, `QueuedHasAttemptsLeft`,
  `RunningHasExecutor`) is inductive as it stands: every statement that makes a
  row running gives it an executor in the same step. `OneExecutor` is not: a
  claim would add an executor to a queued row that still has one. `EInv`
  excludes such rows (`ExecutedIsRunning`), and since a retry in flight could
  requeue one, says that a task past `handleRetryTask`'s check is neither queued,
  running nor executed (`RetryPending`); both of tasks outside `raced` only, and
  such a task has one retry in flight at most.
- `Credentials`: `IInv` adds to the types which step each token
  (`TokenInv`), handler (`RevokedInv`) and secret (`HeldInv`, `UnusedInv`) can be
  at, and `DiskInv`, which relates the files to the row through every
  intermediate state of a rotation and a re-pairing.
- `Firewall`: none of the three invariants is inductive, because all three speak of
  the moments between operations or leave out what an operation works with.
  `Operation` and `Decision` say which policy, which bans and which decision an
  operation holds at each of its steps. `BansKept` puts the bans of the state file
  between those owed and those allowed, and relates what was loaded from it to it
  while bans expire. `RulesKept` has to say something true at every point at which
  a fault may come: between the transaction and the last write the table holds what
  is being written, even if an earlier operation was cut short (`Written`), and
  otherwise the files, the table and the Manager agree (`InForce`); the state
  believed is that of the Manager, or of its file while the Agent is down.
  `Hysteresis` is a property of steps and follows from `Operation` and `Decision`: the
  decision that `SetAdaptiveEmergency` carries out rests on a complete streak, however
  many commands have run since it was taken, unless a sample was skipped: until
  then the Agent's counts are no larger than those of the samples.
- `ControllerUpdate`: `Files` says, for each place of the helper's loop, which
  files have been replaced and which backups are those of the version from
  before, and the reverse on the way back (`Undone`); `Process` says which
  controller runs until the helper restarts it. Both hold until one of the named
  exceptions.
- `AgentUpdate`: as long as nothing is spoiled, `Binary`, `Service` and
  `Marker` say for each place of the helper which binary is installed and backed
  up, whether the service is down, and that a marker found was written by the
  process the helper started.
- `PolicyDeploy`: a command on its way has one caller that waits for it, or
  none (`Called`); a deployment without another beside it has the connection for
  itself, and without one the Agent runs what its row says (`Settled`). For
  `NewestKept`, every deletion is shown to hit another policy: who deletes the
  policy replaced deletes one that was assigned (`OldServed`), who deletes the
  superseded ones has listed them before the newest task was there, and a restore
  and a cancellation delete their own (`Owns`).
- `BanSync`: both properties are promises about rest, so the invariant says what is
  true on the way there. A task has one worker and an answer has one caller
  (`Workers`, `Waited`). A synchronisation is `alone` when none has been beside it
  from its read to its end; every other is noted in `mixed` (`Overlap`). The list of
  `alone` is the last one in the inbox and nothing comes after it has been applied
  (`LastIn`); unless a change is still to be read, it holds exactly the rows, and
  its success means the Agent has them (`AloneExact`). What is shown as applied is
  then blocked, and is in every list still on its way (`MarksTrue`); after the newest
  task has succeeded set and lists are the rows (`DoneExact`). The lists abandoned by
  callers that gave up are the reason for the two clauses about lists on their
  way: they are applied later, without anyone who waits.
- `Presence`: a handler about to write "offline" is no longer registered
  (`MarkerGone`), and a row that does not say what is registered is about to be
  written again (`Mended`).

- `DropCounter`: `CounterInv` says that a counter is exact when what it has counted
  and what its next sample would add were really dropped (`Exact`), of the counter in
  memory and, separately, of the one in the file, so that a restart may lose packets
  but invents none; and that later minutes, reports and counters are larger as long as
  none was forgotten (`Ordered`). That is inductive, and gives `CounterTrue`. For
  `ChartTrue`, the total at the end of an interval is the largest sample in it; totals
  grow with the intervals (`TotalsOrdered`), so the drop of an interval is the size of
  a stretch of the count that no other interval shares, and the sum over a chart, a
  fold in an order nobody chose, is the size of the union of these stretches
  (`SumOfSizes`). That needs an induction over the set of intervals. The library's
  induction theorems take the property as an operator, which the provers here cannot
  instantiate; `SetInduction` takes it as the set of subsets that have it, and is
  proved from the library's well-foundedness of strict inclusion.

Only model-checked: the three liveness properties, `ProcessorStops`,
`AgentComesBack` and `ShownOnline` (liveness under fairness is out of the prover's
reach). `NoStrandedTask` is refuted (section 5). Every other property of a run is
proved.

Two corrections of the models came out of the proofs. In `Firewall`, two arms of the
CASE that says what an operation writes after the transaction overlapped, for an
Ensure that ends an emergency; such a CASE may denote either arm, and TLC always took
the first, which is the one meant. In `BanSync`, nothing said that `None` is not also
one of the answers an Agent may give.

## 5. Where code and documents disagree

One disagreement has a run whose property states what the message says, and whose
counterexample is what the code does; the quotation is in `findings` in
`PROJECT.json`. `tasks_stranded`: online is read before the task is stored, so an
Agent that connects in between has its task left queued while it is online; the
message says "saved, deployed automatically when the Agent comes online"
(`server.go:1103`).

Of six others the modules keep a definition, named in its comment as one that does
not hold. To see the counterexample, add it as INVARIANT to the module's
configuration.

| definition | the code | the text |
|---|---|---|
| `CommandHub!FailureMeansNoEffect` | Apply fails with the new rules in force; a command redelivered while it is being executed is answered as a failed duplicate, and that answer reaches the caller | callers present it as the command's failure (`server.go:817`, `server.go:1122`) |
| `Credentials!NeverLockedOut` | the controller forgets a pending secret the Agent has already saved | no lockout by rotation (`SECURITY.md:19`) |
| `Credentials!RevokedIsDisconnected` | a handshake authenticated before the revocation registers after it | later connections are refused, immediate revocation (`server.go:831`, `SECURITY.md:19`) |
| `Firewall!FailureKeepsRules` | Apply returns an error with the new rules in force | on failure the old rules are kept or restored (`SECURITY.md:22`) |
| `Firewall!StreaksUnbroken` | a sample taken while the saved policy cannot be read leaves the streaks alone | only consecutive samples under pressure start the emergency (`SECURITY.md:23`) |
| `AgentTasks!NeverRaced` | of two retries that pass the check together the second requeues the task while it runs again | only failed tasks can be retried (`server.go:1397`) |

The last needs `MaxTasks = 1`, `MaxAttempts = 4` and two administrators;
`OneExecutor` without its exception fails there too.

Behaviour seen while modelling that no text contradicts, kept as exceptions in the
properties or as hazards:

- An update request that overtakes another may install an older version
  (`updater/manager.go:98`); "queued" written after the helper has claimed the
  request leaves an update in progress for ever (`manager.go:117`).
- An Agent helper that is killed leaves `processing.json`, and no later update is
  accepted (`updater/agent.go:59`); a marker that a failed removal left can stand
  for the new process (`agent.go:147`).
- The row of a cancelled browser request stays running until the controller
  restarts (`server.go:1106`, `server.go:1114`).
- Rollback uses `previous.*` files that need not belong together
  (`firewall/manager.go:85`).
- A synchronisation that has read the assigned policy applies it after a newer
  deployment and assigns it again (`server.go:652`). A restore that hears no
  answer deletes the policy the Agent may still put in force (`server.go:1192`).
- Of two ban synchronisations that overlap the older list may stay in force with
  all rows marked applied; a ban saved during one is shown as applied while its
  own task waits (`server.go:1337`, `server.go:1356`), and for good when that task
  fails because its list could not be read (`server.go:1338`).
- A command whose answer an Agent did not get out before it was killed is carried out
  again by the next process while the caller waits (`client.go:108`).
- A row set offline for a connection that another has followed says "online" again
  with the next telemetry, but stays unencrypted (`server.go:489`;
  `UpdateTelemetry` does not write `secure_channel`); after a restart of the
  controller it says "online" until the Agent has come and gone.
- A chart can count packets twice only after the Agent lost a counter it could not
  save.

## 6. What is not modelled

- **Login, sessions and rate limits**: arithmetic on timestamps under one mutex and
  single statements on session rows; no modelled part depends on them, and what
  could be said about them is a matter of admission limits, not of state that
  several components share.
- **The rest of the telemetry collector and the port probes**: readings of the
  host, rates and caches of the last reading. Only the drop counter has a state
  that outlives a process.
- **Manifests and versions, diagnostics, discovery, programs, web interface**:
  no state of their own, or pure input and output. What the unit files do
  (path activation, `Restart=always`) is in `ControllerUpdate` and `AgentUpdate`.
- The first enrolment of a new Agent, which has no earlier secret to conflict with,
  so that "Agent credentials and re-pairing" is modelled in part. Its token is
  used before the Agent is inserted: of two attempts with one machine identity the
  second may be told to run its command again (`server.go:400`) when the token of
  that command is used (`server.go:369`).
- Inside modelled components: address probing of the Agent's loop, dry-run mode of
  the firewall manager, validation and compilation of a policy's content,
  `policy_revision` (overwritten by telemetry, read by nothing but the display),
  the metrics other than dropped packets, and database errors other than those a
  cancelled context causes.
- The cryptography is assumed, not modelled; so is nft's own atomicity.

## 7. Plan

| | module | state |
|---|---|---|
| 1 | `SecureChannel` over `SecureStream` | checked, proved |
| 2 | `CommandHub` over `CommandService` | checked, proved |
| 3 | `AgentTasks` | checked; safety proved |
| 4 | `Credentials` | checked, proved |
| 5 | `Firewall` | checked, proved |
| 6 | `ControllerUpdate` | checked, proved |
| 7 | `AgentUpdate` | checked; safety proved |
| 8 | `PolicyDeploy`, `BanSync` | checked, proved |
| 9 | `Presence` | checked; safety proved |
| 10 | `DropCounter` | checked, proved |

What is left is the first enrolment beside `Credentials`.

## 8. Running it

```
tlc -workers 2 -config MCAgentTasks.cfg MCAgentTasks
tlapm CommandProofs.tla
```

and likewise for the other configurations and `*Proofs` modules. `PROJECT.json`
names the module and configuration of every run, the properties it checks, and
for every property a mutant that breaks it.
