----------------------------- MODULE AgentUpdate -----------------------------
(***************************************************************************)
(* An Agent updating itself: QueueAgentUpdate in the Agent's process, the  *)
(* helper that systemd starts for request.json as root (ApplyAgentUpdate,  *)
(* both in internal/updater/agent.go), the service the helper stops and    *)
(* starts, and the marker a reconnected Agent writes (MarkAgentHealthy).   *)
(*                                                                         *)
(* Files are renamed into place, but for the backup, which nobody reads    *)
(* before it is complete.  A binary is its version; the download succeeds  *)
(* only while the controller still hands out the version asked for (its    *)
(* hash).  status.json, which no program reads, is the outcome.            *)
(***************************************************************************)
EXTENDS Naturals

CONSTANTS Workers,     \* readers of the Agent's connections, each of which may take a command
          MaxVersion,  \* bound: releases
          MaxFaults,   \* bound: failed file and systemctl operations, kills, reboots
          None

ASSUME UpdateAssumption ==
    MaxVersion \in Nat /\ MaxVersion >= 1 /\ MaxFaults \in Nat /\ None \notin Nat

Versions == 1..MaxVersion

VARIABLES
  served,     \* the version the controller hands out
  running,    \* the version of the Agent's process, 0 when there is none
  service,    \* "up": systemd keeps the Agent running (Restart=always); or "stopped"
  installed,  \* the version of the installed binary
  backup,     \* the version of the .previous file
  request,    \* request.json: the version asked for
  processing, \* processing.json
  marker,     \* healthy.json: the version that connected
  worker,     \* QueueAgentUpdate: "idle", past the version check, past each of two Stats
  asks,       \* the version it asks for
  helper,     \* what the helper does next
  faults,
  \* History: no step reads these.
  before,     \* the installed version when the helper started
  connected,  \* the process the helper started last has connected
  outcome,    \* what the helper last ended with
  spoiled     \* it was killed, or a systemctl call, a step that undoes or the removal of the
              \* marker failed

fileVars == <<installed, backup, request, processing, marker>>
workerVars == <<worker, asks>>
historyVars == <<before, connected, outcome, spoiled>>
vars == <<served, running, service, fileVars, workerVars, helper, faults, historyVars>>

Init ==
    /\ served \in Versions /\ installed = 1 /\ running = 1 /\ service = "up"
    /\ backup = 0 /\ request = None /\ processing = None /\ marker \in {None, 1}
    /\ worker = [w \in Workers |-> "idle"] /\ asks = [w \in Workers |-> 0]
    /\ helper = "off" /\ faults = 0
    /\ before = 1 /\ connected = FALSE /\ outcome = "none" /\ spoiled = FALSE

Fault == faults < MaxFaults /\ faults' = faults + 1

-----------------------------------------------------------------------------
\* The controller, and the Agent's process.

\* It is updated, or rolled back.
ControllerChanges(v) ==
    /\ v # served /\ served' = v
    /\ UNCHANGED <<running, service, fileVars, workerVars, helper, faults, historyVars>>

\* QueueAgentUpdate for a command the controller sent earlier (handleAgentUpdates).
TakeCommand(w, v) ==
    /\ running # 0 /\ worker[w] = "idle" /\ v > running
    /\ worker' = [worker EXCEPT ![w] = "newer"] /\ asks' = [asks EXCEPT ![w] = v]
    /\ UNCHANGED <<served, running, service, fileVars, helper, faults, historyVars>>

Refuse(w) == worker' = [worker EXCEPT ![w] = "idle"] /\ asks' = [asks EXCEPT ![w] = 0]

\* No update may be waiting, nor under way; the two files are looked at one after the other.
Look(w, from, to, file) ==
    /\ worker[w] = from
    /\ IF file = None THEN worker' = [worker EXCEPT ![w] = to] /\ UNCHANGED asks ELSE Refuse(w)
    /\ UNCHANGED <<served, running, service, fileVars, helper, faults, historyVars>>

LookForRequest(w) == Look(w, "newer", "unasked", request)
LookForProcessing(w) == Look(w, "unasked", "free", processing)

WriteRequest(w) ==
    /\ worker[w] = "free"
    /\ request' = asks[w] /\ Refuse(w)
    /\ UNCHANGED <<served, running, service, installed, backup, processing, marker, helper, faults,
                   historyVars>>

\* A new process, or none: the readers of the old one are gone.
Run(v) ==
    /\ running' = v
    /\ worker' = [w \in Workers |-> "idle"] /\ asks' = [w \in Workers |-> 0]

\* Connected and verified: MarkAgentHealthy.
AgentConnects ==
    /\ running # 0
    /\ marker' = running /\ connected' = TRUE
    /\ UNCHANGED <<served, running, service, installed, backup, request, processing, workerVars,
                   helper, faults, before, outcome, spoiled>>

AgentStops ==
    /\ running # 0 /\ Run(0)
    /\ UNCHANGED <<served, service, fileVars, helper, faults, historyVars>>

AgentRestarts ==
    /\ running = 0 /\ service = "up" /\ Run(installed)
    /\ UNCHANGED <<served, service, fileVars, helper, faults, historyVars>>

-----------------------------------------------------------------------------
\* ApplyAgentUpdate.

\* The deferred removal of processing.json is the last thing it does.
End(o) == helper' = "off" /\ processing' = None /\ outcome' = o

\* systemd starts the helper for request.json (PathExists), which renames it.
Claim ==
    /\ helper = "off" /\ request # None
    /\ helper' = "download" /\ processing' = request /\ request' = None
    /\ before' = installed /\ outcome' = "none"
    /\ UNCHANGED <<served, running, service, installed, backup, marker, workerVars, faults,
                   connected, spoiled>>

\* Nothing has been touched.
DownloadFails ==
    /\ helper = "download" /\ End("failed")
    /\ UNCHANGED <<served, running, service, installed, backup, request, marker, workerVars, faults,
                   before, connected, spoiled>>

\* Size, hash and --version of what the controller hands out are those of the request.
Downloaded ==
    /\ helper = "download" /\ served = processing
    /\ helper' = "stop"
    /\ UNCHANGED <<served, running, service, fileVars, workerVars, faults, historyVars>>

Stop ==
    /\ helper = "stop" /\ helper' = "backup"
    /\ service' = "stopped" /\ Run(0)
    /\ UNCHANGED <<served, fileVars, faults, historyVars>>

\* systemctl fails or is given up on, whatever it has done: nothing starts the Agent again.
StopFails ==
    /\ helper = "stop" /\ Fault
    /\ \/ UNCHANGED <<running, service, workerVars, spoiled>>
       \/ service' = "stopped" /\ Run(0) /\ spoiled' = TRUE
    /\ End("failed")
    /\ UNCHANGED <<served, installed, backup, request, marker, before, connected>>

Backup ==
    /\ helper = "backup" /\ helper' = "install"
    /\ backup' = installed
    /\ UNCHANGED <<served, running, service, installed, request, processing, marker, workerVars,
                   faults, historyVars>>

Install ==
    /\ helper = "install" /\ helper' = "unmark"
    /\ installed' = processing
    /\ UNCHANGED <<served, running, service, backup, request, processing, marker, workerVars,
                   faults, historyVars>>

\* Mutant of CopyFails: the backup is put back whichever of the two failed.
CopyFailsUndo ==
    /\ helper \in {"backup", "install"} /\ Fault
    /\ helper' = "undo"
    /\ backup' = IF helper = "backup" THEN 0 ELSE backup
    /\ UNCHANGED <<served, running, service, installed, request, processing, marker, workerVars,
                   historyVars>>

\* Mutant of CopyFails: it returns, as a failed download does.
CopyFailsStopped ==
    /\ helper \in {"backup", "install"} /\ Fault
    /\ End("failed")
    /\ UNCHANGED <<served, running, service, installed, backup, request, marker, workerVars,
                   before, connected, spoiled>>

\* Neither has replaced anything; a failed backup may be torn.
CopyFails ==
    /\ helper \in {"backup", "install"} /\ Fault
    /\ helper' = "restart"
    /\ backup' = IF helper = "backup" THEN 0 ELSE backup
    /\ UNCHANGED <<served, running, service, installed, request, processing, marker, workerVars,
                   historyVars>>

\* Mutant of RemoveMarker: an older process of the version may have left its marker.
KeepMarker == UNCHANGED <<marker, spoiled, faults>>

\* os.Remove, whose error is ignored.
RemoveMarker ==
    \/ marker' = None /\ UNCHANGED <<spoiled, faults>>
    \/ Fault /\ spoiled' = TRUE /\ UNCHANGED marker

Unmark ==
    /\ helper = "unmark" /\ helper' = "start"
    /\ RemoveMarker
    /\ UNCHANGED <<served, running, service, installed, backup, request, processing, workerVars,
                   before, connected, outcome>>

\* systemctl start: nothing happens to a service that is up.
StartService ==
    /\ service' = "up"
    /\ IF service = "stopped" THEN Run(installed) /\ connected' = FALSE
                              ELSE UNCHANGED <<running, workerVars, connected>>

Start ==
    /\ helper = "start" /\ helper' = "wait"
    /\ StartService
    /\ UNCHANGED <<served, fileVars, faults, before, outcome, spoiled>>

\* It fails, or is given up on when the Agent is up already: the old binary is put back under
\* it without another stop.
StartFails ==
    /\ helper = "start" /\ Fault
    /\ helper' = "undo"
    /\ \/ StartService /\ spoiled' = TRUE
       \/ UNCHANGED <<service, running, workerVars, connected, spoiled>>
    /\ UNCHANGED <<served, fileVars, before, outcome>>

\* The marker names the new version.
Healthy ==
    /\ helper = "wait" /\ marker = processing
    /\ End("completed")
    /\ UNCHANGED <<served, running, service, installed, backup, request, marker, workerVars, faults,
                   before, connected, spoiled>>

\* 45 seconds without it, or the helper's three minutes are over.
Unhealthy ==
    /\ helper = "wait" /\ helper' = "undo"
    /\ \/ service' = "stopped" /\ Run(0) /\ UNCHANGED <<faults, spoiled>>
       \/ Fault /\ spoiled' = TRUE /\ UNCHANGED <<running, service, workerVars>>
    /\ UNCHANGED <<served, fileVars, before, connected, outcome>>

\* installFileAtomic of the backup, whose error is ignored.
Undo ==
    /\ helper = "undo" /\ helper' = "restart"
    /\ \/ installed' = backup /\ UNCHANGED <<faults, spoiled>>
       \/ Fault /\ spoiled' = TRUE /\ UNCHANGED installed
    /\ UNCHANGED <<served, running, service, backup, request, processing, marker, workerVars,
                   before, connected, outcome>>

\* The Agent is started again; the error of that is ignored.
Restart ==
    /\ helper = "restart" /\ End("failed")
    /\ \/ StartService /\ UNCHANGED <<faults, spoiled>>
       \/ Fault /\ spoiled' = TRUE /\ UNCHANGED <<service, running, workerVars, connected>>
    /\ UNCHANGED <<served, installed, backup, request, marker, before>>

KillHelper ==
    /\ helper # "off" /\ Fault
    /\ helper' = "off" /\ outcome' = "killed" /\ spoiled' = TRUE
    /\ UNCHANGED <<served, running, service, fileVars, workerVars, before, connected>>

\* The host goes down and comes up, with the service enabled.
Reboot ==
    /\ Fault
    /\ service' = "up" /\ Run(0)
    /\ helper' = "off"
    /\ outcome' = (IF helper = "off" THEN outcome ELSE "killed")
    /\ spoiled' = (spoiled \/ helper # "off")
    /\ UNCHANGED <<served, fileVars, before, connected>>

-----------------------------------------------------------------------------
HelperStep ==
    \/ Claim \/ DownloadFails \/ Downloaded \/ Stop \/ StopFails \/ Backup \/ Install \/ CopyFails
    \/ Unmark \/ Start \/ StartFails \/ Healthy \/ Unhealthy \/ Undo \/ Restart

Next ==
    \/ \E v \in Versions : ControllerChanges(v)
    \/ \E w \in Workers :
           \/ \E v \in Versions : TakeCommand(w, v)
           \/ LookForRequest(w) \/ LookForProcessing(w) \/ WriteRequest(w)
    \/ AgentConnects \/ AgentStops \/ AgentRestarts
    \/ HelperStep \/ KillHelper \/ Reboot

Spec == Init /\ [][Next]_vars

\* systemd starts the helper and restarts the Agent; the helper's waits are all bounded.
FairSpec == Spec /\ WF_vars(HelperStep) /\ WF_vars(AgentRestarts)

-----------------------------------------------------------------------------
TypeOK ==
    /\ served \in Versions /\ running \in Versions \cup {0} /\ service \in {"up", "stopped"}
    /\ service = "stopped" => running = 0
    /\ installed \in Versions /\ backup \in Versions \cup {0}
    /\ request \in Versions \cup {None} /\ processing \in Versions \cup {None}
    /\ marker \in Versions \cup {None}
    /\ worker \in [Workers -> {"idle", "newer", "unasked", "free"}]
    /\ asks \in [Workers -> Versions \cup {0}]
    /\ \A w \in Workers : asks[w] = 0 <=> worker[w] = "idle"
    /\ helper \in {"off", "download", "stop", "backup", "install", "unmark", "start", "wait",
                   "undo", "restart"}
    /\ helper # "off" => processing # None
    /\ helper \in {"install", "unmark", "start", "wait", "undo"} => backup # 0
    /\ faults \in 0..MaxFaults
    /\ before \in Versions /\ connected \in BOOLEAN /\ spoiled \in BOOLEAN
    /\ outcome \in {"none", "completed", "failed", "killed"}

\* A helper that ended by itself leaves nothing behind that blocks the next update
\* (QueueAgentUpdate refuses while processing.json exists), the service up, and a running
\* Agent that is the installed one: after a failure the one from before the update, after a
\* success one that has connected (MarkAgentHealthy, waitForAgentHealthy). Only a kill, a
\* systemctl call or an undoing step that failed, or a marker left behind, can change that.
CleanEnd ==
    helper = "off" /\ ~spoiled =>
        /\ processing = None /\ service = "up"
        /\ running # 0 => running = installed
        /\ outcome = "failed" => installed = before
        /\ outcome = "completed" => connected

\* The Agent comes back after every stop, of the helper's or its own (Restart=always), unless
\* the service is left stopped by a helper that was killed or whose systemctl calls failed.
AgentComesBack ==
    running = 0 ~> running # 0 \/ (service = "stopped" /\ helper = "off" /\ spoiled)
=============================================================================
