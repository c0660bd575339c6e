--------------------------- MODULE ControllerUpdate ---------------------------
(***************************************************************************)
(* The controller updating itself: RequestUpdate in the controller's       *)
(* process (internal/updater/manager.go), the helper that systemd starts   *)
(* for request.json as root (ApplyControllerUpdate in                      *)
(* internal/updater/apply.go, deploy/mmwx-guard-update.path) and the       *)
(* service the helper restarts.                                            *)
(*                                                                         *)
(* Files are renamed into place, so a file has the old or the new content. *)
(* A release is its version: what the manifest, the hashes and --version   *)
(* check about it ends in a download that succeeds or fails.  The three    *)
(* installed files are numbered in the order they are replaced; the first  *)
(* is the controller, the others the Agent binaries it hands out.          *)
(***************************************************************************)
EXTENDS Naturals, FiniteSets

CONSTANTS Handlers,    \* administrators' update requests
          MaxVersion,  \* bound: releases
          MaxFaults,   \* bound: failed file operations and restarts, kills
          None

ASSUME UpdateAssumption ==
    MaxVersion \in Nat /\ MaxVersion >= 1 /\ MaxFaults \in Nat /\ None \notin Nat

Versions == 1..MaxVersion
Targets == 1..3

VARIABLES
  running,   \* the version of the controller's process, 0 when it is down
  installed, \* the version of each installed file
  backup,    \* the version of each file in the update's backup directory, 0 for none
  request,   \* request.json: the version asked for
  status,    \* status.json
  handler,   \* handleControllerUpdate: "idle", "checked" the status, "asked" (request.json
             \* is written)
  asks,      \* the version it asks for
  helper,    \* what the helper does next
  version,   \* the version it installs
  target,    \* the file it is at
  faults,
  \* History: no step reads these.
  before,    \* the installed versions when the helper started
  outcome,   \* what the helper last ended with
  spoiled,   \* it was killed, a step that undoes failed, or a backup did
  late,      \* a status was written late, not written, or left behind
  astray     \* the controller came up by itself while its files were being replaced

fileVars == <<installed, backup>>
handlerVars == <<handler, asks>>
helperVars == <<helper, version, target>>
vars == <<running, fileVars, request, status, handlerVars, helperVars, faults,
          before, outcome, spoiled, late, astray>>

Init ==
    /\ running = 1 /\ installed = [t \in Targets |-> 1] /\ backup = [t \in Targets |-> 0]
    /\ request = None /\ status = "idle"
    /\ handler = [h \in Handlers |-> "idle"] /\ asks = [h \in Handlers |-> 0]
    /\ helper = "off" /\ version = 0 /\ target = 1 /\ faults = 0
    /\ before = installed /\ outcome = "none" /\ spoiled = FALSE /\ late = FALSE
    /\ astray = FALSE

Fault == faults < MaxFaults /\ faults' = faults + 1

Unfinished == {"queued", "downloading", "installing", "restarting"}

-----------------------------------------------------------------------------
\* RequestUpdate.

\* The status is read, then GitHub is asked whether the release exists; the version must be
\* newer than the one that answers.
CheckStatus(h, v) ==
    /\ running # 0 /\ handler[h] = "idle"
    /\ status \notin Unfinished /\ v > running
    /\ handler' = [handler EXCEPT ![h] = "checked"] /\ asks' = [asks EXCEPT ![h] = v]
    /\ UNCHANGED <<running, fileVars, request, status, helperVars, faults,
                   before, outcome, spoiled, late, astray>>

WriteRequest(h) ==
    /\ handler[h] = "checked"
    /\ request' = asks[h]
    /\ handler' = [handler EXCEPT ![h] = "asked"]
    /\ UNCHANGED <<running, fileVars, status, asks, helperVars, faults,
                   before, outcome, spoiled, late, astray>>

\* The helper may have claimed the request by now, and even be done with it.
WriteQueued(h) ==
    /\ handler[h] = "asked"
    /\ status' = "queued" /\ late' = (late \/ request = None)
    /\ handler' = [handler EXCEPT ![h] = "idle"] /\ asks' = [asks EXCEPT ![h] = 0]
    /\ UNCHANGED <<running, fileVars, request, helperVars, faults,
                   before, outcome, spoiled, astray>>

\* A lookup or a write fails: the request is answered with an error.
AbandonRequest(h) ==
    /\ handler[h] # "idle"
    /\ handler' = [handler EXCEPT ![h] = "idle"] /\ asks' = [asks EXCEPT ![h] = 0]
    /\ UNCHANGED <<running, fileVars, request, status, helperVars, faults,
                   before, outcome, spoiled, late, astray>>

-----------------------------------------------------------------------------
\* The service.

\* A process that stops takes its handlers with it.
Run(v) ==
    /\ running' = v
    /\ handler' = [h \in Handlers |-> "idle"] /\ asks' = [h \in Handlers |-> 0]

ControllerStops ==
    /\ running # 0 /\ Run(0)
    /\ UNCHANGED <<fileVars, request, status, helperVars, faults,
                   before, outcome, spoiled, late, astray>>

\* Restart=always.
ControllerStarts ==
    /\ running = 0 /\ Run(installed[1])
    /\ astray' = (helper # "off")
    /\ UNCHANGED <<fileVars, request, status, helperVars, faults, before, outcome, spoiled, late>>

-----------------------------------------------------------------------------
\* ApplyControllerUpdate.

\* setStatus ignores the error of its write.
SetStatus(s) ==
    \/ status' = s /\ UNCHANGED <<late, faults>>
    \/ Fault /\ late' = TRUE /\ UNCHANGED status

End(o) == helper' = "off" /\ version' = 0 /\ target' = 1 /\ outcome' = o

\* Mutant of Fail: an error ends the helper without a status.
FailSilently == UNCHANGED <<status, late, faults>> /\ End("failed")

\* The deferred status of every error after the request is accepted.
Fail == SetStatus("failed") /\ End("failed")

\* systemd starts the helper, which renames the request to processing.json.
Claim ==
    /\ helper = "off" /\ request # None
    /\ helper' = "claimed" /\ version' = request /\ request' = None
    /\ before' = installed /\ outcome' = "none"
    /\ UNCHANGED <<running, fileVars, status, handlerVars, target, faults, spoiled, late, astray>>

\* It cannot read the request or does not accept it, before a failure is reported at all.
RejectRequest ==
    /\ helper = "claimed" /\ Fault
    /\ End("failed") /\ late' = TRUE
    /\ UNCHANGED <<running, fileVars, request, status, handlerVars, before, spoiled, astray>>

StartDownload ==
    /\ helper = "claimed"
    /\ SetStatus("downloading") /\ helper' = "download"
    /\ UNCHANGED <<running, fileVars, request, handlerVars, version, target,
                   before, outcome, spoiled, astray>>

DownloadFails ==
    /\ helper = "download" /\ Fail
    /\ UNCHANGED <<running, fileVars, request, handlerVars, before, spoiled, astray>>

\* The three assets are verified; the backup directory starts empty.
Downloaded ==
    /\ helper = "download"
    /\ SetStatus("installing") /\ helper' = "backup"
    /\ backup' = [t \in Targets |-> 0]
    /\ UNCHANGED <<running, installed, request, handlerVars, version, target,
                   before, outcome, spoiled, astray>>

BackupFile ==
    /\ helper = "backup"
    /\ backup' = [backup EXCEPT ![target] = installed[target]]
    /\ helper' = "install"
    /\ UNCHANGED <<running, installed, request, status, handlerVars, version, target, faults,
                   before, outcome, spoiled, late, astray>>

\* Mutant of LastTarget: the loop does not end with the last file.
LastTargetMissed == 4

LastTarget == 3

\* The files replaced so far stay replaced.
BackupFails ==
    /\ helper = "backup" /\ faults < MaxFaults
    /\ status' = "failed" /\ faults' = faults + 1 /\ UNCHANGED late
    /\ End("failed")
    /\ spoiled' = (spoiled \/ target > 1)
    /\ UNCHANGED <<running, fileVars, request, handlerVars, before, astray>>

InstallFile ==
    /\ helper = "install"
    /\ installed' = [installed EXCEPT ![target] = version]
    /\ IF target = LastTarget
       THEN SetStatus("restarting") /\ helper' = "restart" /\ UNCHANGED target
       ELSE helper' = "backup" /\ target' = target + 1 /\ UNCHANGED <<status, late, faults>>
    /\ UNCHANGED <<running, backup, request, handlerVars, version,
                   before, outcome, spoiled, astray>>

\* Mutant of InstallFails: the error is returned without undoing anything.
InstallFailsUndoes ==
    /\ helper = "install" /\ Fault
    /\ helper' = "undo" /\ target' = 0
    /\ UNCHANGED <<running, fileVars, request, status, handlerVars, version,
                   before, outcome, spoiled, late, astray>>

InstallFails ==
    /\ helper = "install" /\ Fault
    /\ helper' = "undo" /\ target' = target - 1
    /\ UNCHANGED <<running, fileVars, request, status, handlerVars, version,
                   before, outcome, spoiled, late, astray>>

Restart ==
    /\ helper = "restart" /\ Run(installed[1])
    /\ helper' = "health" /\ astray' = FALSE
    /\ UNCHANGED <<fileVars, request, status, version, target, faults,
                   before, outcome, spoiled, late>>

\* systemctl fails or is given up on, whatever it has done.
RestartFails ==
    /\ helper = "restart" /\ Fault
    /\ helper' = "revert"
    /\ UNCHANGED <<running, handlerVars>> \/ Run(0) \/ Run(installed[1])
    /\ UNCHANGED <<fileVars, request, status, version, target,
                   before, outcome, spoiled, late, astray>>

\* /healthz answers with the new version.
Complete ==
    /\ helper = "health" /\ running = version
    /\ SetStatus("completed") /\ End("completed")
    /\ spoiled' = FALSE
    /\ UNCHANGED <<running, fileVars, request, handlerVars, before, astray>>

\* 40 s without that answer, or the helper's five minutes are over.
Unhealthy ==
    /\ helper = "health"
    /\ helper' = "revert"
    /\ UNCHANGED <<running, fileVars, request, status, handlerVars, version, target, faults,
                   before, outcome, spoiled, late, astray>>

\* rollbackFiles, from the last file replaced to the first; it goes on when one fails.
RollbackFile ==
    /\ helper \in {"undo", "revert"} /\ target > 0
    /\ target' = target - 1
    /\ \/ installed' = [installed EXCEPT ![target] = backup[target]]
          /\ UNCHANGED <<faults, spoiled>>
       \/ Fault /\ spoiled' = TRUE /\ UNCHANGED installed
    /\ UNCHANGED <<running, backup, request, status, handlerVars, helper, version,
                   before, outcome, late, astray>>

UndoEnds ==
    /\ helper = "undo" /\ target = 0 /\ Fail
    /\ UNCHANGED <<running, fileVars, request, handlerVars, before, spoiled, astray>>

\* Mutant of RestartOld: the old controller is put back and not started.
RestartOldSkipped == UNCHANGED <<running, handlerVars, spoiled, astray>>

RestartOld == Run(installed[1]) /\ astray' = FALSE /\ UNCHANGED spoiled

\* The old version is started again; nobody looks whether that worked.
RevertEnds ==
    /\ helper = "revert" /\ target = 0
    /\ \/ RestartOld /\ Fail
       \/ /\ faults < MaxFaults /\ faults' = faults + 1 /\ spoiled' = TRUE
          /\ status' = "failed" /\ UNCHANGED <<running, handlerVars, late, astray>>
          /\ End("failed")
    /\ UNCHANGED <<fileVars, request, before>>

KillHelper ==
    /\ helper # "off" /\ Fault
    /\ End("killed") /\ spoiled' = TRUE /\ late' = TRUE
    /\ UNCHANGED <<running, fileVars, request, status, handlerVars, before, astray>>

-----------------------------------------------------------------------------
Next ==
    \/ \E h \in Handlers :
          \/ \E v \in Versions : CheckStatus(h, v)
          \/ WriteRequest(h) \/ WriteQueued(h) \/ AbandonRequest(h)
    \/ ControllerStops \/ ControllerStarts
    \/ Claim \/ RejectRequest \/ StartDownload \/ DownloadFails \/ Downloaded
    \/ BackupFile \/ BackupFails \/ InstallFile \/ InstallFails
    \/ Restart \/ RestartFails \/ Complete \/ Unhealthy
    \/ RollbackFile \/ UndoEnds \/ RevertEnds \/ KillHelper

Spec == Init /\ [][Next]_vars

-----------------------------------------------------------------------------
Helping == {"claimed", "download", "backup", "install", "restart", "health", "undo", "revert"}

TypeOK ==
    /\ running \in Versions \cup {0}
    /\ installed \in [Targets -> Versions] /\ backup \in [Targets -> Versions \cup {0}]
    /\ request \in Versions \cup {None}
    /\ status \in Unfinished \cup {"idle", "completed", "failed"}
    /\ handler \in [Handlers -> {"idle", "checked", "asked"}]
    /\ asks \in [Handlers -> Versions \cup {0}]
    /\ \A h \in Handlers : asks[h] = 0 <=> handler[h] = "idle"
    /\ helper \in Helping \cup {"off"} /\ version \in Versions \cup {0} /\ target \in 0..3
    /\ version = 0 <=> helper = "off"
    /\ faults \in 0..MaxFaults /\ before \in [Targets -> Versions]
    /\ outcome \in {"none", "completed", "failed", "killed"}
    /\ spoiled \in BOOLEAN /\ late \in BOOLEAN /\ astray \in BOOLEAN

\* A helper that ended by itself leaves three files of one version, and those it found if it
\* failed, unless a backup failed after the first file or a step that undoes did
\* (apply.go:119, 134, 139).
AllOrNothing ==
    helper = "off" /\ ~spoiled =>
        /\ \A t, u \in Targets : installed[t] = installed[u]
        /\ outcome = "failed" => installed = before

\* A controller that runs when the helper has ended is the installed one (apply.go:135, 140),
\* unless it came up by itself on a file that was then put back without a restart.
InstalledRuns ==
    helper = "off" /\ ~spoiled /\ ~astray /\ running # 0 => running = installed[1]

\* An update is in progress for ever, and every later one refused, only after a status came
\* late or was lost: "queued" written after the helper had claimed the request, a request the
\* helper rejects silently, a helper that is killed (manager.go:81, 117; apply.go:37).
StuckExplained ==
    status \in Unfinished /\ helper = "off" /\ request = None => late

=============================================================================
