-------------------------- MODULE AgentUpdateProofs --------------------------
(***************************************************************************)
(* Proofs about AgentUpdate: its type invariant and what a helper that     *)
(* ended by itself leaves behind, for every number of workers, versions    *)
(* and faults.                                                             *)
(***************************************************************************)
EXTENDS AgentUpdate, TLAPS

\* What holds at each place of the helper as long as nothing was spoiled.
Before == {"download", "stop", "backup", "install"}
Stopped == {"backup", "install", "unmark", "start", "undo", "restart"}

\* The binary is the one from before until the installation, the new one after it, and the
\* old one again when a failed helper has only to start the service.
Binary ==
    /\ helper \in Before \cup {"restart"} => installed = before
    /\ helper \in {"install", "unmark", "start", "wait", "undo"} => backup = before

\* The service is down from the helper's stop to its next start, and what runs is what is
\* installed.
Service ==
    /\ IF helper \in Stopped THEN service = "stopped" ELSE service = "up"
    /\ running # 0 => running = installed

\* A marker that the helper finds was written by the process it started.
Marker ==
    /\ helper = "start" => marker = None
    /\ helper = "wait" /\ marker # None => connected

Ended ==
    /\ helper = "off" => processing = None
    /\ helper = "off" /\ outcome = "failed" => installed = before
    /\ helper = "off" /\ outcome = "completed" => connected

Unspoiled == Binary /\ Service /\ Marker /\ Ended
IInv == TypeOK /\ (~spoiled => Unspoiled)

-----------------------------------------------------------------------------
LEMMA InitIInv == Init => IInv
<1> SUFFICES ASSUME Init PROVE IInv
  OBVIOUS
<1> USE UpdateAssumption DEF Init, Versions
<1>1. TypeOK
  <2>1. connected \in BOOLEAN /\ spoiled \in BOOLEAN BY Zenon
  <2>2. CASE marker = None BY <2>1, <2>2 DEF TypeOK
  <2>3. CASE marker = 1 BY <2>1, <2>3 DEF TypeOK
  <2> QED BY <2>2, <2>3
<1>2. Unspoiled BY DEF Unspoiled, Binary, Service, Marker, Ended, Before, Stopped
<1> QED BY <1>1, <1>2 DEF IInv

LEMMA NextTypeOK == TypeOK /\ [Next]_vars => TypeOK'
<1> SUFFICES ASSUME TypeOK, [Next]_vars PROVE TypeOK'
  OBVIOUS
<1> USE UpdateAssumption DEF TypeOK, Versions, fileVars, workerVars, historyVars
<1>1. ASSUME NEW v \in Versions, ControllerChanges(v) PROVE TypeOK'
  BY <1>1 DEF ControllerChanges
<1>2. ASSUME NEW w \in Workers, NEW v \in Versions, TakeCommand(w, v) PROVE TypeOK'
  BY <1>2 DEF TakeCommand
<1>3. ASSUME NEW w \in Workers, LookForRequest(w) PROVE TypeOK'
  BY <1>3 DEF LookForRequest, Look, Refuse
<1>4. ASSUME NEW w \in Workers, LookForProcessing(w) PROVE TypeOK'
  BY <1>4 DEF LookForProcessing, Look, Refuse
<1>5. ASSUME NEW w \in Workers, WriteRequest(w) PROVE TypeOK'
  BY <1>5 DEF WriteRequest, Refuse
<1>6. CASE AgentConnects BY <1>6 DEF AgentConnects
<1>7. CASE AgentStops BY <1>7 DEF AgentStops, Run
<1>8. CASE AgentRestarts BY <1>8 DEF AgentRestarts, Run
<1>9. CASE Claim BY <1>9 DEF Claim
<1>10. CASE DownloadFails BY <1>10 DEF DownloadFails, End
<1>11. CASE Downloaded BY <1>11 DEF Downloaded
<1>12. CASE Stop BY <1>12 DEF Stop, Run
<1>13. CASE StopFails
  <2>1. CASE UNCHANGED <<running, service, workerVars, spoiled>>
    BY <1>13, <2>1 DEF StopFails, Fault, End
  <2>2. CASE service' = "stopped" /\ Run(0) /\ spoiled' = TRUE
    BY <1>13, <2>2 DEF StopFails, Fault, Run, End
  <2> QED BY <1>13, <2>1, <2>2 DEF StopFails
<1>14. CASE Backup BY <1>14 DEF Backup
<1>15. CASE Install BY <1>15 DEF Install
<1>16. CASE CopyFails BY <1>16 DEF CopyFails, Fault
<1>17. CASE Unmark
  <2>1. CASE marker' = None /\ UNCHANGED <<spoiled, faults>> BY <1>17, <2>1 DEF Unmark
  <2>2. CASE Fault /\ spoiled' = TRUE /\ UNCHANGED marker BY <1>17, <2>2 DEF Unmark, Fault
  <2> QED BY <1>17, <2>1, <2>2 DEF Unmark, RemoveMarker
<1>18. CASE Start
  <2>1. CASE service = "stopped" BY <1>18, <2>1 DEF Start, StartService, Run
  <2>2. CASE service # "stopped" BY <1>18, <2>2 DEF Start, StartService
  <2> QED BY <2>1, <2>2
<1>19. CASE StartFails
  <2>1. CASE StartService /\ spoiled' = TRUE
    <3>1. CASE service = "stopped"
      <4>1. Run(installed) /\ connected' = FALSE BY <2>1, <3>1 DEF StartService
      <4>2. connected' \in BOOLEAN /\ spoiled' \in BOOLEAN BY <2>1, <4>1, Zenon
      <4>3. service' = "up" BY <2>1 DEF StartService
      <4> QED BY <1>19, <4>1, <4>2, <4>3 DEF StartFails, Run, Fault
    <3>2. CASE service # "stopped" BY <1>19, <2>1, <3>2 DEF StartFails, StartService, Fault
    <3> QED BY <3>1, <3>2
  <2>2. CASE UNCHANGED <<service, running, workerVars, connected, spoiled>>
    BY <1>19, <2>2 DEF StartFails, Fault
  <2> QED BY <1>19, <2>1, <2>2 DEF StartFails
<1>20. CASE Healthy BY <1>20 DEF Healthy, End
<1>21. CASE Unhealthy
  <2>1. CASE service' = "stopped" /\ Run(0) /\ UNCHANGED <<faults, spoiled>>
    BY <1>21, <2>1 DEF Unhealthy, Run
  <2>2. CASE Fault /\ spoiled' = TRUE /\ UNCHANGED <<running, service, workerVars>>
    BY <1>21, <2>2 DEF Unhealthy, Fault
  <2> QED BY <1>21, <2>1, <2>2 DEF Unhealthy
<1>22. CASE Undo
  <2>1. CASE installed' = backup /\ UNCHANGED <<faults, spoiled>> BY <1>22, <2>1 DEF Undo
  <2>2. CASE Fault /\ spoiled' = TRUE /\ UNCHANGED installed BY <1>22, <2>2 DEF Undo, Fault
  <2> QED BY <1>22, <2>1, <2>2 DEF Undo
<1>23. CASE Restart
  <2>1. CASE StartService /\ UNCHANGED <<faults, spoiled>>
    BY <1>23, <2>1 DEF Restart, End, StartService, Run
  <2>2. CASE Fault /\ spoiled' = TRUE /\ UNCHANGED <<service, running, workerVars, connected>>
    BY <1>23, <2>2 DEF Restart, End, Fault
  <2> QED BY <1>23, <2>1, <2>2 DEF Restart
<1>24. CASE KillHelper BY <1>24 DEF KillHelper, Fault
<1>25. CASE Reboot BY <1>25 DEF Reboot, Fault, Run
<1>26. CASE UNCHANGED vars BY <1>26 DEF vars
<1> QED
  BY <1>1, <1>2, <1>3, <1>4, <1>5, <1>6, <1>7, <1>8, <1>9, <1>10, <1>11, <1>12, <1>13, <1>14, <1>15,
     <1>16, <1>17, <1>18, <1>19, <1>20, <1>21, <1>22, <1>23, <1>24, <1>25, <1>26 DEF Next, HelperStep

LEMMA NextUnspoiled == IInv /\ [Next]_vars => (~spoiled' => Unspoiled')
<1> SUFFICES ASSUME IInv, [Next]_vars, ~spoiled' PROVE Unspoiled'
  OBVIOUS
<1> USE UpdateAssumption
    DEF IInv, TypeOK, Unspoiled, Binary, Service, Marker, Ended, Before, Stopped, Versions,
        fileVars, workerVars, historyVars
<1>1. ASSUME NEW v \in Versions, ControllerChanges(v) PROVE Unspoiled'
  BY <1>1 DEF ControllerChanges
<1>2. ASSUME NEW w \in Workers, NEW v \in Versions, TakeCommand(w, v) PROVE Unspoiled'
  BY <1>2 DEF TakeCommand
<1>3. ASSUME NEW w \in Workers, LookForRequest(w) PROVE Unspoiled'
  BY <1>3 DEF LookForRequest, Look
<1>4. ASSUME NEW w \in Workers, LookForProcessing(w) PROVE Unspoiled'
  BY <1>4 DEF LookForProcessing, Look
<1>5. ASSUME NEW w \in Workers, WriteRequest(w) PROVE Unspoiled'
  BY <1>5 DEF WriteRequest
<1>6. CASE AgentConnects BY <1>6 DEF AgentConnects
<1>7. CASE AgentStops BY <1>7 DEF AgentStops, Run
<1>8. CASE AgentRestarts BY <1>8 DEF AgentRestarts, Run
<1>9. CASE Claim BY <1>9 DEF Claim
<1>10. CASE DownloadFails BY <1>10 DEF DownloadFails, End
<1>11. CASE Downloaded BY <1>11 DEF Downloaded
<1>12. CASE Stop BY <1>12 DEF Stop, Run
<1>13. CASE StopFails BY <1>13 DEF StopFails, Fault, Run, End
<1>14. CASE Backup BY <1>14 DEF Backup
<1>15. CASE Install BY <1>15 DEF Install
<1>16. CASE CopyFails BY <1>16 DEF CopyFails
<1>17. CASE Unmark BY <1>17 DEF Unmark, RemoveMarker
<1>18. CASE Start BY <1>18 DEF Start, StartService, Run
<1>19. CASE StartFails BY <1>19 DEF StartFails, StartService, Run
<1>20. CASE Healthy BY <1>20 DEF Healthy, End
<1>21. CASE Unhealthy BY <1>21 DEF Unhealthy, Run
<1>22. CASE Undo BY <1>22 DEF Undo
<1>23. CASE Restart BY <1>23 DEF Restart, End, StartService, Run
<1>24. CASE KillHelper BY <1>24 DEF KillHelper
<1>25. CASE Reboot BY <1>25 DEF Reboot, Run
<1>26. CASE UNCHANGED vars BY <1>26 DEF vars
<1> QED
  BY <1>1, <1>2, <1>3, <1>4, <1>5, <1>6, <1>7, <1>8, <1>9, <1>10, <1>11, <1>12, <1>13, <1>14, <1>15,
     <1>16, <1>17, <1>18, <1>19, <1>20, <1>21, <1>22, <1>23, <1>24, <1>25, <1>26 DEF Next, HelperStep

LEMMA NextIInv == IInv /\ [Next]_vars => IInv'
  BY NextTypeOK, NextUnspoiled DEF IInv

-----------------------------------------------------------------------------
\* Every variable keeps its type, the service is never stopped with the Agent running, and
\* the helper has a request and, past the backup, a complete backup (ApplyAgentUpdate).
THEOREM AgentUpdateTypeCorrect == Spec => []TypeOK
<1>1. Init => IInv BY InitIInv
<1>2. IInv /\ [Next]_vars => IInv' BY NextIInv
<1>3. IInv => TypeOK BY DEF IInv
<1> QED BY <1>1, <1>2, <1>3, PTL DEF Spec

\* A helper that ended by itself leaves a running Agent of the right version and nothing
\* that blocks the next update (ApplyAgentUpdate), whatever releases, requests, stops and
\* failures of its copies fell into its steps.
THEOREM EndsClean == Spec => []CleanEnd
<1>1. Init => IInv BY InitIInv
<1>2. IInv /\ [Next]_vars => IInv' BY NextIInv
<1>3. IInv => CleanEnd
  BY DEF IInv, Unspoiled, Service, Ended, CleanEnd, Stopped
<1> QED BY <1>1, <1>2, <1>3, PTL DEF Spec
=============================================================================
