------------------------ MODULE ControllerUpdateProofs ------------------------
(***************************************************************************)
(* Proofs about ControllerUpdate, for every set of administrators and      *)
(* every number of releases and faults.                                    *)
(*                                                                         *)
(* What the runs check is not inductive: it speaks of a helper that has    *)
(* ended.  The inductive invariant IInv follows the three files through    *)
(* its loop: those before the target are replaced and have their old       *)
(* version in the backup, those after it are as the helper found them, and *)
(* on the way back it is the other way round (Files).  Until it restarts   *)
(* the controller, the process that runs is the one from before (Process). *)
(***************************************************************************)
EXTENDS ControllerUpdate, TLAPS

HistoryTypes == spoiled \in BOOLEAN /\ late \in BOOLEAN /\ astray \in BOOLEAN

Uniform(files) == \A t, u \in Targets : files[t] = files[u]

\* The files before n are replaced; those before m are backed up.
Replaced(n, m) ==
    /\ \A t \in Targets : IF t < n THEN installed[t] = version ELSE installed[t] = before[t]
    /\ \A t \in Targets : t < m => backup[t] = before[t]

Undone ==
    \A t \in Targets : IF t <= target THEN backup[t] = before[t]
                                      ELSE spoiled \/ installed[t] = before[t]

\* What the helper has done to the files (ApplyControllerUpdate's loop, rollbackFiles).
Files ==
    /\ helper \in {"claimed", "download"} => target = 1 /\ Replaced(1, 1)
    /\ helper = "backup" => target \in Targets /\ Replaced(target, target)
    /\ helper = "install" => target \in Targets /\ Replaced(target, target + 1)
    /\ helper \in {"restart", "health"} => target = 3 /\ Replaced(4, 4)
    /\ helper \in {"undo", "revert"} => Undone
    /\ helper = "off" => target = 1
    /\ ~spoiled => /\ helper # "off" => Uniform(before)
                   /\ helper = "off" => /\ Uniform(installed)
                                        /\ outcome = "failed" => installed = before

\* Which controller runs until the helper restarts it.
Process ==
    ~spoiled /\ ~astray /\ running # 0 =>
        /\ helper = "off" => running = installed[1]
        /\ helper \in {"claimed", "download", "backup", "install", "undo"} => running = before[1]

IInv == TypeOK /\ Files /\ Process /\ StuckExplained

-----------------------------------------------------------------------------
LEMMA InitIInv == Init => IInv
<1> SUFFICES ASSUME Init PROVE IInv
  OBVIOUS
<1>1. spoiled \in BOOLEAN /\ late \in BOOLEAN /\ astray \in BOOLEAN
  BY Zenon DEF Init
<1>2. TypeOK
  BY <1>1, UpdateAssumption DEF Init, TypeOK, Versions, Targets, Unfinished, Helping
<1>3. Files
  BY DEF Init, Files, Replaced, Undone, Uniform, Targets
<1>4. Process /\ StuckExplained
  BY DEF Init, Process, StuckExplained, Targets, Unfinished
<1> QED BY <1>2, <1>3, <1>4 DEF IInv

\* An end without a status is one that was lost (Fail, the helper's silent returns).
LEMMA NextStuck ==
  ASSUME TypeOK, StuckExplained, [Next]_vars
  PROVE  StuckExplained'
<1> USE DEF fileVars, handlerVars, helperVars, StuckExplained, Unfinished
<1>1. ASSUME NEW h \in Handlers, NEW v \in Versions, CheckStatus(h, v) PROVE StuckExplained'
  BY <1>1 DEF CheckStatus
<1>2. ASSUME NEW h \in Handlers, WriteRequest(h) PROVE StuckExplained'
  <2>1. asks[h] # None BY <1>2, UpdateAssumption DEF WriteRequest, TypeOK, Versions
  <2> QED BY <2>1, <1>2 DEF WriteRequest, StuckExplained, Unfinished
<1>3. ASSUME NEW h \in Handlers, WriteQueued(h) PROVE StuckExplained'
  BY <1>3 DEF WriteQueued
<1>4. ASSUME NEW h \in Handlers, AbandonRequest(h) PROVE StuckExplained'
  BY <1>4 DEF AbandonRequest
<1>5. ASSUME ControllerStops PROVE StuckExplained'
  BY <1>5 DEF ControllerStops, Run
<1>6. ASSUME ControllerStarts PROVE StuckExplained'
  BY <1>6 DEF ControllerStarts, Run
<1>7. ASSUME Claim PROVE StuckExplained'
  BY <1>7 DEF Claim
<1>8. ASSUME RejectRequest PROVE StuckExplained'
  BY <1>8 DEF RejectRequest, End, Fault
<1>9. ASSUME StartDownload PROVE StuckExplained'
  BY <1>9 DEF StartDownload, SetStatus, Fault
<1>10. ASSUME DownloadFails PROVE StuckExplained'
  BY <1>10 DEF DownloadFails, Fail, SetStatus, End, Fault
<1>11. ASSUME Downloaded PROVE StuckExplained'
  BY <1>11 DEF Downloaded, SetStatus, Fault
<1>12. ASSUME BackupFile PROVE StuckExplained'
  BY <1>12 DEF BackupFile
<1>13. ASSUME BackupFails PROVE StuckExplained'
  BY <1>13 DEF BackupFails, End
<1>14. ASSUME InstallFile PROVE StuckExplained'
  BY <1>14 DEF InstallFile, SetStatus, LastTarget, Fault
<1>15. ASSUME InstallFails PROVE StuckExplained'
  BY <1>15 DEF InstallFails, Fault
<1>16. ASSUME Restart PROVE StuckExplained'
  BY <1>16 DEF Restart, Run
<1>17. ASSUME RestartFails PROVE StuckExplained'
  BY <1>17 DEF RestartFails, Run, Fault
<1>18. ASSUME Complete PROVE StuckExplained'
  BY <1>18 DEF Complete, SetStatus, End, Fault
<1>19. ASSUME Unhealthy PROVE StuckExplained'
  BY <1>19 DEF Unhealthy
<1>20. ASSUME RollbackFile PROVE StuckExplained'
  BY <1>20 DEF RollbackFile, Fault
<1>21. ASSUME UndoEnds PROVE StuckExplained'
  BY <1>21 DEF UndoEnds, Fail, SetStatus, End, Fault
<1>22. ASSUME RevertEnds PROVE StuckExplained'
  BY <1>22 DEF RevertEnds, RestartOld, Run, Fail, SetStatus, End, Fault
<1>23. ASSUME KillHelper PROVE StuckExplained'
  BY <1>23 DEF KillHelper, End, Fault
<1>24. CASE UNCHANGED vars BY <1>24 DEF vars
<1> QED BY <1>1, <1>2, <1>3, <1>4, <1>5, <1>6, <1>7, <1>8, <1>9, <1>10, <1>11, <1>12, <1>13,
     <1>14, <1>15, <1>16, <1>17, <1>18, <1>19, <1>20, <1>21, <1>22, <1>23, <1>24 DEF Next

\* The history is made of truth values.
LEMMA NextBooleans ==
  ASSUME TypeOK, [Next]_vars
  PROVE  HistoryTypes'
<1> USE DEF HistoryTypes
<1> spoiled \in BOOLEAN /\ late \in BOOLEAN /\ astray \in BOOLEAN
  BY DEF TypeOK
<1>1. ASSUME NEW h \in Handlers, NEW v \in Versions, CheckStatus(h, v) PROVE HistoryTypes'
  BY <1>1, Zenon DEF CheckStatus
<1>2. ASSUME NEW h \in Handlers, WriteRequest(h) PROVE HistoryTypes'
  BY <1>2, Zenon DEF WriteRequest
<1>3. ASSUME NEW h \in Handlers, WriteQueued(h) PROVE HistoryTypes'
  BY <1>3, Zenon DEF WriteQueued
<1>4. ASSUME NEW h \in Handlers, AbandonRequest(h) PROVE HistoryTypes'
  BY <1>4, Zenon DEF AbandonRequest
<1>5. ASSUME ControllerStops PROVE HistoryTypes'
  BY <1>5, Zenon DEF ControllerStops, Run
<1>6. ASSUME ControllerStarts PROVE HistoryTypes'
  BY <1>6, Zenon DEF ControllerStarts, Run
<1>7. ASSUME Claim PROVE HistoryTypes'
  BY <1>7, Zenon DEF Claim
<1>8. ASSUME RejectRequest PROVE HistoryTypes'
  BY <1>8, Zenon DEF RejectRequest, End, Fault
<1>9. ASSUME StartDownload PROVE HistoryTypes'
  BY <1>9, Zenon DEF StartDownload, SetStatus, Fault
<1>10. ASSUME DownloadFails PROVE HistoryTypes'
  BY <1>10, Zenon DEF DownloadFails, Fail, SetStatus, End, Fault
<1>11. ASSUME Downloaded PROVE HistoryTypes'
  BY <1>11, Zenon DEF Downloaded, SetStatus, Fault
<1>12. ASSUME BackupFile PROVE HistoryTypes'
  BY <1>12, Zenon DEF BackupFile
<1>13. ASSUME BackupFails PROVE HistoryTypes'
  BY <1>13, Zenon DEF BackupFails, End
<1>14. ASSUME InstallFile PROVE HistoryTypes'
  BY <1>14, Zenon DEF InstallFile, SetStatus, LastTarget, Fault
<1>15. ASSUME InstallFails PROVE HistoryTypes'
  BY <1>15, Zenon DEF InstallFails, Fault
<1>16. ASSUME Restart PROVE HistoryTypes'
  BY <1>16, Zenon DEF Restart, Run
<1>17. ASSUME RestartFails PROVE HistoryTypes'
  BY <1>17, Zenon DEF RestartFails, Run, Fault
<1>18. ASSUME Complete PROVE HistoryTypes'
  BY <1>18, Zenon DEF Complete, SetStatus, End, Fault
<1>19. ASSUME Unhealthy PROVE HistoryTypes'
  BY <1>19, Zenon DEF Unhealthy
<1>20. ASSUME RollbackFile PROVE HistoryTypes'
  BY <1>20, Zenon DEF RollbackFile, Fault
<1>21. ASSUME UndoEnds PROVE HistoryTypes'
  BY <1>21, Zenon DEF UndoEnds, Fail, SetStatus, End, Fault
<1>22. ASSUME RevertEnds PROVE HistoryTypes'
  BY <1>22, Zenon DEF RevertEnds, RestartOld, Run, Fail, SetStatus, End, Fault
<1>23. ASSUME KillHelper PROVE HistoryTypes'
  BY <1>23, Zenon DEF KillHelper, End, Fault
<1>24. CASE UNCHANGED vars BY <1>24 DEF vars
<1> QED BY <1>1, <1>2, <1>3, <1>4, <1>5, <1>6, <1>7, <1>8, <1>9, <1>10, <1>11, <1>12, <1>13,
     <1>14, <1>15, <1>16, <1>17, <1>18, <1>19, <1>20, <1>21, <1>22, <1>23, <1>24 DEF Next

\* The backup of a file that is rolled back is a version (Undone).
LEMMA NextTypeOK ==
  ASSUME TypeOK, Files, [Next]_vars
  PROVE  TypeOK'
<1> USE UpdateAssumption DEF fileVars, handlerVars, helperVars, TypeOK, HistoryTypes,
        Versions, Targets, Unfinished, Helping
<1> HistoryTypes'
  BY NextBooleans
<1>1. ASSUME NEW h \in Handlers, NEW v \in Versions, CheckStatus(h, v) PROVE TypeOK'
  BY <1>1 DEF CheckStatus
<1>2. ASSUME NEW h \in Handlers, WriteRequest(h) PROVE TypeOK'
  BY <1>2 DEF WriteRequest
<1>3. ASSUME NEW h \in Handlers, WriteQueued(h) PROVE TypeOK'
  BY <1>3 DEF WriteQueued
<1>4. ASSUME NEW h \in Handlers, AbandonRequest(h) PROVE TypeOK'
  BY <1>4 DEF AbandonRequest
<1>5. ASSUME ControllerStops PROVE TypeOK'
  BY <1>5 DEF ControllerStops, Run
<1>6. ASSUME ControllerStarts PROVE TypeOK'
  BY <1>6 DEF ControllerStarts, Run
<1>7. ASSUME Claim PROVE TypeOK'
  BY <1>7 DEF Claim
<1>8. ASSUME RejectRequest PROVE TypeOK'
  BY <1>8 DEF RejectRequest, End, Fault
<1>9. ASSUME StartDownload PROVE TypeOK'
  BY <1>9 DEF StartDownload, SetStatus, Fault
<1>10. ASSUME DownloadFails PROVE TypeOK'
  BY <1>10 DEF DownloadFails, Fail, SetStatus, End, Fault
<1>11. ASSUME Downloaded PROVE TypeOK'
  BY <1>11 DEF Downloaded, SetStatus, Fault
<1>12. ASSUME BackupFile PROVE TypeOK'
  BY <1>12 DEF BackupFile
<1>13. ASSUME BackupFails PROVE TypeOK'
  BY <1>13 DEF BackupFails, End
<1>14. ASSUME InstallFile PROVE TypeOK'
  <2>1. target \in Targets BY <1>14 DEF InstallFile, Files
  <2>2. installed' \in [Targets -> Versions] /\ target' \in 0..3
    BY <2>1, <1>14 DEF InstallFile, LastTarget, TypeOK, Versions, Targets
  <2>3. faults' \in 0..MaxFaults /\ status' \in Unfinished \cup {"idle", "completed", "failed"}
    BY <1>14 DEF InstallFile, SetStatus, Fault, TypeOK, Unfinished
  <2> QED BY <2>2, <2>3, <1>14 DEF InstallFile, fileVars, handlerVars, TypeOK, Helping
<1>15. ASSUME InstallFails PROVE TypeOK'
  <2>1. target \in Targets BY <1>15 DEF InstallFails, Files
  <2> QED BY <2>1, <1>15 DEF InstallFails, Fault, fileVars, handlerVars, TypeOK, Targets, Helping
<1>16. ASSUME Restart PROVE TypeOK'
  BY <1>16 DEF Restart, Run
<1>17. ASSUME RestartFails PROVE TypeOK'
  BY <1>17 DEF RestartFails, Run, Fault
<1>18. ASSUME Complete PROVE TypeOK'
  BY <1>18 DEF Complete, SetStatus, End, Fault
<1>19. ASSUME Unhealthy PROVE TypeOK'
  BY <1>19 DEF Unhealthy
<1>20. ASSUME RollbackFile PROVE TypeOK'
  <2>1. target \in Targets BY <1>20 DEF RollbackFile, TypeOK, Targets
  <2>2. backup[target] \in Versions BY <2>1, <1>20 DEF RollbackFile, Files, Undone, TypeOK
  <2>3. installed' \in [Targets -> Versions] BY <2>2, <1>20 DEF RollbackFile, TypeOK
  <2>4. target' \in 0..3 BY <2>1, <1>20 DEF RollbackFile, Targets
  <2>5. faults' \in 0..MaxFaults BY <1>20 DEF RollbackFile, Fault, TypeOK
  <2> QED BY <2>3, <2>4, <2>5, <1>20 DEF RollbackFile, handlerVars, TypeOK
<1>21. ASSUME UndoEnds PROVE TypeOK'
  BY <1>21 DEF UndoEnds, Fail, SetStatus, End, Fault
<1>22. ASSUME RevertEnds PROVE TypeOK'
  BY <1>22 DEF RevertEnds, RestartOld, Run, Fail, SetStatus, End, Fault
<1>23. ASSUME KillHelper PROVE TypeOK'
  BY <1>23 DEF KillHelper, End, Fault
<1>24. CASE UNCHANGED vars BY <1>24 DEF vars
<1> QED BY <1>1, <1>2, <1>3, <1>4, <1>5, <1>6, <1>7, <1>8, <1>9, <1>10, <1>11, <1>12, <1>13,
     <1>14, <1>15, <1>16, <1>17, <1>18, <1>19, <1>20, <1>21, <1>22, <1>23, <1>24 DEF Next

\* The loop replaces the files one by one, and a failure undoes it from the last to the first.
LEMMA NextFiles ==
  ASSUME TypeOK, Files, [Next]_vars
  PROVE  Files'
<1> USE DEF fileVars, handlerVars, helperVars, TypeOK, Files, Replaced, Undone, Uniform,
        Targets, Helping
<1>1. ASSUME NEW h \in Handlers, NEW v \in Versions, CheckStatus(h, v) PROVE Files'
  BY <1>1 DEF CheckStatus
<1>2. ASSUME NEW h \in Handlers, WriteRequest(h) PROVE Files'
  BY <1>2 DEF WriteRequest
<1>3. ASSUME NEW h \in Handlers, WriteQueued(h) PROVE Files'
  BY <1>3 DEF WriteQueued
<1>4. ASSUME NEW h \in Handlers, AbandonRequest(h) PROVE Files'
  BY <1>4 DEF AbandonRequest
<1>5. ASSUME ControllerStops PROVE Files'
  BY <1>5 DEF ControllerStops, Run
<1>6. ASSUME ControllerStarts PROVE Files'
  BY <1>6 DEF ControllerStarts, Run
<1>7. ASSUME Claim PROVE Files'
  BY <1>7 DEF Claim
<1>8. ASSUME RejectRequest PROVE Files'
  BY <1>8 DEF RejectRequest, End, Fault
<1>9. ASSUME StartDownload PROVE Files'
  BY <1>9 DEF StartDownload, SetStatus, Fault
<1>10. ASSUME DownloadFails PROVE Files'
  BY <1>10 DEF DownloadFails, Fail, SetStatus, End, Fault
<1>11. ASSUME Downloaded PROVE Files'
  BY <1>11 DEF Downloaded, SetStatus, Fault
<1>12. ASSUME BackupFile PROVE Files'
  BY <1>12 DEF BackupFile
<1>13. ASSUME BackupFails PROVE Files'
  <2>1. ~spoiled' => ~spoiled /\ ~(target > 1) BY <1>13, Zenon DEF BackupFails
  <2>2. target \in Targets BY <1>13 DEF BackupFails, Files
  <2>3. ~spoiled' => target = 1 BY <2>1, <2>2 DEF Targets
  <2> QED BY <2>1, <2>2, <2>3, <1>13 DEF BackupFails, End, fileVars, Files, Replaced,
         Uniform, Targets, TypeOK
<1>14. ASSUME InstallFile PROVE Files'
  BY <1>14 DEF InstallFile, SetStatus, LastTarget, Fault
<1>15. ASSUME InstallFails PROVE Files'
  BY <1>15 DEF InstallFails, Fault
<1>16. ASSUME Restart PROVE Files'
  BY <1>16 DEF Restart, Run
<1>17. ASSUME RestartFails PROVE Files'
  BY <1>17 DEF RestartFails, Run, Fault
<1>18. ASSUME Complete PROVE Files'
  BY <1>18 DEF Complete, SetStatus, End, Fault
<1>19. ASSUME Unhealthy PROVE Files'
  BY <1>19 DEF Unhealthy
<1>20. ASSUME RollbackFile PROVE Files'
  BY <1>20 DEF RollbackFile, Fault
<1>21. ASSUME UndoEnds PROVE Files'
  BY <1>21 DEF UndoEnds, Fail, SetStatus, End, Fault
<1>22. ASSUME RevertEnds PROVE Files'
  BY <1>22 DEF RevertEnds, RestartOld, Run, Fail, SetStatus, End, Fault
<1>23. ASSUME KillHelper PROVE Files'
  BY <1>23 DEF KillHelper, End, Fault
<1>24. CASE UNCHANGED vars BY <1>24 DEF vars
<1> QED BY <1>1, <1>2, <1>3, <1>4, <1>5, <1>6, <1>7, <1>8, <1>9, <1>10, <1>11, <1>12, <1>13,
     <1>14, <1>15, <1>16, <1>17, <1>18, <1>19, <1>20, <1>21, <1>22, <1>23, <1>24 DEF Next

\* The process changes with the files (Restart, RestartOld) or by itself, and then astray.
LEMMA NextProcess ==
  ASSUME TypeOK, Files, Process, [Next]_vars
  PROVE  Process'
<1> USE DEF fileVars, handlerVars, helperVars, TypeOK, Files, Process, Replaced, Undone,
        Uniform, Targets, Helping
<1>1. ASSUME NEW h \in Handlers, NEW v \in Versions, CheckStatus(h, v) PROVE Process'
  BY <1>1 DEF CheckStatus
<1>2. ASSUME NEW h \in Handlers, WriteRequest(h) PROVE Process'
  BY <1>2 DEF WriteRequest
<1>3. ASSUME NEW h \in Handlers, WriteQueued(h) PROVE Process'
  BY <1>3 DEF WriteQueued
<1>4. ASSUME NEW h \in Handlers, AbandonRequest(h) PROVE Process'
  BY <1>4 DEF AbandonRequest
<1>5. ASSUME ControllerStops PROVE Process'
  BY <1>5 DEF ControllerStops, Run
<1>6. ASSUME ControllerStarts PROVE Process'
  BY <1>6 DEF ControllerStarts, Run
<1>7. ASSUME Claim PROVE Process'
  BY <1>7 DEF Claim
<1>8. ASSUME RejectRequest PROVE Process'
  BY <1>8 DEF RejectRequest, End, Fault
<1>9. ASSUME StartDownload PROVE Process'
  BY <1>9 DEF StartDownload, SetStatus, Fault
<1>10. ASSUME DownloadFails PROVE Process'
  BY <1>10 DEF DownloadFails, Fail, SetStatus, End, Fault
<1>11. ASSUME Downloaded PROVE Process'
  BY <1>11 DEF Downloaded, SetStatus, Fault
<1>12. ASSUME BackupFile PROVE Process'
  BY <1>12 DEF BackupFile
<1>13. ASSUME BackupFails PROVE Process'
  <2>1. ~spoiled' => ~spoiled /\ ~(target > 1) BY <1>13, Zenon DEF BackupFails
  <2>2. target \in Targets BY <1>13 DEF BackupFails, Files
  <2>3. ~spoiled' => target = 1 BY <2>1, <2>2 DEF Targets
  <2> QED BY <2>1, <2>2, <2>3, <1>13 DEF BackupFails, End, fileVars, Files, Replaced,
         Process, Targets, TypeOK
<1>14. ASSUME InstallFile PROVE Process'
  BY <1>14 DEF InstallFile, SetStatus, LastTarget, Fault
<1>15. ASSUME InstallFails PROVE Process'
  BY <1>15 DEF InstallFails, Fault
<1>16. ASSUME Restart PROVE Process'
  BY <1>16 DEF Restart, Run
<1>17. ASSUME RestartFails PROVE Process'
  BY <1>17 DEF RestartFails, Run, Fault
<1>18. ASSUME Complete PROVE Process'
  BY <1>18 DEF Complete, SetStatus, End, Fault
<1>19. ASSUME Unhealthy PROVE Process'
  BY <1>19 DEF Unhealthy
<1>20. ASSUME RollbackFile PROVE Process'
  BY <1>20 DEF RollbackFile, Fault
<1>21. ASSUME UndoEnds PROVE Process'
  BY <1>21 DEF UndoEnds, Fail, SetStatus, End, Fault
<1>22. ASSUME RevertEnds PROVE Process'
  BY <1>22 DEF RevertEnds, RestartOld, Run, Fail, SetStatus, End, Fault
<1>23. ASSUME KillHelper PROVE Process'
  BY <1>23 DEF KillHelper, End, Fault
<1>24. CASE UNCHANGED vars BY <1>24 DEF vars
<1> QED BY <1>1, <1>2, <1>3, <1>4, <1>5, <1>6, <1>7, <1>8, <1>9, <1>10, <1>11, <1>12, <1>13,
     <1>14, <1>15, <1>16, <1>17, <1>18, <1>19, <1>20, <1>21, <1>22, <1>23, <1>24 DEF Next

LEMMA NextIInv == IInv /\ [Next]_vars => IInv'
  BY NextTypeOK, NextFiles, NextProcess, NextStuck DEF IInv

-----------------------------------------------------------------------------
\* Every variable keeps its type; among them, what a rollback puts back is a release
\* (rollbackFiles) and a request always asks for one.
THEOREM UpdateTypeCorrect == Spec => []TypeOK
<1>1. Init => IInv BY InitIInv
<1>2. IInv /\ [Next]_vars => IInv' BY NextIInv
<1>3. IInv => TypeOK BY DEF IInv
<1> QED BY <1>1, <1>2, <1>3, PTL DEF Spec

\* A helper that ends by itself has replaced the controller and the Agent binaries together or
\* none of them (ApplyControllerUpdate), at whichever file a copy, the restart or the health
\* check failed.
THEOREM ReplacesTogether == Spec => []AllOrNothing
<1>1. Init => IInv BY InitIInv
<1>2. IInv /\ [Next]_vars => IInv' BY NextIInv
<1>3. IInv => AllOrNothing BY DEF IInv, Files, Uniform, AllOrNothing
<1> QED BY <1>1, <1>2, <1>3, PTL DEF Spec

\* The controller that runs when the helper has ended is the installed one (systemctl restart
\* of ApplyControllerUpdate, after the installation and after the rollback).
THEOREM RunsInstalled == Spec => []InstalledRuns
<1>1. Init => IInv BY InitIInv
<1>2. IInv /\ [Next]_vars => IInv' BY NextIInv
<1>3. IInv => InstalledRuns BY DEF IInv, Process, InstalledRuns
<1> QED BY <1>1, <1>2, <1>3, PTL DEF Spec

\* "An update is already in progress" (RequestUpdate) is shown for ever only when a status was
\* written late or lost.
THEOREM StuckOnlyWhenLate == Spec => []StuckExplained
<1>1. Init => IInv BY InitIInv
<1>2. IInv /\ [Next]_vars => IInv' BY NextIInv
<1>3. IInv => StuckExplained BY DEF IInv
<1> QED BY <1>1, <1>2, <1>3, PTL DEF Spec
=============================================================================
