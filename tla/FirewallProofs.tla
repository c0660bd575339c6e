--------------------------- MODULE FirewallProofs ---------------------------
(***************************************************************************)
(* Proofs about Firewall, for every set of policies and bans, every number *)
(* of samples and any number of faults: its type invariant, that the bans, *)
(* the rules and the emergency chain in the kernel are the ones on disk,   *)
(* and the hysteresis of the emergency.                                    *)
(*                                                                         *)
(* None of the three invariants is inductive.  BansExact needs to know     *)
(* what the operation under way works with (Operation, BansKept), and the  *)
(* other two what holds between the nft transaction and the last write     *)
(* (Written), whatever happened before: a write that completes makes good  *)
(* an earlier interruption.                                                *)
(***************************************************************************)
EXTENDS Firewall, TLAPS

\* The operations that load a policy's rules.
Loads == {"apply", "rollback", "ensure"}

\* What the operation that holds the mutex works with at each of its steps.
Operation ==
    /\ op = "none" => base = None /\ policy = None /\ found = {} /\ ~listed
    /\ op # "none" => up
    /\ op \in Loads =>
           /\ policy \in Policies /\ base \in Policies \cup {Empty}
           /\ at # "check" => base \in Policies
    /\ op = "apply" => base = policy
    /\ op = "ensure" => base = files["current.nft"] /\ policy = files["current-policy.json"]
    /\ op = "sync" => policy = None
    /\ op = "adapt" => observer = "set" /\ policy = observed
    /\ op \in {"sync", "adapt"} =>
           at \in {"check", "commit", "manual-bans.json", "adaptive-state.json"}
    /\ op \in {"sync", "adapt"} /\ at = "commit" => listed
    /\ at \in Files => op \in {"apply", "rollback"}
    /\ at = "manual-bans.json" <=> op = "sync" /\ at \notin {"check", "commit"}
    /\ ~up => ~emergency /\ observer = "idle"

\* Unless a sample was skipped, the streaks never outrun the samples; a decision rests on a
\* complete one.
Decision ==
    /\ skipped \/ (high <= hot /\ low <= cold)
    /\ observer # "idle" => observed \in Policies
    /\ wants = "on" => observed \in Adaptive /\ (hot = Trigger \/ skipped)
    /\ wants = "off" /\ observed \in Adaptive => cold = Recover \/ skipped

\* The saved bans lie between those the table must hold and those it may hold, and a policy
\* is loaded with the saved bans that are not over.
BansKept ==
    /\ owed \subseteq bansFile /\ bansFile \subseteq allowed
    /\ op \in Loads => found \subseteq bansFile /\ bansFile \subseteq found \cup expired
    /\ table # None => (owed \ expired) \subseteq table.bans /\ table.bans \subseteq allowed
    /\ at = "manual-bans.json" /\ table # None =>
           (found \ expired) \subseteq table.bans /\ table.bans \subseteq found

\* Apply and Rollback between their transaction and their last write.
Writes == op \in {"apply", "rollback"} /\ at \in Current \cup {"adaptive-state.json"}

\* The emergency state of the Manager, or of the one that NewManager will make.
Believed == IF up THEN emergency ELSE saved

\* Between the transaction and the last write the table holds what is being written, whether
\* or not something was interrupted before.
Written ==
    Writes =>
        /\ at = "current-policy.json" => files["current.nft"] = base
        /\ table # None =>
               /\ table.rules = base
               /\ table.emergency # None => emergency
               /\ emergency /\ policy \in Adaptive => table.emergency # None

\* Otherwise the files agree with one another, with the table and with the Manager.
InForce ==
    ~interrupted /\ ~Writes =>
        /\ files["current.nft"] = files["current-policy.json"]
        /\ up /\ at # "adaptive-state.json" => saved = emergency
        /\ table # None =>
               /\ table.rules = files["current.nft"]
               /\ table.emergency # None => Believed
               /\ Believed /\ table.rules \in Adaptive => table.emergency # None

\* Past adaptive-state.json, so does the saved state.
SavedFirst == ~interrupted /\ Writes /\ at # "adaptive-state.json" => saved = emergency

RulesKept == Written /\ InForce /\ SavedFirst

IInv == TypeOK /\ Operation /\ Decision /\ BansKept /\ RulesKept

-----------------------------------------------------------------------------
\* The type invariant, in the parts that one step can be checked against.

BanTypes ==
    /\ table \in Tables \cup {None} /\ expired \in SUBSET Bans /\ found \in SUBSET Bans
    /\ bansFile \in SUBSET Bans /\ owed \in SUBSET Bans /\ allowed \in SUBSET Bans

FileTypes == files \in [Files -> Saved]

OperationTypes ==
    /\ op \in {"none", "apply", "rollback", "ensure", "sync", "adapt"}
    /\ at \in {"idle", "check", "commit", "adaptive-state.json", "manual-bans.json"} \cup Files
    /\ op = "none" <=> at = "idle"
    /\ base \in Saved /\ policy \in Policies \cup {None}
    /\ result \in {"none", "ok", "failed"} /\ faults \in 0..MaxFaults

SampleTypes ==
    /\ observer \in {"idle", "status", "set"} /\ wants \in {"none", "on", "off"}
    /\ observed \in Policies \cup {None}
    /\ observer = "set" <=> wants # "none"
    /\ high \in 0..Trigger /\ low \in 0..Recover /\ hot \in 0..Trigger /\ cold \in 0..Recover

FlagTypes ==
    /\ saved \in BOOLEAN /\ up \in BOOLEAN /\ emergency \in BOOLEAN
    /\ listed \in BOOLEAN /\ interrupted \in BOOLEAN /\ skipped \in BOOLEAN

LEMMA TypeParts ==
    TypeOK <=> BanTypes /\ FileTypes /\ OperationTypes /\ SampleTypes /\ FlagTypes
BY DEF TypeOK, BanTypes, FileTypes, OperationTypes, SampleTypes, FlagTypes

LEMMA InitIInv == Init => IInv
<1> SUFFICES ASSUME Init PROVE IInv
  OBVIOUS
<1> USE FirewallAssumption DEF Init, Files, Previous, Current
<1>1. BanTypes /\ FileTypes /\ OperationTypes /\ SampleTypes
  BY DEF BanTypes, FileTypes, OperationTypes, SampleTypes, Saved
<1>4. FlagTypes BY Zenon DEF FlagTypes
<1>2. Operation /\ Decision BY DEF Operation, Decision, Loads
<1>3. BansKept /\ RulesKept
  BY DEF BansKept, RulesKept, Written, InForce, SavedFirst, Writes, Loads
<1> QED BY <1>1, <1>2, <1>3, <1>4, TypeParts DEF IInv

LEMMA NextBanTypes == TypeOK /\ Operation /\ Decision /\ [Next]_vars => BanTypes'
<1> SUFFICES ASSUME TypeOK, Operation, Decision, [Next]_vars PROVE BanTypes'
  OBVIOUS
<1> USE FirewallAssumption DEF BanTypes, TypeOK, Operation, Decision, Tables, Saved, Loads,
       LiveBans, Files, Current, Previous, kernelVars, diskVars, callVars, sampleVars,
       banHistory
<1>1. ASSUME NEW p \in Policies, BeginApply(p) PROVE BanTypes'
  BY <1>1 DEF BeginApply, Begin
<1>2. CASE BeginRollback BY <1>2 DEF BeginRollback, Begin
<1>3. CASE BeginEnsure BY <1>3 DEF BeginEnsure, Begin
<1>4. ASSUME NEW B \in SUBSET Bans, BeginSyncBans(B) PROVE BanTypes'
  BY <1>4 DEF BeginSyncBans, Begin
<1>5. CASE ReadPolicy BY <1>5 DEF ReadPolicy
<1>6. ASSUME NEW level \in Levels, Decide(level) PROVE BanTypes'
  BY <1>6 DEF Decide, Streaks, NoteSample, CountTo, Levels
<1>7. CASE SetAdaptiveEmergency BY <1>7 DEF SetAdaptiveEmergency, Begin, SampleDone
<1>8. CASE Refuse BY <1>8 DEF Refuse, Return, SampleDone
<1>9. CASE Check BY <1>9 DEF Check
<1>10. CASE Commit
  BY <1>10 DEF Commit, Commits, Committed, RuntimeRules, AfterCommit, ClearsEmergency,
     NoteBans, Return, SampleDone, Goto
<1>11. CASE CommitKilled
  BY <1>11 DEF CommitKilled, Commits, Committed, RuntimeRules, NoteBans, Fault, Return, SampleDone
<1>12. CASE CommitRefused BY <1>12 DEF CommitRefused, Restore, RuntimeRules, Return, SampleDone
<1>13. ASSUME NEW f \in Files, SaveFile(f) PROVE BanTypes'
  BY <1>13 DEF SaveFile, Content, Copy, AfterFile, Whole, Goto, Return, SampleDone
<1>14. ASSUME NEW f \in Files, SaveFileFails(f) PROVE BanTypes'
  BY <1>14 DEF SaveFileFails, AfterFile, Fault, Goto, Return, SampleDone
<1>15. CASE SaveEmergency BY <1>15 DEF SaveEmergency, Goto, Return, SampleDone
<1>16. CASE SaveEmergencyFails BY <1>16 DEF SaveEmergencyFails, Fault, Return, SampleDone
<1>17. CASE SaveBans BY <1>17 DEF SaveBans, Return, SampleDone
<1>18. CASE SaveBansFails BY <1>18 DEF SaveBansFails, Fault, Return, SampleDone
<1>19. ASSUME NEW b \in Bans, ExpireBan(b) PROVE BanTypes'
  BY <1>19 DEF ExpireBan
<1>20. CASE DeleteTable BY <1>20 DEF DeleteTable, Fault
<1>21. CASE Kill BY <1>21 DEF Kill, Stop, Fault
<1>22. CASE KillAtCommit
  BY <1>22 DEF KillAtCommit, Commits, Committed, RuntimeRules, NoteBans, Fault
<1>23. CASE Reboot BY <1>23 DEF Reboot, Stop, Fault
<1>24. CASE NewManager BY <1>24 DEF NewManager
<1>25. CASE UNCHANGED vars BY <1>25 DEF vars
<1>26. ASSUME NEW level \in Levels, SkipSample(level) PROVE BanTypes'
  BY <1>26 DEF SkipSample, NoteSample, CountTo, Levels
<1> QED
  BY <1>1, <1>2, <1>3, <1>4, <1>5, <1>6, <1>7, <1>8, <1>9, <1>10, <1>11, <1>12, <1>13, <1>14,
     <1>15, <1>16, <1>17, <1>18, <1>19, <1>20, <1>21, <1>22, <1>23, <1>24, <1>25, <1>26
  DEF Next

LEMMA NextFileTypes == TypeOK /\ [Next]_vars => FileTypes'
<1> SUFFICES ASSUME TypeOK, [Next]_vars PROVE FileTypes'
  OBVIOUS
<1> USE FirewallAssumption DEF FileTypes, TypeOK, Saved, Files, Current, Previous, kernelVars,
       diskVars, callVars, sampleVars, banHistory
<1>1. ASSUME NEW p \in Policies, BeginApply(p) PROVE FileTypes'
  BY <1>1 DEF BeginApply, Begin
<1>2. CASE BeginRollback BY <1>2 DEF BeginRollback, Begin
<1>3. CASE BeginEnsure BY <1>3 DEF BeginEnsure, Begin
<1>4. ASSUME NEW B \in SUBSET Bans, BeginSyncBans(B) PROVE FileTypes'
  BY <1>4 DEF BeginSyncBans, Begin
<1>5. CASE ReadPolicy BY <1>5 DEF ReadPolicy
<1>6. ASSUME NEW level \in Levels, Decide(level) PROVE FileTypes'
  BY <1>6 DEF Decide, Streaks, NoteSample, CountTo, Levels
<1>7. CASE SetAdaptiveEmergency BY <1>7 DEF SetAdaptiveEmergency, Begin, SampleDone
<1>8. CASE Refuse BY <1>8 DEF Refuse, Return, SampleDone
<1>9. CASE Check BY <1>9 DEF Check
<1>10. CASE Commit
  BY <1>10 DEF Commit, Commits, Committed, RuntimeRules, AfterCommit, ClearsEmergency,
     NoteBans, Return, SampleDone, Goto
<1>11. CASE CommitKilled
  BY <1>11 DEF CommitKilled, Commits, Committed, RuntimeRules, NoteBans, Fault, Return, SampleDone
<1>12. CASE CommitRefused BY <1>12 DEF CommitRefused, Restore, RuntimeRules, Return, SampleDone
<1>13. ASSUME NEW f \in Files, SaveFile(f) PROVE FileTypes'
  BY <1>13 DEF SaveFile, Content, Copy, AfterFile, Whole, Goto, Return, SampleDone
<1>14. ASSUME NEW f \in Files, SaveFileFails(f) PROVE FileTypes'
  BY <1>14 DEF SaveFileFails, AfterFile, Fault, Goto, Return, SampleDone
<1>15. CASE SaveEmergency BY <1>15 DEF SaveEmergency, Goto, Return, SampleDone
<1>16. CASE SaveEmergencyFails BY <1>16 DEF SaveEmergencyFails, Fault, Return, SampleDone
<1>17. CASE SaveBans BY <1>17 DEF SaveBans, Return, SampleDone
<1>18. CASE SaveBansFails BY <1>18 DEF SaveBansFails, Fault, Return, SampleDone
<1>19. ASSUME NEW b \in Bans, ExpireBan(b) PROVE FileTypes'
  BY <1>19 DEF ExpireBan
<1>20. CASE DeleteTable BY <1>20 DEF DeleteTable, Fault
<1>21. CASE Kill BY <1>21 DEF Kill, Stop, Fault
<1>22. CASE KillAtCommit
  BY <1>22 DEF KillAtCommit, Commits, Committed, RuntimeRules, NoteBans, Fault
<1>23. CASE Reboot BY <1>23 DEF Reboot, Stop, Fault
<1>24. CASE NewManager BY <1>24 DEF NewManager
<1>25. CASE UNCHANGED vars BY <1>25 DEF vars
<1>26. ASSUME NEW level \in Levels, SkipSample(level) PROVE FileTypes'
  BY <1>26 DEF SkipSample, NoteSample, CountTo, Levels
<1> QED
  BY <1>1, <1>2, <1>3, <1>4, <1>5, <1>6, <1>7, <1>8, <1>9, <1>10, <1>11, <1>12, <1>13, <1>14,
     <1>15, <1>16, <1>17, <1>18, <1>19, <1>20, <1>21, <1>22, <1>23, <1>24, <1>25, <1>26
  DEF Next

LEMMA NextOperationTypes == TypeOK /\ Operation /\ [Next]_vars => OperationTypes'
<1> SUFFICES ASSUME TypeOK, Operation, [Next]_vars PROVE OperationTypes'
  OBVIOUS
<1> USE FirewallAssumption DEF OperationTypes, TypeOK, Operation, Saved, Files, Current,
       Previous, kernelVars, diskVars, callVars, sampleVars, banHistory
<1>1. ASSUME NEW p \in Policies, BeginApply(p) PROVE OperationTypes'
  BY <1>1 DEF BeginApply, Begin
<1>2. CASE BeginRollback BY <1>2 DEF BeginRollback, Begin
<1>3. CASE BeginEnsure BY <1>3 DEF BeginEnsure, Begin
<1>4. ASSUME NEW B \in SUBSET Bans, BeginSyncBans(B) PROVE OperationTypes'
  BY <1>4 DEF BeginSyncBans, Begin
<1>5. CASE ReadPolicy BY <1>5 DEF ReadPolicy
<1>6. ASSUME NEW level \in Levels, Decide(level) PROVE OperationTypes'
  BY <1>6 DEF Decide, Streaks, NoteSample, CountTo, Levels
<1>7. CASE SetAdaptiveEmergency BY <1>7 DEF SetAdaptiveEmergency, Begin, SampleDone
<1>8. CASE Refuse BY <1>8 DEF Refuse, Return, SampleDone
<1>9. CASE Check BY <1>9 DEF Check
<1>10. CASE Commit
  BY <1>10 DEF Commit, Commits, Committed, RuntimeRules, AfterCommit, ClearsEmergency,
     NoteBans, Return, SampleDone, Goto
<1>11. CASE CommitKilled
  BY <1>11 DEF CommitKilled, Commits, Committed, RuntimeRules, NoteBans, Fault, Return, SampleDone
<1>12. CASE CommitRefused BY <1>12 DEF CommitRefused, Restore, RuntimeRules, Return, SampleDone
<1>13. ASSUME NEW f \in Files, SaveFile(f) PROVE OperationTypes'
  BY <1>13 DEF SaveFile, Content, Copy, AfterFile, Whole, Goto, Return, SampleDone
<1>14. ASSUME NEW f \in Files, SaveFileFails(f) PROVE OperationTypes'
  BY <1>14 DEF SaveFileFails, AfterFile, Fault, Goto, Return, SampleDone
<1>15. CASE SaveEmergency BY <1>15 DEF SaveEmergency, Goto, Return, SampleDone
<1>16. CASE SaveEmergencyFails BY <1>16 DEF SaveEmergencyFails, Fault, Return, SampleDone
<1>17. CASE SaveBans BY <1>17 DEF SaveBans, Return, SampleDone
<1>18. CASE SaveBansFails BY <1>18 DEF SaveBansFails, Fault, Return, SampleDone
<1>19. ASSUME NEW b \in Bans, ExpireBan(b) PROVE OperationTypes'
  BY <1>19 DEF ExpireBan
<1>20. CASE DeleteTable BY <1>20 DEF DeleteTable, Fault
<1>21. CASE Kill BY <1>21 DEF Kill, Stop, Fault
<1>22. CASE KillAtCommit
  BY <1>22 DEF KillAtCommit, Commits, Committed, RuntimeRules, NoteBans, Fault
<1>23. CASE Reboot BY <1>23 DEF Reboot, Stop, Fault
<1>24. CASE NewManager BY <1>24 DEF NewManager
<1>25. CASE UNCHANGED vars BY <1>25 DEF vars
<1>26. ASSUME NEW level \in Levels, SkipSample(level) PROVE OperationTypes'
  BY <1>26 DEF SkipSample, NoteSample, CountTo, Levels
<1> QED
  BY <1>1, <1>2, <1>3, <1>4, <1>5, <1>6, <1>7, <1>8, <1>9, <1>10, <1>11, <1>12, <1>13, <1>14,
     <1>15, <1>16, <1>17, <1>18, <1>19, <1>20, <1>21, <1>22, <1>23, <1>24, <1>25, <1>26
  DEF Next

LEMMA NextSampleTypes == TypeOK /\ [Next]_vars => SampleTypes'
<1> SUFFICES ASSUME TypeOK, [Next]_vars PROVE SampleTypes'
  OBVIOUS
<1> USE FirewallAssumption DEF SampleTypes, TypeOK, Files, Current, Previous, kernelVars,
       diskVars, callVars, sampleVars, banHistory
<1>1. ASSUME NEW p \in Policies, BeginApply(p) PROVE SampleTypes'
  BY <1>1 DEF BeginApply, Begin
<1>2. CASE BeginRollback BY <1>2 DEF BeginRollback, Begin
<1>3. CASE BeginEnsure BY <1>3 DEF BeginEnsure, Begin
<1>4. ASSUME NEW B \in SUBSET Bans, BeginSyncBans(B) PROVE SampleTypes'
  BY <1>4 DEF BeginSyncBans, Begin
<1>5. CASE ReadPolicy BY <1>5 DEF ReadPolicy
<1>6. ASSUME NEW level \in Levels, Decide(level) PROVE SampleTypes'
  BY <1>6 DEF Decide, Streaks, NoteSample, CountTo, Levels
<1>7. CASE SetAdaptiveEmergency BY <1>7 DEF SetAdaptiveEmergency, Begin, SampleDone
<1>8. CASE Refuse BY <1>8 DEF Refuse, Return, SampleDone
<1>9. CASE Check BY <1>9 DEF Check
<1>10. CASE Commit
  BY <1>10 DEF Commit, Commits, Committed, RuntimeRules, AfterCommit, ClearsEmergency,
     NoteBans, Return, SampleDone, Goto
<1>11. CASE CommitKilled
  BY <1>11 DEF CommitKilled, Commits, Committed, RuntimeRules, NoteBans, Fault, Return, SampleDone
<1>12. CASE CommitRefused BY <1>12 DEF CommitRefused, Restore, RuntimeRules, Return, SampleDone
<1>13. ASSUME NEW f \in Files, SaveFile(f) PROVE SampleTypes'
  BY <1>13 DEF SaveFile, Content, Copy, AfterFile, Whole, Goto, Return, SampleDone
<1>14. ASSUME NEW f \in Files, SaveFileFails(f) PROVE SampleTypes'
  BY <1>14 DEF SaveFileFails, AfterFile, Fault, Goto, Return, SampleDone
<1>15. CASE SaveEmergency BY <1>15 DEF SaveEmergency, Goto, Return, SampleDone
<1>16. CASE SaveEmergencyFails BY <1>16 DEF SaveEmergencyFails, Fault, Return, SampleDone
<1>17. CASE SaveBans BY <1>17 DEF SaveBans, Return, SampleDone
<1>18. CASE SaveBansFails BY <1>18 DEF SaveBansFails, Fault, Return, SampleDone
<1>19. ASSUME NEW b \in Bans, ExpireBan(b) PROVE SampleTypes'
  BY <1>19 DEF ExpireBan
<1>20. CASE DeleteTable BY <1>20 DEF DeleteTable, Fault
<1>21. CASE Kill BY <1>21 DEF Kill, Stop, Fault
<1>22. CASE KillAtCommit
  BY <1>22 DEF KillAtCommit, Commits, Committed, RuntimeRules, NoteBans, Fault
<1>23. CASE Reboot BY <1>23 DEF Reboot, Stop, Fault
<1>24. CASE NewManager BY <1>24 DEF NewManager
<1>25. CASE UNCHANGED vars BY <1>25 DEF vars
<1>26. ASSUME NEW level \in Levels, SkipSample(level) PROVE SampleTypes'
  BY <1>26 DEF SkipSample, NoteSample, CountTo, Levels
<1> QED
  BY <1>1, <1>2, <1>3, <1>4, <1>5, <1>6, <1>7, <1>8, <1>9, <1>10, <1>11, <1>12, <1>13, <1>14,
     <1>15, <1>16, <1>17, <1>18, <1>19, <1>20, <1>21, <1>22, <1>23, <1>24, <1>25, <1>26
  DEF Next

LEMMA NextFlagTypes == TypeOK /\ [Next]_vars => FlagTypes'
<1> SUFFICES ASSUME TypeOK, [Next]_vars PROVE FlagTypes'
  OBVIOUS
<1> USE FirewallAssumption DEF FlagTypes, TypeOK, Files, Current, Previous, kernelVars,
       diskVars, callVars, sampleVars, banHistory
<1>1. ASSUME NEW p \in Policies, BeginApply(p) PROVE FlagTypes'
  BY <1>1 DEF BeginApply, Begin
<1>2. CASE BeginRollback BY <1>2 DEF BeginRollback, Begin
<1>3. CASE BeginEnsure BY <1>3 DEF BeginEnsure, Begin
<1>4. ASSUME NEW B \in SUBSET Bans, BeginSyncBans(B) PROVE FlagTypes'
  BY <1>4 DEF BeginSyncBans, Begin
<1>5. CASE ReadPolicy BY <1>5 DEF ReadPolicy
<1>6. ASSUME NEW level \in Levels, Decide(level) PROVE FlagTypes'
  BY <1>6 DEF Decide, Streaks, NoteSample, CountTo, Levels
<1>7. CASE SetAdaptiveEmergency BY <1>7 DEF SetAdaptiveEmergency, Begin, SampleDone
<1>8. CASE Refuse BY <1>8 DEF Refuse, Return, SampleDone
<1>9. CASE Check BY <1>9 DEF Check
<1>10. CASE Commit
  BY <1>10 DEF Commit, Commits, Committed, RuntimeRules, AfterCommit, ClearsEmergency,
     NoteBans, Return, SampleDone, Goto
<1>11. CASE CommitKilled
  BY <1>11 DEF CommitKilled, Commits, Committed, RuntimeRules, NoteBans, Fault, Return, SampleDone
<1>12. CASE CommitRefused BY <1>12 DEF CommitRefused, Restore, RuntimeRules, Return, SampleDone
<1>13. ASSUME NEW f \in Files, SaveFile(f) PROVE FlagTypes'
  BY <1>13 DEF SaveFile, Content, Copy, AfterFile, Whole, Goto, Return, SampleDone
<1>14. ASSUME NEW f \in Files, SaveFileFails(f) PROVE FlagTypes'
  BY <1>14 DEF SaveFileFails, AfterFile, Fault, Goto, Return, SampleDone
<1>15. CASE SaveEmergency BY <1>15 DEF SaveEmergency, Goto, Return, SampleDone
<1>16. CASE SaveEmergencyFails BY <1>16 DEF SaveEmergencyFails, Fault, Return, SampleDone
<1>17. CASE SaveBans BY <1>17 DEF SaveBans, Return, SampleDone
<1>18. CASE SaveBansFails BY <1>18 DEF SaveBansFails, Fault, Return, SampleDone
<1>19. ASSUME NEW b \in Bans, ExpireBan(b) PROVE FlagTypes'
  BY <1>19 DEF ExpireBan
<1>20. CASE DeleteTable BY <1>20 DEF DeleteTable, Fault
<1>21. CASE Kill BY <1>21 DEF Kill, Stop, Fault
<1>22. CASE KillAtCommit
  BY <1>22 DEF KillAtCommit, Commits, Committed, RuntimeRules, NoteBans, Fault
<1>23. CASE Reboot BY <1>23 DEF Reboot, Stop, Fault
<1>24. CASE NewManager BY <1>24 DEF NewManager
<1>25. CASE UNCHANGED vars BY <1>25 DEF vars
<1>26. ASSUME NEW level \in Levels, SkipSample(level) PROVE FlagTypes'
  BY <1>26 DEF SkipSample, NoteSample, CountTo, Levels
<1> QED
  BY <1>1, <1>2, <1>3, <1>4, <1>5, <1>6, <1>7, <1>8, <1>9, <1>10, <1>11, <1>12, <1>13, <1>14,
     <1>15, <1>16, <1>17, <1>18, <1>19, <1>20, <1>21, <1>22, <1>23, <1>24, <1>25, <1>26
  DEF Next

-----------------------------------------------------------------------------
\* What an operation and a decision know.

LEMMA NextOperation == TypeOK /\ Operation /\ Decision /\ [Next]_vars => Operation'
<1> SUFFICES ASSUME TypeOK, Operation, Decision, [Next]_vars PROVE Operation'
  OBVIOUS
<1> USE FirewallAssumption DEF TypeOK, Operation, Decision, Tables, Saved, Loads, LiveBans,
       Files, Current, Previous, kernelVars, diskVars, callVars, sampleVars, banHistory
<1>1. ASSUME NEW p \in Policies, BeginApply(p) PROVE Operation'
  BY <1>1 DEF BeginApply, Begin
<1>2. CASE BeginRollback BY <1>2 DEF BeginRollback, Begin
<1>3. CASE BeginEnsure BY <1>3 DEF BeginEnsure, Begin
<1>4. ASSUME NEW B \in SUBSET Bans, BeginSyncBans(B) PROVE Operation'
  BY <1>4 DEF BeginSyncBans, Begin
<1>5. CASE ReadPolicy BY <1>5 DEF ReadPolicy
<1>6. ASSUME NEW level \in Levels, Decide(level) PROVE Operation'
  BY <1>6 DEF Decide, Streaks, NoteSample, CountTo, Levels
<1>7. CASE SetAdaptiveEmergency BY <1>7 DEF SetAdaptiveEmergency, Begin, SampleDone
<1>8. CASE Refuse BY <1>8 DEF Refuse, Return, SampleDone
<1>9. CASE Check BY <1>9 DEF Check
<1>10. CASE Commit
  BY <1>10 DEF Commit, Commits, Committed, RuntimeRules, AfterCommit, ClearsEmergency,
     NoteBans, Return, SampleDone, Goto
<1>11. CASE CommitKilled
  BY <1>11 DEF CommitKilled, Commits, Committed, RuntimeRules, NoteBans, Fault, Return, SampleDone
<1>12. CASE CommitRefused BY <1>12 DEF CommitRefused, Restore, RuntimeRules, Return, SampleDone
<1>13. ASSUME NEW f \in Files, SaveFile(f) PROVE Operation'
  BY <1>13 DEF SaveFile, Content, Copy, AfterFile, Whole, Goto, Return, SampleDone
<1>14. ASSUME NEW f \in Files, SaveFileFails(f) PROVE Operation'
  BY <1>14 DEF SaveFileFails, AfterFile, Fault, Goto, Return, SampleDone
<1>15. CASE SaveEmergency BY <1>15 DEF SaveEmergency, Goto, Return, SampleDone
<1>16. CASE SaveEmergencyFails BY <1>16 DEF SaveEmergencyFails, Fault, Return, SampleDone
<1>17. CASE SaveBans BY <1>17 DEF SaveBans, Return, SampleDone
<1>18. CASE SaveBansFails BY <1>18 DEF SaveBansFails, Fault, Return, SampleDone
<1>19. ASSUME NEW b \in Bans, ExpireBan(b) PROVE Operation'
  BY <1>19 DEF ExpireBan
<1>20. CASE DeleteTable BY <1>20 DEF DeleteTable, Fault
<1>21. CASE Kill BY <1>21 DEF Kill, Stop, Fault
<1>22. CASE KillAtCommit
  BY <1>22 DEF KillAtCommit, Commits, Committed, RuntimeRules, NoteBans, Fault
<1>23. CASE Reboot BY <1>23 DEF Reboot, Stop, Fault
<1>24. CASE NewManager BY <1>24 DEF NewManager
<1>25. CASE UNCHANGED vars BY <1>25 DEF vars
<1>26. ASSUME NEW level \in Levels, SkipSample(level) PROVE Operation'
  BY <1>26 DEF SkipSample, NoteSample, CountTo, Levels
<1> QED
  BY <1>1, <1>2, <1>3, <1>4, <1>5, <1>6, <1>7, <1>8, <1>9, <1>10, <1>11, <1>12, <1>13, <1>14,
     <1>15, <1>16, <1>17, <1>18, <1>19, <1>20, <1>21, <1>22, <1>23, <1>24, <1>25, <1>26
  DEF Next

LEMMA NextDecision == TypeOK /\ Operation /\ Decision /\ [Next]_vars => Decision'
<1> SUFFICES ASSUME TypeOK, Operation, Decision, [Next]_vars PROVE Decision'
  OBVIOUS
<1> USE FirewallAssumption DEF TypeOK, Operation, Decision, Loads, Files, Current, Previous,
       kernelVars, diskVars, callVars, sampleVars, banHistory
<1>1. ASSUME NEW p \in Policies, BeginApply(p) PROVE Decision'
  BY <1>1 DEF BeginApply, Begin
<1>2. CASE BeginRollback BY <1>2 DEF BeginRollback, Begin
<1>3. CASE BeginEnsure BY <1>3 DEF BeginEnsure, Begin
<1>4. ASSUME NEW B \in SUBSET Bans, BeginSyncBans(B) PROVE Decision'
  BY <1>4 DEF BeginSyncBans, Begin
<1>5. CASE ReadPolicy BY <1>5 DEF ReadPolicy
<1>6. ASSUME NEW level \in Levels, Decide(level) PROVE Decision'
  <2> USE <1>6 DEF Decide, Streaks, NoteSample, CountTo, Levels
  <2>1. CASE observed \notin Adaptive
    <3>1. high' = 0 /\ low' = 0 BY <2>1
    <3>2. wants' \in {"none", "off"} BY <2>1
    <3>3. wants' = "off" => observed' = observed BY <2>1
    <3>4. observer' # "idle" => wants' # "none" BY <2>1
    <3>5. hot' \in Nat /\ cold' \in Nat BY <2>1
    <3> QED BY <2>1, <3>1, <3>2, <3>3, <3>4, <3>5
  <2>2. CASE observed \in Adaptive /\ ~emergency
    <3>1. low' = 0 /\ high' = (IF level = "pressured" THEN CountTo(high, Trigger) ELSE 0) BY <2>2
    <3>2. skipped' \/ (high' <= hot' /\ low' <= cold')
      <4>1. CASE skipped /\ high > 0 /\ high' > 0 BY <4>1
      <4>2. CASE ~skipped \/ high = 0 BY <3>1, <4>2
      <4>3. CASE high' = 0 BY <3>1, <4>3
      <4> QED BY <3>1, <4>1, <4>2, <4>3
    <3>3. wants' = (IF high' >= Trigger THEN "on" ELSE "none") BY <2>2
    <3>4. observer' # "idle" => observed' = observed BY <3>3
    <3>5. wants' = "on" => observed' = observed /\ (hot' = Trigger \/ skipped')
      BY <3>1, <3>2, <3>3
    <3> QED BY <2>2, <3>2, <3>3, <3>4, <3>5
  <2>3. CASE observed \in Adaptive /\ emergency
    <3>1. high' = 0 /\ low' = (IF level = "recovered" THEN CountTo(low, Recover) ELSE 0) BY <2>3
    <3>2. skipped' \/ (high' <= hot' /\ low' <= cold')
      <4>1. CASE skipped /\ low > 0 /\ low' > 0 BY <4>1
      <4>2. CASE ~skipped \/ low = 0 BY <3>1, <4>2
      <4>3. CASE low' = 0 BY <3>1, <4>3
      <4> QED BY <3>1, <4>1, <4>2, <4>3
    <3>3. wants' = (IF low' >= Recover THEN "off" ELSE "none") BY <2>3
    <3>4. observer' # "idle" => observed' = observed BY <3>3
    <3>5. wants' = "off" => cold' = Recover \/ skipped' BY <3>1, <3>2, <3>3
    <3> QED BY <2>3, <3>2, <3>3, <3>4, <3>5
  <2> QED BY <2>1, <2>2, <2>3
<1>7. CASE SetAdaptiveEmergency BY <1>7 DEF SetAdaptiveEmergency, Begin, SampleDone
<1>8. CASE Refuse BY <1>8 DEF Refuse, Return, SampleDone
<1>9. CASE Check BY <1>9 DEF Check
<1>10. CASE Commit
  BY <1>10 DEF Commit, Commits, Committed, RuntimeRules, AfterCommit, ClearsEmergency,
     NoteBans, Return, SampleDone, Goto
<1>11. CASE CommitKilled
  BY <1>11 DEF CommitKilled, Commits, Committed, RuntimeRules, NoteBans, Fault, Return, SampleDone
<1>12. CASE CommitRefused BY <1>12 DEF CommitRefused, Restore, RuntimeRules, Return, SampleDone
<1>13. ASSUME NEW f \in Files, SaveFile(f) PROVE Decision'
  BY <1>13 DEF SaveFile, Content, Copy, AfterFile, Whole, Goto, Return, SampleDone
<1>14. ASSUME NEW f \in Files, SaveFileFails(f) PROVE Decision'
  BY <1>14 DEF SaveFileFails, AfterFile, Fault, Goto, Return, SampleDone
<1>15. CASE SaveEmergency BY <1>15 DEF SaveEmergency, Goto, Return, SampleDone
<1>16. CASE SaveEmergencyFails BY <1>16 DEF SaveEmergencyFails, Fault, Return, SampleDone
<1>17. CASE SaveBans BY <1>17 DEF SaveBans, Return, SampleDone
<1>18. CASE SaveBansFails BY <1>18 DEF SaveBansFails, Fault, Return, SampleDone
<1>19. ASSUME NEW b \in Bans, ExpireBan(b) PROVE Decision'
  BY <1>19 DEF ExpireBan
<1>20. CASE DeleteTable BY <1>20 DEF DeleteTable, Fault
<1>21. CASE Kill BY <1>21 DEF Kill, Stop, Fault
<1>22. CASE KillAtCommit
  BY <1>22 DEF KillAtCommit, Commits, Committed, RuntimeRules, NoteBans, Fault
<1>23. CASE Reboot BY <1>23 DEF Reboot, Stop, Fault
<1>24. CASE NewManager BY <1>24 DEF NewManager
<1>25. CASE UNCHANGED vars BY <1>25 DEF vars
<1>26. ASSUME NEW level \in Levels, SkipSample(level) PROVE Decision'
  BY <1>26 DEF SkipSample, NoteSample, CountTo, Levels
<1> QED
  BY <1>1, <1>2, <1>3, <1>4, <1>5, <1>6, <1>7, <1>8, <1>9, <1>10, <1>11, <1>12, <1>13, <1>14,
     <1>15, <1>16, <1>17, <1>18, <1>19, <1>20, <1>21, <1>22, <1>23, <1>24, <1>25, <1>26
  DEF Next

-----------------------------------------------------------------------------
\* Bans, rules and the emergency chain.

LEMMA NextBansKept == TypeOK /\ Operation /\ BansKept /\ [Next]_vars => BansKept'
<1> SUFFICES ASSUME TypeOK, Operation, BansKept, [Next]_vars PROVE BansKept'
  OBVIOUS
<1> USE FirewallAssumption DEF TypeOK, Operation, BansKept, Tables, Loads, LiveBans, Files,
       Current, Previous, kernelVars, diskVars, callVars, sampleVars, banHistory
<1>1. ASSUME NEW p \in Policies, BeginApply(p) PROVE BansKept'
  BY <1>1 DEF BeginApply, Begin
<1>2. CASE BeginRollback BY <1>2 DEF BeginRollback, Begin
<1>3. CASE BeginEnsure BY <1>3 DEF BeginEnsure, Begin
<1>4. ASSUME NEW B \in SUBSET Bans, BeginSyncBans(B) PROVE BansKept'
  BY <1>4 DEF BeginSyncBans, Begin
<1>5. CASE ReadPolicy BY <1>5 DEF ReadPolicy
<1>6. ASSUME NEW level \in Levels, Decide(level) PROVE BansKept'
  BY <1>6 DEF Decide, Streaks, NoteSample, CountTo, Levels
<1>7. CASE SetAdaptiveEmergency BY <1>7 DEF SetAdaptiveEmergency, Begin, SampleDone
<1>8. CASE Refuse BY <1>8 DEF Refuse, Return, SampleDone
<1>9. CASE Check BY <1>9 DEF Check
<1>10. CASE Commit
  BY <1>10 DEF Commit, Commits, Committed, RuntimeRules, AfterCommit, ClearsEmergency,
     NoteBans, Return, SampleDone, Goto
<1>11. CASE CommitKilled
  BY <1>11 DEF CommitKilled, Commits, Committed, RuntimeRules, NoteBans, Fault, Return, SampleDone
<1>12. CASE CommitRefused BY <1>12 DEF CommitRefused, Restore, RuntimeRules, Return, SampleDone
<1>13. ASSUME NEW f \in Files, SaveFile(f) PROVE BansKept'
  BY <1>13 DEF SaveFile, Content, Copy, AfterFile, Whole, Goto, Return, SampleDone
<1>14. ASSUME NEW f \in Files, SaveFileFails(f) PROVE BansKept'
  BY <1>14 DEF SaveFileFails, AfterFile, Fault, Goto, Return, SampleDone
<1>15. CASE SaveEmergency BY <1>15 DEF SaveEmergency, Goto, Return, SampleDone
<1>16. CASE SaveEmergencyFails BY <1>16 DEF SaveEmergencyFails, Fault, Return, SampleDone
<1>17. CASE SaveBans BY <1>17 DEF SaveBans, Return, SampleDone
<1>18. CASE SaveBansFails BY <1>18 DEF SaveBansFails, Fault, Return, SampleDone
<1>19. ASSUME NEW b \in Bans, ExpireBan(b) PROVE BansKept'
  BY <1>19 DEF ExpireBan
<1>20. CASE DeleteTable BY <1>20 DEF DeleteTable, Fault
<1>21. CASE Kill BY <1>21 DEF Kill, Stop, Fault
<1>22. CASE KillAtCommit
  BY <1>22 DEF KillAtCommit, Commits, Committed, RuntimeRules, NoteBans, Fault
<1>23. CASE Reboot BY <1>23 DEF Reboot, Stop, Fault
<1>24. CASE NewManager BY <1>24 DEF NewManager
<1>25. CASE UNCHANGED vars BY <1>25 DEF vars
<1>26. ASSUME NEW level \in Levels, SkipSample(level) PROVE BansKept'
  BY <1>26 DEF SkipSample, NoteSample, CountTo, Levels
<1> QED
  BY <1>1, <1>2, <1>3, <1>4, <1>5, <1>6, <1>7, <1>8, <1>9, <1>10, <1>11, <1>12, <1>13, <1>14,
     <1>15, <1>16, <1>17, <1>18, <1>19, <1>20, <1>21, <1>22, <1>23, <1>24, <1>25, <1>26
  DEF Next

LEMMA NextWritten == TypeOK /\ Operation /\ Decision /\ Written /\ [Next]_vars => Written'
<1> SUFFICES ASSUME TypeOK, Operation, Decision, Written, [Next]_vars PROVE Written'
  OBVIOUS
<1> USE FirewallAssumption DEF Written, Writes, Believed, TypeOK, Operation, Decision, Tables,
       Saved, Loads, Files, Current, Previous, kernelVars, diskVars, callVars, sampleVars,
       banHistory
<1>1. ASSUME NEW p \in Policies, BeginApply(p) PROVE Written'
  BY <1>1 DEF BeginApply, Begin
<1>2. CASE BeginRollback BY <1>2 DEF BeginRollback, Begin
<1>3. CASE BeginEnsure BY <1>3 DEF BeginEnsure, Begin
<1>4. ASSUME NEW B \in SUBSET Bans, BeginSyncBans(B) PROVE Written'
  BY <1>4 DEF BeginSyncBans, Begin
<1>5. CASE ReadPolicy BY <1>5 DEF ReadPolicy
<1>6. ASSUME NEW level \in Levels, Decide(level) PROVE Written'
  BY <1>6 DEF Decide, Streaks, NoteSample, CountTo, Levels
<1>7. CASE SetAdaptiveEmergency BY <1>7 DEF SetAdaptiveEmergency, Begin, SampleDone
<1>8. CASE Refuse BY <1>8 DEF Refuse, Return, SampleDone
<1>9. CASE Check BY <1>9 DEF Check
<1>10. CASE Commit
  BY <1>10 DEF Commit, Commits, Committed, RuntimeRules, AfterCommit, ClearsEmergency,
     NoteBans, Return, SampleDone, Goto
<1>11. CASE CommitKilled
  BY <1>11 DEF CommitKilled, Commits, Committed, RuntimeRules, NoteBans, Fault, Return, SampleDone
<1>12. CASE CommitRefused BY <1>12 DEF CommitRefused, Restore, RuntimeRules, Return, SampleDone
<1>13. ASSUME NEW f \in Files, SaveFile(f) PROVE Written'
  BY <1>13 DEF SaveFile, Content, Copy, AfterFile, Whole, Goto, Return, SampleDone
<1>14. ASSUME NEW f \in Files, SaveFileFails(f) PROVE Written'
  BY <1>14 DEF SaveFileFails, AfterFile, Fault, Goto, Return, SampleDone
<1>15. CASE SaveEmergency BY <1>15 DEF SaveEmergency, Goto, Return, SampleDone
<1>16. CASE SaveEmergencyFails BY <1>16 DEF SaveEmergencyFails, Fault, Return, SampleDone
<1>17. CASE SaveBans BY <1>17 DEF SaveBans, Return, SampleDone
<1>18. CASE SaveBansFails BY <1>18 DEF SaveBansFails, Fault, Return, SampleDone
<1>19. ASSUME NEW b \in Bans, ExpireBan(b) PROVE Written'
  BY <1>19 DEF ExpireBan
<1>20. CASE DeleteTable BY <1>20 DEF DeleteTable, Fault
<1>21. CASE Kill BY <1>21 DEF Kill, Stop, Fault
<1>22. CASE KillAtCommit
  BY <1>22 DEF KillAtCommit, Commits, Committed, RuntimeRules, NoteBans, Fault
<1>23. CASE Reboot BY <1>23 DEF Reboot, Stop, Fault
<1>24. CASE NewManager BY <1>24 DEF NewManager
<1>25. CASE UNCHANGED vars BY <1>25 DEF vars
<1>26. ASSUME NEW level \in Levels, SkipSample(level) PROVE Written'
  BY <1>26 DEF SkipSample, NoteSample, CountTo, Levels
<1> QED
  BY <1>1, <1>2, <1>3, <1>4, <1>5, <1>6, <1>7, <1>8, <1>9, <1>10, <1>11, <1>12, <1>13, <1>14,
     <1>15, <1>16, <1>17, <1>18, <1>19, <1>20, <1>21, <1>22, <1>23, <1>24, <1>25, <1>26
  DEF Next

LEMMA AfterClearing == op = "ensure" /\ ClearsEmergency => AfterCommit = "adaptive-state.json"
BY DEF AfterCommit, ClearsEmergency

LEMMA NextInForce == TypeOK /\ Operation /\ Decision /\ RulesKept /\ [Next]_vars => InForce'
<1> SUFFICES ASSUME TypeOK, Operation, Decision, RulesKept, [Next]_vars PROVE InForce'
  OBVIOUS
<1> USE FirewallAssumption DEF InForce, Written, SavedFirst, RulesKept, Writes, Believed,
       TypeOK, Operation, Decision, Tables, Saved, Loads, Files, Current, Previous, kernelVars,
       diskVars, callVars, sampleVars, banHistory
<1>1. ASSUME NEW p \in Policies, BeginApply(p) PROVE InForce'
  BY <1>1 DEF BeginApply, Begin
<1>2. CASE BeginRollback BY <1>2 DEF BeginRollback, Begin
<1>3. CASE BeginEnsure BY <1>3 DEF BeginEnsure, Begin
<1>4. ASSUME NEW B \in SUBSET Bans, BeginSyncBans(B) PROVE InForce'
  BY <1>4 DEF BeginSyncBans, Begin
<1>5. CASE ReadPolicy BY <1>5 DEF ReadPolicy
<1>6. ASSUME NEW level \in Levels, Decide(level) PROVE InForce'
  BY <1>6 DEF Decide, Streaks, NoteSample, CountTo, Levels
<1>7. CASE SetAdaptiveEmergency BY <1>7 DEF SetAdaptiveEmergency, Begin, SampleDone
<1>8. CASE Refuse BY <1>8 DEF Refuse, Return, SampleDone
<1>9. CASE Check BY <1>9 DEF Check
<1>10. CASE Commit
  <2> USE <1>10 DEF Commit, Commits, Committed
  <2>1. CASE op = "sync"
    BY <2>1 DEF AfterCommit, ClearsEmergency, Goto
  <2>2. CASE op = "adapt"
    <3>1. at' = "adaptive-state.json" /\ op' = op BY <2>2 DEF AfterCommit, Goto
    <3>2. wants \in {"on", "off"} /\ (wants = "on" => policy \in Adaptive) BY <2>2
    <3>3. /\ table # None
          /\ table' = [table EXCEPT !.emergency = IF wants = "on" THEN policy ELSE None]
      BY <2>2
    <3>4. table'.rules = table.rules /\ table'.emergency = IF wants = "on" THEN policy ELSE None
      BY <3>3
    <3>5. emergency' <=> wants = "on" BY <2>2
    <3>6. ~Writes /\ (Believed' <=> wants = "on") BY <2>2, <3>5
    <3>7. policy \in Adaptive => policy # None BY <2>2
    <3>8. SUFFICES ASSUME ~interrupted PROVE InForce' BY <2>2
    <3>9. table.rules = files["current.nft"] /\ files' = files
          /\ files["current.nft"] = files["current-policy.json"]
      BY <2>2, <3>3, <3>6, <3>8
    <3> HIDE <1>10 DEF Believed
    <3> QED BY <3>1, <3>2, <3>4, <3>6, <3>7, <3>9
  <2>3. CASE op = "ensure"
    <3>1. table' = RuntimeRules(base, policy, found) BY <2>3
    <3>2. table'.rules = base
          /\ table'.emergency = IF emergency /\ policy \in Adaptive THEN policy ELSE None
      BY <3>1 DEF RuntimeRules
    <3>3. CASE ClearsEmergency
      <4>1. AfterCommit = "adaptive-state.json" BY <2>3, <3>3, AfterClearing
      <4>2. at' = "adaptive-state.json" BY <4>1 DEF Goto
      <4>3. ~emergency' BY <2>3, <3>3
      <4>4. policy \notin Adaptive BY <3>3 DEF ClearsEmergency
      <4> QED BY <2>3, <3>2, <4>2, <4>3, <4>4
    <3>4. CASE ~ClearsEmergency
      <4>1. emergency' = emergency /\ (emergency => policy \in Adaptive)
        BY <2>3, <3>4 DEF ClearsEmergency
      <4>2. saved' = saved /\ up' = up BY <2>3
      <4> QED BY <2>3, <3>2, <4>1, <4>2
    <3> QED BY <3>3, <3>4
  <2>4. CASE op \in {"apply", "rollback"}
    BY <2>4 DEF AfterCommit, ClearsEmergency, Goto
  <2> QED BY <2>1, <2>2, <2>3, <2>4
<1>11. CASE CommitKilled
  BY <1>11 DEF CommitKilled, Commits, Committed, RuntimeRules, NoteBans, Fault, Return, SampleDone
<1>12. CASE CommitRefused BY <1>12 DEF CommitRefused, Restore, RuntimeRules, Return, SampleDone
<1>13. ASSUME NEW f \in Files, SaveFile(f) PROVE InForce'
  BY <1>13 DEF SaveFile, Content, Copy, AfterFile, Whole, Goto, Return, SampleDone
<1>14. ASSUME NEW f \in Files, SaveFileFails(f) PROVE InForce'
  BY <1>14 DEF SaveFileFails, AfterFile, Fault, Goto, Return, SampleDone
<1>15. CASE SaveEmergency BY <1>15 DEF SaveEmergency, Goto, Return, SampleDone
<1>16. CASE SaveEmergencyFails BY <1>16 DEF SaveEmergencyFails, Fault, Return, SampleDone
<1>17. CASE SaveBans BY <1>17 DEF SaveBans, Return, SampleDone
<1>18. CASE SaveBansFails BY <1>18 DEF SaveBansFails, Fault, Return, SampleDone
<1>19. ASSUME NEW b \in Bans, ExpireBan(b) PROVE InForce'
  BY <1>19 DEF ExpireBan
<1>20. CASE DeleteTable BY <1>20 DEF DeleteTable, Fault
<1>21. CASE Kill
  <2> SUFFICES ASSUME ~interrupted' PROVE InForce'
    OBVIOUS
  <2>1. ~interrupted /\ at \notin Current \cup {"adaptive-state.json"} BY <1>21 DEF Kill, Stop
  <2>2. files'["current.nft"] = files["current.nft"]
        /\ files'["current-policy.json"] = files["current-policy.json"] /\ saved' = saved
    BY <1>21, <2>1 DEF Kill
  <2>3. saved = emergency /\ up /\ ~up' /\ table' = table BY <1>21, <2>1 DEF Kill, Stop
  <2> QED BY <2>1, <2>2, <2>3
<1>22. CASE KillAtCommit
  BY <1>22 DEF KillAtCommit, Commits, Committed, RuntimeRules, NoteBans, Fault
<1>23. CASE Reboot BY <1>23 DEF Reboot, Stop, Fault
<1>24. CASE NewManager BY <1>24 DEF NewManager
<1>25. CASE UNCHANGED vars BY <1>25 DEF vars
<1>26. ASSUME NEW level \in Levels, SkipSample(level) PROVE InForce'
  BY <1>26 DEF SkipSample, NoteSample, CountTo, Levels
<1> QED
  BY <1>1, <1>2, <1>3, <1>4, <1>5, <1>6, <1>7, <1>8, <1>9, <1>10, <1>11, <1>12, <1>13, <1>14,
     <1>15, <1>16, <1>17, <1>18, <1>19, <1>20, <1>21, <1>22, <1>23, <1>24, <1>25, <1>26
  DEF Next

LEMMA NextSavedFirst == TypeOK /\ Operation /\ RulesKept /\ [Next]_vars => SavedFirst'
<1> SUFFICES ASSUME TypeOK, Operation, RulesKept, [Next]_vars PROVE SavedFirst'
  OBVIOUS
<1> USE FirewallAssumption DEF InForce, SavedFirst, RulesKept, Writes, Believed, TypeOK,
       Operation, Tables, Saved, Loads, Files, Current, Previous, kernelVars, diskVars,
       callVars, sampleVars, banHistory
<1>1. ASSUME NEW p \in Policies, BeginApply(p) PROVE SavedFirst'
  BY <1>1 DEF BeginApply, Begin
<1>2. CASE BeginRollback BY <1>2 DEF BeginRollback, Begin
<1>3. CASE BeginEnsure BY <1>3 DEF BeginEnsure, Begin
<1>4. ASSUME NEW B \in SUBSET Bans, BeginSyncBans(B) PROVE SavedFirst'
  BY <1>4 DEF BeginSyncBans, Begin
<1>5. CASE ReadPolicy BY <1>5 DEF ReadPolicy
<1>6. ASSUME NEW level \in Levels, Decide(level) PROVE SavedFirst'
  BY <1>6 DEF Decide, Streaks, NoteSample, CountTo, Levels
<1>7. CASE SetAdaptiveEmergency BY <1>7 DEF SetAdaptiveEmergency, Begin, SampleDone
<1>8. CASE Refuse BY <1>8 DEF Refuse, Return, SampleDone
<1>9. CASE Check BY <1>9 DEF Check
<1>10. CASE Commit
  BY <1>10 DEF Commit, Commits, Committed, RuntimeRules, AfterCommit, ClearsEmergency,
     NoteBans, Return, SampleDone, Goto
<1>11. CASE CommitKilled
  BY <1>11 DEF CommitKilled, Commits, Committed, RuntimeRules, NoteBans, Fault, Return, SampleDone
<1>12. CASE CommitRefused BY <1>12 DEF CommitRefused, Restore, RuntimeRules, Return, SampleDone
<1>13. ASSUME NEW f \in Files, SaveFile(f) PROVE SavedFirst'
  BY <1>13 DEF SaveFile, Content, Copy, AfterFile, Whole, Goto, Return, SampleDone
<1>14. ASSUME NEW f \in Files, SaveFileFails(f) PROVE SavedFirst'
  BY <1>14 DEF SaveFileFails, AfterFile, Fault, Goto, Return, SampleDone
<1>15. CASE SaveEmergency BY <1>15 DEF SaveEmergency, Goto, Return, SampleDone
<1>16. CASE SaveEmergencyFails BY <1>16 DEF SaveEmergencyFails, Fault, Return, SampleDone
<1>17. CASE SaveBans BY <1>17 DEF SaveBans, Return, SampleDone
<1>18. CASE SaveBansFails BY <1>18 DEF SaveBansFails, Fault, Return, SampleDone
<1>19. ASSUME NEW b \in Bans, ExpireBan(b) PROVE SavedFirst'
  BY <1>19 DEF ExpireBan
<1>20. CASE DeleteTable BY <1>20 DEF DeleteTable, Fault
<1>21. CASE Kill BY <1>21 DEF Kill, Stop, Fault
<1>22. CASE KillAtCommit
  BY <1>22 DEF KillAtCommit, Commits, Committed, RuntimeRules, NoteBans, Fault
<1>23. CASE Reboot BY <1>23 DEF Reboot, Stop, Fault
<1>24. CASE NewManager BY <1>24 DEF NewManager
<1>25. CASE UNCHANGED vars BY <1>25 DEF vars
<1>26. ASSUME NEW level \in Levels, SkipSample(level) PROVE SavedFirst'
  BY <1>26 DEF SkipSample, NoteSample, CountTo, Levels
<1> QED
  BY <1>1, <1>2, <1>3, <1>4, <1>5, <1>6, <1>7, <1>8, <1>9, <1>10, <1>11, <1>12, <1>13, <1>14,
     <1>15, <1>16, <1>17, <1>18, <1>19, <1>20, <1>21, <1>22, <1>23, <1>24, <1>25, <1>26
  DEF Next

LEMMA NextIInv == IInv /\ [Next]_vars => IInv'
<1> SUFFICES ASSUME IInv, [Next]_vars PROVE IInv'
  OBVIOUS
<1>1. TypeOK' <=> BanTypes' /\ FileTypes' /\ OperationTypes' /\ SampleTypes' /\ FlagTypes'
  BY DEF TypeOK, BanTypes, FileTypes, OperationTypes, SampleTypes, FlagTypes
<1> QED
  BY <1>1, NextBanTypes, NextFileTypes, NextOperationTypes, NextSampleTypes, NextFlagTypes,
     NextOperation, NextDecision, NextBansKept, NextWritten, NextInForce, NextSavedFirst
  DEF IInv, RulesKept

LEMMA Invariance == Spec => []IInv
<1> QED BY InitIInv, NextIInv, PTL DEF Spec

-----------------------------------------------------------------------------
\* Every variable keeps its type; the emergency chain is only ever filled from an adaptive
\* policy and the table only from a complete one (Manager.Apply, Rollback, Ensure).
THEOREM FirewallTypeCorrect == Spec => []TypeOK
<1>1. IInv => TypeOK BY DEF IInv
<1> QED BY Invariance, <1>1, PTL

\* The kernel blocks the bans of the last SyncBans that succeeded, whatever policies were
\* loaded and whatever was killed since (compileRuntimeRules, writeStateFileAtomic).
THEOREM BansStayExact == Spec => []BansExact
<1>1. IInv => BansExact BY DEF IInv, BansKept, BansExact
<1> QED BY Invariance, <1>1, PTL

\* The rules in the kernel are the ones on disk unless an operation was cut short (persist).
THEOREM RulesOnDisk == Spec => []PolicyInForce
<1>1. IInv => PolicyInForce
  BY DEF IInv, RulesKept, InForce, TypeOK, PolicyInForce, Settled, Writes, Current
<1> QED BY Invariance, <1>1, PTL

\* So are the emergency state of the Manager, of its file and of the kernel's chain
\* (SetAdaptiveEmergency, clearAdaptiveEmergencyLocked).
THEOREM EmergencyOnDisk == Spec => []EmergencyKnown
<1>1. IInv => EmergencyKnown
  <2> SUFFICES ASSUME IInv, Settled PROVE EmergencyKnown
    BY DEF EmergencyKnown
  <2>1. up /\ ~interrupted /\ ~Writes /\ table # None /\ at = "idle"
    BY DEF IInv, TypeOK, Settled, Writes
  <2>2. saved = emergency BY <2>1 DEF IInv, RulesKept, InForce
  <2>3. Believed = emergency BY <2>1 DEF Believed
  <2> QED BY <2>1, <2>2, <2>3 DEF IInv, RulesKept, InForce, EmergencyKnown
<1> QED BY Invariance, <1>1, PTL

-----------------------------------------------------------------------------
\* What Hysteresis says of one step.
HysteresisStep ==
    /\ up /\ up' /\ ~emergency /\ emergency' => hot = Trigger \/ skipped
    /\ up' /\ op = "adapt" /\ emergency /\ ~emergency' /\ policy \in Adaptive
          => cold = Recover \/ skipped

\* While the Agent runs, only the transaction of SetAdaptiveEmergency begins an emergency.
LEMMA StepHysteresis == IInv /\ [Next]_vars => HysteresisStep
<1> SUFFICES ASSUME IInv, [Next]_vars PROVE HysteresisStep
  OBVIOUS
<1> USE FirewallAssumption DEF HysteresisStep, IInv, TypeOK, Operation, Decision, Files,
       Current, Previous, kernelVars, diskVars, callVars, sampleVars, banHistory
<1>1. ASSUME NEW p \in Policies, BeginApply(p) PROVE HysteresisStep
  BY <1>1 DEF BeginApply, Begin
<1>2. CASE BeginRollback BY <1>2 DEF BeginRollback, Begin
<1>3. CASE BeginEnsure BY <1>3 DEF BeginEnsure, Begin
<1>4. ASSUME NEW B \in SUBSET Bans, BeginSyncBans(B) PROVE HysteresisStep
  BY <1>4 DEF BeginSyncBans, Begin
<1>5. CASE ReadPolicy BY <1>5 DEF ReadPolicy
<1>6. ASSUME NEW level \in Levels, Decide(level) PROVE HysteresisStep
  BY <1>6 DEF Decide, Streaks, NoteSample, CountTo, Levels
<1>7. CASE SetAdaptiveEmergency BY <1>7 DEF SetAdaptiveEmergency, Begin, SampleDone
<1>8. CASE Refuse BY <1>8 DEF Refuse, Return, SampleDone
<1>9. CASE Check BY <1>9 DEF Check
<1>10. CASE Commit
  BY <1>10 DEF Commit, Commits, Committed, RuntimeRules, AfterCommit, ClearsEmergency,
     NoteBans, Return, SampleDone, Goto
<1>11. CASE CommitKilled
  BY <1>11 DEF CommitKilled, Commits, Committed, RuntimeRules, NoteBans, Fault, Return, SampleDone
<1>12. CASE CommitRefused BY <1>12 DEF CommitRefused, Restore, RuntimeRules, Return, SampleDone
<1>13. ASSUME NEW f \in Files, SaveFile(f) PROVE HysteresisStep
  BY <1>13 DEF SaveFile, Content, Copy, AfterFile, Whole, Goto, Return, SampleDone
<1>14. ASSUME NEW f \in Files, SaveFileFails(f) PROVE HysteresisStep
  BY <1>14 DEF SaveFileFails, AfterFile, Fault, Goto, Return, SampleDone
<1>15. CASE SaveEmergency BY <1>15 DEF SaveEmergency, Goto, Return, SampleDone
<1>16. CASE SaveEmergencyFails BY <1>16 DEF SaveEmergencyFails, Fault, Return, SampleDone
<1>17. CASE SaveBans BY <1>17 DEF SaveBans, Return, SampleDone
<1>18. CASE SaveBansFails BY <1>18 DEF SaveBansFails, Fault, Return, SampleDone
<1>19. ASSUME NEW b \in Bans, ExpireBan(b) PROVE HysteresisStep
  BY <1>19 DEF ExpireBan
<1>20. CASE DeleteTable BY <1>20 DEF DeleteTable, Fault
<1>21. CASE Kill BY <1>21 DEF Kill, Stop, Fault
<1>22. CASE KillAtCommit
  BY <1>22 DEF KillAtCommit, Commits, Committed, RuntimeRules, NoteBans, Fault
<1>23. CASE Reboot BY <1>23 DEF Reboot, Stop, Fault
<1>24. CASE NewManager BY <1>24 DEF NewManager
<1>25. CASE UNCHANGED vars BY <1>25 DEF vars
<1>26. ASSUME NEW level \in Levels, SkipSample(level) PROVE HysteresisStep
  BY <1>26 DEF SkipSample, NoteSample, CountTo, Levels
<1> QED
  BY <1>1, <1>2, <1>3, <1>4, <1>5, <1>6, <1>7, <1>8, <1>9, <1>10, <1>11, <1>12, <1>13, <1>14,
     <1>15, <1>16, <1>17, <1>18, <1>19, <1>20, <1>21, <1>22, <1>23, <1>24, <1>25, <1>26
  DEF Next

\* An emergency begins after Trigger samples in a row under pressure and, under an adaptive
\* policy, ends after Recover samples in a row below the lower thresholds, unless a sample that
\* interrupted them found no policy to judge it by (Observe).
THEOREM EmergencyHysteresis == Spec => Hysteresis
<1>1. IInv /\ [Next]_vars => [HysteresisStep]_vars BY StepHysteresis
<1>2. [HysteresisStep]_vars <=>
          [/\ up /\ up' /\ ~emergency /\ emergency' => hot = Trigger \/ skipped
           /\ up' /\ op = "adapt" /\ emergency /\ ~emergency' /\ policy \in Adaptive
                 => cold = Recover \/ skipped]_vars
  BY DEF HysteresisStep
<1> QED BY Invariance, <1>1, <1>2, PTL DEF Spec, Hysteresis
=============================================================================
