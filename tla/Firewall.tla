------------------------------ MODULE Firewall ------------------------------
(***************************************************************************)
(* The Agent's firewall manager (internal/firewall/manager.go) and the     *)
(* adaptive controller that drives its emergency rules                     *)
(* (internal/agent/adaptive.go), over the nftables table in the kernel and *)
(* the state files in the Agent's directory.                               *)
(*                                                                         *)
(* Manager operations run under one mutex; every nft command that changes  *)
(* the table and every file they write is a step of its own, so that a     *)
(* killed process, a reboot, a context that ends and a full disk fall      *)
(* between any two of them.  os.WriteFile truncates before it writes: a    *)
(* torn write leaves an empty file.  The adaptive controller runs beside   *)
(* the reader of controller commands and takes the mutex three times for   *)
(* one sample.                                                             *)
(*                                                                         *)
(* A policy stands for the rules Compile makes of it.  An nft command that *)
(* only lists or checks does not fail by accident, and files written       *)
(* before a reboot survive it.                                             *)
(***************************************************************************)
EXTENDS Naturals

CONSTANTS Policies,    \* policies the controller deploys
          Adaptive,    \* those whose adaptive protection is enabled
          Bans,        \* ban targets: an address with its expiry, if it has one
          Trigger,     \* adaptiveTriggerSamples (2)
          Recover,     \* adaptiveRecoverSamples (12)
          MaxFaults,   \* bound: kills, reboots, failed writes, ended contexts, table losses
          None,        \* no table, no file
          Empty        \* a file with nothing in it

ASSUME FirewallAssumption ==
    /\ Adaptive \subseteq Policies
    /\ Trigger \in Nat \ {0} /\ Recover \in Nat \ {0} /\ MaxFaults \in Nat
    /\ None # Empty /\ None \notin Policies /\ Empty \notin Policies

Previous == {"previous.nft", "previous-policy.json"}
Current == {"current.nft", "current-policy.json"}
Files == Previous \cup Current

VARIABLES
  table,        \* the kernel's inet mmwx_guard table: its rules, the policy its emergency
                \* chain was filled from and the banned addresses
  files,        \* the saved policies
  bansFile,     \* manual-bans.json, {} when there is none
  saved,        \* adaptive-state.json says emergency
  up,           \* the Agent process runs
  emergency,    \* Manager.emergency
  op,           \* the operation that holds Manager.mu
  at,           \* what it does next: "check" the rules, "commit" them, or the file it writes
  base, policy, \* the rules and the policy it works with
  found,        \* the bans it works with
  listed,       \* what nft list table told it
  observer,     \* Observe: "idle", "status" (it has read the policy), "set" (it has decided)
  observed,     \* the policy it read
  wants,        \* "on", "off": the argument of SetAdaptiveEmergency
  high, low,    \* highSamples and lowSamples
  expired,      \* bans whose time is over
  result,       \* what the last operation returned
  faults,       \* faults so far
  \* History: no step of the Agent reads these.
  owed, allowed,\* bans the table must hold, and may hold, after the SyncBans calls so far
  interrupted,  \* an operation ended between changing the table and saving what it did
  hot, cold,    \* samples in a row under pressure and below the recovery thresholds
  skipped       \* a sample that ends the streak being counted was not counted

kernelVars == <<table, expired>>
diskVars == <<files, bansFile, saved>>
callVars == <<op, at, base, policy, found, listed>>
sampleVars == <<observer, observed, wants, high, low, hot, cold, skipped>>
banHistory == <<owed, allowed>>
vars == <<kernelVars, diskVars, up, emergency, callVars, sampleVars, result, faults,
          banHistory, interrupted>>

Init ==
    /\ table = None /\ expired = {}
    /\ files = [f \in Files |-> None] /\ bansFile = {} /\ saved = FALSE
    /\ up = TRUE /\ emergency = FALSE
    /\ op = "none" /\ at = "idle" /\ base = None /\ policy = None
    /\ found = {} /\ listed = FALSE
    /\ observer = "idle" /\ observed = None /\ wants = "none" /\ high = 0 /\ low = 0
    /\ result = "none" /\ faults = 0
    /\ owed = {} /\ allowed = {} /\ interrupted = FALSE
    /\ hot = 0 /\ cold = 0 /\ skipped = FALSE

Fault == faults < MaxFaults /\ faults' = faults + 1

-----------------------------------------------------------------------------
\* Taking and releasing the mutex.

\* Mutant of LiveBans: the saved bans are not loaded.
LiveBansUnread == {}

\* currentBansLocked: the saved bans that are not over.
LiveBans == bansFile \ expired

Begin(o, rules, p, bans) ==
    /\ up /\ op = "none"
    /\ op' = o /\ at' = "check" /\ base' = rules /\ policy' = p /\ found' = bans
    /\ listed' = FALSE /\ result' = "none"
    /\ UNCHANGED <<kernelVars, diskVars, up, emergency, faults, banHistory, interrupted>>

\* A successful SetAdaptiveEmergency starts its streak of samples again.
SampleDone(ok) ==
    /\ observer' = "idle" /\ observed' = None /\ wants' = "none"
    /\ high' = IF ok /\ wants = "on" THEN 0 ELSE high
    /\ low' = IF ok /\ wants = "off" THEN 0 ELSE low
    /\ UNCHANGED <<hot, cold, skipped>>

Return(r) ==
    /\ op' = "none" /\ at' = "idle" /\ base' = None /\ policy' = None
    /\ found' = {} /\ listed' = FALSE /\ result' = r
    /\ IF op = "adapt" THEN SampleDone(r = "ok") ELSE UNCHANGED sampleVars

Goto(a) == at' = a /\ UNCHANGED <<op, base, policy, found, listed, result, sampleVars>>

BeginApply(p) == Begin("apply", p, p, LiveBans) /\ UNCHANGED sampleVars

\* Rollback to the previous policy, if its metadata can be read.
BeginRollback ==
    /\ files["previous.nft"] # None /\ files["previous-policy.json"] \in Policies
    /\ Begin("rollback", files["previous.nft"], files["previous-policy.json"], LiveBans)
    /\ UNCHANGED sampleVars

\* Ensure, every 30 s, in the goroutine that also takes the samples: without the table,
\* the saved rules are loaded again.
BeginEnsure ==
    /\ observer = "idle" /\ table = None
    /\ \A f \in Current : files[f] \in Policies
    /\ Begin("ensure", files["current.nft"], files["current-policy.json"], LiveBans)
    /\ UNCHANGED sampleVars

BeginSyncBans(B) ==
    /\ B \cap expired = {}
    /\ Begin("sync", None, None, B)
    /\ UNCHANGED sampleVars

\* SetAdaptiveEmergency with what Observe decided; it has nothing to do when the state is
\* already the wanted one.
SetAdaptiveEmergency ==
    /\ observer = "set"
    /\ \/ /\ (wants = "on") # emergency
          /\ Begin("adapt", None, observed, {})
          /\ UNCHANGED sampleVars
       \/ /\ up /\ op = "none" /\ (wants = "on") = emergency
          /\ SampleDone(TRUE)
          /\ UNCHANGED <<kernelVars, diskVars, up, emergency, callVars, result, faults,
                         banHistory, interrupted>>

-----------------------------------------------------------------------------
\* Before the table changes.

\* The operation fails and has changed nothing: an invalid policy, an unreadable file, a
\* ban that ended after it was loaded, rules nft refuses, a context that is over.
Refuse ==
    /\ at = "check"
    /\ Return("failed")
    /\ UNCHANGED <<kernelVars, diskVars, up, emergency, faults, banHistory, interrupted>>

\* The rules compile and pass nft -c; transactionRules has looked for the table to replace.
Check ==
    /\ at = "check"
    /\ found \cap expired = {} /\ base # Empty
    /\ op \in {"sync", "adapt"} => table # None
    /\ at' = IF op = "apply" /\ files["current.nft"] \in Policies
             THEN "previous.nft" ELSE "commit"
    /\ listed' = (table # None)
    /\ UNCHANGED <<kernelVars, diskVars, up, emergency, op, base, policy, found, sampleVars,
                   result, faults, banHistory, interrupted>>

-----------------------------------------------------------------------------
\* The nft transaction.

\* Mutant of RuntimeRules: the emergency rules are added whatever the policy says.
RuntimeRulesAlways(rules, p, bans) ==
    [rules |-> rules,
     emergency |-> IF emergency THEN p ELSE None,
     bans |-> bans \ expired]

\* compileRuntimeRules: base rules, emergency rules and bans in one transaction.
RuntimeRules(rules, p, bans) ==
    [rules |-> rules,
     emergency |-> IF emergency /\ p \in Adaptive THEN p ELSE None,
     bans |-> bans \ expired]

\* The table the operation's transaction leaves.
Committed ==
    CASE op = "sync" -> [table EXCEPT !.bans = found \ expired]
      [] op = "adapt" -> [table EXCEPT !.emergency = IF wants = "on" THEN policy ELSE None]
      [] OTHER -> RuntimeRules(base, policy, found)

\* A policy without adaptive protection ends the emergency; Apply saves the state even
\* when there is none.
ClearsEmergency ==
    /\ op \in {"apply", "rollback", "ensure"}
    /\ policy \notin Adaptive
    /\ op = "apply" \/ emergency

\* Mutant of AfterCommit: SetAdaptiveEmergency does not save the new state.
AfterCommitUnsaved ==
    CASE op = "sync" -> "manual-bans.json"
      [] ClearsEmergency -> "adaptive-state.json"
      [] op = "adapt" \/ (op = "ensure" /\ ~ClearsEmergency) -> "idle"
      [] OTHER -> "current.nft"

AfterCommit ==
    CASE op = "sync" -> "manual-bans.json"
      [] op = "adapt" \/ ClearsEmergency -> "adaptive-state.json"
      [] op = "ensure" /\ ~ClearsEmergency -> "idle"
      [] OTHER -> "current.nft"

\* The bans of a SyncBans whose transaction went through may be in the table from now on,
\* and those it left out need not be.
NoteBans ==
    IF op = "sync" THEN owed' = owed \cap found /\ allowed' = allowed \cup found
    ELSE UNCHANGED banHistory

\* nft runs against the table it was prepared for.
Commits == at = "commit" /\ listed = (table # None) /\ table' = Committed /\ NoteBans

Commit ==
    /\ Commits
    /\ emergency' = IF op = "adapt" THEN wants = "on" ELSE emergency /\ ~ClearsEmergency
    /\ IF AfterCommit = "idle" THEN Return("ok") ELSE Goto(AfterCommit)
    /\ UNCHANGED <<expired, diskVars, up, faults, interrupted>>

\* The context ends after nft has committed and before it exits.
CommitKilled ==
    /\ Commits /\ Fault
    /\ interrupted' = TRUE
    /\ Return("failed")
    /\ UNCHANGED <<expired, diskVars, up, emergency>>

\* Mutant of Restore: the rules come from the previous policy's files.
RestorePrevious ==
    /\ \A f \in Previous : files[f] \in Policies
    /\ table' = RuntimeRules(files["previous.nft"], files["previous-policy.json"], found)

\* Apply loads the rules it meant to replace once more.
Restore ==
    /\ \A f \in Current : files[f] \in Policies
    /\ table' = RuntimeRules(files["current.nft"], files["current-policy.json"], found)

\* nft refuses the transaction: nothing of it is applied.
CommitRefused ==
    /\ at = "commit"
    /\ \/ UNCHANGED table
       \/ op = "apply" /\ Restore
    /\ Return("failed")
    /\ UNCHANGED <<expired, diskVars, up, emergency, faults, banHistory, interrupted>>

-----------------------------------------------------------------------------
\* What the operation saves.

\* os.ReadFile of a missing file gives no bytes, and os.WriteFile an empty file.
Copy(f) == IF files[f] = None THEN Empty ELSE files[f]

Content(f) ==
    CASE f = "previous.nft" -> files["current.nft"]
      [] f = "previous-policy.json" -> Copy("current-policy.json")
      [] f = "current.nft" -> base
      [] f = "current-policy.json" -> policy

AfterFile(f) ==
    CASE f = "previous.nft" -> "previous-policy.json"
      [] f = "previous-policy.json" -> "commit"
      [] f = "current.nft" -> "current-policy.json"
      [] f = "current-policy.json" -> "idle"

\* What an operation that succeeds leaves is whole, with two exceptions: Apply of an adaptive
\* policy does not write adaptive-state.json again, and Rollback takes what it finds in two
\* files that Apply, killed or out of disk, may have left from different policies.
Whole == interrupted' = (saved # emergency \/ base # policy)

SaveFile(f) ==
    /\ at = f
    /\ files' = [files EXCEPT ![f] = Content(f)]
    /\ IF AfterFile(f) = "idle" THEN Return("ok") /\ Whole
       ELSE Goto(AfterFile(f)) /\ UNCHANGED interrupted
    /\ UNCHANGED <<kernelVars, bansFile, saved, up, emergency, faults, banHistory>>

\* The write fails, before or after it has truncated the file; Apply does not look at
\* the errors of its copies.
SaveFileFails(f) ==
    /\ at = f /\ Fault
    /\ files' \in {files, [files EXCEPT ![f] = Empty]}
    /\ IF f \in Previous THEN Goto(AfterFile(f)) /\ UNCHANGED interrupted
       ELSE Return("failed") /\ interrupted' = TRUE
    /\ UNCHANGED <<kernelVars, bansFile, saved, up, emergency, banHistory>>

\* persistAdaptiveStateLocked.
SaveEmergency ==
    /\ at = "adaptive-state.json"
    /\ saved' = emergency
    /\ IF op \in {"ensure", "adapt"} THEN Return("ok") ELSE Goto("current.nft")
    /\ UNCHANGED <<kernelVars, files, bansFile, up, emergency, faults, banHistory, interrupted>>

SaveEmergencyFails ==
    /\ at = "adaptive-state.json" /\ Fault
    /\ saved' \in {saved, FALSE}
    /\ interrupted' = TRUE
    /\ Return("failed")
    /\ UNCHANGED <<kernelVars, files, bansFile, up, emergency, banHistory>>

\* writeStateFileAtomic: a temporary file, renamed.
SaveBans ==
    /\ at = "manual-bans.json"
    /\ bansFile' = found
    /\ owed' = found /\ allowed' = found
    /\ Return("ok")
    /\ UNCHANGED <<kernelVars, files, saved, up, emergency, faults, interrupted>>

SaveBansFails ==
    /\ at = "manual-bans.json" /\ Fault
    /\ Return("failed")
    /\ UNCHANGED <<kernelVars, diskVars, up, emergency, banHistory, interrupted>>

-----------------------------------------------------------------------------
\* Observe.

Levels == {"pressured", "between", "recovered"}

CountTo(n, limit) == IF n < limit THEN n + 1 ELSE limit

ReadPolicy ==
    /\ up /\ op = "none" /\ observer = "idle"
    /\ files["current-policy.json"] \in Policies
    /\ observer' = "status" /\ observed' = files["current-policy.json"]
    /\ UNCHANGED <<kernelVars, diskVars, up, emergency, callVars, wants, high, low, hot, cold,
                   skipped, result, faults, banHistory, interrupted>>

\* The streaks in the samples themselves.
NoteSample(level) ==
    /\ hot' = IF level = "pressured" THEN CountTo(hot, Trigger) ELSE 0
    /\ cold' = IF level = "recovered" THEN CountTo(cold, Recover) ELSE 0

\* current-policy.json is missing or torn: Observe leaves its counters as they are.
SkipSample(level) ==
    /\ up /\ op = "none" /\ observer = "idle"
    /\ files["current-policy.json"] \notin Policies
    /\ NoteSample(level)
    /\ skipped' = \/ skipped
                  \/ high > 0 /\ level # "pressured"
                  \/ low > 0 /\ level # "recovered"
    /\ UNCHANGED <<kernelVars, diskVars, up, emergency, callVars, observer, observed, wants,
                   high, low, result, faults, banHistory, interrupted>>

\* Mutant of Streaks: a sample without pressure does not end the streak.
StreaksKept(level) ==
    IF observed \notin Adaptive THEN high' = 0 /\ low' = 0
    ELSE IF ~emergency THEN
        /\ high' = IF level = "pressured" THEN CountTo(high, Trigger) ELSE high
        /\ low' = 0
    ELSE
        /\ high' = 0
        /\ low' = IF level = "recovered" THEN CountTo(low, Recover) ELSE 0

Streaks(level) ==
    IF observed \notin Adaptive THEN high' = 0 /\ low' = 0
    ELSE IF ~emergency THEN
        /\ high' = IF level = "pressured" THEN CountTo(high, Trigger) ELSE 0
        /\ low' = 0
    ELSE
        /\ high' = 0
        /\ low' = IF level = "recovered" THEN CountTo(low, Recover) ELSE 0

\* AdaptiveStatus and the decision on the sample.
Decide(level) ==
    /\ up /\ op = "none" /\ observer = "status"
    /\ Streaks(level)
    /\ NoteSample(level)
    /\ skipped' = (skipped /\ ((high > 0 /\ high' > 0) \/ (low > 0 /\ low' > 0)))
    /\ LET decision == CASE observed \notin Adaptive /\ emergency -> "off"
                         [] observed \in Adaptive /\ ~emergency /\ high' >= Trigger -> "on"
                         [] observed \in Adaptive /\ emergency /\ low' >= Recover -> "off"
                         [] OTHER -> "none"
       IN  /\ wants' = decision
           /\ observer' = IF decision = "none" THEN "idle" ELSE "set"
           /\ observed' = IF decision = "none" THEN None ELSE observed
    /\ UNCHANGED <<kernelVars, diskVars, up, emergency, callVars, result, faults,
                   banHistory, interrupted>>

-----------------------------------------------------------------------------
\* Outside the Agent.

\* The time of a ban is over; the kernel drops it at the same time.
ExpireBan(b) ==
    /\ b \notin expired
    /\ expired' = expired \cup {b}
    /\ table' = IF table = None THEN None ELSE [table EXCEPT !.bans = @ \ {b}]
    /\ UNCHANGED <<diskVars, up, emergency, callVars, sampleVars, result, faults,
                   banHistory, interrupted>>

\* Somebody flushes the host's rules.
DeleteTable ==
    /\ table # None /\ Fault
    /\ table' = None
    /\ UNCHANGED <<expired, diskVars, up, emergency, callVars, sampleVars, result,
                   banHistory, interrupted>>

\* The process is gone, with its memory.
Stop ==
    /\ up /\ Fault
    /\ up' = FALSE /\ emergency' = FALSE
    /\ op' = "none" /\ at' = "idle" /\ base' = None /\ policy' = None
    /\ found' = {} /\ listed' = FALSE /\ result' = "none"
    /\ observer' = "idle" /\ observed' = None /\ wants' = "none"
    /\ high' = 0 /\ low' = 0 /\ hot' = 0 /\ cold' = 0 /\ skipped' = FALSE
    /\ interrupted' = (interrupted \/ at \in Current \cup {"adaptive-state.json"})

\* Killed while it writes a file, which may stay torn.
Kill ==
    /\ Stop
    /\ \/ UNCHANGED <<files, saved>>
       \/ /\ at \in Files
          /\ files' = [files EXCEPT ![at] = Empty] /\ UNCHANGED saved
       \/ at = "adaptive-state.json" /\ saved' = FALSE /\ UNCHANGED files
    /\ UNCHANGED <<kernelVars, bansFile, banHistory>>

\* Killed while nft runs, which commits all the same.
KillAtCommit ==
    /\ Commits /\ Fault
    /\ up' = FALSE /\ emergency' = FALSE
    /\ op' = "none" /\ at' = "idle" /\ base' = None /\ policy' = None
    /\ found' = {} /\ listed' = FALSE /\ result' = "none"
    /\ observer' = "idle" /\ observed' = None /\ wants' = "none"
    /\ high' = 0 /\ low' = 0 /\ hot' = 0 /\ cold' = 0 /\ skipped' = FALSE
    /\ interrupted' = TRUE
    /\ UNCHANGED <<expired, diskVars>>

\* The host stops between two writes and loses the table.
Reboot ==
    /\ Stop
    /\ table' = None
    /\ UNCHANGED <<expired, diskVars, banHistory>>

\* NewManager reads adaptive-state.json.
NewManager ==
    /\ ~up
    /\ up' = TRUE /\ emergency' = saved
    /\ UNCHANGED <<kernelVars, diskVars, callVars, sampleVars, result, faults,
                   banHistory, interrupted>>

-----------------------------------------------------------------------------
Next ==
    \/ \E p \in Policies : BeginApply(p)
    \/ BeginRollback \/ BeginEnsure
    \/ \E B \in SUBSET Bans : BeginSyncBans(B)
    \/ ReadPolicy \/ SetAdaptiveEmergency
    \/ \E level \in Levels : Decide(level) \/ SkipSample(level)
    \/ Refuse \/ Check
    \/ Commit \/ CommitKilled \/ CommitRefused
    \/ \E f \in Files : SaveFile(f) \/ SaveFileFails(f)
    \/ SaveEmergency \/ SaveEmergencyFails
    \/ SaveBans \/ SaveBansFails
    \/ \E b \in Bans : ExpireBan(b)
    \/ DeleteTable \/ Kill \/ KillAtCommit \/ Reboot \/ NewManager

Spec == Init /\ [][Next]_vars

-----------------------------------------------------------------------------
Tables == [rules : Policies, emergency : Adaptive \cup {None}, bans : SUBSET Bans]

Saved == Policies \cup {None, Empty}

TypeOK ==
    /\ table \in Tables \cup {None} /\ expired \in SUBSET Bans
    /\ files \in [Files -> Saved] /\ bansFile \in SUBSET Bans /\ saved \in BOOLEAN
    /\ up \in BOOLEAN /\ emergency \in BOOLEAN
    /\ op \in {"none", "apply", "rollback", "ensure", "sync", "adapt"}
    /\ at \in {"idle", "check", "commit", "adaptive-state.json", "manual-bans.json"} \cup Files
    /\ op = "none" <=> at = "idle"
    /\ base \in Saved /\ policy \in Policies \cup {None}
    /\ found \in SUBSET Bans /\ listed \in BOOLEAN
    /\ observer \in {"idle", "status", "set"} /\ wants \in {"none", "on", "off"}
    /\ observed \in Policies \cup {None}
    /\ observer = "set" <=> wants # "none"
    /\ high \in 0..Trigger /\ low \in 0..Recover /\ hot \in 0..Trigger /\ cold \in 0..Recover
    /\ skipped \in BOOLEAN
    /\ result \in {"none", "ok", "failed"} /\ faults \in 0..MaxFaults
    /\ owed \in SUBSET Bans /\ allowed \in SUBSET Bans /\ interrupted \in BOOLEAN

Settled == up /\ op = "none" /\ ~interrupted /\ table # None

\* The bans in the kernel are those of the last SyncBans that succeeded, whatever policy was
\* applied, rolled back or loaded again since and whenever the Agent was killed; a SyncBans
\* that failed half way leaves a mixture of its list and that one
\* (compileRuntimeRules, manager.go:124; writeStateFileAtomic, manager.go:420).
BansExact ==
    table # None => /\ (owed \ expired) \subseteq table.bans
                    /\ table.bans \subseteq allowed

\* Once an operation has not been cut short, the rules in the kernel are the rules and the
\* policy on disk, so that Ensure, Rollback and Observe work with what is in force
\* (persist, manager.go:399).
PolicyInForce ==
    Settled => \A f \in Current : files[f] = table.rules

\* Likewise the emergency state: the chain in the kernel is filled only while the Manager
\* believes so, under a policy with adaptive protection exactly then, and a restart will
\* believe it too (manager.go:101, 169, 220, 254).  A decision taken under the policy before
\* may start an emergency under one without; the next sample ends it.
EmergencyKnown ==
    Settled => /\ table.emergency # None => emergency
               /\ emergency /\ table.rules \in Adaptive => table.emergency # None
               /\ saved <=> emergency

\* A running Agent enters the emergency only after Trigger samples in a row under pressure
\* and, unless the policy changed to one without it, leaves it only after Recover samples
\* in a row below the lower thresholds, however its three looks at the Manager interleave with
\* new policies (adaptive.go:26).  The exception: a sample that would have ended the streak
\* was taken while the saved policy could not be read, and left the streak alone.
Hysteresis ==
    [][/\ up /\ up' /\ ~emergency /\ emergency' => hot = Trigger \/ skipped
       /\ up' /\ op = "adapt" /\ emergency /\ ~emergency' /\ policy \in Adaptive
             => cold = Recover \/ skipped]_vars

\* Does not hold, against SECURITY.md:23: the same without the exception (adaptive.go:28).
StreaksUnbroken ==
    [][up /\ up' /\ ~emergency /\ emergency' => hot = Trigger]_vars

\* Does not hold, against SECURITY.md:22: that rules that fail to apply leave or bring back the
\* old ones. Apply may fail after the commit (manager.go:105, 111).
FailureKeepsRules ==
    /\ op = "none" /\ result = "failed" /\ table # None /\ files["current.nft"] \in Policies
    => table.rules = files["current.nft"]

=============================================================================
