----------------------------- MODULE AgentTasks -----------------------------
(***************************************************************************)
(* The persistent task queue of one Agent: the agent_tasks table of        *)
(* internal/store/store.go, the goroutine that works through it            *)
(* (processQueuedAgentTasks in internal/controller/server.go) and the      *)
(* request handlers that create, execute, retry and cancel tasks beside    *)
(* it.  The taskRunning flag and the goroutines of other Agents do not     *)
(* interfere, so one Agent is modelled; their rows count towards the limit *)
(* of the table, and its oldest row may be deleted whenever a task is      *)
(* created.  A task is its row number.                                     *)
(*                                                                         *)
(* Every SQL statement or transaction is one step.  What a task does on    *)
(* the Agent is a call into the Hub that succeeds, is refused or errors at *)
(* any later time; the Agent connects and drops at any time, and the       *)
(* controller may be killed between any two steps.  The policy rows a      *)
(* policy_deploy task refers to are left out here.                         *)
(***************************************************************************)
EXTENDS Naturals

CONSTANTS MaxTasks,     \* bound: rows ever created
          MaxAttempts,  \* model.AgentTaskMaxAttempts (10)
          MaxTriggers,  \* bound: goroutines about to call processQueuedAgentTasks
          Retriers      \* administrators' concurrent retry requests

ASSUME BoundsAssumption ==
    /\ MaxTasks \in Nat
    /\ MaxAttempts \in Nat \ {0} /\ MaxTriggers \in Nat \ {0}

Tasks == 1..MaxTasks
Kinds == {"policy_deploy", "ban_sync"}

VARIABLES
  online,     \* Hub.Online
  created,    \* rows inserted so far
  kind,       \* agent_tasks.kind
  state,      \* agent_tasks.state, "none" for no row
  attempts,   \* agent_tasks.attempts
  saving,     \* handleSaveAgentProtection before its insert: "none", or the
              \* "online"/"offline" it read first
  handler,    \* the request that created the row: "idle", "created", "run" (it claimed the
              \* task), "requeue", "done"; its context ended before it claimed the task
              \* ("cut") or afterwards ("abandoned")
  triggers,   \* goroutines about to call processQueuedAgentTasks
  processor,  \* processQueuedAgentTasks: "off", "list", "next", "run", "requeue", "stopping";
              \* taskRunning is set unless it is off
  batch,      \* the tasks it has listed and not looked at, taken in row order
  current,    \* the task it executes, 0 for none
  retry,      \* handleRetryTask past its check: the task, 0 for none
  \* History: no step reads it.
  raced       \* tasks two retry requests have been past their check for at once

rowVars == <<created, kind, state, attempts>>
processorVars == <<processor, batch, current>>
retryVars == <<retry, raced>>
tasksVars == <<online, rowVars, saving, handler, triggers, processorVars, retryVars>>

TasksInit ==
    /\ online = FALSE /\ created = 0
    /\ kind = [t \in Tasks |-> "ban_sync"]
    /\ state = [t \in Tasks |-> "none"]
    /\ attempts = [t \in Tasks |-> 0]
    /\ saving = "none"
    /\ handler = [t \in Tasks |-> "idle"]
    /\ triggers = 0
    /\ processor = "off" /\ batch = {} /\ current = 0
    /\ retry = [a \in Retriers |-> 0] /\ raced = {}

-----------------------------------------------------------------------------
\* The table.

\* The row the DELETE of CreateAgentTask removes when the 5000 rows of all Agents are
\* reached and none of another Agent's is older.
Oldest ==
    {t \in Tasks : state[t] # "none" /\ \A u \in Tasks : state[u] # "none" => t <= u}

\* CreateAgentTask: queued rows of the same kind are superseded, the new row is queued,
\* the oldest one may have to go.
CreateAgentTask(k) ==
    LET new == created + 1
    IN  /\ new \in Tasks
        /\ created' = new
        /\ kind' = [kind EXCEPT ![new] = k]
        /\ \E gone \in {0} \cup Oldest : state' = [t \in Tasks |->
               IF t = new THEN "queued"
               ELSE IF t = gone THEN "none"
               ELSE IF state[t] = "queued" /\ kind[t] = k THEN "canceled" ELSE state[t]]
        /\ UNCHANGED attempts

\* The same for a task of another Agent.
CreateForAnother ==
    /\ \E gone \in Oldest : state' = [t \in Tasks |-> IF t = gone THEN "none" ELSE state[t]]
    /\ UNCHANGED <<online, created, kind, attempts, saving, handler, triggers, processorVars, retryVars>>

\* Mutant of Claimable: the update no longer asks for state='queued'.
ClaimableAgain(t) == state[t] # "none" /\ attempts[t] < MaxAttempts

\* ClaimAgentTask finds a row to update.
Claimable(t) == state[t] = "queued" /\ attempts[t] < MaxAttempts

ClaimAgentTask(t) ==
    /\ state' = [state EXCEPT ![t] = "running"]
    /\ attempts' = [attempts EXCEPT ![t] = @ + 1]
    /\ UNCHANGED <<created, kind>>

\* FinishAgentTask: only a running row changes.
FinishAgentTask(t, result) ==
    /\ state' = [state EXCEPT ![t] = IF @ = "running" THEN result ELSE @]
    /\ UNCHANGED <<created, kind, attempts>>

\* Mutants of RequeueAgentTask: the state is not looked at; no limit on attempts.
RequeueAnything(t) ==
    /\ state' = [state EXCEPT ![t] = IF attempts[t] >= MaxAttempts THEN "failed" ELSE "queued"]
    /\ UNCHANGED <<created, kind, attempts>>
RequeueUnlimited(t) ==
    /\ state' = [state EXCEPT ![t] = IF @ \in {"running", "failed"} THEN "queued" ELSE @]
    /\ UNCHANGED <<created, kind, attempts>>

\* RequeueAgentTask: running and failed rows go back to the queue while attempts are
\* left; a running one that has used them up fails.
RequeueAgentTask(t) ==
    /\ state' = [state EXCEPT ![t] =
           IF @ \notin {"running", "failed"} THEN @
           ELSE IF attempts[t] >= MaxAttempts THEN "failed" ELSE "queued"]
    /\ UNCHANGED <<created, kind, attempts>>

\* Mutants of RecoverTasks: running rows are left alone; all of them are queued again; or
\* they get a state no statement knows.
RecoverNothing == UNCHANGED rowVars
RecoverInterrupted ==
    /\ state' = [t \in Tasks |-> IF state[t] = "running" THEN "interrupted" ELSE state[t]]
    /\ UNCHANGED <<created, kind, attempts>>
RecoverUnlimited ==
    /\ state' = [t \in Tasks |-> IF state[t] = "running" THEN "queued" ELSE state[t]]
    /\ UNCHANGED <<created, kind, attempts>>

\* migrate, at start-up: no goroutine of the previous process is left to finish these.
RecoverTasks ==
    /\ state' = [t \in Tasks |->
           IF state[t] # "running" THEN state[t]
           ELSE IF attempts[t] >= MaxAttempts THEN "failed" ELSE "queued"]
    /\ UNCHANGED <<created, kind, attempts>>

-----------------------------------------------------------------------------
\* The Agent's connection.

\* handleAgentWS / handleAgentHTTPSOpen: registered, then startAgentSynchronization,
\* whose goroutine will call processQueuedAgentTasks.
Connect ==
    /\ triggers < MaxTriggers
    /\ online' = TRUE
    /\ triggers' = triggers + 1
    /\ UNCHANGED <<rowVars, saving, handler, processorVars, retryVars>>

Drop ==
    /\ online
    /\ online' = FALSE
    /\ UNCHANGED <<rowVars, saving, handler, triggers, processorVars, retryVars>>

-----------------------------------------------------------------------------
\* Request handlers that create a task.

\* handleSaveAgentProtection looks at Hub.Online first of all...
StartSave ==
    /\ saving = "none" /\ created < MaxTasks
    /\ saving' = IF online THEN "online" ELSE "offline"
    /\ UNCHANGED <<online, rowVars, handler, triggers, processorVars, retryVars>>

\* ...stores the policy and the task, and leaves the task queued if the Agent was
\* offline then.
CreateDeployTask ==
    /\ saving # "none"
    /\ CreateAgentTask("policy_deploy")
    /\ handler' = [handler EXCEPT ![created + 1] = IF saving = "online" THEN "created" ELSE "done"]
    /\ saving' = "none"
    /\ UNCHANGED <<online, triggers, processorVars, retryVars>>

\* handleCreateIPBan, handleDeleteIPBan: the insert; Hub.Online is looked at afterwards.
CreateBanTask ==
    /\ CreateAgentTask("ban_sync")
    /\ handler' = [handler EXCEPT ![created + 1] = "created"]
    /\ UNCHANGED <<online, saving, triggers, processorVars, retryVars>>

\* The handler claims its own task, or leaves it: the processor was faster, the Agent of a
\* ban is offline, or the browser has gone and ClaimAgentTask fails with r.Context(): in
\* its update, or in the SELECT after it, when the row is running already.
HandlerClaim(t) ==
    LET claims == (kind[t] = "ban_sync" => online) /\ Claimable(t)
    IN  /\ handler[t] = "created"
        /\ \/ claims /\ ClaimAgentTask(t) /\ handler' = [handler EXCEPT ![t] = "run"]
           \/ ~claims /\ UNCHANGED rowVars /\ handler' = [handler EXCEPT ![t] = "done"]
           \/ UNCHANGED rowVars /\ handler' = [handler EXCEPT ![t] = "cut"]
           \/ claims /\ ClaimAgentTask(t) /\ handler' = [handler EXCEPT ![t] = "abandoned"]
        /\ UNCHANGED <<online, saving, triggers, processorVars, retryVars>>

\* The Hub's answer is in: the row is finished.
HandlerFinish(t, result) ==
    /\ handler[t] = "run"
    /\ FinishAgentTask(t, result)
    /\ handler' = [handler EXCEPT ![t] = "done"]
    /\ UNCHANGED <<online, saving, triggers, processorVars, retryVars>>

\* executeAgentTask, the Hub call failed and the Agent is found offline: retry later.
HandlerGiveUp(t) ==
    /\ handler[t] = "run" /\ kind[t] = "ban_sync" /\ ~online
    /\ handler' = [handler EXCEPT ![t] = "requeue"]
    /\ UNCHANGED <<online, rowVars, saving, triggers, processorVars, retryVars>>

HandlerRequeue(t) ==
    /\ handler[t] = "requeue"
    /\ RequeueAgentTask(t)
    /\ handler' = [handler EXCEPT ![t] = "done"]
    /\ UNCHANGED <<online, saving, triggers, processorVars, retryVars>>

\* handleSaveAgentProtection finishes its task with r.Context(): when the browser has
\* gone, the update fails and the row stays running.
HandlerAbandon(t) ==
    /\ handler[t] = "run" /\ kind[t] = "policy_deploy"
    /\ handler' = [handler EXCEPT ![t] = "abandoned"]
    /\ UNCHANGED <<online, rowVars, saving, triggers, processorVars, retryVars>>

-----------------------------------------------------------------------------
\* processQueuedAgentTasks.

\* A goroutine calls it and returns at once when the Agent's tasks are being worked on.
StartProcessor ==
    /\ triggers > 0
    /\ triggers' = triggers - 1
    /\ processor' = IF processor = "off" THEN "list" ELSE processor
    /\ UNCHANGED <<online, rowVars, saving, handler, batch, current, retryVars>>

QueuedTasks == {t \in Tasks : state[t] = "queued"}

\* The for condition and QueuedAgentTasks.
ListTasks ==
    /\ processor = "list"
    /\ IF online /\ QueuedTasks # {}
       THEN processor' = "next" /\ batch' = QueuedTasks
       ELSE processor' = "stopping" /\ UNCHANGED batch
    /\ UNCHANGED <<online, rowVars, saving, handler, triggers, current, retryVars>>

\* The next listed task, if the Agent is still there: executeAgentTask claims it, unless
\* it was canceled, superseded or claimed since.
NextTask ==
    /\ processor = "next"
    /\ IF batch = {}
       THEN processor' = "list" /\ UNCHANGED <<batch, current, rowVars>>
       ELSE IF ~online
       THEN processor' = "stopping" /\ batch' = {} /\ UNCHANGED <<current, rowVars>>
       ELSE \E t \in batch :
            /\ \A u \in batch : t <= u
            /\ batch' = batch \ {t}
            /\ IF Claimable(t)
               THEN ClaimAgentTask(t) /\ processor' = "run" /\ current' = t
               ELSE UNCHANGED <<processor, current, rowVars>>
    /\ UNCHANGED <<online, saving, handler, triggers, retryVars>>

ProcessorFinish(result) ==
    /\ processor = "run"
    /\ FinishAgentTask(current, result)
    /\ processor' = "next" /\ current' = 0
    /\ UNCHANGED <<online, saving, handler, triggers, batch, retryVars>>

ProcessorGiveUp ==
    /\ processor = "run" /\ ~online
    /\ processor' = "requeue"
    /\ UNCHANGED <<online, rowVars, saving, handler, triggers, batch, current, retryVars>>

ProcessorRequeue ==
    /\ processor = "requeue"
    /\ RequeueAgentTask(current)
    /\ processor' = "next" /\ current' = 0
    /\ UNCHANGED <<online, saving, handler, triggers, batch, retryVars>>

\* The deferred delete of taskRunning.
StopProcessor ==
    /\ processor = "stopping"
    /\ processor' = "off"
    /\ UNCHANGED <<online, rowVars, saving, handler, triggers, batch, current, retryVars>>

-----------------------------------------------------------------------------
\* Administration.

\* Another request has the same task before it.
NoteRace(t) ==
    raced' = IF \E a \in Retriers : retry[a] = t THEN raced \cup {t} ELSE raced

\* Mutant of CheckRetry: tasks of any state may be retried.
CheckRetryAny(a, t) ==
    /\ retry[a] = 0 /\ state[t] # "none"
    /\ retry' = [retry EXCEPT ![a] = t] /\ NoteRace(t)
    /\ UNCHANGED <<online, rowVars, saving, handler, triggers, processorVars>>

\* handleRetryTask reads the row first...
CheckRetry(a, t) ==
    /\ retry[a] = 0 /\ state[t] = "failed"
    /\ retry' = [retry EXCEPT ![a] = t] /\ NoteRace(t)
    /\ UNCHANGED <<online, rowVars, saving, handler, triggers, processorVars>>

\* ...and requeues it later, starting the processor if that worked and the Agent is online.
Retry(a) ==
    LET t == retry[a]
        done == state[t] \in {"running", "failed"} /\ attempts[t] < MaxAttempts
    IN  /\ t # 0
        /\ done /\ online => triggers < MaxTriggers
        /\ RequeueAgentTask(t)
        /\ triggers' = IF done /\ online THEN triggers + 1 ELSE triggers
        /\ retry' = [retry EXCEPT ![a] = 0]
        /\ UNCHANGED <<raced, online, saving, handler, processorVars>>

\* handleCancelTask, CancelAgentTask.
Cancel(t) ==
    /\ state[t] \in {"queued", "failed"}
    /\ state' = [state EXCEPT ![t] = "canceled"]
    /\ UNCHANGED <<online, created, kind, attempts, saving, handler, triggers, processorVars, retryVars>>

\* The controller dies, with all its goroutines and connections, and starts again.
Restart ==
    /\ RecoverTasks
    /\ online' = FALSE /\ saving' = "none" /\ triggers' = 0
    /\ handler' = [t \in Tasks |-> IF handler[t] = "idle" THEN "idle" ELSE "done"]
    /\ processor' = "off" /\ batch' = {} /\ current' = 0
    /\ retry' = [a \in Retriers |-> 0] /\ raced' = {}

-----------------------------------------------------------------------------
Work == \/ ListTasks \/ NextTask \/ ProcessorGiveUp \/ ProcessorRequeue \/ StopProcessor
        \/ \E result \in {"succeeded", "failed"} : ProcessorFinish(result)

TasksNext ==
    \/ Connect \/ Drop
    \/ StartSave \/ CreateDeployTask \/ CreateBanTask \/ CreateForAnother
    \/ \E t \in Tasks :
           \/ HandlerClaim(t) \/ HandlerGiveUp(t) \/ HandlerRequeue(t) \/ HandlerAbandon(t)
           \/ \E result \in {"succeeded", "failed"} : HandlerFinish(t, result)
           \/ Cancel(t)
           \/ \E a \in Retriers : CheckRetry(a, t)
    \/ StartProcessor \/ Work
    \/ \E a \in Retriers : Retry(a)
    \/ Restart

TasksSpec == TasksInit /\ [][TasksNext]_tasksVars

\* The processor's goroutine is scheduled, and its Hub calls return within their timeout.
FairTasksSpec == TasksSpec /\ WF_tasksVars(Work)

-----------------------------------------------------------------------------
TasksTypeOK ==
    /\ online \in BOOLEAN /\ created \in 0..MaxTasks
    /\ kind \in [Tasks -> Kinds]
    /\ state \in [Tasks -> {"none", "queued", "running", "failed", "succeeded", "canceled"}]
    /\ attempts \in [Tasks -> 0..MaxAttempts]
    /\ saving \in {"none", "online", "offline"}
    /\ handler \in [Tasks -> {"idle", "created", "run", "requeue", "done", "cut", "abandoned"}]
    /\ triggers \in 0..MaxTriggers
    /\ processor \in {"off", "list", "next", "run", "requeue", "stopping"}
    /\ batch \subseteq Tasks
    /\ current \in 0..MaxTasks /\ (current # 0 <=> processor \in {"run", "requeue"})
    /\ retry \in [Retriers -> 0..MaxTasks] /\ raced \subseteq Tasks
    /\ \A t \in Tasks : t > created => state[t] = "none" /\ handler[t] = "idle" /\ attempts[t] = 0

\* A queued task always has attempts left: ClaimAgentTask would refuse any other, and
\* processQueuedAgentTasks would list and skip it forever without a pause.
QueuedHasAttemptsLeft == \A t \in Tasks : state[t] = "queued" => attempts[t] < MaxAttempts

HandlerRuns(t) == handler[t] \in {"run", "requeue"}

\* No task is executed by two goroutines at once, though the request that created it, the
\* processor and retries of it all lead to a claim. The exception: two retry requests that
\* both found the task failed, the second of which puts it back in the queue while it runs
\* (handleRetryTask checks in one statement and requeues in another, which takes a running
\* row as well as a failed one, server.go:1391, store.go:1038).
OneExecutor == \A t \in Tasks \ raced : ~(current = t /\ HandlerRuns(t))

\* Only failed tasks are retried (the answer of handleRetryTask to any other): a task
\* is never back in the queue while a goroutine still executes it, with the same exception.
RetryOnlyFailed ==
    \A t \in Tasks \ raced : state[t] = "queued" => current # t /\ ~HandlerRuns(t)

\* Does not hold, against server.go:1397: the same without the exception.
NeverRaced == \A t \in Tasks : state[t] = "queued" => current # t /\ ~HandlerRuns(t)

\* A running row has somebody who will finish it: an executor, or nobody only because
\* the request that ran it was cut off. A restart leaves no row running.
RunningHasExecutor ==
    \A t \in Tasks : state[t] = "running" =>
        current = t \/ HandlerRuns(t) \/ handler[t] = "abandoned"

\* A task that succeeded or was canceled is never revived, whatever a retry, a late
\* executor or a restart does (rows may only be deleted).
Settled == [][\A t \in Tasks : state[t] \in {"succeeded", "canceled"} =>
                                    state'[t] \in {state[t], "none"}]_tasksVars

\* The processor gets through its work and lets go of taskRunning.
ProcessorStops == (processor # "off") ~> (processor = "off")

\* A saved policy or ban waits only for the Agent (server.go:1103, server.go:1289): while
\* it is online, somebody is there or on the way who will take a task that its own
\* request was able to leave in good order.
NoStrandedTask ==
    online /\ (\E t \in QueuedTasks : handler[t] # "cut") =>
        \/ processor # "off" \/ triggers > 0
        \/ \E t \in QueuedTasks : handler[t] = "created"
        \/ \E a \in Retriers : retry[a] # 0
=============================================================================
