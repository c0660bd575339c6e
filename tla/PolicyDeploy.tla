----------------------------- MODULE PolicyDeploy -----------------------------
(***************************************************************************)
(* The protection policies of one Agent: the policies, policy_history and  *)
(* agent_tasks rows (internal/store/store.go), the administrators'         *)
(* requests that save, restore, deploy, edit, cancel and retry them, the   *)
(* synchronisation of a new connection and the task processor              *)
(* (internal/controller/server.go), and the policy the Agent has in force. *)
(*                                                                         *)
(* Every SQL statement or transaction is a step.  A policy is its row; the *)
(* Agent's policy_revision, which its telemetry overwrites and nothing     *)
(* reads, is left out.  A request creates at most one policy and one task, *)
(* which carry its name.  Attempts and batches of the processor and the    *)
(* restart of the controller are in AgentTasks, the transports in          *)
(* CommandHub: here a call to the Agent is a command in the order of the   *)
(* connection and an answer that may be lost.  The ban lists that follow a *)
(* policy are in BanSync.                                                  *)
(***************************************************************************)
EXTENDS Naturals, Sequences

CONSTANTS Handlers,    \* administrators' requests, each served once
          Syncs,       \* goroutines of startAgentSynchronization
          Processor,   \* processQueuedAgentTasks
          Base,        \* the policy of EnsureDefaultPolicy
          First,       \* what an Agent may have at the start: None, Base
          MaxConnects, \* bound: connections of the Agent
          None

Procs == Handlers \cup Syncs \cup {Processor}
Ids == Handlers \cup {Base}

ASSUME ProcsAssumption ==
    /\ Handlers \cap Syncs = {} /\ Processor \notin Handlers \cup Syncs
    /\ Base \notin Handlers /\ First \subseteq {None, Base} /\ MaxConnects \in Nat
    /\ None \notin Procs \cup Ids \cup {"ok", "refused", "error", "restore"}

NoPolicy == [id |-> None, rev |-> 0]

VARIABLES
  policies,  \* policies.revision of each row, 0 for no row
  assigned,  \* agents.policy_id
  history,   \* policy_history: a set of policies
  task,      \* agent_tasks.state of the task of each request, "none" for no row
  previous,  \* its payload's PreviousPolicyID
  online,    \* Hub.Online
  connects,  \* connections so far
  inbox,     \* commands on their way to the Agent
  running,   \* the policy in force on the Agent
  pc,        \* where each request or goroutine is
  role,      \* what a request does
  loc,       \* its local variables
  trigger,   \* a goroutine is about to call processQueuedAgentTasks
  \* History: no step reads these.
  newest,    \* the request whose task was created last
  served,    \* policies that have been assigned
  alone,     \* a deployment under way that has had no other beside it
  muddled    \* since the last such deployment ended, two overlapped, a command went
             \* unanswered or a policy in force was not recorded

rowVars == <<policies, assigned, history, task, previous>>
linkVars == <<online, connects, inbox, running>>
procVars == <<pc, role, loc, trigger>>
historyVars == <<newest, served, alone, muddled>>
vars == <<rowVars, linkVars, procVars, historyVars>>

NoLocals == [online |-> FALSE, policy |-> NoPolicy, old |-> None, listed |-> {},
             task |-> None, answer |-> None]

\* A new Agent has no policy; an older one has the default policy, deployed by hand.
Init ==
    /\ policies = [p \in Ids |-> IF p = Base THEN 1 ELSE 0]
    /\ assigned \in First
    /\ history = {} /\ task = [h \in Handlers |-> "none"]
    /\ previous = [h \in Handlers |-> None]
    /\ online = FALSE /\ connects = 0 /\ inbox = <<>> /\ running = assigned
    /\ pc = [x \in Procs |-> "idle"] /\ role = [h \in Handlers |-> None]
    /\ loc = [x \in Procs |-> NoLocals] /\ trigger = FALSE
    /\ newest = None /\ served = {assigned} \ {None}
    /\ alone = None /\ muddled = FALSE

Exists(p) == p # None /\ policies[p] > 0
Row(p) == [id |-> p, rev |-> policies[p]]
Queued == {t \in Handlers : task[t] = "queued"}

Kind(x) == IF x \in Handlers THEN role[x] ELSE IF x \in Syncs THEN "sync" ELSE "process"
At(x, where) == pc[x] = where
Goto(x, where, l) == pc' = [pc EXCEPT ![x] = where] /\ loc' = [loc EXCEPT ![x] = l]
Step(x, where) == Goto(x, where, loc[x])

\* The request or goroutine has no more to do with policies; a synchronisation then starts
\* the processor, the processor looks for another task.
Leave(x) ==
    /\ Goto(x, IF x \in Handlers THEN "done" ELSE IF x \in Syncs THEN "idle" ELSE "next", NoLocals)
    /\ trigger' = (trigger \/ x \in Syncs)
    /\ role' = [h \in Handlers |-> IF h = x THEN None ELSE role[h]]

-----------------------------------------------------------------------------
\* The store.

\* Mutant of DeletePolicyIfUnassigned: the row is deleted under the Agent that has it.
DeletePolicyDangling(p) ==
    /\ policies' = IF p = None THEN policies ELSE [policies EXCEPT ![p] = 0]
    /\ UNCHANGED assigned

DeletePolicyIfUnassigned(p) ==
    /\ policies' = IF p = None \/ assigned = p THEN policies ELSE [policies EXCEPT ![p] = 0]
    /\ UNCHANGED assigned

\* FinishAgentTask: only a running row changes.
FinishAgentTask(t, result) ==
    task' = [task EXCEPT ![t] = IF @ = "running" THEN result ELSE @]

\* RecordPolicyHistory: the revision is unique for the Agent, an error is only logged.
RecordPolicyHistory(p) ==
    history' = IF \E q \in history : q.rev = p.rev THEN history ELSE history \cup {p}

-----------------------------------------------------------------------------
\* How a request starts.

Start(h, r) == At(h, "idle") /\ role' = [role EXCEPT ![h] = r]

\* handleSaveAgentProtection looks at Hub.Online first of all.
StartSave(h) ==
    /\ Start(h, "save") /\ Goto(h, "read", [NoLocals EXCEPT !.online = online])
    /\ UNCHANGED <<rowVars, linkVars, trigger, historyVars>>

\* handleRestorePolicyHistory wants the Agent online and an entry of its history.
StartRestore(h) ==
    /\ online /\ history # {}
    /\ Start(h, "restore") /\ Step(h, "read")
    /\ UNCHANGED <<rowVars, linkVars, trigger, historyVars>>

\* handleDeployPolicy, handleSavePolicy: any policy of the list.
StartDeploy(h, p) ==
    /\ Exists(p)
    /\ Start(h, "deploy") /\ Goto(h, "send", [NoLocals EXCEPT !.policy = Row(p)])
    /\ UNCHANGED <<rowVars, linkVars, trigger, historyVars>>

StartEdit(h, p) ==
    /\ Exists(p)
    /\ Start(h, "edit") /\ Goto(h, "write", [NoLocals EXCEPT !.policy = Row(p)])
    /\ UNCHANGED <<rowVars, linkVars, trigger, historyVars>>

\* handleCancelTask: its task is canceled first, its policy deleted afterwards.
StartCancel(h, t) ==
    /\ task[t] \in {"queued", "failed"}
    /\ task' = [task EXCEPT ![t] = "canceled"]
    /\ Start(h, "cancel") /\ Goto(h, "undo", [NoLocals EXCEPT !.policy = [id |-> t, rev |-> 0]])
    /\ UNCHANGED <<policies, assigned, history, previous, linkVars, trigger, historyVars>>

\* handleRetryTask of a failed task, which has attempts left.
RetryTask(h, t) ==
    /\ task[t] = "failed"
    /\ task' = [task EXCEPT ![t] = "queued"]
    /\ At(h, "idle") /\ Step(h, "done") /\ trigger' = (trigger \/ online)
    /\ UNCHANGED <<policies, assigned, history, previous, linkVars, role, historyVars>>

-----------------------------------------------------------------------------
\* AgentPolicy, in two statements: the reference, then the row.

ReadAssigned(x) ==
    /\ At(x, "read")
    /\ Goto(x, "load", [loc[x] EXCEPT !.old = assigned])
    /\ UNCHANGED <<rowVars, linkVars, role, trigger, historyVars>>

\* A save without a policy before it starts at revision 1. The row inserted is nobody
\* else's until it is there, so the INSERT is part of this step.
LoadAndSave(h) ==
    LET found == Exists(loc[h].old)
        rev == IF found THEN policies[loc[h].old] + 1 ELSE 1
    IN  /\ At(h, "load") /\ Kind(h) \in {"save", "restore"}
        /\ IF Kind(h) = "restore" /\ ~found
           THEN Leave(h) /\ UNCHANGED policies
           ELSE /\ policies' = [policies EXCEPT ![h] = rev]
                /\ Goto(h, IF Kind(h) = "save" THEN "list" ELSE "send",
                        [loc[h] EXCEPT !.policy = [id |-> h, rev |-> rev], !.task = h,
                                       !.old = IF found THEN @ ELSE None])
                /\ UNCHANGED <<role, trigger>>
        /\ UNCHANGED <<assigned, history, task, previous, linkVars, historyVars>>

\* startAgentSynchronization: without a policy only the bans are sent.
LoadAndSync(s) ==
    /\ s \in Syncs /\ At(s, "load")
    /\ IF Exists(loc[s].old)
       THEN Goto(s, "send", [loc[s] EXCEPT !.policy = Row(loc[s].old)]) /\ UNCHANGED <<role, trigger>>
       ELSE Leave(s)
    /\ UNCHANGED <<rowVars, linkVars, historyVars>>

-----------------------------------------------------------------------------
\* A save puts its deployment into the queue.

\* Mutant of ListQueued: the policies of the tasks found are deleted before the new task is
\* there.
ListAndDelete(h) ==
    /\ At(h, "list")
    /\ policies' = [p \in Ids |-> IF p \in Queued /\ assigned # p THEN 0 ELSE policies[p]]
    /\ Step(h, "create")
    /\ UNCHANGED <<assigned, history, task, previous, linkVars, role, trigger, historyVars>>

ListQueued(h) ==
    /\ At(h, "list")
    /\ Goto(h, "create", [loc[h] EXCEPT !.listed = Queued])
    /\ UNCHANGED <<rowVars, linkVars, role, trigger, historyVars>>

\* CreateAgentTask supersedes what is queued, whether it was listed or not.
CreateTask(h) ==
    /\ At(h, "create")
    /\ task' = [t \in Handlers |-> IF t = h THEN "queued"
                                   ELSE IF task[t] = "queued" THEN "canceled" ELSE task[t]]
    /\ previous' = [previous EXCEPT ![h] = loc[h].old]
    /\ newest' = h
    /\ Step(h, "supersede")
    /\ UNCHANGED <<policies, assigned, history, linkVars, role, trigger, served, alone, muddled>>

\* The policies of the tasks listed are deleted one after the other.
DropSuperseded(h, t) ==
    /\ At(h, "supersede") /\ t \in loc[h].listed
    /\ DeletePolicyIfUnassigned(t)
    /\ Goto(h, "supersede", [loc[h] EXCEPT !.listed = @ \ {t}])
    /\ UNCHANGED <<history, task, previous, linkVars, role, trigger, historyVars>>

\* Offline: the task waits. Otherwise the request claims it, if nobody was faster.
ClaimOwn(h) ==
    /\ At(h, "supersede") /\ loc[h].listed = {}
    /\ IF loc[h].online /\ task[h] = "queued"
       THEN task' = [task EXCEPT ![h] = "running"] /\ Step(h, "send") /\ UNCHANGED <<role, trigger>>
       ELSE UNCHANGED task /\ Leave(h)
    /\ UNCHANGED <<policies, assigned, history, previous, linkVars, historyVars>>

-----------------------------------------------------------------------------
\* processQueuedAgentTasks and executeAgentTask.

StartProcessor ==
    /\ trigger /\ trigger' = FALSE
    /\ Step(Processor, IF At(Processor, "idle") THEN "next" ELSE pc[Processor])
    /\ UNCHANGED <<rowVars, linkVars, role, historyVars>>

\* Whatever is listed is claimed only if it is still queued.
ClaimNext ==
    /\ At(Processor, "next")
    /\ IF online /\ Queued # {}
       THEN \E t \in Queued :
            /\ task' = [task EXCEPT ![t] = "running"]
            /\ Goto(Processor, "fetch", [NoLocals EXCEPT !.task = t, !.old = previous[t]])
       ELSE Step(Processor, "idle") /\ UNCHANGED task
    /\ UNCHANGED <<policies, assigned, history, previous, linkVars, role, trigger, historyVars>>

FetchPolicy ==
    LET l == loc[Processor]
    IN  /\ At(Processor, "fetch")
        /\ IF Exists(l.task)
           THEN Goto(Processor, "send", [l EXCEPT !.policy = Row(l.task)])
           ELSE Goto(Processor, "fail", [l EXCEPT !.answer = "refused"])
        /\ UNCHANGED <<rowVars, linkVars, role, trigger, historyVars>>

-----------------------------------------------------------------------------
\* Hub.ApplyPolicy and what follows its answer.

Waiting == {x \in Procs : pc[x] = "wait"}

\* Not applied: a task fails, a restore deletes what it saved, the others leave it at that.
GiveUp(x, answer) ==
    CASE Kind(x) \in {"save", "process"} ->
             Goto(x, "fail", [loc[x] EXCEPT !.answer = answer]) /\ UNCHANGED <<role, trigger>>
      [] Kind(x) = "restore" -> Step(x, "undo") /\ UNCHANGED <<role, trigger>>
      [] OTHER -> Leave(x)

Send(x) ==
    LET lonely == Waiting = {} /\ inbox = <<>>
    IN  /\ At(x, "send") /\ online
        /\ inbox' = Append(inbox, [by |-> x, policy |-> loc[x].policy.id])
        /\ Step(x, "wait")
        /\ alone' = IF lonely THEN x ELSE None
        /\ muddled' = (muddled \/ ~lonely)
        /\ UNCHANGED <<rowVars, online, connects, running, role, trigger, newest, served>>

SendOffline(x) ==
    /\ At(x, "send") /\ ~online
    /\ GiveUp(x, "error")
    /\ UNCHANGED <<rowVars, linkVars, historyVars>>

\* The caller will not hear the answer of its command, which may still be carried out.
Forget(x) ==
    /\ inbox' = [i \in DOMAIN inbox |->
                   IF inbox[i].by = x THEN [inbox[i] EXCEPT !.by = None] ELSE inbox[i]]
    /\ alone' = IF alone = x THEN None ELSE alone
    /\ muddled' = TRUE
    /\ UNCHANGED <<rowVars, online, connects, running, newest, served>>

\* Its 40 or 45 seconds are over, or its connection is.
Timeout(x) ==
    /\ At(x, "wait") /\ loc[x].answer = None
    /\ Forget(x)
    /\ GiveUp(x, "error")

\* The browser has gone: r.Context() ends, and with it every later statement of the request.
\* Where it does not wait for an answer, such a request is one that takes no further step.
Abandon(h) ==
    /\ At(h, "wait")
    /\ Forget(h)
    /\ Leave(h)

AssignPolicy(x) ==
    LET p == loc[x].policy.id
    IN  /\ assigned' = p /\ served' = served \cup {p}
        /\ alone' = None /\ muddled' = (muddled /\ alone # x)

\* Mutant of Accepted: the result's Success is not looked at.
AcceptedUnchecked(x) ==
    /\ At(x, "wait") /\ loc[x].answer \in {"ok", "refused"}
    /\ IF Exists(loc[x].policy.id)
       THEN AssignPolicy(x)
       ELSE alone' = None /\ muddled' = TRUE /\ UNCHANGED <<assigned, served>>
    /\ Leave(x)
    /\ UNCHANGED <<policies, history, task, previous, linkVars, newest>>

\* The policy is in force: it is assigned, and a save, restore or task goes on. The row may
\* be gone by now, and the reference to it is refused.
Accepted(x) ==
    /\ At(x, "wait") /\ loc[x].answer = "ok"
    /\ IF Exists(loc[x].policy.id)
       THEN AssignPolicy(x)
       ELSE alone' = None /\ muddled' = TRUE /\ UNCHANGED <<assigned, served>>
    /\ IF Kind(x) \in {"deploy", "sync"} \/ (Kind(x) = "restore" /\ ~Exists(loc[x].policy.id))
       THEN Leave(x)
       ELSE Step(x, IF Exists(loc[x].policy.id) THEN "record" ELSE "fail") /\ UNCHANGED <<role, trigger>>
    /\ UNCHANGED <<policies, history, task, previous, linkVars, newest>>

\* The Agent refused: the rules are as before, unless it failed after its commit.
Refused(x) ==
    /\ At(x, "wait") /\ loc[x].answer = "refused"
    /\ alone' = IF alone = x THEN None ELSE alone
    /\ GiveUp(x, "refused")
    /\ UNCHANGED <<rowVars, linkVars, newest, served, muddled>>

\* The task fails, or waits again when the processor could not reach an Agent it then
\* finds offline (unless its attempts are used up).
FailTask(x) ==
    /\ At(x, "fail")
    /\ \E result \in IF x = Processor /\ loc[x].answer = "error" /\ ~online
                     THEN {"queued", "failed"} ELSE {"failed"} : FinishAgentTask(loc[x].task, result)
    /\ Leave(x)
    /\ UNCHANGED <<policies, assigned, history, previous, linkVars, historyVars>>

Record(x) ==
    /\ At(x, "record")
    /\ RecordPolicyHistory(loc[x].policy)
    /\ Step(x, IF Kind(x) = "save" THEN "finish" ELSE "tidy")
    /\ UNCHANGED <<policies, assigned, task, previous, linkVars, role, trigger, historyVars>>

\* A save finishes its task before it deletes the policy replaced, the processor after.
Succeed(x) ==
    /\ At(x, "finish")
    /\ FinishAgentTask(loc[x].task, "succeeded")
    /\ IF x = Processor THEN Leave(x) ELSE Step(x, "tidy") /\ UNCHANGED <<role, trigger>>
    /\ UNCHANGED <<policies, assigned, history, previous, linkVars, historyVars>>

DeleteReplaced(x) ==
    /\ At(x, "tidy")
    /\ DeletePolicyIfUnassigned(loc[x].old)
    /\ IF x = Processor THEN Step(x, "finish") /\ UNCHANGED <<role, trigger>> ELSE Leave(x)
    /\ UNCHANGED <<history, task, previous, linkVars, historyVars>>

\* A restore that failed deletes the policy it saved, a cancellation that of the task.
DeleteOwn(h) ==
    /\ At(h, "undo")
    /\ DeletePolicyIfUnassigned(loc[h].policy.id)
    /\ Leave(h)
    /\ UNCHANGED <<history, task, previous, linkVars, historyVars>>

\* SavePolicy of an existing row: its UPDATE, with the revision counted from the SELECT.
WriteEdit(h) ==
    LET p == loc[h].policy
    IN  /\ At(h, "write")
        /\ policies' = IF Exists(p.id) THEN [policies EXCEPT ![p.id] = p.rev + 1] ELSE policies
        /\ Leave(h)
        /\ UNCHANGED <<assigned, history, task, previous, linkVars, historyVars>>

-----------------------------------------------------------------------------
\* The Agent and its connection.

\* Registered, and startAgentSynchronization called.
Connect(s) ==
    /\ At(s, "idle") /\ connects < MaxConnects
    /\ online' = TRUE /\ connects' = connects + 1
    /\ Step(s, "read")
    /\ UNCHANGED <<rowVars, inbox, running, role, trigger, historyVars>>

\* The Agent may be at work on the first command. Those still waited for stay in the Hub and
\* may be sent again over the next connection; the others are lost.
Kept == {i \in DOMAIN inbox : i = 1 \/ inbox[i].by # None}

Drop ==
    /\ online /\ online' = FALSE
    /\ \E n \in 0..Len(inbox) : \E kept \in [1..n -> Kept] :
           /\ \A i, j \in 1..n : i < j => kept[i] < kept[j]
           /\ inbox' = [i \in 1..n |-> inbox[kept[i]]]
    /\ UNCHANGED <<rowVars, connects, running, procVars, historyVars>>

\* Manager.Apply on the Agent. It is in force or refused, or refused and in force. An answer
\* that the Agent gives again over its next connection (its result cache) is heard at once.
ApplyNext(answer, inForce, heard) ==
    /\ inbox # <<>>
    /\ inbox' = Tail(inbox)
    /\ running' = IF inForce THEN Head(inbox).policy ELSE running
    /\ loc' = IF Head(inbox).by # None /\ heard
              THEN [loc EXCEPT ![Head(inbox).by].answer = answer] ELSE loc
    /\ muddled' = (muddled \/ (inForce /\ answer = "refused"))
    /\ UNCHANGED <<rowVars, online, connects, pc, role, trigger, newest, served, alone>>

-----------------------------------------------------------------------------
Request(h) ==
    \/ StartSave(h) \/ StartRestore(h)
    \/ \E p \in Ids : StartDeploy(h, p) \/ StartEdit(h, p)
    \/ \E t \in Handlers : StartCancel(h, t) \/ RetryTask(h, t) \/ DropSuperseded(h, t)
    \/ LoadAndSave(h) \/ ListQueued(h) \/ CreateTask(h) \/ ClaimOwn(h)
    \/ DeleteOwn(h) \/ WriteEdit(h) \/ Abandon(h)

Deployment(x) ==
    \/ ReadAssigned(x)
    \/ Send(x) \/ SendOffline(x) \/ Timeout(x) \/ Accepted(x) \/ Refused(x)
    \/ FailTask(x) \/ Record(x) \/ Succeed(x) \/ DeleteReplaced(x)

Next ==
    \/ \E h \in Handlers : Request(h)
    \/ \E s \in Syncs : Connect(s) \/ LoadAndSync(s)
    \/ StartProcessor \/ ClaimNext \/ FetchPolicy
    \/ \E x \in Procs : Deployment(x)
    \/ Drop
    \/ \E heard \in {TRUE, online} :
           ApplyNext("ok", TRUE, heard) \/ \E b \in BOOLEAN : ApplyNext("refused", b, heard)

Spec == Init /\ [][Next]_vars

-----------------------------------------------------------------------------
Locations == {"idle", "read", "load", "list", "create", "supersede", "next", "fetch", "send", "wait",
              "fail", "record", "finish", "tidy", "undo", "write", "done"}

TypeOK ==
    /\ policies \in [Ids -> Nat] /\ assigned \in Ids \cup {None} /\ (assigned # None => Exists(assigned))
    /\ history \subseteq [id : Ids, rev : Nat \ {0}]
    /\ task \in [Handlers -> {"none", "queued", "running", "failed", "succeeded", "canceled"}]
    /\ previous \in [Handlers -> Ids \cup {None}]
    /\ online \in BOOLEAN /\ connects \in 0..MaxConnects /\ running \in Ids \cup {None}
    /\ inbox \in Seq([by : Procs \cup {None}, policy : Ids])
    /\ \A i \in DOMAIN inbox : inbox[i].by = None \/ inbox[i].by \in Waiting
    /\ pc \in [Procs -> Locations]
    /\ role \in [Handlers -> {None, "save", "restore", "deploy", "edit", "cancel"}]
    /\ \A x \in Procs : loc[x].answer \in {None, "ok", "refused", "error"}
    /\ trigger \in BOOLEAN /\ muddled \in BOOLEAN
    /\ newest \in Handlers \cup {None} /\ served \subseteq Ids /\ alone \in Waiting \cup {None}

\* The Agent runs the policy its row says (AssignPolicy after ApplyPolicy) once one deployment
\* has gone through with no other beside it, whatever saves, edits, deletions, refusals and
\* lost commands came before, and until a command goes unanswered again.
InForceIsAssigned == ~muddled /\ Waiting = {} => running = assigned

\* The last deployment an administrator saved is not lost: until it is carried out, canceled
\* or superseded, the policy its task refers to exists, however the saves, failures, retries
\* and clean-ups of other requests fall between (handleSaveAgentProtection, server.go:1084;
\* a policy that was assigned meanwhile may have been replaced again).
NewestKept ==
    newest # None /\ task[newest] \in {"queued", "running", "failed"} /\ newest \notin served =>
        policies[newest] > 0
=============================================================================
