------------------------------- MODULE BanSync -------------------------------
(***************************************************************************)
(* The manual bans of one Agent: the ip_bans rows and the ban_sync tasks   *)
(* (internal/store/store.go), the requests that ban and unban an address,  *)
(* the task processor, the synchronisations that connections and policy    *)
(* deployments start (syncAgentBans in internal/controller/server.go), and *)
(* the set the Agent blocks.                                               *)
(*                                                                         *)
(* Every SQL statement is a step.  A synchronisation sends the whole list, *)
(* so what it reads, when it is applied and which rows it marks afterwards *)
(* are three different moments.  Commands are applied in the order they    *)
(* were sent (CommandHub); an answer may be lost.  A request names its     *)
(* task.  Attempts and the restart of the controller are in AgentTasks.    *)
(***************************************************************************)
EXTENDS Naturals, Sequences

CONSTANTS Addresses,   \* the addresses followed; the rows of others change beside them
          Handlers,    \* administrators' requests, each served once
          Syncs,       \* synchronisations without a task
          Processor,   \* processQueuedAgentTasks
          MaxInbox,    \* bound: lists on their way to the Agent
          None

Procs == Handlers \cup Syncs \cup {Processor}

ASSUME ProcsAssumption ==
    /\ Handlers \cap Syncs = {} /\ Processor \notin Handlers \cup Syncs
    /\ None \notin Procs \cup {"ok", "refused", "error"}
    /\ MaxInbox \in Nat

VARIABLES
  row,      \* ip_bans of each address: "none", or its applied flag
  due,      \* rows whose expires_at has passed
  task,     \* agent_tasks.state of each request's ban_sync task, "none" for no row
  online,   \* Hub.Online
  inbox,    \* lists on their way to the Agent
  blocked,  \* the addresses in the Agent's ban sets
  pc,       \* where each request or goroutine is
  list,     \* the list it has read
  works,    \* the task it executes
  answer,   \* the Agent's answer to it
  trigger,  \* a goroutine is about to call processQueuedAgentTasks
  \* History: no step reads these.
  newest,   \* the request whose task was created last
  alone,    \* a synchronisation under way that has had no other beside it
  mixed     \* since the last such one succeeded, two overlapped, or a change was left
            \* without its task or its task failed before it had read the list

vars == <<row, due, task, online, inbox, blocked, pc, list, works, answer, trigger, newest, alone, mixed>>
rowVars == <<row, due>>
linkVars == <<online, inbox, blocked>>
procVars == <<pc, list, works, answer, trigger>>
historyVars == <<newest, alone, mixed>>

Rows == {a \in Addresses : row[a] # "none"}

\* What was banned earlier has been applied.
Init ==
    /\ row \in [Addresses -> {"none", "applied"}] /\ due = {}
    /\ task = [h \in Handlers |-> "none"]
    /\ online = FALSE /\ inbox = <<>> /\ blocked = Rows
    /\ pc = [x \in Procs |-> "idle"] /\ list = [x \in Procs |-> {}]
    /\ works = [x \in Procs |-> None] /\ answer = [x \in Procs |-> None]
    /\ trigger = FALSE
    /\ newest = None /\ alone = None /\ mixed = FALSE

At(x, where) == pc[x] = where
Goto(x, where) == pc' = [pc EXCEPT ![x] = where]

Leave(x) ==
    /\ Goto(x, IF x \in Handlers THEN "done" ELSE IF x \in Syncs THEN "idle" ELSE "next")
    /\ list' = [list EXCEPT ![x] = {}] /\ works' = [works EXCEPT ![x] = None]
    /\ answer' = [answer EXCEPT ![x] = None]
    /\ trigger' = (trigger \/ x \in Syncs)

-----------------------------------------------------------------------------
\* Requests.

\* handleCreateIPBan, SaveIPBan: a new row, or the old one with a new expiry, not applied.
Ban(h, a) ==
    /\ At(h, "idle") /\ Goto(h, "create")
    /\ row' = [row EXCEPT ![a] = "waiting"] /\ due' = due \ {a}
    /\ UNCHANGED <<task, linkVars, list, works, answer, trigger, historyVars>>

\* handleDeleteIPBan, DeleteIPBan.
Unban(h, a) ==
    /\ At(h, "idle") /\ row[a] # "none"
    /\ Goto(h, "create")
    /\ row' = [row EXCEPT ![a] = "none"] /\ due' = due \ {a}
    /\ UNCHANGED <<task, linkVars, list, works, answer, trigger, historyVars>>

\* Either of them for an address that is not followed here.
ChangeOther(h) ==
    /\ At(h, "idle") /\ Goto(h, "create")
    /\ UNCHANGED <<rowVars, task, linkVars, list, works, answer, trigger, historyVars>>

\* CreateAgentTask supersedes the ban_sync task that is queued.
CreateTask(h) ==
    /\ At(h, "create")
    /\ task' = [t \in Handlers |-> IF t = h THEN "queued"
                                   ELSE IF task[t] = "queued" THEN "canceled" ELSE task[t]]
    /\ newest' = h
    /\ Goto(h, "claim")
    /\ UNCHANGED <<rowVars, linkVars, list, works, answer, trigger, alone, mixed>>

\* Mutant of ClaimOwn: the task is executed whoever has claimed it.
ExecuteOwn(h) ==
    /\ At(h, "claim")
    /\ IF online
       THEN /\ task' = [task EXCEPT ![h] = "running"]
            /\ Goto(h, "list") /\ works' = [works EXCEPT ![h] = h]
            /\ UNCHANGED <<list, answer, trigger>>
       ELSE Leave(h) /\ UNCHANGED task
    /\ UNCHANGED <<rowVars, linkVars, historyVars>>

\* The Agent is online and nobody else has claimed the task: executeAgentTask.
ClaimOwn(h) ==
    /\ At(h, "claim")
    /\ IF online /\ task[h] = "queued"
       THEN /\ task' = [task EXCEPT ![h] = "running"]
            /\ Goto(h, "list") /\ works' = [works EXCEPT ![h] = h]
            /\ UNCHANGED <<list, answer, trigger>>
       ELSE Leave(h) /\ UNCHANGED task
    /\ UNCHANGED <<rowVars, linkVars, historyVars>>

\* The browser has gone: r.Context() ends before CreateAgentTask, or in ClaimAgentTask after
\* its update. The change stays, with no task to carry it.
Cut(h) ==
    /\ \/ At(h, "create") /\ UNCHANGED task
       \/ At(h, "claim") /\ online /\ task[h] = "queued" /\ task' = [task EXCEPT ![h] = "running"]
    /\ Leave(h)
    /\ alone' = None /\ mixed' = TRUE
    /\ UNCHANGED <<rowVars, linkVars, newest>>

\* handleRetryTask, handleCancelTask.
Retry(t) ==
    /\ task[t] = "failed" /\ task' = [task EXCEPT ![t] = "queued"]
    /\ trigger' = (trigger \/ online)
    /\ UNCHANGED <<rowVars, linkVars, pc, list, works, answer, historyVars>>

Cancel(t) ==
    /\ task[t] \in {"queued", "failed"} /\ task' = [task EXCEPT ![t] = "canceled"]
    /\ alone' = None /\ mixed' = TRUE
    /\ UNCHANGED <<rowVars, linkVars, procVars, newest>>

-----------------------------------------------------------------------------
\* The processor.

StartProcessor ==
    /\ trigger /\ trigger' = FALSE
    /\ Goto(Processor, IF At(Processor, "idle") THEN "next" ELSE pc[Processor])
    /\ UNCHANGED <<rowVars, task, linkVars, list, works, answer, historyVars>>

ClaimNext ==
    /\ At(Processor, "next")
    /\ \/ \E t \in Handlers :
            /\ online /\ task[t] = "queued"
            /\ task' = [task EXCEPT ![t] = "running"]
            /\ works' = [works EXCEPT ![Processor] = t]
            /\ Goto(Processor, "list")
       \/ /\ ~online \/ \A t \in Handlers : task[t] # "queued"
          /\ Goto(Processor, "idle") /\ UNCHANGED <<task, works>>
    /\ UNCHANGED <<rowVars, linkVars, list, answer, trigger, historyVars>>

-----------------------------------------------------------------------------
\* syncAgentBans.

\* A synchronisation that has read its list and not yet marked the rows.
Window == {x \in Procs : pc[x] \in {"send", "wait"}}

\* After a policy deployment (handleSaveAgentProtection, handleRestorePolicyHistory).
StartSync(s) ==
    /\ At(s, "idle") /\ online
    /\ Goto(s, "list")
    /\ UNCHANGED <<rowVars, task, linkVars, list, works, answer, trigger, historyVars>>

\* ListIPBans deletes what has expired and reads the rest.
ListBans(x) ==
    /\ At(x, "list") /\ Goto(x, "send")
    /\ row' = [a \in Addresses |-> IF a \in due THEN "none" ELSE row[a]] /\ due' = {}
    /\ list' = [list EXCEPT ![x] = Rows \ due]
    /\ alone' = IF Window = {} THEN x ELSE None
    /\ mixed' = (mixed \/ Window # {})
    /\ UNCHANGED <<task, linkVars, works, answer, trigger, newest>>

\* ListIPBans fails: the browser has gone since the claim, or what started the
\* synchronisation has used up its time. Nothing is sent and no mark is taken back; a task
\* ends without having read the change it was created for. (The statement that deletes may
\* have gone through: ShowBans.) The processor's context does not end.
ListFails(x) ==
    /\ At(x, "list") /\ x # Processor
    /\ IF works[x] = None
       THEN Leave(x) /\ UNCHANGED <<alone, mixed>>
       ELSE /\ Goto(x, "finish") /\ answer' = [answer EXCEPT ![x] = "error"]
            /\ alone' = None /\ mixed' = TRUE
            /\ UNCHANGED <<list, works, trigger>>
    /\ UNCHANGED <<rowVars, task, linkVars, newest>>

\* handleIPBans lists them too.
ShowBans ==
    /\ due # {} /\ due' = {}
    /\ row' = [a \in Addresses |-> IF a \in due THEN "none" ELSE row[a]]
    /\ UNCHANGED <<task, linkVars, procVars, historyVars>>

\* Hub.SyncBans.
Send(x) ==
    /\ At(x, "send") /\ Goto(x, "wait")
    /\ IF online
       THEN Len(inbox) < MaxInbox /\ inbox' = Append(inbox, [by |-> x, list |-> list[x]]) /\ UNCHANGED answer
       ELSE answer' = [answer EXCEPT ![x] = "error"] /\ UNCHANGED inbox
    /\ list' = [list EXCEPT ![x] = {}]
    /\ UNCHANGED <<rowVars, task, online, blocked, works, trigger, historyVars>>

\* 30 seconds are over, the connection is, or the browser: the command may still be applied.
Timeout(x) ==
    /\ At(x, "wait") /\ answer[x] = None
    /\ answer' = [answer EXCEPT ![x] = "error"]
    /\ inbox' = [i \in DOMAIN inbox |-> IF inbox[i].by = x THEN [inbox[i] EXCEPT !.by = None] ELSE inbox[i]]
    /\ UNCHANGED <<rowVars, task, online, blocked, pc, list, works, trigger, historyVars>>

\* Mutant of Marks: the failure of a synchronisation leaves the marks as they are.
MarksOnSuccess(ok) ==
    row' = [a \in Addresses |-> IF row[a] = "none" \/ ~ok THEN row[a] ELSE "applied"]

\* SetIPBansApplyState marks every row, also those saved after the list was read.
Marks(ok) ==
    row' = [a \in Addresses |-> IF row[a] = "none" THEN "none" ELSE IF ok THEN "applied" ELSE "waiting"]

Mark(x) ==
    LET ok == answer[x] = "ok"
    IN  /\ At(x, "wait") /\ answer[x] # None
        /\ Marks(ok)
        /\ alone' = IF alone = x THEN None ELSE alone
        /\ mixed' = (mixed /\ ~(ok /\ alone = x))
        /\ IF works[x] = None
           THEN Leave(x)
           ELSE Goto(x, "finish") /\ UNCHANGED <<list, works, answer, trigger>>
        /\ UNCHANGED <<due, task, linkVars, newest>>

\* Mutant of Result: a task whose answer was lost counts as done.
ResultUnheard(x) == IF answer[x] \in {"ok", "error"} THEN {"succeeded"} ELSE {"failed"}

\* The task succeeds, fails, or waits for an Agent that is offline (its attempts may be
\* used up).
Result(x) ==
    IF answer[x] = "ok" THEN {"succeeded"} ELSE IF online THEN {"failed"} ELSE {"queued", "failed"}

Finish(x) ==
    /\ At(x, "finish")
    /\ \E result \in Result(x) : task' = [task EXCEPT ![works[x]] = IF @ = "running" THEN result ELSE @]
    /\ Leave(x)
    /\ UNCHANGED <<rowVars, linkVars, historyVars>>

-----------------------------------------------------------------------------
\* The Agent and its connection.

\* startAgentSynchronization, past its policy.
Connect(s) ==
    /\ At(s, "idle") /\ ~online /\ online' = TRUE
    /\ Goto(s, "list")
    /\ UNCHANGED <<rowVars, task, inbox, blocked, list, works, answer, trigger, historyVars>>

\* The Agent may be at work on the first command. Those still waited for stay in the Hub and
\* may be sent again over the next connection; the others are lost.
Kept == {i \in DOMAIN inbox : i = 1 \/ inbox[i].by # None}

Drop ==
    /\ online /\ online' = FALSE
    /\ \E n \in 0..Len(inbox) : \E kept \in [1..n -> Kept] :
           /\ \A i, j \in 1..n : i < j => kept[i] < kept[j]
           /\ inbox' = [i \in 1..n |-> inbox[kept[i]]]
    /\ UNCHANGED <<rowVars, task, blocked, procVars, historyVars>>

\* Manager.SyncBans on the Agent replaces the sets, refuses, or fails after it has replaced
\* them (Firewall.tla). An answer that the Agent gives again over its next connection (its
\* result cache) is heard at once.
ApplyNext(result, inForce, heard) ==
    /\ inbox # <<>> /\ inbox' = Tail(inbox)
    /\ blocked' = IF inForce THEN Head(inbox).list ELSE blocked
    /\ answer' = IF Head(inbox).by # None /\ heard
                 THEN [answer EXCEPT ![Head(inbox).by] = result] ELSE answer
    /\ UNCHANGED <<rowVars, task, online, pc, list, works, trigger, historyVars>>

\* A temporary ban runs out: in the Agent's set, in the lists on their way, and for the
\* next ListIPBans.
Expire(a) ==
    /\ row[a] # "none" /\ a \notin due /\ due' = due \cup {a}
    /\ blocked' = blocked \ {a}
    /\ list' = [x \in Procs |-> list[x] \ {a}]
    /\ inbox' = [i \in DOMAIN inbox |-> [inbox[i] EXCEPT !.list = @ \ {a}]]
    /\ UNCHANGED <<row, task, online, pc, works, answer, trigger, historyVars>>

-----------------------------------------------------------------------------
Next ==
    \/ \E h \in Handlers :
           \/ \E a \in Addresses : Ban(h, a) \/ Unban(h, a)
           \/ ChangeOther(h)
           \/ CreateTask(h) \/ ClaimOwn(h) \/ Cut(h) \/ Retry(h) \/ Cancel(h)
    \/ StartProcessor \/ ClaimNext \/ ShowBans
    \/ \E s \in Syncs : Connect(s) \/ StartSync(s)
    \/ \E x \in Procs :
           ListBans(x) \/ ListFails(x) \/ Send(x) \/ Timeout(x) \/ Mark(x) \/ Finish(x)
    \/ Drop
    \/ \E heard \in {TRUE, online} :
           ApplyNext("ok", TRUE, heard) \/ \E b \in BOOLEAN : ApplyNext("refused", b, heard)
    \/ \E a \in Addresses : Expire(a)

Spec == Init /\ [][Next]_vars

-----------------------------------------------------------------------------
TypeOK ==
    /\ row \in [Addresses -> {"none", "waiting", "applied"}] /\ due \subseteq Rows
    /\ task \in [Handlers -> {"none", "queued", "running", "failed", "succeeded", "canceled"}]
    /\ online \in BOOLEAN /\ blocked \subseteq Addresses
    /\ inbox \in Seq([by : Procs \cup {None}, list : SUBSET Addresses])
    /\ pc \in [Procs -> {"idle", "create", "claim", "next", "list", "send", "wait", "finish", "done"}]
    /\ list \in [Procs -> SUBSET Addresses] /\ works \in [Procs -> Handlers \cup {None}]
    /\ \A x \in Procs : works[x] # None => task[works[x]] = "running"
    /\ answer \in [Procs -> {None, "ok", "refused", "error"}]
    /\ trigger \in BOOLEAN /\ mixed \in BOOLEAN
    /\ newest \in Handlers \cup {None} /\ alone \in Window \cup {None}

\* Nobody is between a change of the rows and its task, or within a synchronisation, and no
\* task waits.
Quiet ==
    /\ \A x \in Procs : pc[x] \in {"idle", "next", "done"}
    /\ \A h \in Handlers : task[h] # "queued"

\* A ban shown as applied (ip_bans.applied) is in the Agent's set, once requests, tasks and
\* synchronisations have come to rest. A ban saved while another list is on its way is marked
\* too early by SetIPBansApplyState (server.go:1356): its own synchronisation makes that good,
\* or takes the mark back from every row. The exceptions last until a synchronisation by
\* itself succeeds: two of them overlapped, or the change's own never read the list, because
\* it was cut off before its task, its task was canceled, or ListIPBans failed.
AppliedIsBlocked ==
    Quiet /\ ~mixed => \A a \in Addresses \ due : row[a] = "applied" => a \in blocked

\* When the newest ban_sync task has succeeded, the Agent blocks exactly the rows: no ban is
\* missing and no lifted one is left, though superseded, failed, retried and unanswered
\* synchronisations came before it (under the same proviso).
SucceededIsExact ==
    Quiet /\ ~mixed /\ newest # None /\ task[newest] = "succeeded" => blocked = Rows \ due
=============================================================================
