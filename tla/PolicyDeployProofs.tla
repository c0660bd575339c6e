------------------------- MODULE PolicyDeployProofs -------------------------
(***************************************************************************)
(* Proofs about PolicyDeploy, for every number of requests, connections    *)
(* and policies: its type invariant, that a deployment by itself leaves    *)
(* the Agent with the policy its row says, and that the newest deployment  *)
(* keeps its policy.                                                       *)
(***************************************************************************)
EXTENDS PolicyDeploy, SequenceTheorems, TLAPS

Answers == {None, "ok", "refused", "error"}
Locals == [online : BOOLEAN, policy : [id : Ids \cup {None}, rev : Nat], old : Ids \cup {None},
           listed : SUBSET Handlers, task : Handlers \cup {None}, answer : Answers]
Commands == [by : Procs \cup {None}, policy : Ids]
Policies == [id : Ids, rev : Nat \ {0}]

\* What the rows, the connection and the processes hold.
RowTypes ==
    /\ policies \in [Ids -> Nat] /\ assigned \in Ids \cup {None}
    /\ assigned # None => Exists(assigned)
    /\ history \subseteq Policies
    /\ task \in [Handlers -> {"none", "queued", "running", "failed", "succeeded", "canceled"}]
    /\ previous \in [Handlers -> Ids \cup {None}]
LinkTypes ==
    /\ online \in BOOLEAN /\ connects \in 0..MaxConnects /\ running \in Ids \cup {None}
    /\ inbox \in Seq(Commands)
Carrying == {"list", "create", "supersede", "send", "wait", "record"}
Answered == {"wait", "fail", "record", "finish", "tidy", "undo"}
ProcTypes ==
    /\ pc \in [Procs -> Locations] /\ loc \in [Procs -> Locals]
    /\ role \in [Handlers -> {None, "save", "restore", "deploy", "edit", "cancel"}]
    /\ \A x \in Procs : pc[x] \in Carrying => loc[x].policy \in Policies
    /\ \A x \in Procs : pc[x] \notin Answered => loc[x].answer = None
HistoryTypes ==
    /\ trigger \in BOOLEAN /\ muddled \in BOOLEAN
    /\ newest \in Handlers \cup {None} /\ served \subseteq Ids /\ alone \in Waiting \cup {None}
Types == RowTypes /\ LinkTypes /\ ProcTypes /\ HistoryTypes

\* A command on its way has one caller, which waits for it unanswered, or none any more.
Called ==
    /\ \A i \in DOMAIN inbox : inbox[i].by # None => At(inbox[i].by, "wait") /\ loc[inbox[i].by].answer = None
    /\ \A i, j \in DOMAIN inbox : inbox[i].by # None /\ inbox[i].by = inbox[j].by => i = j

\* A deployment without another beside it has the connection for itself, and without one the
\* Agent runs what its row says.
Settled ==
    /\ alone # None =>
           /\ Waiting = {alone} /\ Len(inbox) <= 1
           /\ inbox # <<>> =>
                  /\ inbox[1].policy = loc[alone].policy.id /\ loc[alone].answer = None
                  /\ ~muddled => running = assigned
           /\ loc[alone].answer = "ok" => running = loc[alone].policy.id
           /\ loc[alone].answer = "refused" /\ ~muddled => running = assigned
    /\ alone = None /\ ~muddled => Waiting = {} /\ inbox = <<>> /\ running = assigned

\* Nobody will delete the policy of the newest deployment, unless it was assigned: who deletes
\* the policy replaced deletes one that was assigned, who deletes the superseded ones listed
\* them before the newest task was there, and a restore and a cancellation delete their own.
OldServed ==
    /\ assigned # None => assigned \in served
    /\ \A x \in Procs : loc[x].old \in served \cup {None}
    /\ \A h \in Handlers : previous[h] \in served \cup {None}

BeforeTask == {"idle", "read", "load", "list", "create"}
Owns(h) ==
    /\ pc[h] \in BeforeTask => task[h] = "none"
    /\ pc[h] \in {"list", "create", "supersede"} => role[h] = "save"
    /\ pc[h] \in {"list", "create"} => policies[h] > 0 \/ h \in served
    /\ \A t \in loc[h].listed : task[t] # "none"
    /\ pc[h] = "supersede" => newest \notin loc[h].listed
    /\ role[h] = "restore" => task[h] = "none" /\ (pc[h] \in {"read", "load"} \/ loc[h].policy.id = h)
    /\ pc[h] = "undo" => \/ loc[h].policy.id = h /\ task[h] = "none"
                         \/ loc[h].policy.id \in Handlers /\ task[loc[h].policy.id] = "canceled"

Safe ==
    /\ OldServed /\ \A h \in Handlers : Owns(h)
    /\ newest # None => task[newest] # "none"
    /\ NewestKept

IInv == Types /\ Called /\ Settled /\ Safe

-----------------------------------------------------------------------------
LEMMA ProcsFacts ==
    /\ Handlers \subseteq Procs /\ Syncs \subseteq Procs /\ Processor \in Procs
    /\ Handlers \subseteq Ids /\ Base \in Ids /\ None \notin Procs /\ None \notin Ids
    /\ None \notin {"ok", "refused", "error", "restore"}
  BY ProcsAssumption DEF Procs, Ids

\* DeletePolicyIfUnassigned leaves the policy that is assigned.
LEMMA DeleteTypes ==
    ASSUME RowTypes, NEW p \in Ids \cup {None}, DeletePolicyIfUnassigned(p)
    PROVE  /\ policies' \in [Ids -> Nat] /\ assigned' = assigned
           /\ assigned # None => policies'[assigned] > 0
  BY ProcsFacts DEF RowTypes, DeletePolicyIfUnassigned, Exists

LEMMA RowTypesStep == IInv /\ [Next]_vars => RowTypes'
<1> SUFFICES ASSUME IInv, [Next]_vars PROVE RowTypes'
  OBVIOUS
<1> USE ProcsFacts
<1>0. RowTypes /\ ProcTypes BY DEF IInv, Types
<1>1. CASE UNCHANGED rowVars BY <1>0, <1>1 DEF RowTypes, rowVars, Exists
<1>2. ASSUME NEW h \in Handlers, NEW t \in Handlers, StartCancel(h, t) \/ RetryTask(h, t) PROVE RowTypes'
  BY <1>0, <1>2 DEF RowTypes, StartCancel, RetryTask, Exists
<1>3. ASSUME NEW h \in Handlers, CreateTask(h) PROVE RowTypes'
  <2>1. loc[h].old \in Ids \cup {None} BY <1>0 DEF ProcTypes, Locals
  <2> QED BY <1>0, <1>3, <2>1 DEF RowTypes, CreateTask, Exists
<1>4. ASSUME NEW h \in Handlers, ClaimOwn(h) PROVE RowTypes'
  BY <1>0, <1>4 DEF RowTypes, ClaimOwn, Exists
<1>5. CASE ClaimNext
  BY <1>0, <1>5 DEF RowTypes, ClaimNext, Exists, Queued
<1>6. ASSUME NEW h \in Handlers, LoadAndSave(h) PROVE RowTypes'
  <2>1. \A r \in Nat : r > 0 /\ policies' = [policies EXCEPT ![h] = r] => RowTypes'
    BY <1>0, <1>6 DEF RowTypes, LoadAndSave, Exists
  <2>2. policies' = policies => RowTypes'
    BY <1>0, <1>6 DEF RowTypes, LoadAndSave, Exists
  <2>3. loc[h].old \in Ids \cup {None} BY <1>0 DEF ProcTypes, Locals
  <2> QED BY <1>0, <1>6, <2>1, <2>2, <2>3 DEF RowTypes, LoadAndSave, Exists
<1>7. ASSUME NEW h \in Handlers, WriteEdit(h) PROVE RowTypes'
  <2>1. loc[h].policy \in [id : Ids \cup {None}, rev : Nat] BY <1>0 DEF ProcTypes, Locals
  <2> QED BY <1>0, <1>7, <2>1 DEF RowTypes, WriteEdit, Exists
<1>8. ASSUME NEW h \in Handlers, NEW t \in Handlers, DropSuperseded(h, t) PROVE RowTypes'
  BY <1>0, <1>8, DeleteTypes DEF RowTypes, DropSuperseded, Exists
<1>9. ASSUME NEW h \in Handlers, DeleteOwn(h) PROVE RowTypes'
  <2>1. loc[h].policy.id \in Ids \cup {None} BY <1>0 DEF ProcTypes, Locals
  <2> QED BY <1>0, <1>9, <2>1, DeleteTypes DEF RowTypes, DeleteOwn, Exists
<1>10. ASSUME NEW x \in Procs, DeleteReplaced(x) PROVE RowTypes'
  <2>1. loc[x].old \in Ids \cup {None} BY <1>0 DEF ProcTypes, Locals
  <2> QED BY <1>0, <1>10, <2>1, DeleteTypes DEF RowTypes, DeleteReplaced, Exists
<1>11. ASSUME NEW x \in Procs, Accepted(x) PROVE RowTypes'
  <2>1. loc[x].policy.id \in Ids BY <1>0, <1>11 DEF ProcTypes, Accepted, At, Policies, Carrying
  <2>2. UNCHANGED <<policies, history, task, previous>> BY <1>11 DEF Accepted
  <2>3. IF Exists(loc[x].policy.id) THEN assigned' = loc[x].policy.id ELSE assigned' = assigned
    BY <1>11 DEF Accepted, AssignPolicy
  <2> QED BY <1>0, <2>1, <2>2, <2>3 DEF RowTypes, Exists
<1>12. ASSUME NEW x \in Procs, FailTask(x) \/ Succeed(x) PROVE RowTypes'
  BY <1>0, <1>12 DEF RowTypes, FailTask, Succeed, FinishAgentTask, Exists
<1>13. ASSUME NEW x \in Procs, Record(x) PROVE RowTypes'
  <2>1. loc[x].policy \in Policies BY <1>0, <1>13 DEF ProcTypes, Record, At, Carrying
  <2>2. history' \subseteq Policies BY <1>0, <1>13, <2>1 DEF RowTypes, Record, RecordPolicyHistory
  <2> QED BY <1>0, <1>13, <2>2 DEF RowTypes, Record, Exists
<1> QED
  BY <1>1, <1>2, <1>3, <1>4, <1>5, <1>6, <1>7, <1>8, <1>9, <1>10, <1>11, <1>12, <1>13
  DEF Next, Request, Deployment, StartSave, StartRestore, StartDeploy, StartEdit, ListQueued, Abandon, Forget,
      ReadAssigned, Send, SendOffline, Timeout, Refused, Connect, LoadAndSync, StartProcessor,
      FetchPolicy, Drop, ApplyNext, vars

\* Goto to any place with any locals keeps their types.
LEMMA GotoTypes ==
    ASSUME ProcTypes, NEW x \in Procs, NEW where \in Locations, NEW l \in Locals, Goto(x, where, l),
           where \in Carrying => l.policy \in Policies,
           where \notin Answered => l.answer = None,
           role' \in [Handlers -> {None, "save", "restore", "deploy", "edit", "cancel"}]
    PROVE  ProcTypes'
  BY DEF ProcTypes, Goto

LEMMA StepTypes ==
    ASSUME ProcTypes, NEW x \in Procs, NEW where \in Locations, Step(x, where),
           where \in Carrying => loc[x].policy \in Policies,
           where \notin Answered => loc[x].answer = None,
           role' \in [Handlers -> {None, "save", "restore", "deploy", "edit", "cancel"}]
    PROVE  ProcTypes'
<1>1. loc[x] \in Locals BY DEF ProcTypes
<1> QED BY <1>1, GotoTypes DEF Step

LEMMA NoLocalsType == NoLocals \in Locals /\ NoLocals.answer = None
  BY DEF NoLocals, NoPolicy, Locals, Answers

LEMMA LeaveTypes ==
    ASSUME ProcTypes, NEW x \in Procs, Leave(x)
    PROVE  ProcTypes'
<1>1. \E where \in {"done", "idle", "next"} : Goto(x, where, NoLocals)
  BY DEF Leave
<1>2. role' \in [Handlers -> {None, "save", "restore", "deploy", "edit", "cancel"}]
  BY DEF Leave, ProcTypes
<1>3. {"done", "idle", "next"} \subseteq Locations \ Carrying BY DEF Locations, Carrying
<1> QED BY <1>1, <1>2, <1>3, NoLocalsType, GotoTypes

LEMMA GiveUpTypes ==
    ASSUME ProcTypes, NEW x \in Procs, NEW a \in {"error", "refused"}, GiveUp(x, a)
    PROVE  ProcTypes'
<1>1. CASE Kind(x) \in {"save", "process"}
  <2>1. [loc[x] EXCEPT !.answer = a] \in Locals BY DEF ProcTypes, Locals, Answers
  <2>2. Goto(x, "fail", [loc[x] EXCEPT !.answer = a]) /\ UNCHANGED role BY <1>1 DEF GiveUp
  <2>3. "fail" \in Locations /\ "fail" \in Answered \ Carrying BY DEF Locations, Answered, Carrying
  <2>4. role' \in [Handlers -> {None, "save", "restore", "deploy", "edit", "cancel"}]
    BY <2>2 DEF ProcTypes
  <2> QED BY <2>1, <2>2, <2>3, <2>4, GotoTypes
<1>2. CASE Kind(x) = "restore"
  <2>1. Step(x, "undo") /\ UNCHANGED role BY <1>2 DEF GiveUp
  <2>2. "undo" \in Locations /\ "undo" \in Answered \ Carrying BY DEF Locations, Answered, Carrying
  <2>3. role' \in [Handlers -> {None, "save", "restore", "deploy", "edit", "cancel"}]
    BY <2>1 DEF ProcTypes
  <2> QED BY <2>1, <2>2, <2>3, StepTypes
<1>3. CASE Kind(x) \notin {"save", "process", "restore"}
  BY <1>3, LeaveTypes DEF GiveUp
<1> QED BY <1>1, <1>2, <1>3

\* What a new request has in hand.
LEMMA StartTypes ==
    ASSUME ProcTypes, NEW h \in Handlers, NEW r \in {"save", "restore", "deploy", "edit", "cancel"},
           Start(h, r)
    PROVE  role' \in [Handlers -> {None, "save", "restore", "deploy", "edit", "cancel"}]
  BY DEF Start, ProcTypes

LEMMA ProcTypesStep == IInv /\ [Next]_vars => ProcTypes'
<1> SUFFICES ASSUME IInv, [Next]_vars PROVE ProcTypes'
  OBVIOUS
<1> DEFINE Roles == {None, "save", "restore", "deploy", "edit", "cancel"}
           SameRole == UNCHANGED role => role' \in [Handlers -> Roles]
<1> USE ProcsFacts, NoLocalsType
<1>0. RowTypes /\ ProcTypes /\ SameRole /\ online \in BOOLEAN
  BY DEF IInv, Types, ProcTypes, LinkTypes
<1>L. Locations = {"idle", "read", "load", "list", "create", "supersede", "next", "fetch", "send",
                   "wait", "fail", "record", "finish", "tidy", "undo", "write", "done"}
      /\ Answered = {"wait", "fail", "record", "finish", "tidy", "undo"}
      /\ Carrying = {"list", "create", "supersede", "send", "wait", "record"}
  BY DEF Locations, Answered, Carrying
<1>A. \A x \in Procs : loc[x] \in Locals /\ (pc[x] \notin Answered => loc[x].answer = None)
  BY <1>0 DEF ProcTypes
<1>R. \A p \in Ids : Exists(p) => Row(p) \in Policies /\ Row(p) \in [id : Ids \cup {None}, rev : Nat]
  BY <1>0 DEF Row, Exists, RowTypes, Policies
<1>P. \A p \in [id : Ids \cup {None}, rev : Nat] : [NoLocals EXCEPT !.policy = p] \in Locals
                                          /\ [NoLocals EXCEPT !.policy = p].policy = p
                                          /\ [NoLocals EXCEPT !.policy = p].answer = None
  BY DEF NoLocals, NoPolicy, Locals, Answers
<1>1. ASSUME NEW h \in Handlers, StartSave(h) PROVE ProcTypes'
  <2>1. [NoLocals EXCEPT !.online = online] \in Locals /\ [NoLocals EXCEPT !.online = online].answer = None
    BY <1>0 DEF NoLocals, NoPolicy, Locals, Answers
  <2> QED BY <1>0, <1>1, <1>L, <2>1, StartTypes, GotoTypes DEF StartSave
<1>2. ASSUME NEW h \in Handlers, StartRestore(h) PROVE ProcTypes'
  BY <1>0, <1>2, <1>L, <1>A, StartTypes, StepTypes DEF StartRestore, Start, At
<1>3. ASSUME NEW h \in Handlers, NEW p \in Ids, StartDeploy(h, p) \/ StartEdit(h, p) PROVE ProcTypes'
  <2>1. Row(p) \in Policies BY <1>3, <1>R DEF StartDeploy, StartEdit
  <2>2. Row(p) \in [id : Ids \cup {None}, rev : Nat] BY <2>1 DEF Policies
  <2> DEFINE l == [NoLocals EXCEPT !.policy = Row(p)]
  <2>3. l \in Locals /\ l.policy = Row(p) /\ l.answer = None BY <1>P, <2>2
  <2>4. Goto(h, "send", l) \/ Goto(h, "write", l) BY <1>3 DEF StartDeploy, StartEdit
  <2>5. role' \in [Handlers -> Roles] BY <1>0, <1>3, StartTypes DEF StartDeploy, StartEdit
  <2> HIDE DEF l
  <2> QED BY <1>0, <1>L, <2>1, <2>3, <2>4, <2>5, GotoTypes
<1>4. ASSUME NEW h \in Handlers, NEW t \in Handlers, StartCancel(h, t) PROVE ProcTypes'
  <2> DEFINE l == [NoLocals EXCEPT !.policy = [id |-> t, rev |-> 0]]
  <2>1. l \in Locals BY <1>P
  <2>2. Goto(h, "undo", l) BY <1>4 DEF StartCancel
  <2>3. role' \in [Handlers -> Roles] BY <1>0, <1>4, StartTypes DEF StartCancel
  <2> HIDE DEF l
  <2> QED BY <1>0, <1>L, <2>1, <2>2, <2>3, GotoTypes
<1>5. ASSUME NEW h \in Handlers, NEW t \in Handlers, RetryTask(h, t) PROVE ProcTypes'
  BY <1>0, <1>5, <1>L, <1>A, StepTypes DEF RetryTask, At
<1>6. ASSUME NEW x \in Procs, ReadAssigned(x) PROVE ProcTypes'
  <2>1. [loc[x] EXCEPT !.old = assigned] \in Locals BY <1>0 DEF ProcTypes, RowTypes, Locals
  <2>2. loc[x].answer = None BY <1>6, <1>A, <1>L DEF ReadAssigned, At
  <2>3. [loc[x] EXCEPT !.old = assigned].answer = None BY <1>A, <2>2 DEF Locals
  <2> QED BY <1>0, <1>6, <1>L, <2>1, <2>3, GotoTypes DEF ReadAssigned
<1>7. ASSUME NEW h \in Handlers, LoadAndSave(h) PROVE ProcTypes'
  <2>1. CASE Leave(h) BY <1>0, <2>1, LeaveTypes
  <2>2. CASE ~Leave(h)
    <3> DEFINE found == Exists(loc[h].old)
               rev == IF found THEN policies[loc[h].old] + 1 ELSE 1
               l == [loc[h] EXCEPT !.policy = [id |-> h, rev |-> rev], !.task = h,
                                   !.old = IF found THEN @ ELSE None]
    <3>1. rev \in Nat \ {0} BY <1>0 DEF RowTypes, ProcTypes, Locals, Exists
    <3>2. [id |-> h, rev |-> rev] \in Policies /\ [id |-> h, rev |-> rev] \in [id : Ids \cup {None}, rev : Nat]
      BY <3>1 DEF Policies
    <3>3. l \in Locals /\ l.policy = [id |-> h, rev |-> rev] /\ l.answer = loc[h].answer
      BY <1>0, <3>2 DEF ProcTypes, Locals
    <3>4. (Goto(h, "list", l) \/ Goto(h, "send", l)) /\ UNCHANGED role
      BY <1>7, <2>2 DEF LoadAndSave
    <3>5. loc[h].answer = None BY <1>0, <1>7 DEF ProcTypes, LoadAndSave, At, Answered
    <3> HIDE DEF l, rev
    <3> QED BY <1>0, <1>L, <3>2, <3>3, <3>4, <3>5, GotoTypes
  <2> QED BY <2>1, <2>2
<1>8. ASSUME NEW s \in Syncs, LoadAndSync(s) PROVE ProcTypes'
  <2> DEFINE l == [loc[s] EXCEPT !.policy = Row(loc[s].old)]
  <2>1. CASE Leave(s) BY <1>0, <2>1, LeaveTypes
  <2>2. CASE Exists(loc[s].old) /\ Goto(s, "send", l) /\ UNCHANGED role
    <3>1. loc[s].old \in Ids BY <1>A, <2>2 DEF Locals, Exists
    <3>2. Row(loc[s].old) \in Policies BY <1>R, <2>2, <3>1
    <3>3. l \in Locals /\ l.policy = Row(loc[s].old) /\ l.answer = loc[s].answer
      BY <1>A, <3>2 DEF Locals, Policies
    <3>4. loc[s].answer = None BY <1>8, <1>A DEF LoadAndSync, At, Answered
    <3> HIDE DEF l
    <3> QED BY <1>0, <1>L, <2>2, <3>2, <3>3, <3>4, GotoTypes
  <2> QED BY <1>8, <2>1, <2>2 DEF LoadAndSync
<1>9. ASSUME NEW h \in Handlers, ListQueued(h) PROVE ProcTypes'
  <2>1. [loc[h] EXCEPT !.listed = Queued] \in Locals BY <1>A DEF Locals, Queued
  <2>2. loc[h].answer = None /\ loc[h].policy \in Policies
    BY <1>0, <1>9, <1>A DEF ProcTypes, ListQueued, At, Answered, Carrying
  <2>3. /\ [loc[h] EXCEPT !.listed = Queued].answer = None
        /\ [loc[h] EXCEPT !.listed = Queued].policy \in Policies
    BY <1>A, <2>2 DEF Locals
  <2> QED BY <1>0, <1>9, <1>L, <2>1, <2>3, GotoTypes DEF ListQueued
<1>10. ASSUME NEW h \in Handlers, CreateTask(h) PROVE ProcTypes'
  <2>1. loc[h].answer = None /\ loc[h].policy \in Policies
    BY <1>0, <1>10, <1>A DEF ProcTypes, CreateTask, At, Answered, Carrying
  <2> QED BY <1>0, <1>10, <1>L, <2>1, StepTypes DEF CreateTask
<1>11. ASSUME NEW h \in Handlers, NEW t \in Handlers, DropSuperseded(h, t) PROVE ProcTypes'
  <2>1. loc[h].answer = None /\ loc[h].policy \in Policies
    BY <1>0, <1>11, <1>A DEF ProcTypes, DropSuperseded, At, Answered, Carrying
  <2>2. [loc[h] EXCEPT !.listed = @ \ {t}] \in Locals /\ [loc[h] EXCEPT !.listed = @ \ {t}].answer = None
      /\ [loc[h] EXCEPT !.listed = @ \ {t}].policy \in Policies
    BY <1>A, <2>1 DEF Locals
  <2> QED BY <1>0, <1>11, <1>L, <2>2, GotoTypes DEF DropSuperseded
<1>12. ASSUME NEW h \in Handlers, ClaimOwn(h) PROVE ProcTypes'
  <2>1. CASE Leave(h) BY <1>0, <2>1, LeaveTypes
  <2>2. CASE Step(h, "send") /\ UNCHANGED role
    <3>1. loc[h].answer = None BY <1>12, <1>A, <1>L DEF ClaimOwn, At
    <3>2. loc[h].policy \in Policies BY <1>0, <1>12, <1>L DEF ProcTypes, ClaimOwn, At
    <3> QED BY <1>0, <1>L, <2>2, <3>1, <3>2, StepTypes
  <2> QED BY <1>12, <2>1, <2>2 DEF ClaimOwn
<1>13. ASSUME NEW h \in Handlers, DeleteOwn(h) \/ WriteEdit(h) \/ Abandon(h) PROVE ProcTypes'
  BY <1>0, <1>13, LeaveTypes DEF DeleteOwn, WriteEdit, Abandon
<1>14. ASSUME NEW x \in Procs, Send(x) PROVE ProcTypes'
  <2>1. loc[x].policy \in Policies BY <1>0, <1>14 DEF ProcTypes, Send, At, Carrying
  <2> QED BY <1>0, <1>14, <1>L, <2>1, StepTypes DEF Send
<1>15. ASSUME NEW x \in Procs, SendOffline(x) \/ Timeout(x) \/ Refused(x) PROVE ProcTypes'
  BY <1>0, <1>15, GiveUpTypes DEF SendOffline, Timeout, Refused
<1>16. ASSUME NEW x \in Procs, Accepted(x) PROVE ProcTypes'
  <2>1. CASE Leave(x) BY <1>0, <2>1, LeaveTypes
  <2>2. CASE (Step(x, "record") \/ Step(x, "fail")) /\ UNCHANGED role
    <3>1. loc[x].policy \in Policies BY <1>0, <1>16 DEF ProcTypes, Accepted, At, Carrying
    <3> QED BY <1>0, <1>L, <2>2, <3>1, StepTypes
  <2> QED BY <1>16, <2>1, <2>2 DEF Accepted
<1>17. ASSUME NEW x \in Procs, FailTask(x) PROVE ProcTypes'
  BY <1>0, <1>17, LeaveTypes DEF FailTask
<1>18. ASSUME NEW x \in Procs, Record(x) PROVE ProcTypes'
  BY <1>0, <1>18, <1>L, StepTypes DEF Record
<1>19. ASSUME NEW x \in Procs, Succeed(x) \/ DeleteReplaced(x) PROVE ProcTypes'
  <2>1. CASE Leave(x) BY <1>0, <2>1, LeaveTypes
  <2>2. CASE (Step(x, "tidy") \/ Step(x, "finish")) /\ UNCHANGED role
    BY <1>0, <1>L, <2>2, StepTypes
  <2> QED BY <1>19, <2>1, <2>2 DEF Succeed, DeleteReplaced
<1>20. ASSUME NEW s \in Syncs, Connect(s) PROVE ProcTypes'
  <2>1. loc[s].answer = None BY <1>20, <1>A, <1>L DEF Connect, At
  <2> QED BY <1>0, <1>20, <1>L, <2>1, StepTypes DEF Connect
<1>21. CASE StartProcessor
  <2>1. CASE pc[Processor] = "idle"
    <3>1. loc[Processor].answer = None BY <1>A, <1>L, <2>1
    <3> QED BY <1>0, <1>21, <1>L, <2>1, <3>1, StepTypes DEF StartProcessor, At
  <2>2. CASE pc[Processor] # "idle"
    <3>1. pc' = pc /\ loc' = loc /\ role' = role
      BY <1>0, <1>21, <2>2 DEF StartProcessor, At, Step, Goto, ProcTypes
    <3> QED BY <1>0, <3>1 DEF ProcTypes
  <2> QED BY <2>1, <2>2
<1>22. CASE ClaimNext
  <2>1. CASE Step(Processor, "idle")
    <3>1. loc[Processor].answer = None BY <1>22, <1>A, <1>L DEF ClaimNext, At
    <3> QED BY <1>0, <1>22, <1>L, <2>1, <3>1, StepTypes DEF ClaimNext
  <2>2. ASSUME NEW t \in Handlers, Goto(Processor, "fetch", [NoLocals EXCEPT !.task = t, !.old = previous[t]])
        PROVE  ProcTypes'
    <3> DEFINE l == [NoLocals EXCEPT !.task = t, !.old = previous[t]]
    <3>1. previous[t] \in Ids \cup {None} BY <1>0 DEF RowTypes
    <3>2. l \in Locals /\ l.answer = None BY <3>1 DEF NoLocals, NoPolicy, Locals, Answers
    <3>3. Goto(Processor, "fetch", l) /\ role' \in [Handlers -> Roles]
      BY <1>0, <1>22, <2>2 DEF ClaimNext
    <3> HIDE DEF l
    <3> QED BY <1>0, <1>L, <3>2, <3>3, GotoTypes
  <2> QED BY <1>22, <2>1, <2>2 DEF ClaimNext, Queued
<1>23. CASE FetchPolicy
  <2> DEFINE old == loc[Processor]
             l == [old EXCEPT !.policy = Row(old.task)]
             m == [old EXCEPT !.answer = "refused"]
  <2>1. CASE Exists(old.task) /\ Goto(Processor, "send", l)
    <3>1. old.task \in Ids BY <1>A, <2>1 DEF Locals, Exists
    <3>2. Row(old.task) \in Policies BY <1>R, <2>1, <3>1
    <3>3. l \in Locals /\ l.policy = Row(old.task) /\ l.answer = old.answer
      BY <1>A, <3>2 DEF Locals, Policies
    <3>4. old.answer = None BY <1>23, <1>A, <1>L DEF FetchPolicy, At
    <3>5. Goto(Processor, "send", l) BY <2>1
    <3> HIDE DEF l
    <3> QED BY <1>0, <1>23, <1>L, <3>2, <3>3, <3>4, <3>5, GotoTypes DEF FetchPolicy
  <2>2. CASE Goto(Processor, "fail", m)
    <3>1. m \in Locals BY <1>A DEF Locals, Answers
    <3>2. Goto(Processor, "fail", m) BY <2>2
    <3> HIDE DEF m
    <3> QED BY <1>0, <1>23, <1>L, <3>1, <3>2, GotoTypes DEF FetchPolicy
  <2> QED BY <1>23, <2>1, <2>2 DEF FetchPolicy
<1>24. ASSUME NEW a \in {"ok", "refused"}, NEW b \in BOOLEAN, NEW d \in BOOLEAN, ApplyNext(a, b, d)
       PROVE  ProcTypes'
  <2>1. pc' = pc /\ role' = role BY <1>24 DEF ApplyNext
  <2>2. CASE loc' = loc BY <1>0, <2>1, <2>2 DEF ProcTypes
  <2>3. CASE loc' = [loc EXCEPT ![Head(inbox).by].answer = a] /\ Head(inbox).by # None
    <3>1. inbox # <<>> /\ Head(inbox) = inbox[1] /\ 1 \in DOMAIN inbox
      BY <1>24 DEF ApplyNext, IInv, Types, LinkTypes
    <3>2. Head(inbox).by \in Procs /\ pc[Head(inbox).by] = "wait"
      <4>1. inbox[1] \in Commands BY <3>1 DEF IInv, Types, LinkTypes
      <4>2. inbox[1].by \in Procs BY <2>3, <3>1, <4>1 DEF Commands
      <4>3. At(inbox[1].by, "wait") BY <2>3, <3>1, <4>2 DEF IInv, Called
      <4> QED BY <3>1, <4>2, <4>3 DEF At
    <3>3. PICK y \in Procs : y = Head(inbox).by /\ pc[y] = "wait" BY <3>2
    <3>4. [loc[y] EXCEPT !.answer = a] \in Locals BY <1>A DEF Locals, Answers
    <3>5. loc' = [loc EXCEPT ![y] = [loc[y] EXCEPT !.answer = a]] BY <2>3, <3>3
    <3>6. loc' \in [Procs -> Locals] BY <1>0, <3>4, <3>5 DEF ProcTypes
    <3>7. \A x \in Procs : loc'[x].policy = loc[x].policy /\ (x # y => loc'[x] = loc[x])
      BY <1>0, <3>5 DEF ProcTypes, Locals
    <3> QED BY <1>0, <1>L, <2>1, <3>3, <3>6, <3>7 DEF ProcTypes
  <2> QED BY <1>24, <2>2, <2>3 DEF ApplyNext
<1>25. CASE Drop \/ UNCHANGED vars BY <1>0, <1>25 DEF Drop, procVars, vars, ProcTypes
<1> QED
  BY <1>1, <1>2, <1>3, <1>4, <1>5, <1>6, <1>7, <1>8, <1>9, <1>10, <1>11, <1>12, <1>13, <1>14, <1>15, <1>16,
     <1>17, <1>18, <1>19, <1>20, <1>21, <1>22, <1>23, <1>24, <1>25, <1>0
  DEF Next, Request, Deployment


-----------------------------------------------------------------------------
\* Most steps neither start nor end a wait, and leave the connection and the assignment.
Elsewhere ==
    /\ UNCHANGED <<inbox, running, assigned, alone, muddled>>
    /\ \/ UNCHANGED <<pc, loc>>
       \/ \E x \in Procs :
              /\ pc[x] # "wait" /\ pc'[x] # "wait"
              /\ \A y \in Procs \ {x} : pc'[y] = pc[y] /\ loc'[y] = loc[y]

LEMMA GotoElsewhere ==
    ASSUME ProcTypes, NEW x \in Procs, NEW where, NEW l, Goto(x, where, l), pc[x] # "wait", where # "wait",
           UNCHANGED <<inbox, running, assigned, alone, muddled>>
    PROVE  Elsewhere
  BY DEF ProcTypes, Goto, Elsewhere

LEMMA LeaveElsewhere ==
    ASSUME ProcTypes, NEW x \in Procs, Leave(x), pc[x] # "wait",
           UNCHANGED <<inbox, running, assigned, alone, muddled>>
    PROVE  Elsewhere
<1>1. \E where \in {"done", "idle", "next"} : Goto(x, where, NoLocals) BY DEF Leave
<1> QED BY <1>1, GotoElsewhere

LEMMA GiveUpElsewhere ==
    ASSUME ProcTypes, NEW x \in Procs, NEW a, GiveUp(x, a), pc[x] # "wait",
           UNCHANGED <<inbox, running, assigned, alone, muddled>>
    PROVE  Elsewhere
<1>1. Leave(x) \/ (\E where \in {"fail", "undo"}, l \in {loc[x], [loc[x] EXCEPT !.answer = a]} : Goto(x, where, l))
  BY DEF GiveUp, Step
<1> QED BY <1>1, GotoElsewhere, LeaveElsewhere

LEMMA MostElsewhere ==
    ASSUME IInv, Next
    PROVE  \/ Elsewhere \/ Drop
           \/ \E x \in Procs : Send(x) \/ Timeout(x) \/ Accepted(x) \/ Refused(x)
           \/ \E h \in Handlers : Abandon(h)
           \/ \E a \in {"ok", "refused"}, b \in BOOLEAN, d \in BOOLEAN : (a = "ok" => b) /\ ApplyNext(a, b, d)
<1> USE ProcsFacts DEF rowVars, linkVars, historyVars
<1>0. ProcTypes /\ online \in BOOLEAN BY DEF IInv, Types, LinkTypes
<1>1. ASSUME NEW h \in Handlers, StartSave(h) \/ StartRestore(h) PROVE Elsewhere
  BY <1>0, <1>1, GotoElsewhere DEF StartSave, StartRestore, Start, Step, At
<1>2. ASSUME NEW h \in Handlers, NEW p \in Ids, StartDeploy(h, p) \/ StartEdit(h, p) PROVE Elsewhere
  BY <1>0, <1>2, GotoElsewhere DEF StartDeploy, StartEdit, Start, At
<1>3. ASSUME NEW h \in Handlers, NEW t \in Handlers, StartCancel(h, t) \/ RetryTask(h, t) PROVE Elsewhere
  BY <1>0, <1>3, GotoElsewhere DEF StartCancel, RetryTask, Start, Step, At
<1>4. ASSUME NEW h \in Handlers, NEW t \in Handlers, DropSuperseded(h, t) PROVE Elsewhere
  BY <1>0, <1>4, GotoElsewhere DEF DropSuperseded, DeletePolicyIfUnassigned, At
<1>5. ASSUME NEW h \in Handlers, ListQueued(h) \/ CreateTask(h) PROVE Elsewhere
  BY <1>0, <1>5, GotoElsewhere DEF ListQueued, CreateTask, Step, At
<1>6. ASSUME NEW h \in Handlers, LoadAndSave(h) PROVE Elsewhere
  <2>1. pc[h] # "wait" /\ UNCHANGED <<inbox, running, assigned, alone, muddled>>
    BY <1>6 DEF LoadAndSave, At
  <2> DEFINE found == Exists(loc[h].old)
             rev == IF found THEN policies[loc[h].old] + 1 ELSE 1
             l == [loc[h] EXCEPT !.policy = [id |-> h, rev |-> rev], !.task = h,
                                 !.old = IF found THEN @ ELSE None]
  <2>2. Leave(h) \/ Goto(h, "list", l) \/ Goto(h, "send", l) BY <1>6 DEF LoadAndSave
  <2> HIDE DEF l
  <2> QED BY <1>0, <2>1, <2>2, LeaveElsewhere, GotoElsewhere
<1>7. ASSUME NEW h \in Handlers, ClaimOwn(h) PROVE Elsewhere
  BY <1>0, <1>7, GotoElsewhere, LeaveElsewhere DEF ClaimOwn, Step, At
<1>8. ASSUME NEW h \in Handlers, DeleteOwn(h) \/ WriteEdit(h) PROVE Elsewhere
  BY <1>0, <1>8, LeaveElsewhere DEF DeleteOwn, WriteEdit, DeletePolicyIfUnassigned, At
<1>9. ASSUME NEW x \in Procs, ReadAssigned(x) PROVE Elsewhere
  BY <1>0, <1>9, GotoElsewhere DEF ReadAssigned, At
<1>10. ASSUME NEW x \in Procs, SendOffline(x) PROVE Elsewhere
  BY <1>0, <1>10, GiveUpElsewhere DEF SendOffline, At
<1>11. ASSUME NEW x \in Procs, FailTask(x) PROVE Elsewhere
  BY <1>0, <1>11, LeaveElsewhere DEF FailTask, At
<1>12. ASSUME NEW x \in Procs, Record(x) \/ Succeed(x) \/ DeleteReplaced(x) PROVE Elsewhere
  <2>1. pc[x] # "wait" /\ UNCHANGED <<inbox, running, assigned, alone, muddled>>
    BY <1>12 DEF Record, Succeed, DeleteReplaced, DeletePolicyIfUnassigned, At
  <2>2. Leave(x) \/ \E where \in {"finish", "tidy"} : Goto(x, where, loc[x])
    BY <1>12 DEF Record, Succeed, DeleteReplaced, Step
  <2> QED BY <1>0, <2>1, <2>2, GotoElsewhere, LeaveElsewhere
<1>13. ASSUME NEW s \in Syncs, Connect(s) \/ LoadAndSync(s) PROVE Elsewhere
  BY <1>0, <1>13, GotoElsewhere, LeaveElsewhere DEF Connect, LoadAndSync, Step, At
<1>14. CASE StartProcessor
  <2>1. UNCHANGED <<inbox, running, assigned, alone, muddled>> BY <1>14 DEF StartProcessor
  <2>2. CASE pc[Processor] = "idle" BY <1>0, <1>14, <2>1, <2>2, GotoElsewhere DEF StartProcessor, Step, At
  <2>3. CASE pc[Processor] # "idle"
    <3>1. pc' = pc /\ loc' = loc BY <1>0, <1>14, <2>3 DEF StartProcessor, At, Step, Goto, ProcTypes
    <3> QED BY <2>1, <3>1 DEF Elsewhere
  <2> QED BY <2>2, <2>3
<1>15. CASE ClaimNext \/ FetchPolicy
  BY <1>0, <1>15, GotoElsewhere DEF ClaimNext, FetchPolicy, Step, At
<1> QED
  BY <1>0, <1>1, <1>2, <1>3, <1>4, <1>5, <1>6, <1>7, <1>8, <1>9, <1>10, <1>11, <1>12, <1>13, <1>14, <1>15
  DEF Next, Request, Deployment


-----------------------------------------------------------------------------
\* What becomes of the commands on their way.
LEMMA AppendCommand ==
    ASSUME inbox \in Seq(Commands), NEW m \in Commands, inbox' = Append(inbox, m)
    PROVE  /\ inbox' \in Seq(Commands) /\ DOMAIN inbox' = 1..(Len(inbox) + 1)
           /\ inbox'[Len(inbox) + 1] = m
           /\ \A i \in DOMAIN inbox : inbox'[i] = inbox[i]
           /\ DOMAIN inbox = 1..Len(inbox) /\ Len(inbox) \in Nat
  OBVIOUS

LEMMA ForgetCommand ==
    ASSUME inbox \in Seq(Commands), NEW x, Forget(x)
    PROVE  /\ inbox' \in Seq(Commands) /\ DOMAIN inbox' = DOMAIN inbox
           /\ \A i \in DOMAIN inbox : inbox'[i].by = IF inbox[i].by = x THEN None ELSE inbox[i].by
<1>1. inbox' = [i \in 1..Len(inbox) |-> IF inbox[i].by = x THEN [inbox[i] EXCEPT !.by = None] ELSE inbox[i]]
  BY DEF Forget
<1>2. \A i \in 1..Len(inbox) : inbox[i] \in Commands
  OBVIOUS
<1>3. \A i \in 1..Len(inbox) : inbox'[i] \in Commands
  BY <1>1, <1>2 DEF Commands
<1>4. Len(inbox) \in Nat /\ DOMAIN inbox = 1..Len(inbox) /\ DOMAIN inbox' = 1..Len(inbox)
  BY <1>1
<1>5. inbox' \in Seq(Commands) BY <1>1, <1>3, <1>4
<1>6. \A i \in 1..Len(inbox) : inbox'[i].by = IF inbox[i].by = x THEN None ELSE inbox[i].by
  BY <1>1, <1>2 DEF Commands
<1> QED BY <1>4, <1>5, <1>6

LEMMA DropCommands ==
    ASSUME inbox \in Seq(Commands), Drop
    PROVE  /\ inbox' \in Seq(Commands)
           /\ \E n \in 0..Len(inbox) : \E kept \in [1..n -> DOMAIN inbox] :
                  /\ \A i, j \in 1..n : i < j => kept[i] < kept[j]
                  /\ DOMAIN inbox' = 1..n
                  /\ \A i \in 1..n : inbox'[i] = inbox[kept[i]]
<1>0. PICK n \in 0..Len(inbox) : \E kept \in [1..n -> Kept] :
          /\ \A i, j \in 1..n : i < j => kept[i] < kept[j]
          /\ inbox' = [i \in 1..n |-> inbox[kept[i]]]
  BY DEF Drop
<1>1. PICK kept \in [1..n -> Kept] :
          /\ \A i, j \in 1..n : i < j => kept[i] < kept[j]
          /\ inbox' = [i \in 1..n |-> inbox[kept[i]]]
  BY <1>0
<1>2. Kept \subseteq DOMAIN inbox BY DEF Kept
<1>3. kept \in [1..n -> DOMAIN inbox] BY <1>2
<1>4. n \in Nat
  OBVIOUS
<1>5. \A i \in 1..n : inbox[kept[i]] \in Commands BY <1>3
<1>6. inbox' \in Seq(Commands) BY <1>1, <1>4, <1>5
<1>7. DOMAIN inbox' = 1..n /\ \A i \in 1..n : inbox'[i] = inbox[kept[i]] BY <1>1
<1> QED BY <1>1, <1>3, <1>6, <1>7

LEMMA TakeCommand ==
    ASSUME inbox \in Seq(Commands), inbox # <<>>, inbox' = Tail(inbox)
    PROVE  /\ inbox' \in Seq(Commands) /\ Head(inbox) = inbox[1] /\ Head(inbox) \in Commands
           /\ 1 \in DOMAIN inbox /\ Len(inbox') = Len(inbox) - 1
           /\ \A i \in DOMAIN inbox' : i + 1 \in DOMAIN inbox /\ inbox'[i] = inbox[i + 1] /\ i \in Nat \ {0}
  OBVIOUS

\* What a step of the connection does to the processes.
LEMMA AbandonedBy ==
    ASSUME IInv, NEW x \in Procs, Timeout(x) \/ (x \in Handlers /\ Abandon(x))
    PROVE  /\ Forget(x) /\ pc[x] = "wait" /\ pc'[x] # "wait"
           /\ \A y \in Procs \ {x} : pc'[y] = pc[y] /\ loc'[y] = loc[y]
  BY ProcsFacts DEF IInv, Types, ProcTypes, Timeout, Abandon, GiveUp, Leave, Step, Goto, At

LEMMA AnsweredBy ==
    ASSUME IInv, NEW x \in Procs, Accepted(x) \/ Refused(x)
    PROVE  /\ UNCHANGED <<inbox, running>> /\ pc[x] = "wait" /\ pc'[x] # "wait" /\ loc[x].answer # None
           /\ \A y \in Procs \ {x} : pc'[y] = pc[y] /\ loc'[y] = loc[y]
<1>1. UNCHANGED <<inbox, running>> /\ pc[x] = "wait" /\ loc[x].answer \in {"ok", "refused"}
  BY DEF Accepted, Refused, At, linkVars
<1>2. Leave(x) \/ Step(x, "record") \/ Step(x, "fail") \/ Step(x, "undo")
        \/ Goto(x, "fail", [loc[x] EXCEPT !.answer = "refused"])
  BY DEF Accepted, Refused, GiveUp
<1>3. \E where \in {"done", "idle", "next", "fail", "undo", "record"} : \E l : Goto(x, where, l)
  <2> DEFINE l == [loc[x] EXCEPT !.answer = "refused"]
  <2>1. Goto(x, "fail", l) => \E where \in {"done", "idle", "next", "fail", "undo", "record"} : \E k : Goto(x, where, k)
    <3> HIDE DEF l
    <3> QED OBVIOUS
  <2> QED BY <1>2, <2>1 DEF Leave, Step
<1> QED BY <1>1, <1>3, ProcsFacts DEF IInv, Types, ProcTypes, Goto


-----------------------------------------------------------------------------
LEMMA LinkTypesStep == IInv /\ [Next]_vars => LinkTypes'
<1> SUFFICES ASSUME IInv, [Next]_vars PROVE LinkTypes'
  OBVIOUS
<1> USE ProcsFacts
<1>0. LinkTypes /\ inbox \in Seq(Commands) BY DEF IInv, Types, LinkTypes
<1>1. CASE UNCHANGED linkVars BY <1>0, <1>1 DEF LinkTypes, linkVars
<1>2. ASSUME NEW s \in Syncs, Connect(s) PROVE LinkTypes'
  <2>1. online' \in BOOLEAN /\ UNCHANGED <<running, inbox>> BY <1>2, Zenon DEF Connect
  <2>2. connects' \in 0..MaxConnects BY <1>0, <1>2, ProcsAssumption DEF LinkTypes, Connect
  <2> QED BY <1>0, <2>1, <2>2 DEF LinkTypes
<1>3. CASE Drop
  <2>1. online' \in BOOLEAN /\ UNCHANGED <<running, connects>> BY <1>3, Zenon DEF Drop
  <2> QED BY <1>0, <1>3, <2>1, DropCommands DEF LinkTypes
<1>4. ASSUME NEW x \in Procs, Send(x) PROVE LinkTypes'
  <2>1. loc[x].policy.id \in Ids
    BY <1>4 DEF IInv, Types, ProcTypes, Send, At, Carrying, Policies
  <2>2. [by |-> x, policy |-> loc[x].policy.id] \in Commands BY <2>1 DEF Commands
  <2> QED BY <1>0, <1>4, <2>2, AppendCommand DEF Send, LinkTypes
<1>5. ASSUME NEW x \in Procs, Forget(x) PROVE LinkTypes'
  BY <1>0, <1>5, ForgetCommand DEF LinkTypes, Forget
<1>6. ASSUME NEW a, NEW b, NEW d, ApplyNext(a, b, d) PROVE LinkTypes'
  <2>1. inbox' \in Seq(Commands) /\ Head(inbox) \in Commands
    BY <1>0, <1>6, TakeCommand DEF ApplyNext
  <2>2. UNCHANGED <<online, connects>> /\ running' \in {Head(inbox).policy, running}
    BY <1>6 DEF ApplyNext
  <2> QED BY <1>0, <2>1, <2>2 DEF LinkTypes, Commands
<1> QED
  BY <1>1, <1>2, <1>3, <1>4, <1>5, <1>6
  DEF Next, Request, Deployment, StartSave, StartRestore, StartDeploy, StartEdit, StartCancel, RetryTask,
      DropSuperseded, LoadAndSave, ListQueued, CreateTask, ClaimOwn, DeleteOwn, WriteEdit, Abandon,
      ReadAssigned, SendOffline, Timeout, Accepted, Refused, FailTask, Record, Succeed, DeleteReplaced,
      LoadAndSync, StartProcessor, ClaimNext, FetchPolicy, vars

LEMMA TriggerStep == IInv /\ [Next]_vars =>
    /\ trigger' \in BOOLEAN /\ newest' \in Handlers \cup {None} /\ served' \subseteq Ids
<1> SUFFICES ASSUME IInv, [Next]_vars
             PROVE  /\ trigger' \in BOOLEAN /\ newest' \in Handlers \cup {None} /\ served' \subseteq Ids
  OBVIOUS
<1>0. HistoryTypes BY DEF IInv, Types
<1>1. newest' \in Handlers \cup {None} /\ served' \subseteq Ids
  <2>1. CASE \E x \in Procs : Accepted(x)
    <3>1. PICK x \in Procs : Accepted(x) BY <2>1
    <3>2. loc[x].policy.id \in Ids
      BY <3>1 DEF IInv, Types, ProcTypes, Accepted, At, Carrying, Policies
    <3>3. newest' = newest /\ served' \in {served, served \cup {loc[x].policy.id}}
      BY <3>1 DEF Accepted, AssignPolicy
    <3> QED BY <1>0, <3>2, <3>3 DEF HistoryTypes
  <2>2. CASE \E h \in Handlers : CreateTask(h) BY <1>0, <2>2 DEF CreateTask, HistoryTypes
  <2>3. CASE UNCHANGED <<newest, served>> BY <1>0, <2>3 DEF HistoryTypes
  <2> QED
    BY <2>1, <2>2, <2>3
    DEF Next, Request, Deployment, StartSave, StartRestore, StartDeploy, StartEdit, StartCancel, RetryTask,
        DropSuperseded, LoadAndSave, ListQueued, ClaimOwn, DeleteOwn, WriteEdit, Abandon, Forget, Connect,
        ReadAssigned, SendOffline, Timeout, Refused, FailTask, Record, Succeed, DeleteReplaced, Send, Drop,
        LoadAndSync, StartProcessor, ClaimNext, FetchPolicy, ApplyNext, historyVars, procVars, vars
<1>2. trigger' \in BOOLEAN
  <2>1. trigger \in BOOLEAN BY <1>0 DEF HistoryTypes
  <2>2. ASSUME NEW x \in Procs, Leave(x) PROVE trigger' \in BOOLEAN BY <2>1, <2>2 DEF Leave
  <2>3. ASSUME NEW x \in Procs, NEW a, GiveUp(x, a) PROVE trigger' \in BOOLEAN
    BY <2>1, <2>2, <2>3 DEF GiveUp
  <2>4. ASSUME NEW h \in Handlers, NEW t \in Handlers, RetryTask(h, t) PROVE trigger' \in BOOLEAN
    BY <2>1, <2>4 DEF RetryTask
  <2>5. CASE StartProcessor
    <3>1. trigger' = FALSE BY <2>5 DEF StartProcessor
    <3> QED BY <3>1, Zenon
  <2>6. CASE UNCHANGED trigger BY <2>1, <2>6
  <2> QED
    BY <2>2, <2>3, <2>4, <2>5, <2>6, ProcsFacts
    DEF Next, Request, Deployment, StartSave, StartRestore, StartDeploy, StartEdit, StartCancel,
        DropSuperseded, LoadAndSave, ListQueued, CreateTask, ClaimOwn, DeleteOwn, WriteEdit, Abandon,
        ReadAssigned, SendOffline, Timeout, Accepted, Refused, FailTask, Record, Succeed, DeleteReplaced,
        LoadAndSync, ClaimNext, FetchPolicy, ApplyNext, procVars, vars, Send, Drop, Connect
<1> QED BY <1>1, <1>2

LEMMA CalledStep == IInv /\ [Next]_vars => Called'
<1> SUFFICES ASSUME IInv, [Next]_vars PROVE Called'
  OBVIOUS
<1> USE ProcsFacts DEF At
<1>0. inbox \in Seq(Commands) /\ Called /\ ProcTypes BY DEF IInv, Types, LinkTypes
<1>1. \A i \in DOMAIN inbox : inbox[i] \in Commands /\ inbox[i].by \in Procs \cup {None}
  <2>1. \A i \in DOMAIN inbox : inbox[i] \in Commands BY <1>0
  <2> QED BY <2>1 DEF Commands
<1>2. CASE UNCHANGED vars BY <1>0, <1>2 DEF Called, vars, linkVars, procVars
<1>3. CASE Elsewhere BY <1>0, <1>1, <1>3 DEF Called, Elsewhere
<1>4. CASE Drop
  <2>1. PICK n \in 0..Len(inbox) : \E kept \in [1..n -> DOMAIN inbox] :
            /\ \A i, j \in 1..n : i < j => kept[i] < kept[j]
            /\ DOMAIN inbox' = 1..n
            /\ \A i \in 1..n : inbox'[i] = inbox[kept[i]]
    BY <1>0, <1>4, DropCommands
  <2>2. PICK kept \in [1..n -> DOMAIN inbox] :
            /\ \A i, j \in 1..n : i < j => kept[i] < kept[j]
            /\ DOMAIN inbox' = 1..n
            /\ \A i \in 1..n : inbox'[i] = inbox[kept[i]]
    BY <2>1
  <2>3. DOMAIN inbox \subseteq Nat BY <1>0
  <2>4. \A i, j \in 1..n : kept[i] = kept[j] => i = j BY <2>2, <2>3
  <2>5. UNCHANGED <<pc, loc>> BY <1>4 DEF Drop, procVars
  <2> QED BY <1>0, <2>2, <2>4, <2>5 DEF Called
<1>5. ASSUME NEW x \in Procs, Send(x) PROVE Called'
  <2> DEFINE m == [by |-> x, policy |-> loc[x].policy.id]
  <2>1. loc[x].policy.id \in Ids
    BY <1>5 DEF IInv, Types, ProcTypes, Send, Carrying, Policies
  <2>2. m \in Commands /\ m.by = x BY <2>1 DEF Commands
  <2>3. inbox' = Append(inbox, m) BY <1>5 DEF Send
  <2>4. \A i \in DOMAIN inbox : inbox[i].by # x BY <1>0, <1>1, <1>5 DEF Called, Send
  <2>5. pc'[x] = "wait" /\ loc'[x].answer = None /\ \A y \in Procs \ {x} : pc'[y] = pc[y] /\ loc'[y] = loc[y]
    BY <1>0, <1>5 DEF Send, Step, Goto, ProcTypes, Answered
  <2> HIDE DEF m
  <2>6. /\ DOMAIN inbox' = 1..(Len(inbox) + 1) /\ inbox'[Len(inbox) + 1] = m
        /\ \A i \in DOMAIN inbox : inbox'[i] = inbox[i]
        /\ DOMAIN inbox = 1..Len(inbox) /\ Len(inbox) \in Nat
    BY <1>0, <2>2, <2>3, AppendCommand
  <2> QED BY <1>0, <1>1, <2>2, <2>4, <2>5, <2>6 DEF Called
<1>6. ASSUME NEW x \in Procs, Timeout(x) \/ (x \in Handlers /\ Abandon(x)) PROVE Called'
  <2>1. /\ Forget(x) /\ \A y \in Procs \ {x} : pc'[y] = pc[y] /\ loc'[y] = loc[y]
    BY <1>6, AbandonedBy
  <2>2. /\ DOMAIN inbox' = DOMAIN inbox
        /\ \A i \in DOMAIN inbox : inbox'[i].by = IF inbox[i].by = x THEN None ELSE inbox[i].by
    BY <1>0, <2>1, ForgetCommand
  <2> QED BY <1>0, <1>1, <2>1, <2>2 DEF Called
<1>7. ASSUME NEW x \in Procs, Accepted(x) \/ Refused(x) PROVE Called'
  <2>1. /\ inbox' = inbox /\ loc[x].answer # None
        /\ \A y \in Procs \ {x} : pc'[y] = pc[y] /\ loc'[y] = loc[y]
    BY <1>7, AnsweredBy
  <2> QED BY <1>0, <1>1, <2>1 DEF Called
<1>8. ASSUME NEW a, NEW b, NEW d, ApplyNext(a, b, d) PROVE Called'
  <2>1. /\ Head(inbox) = inbox[1] /\ 1 \in DOMAIN inbox
        /\ \A i \in DOMAIN inbox' : i + 1 \in DOMAIN inbox /\ inbox'[i] = inbox[i + 1] /\ i \in Nat \ {0}
    BY <1>0, <1>8, TakeCommand DEF ApplyNext
  <2>2. pc' = pc /\ \A y \in Procs : y # inbox[1].by => loc'[y] = loc[y]
    BY <1>0, <1>8, <2>1 DEF ApplyNext, ProcTypes
  <2>3. \A i \in DOMAIN inbox' : inbox'[i].by # None => inbox'[i].by # inbox[1].by
    BY <1>0, <2>1 DEF Called
  <2> QED BY <1>0, <1>1, <2>1, <2>2, <2>3 DEF Called
<1> QED BY <1>2, <1>3, <1>4, <1>5, <1>6, <1>7, <1>8, MostElsewhere


LEMMA SettledStep == IInv /\ [Next]_vars => muddled' \in BOOLEAN /\ Settled'
<1> SUFFICES ASSUME IInv, [Next]_vars PROVE muddled' \in BOOLEAN /\ Settled'
  OBVIOUS
<1> USE ProcsFacts DEF At
<1>0. /\ inbox \in Seq(Commands) /\ Called /\ ProcTypes /\ Settled
      /\ muddled \in BOOLEAN /\ alone \in Waiting \cup {None}
  BY DEF IInv, Types, LinkTypes, HistoryTypes
<1>1. /\ \A x \in Procs : pc[x] = "wait" => x \in Waiting
      /\ \A x \in Waiting : x \in Procs /\ pc[x] = "wait"
      /\ None \notin Waiting
  BY DEF Waiting
<1>2. CASE UNCHANGED vars
  BY <1>0, <1>2 DEF Settled, Waiting, vars, linkVars, procVars, historyVars, rowVars
<1>3. CASE Elsewhere
  <2>1. Waiting' = Waiting BY <1>3 DEF Elsewhere, Waiting
  <2>2. alone # None => loc'[alone] = loc[alone] BY <1>0, <1>1, <1>3 DEF Elsewhere
  <2> QED BY <1>0, <1>3, <2>1, <2>2 DEF Elsewhere, Settled
<1>4. CASE Drop
  <2>1. PICK n \in 0..Len(inbox) : \E kept \in [1..n -> DOMAIN inbox] :
            DOMAIN inbox' = 1..n /\ \A i \in 1..n : inbox'[i] = inbox[kept[i]]
    BY <1>0, <1>4, DropCommands
  <2>2. PICK kept \in [1..n -> DOMAIN inbox] :
            DOMAIN inbox' = 1..n /\ \A i \in 1..n : inbox'[i] = inbox[kept[i]]
    BY <2>1
  <2>3. inbox' \in Seq(Commands) /\ Len(inbox') = n /\ Len(inbox) \in Nat /\ n <= Len(inbox)
    <3>1. inbox' \in Seq(Commands) BY <1>0, <1>4, DropCommands
    <3>2. DOMAIN inbox' = 1..Len(inbox') /\ Len(inbox') \in Nat BY <3>1
    <3> QED BY <1>0, <2>2, <3>1, <3>2
  <2>4. Len(inbox) <= 1 /\ inbox' # <<>> => inbox # <<>> /\ inbox'[1] = inbox[1]
    <3> SUFFICES ASSUME Len(inbox) <= 1, inbox' # <<>> PROVE inbox # <<>> /\ inbox'[1] = inbox[1]
      OBVIOUS
    <3>0. n # 0 BY <2>3, EmptySeq
    <3>a. n \in Nat /\ Len(inbox) \in Nat /\ n <= Len(inbox) BY <2>3
    <3>b. \A p, q \in Nat : p <= q /\ q <= 1 /\ p # 0 => p = 1 /\ q = 1
      OBVIOUS
    <3>1. n = 1 /\ Len(inbox) = 1 BY <3>a, <3>b, <3>0
    <3>2. kept[1] \in DOMAIN inbox /\ inbox'[1] = inbox[kept[1]] BY <2>2, <3>1
    <3>3. kept[1] = 1 BY <1>0, <3>1, <3>2
    <3> QED BY <3>1, <3>2, <3>3
  <2>5. inbox = <<>> => inbox' = <<>> BY <2>3
  <2>6. UNCHANGED <<running, assigned, pc, loc, alone, muddled>>
    BY <1>4 DEF Drop, procVars, historyVars, rowVars
  <2>7. Waiting' = Waiting BY <2>6 DEF Waiting
  <2> QED BY <1>0, <2>3, <2>4, <2>5, <2>6, <2>7 DEF Settled
<1>5. ASSUME NEW x \in Procs, Send(x) PROVE muddled' \in BOOLEAN /\ Settled'
  <2>1. UNCHANGED <<running, assigned>> BY <1>5 DEF Send, rowVars
  <2>2. CASE Waiting = {} /\ inbox = <<>>
    <3>1. alone' = x /\ muddled' = muddled BY <1>0, <1>5, <2>2 DEF Send
    <3>2. pc' = [pc EXCEPT ![x] = "wait"] /\ loc' = [loc EXCEPT ![x] = loc[x]]
      BY <1>5 DEF Send, Step, Goto
    <3>3. Waiting' = {x} BY <1>0, <2>2, <3>2 DEF Waiting, ProcTypes
    <3>4. loc'[x] = loc[x] /\ loc[x].answer = None
      BY <1>0, <1>5, <3>2 DEF ProcTypes, Send, Answered
    <3>5. Len(inbox') = 1 /\ inbox'[1].policy = loc[x].policy.id
      BY <1>5, <2>2 DEF Send
    <3>6. alone = None BY <1>0, <2>2
    <3> QED BY <1>0, <2>1, <2>2, <3>1, <3>3, <3>4, <3>5, <3>6 DEF Settled
  <2>3. CASE ~(Waiting = {} /\ inbox = <<>>)
    <3>1. alone' = None /\ muddled' = (muddled \/ TRUE) BY <1>5, <2>3 DEF Send
    <3>2. muddled' = TRUE BY <3>1
    <3>3. muddled' \in BOOLEAN BY <3>2, Zenon
    <3> QED BY <3>1, <3>2, <3>3 DEF Settled
  <2> QED BY <2>2, <2>3
<1>6. ASSUME NEW x \in Procs, Timeout(x) \/ (x \in Handlers /\ Abandon(x))
      PROVE  muddled' \in BOOLEAN /\ Settled'
  <2>1. Forget(x) /\ x \in Waiting BY <1>1, <1>6, AbandonedBy
  <2>2. alone \in {x, None} BY <1>0, <2>1 DEF Settled
  <2>3. alone' = None BY <2>1, <2>2 DEF Forget
  <2>4. muddled' = TRUE BY <2>1 DEF Forget
  <2>5. muddled' \in BOOLEAN BY <2>4, Zenon
  <2> QED BY <2>3, <2>4, <2>5 DEF Settled
<1>7. ASSUME NEW x \in Procs, Accepted(x) \/ Refused(x) PROVE muddled' \in BOOLEAN /\ Settled'
  <2>1. /\ UNCHANGED <<inbox, running>> /\ x \in Waiting /\ loc[x].answer # None /\ pc'[x] # "wait"
        /\ \A y \in Procs \ {x} : pc'[y] = pc[y]
    BY <1>1, <1>7, AnsweredBy
  <2>2. alone \in {x, None} BY <1>0, <2>1 DEF Settled
  <2>3. alone = x => Waiting' = {} /\ inbox = <<>>
    <3> SUFFICES ASSUME alone = x PROVE Waiting' = {} /\ inbox = <<>>
      OBVIOUS
    <3>1. Waiting = {x} /\ inbox = <<>> BY <1>0, <2>1 DEF Settled
    <3>2. \A y \in Procs : pc'[y] # "wait" BY <1>1, <2>1, <3>1
    <3> QED BY <3>1, <3>2 DEF Waiting
  <2>4. alone = None => muddled BY <1>0, <2>1 DEF Settled
  <2>5. CASE Accepted(x) /\ Exists(loc[x].policy.id)
    <3>1. alone' = None /\ muddled' = (muddled /\ alone # x) /\ assigned' = loc[x].policy.id
      BY <2>5 DEF Accepted, AssignPolicy
    <3>2. muddled' \in BOOLEAN BY <3>1
    <3>3. ~muddled' => alone = x BY <2>2, <2>4, <3>1
    <3>4. alone = x => running = loc[x].policy.id BY <1>0, <2>1, <2>5 DEF Accepted, Settled
    <3> QED BY <2>1, <2>3, <3>1, <3>2, <3>3, <3>4 DEF Settled
  <2>6. CASE Accepted(x) /\ ~Exists(loc[x].policy.id)
    <3>1. alone' = None /\ muddled' = TRUE BY <2>6 DEF Accepted
    <3>2. muddled' \in BOOLEAN BY <3>1, Zenon
    <3> QED BY <3>1, <3>2 DEF Settled
  <2>7. CASE Refused(x)
    <3>1. alone' = None /\ muddled' = muddled /\ assigned' = assigned
      BY <2>2, <2>7 DEF Refused, rowVars
    <3>2. ~muddled => alone = x BY <2>2, <2>4
    <3>3. alone = x /\ ~muddled => running = assigned BY <1>0, <2>7 DEF Refused, Settled
    <3> QED BY <1>0, <2>1, <2>3, <3>1, <3>2, <3>3 DEF Settled
  <2> QED BY <1>7, <2>5, <2>6, <2>7
<1>8. ASSUME NEW a \in {"ok", "refused"}, NEW b \in BOOLEAN, NEW d \in BOOLEAN, a = "ok" => b,
             ApplyNext(a, b, d)
      PROVE  muddled' \in BOOLEAN /\ Settled'
  <2>1. /\ inbox' \in Seq(Commands) /\ Head(inbox) = inbox[1] /\ Head(inbox) \in Commands
        /\ 1 \in DOMAIN inbox /\ Len(inbox') = Len(inbox) - 1
    BY <1>0, <1>8, TakeCommand DEF ApplyNext
  <2>2. muddled' = (muddled \/ (b /\ a = "refused")) /\ UNCHANGED <<pc, alone, assigned>>
    BY <1>8 DEF ApplyNext, rowVars
  <2>3. muddled' \in BOOLEAN BY <2>2
  <2>4. Waiting' = Waiting BY <2>2 DEF Waiting
  <2>5. CASE alone = None BY <1>0, <1>8, <2>2, <2>3, <2>5 DEF Settled, ApplyNext
  <2>6. CASE alone # None
    <3>1. /\ Len(inbox) <= 1 /\ inbox[1].policy = loc[alone].policy.id /\ loc[alone].answer = None
          /\ ~muddled => running = assigned
      BY <1>0, <1>8, <2>6 DEF Settled, ApplyNext
    <3>2. Len(inbox) \in Nat /\ Len(inbox') = 0 /\ inbox' = <<>> BY <1>0, <2>1, <3>1
    <3>3. running' = IF b THEN loc[alone].policy.id ELSE running BY <1>8, <2>1, <3>1 DEF ApplyNext
    <3>4. inbox[1].by \in {alone, None}
      BY <1>0, <1>1, <2>1, <2>6 DEF Called, Settled, Commands
    <3>5. loc'[alone].policy = loc[alone].policy /\ loc'[alone].answer \in {a, None}
      <4>1. alone \in Procs /\ loc[alone] \in Locals BY <1>0, <1>1, <2>6 DEF ProcTypes
      <4>2. loc' = loc \/ loc' = [loc EXCEPT ![alone] = [loc[alone] EXCEPT !.answer = a]]
        BY <1>8, <2>1, <3>4 DEF ApplyNext
      <4> QED BY <1>0, <3>1, <4>1, <4>2 DEF ProcTypes, Locals
    <3>6. loc'[alone].answer = "ok" => running' = loc'[alone].policy.id
      BY <1>8, <3>3, <3>5
    <3>7. loc'[alone].answer = "refused" /\ ~muddled' => running' = assigned
      BY <2>2, <3>1, <3>3, <3>5, <1>8
    <3> QED BY <1>0, <2>2, <2>3, <2>4, <2>6, <3>2, <3>6, <3>7 DEF Settled
  <2> QED BY <2>5, <2>6
<1> QED BY <1>2, <1>3, <1>4, <1>5, <1>6, <1>7, <1>8, MostElsewhere


-----------------------------------------------------------------------------
\* Rows that change as no step of another process minds: no task appears or comes back, and
\* the policies that matter stay.
Live(t) == task[t] \in {"queued", "running", "failed"}
RowsKept ==
    /\ served \subseteq served' /\ newest' = newest /\ previous' = previous
    /\ \A t \in Handlers : /\ (task'[t] = "none") <=> (task[t] = "none")
                           /\ task[t] = "canceled" => task'[t] = "canceled"
                           /\ Live(t)' => Live(t)
    /\ \A h \in Handlers :
           h \notin served /\ policies[h] > 0 /\ (pc[h] \in {"list", "create"} \/ (h = newest /\ Live(h)))
               => policies'[h] > 0

\* Only process x moves.
Moves(x) ==
    /\ \A y \in Procs \ {x} : pc'[y] = pc[y] /\ loc'[y] = loc[y]
    /\ \A h \in Handlers \ {x} : role'[h] = role[h]

LEMMA OthersOwn ==
    ASSUME Safe, ProcTypes, NEW x \in Procs, Moves(x), RowsKept
    PROVE  \A h \in Handlers \ {x} : Owns(h)'
<1> SUFFICES ASSUME NEW h \in Handlers, h # x PROVE Owns(h)'
  OBVIOUS
<1>1. pc'[h] = pc[h] /\ loc'[h] = loc[h] /\ role'[h] = role[h] BY ProcsFacts DEF Moves
<1>2. Owns(h) /\ loc[h].listed \subseteq Handlers BY ProcsFacts DEF Safe, ProcTypes, Locals
<1>3. \A t \in Handlers : (task'[t] = "none" <=> task[t] = "none") /\ (task[t] = "canceled" => task'[t] = "canceled")
  BY DEF RowsKept
<1>4. pc[h] \in {"list", "create"} /\ (policies[h] > 0 \/ h \in served) => policies'[h] > 0 \/ h \in served'
  BY DEF RowsKept
<1>5. newest' = newest BY DEF RowsKept
<1> QED BY <1>1, <1>2, <1>3, <1>4, <1>5 DEF Owns

LEMMA KeptSafe ==
    ASSUME Safe, RowTypes, ProcTypes, HistoryTypes, NEW x \in Procs, Moves(x), RowsKept,
           assigned' \in {assigned} \cup served', loc'[x].old \in served' \cup {None},
           x \in Handlers => Owns(x)'
    PROVE  Safe'
<1>1. OldServed'
  BY DEF Safe, OldServed, RowsKept, Moves
<1>2. \A h \in Handlers : Owns(h)' BY OthersOwn
<1>3. newest' # None => task'[newest'] # "none"
  BY DEF Safe, RowsKept, HistoryTypes
<1>4. NewestKept'
  BY DEF Safe, RowsKept, HistoryTypes, NewestKept, Live
<1> QED BY <1>1, <1>2, <1>3, <1>4 DEF Safe

LEMMA GotoMoves ==
    ASSUME ProcTypes, NEW x \in Procs, NEW where, NEW l, Goto(x, where, l),
           \A h \in Handlers \ {x} : role'[h] = role[h]
    PROVE  Moves(x) /\ pc'[x] = where /\ loc'[x] = l
  BY DEF ProcTypes, Goto, Moves

\* A process that has come to its end, with whatever rows it wrote.
LEMMA LeaveSafe ==
    ASSUME Safe, RowTypes, ProcTypes, HistoryTypes, NEW x \in Procs, Leave(x), RowsKept,
           assigned' \in {assigned} \cup served'
    PROVE  Safe'
<1> USE ProcsFacts
<1>1. \A h \in Handlers \ {x} : role'[h] = role[h] BY DEF Leave, ProcTypes
<1>2. PICK where \in {"done", "idle", "next"} : Goto(x, where, NoLocals) /\ (x \in Handlers => where = "done")
  BY DEF Leave
<1>3. Moves(x) /\ pc'[x] = where /\ loc'[x] = NoLocals BY <1>1, <1>2, GotoMoves
<1>4. x \in Handlers => role'[x] = None /\ pc'[x] = "done" BY <1>2, <1>3 DEF Leave
<1>5. NoLocals.old = None /\ NoLocals.listed = {} BY DEF NoLocals
<1>6. x \in Handlers => Owns(x)' BY <1>3, <1>4, <1>5 DEF Owns, BeforeTask
<1> QED BY <1>3, <1>5, <1>6, KeptSafe

\* A request or goroutine past its task that goes to a place where it deletes nothing new.
Onward == {"next", "fetch", "send", "wait", "fail", "record", "finish", "tidy", "write", "done"}
LEMMA OnwardSafe ==
    ASSUME Safe, RowTypes, ProcTypes, HistoryTypes, NEW x \in Procs, NEW where \in Onward, NEW l,
           Goto(x, where, l), UNCHANGED role, RowsKept, assigned' \in {assigned} \cup served',
           l.old \in served' \cup {None}, l.listed \subseteq loc[x].listed, l.policy = loc[x].policy,
           pc[x] \notin {"read", "load"}
    PROVE  Safe'
<1> USE ProcsFacts
<1>1. Moves(x) /\ pc'[x] = where /\ loc'[x] = l BY GotoMoves
<1>2. ASSUME x \in Handlers PROVE Owns(x)'
  <2>1. Owns(x) /\ loc[x].listed \subseteq Handlers BY <1>2 DEF Safe, ProcTypes, Locals
  <2>2. \A t \in Handlers : (task'[t] = "none" <=> task[t] = "none") BY DEF RowsKept
  <2> QED BY <1>1, <1>2, <2>1, <2>2 DEF Owns, Onward, BeforeTask
<1> QED BY <1>1, <1>2, KeptSafe


\* Deleting a policy that was assigned spares every other.
LEMMA DeleteServed ==
    ASSUME RowTypes, Safe, NEW p \in served \cup {None}, DeletePolicyIfUnassigned(p),
           UNCHANGED <<task, previous, newest, served>>
    PROVE  RowsKept /\ assigned' = assigned
  BY ProcsFacts DEF RowTypes, DeletePolicyIfUnassigned, RowsKept, Live

LEMMA SameRows ==
    ASSUME RowTypes, UNCHANGED <<policies, task, previous, newest>>, served \subseteq served'
    PROVE  RowsKept
  BY DEF RowTypes, RowsKept, Live

\* A task that is claimed or finished.
LEMMA TaskChanged ==
    ASSUME RowTypes, UNCHANGED <<policies, previous, newest, served>>, NEW t,
           NEW from \in {"queued", "running"}, NEW to \in {"queued", "running", "failed", "succeeded"},
           task' = [task EXCEPT ![t] = IF @ = from THEN to ELSE @]
    PROVE  RowsKept
  BY DEF RowTypes, RowsKept, Live

LEMMA GiveUpSafe ==
    ASSUME Safe, RowTypes, ProcTypes, HistoryTypes, NEW x \in Procs, NEW a, GiveUp(x, a), RowsKept,
           assigned' = assigned, pc[x] \in {"send", "wait"}
    PROVE  Safe'
<1> USE ProcsFacts
<1>0. loc[x] \in Locals /\ loc[x].old \in served' \cup {None}
  BY DEF ProcTypes, Safe, OldServed, RowsKept
<1>1. CASE Leave(x) BY <1>1, LeaveSafe
<1>2. CASE Kind(x) \in {"save", "process"}
  <2> DEFINE l == [loc[x] EXCEPT !.answer = a]
  <2>1. Goto(x, "fail", l) /\ UNCHANGED role BY <1>2 DEF GiveUp
  <2>2. l.old = loc[x].old /\ l.listed = loc[x].listed /\ l.policy = loc[x].policy
    BY <1>0 DEF Locals
  <2> HIDE DEF l
  <2> QED BY <1>0, <2>1, <2>2, OnwardSafe DEF Onward
<1>3. CASE Kind(x) = "restore"
  <2>1. Goto(x, "undo", loc[x]) /\ UNCHANGED role BY <1>3 DEF GiveUp, Step
  <2>2. Moves(x) /\ pc'[x] = "undo" /\ loc'[x] = loc[x] BY <2>1, GotoMoves
  <2>3. ASSUME x \in Handlers PROVE Owns(x)'
    <3>1. role[x] = "restore" BY <1>3, <2>3 DEF Kind
    <3>2. Owns(x) /\ loc[x].listed \subseteq Handlers BY <1>0, <2>3 DEF Safe, Locals
    <3>3. loc[x].policy.id = x /\ task[x] = "none" BY <3>1, <3>2 DEF Owns
    <3>4. \A t \in Handlers : (task'[t] = "none" <=> task[t] = "none") BY DEF RowsKept
    <3> QED BY <2>1, <2>2, <2>3, <3>1, <3>2, <3>3, <3>4 DEF Owns, BeforeTask
  <2> QED BY <1>0, <2>2, <2>3, KeptSafe
<1> QED BY <1>1, <1>2, <1>3 DEF GiveUp


LEMMA SafeStep == IInv /\ [Next]_vars => Safe'
<1> SUFFICES ASSUME IInv, [Next]_vars PROVE Safe'
  OBVIOUS
<1> USE ProcsFacts DEF At
<1>0. RowTypes /\ ProcTypes /\ HistoryTypes /\ Safe BY DEF IInv, Types
<1>L. \A x \in Procs : loc[x] \in Locals /\ loc[x].old \in served \cup {None}
  BY <1>0 DEF ProcTypes, Safe, OldServed
<1>1. ASSUME NEW h \in Handlers, StartSave(h) PROVE Safe'
  BY <1>0, <1>1 DEF Safe, OldServed, Owns, NewestKept, BeforeTask, RowTypes, ProcTypes, Locals, Goto, Step, NoLocals,
         NoPolicy, rowVars, linkVars, historyVars, StartSave, Start
<1>2. ASSUME NEW h \in Handlers, StartRestore(h) PROVE Safe'
  BY <1>0, <1>2 DEF Safe, OldServed, Owns, NewestKept, BeforeTask, RowTypes, ProcTypes, Locals, Goto, Step, NoLocals,
         NoPolicy, rowVars, linkVars, historyVars, StartRestore, Start
<1>3. ASSUME NEW h \in Handlers, NEW p \in Ids, StartDeploy(h, p) PROVE Safe'
  BY <1>0, <1>3 DEF Safe, OldServed, Owns, NewestKept, BeforeTask, RowTypes, ProcTypes, Locals, Goto, Step, NoLocals,
         NoPolicy, rowVars, linkVars, historyVars, StartDeploy, Start
<1>4. ASSUME NEW h \in Handlers, NEW p \in Ids, StartEdit(h, p) PROVE Safe'
  BY <1>0, <1>4 DEF Safe, OldServed, Owns, NewestKept, BeforeTask, RowTypes, ProcTypes, Locals, Goto, Step, NoLocals,
         NoPolicy, rowVars, linkVars, historyVars, StartEdit, Start
<1>5. ASSUME NEW h \in Handlers, NEW t \in Handlers, StartCancel(h, t) PROVE Safe'
  BY <1>0, <1>5 DEF Safe, OldServed, Owns, NewestKept, BeforeTask, RowTypes, ProcTypes, Locals, Goto, Step, NoLocals,
         NoPolicy, rowVars, linkVars, historyVars, StartCancel, Start
<1>6. ASSUME NEW h \in Handlers, NEW t \in Handlers, RetryTask(h, t) PROVE Safe'
  BY <1>0, <1>6 DEF Safe, OldServed, Owns, NewestKept, BeforeTask, RowTypes, ProcTypes, Locals, Goto, Step, NoLocals,
         NoPolicy, rowVars, linkVars, historyVars, RetryTask
<1>7. ASSUME NEW h \in Handlers, NEW t \in Handlers, DropSuperseded(h, t) PROVE Safe'
  BY <1>0, <1>7 DEF Safe, OldServed, Owns, NewestKept, BeforeTask, RowTypes, ProcTypes, Locals, Goto, Step, NoLocals,
         NoPolicy, rowVars, linkVars, historyVars, DropSuperseded, DeletePolicyIfUnassigned
<1>8. ASSUME NEW h \in Handlers, LoadAndSave(h) PROVE Safe'
  <2> DEFINE found == Exists(loc[h].old)
             rev == IF found THEN policies[loc[h].old] + 1 ELSE 1
             l == [loc[h] EXCEPT !.policy = [id |-> h, rev |-> rev], !.task = h,
                                 !.old = IF found THEN @ ELSE None]
  <2>1. CASE Leave(h) /\ UNCHANGED policies
    <3>1. UNCHANGED <<task, previous, newest, served, assigned>> BY <1>8 DEF LoadAndSave, historyVars
    <3>2. RowsKept BY <1>0, <2>1, <3>1, SameRows
    <3> QED BY <1>0, <2>1, <3>1, <3>2, LeaveSafe
  <2>2. CASE policies' = [policies EXCEPT ![h] = rev] /\ UNCHANGED role
             /\ ((Kind(h) = "save" /\ Goto(h, "list", l)) \/ (Kind(h) = "restore" /\ Goto(h, "send", l)))
    <3>1. rev \in Nat \ {0} BY <1>0, <1>L DEF RowTypes, Locals, Exists
    <3>2. UNCHANGED <<task, previous, newest, served, assigned>> BY <1>8 DEF LoadAndSave, historyVars
    <3>3. RowsKept /\ policies'[h] > 0 BY <1>0, <2>2, <3>1, <3>2 DEF RowsKept, RowTypes, Live
    <3>4. l.old \in served \cup {None} /\ l.listed = loc[h].listed /\ l.policy.id = h
      BY <1>L DEF Locals
    <3>k. Kind(h) = role[h] BY DEF Kind
    <3> HIDE DEF l
    <3>5. (Goto(h, "list", l) /\ role[h] = "save") \/ (Goto(h, "send", l) /\ role[h] = "restore")
      BY <2>2, <3>k
    <3>6. Moves(h) /\ loc'[h] = l /\ ((pc'[h] = "list" /\ role[h] = "save") \/ (pc'[h] = "send" /\ role[h] = "restore"))
      BY <1>0, <2>2, <3>5, GotoMoves
    <3>7. Owns(h) /\ pc[h] = "load" BY <1>0, <1>8 DEF Safe, LoadAndSave
    <3>8. Owns(h)' BY <2>2, <3>2, <3>3, <3>4, <3>6, <3>7 DEF Owns, BeforeTask
    <3> QED BY <1>0, <3>2, <3>3, <3>4, <3>6, <3>8, KeptSafe
  <2>3. Kind(h) \in {"save", "restore"} BY <1>8 DEF LoadAndSave
  <2>4. CASE Kind(h) = "restore" /\ ~found BY <1>8, <2>1, <2>4 DEF LoadAndSave
  <2>5. CASE ~(Kind(h) = "restore" /\ ~found)
    <3>1. /\ policies' = [policies EXCEPT ![h] = rev] /\ UNCHANGED role
          /\ Goto(h, IF Kind(h) = "save" THEN "list" ELSE "send", l)
      BY <1>8, <2>5 DEF LoadAndSave
    <3> HIDE DEF l, rev
    <3> QED BY <2>2, <2>3, <3>1
  <2> QED BY <2>4, <2>5
<1>9. ASSUME NEW h \in Handlers, ListQueued(h) PROVE Safe'
  BY <1>0, <1>9 DEF Safe, OldServed, Owns, NewestKept, BeforeTask, RowTypes, ProcTypes, Locals, Goto, Step, NoLocals,
         NoPolicy, rowVars, linkVars, historyVars, ListQueued, Queued
<1>10. ASSUME NEW h \in Handlers, CreateTask(h) PROVE Safe'
  BY <1>0, <1>10 DEF Safe, OldServed, Owns, NewestKept, BeforeTask, RowTypes, ProcTypes, Locals, Goto, Step, NoLocals,
         NoPolicy, rowVars, linkVars, historyVars, CreateTask
<1>11. ASSUME NEW h \in Handlers, ClaimOwn(h) PROVE Safe'
  <2>1. UNCHANGED <<policies, previous, newest, served, assigned>> BY <1>11 DEF ClaimOwn, historyVars
  <2>2. CASE Leave(h) /\ UNCHANGED task BY <1>0, <2>1, <2>2, SameRows, LeaveSafe
  <2>3. CASE task[h] = "queued" /\ task' = [task EXCEPT ![h] = "running"] /\ Step(h, "send") /\ UNCHANGED role
    <3>1. task' = [task EXCEPT ![h] = IF @ = "queued" THEN "running" ELSE @] BY <2>3
    <3>2. RowsKept BY <1>0, <2>1, <3>1, TaskChanged
    <3>3. pc[h] = "supersede" BY <1>11 DEF ClaimOwn
    <3> QED BY <1>0, <1>L, <2>1, <2>3, <3>2, <3>3, OnwardSafe DEF Onward, Step
  <2> QED BY <1>11, <2>2, <2>3 DEF ClaimOwn
<1>12. ASSUME NEW h \in Handlers, DeleteOwn(h) PROVE Safe'
  <2>1. /\ UNCHANGED <<task, previous, newest, served, assigned>> /\ Leave(h)
        /\ DeletePolicyIfUnassigned(loc[h].policy.id) /\ pc[h] = "undo"
    BY <1>12 DEF DeleteOwn, historyVars, DeletePolicyIfUnassigned
  <2>2. \/ loc[h].policy.id = h /\ task[h] = "none"
        \/ loc[h].policy.id \in Handlers /\ task[loc[h].policy.id] = "canceled"
    BY <1>0, <2>1 DEF Safe, Owns
  <2>3. PICK p \in Handlers : p = loc[h].policy.id /\ task[p] \in {"none", "canceled"} /\ (task[p] = "none" => p = h)
    BY <2>2
  <2>4. \A g \in Handlers : pc[g] \in {"list", "create"} => g # p
    BY <1>0, <2>1, <2>3 DEF Safe, Owns, BeforeTask
  <2>5. RowsKept BY <1>0, <2>1, <2>3, <2>4 DEF RowsKept, RowTypes, Live, DeletePolicyIfUnassigned
  <2> QED BY <1>0, <2>1, <2>5, LeaveSafe
<1>13. ASSUME NEW h \in Handlers, WriteEdit(h) PROVE Safe'
  <2>1. UNCHANGED <<task, previous, newest, served, assigned>> /\ Leave(h) BY <1>13 DEF WriteEdit, historyVars
  <2>2. loc[h].policy \in [id : Ids \cup {None}, rev : Nat] BY <1>L DEF Locals
  <2>3. \A p \in Ids : policies[p] > 0 => policies'[p] > 0 BY <1>0, <1>13, <2>2 DEF WriteEdit, RowTypes, Exists
  <2>4. RowsKept BY <1>0, <2>1, <2>3 DEF RowsKept, RowTypes, Live
  <2> QED BY <1>0, <2>1, <2>4, LeaveSafe
<1>14. ASSUME NEW x \in Procs, Leave(x), UNCHANGED <<rowVars, newest, served>> PROVE Safe'
  BY <1>0, <1>14, SameRows, LeaveSafe DEF rowVars
<1>15. ASSUME NEW h \in Handlers, Abandon(h) PROVE Safe'
  BY <1>14, <1>15 DEF Abandon, Forget
<1>16. ASSUME NEW x \in Procs, ReadAssigned(x) PROVE Safe'
  BY <1>0, <1>16 DEF Safe, OldServed, Owns, NewestKept, BeforeTask, RowTypes, ProcTypes, Locals, Goto, Step, NoLocals,
         NoPolicy, rowVars, linkVars, historyVars, ReadAssigned
<1>17. ASSUME NEW x \in Procs, Send(x) PROVE Safe'
  BY <1>0, <1>17 DEF Safe, OldServed, Owns, NewestKept, BeforeTask, RowTypes, ProcTypes, Locals, Goto, Step, NoLocals,
         NoPolicy, rowVars, linkVars, historyVars, Send
<1>18. ASSUME NEW x \in Procs, SendOffline(x) \/ Timeout(x) \/ Refused(x) PROVE Safe'
  <2>1. UNCHANGED <<policies, task, previous, newest, served, assigned>> /\ pc[x] \in {"send", "wait"}
    BY <1>18 DEF SendOffline, Timeout, Refused, Forget, rowVars, historyVars
  <2>2. RowsKept BY <1>0, <2>1, SameRows
  <2>3. GiveUp(x, "error") \/ GiveUp(x, "refused") BY <1>18 DEF SendOffline, Timeout, Refused
  <2> QED BY <1>0, <2>1, <2>2, <2>3, GiveUpSafe
<1>19. ASSUME NEW x \in Procs, Accepted(x) PROVE Safe'
  <2>1. UNCHANGED <<policies, task, previous, newest>> /\ pc[x] = "wait" BY <1>19 DEF Accepted
  <2>2. served \subseteq served' /\ assigned' \in {assigned} \cup served'
    BY <1>19 DEF Accepted, AssignPolicy
  <2>3. RowsKept BY <1>0, <2>1, <2>2, SameRows
  <2>4. CASE Leave(x) BY <1>0, <2>2, <2>3, <2>4, LeaveSafe
  <2>5. CASE (Step(x, "record") \/ Step(x, "fail")) /\ UNCHANGED role
    <3>1. loc[x].old \in served' \cup {None} BY <1>L, <2>2
    <3> QED BY <1>0, <2>1, <2>2, <2>3, <2>5, <3>1, OnwardSafe DEF Onward, Step
  <2> QED BY <1>19, <2>4, <2>5 DEF Accepted
<1>20. ASSUME NEW x \in Procs, FailTask(x) PROVE Safe'
  <2>1. UNCHANGED <<policies, previous, newest, served, assigned>> /\ Leave(x) BY <1>20 DEF FailTask, historyVars
  <2>2. \E result \in {"queued", "failed"} :
            task' = [task EXCEPT ![loc[x].task] = IF @ = "running" THEN result ELSE @]
    BY <1>20 DEF FailTask, FinishAgentTask
  <2>3. RowsKept BY <1>0, <2>1, <2>2, TaskChanged
  <2> QED BY <1>0, <2>1, <2>3, LeaveSafe
<1>21. ASSUME NEW x \in Procs, Record(x) PROVE Safe'
  BY <1>0, <1>21 DEF Safe, OldServed, Owns, NewestKept, BeforeTask, RowTypes, ProcTypes, Locals, Goto, Step, NoLocals,
         NoPolicy, rowVars, linkVars, historyVars, Record
<1>22. ASSUME NEW x \in Procs, Succeed(x) PROVE Safe'
  <2>1. UNCHANGED <<policies, previous, newest, served, assigned>> /\ pc[x] = "finish"
    BY <1>22 DEF Succeed, historyVars
  <2>2. task' = [task EXCEPT ![loc[x].task] = IF @ = "running" THEN "succeeded" ELSE @]
    BY <1>22 DEF Succeed, FinishAgentTask
  <2>3. RowsKept BY <1>0, <2>1, <2>2, TaskChanged
  <2>4. CASE Leave(x) BY <1>0, <2>1, <2>3, <2>4, LeaveSafe
  <2>5. CASE Step(x, "tidy") /\ UNCHANGED role
    BY <1>0, <1>L, <2>1, <2>3, <2>5, OnwardSafe DEF Onward, Step
  <2> QED BY <1>22, <2>4, <2>5 DEF Succeed
<1>23. ASSUME NEW x \in Procs, DeleteReplaced(x) PROVE Safe'
  <2>1. UNCHANGED <<task, previous, newest, served>> /\ pc[x] = "tidy" BY <1>23 DEF DeleteReplaced, historyVars
  <2>2. RowsKept /\ assigned' = assigned
    BY <1>0, <1>L, <1>23, <2>1, DeleteServed DEF DeleteReplaced
  <2>3. CASE Leave(x) BY <1>0, <2>2, <2>3, LeaveSafe
  <2>4. CASE Step(x, "finish") /\ UNCHANGED role
    BY <1>0, <1>L, <2>1, <2>2, <2>4, OnwardSafe DEF Onward, Step
  <2> QED BY <1>23, <2>3, <2>4 DEF DeleteReplaced
<1>24. ASSUME NEW s \in Syncs, Connect(s) PROVE Safe'
  BY <1>0, <1>24 DEF Safe, OldServed, Owns, NewestKept, BeforeTask, RowTypes, ProcTypes, Locals, Goto, Step, NoLocals,
         NoPolicy, rowVars, linkVars, historyVars, Connect
<1>25. ASSUME NEW s \in Syncs, LoadAndSync(s) PROVE Safe'
  <2>1. CASE Leave(s) BY <1>14, <1>25, <2>1 DEF LoadAndSync, historyVars
  <2> DEFINE l == [loc[s] EXCEPT !.policy = Row(loc[s].old)]
  <2>2. CASE Goto(s, "send", l) /\ UNCHANGED role
    <3>1. UNCHANGED <<policies, task, previous, newest, served, assigned>>
      BY <1>25 DEF LoadAndSync, rowVars, historyVars
    <3>2. l.old = loc[s].old BY <1>L DEF Locals
    <3>3. Goto(s, "send", l) BY <2>2
    <3> HIDE DEF l
    <3>4. Moves(s) /\ loc'[s] = l BY <1>0, <2>2, <3>3, GotoMoves
    <3>5. s \notin Handlers BY ProcsAssumption
    <3> QED BY <1>0, <1>L, <3>1, <3>2, <3>4, <3>5, SameRows, KeptSafe
  <2> QED BY <1>25, <2>1, <2>2 DEF LoadAndSync
<1>26. CASE StartProcessor BY <1>0, <1>26 DEF Safe, OldServed, Owns, NewestKept, BeforeTask, RowTypes, ProcTypes, Locals, Goto, Step, NoLocals,
         NoPolicy, rowVars, linkVars, historyVars, StartProcessor
<1>27. CASE ClaimNext
  <2>1. UNCHANGED <<policies, previous, newest, served, assigned, role>> /\ pc[Processor] = "next"
    BY <1>27 DEF ClaimNext, historyVars
  <2>2. Processor \notin Handlers BY ProcsAssumption
  <2>3. CASE Step(Processor, "idle") /\ UNCHANGED task
    <3>1. Moves(Processor) /\ loc'[Processor] = loc[Processor] BY <1>0, <2>1, <2>3, GotoMoves DEF Step
    <3> QED BY <1>0, <1>L, <2>1, <2>2, <2>3, <3>1, SameRows, KeptSafe
  <2>4. ASSUME NEW t \in Handlers, task[t] = "queued", task' = [task EXCEPT ![t] = "running"],
               Goto(Processor, "fetch", [NoLocals EXCEPT !.task = t, !.old = previous[t]])
        PROVE  Safe'
    <3> DEFINE l == [NoLocals EXCEPT !.task = t, !.old = previous[t]]
    <3>1. l.old = previous[t] BY DEF NoLocals
    <3>2. Goto(Processor, "fetch", l) BY <2>4
    <3> HIDE DEF l
    <3>3. Moves(Processor) /\ loc'[Processor] = l BY <1>0, <2>1, <3>2, GotoMoves
    <3>4. task' = [task EXCEPT ![t] = IF @ = "queued" THEN "running" ELSE @] BY <2>4
    <3>5. RowsKept BY <1>0, <2>1, <3>4, TaskChanged
    <3>6. previous[t] \in served \cup {None} BY <1>0 DEF Safe, OldServed
    <3> QED BY <1>0, <2>1, <2>2, <3>1, <3>3, <3>5, <3>6, KeptSafe
  <2> QED BY <1>27, <2>3, <2>4 DEF ClaimNext, Queued
<1>28. CASE FetchPolicy
  <2> DEFINE old == loc[Processor]
             l == [old EXCEPT !.policy = Row(old.task)]
             m == [old EXCEPT !.answer = "refused"]
  <2>1. UNCHANGED <<policies, task, previous, newest, served, assigned, role>>
    BY <1>28 DEF FetchPolicy, rowVars, historyVars
  <2>2. Processor \notin Handlers BY ProcsAssumption
  <2>3. l.old = old.old /\ m.old = old.old BY <1>L DEF Locals
  <2>4. Goto(Processor, "send", l) \/ Goto(Processor, "fail", m) BY <1>28 DEF FetchPolicy
  <2>5. old.old \in served \cup {None} BY <1>L
  <2> HIDE DEF l, m
  <2>6. Moves(Processor) /\ loc'[Processor] \in {l, m} BY <1>0, <2>1, <2>4, GotoMoves
  <2> HIDE DEF old
  <2> QED BY <1>0, <2>1, <2>2, <2>3, <2>5, <2>6, SameRows, KeptSafe
<1>29. CASE Drop \/ UNCHANGED vars
  <2>1. UNCHANGED <<rowVars, procVars, newest, served>>
    BY <1>29 DEF Drop, vars, historyVars
  <2> QED BY <1>0, <2>1 DEF Safe, OldServed, Owns, NewestKept, rowVars, procVars
<1>30. ASSUME NEW a, NEW b, NEW d, ApplyNext(a, b, d) PROVE Safe'
  <2>1. UNCHANGED <<rowVars, pc, role, newest, served>> BY <1>30 DEF ApplyNext
  <2>2. \A x \in Procs : loc'[x].old = loc[x].old /\ loc'[x].listed = loc[x].listed /\ loc'[x].policy = loc[x].policy
    BY <1>0, <1>L, <1>30 DEF ApplyNext, ProcTypes, Locals
  <2> QED BY <1>0, <2>1, <2>2 DEF Safe, OldServed, Owns, NewestKept, rowVars
<1> QED
  BY <1>1, <1>2, <1>3, <1>4, <1>5, <1>6, <1>7, <1>8, <1>9, <1>10, <1>11, <1>12, <1>13, <1>15, <1>16,
     <1>17, <1>18, <1>19, <1>20, <1>21, <1>22, <1>23, <1>24, <1>25, <1>26, <1>27, <1>28, <1>29, <1>30
  DEF Next, Request, Deployment


-----------------------------------------------------------------------------
LEMMA InitIInv == Init => IInv
<1> SUFFICES ASSUME Init PROVE IInv
  OBVIOUS
<1> USE ProcsFacts, ProcsAssumption
<1>1. \A x \in Procs : pc[x] = "idle" /\ loc[x] = NoLocals BY DEF Init
<1>2. online \in BOOLEAN /\ trigger \in BOOLEAN /\ muddled \in BOOLEAN BY Zenon DEF Init
<1>3. RowTypes BY DEF Init, RowTypes, Exists
<1>4. LinkTypes
  <2>1. inbox \in Seq(Commands) BY EmptySeq DEF Init
  <2> QED BY <1>2, <2>1 DEF Init, LinkTypes
<1>5. ProcTypes
  <2>1. pc \in [Procs -> Locations] /\ loc \in [Procs -> Locals] BY NoLocalsType DEF Init, Locations
  <2>2. role \in [Handlers -> {None, "save", "restore", "deploy", "edit", "cancel"}] BY DEF Init
  <2> QED BY <1>1, <2>1, <2>2, NoLocalsType DEF ProcTypes, Carrying
<1>6. Waiting = {} BY <1>1 DEF Waiting
<1>7. HistoryTypes
  <2>1. served \subseteq Ids BY DEF Init
  <2> QED BY <1>2, <2>1 DEF Init, HistoryTypes
<1>8. Called BY DEF Init, Called
<1>9. Settled BY <1>6 DEF Init, Settled
<1>10. Safe
  <2>1. NoLocals.old = None /\ NoLocals.listed = {} BY DEF NoLocals
  <2>2. OldServed BY <1>1, <2>1 DEF Init, OldServed
  <2>3. \A h \in Handlers : Owns(h) BY <1>1, <2>1 DEF Init, Owns
  <2> QED BY <2>2, <2>3 DEF Init, Safe, NewestKept
<1> QED BY <1>3, <1>4, <1>5, <1>7, <1>8, <1>9, <1>10 DEF IInv, Types

LEMMA NextIInv == IInv /\ [Next]_vars => IInv'
<1> SUFFICES ASSUME IInv, [Next]_vars PROVE IInv'
  OBVIOUS
<1>1. RowTypes' BY RowTypesStep
<1>2. LinkTypes' BY LinkTypesStep
<1>3. ProcTypes' BY ProcTypesStep
<1>4. Called' BY CalledStep
<1>5. muddled' \in BOOLEAN /\ Settled' BY SettledStep
<1>6. alone' \in Waiting' \cup {None} BY <1>5 DEF Settled
<1>7. HistoryTypes' BY <1>5, <1>6, TriggerStep DEF HistoryTypes
<1>8. Safe' BY SafeStep
<1> QED BY <1>1, <1>2, <1>3, <1>4, <1>5, <1>7, <1>8 DEF IInv, Types

\* Every variable keeps its type: among them, the policy assigned exists
\* (DeletePolicyIfUnassigned), the history holds saved policies only, and each command on its
\* way has a caller that waits for it or none (Hub.request).
THEOREM PolicyDeployTypeCorrect == Spec => []TypeOK
<1>1. Init => IInv BY InitIInv
<1>2. IInv /\ [Next]_vars => IInv' BY NextIInv
<1>3. IInv => TypeOK
  <2> SUFFICES ASSUME IInv PROVE TypeOK
    OBVIOUS
  <2>1. RowTypes /\ LinkTypes /\ ProcTypes /\ HistoryTypes /\ Called BY DEF IInv, Types
  <2>2. \A i \in DOMAIN inbox : inbox[i] \in Commands BY <2>1 DEF LinkTypes
  <2>3. \A i \in DOMAIN inbox : inbox[i].by = None \/ inbox[i].by \in Waiting
    BY <2>1, <2>2 DEF Called, Commands, Waiting, At
  <2>4. \A x \in Procs : loc[x].answer \in {None, "ok", "refused", "error"}
    BY <2>1 DEF ProcTypes, Locals, Answers
  <2>5. inbox \in Seq([by : Procs \cup {None}, policy : Ids]) BY <2>1 DEF LinkTypes, Commands
  <2>6. history \subseteq [id : Ids, rev : Nat \ {0}] BY <2>1 DEF RowTypes, Policies
  <2> QED BY <2>1, <2>3, <2>4, <2>5, <2>6 DEF TypeOK, RowTypes, LinkTypes, ProcTypes, HistoryTypes
<1> QED BY <1>1, <1>2, <1>3, PTL DEF Spec

\* A deployment that went through with no other beside it leaves the Agent with the policy its
\* row says (ApplyPolicy, then AssignPolicy), until a command goes unanswered again.
THEOREM DeploymentSettles == Spec => []InForceIsAssigned
<1>1. Init => IInv BY InitIInv
<1>2. IInv /\ [Next]_vars => IInv' BY NextIInv
<1>3. IInv => InForceIsAssigned
  <2> SUFFICES ASSUME IInv, ~muddled, Waiting = {} PROVE running = assigned
    BY DEF InForceIsAssigned
  <2>1. Settled /\ HistoryTypes BY DEF IInv, Types
  <2>2. alone = None BY <2>1 DEF HistoryTypes
  <2> QED BY <2>1, <2>2 DEF Settled
<1> QED BY <1>1, <1>2, <1>3, PTL DEF Spec

\* The policy of the newest deployment that is still to be carried out exists, whatever other
\* requests, clean-ups, retries and cancellations do (handleSaveAgentProtection,
\* handleCancelTask, executeAgentTask), unless it was assigned in the meantime.
THEOREM NewestStays == Spec => []NewestKept
<1>1. Init => IInv BY InitIInv
<1>2. IInv /\ [Next]_vars => IInv' BY NextIInv
<1>3. IInv => NewestKept BY DEF IInv, Safe
<1> QED BY <1>1, <1>2, <1>3, PTL DEF Spec
=============================================================================
