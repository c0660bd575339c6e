--------------------------- MODULE BanSyncProofs ---------------------------
(***************************************************************************)
(* Proofs about BanSync, for every set of addresses, requests and          *)
(* synchronisations and every bound on the inbox: its type invariant, and  *)
(* that at rest the bans shown as applied are in the Agent's set and a     *)
(* task that succeeded last left exactly the rows there.                   *)
(*                                                                         *)
(* Both promises are about rest and neither is inductive.  What makes them *)
(* true is said of the moments in between: of the synchronisation that has *)
(* had none beside it (alone), its list is the last on its way (LastIn)    *)
(* and, once no change is still to be read (Unread), is the rows           *)
(* (AloneExact); what is marked (MarksTrue) and what the newest task has   *)
(* done (DoneExact) then follow from its answer.                           *)
(***************************************************************************)
EXTENDS BanSync, SequenceTheorems, TLAPS

\* A list on its way, and who waits for the answer.
Entries == [by : Procs \cup {None}, list : SUBSET Addresses]

\* The type invariant by the groups of variables that steps change together.
RowTypes ==
    /\ row \in [Addresses -> {"none", "waiting", "applied"}] /\ due \subseteq Rows
    /\ blocked \subseteq Addresses
TaskTypes ==
    /\ task \in [Handlers -> {"none", "queued", "running", "failed", "succeeded", "canceled"}]
    /\ works \in [Procs -> Handlers \cup {None}]
    /\ \A x \in Procs : works[x] # None => task[works[x]] = "running"
ProcTypes ==
    /\ pc \in [Procs -> {"idle", "create", "claim", "next", "list", "send", "wait", "finish",
                    "done"}]
    /\ list \in [Procs -> SUBSET Addresses]
    /\ answer \in [Procs -> {None, "ok", "refused", "error"}]
InboxTypes == inbox \in Seq(Entries)
FlagTypes == online \in BOOLEAN /\ trigger \in BOOLEAN /\ mixed \in BOOLEAN
HistoryTypes == newest \in Handlers \cup {None} /\ alone \in Window \cup {None}

LEMMA TypeParts ==
    TypeOK <=> RowTypes /\ TaskTypes /\ ProcTypes /\ InboxTypes /\ FlagTypes /\ HistoryTypes
BY DEF TypeOK, RowTypes, TaskTypes, ProcTypes, InboxTypes, FlagTypes, HistoryTypes, Entries

\* The steps, with those of the Agent's answer under one name.
LEMMA NextCases ==
    ASSUME TypeOK, [Next]_vars
    PROVE  \/ \E h \in Handlers :
                  \/ \E a \in Addresses : Ban(h, a) \/ Unban(h, a)
                  \/ ChangeOther(h) \/ CreateTask(h) \/ ClaimOwn(h) \/ Cut(h) \/ Retry(h)
                  \/ Cancel(h)
           \/ StartProcessor \/ ClaimNext \/ ShowBans
           \/ \E s \in Syncs : Connect(s) \/ StartSync(s)
           \/ \E x \in Procs :
                  ListBans(x) \/ ListFails(x) \/ Send(x) \/ Timeout(x) \/ Mark(x) \/ Finish(x)
           \/ Drop
           \/ \E r \in {"ok", "refused"}, b \in BOOLEAN, heard \in BOOLEAN :
                  (r = "ok" => b) /\ ApplyNext(r, b, heard)
           \/ \E a \in Addresses : Expire(a)
           \/ UNCHANGED vars
<1>1. online \in BOOLEAN BY DEF TypeOK
<1>2. CASE \E heard \in {TRUE, online} :
               ApplyNext("ok", TRUE, heard) \/ \E b \in BOOLEAN : ApplyNext("refused", b, heard)
  BY <1>1, <1>2
<1> QED BY <1>2, Zenon DEF Next

-----------------------------------------------------------------------------
\* The inbox as a function, and after each step that changes it.
LEMMA Reindexed ==
    ASSUME NEW S, NEW n \in Nat, NEW f \in [1..n -> S]
    PROVE  f \in Seq(S) /\ Len(f) = n
BY SeqDef, LenProperties

LEMMA Inbox ==
    TypeOK => /\ inbox \in [1..Len(inbox) -> Entries]
              /\ Len(inbox) \in Nat /\ DOMAIN inbox = 1..Len(inbox)
BY LenProperties DEF TypeOK, Entries

LEMMA SendInbox ==
    ASSUME TypeOK, NEW x \in Procs, Send(x), online
    PROVE  /\ Len(inbox') = Len(inbox) + 1 /\ inbox' \in Seq(Entries)
           /\ \A i \in 1..Len(inbox') :
                  inbox'[i] = IF i = Len(inbox') THEN [by |-> x, list |-> list[x]] ELSE inbox[i]
<1>1. [by |-> x, list |-> list[x]] \in Entries BY DEF TypeOK, Entries
<1>2. inbox' = Append(inbox, [by |-> x, list |-> list[x]]) BY DEF Send
<1> QED BY <1>1, <1>2, AppendProperties, Inbox DEF TypeOK, Entries

\* The new list is the last one, and the others are where they were.
LEMMA SendFrom ==
    ASSUME TypeOK, NEW x \in Procs, Send(x), online
    PROVE  /\ Len(inbox') \in Nat /\ Len(inbox') > 0
           /\ inbox'[Len(inbox')].by = x /\ inbox'[Len(inbox')].list = list[x]
           /\ \A i \in 1..Len(inbox') :
                  i # Len(inbox') => i \in 1..Len(inbox) /\ inbox'[i] = inbox[i]
<1>1. Len(inbox) \in Nat /\ Len(inbox') = Len(inbox) + 1 BY SendInbox, Inbox
<1>2. Len(inbox') \in 1..Len(inbox') BY <1>1
<1>3. inbox'[Len(inbox')] = [by |-> x, list |-> list[x]] BY <1>2, SendInbox
<1>4. inbox'[Len(inbox')].by = x /\ inbox'[Len(inbox')].list = list[x] BY <1>3
<1>5. \A i \in 1..Len(inbox') :
          i # Len(inbox') => i \in 1..Len(inbox) /\ inbox'[i] = inbox[i]
  BY <1>1, SendInbox
<1> QED BY <1>1, <1>4, <1>5

LEMMA TimeoutInbox ==
    ASSUME TypeOK, NEW x \in Procs, Timeout(x)
    PROVE  /\ Len(inbox') = Len(inbox) /\ inbox' \in Seq(Entries)
           /\ \A i \in 1..Len(inbox') :
                  inbox'[i] = IF inbox[i].by = x THEN [inbox[i] EXCEPT !.by = None] ELSE inbox[i]
<1>1. inbox' = [i \in 1..Len(inbox) |->
                   IF inbox[i].by = x THEN [inbox[i] EXCEPT !.by = None] ELSE inbox[i]]
  BY Inbox DEF Timeout
<1>2. inbox' \in [1..Len(inbox) -> Entries] BY <1>1, Inbox DEF Entries
<1> QED BY <1>1, <1>2, Inbox, Reindexed

LEMMA ExpireInbox ==
    ASSUME TypeOK, NEW a \in Addresses, Expire(a)
    PROVE  /\ Len(inbox') = Len(inbox) /\ inbox' \in Seq(Entries)
           /\ \A i \in 1..Len(inbox') :
                  inbox'[i].by = inbox[i].by /\ inbox'[i].list = inbox[i].list \ {a}
<1>1. inbox' = [i \in 1..Len(inbox) |-> [inbox[i] EXCEPT !.list = @ \ {a}]]
  BY Inbox DEF Expire
<1>2. inbox' \in [1..Len(inbox) -> Entries] BY <1>1, Inbox DEF Entries
<1> QED BY <1>1, <1>2, Inbox, Reindexed DEF Entries

LEMMA ApplyInbox ==
    ASSUME TypeOK, NEW r, NEW b, NEW heard, ApplyNext(r, b, heard)
    PROVE  /\ Len(inbox) > 0 /\ Head(inbox) = inbox[1] /\ inbox[1] \in Entries
           /\ Len(inbox') = Len(inbox) - 1 /\ inbox' \in Seq(Entries)
           /\ \A i \in 1..Len(inbox') : inbox'[i] = inbox[i + 1]
BY Inbox, HeadTailProperties, EmptySeq DEF ApplyNext, TypeOK, Entries

\* What a lost connection leaves is some of the lists, in their order.
LEMMA DropInbox ==
    ASSUME TypeOK, Drop
    PROVE  /\ inbox' \in Seq(Entries)
           /\ \E kept \in [1..Len(inbox') -> 1..Len(inbox)] :
                  /\ \A i, j \in 1..Len(inbox') : i < j => kept[i] < kept[j]
                  /\ \A i \in 1..Len(inbox') : inbox'[i] = inbox[kept[i]]
<1>0. PICK n \in 0..Len(inbox) : \E kept \in [1..n -> Kept] :
          /\ \A i, j \in 1..n : i < j => kept[i] < kept[j]
          /\ inbox' = [i \in 1..n |-> inbox[kept[i]]]
  BY Zenon DEF Drop
<1>1. PICK kept \in [1..n -> Kept] :
          /\ \A i, j \in 1..n : i < j => kept[i] < kept[j]
          /\ inbox' = [i \in 1..n |-> inbox[kept[i]]]
  BY <1>0
<1>2. kept \in [1..n -> 1..Len(inbox)] BY <1>1, Inbox DEF Kept
<1>3. inbox' \in [1..n -> Entries] BY <1>1, <1>2, Inbox
<1>4. n \in Nat BY Inbox
<1>5. inbox' \in Seq(Entries) /\ Len(inbox') = n BY <1>3, <1>4, Reindexed
<1>6. \A i \in 1..n : inbox'[i] = inbox[kept[i]] BY <1>1
<1> QED BY <1>1, <1>2, <1>5, <1>6

-----------------------------------------------------------------------------
\* Who works on which task, and who waits: a task has one worker at most, an answer belongs
\* to a synchronisation, and a request that has not come to its task has none.
Workers ==
    /\ \A x \in Procs :
        /\ works[x] # None => pc[x] \in {"list", "send", "wait", "finish"}
        /\ pc[x] = "finish" => works[x] # None
        /\ answer[x] # None => pc[x] \in {"wait", "finish"}
        /\ pc[x] = "finish" => answer[x] # None
        /\ pc[x] \in {"create", "claim"} => x \in Handlers
    /\ \A x, y \in Procs : works[x] = works[y] /\ works[x] # None => x = y
    /\ \A h \in Handlers : pc[h] \in {"idle", "create"} => task[h] = "none"
    /\ newest # None => task[newest] # "none"

\* A list whose answer is awaited is awaited by a synchronisation that has none yet, once.
Waited ==
    \A i \in 1..Len(inbox) : inbox[i].by # None =>
        /\ pc[inbox[i].by] = "wait" /\ answer[inbox[i].by] = None
        /\ \A j \in 1..Len(inbox) : inbox[j].by = inbox[i].by => j = i

\* alone is the only synchronisation in its window, and any other has been noted (mixed).
Overlap == \A x \in Window : (alone # x => mixed) /\ (alone = x => Window = {x})

\* The list of alone is the last on its way, and none is left once it has been applied.
LastIn ==
    alone # None =>
        /\ \A i \in 1..Len(inbox) : inbox[i].by = alone => i = Len(inbox)
        /\ answer[alone] = "ok" => Len(inbox) = 0

\* A change of the rows that a synchronisation will still read: its request is about to
\* create its task, or the newest task waits or has not read the rows.
Unread ==
    \/ \E h \in Handlers : pc[h] = "create"
    \/ /\ newest # None
       /\ task[newest] = "queued" \/ \E x \in Procs : works[x] = newest /\ pc[x] = "list"

\* What ListIPBans would return, and what is shown as applied.
Banned == Rows \ due
Applied == {a \in Addresses \ due : row[a] = "applied"}

\* With no change unread, alone carries the rows, and its success leaves them in the set.
AloneExact ==
    alone # None /\ ~Unread =>
        /\ pc[alone] = "send" => list[alone] = Banned
        /\ \A i \in 1..Len(inbox) : inbox[i].by = alone => inbox[i].list = Banned
        /\ answer[alone] = "ok" => blocked = Banned

\* What is shown as applied is in the set, and in every list that may still replace it.
MarksTrue ==
    ~mixed /\ ~Unread /\ Window = {} /\ Applied # {} =>
        /\ Applied \subseteq blocked
        /\ \A i \in 1..Len(inbox) : Applied \subseteq inbox[i].list

\* The newest task has succeeded, or its worker is about to record that.
Done ==
    /\ newest # None
    /\ \/ task[newest] = "succeeded"
       \/ \E x \in Procs : pc[x] = "finish" /\ works[x] = newest /\ answer[x] = "ok"

\* From then on the set, and every list that may still replace it, is the rows.
DoneExact ==
    ~mixed /\ ~Unread /\ Done =>
        /\ blocked = Banned
        /\ \A i \in 1..Len(inbox) : inbox[i].list = Banned
        /\ \A x \in Procs : pc[x] = "send" => list[x] = Banned

IInv ==
    /\ TypeOK
    /\ Workers /\ Waited /\ Overlap /\ LastIn
    /\ AloneExact /\ MarksTrue /\ DoneExact

-----------------------------------------------------------------------------
\* Each part of TypeOK.
LEMMA NextRowTypes == TypeOK /\ [Next]_vars => RowTypes'
<1> SUFFICES ASSUME TypeOK, [Next]_vars PROVE RowTypes'
  OBVIOUS
<1> USE ProcsAssumption DEF RowTypes, TypeOK, Rows, Procs, At, Goto, rowVars, linkVars,
       procVars, historyVars
<1>1. ASSUME NEW h \in Handlers, NEW a \in Addresses, Ban(h, a) PROVE RowTypes'
  BY <1>1 DEF Ban
<1>2. ASSUME NEW h \in Handlers, NEW a \in Addresses, Unban(h, a) PROVE RowTypes'
  BY <1>2 DEF Unban
<1>3. ASSUME NEW h \in Handlers, ChangeOther(h) PROVE RowTypes'
  BY <1>3 DEF ChangeOther
<1>4. ASSUME NEW h \in Handlers, CreateTask(h) PROVE RowTypes'
  BY <1>4 DEF CreateTask
<1>5. ASSUME NEW h \in Handlers, ClaimOwn(h) PROVE RowTypes'
  BY <1>5 DEF ClaimOwn, Leave
<1>6. ASSUME NEW h \in Handlers, Cut(h) PROVE RowTypes'
  BY <1>6 DEF Cut, Leave
<1>7. ASSUME NEW t \in Handlers, Retry(t) PROVE RowTypes'
  BY <1>7 DEF Retry
<1>8. ASSUME NEW t \in Handlers, Cancel(t) PROVE RowTypes'
  BY <1>8 DEF Cancel
<1>9. CASE StartProcessor BY <1>9 DEF StartProcessor
<1>10. CASE ClaimNext BY <1>10 DEF ClaimNext
<1>11. CASE ShowBans BY <1>11 DEF ShowBans
<1>12. ASSUME NEW s \in Syncs, Connect(s) PROVE RowTypes'
  BY <1>12 DEF Connect
<1>13. ASSUME NEW s \in Syncs, StartSync(s) PROVE RowTypes'
  BY <1>13 DEF StartSync
<1>14. ASSUME NEW x \in Procs, ListBans(x) PROVE RowTypes'
  BY <1>14 DEF ListBans
<1>15. ASSUME NEW x \in Procs, Send(x) PROVE RowTypes'
  BY <1>15 DEF Send
<1>16. ASSUME NEW x \in Procs, Timeout(x) PROVE RowTypes'
  BY <1>16 DEF Timeout
<1>17. ASSUME NEW x \in Procs, Mark(x) PROVE RowTypes'
  BY <1>17 DEF Mark, Marks, Leave
<1>18. ASSUME NEW x \in Procs, Finish(x) PROVE RowTypes'
  BY <1>18 DEF Finish, Result, Leave
<1>19. CASE Drop BY <1>19 DEF Drop
<1>20. ASSUME NEW r \in {"ok", "refused"}, NEW b \in BOOLEAN, NEW heard \in BOOLEAN,
             r = "ok" => b, ApplyNext(r, b, heard) PROVE RowTypes'
  <2>1. Head(inbox).list \subseteq Addresses BY <1>20, ApplyInbox DEF Entries
  <2> QED BY <1>20, <2>1 DEF ApplyNext
<1>21. ASSUME NEW a \in Addresses, Expire(a) PROVE RowTypes'
  BY <1>21 DEF Expire
<1>22. CASE UNCHANGED vars BY <1>22 DEF vars
<1>23. ASSUME NEW x \in Procs, ListFails(x) PROVE RowTypes'
  BY <1>23 DEF ListFails, Leave
<1> HIDE DEF RowTypes
<1> QED
  BY <1>1, <1>2, <1>3, <1>4, <1>5, <1>6, <1>7, <1>8, <1>9, <1>10, <1>11, <1>12, <1>13, <1>14,
     <1>15, <1>16, <1>17, <1>18, <1>19, <1>20, <1>21, <1>22, <1>23, NextCases

LEMMA NextTaskTypes == TypeOK /\ Workers /\ [Next]_vars => TaskTypes'
<1> SUFFICES ASSUME TypeOK, Workers, [Next]_vars PROVE TaskTypes'
  OBVIOUS
<1> USE ProcsAssumption DEF TaskTypes, TypeOK, Workers, Procs, At, Goto, rowVars, linkVars,
       procVars, historyVars
<1>1. ASSUME NEW h \in Handlers, NEW a \in Addresses, Ban(h, a) PROVE TaskTypes'
  BY <1>1 DEF Ban
<1>2. ASSUME NEW h \in Handlers, NEW a \in Addresses, Unban(h, a) PROVE TaskTypes'
  BY <1>2 DEF Unban
<1>3. ASSUME NEW h \in Handlers, ChangeOther(h) PROVE TaskTypes'
  BY <1>3 DEF ChangeOther
<1>4. ASSUME NEW h \in Handlers, CreateTask(h) PROVE TaskTypes'
  BY <1>4 DEF CreateTask
<1>5. ASSUME NEW h \in Handlers, ClaimOwn(h) PROVE TaskTypes'
  <2>1. CASE online /\ task[h] = "queued"
    <3>1. task' = [task EXCEPT ![h] = "running"] /\ works' = [works EXCEPT ![h] = h]
      BY <1>5, <2>1 DEF ClaimOwn
    <3> QED BY <3>1
  <2>2. CASE ~(online /\ task[h] = "queued") BY <1>5, <2>2 DEF ClaimOwn, Leave
  <2> QED BY <2>1, <2>2
<1>6. ASSUME NEW h \in Handlers, Cut(h) PROVE TaskTypes'
  BY <1>6 DEF Cut, Leave
<1>7. ASSUME NEW t \in Handlers, Retry(t) PROVE TaskTypes'
  BY <1>7 DEF Retry
<1>8. ASSUME NEW t \in Handlers, Cancel(t) PROVE TaskTypes'
  BY <1>8 DEF Cancel
<1>9. CASE StartProcessor BY <1>9 DEF StartProcessor
<1>10. CASE ClaimNext BY <1>10 DEF ClaimNext
<1>11. CASE ShowBans BY <1>11 DEF ShowBans
<1>12. ASSUME NEW s \in Syncs, Connect(s) PROVE TaskTypes'
  BY <1>12 DEF Connect
<1>13. ASSUME NEW s \in Syncs, StartSync(s) PROVE TaskTypes'
  BY <1>13 DEF StartSync
<1>14. ASSUME NEW x \in Procs, ListBans(x) PROVE TaskTypes'
  BY <1>14 DEF ListBans
<1>15. ASSUME NEW x \in Procs, Send(x) PROVE TaskTypes'
  BY <1>15 DEF Send
<1>16. ASSUME NEW x \in Procs, Timeout(x) PROVE TaskTypes'
  BY <1>16 DEF Timeout
<1>17. ASSUME NEW x \in Procs, Mark(x) PROVE TaskTypes'
  BY <1>17 DEF Mark, Marks, Leave
<1>18. ASSUME NEW x \in Procs, Finish(x) PROVE TaskTypes'
  BY <1>18 DEF Finish, Result, Leave
<1>19. CASE Drop BY <1>19 DEF Drop
<1>20. ASSUME NEW r \in {"ok", "refused"}, NEW b \in BOOLEAN, NEW heard \in BOOLEAN,
             r = "ok" => b, ApplyNext(r, b, heard) PROVE TaskTypes'
  BY <1>20 DEF ApplyNext
<1>21. ASSUME NEW a \in Addresses, Expire(a) PROVE TaskTypes'
  BY <1>21 DEF Expire
<1>22. CASE UNCHANGED vars BY <1>22 DEF vars
<1>23. ASSUME NEW x \in Procs, ListFails(x) PROVE TaskTypes'
  BY <1>23 DEF ListFails, Leave
<1> HIDE DEF TaskTypes
<1> QED
  BY <1>1, <1>2, <1>3, <1>4, <1>5, <1>6, <1>7, <1>8, <1>9, <1>10, <1>11, <1>12, <1>13, <1>14,
     <1>15, <1>16, <1>17, <1>18, <1>19, <1>20, <1>21, <1>22, <1>23, NextCases

LEMMA NextProcTypes == TypeOK /\ [Next]_vars => ProcTypes'
<1> SUFFICES ASSUME TypeOK, [Next]_vars PROVE ProcTypes'
  OBVIOUS
<1> USE ProcsAssumption DEF ProcTypes, TypeOK, Procs, Rows, At, Goto, rowVars, linkVars,
       procVars, historyVars
<1>1. ASSUME NEW h \in Handlers, NEW a \in Addresses, Ban(h, a) PROVE ProcTypes'
  BY <1>1 DEF Ban
<1>2. ASSUME NEW h \in Handlers, NEW a \in Addresses, Unban(h, a) PROVE ProcTypes'
  BY <1>2 DEF Unban
<1>3. ASSUME NEW h \in Handlers, ChangeOther(h) PROVE ProcTypes'
  BY <1>3 DEF ChangeOther
<1>4. ASSUME NEW h \in Handlers, CreateTask(h) PROVE ProcTypes'
  BY <1>4 DEF CreateTask
<1>5. ASSUME NEW h \in Handlers, ClaimOwn(h) PROVE ProcTypes'
  BY <1>5 DEF ClaimOwn, Leave
<1>6. ASSUME NEW h \in Handlers, Cut(h) PROVE ProcTypes'
  BY <1>6 DEF Cut, Leave
<1>7. ASSUME NEW t \in Handlers, Retry(t) PROVE ProcTypes'
  BY <1>7 DEF Retry
<1>8. ASSUME NEW t \in Handlers, Cancel(t) PROVE ProcTypes'
  BY <1>8 DEF Cancel
<1>9. CASE StartProcessor BY <1>9 DEF StartProcessor
<1>10. CASE ClaimNext BY <1>10 DEF ClaimNext
<1>11. CASE ShowBans BY <1>11 DEF ShowBans
<1>12. ASSUME NEW s \in Syncs, Connect(s) PROVE ProcTypes'
  BY <1>12 DEF Connect
<1>13. ASSUME NEW s \in Syncs, StartSync(s) PROVE ProcTypes'
  BY <1>13 DEF StartSync
<1>14. ASSUME NEW x \in Procs, ListBans(x) PROVE ProcTypes'
  BY <1>14 DEF ListBans
<1>15. ASSUME NEW x \in Procs, Send(x) PROVE ProcTypes'
  BY <1>15 DEF Send
<1>16. ASSUME NEW x \in Procs, Timeout(x) PROVE ProcTypes'
  BY <1>16 DEF Timeout
<1>17. ASSUME NEW x \in Procs, Mark(x) PROVE ProcTypes'
  <2>1. CASE works[x] = None BY <1>17, <2>1 DEF Mark, Leave
  <2>2. CASE works[x] # None BY <1>17, <2>2 DEF Mark
  <2> QED BY <2>1, <2>2
<1>18. ASSUME NEW x \in Procs, Finish(x) PROVE ProcTypes'
  BY <1>18 DEF Finish, Result, Leave
<1>19. CASE Drop BY <1>19 DEF Drop
<1>20. ASSUME NEW r \in {"ok", "refused"}, NEW b \in BOOLEAN, NEW heard \in BOOLEAN,
             r = "ok" => b, ApplyNext(r, b, heard) PROVE ProcTypes'
  BY <1>20 DEF ApplyNext
<1>21. ASSUME NEW a \in Addresses, Expire(a) PROVE ProcTypes'
  BY <1>21 DEF Expire
<1>22. CASE UNCHANGED vars BY <1>22 DEF vars
<1>23. ASSUME NEW x \in Procs, ListFails(x) PROVE ProcTypes'
  BY <1>23 DEF ListFails, Leave
<1> HIDE DEF ProcTypes
<1> QED
  BY <1>1, <1>2, <1>3, <1>4, <1>5, <1>6, <1>7, <1>8, <1>9, <1>10, <1>11, <1>12, <1>13, <1>14,
     <1>15, <1>16, <1>17, <1>18, <1>19, <1>20, <1>21, <1>22, <1>23, NextCases

LEMMA NextInboxTypes == TypeOK /\ [Next]_vars => InboxTypes'
<1> SUFFICES ASSUME TypeOK, [Next]_vars PROVE InboxTypes'
  OBVIOUS
<1> USE ProcsAssumption DEF InboxTypes, Entries, TypeOK, Procs, At, Goto, rowVars, linkVars,
       procVars, historyVars
<1>1. ASSUME NEW h \in Handlers, NEW a \in Addresses, Ban(h, a) PROVE InboxTypes'
  BY <1>1 DEF Ban
<1>2. ASSUME NEW h \in Handlers, NEW a \in Addresses, Unban(h, a) PROVE InboxTypes'
  BY <1>2 DEF Unban
<1>3. ASSUME NEW h \in Handlers, ChangeOther(h) PROVE InboxTypes'
  BY <1>3 DEF ChangeOther
<1>4. ASSUME NEW h \in Handlers, CreateTask(h) PROVE InboxTypes'
  BY <1>4 DEF CreateTask
<1>5. ASSUME NEW h \in Handlers, ClaimOwn(h) PROVE InboxTypes'
  BY <1>5 DEF ClaimOwn, Leave
<1>6. ASSUME NEW h \in Handlers, Cut(h) PROVE InboxTypes'
  BY <1>6 DEF Cut, Leave
<1>7. ASSUME NEW t \in Handlers, Retry(t) PROVE InboxTypes'
  BY <1>7 DEF Retry
<1>8. ASSUME NEW t \in Handlers, Cancel(t) PROVE InboxTypes'
  BY <1>8 DEF Cancel
<1>9. CASE StartProcessor BY <1>9 DEF StartProcessor
<1>10. CASE ClaimNext BY <1>10 DEF ClaimNext
<1>11. CASE ShowBans BY <1>11 DEF ShowBans
<1>12. ASSUME NEW s \in Syncs, Connect(s) PROVE InboxTypes'
  BY <1>12 DEF Connect
<1>13. ASSUME NEW s \in Syncs, StartSync(s) PROVE InboxTypes'
  BY <1>13 DEF StartSync
<1>14. ASSUME NEW x \in Procs, ListBans(x) PROVE InboxTypes'
  BY <1>14 DEF ListBans
<1>15. ASSUME NEW x \in Procs, Send(x) PROVE InboxTypes'
  BY <1>15, SendInbox DEF Send
<1>16. ASSUME NEW x \in Procs, Timeout(x) PROVE InboxTypes'
  BY <1>16, TimeoutInbox
<1>17. ASSUME NEW x \in Procs, Mark(x) PROVE InboxTypes'
  BY <1>17 DEF Mark, Marks, Leave
<1>18. ASSUME NEW x \in Procs, Finish(x) PROVE InboxTypes'
  BY <1>18 DEF Finish, Result, Leave
<1>19. CASE Drop BY <1>19, DropInbox
<1>20. ASSUME NEW r, NEW b, NEW heard, ApplyNext(r, b, heard) PROVE InboxTypes'
  BY <1>20, ApplyInbox
<1>21. ASSUME NEW a \in Addresses, Expire(a) PROVE InboxTypes'
  BY <1>21, ExpireInbox
<1>22. CASE UNCHANGED vars BY <1>22 DEF vars
<1>23. ASSUME NEW x \in Procs, ListFails(x) PROVE InboxTypes'
  BY <1>23 DEF ListFails, Leave
<1> HIDE DEF InboxTypes
<1> QED
  BY <1>1, <1>2, <1>3, <1>4, <1>5, <1>6, <1>7, <1>8, <1>9, <1>10, <1>11, <1>12, <1>13, <1>14,
     <1>15, <1>16, <1>17, <1>18, <1>19, <1>20, <1>21, <1>22, <1>23, NextCases

LEMMA NextFlagTypes == TypeOK /\ [Next]_vars => FlagTypes'
<1> SUFFICES ASSUME TypeOK, [Next]_vars PROVE FlagTypes'
  OBVIOUS
<1> USE ProcsAssumption DEF FlagTypes, TypeOK, At, Goto, rowVars, linkVars, procVars, historyVars
<1>1. ASSUME NEW h \in Handlers, NEW a \in Addresses, Ban(h, a) PROVE FlagTypes'
  BY <1>1 DEF Ban
<1>2. ASSUME NEW h \in Handlers, NEW a \in Addresses, Unban(h, a) PROVE FlagTypes'
  BY <1>2 DEF Unban
<1>3. ASSUME NEW h \in Handlers, ChangeOther(h) PROVE FlagTypes'
  BY <1>3 DEF ChangeOther
<1>4. ASSUME NEW h \in Handlers, CreateTask(h) PROVE FlagTypes'
  BY <1>4 DEF CreateTask
<1>5. ASSUME NEW h \in Handlers, ClaimOwn(h) PROVE FlagTypes'
  BY <1>5 DEF ClaimOwn, Leave
<1>6. ASSUME NEW h \in Handlers, Cut(h) PROVE FlagTypes'
  BY <1>6 DEF Cut, Leave
<1>7. ASSUME NEW t \in Handlers, Retry(t) PROVE FlagTypes'
  BY <1>7 DEF Retry
<1>8. ASSUME NEW t \in Handlers, Cancel(t) PROVE FlagTypes'
  BY <1>8 DEF Cancel
<1>9. CASE StartProcessor BY <1>9 DEF StartProcessor
<1>10. CASE ClaimNext BY <1>10 DEF ClaimNext
<1>11. CASE ShowBans BY <1>11 DEF ShowBans
<1>12. ASSUME NEW s \in Syncs, Connect(s) PROVE FlagTypes'
  BY <1>12 DEF Connect
<1>13. ASSUME NEW s \in Syncs, StartSync(s) PROVE FlagTypes'
  BY <1>13 DEF StartSync
<1>14. ASSUME NEW x \in Procs, ListBans(x) PROVE FlagTypes'
  BY <1>14 DEF ListBans
<1>15. ASSUME NEW x \in Procs, Send(x) PROVE FlagTypes'
  BY <1>15 DEF Send
<1>16. ASSUME NEW x \in Procs, Timeout(x) PROVE FlagTypes'
  BY <1>16 DEF Timeout
<1>17. ASSUME NEW x \in Procs, Mark(x) PROVE FlagTypes'
  BY <1>17 DEF Mark, Marks, Leave
<1>18. ASSUME NEW x \in Procs, Finish(x) PROVE FlagTypes'
  BY <1>18 DEF Finish, Result, Leave
<1>19. CASE Drop BY <1>19 DEF Drop
<1>20. ASSUME NEW r \in {"ok", "refused"}, NEW b \in BOOLEAN, NEW heard \in BOOLEAN,
             r = "ok" => b, ApplyNext(r, b, heard) PROVE FlagTypes'
  BY <1>20 DEF ApplyNext
<1>21. ASSUME NEW a \in Addresses, Expire(a) PROVE FlagTypes'
  BY <1>21 DEF Expire
<1>22. CASE UNCHANGED vars BY <1>22 DEF vars
<1>23. ASSUME NEW x \in Procs, ListFails(x) PROVE FlagTypes'
  BY <1>23 DEF ListFails, Leave
<1> HIDE DEF FlagTypes
<1> QED
  BY <1>1, <1>2, <1>3, <1>4, <1>5, <1>6, <1>7, <1>8, <1>9, <1>10, <1>11, <1>12, <1>13, <1>14,
     <1>15, <1>16, <1>17, <1>18, <1>19, <1>20, <1>21, <1>22, <1>23, NextCases

LEMMA NextHistoryTypes == TypeOK /\ Workers /\ [Next]_vars => HistoryTypes'
<1> SUFFICES ASSUME TypeOK, Workers, [Next]_vars PROVE HistoryTypes'
  OBVIOUS
<1> USE ProcsAssumption DEF HistoryTypes, TypeOK, Window, Procs, At, Goto, rowVars, linkVars,
       procVars, historyVars
<1>1. ASSUME NEW h \in Handlers, NEW a \in Addresses, Ban(h, a) PROVE HistoryTypes'
  BY <1>1 DEF Ban
<1>2. ASSUME NEW h \in Handlers, NEW a \in Addresses, Unban(h, a) PROVE HistoryTypes'
  BY <1>2 DEF Unban
<1>3. ASSUME NEW h \in Handlers, ChangeOther(h) PROVE HistoryTypes'
  BY <1>3 DEF ChangeOther
<1>4. ASSUME NEW h \in Handlers, CreateTask(h) PROVE HistoryTypes'
  BY <1>4 DEF CreateTask
<1>5. ASSUME NEW h \in Handlers, ClaimOwn(h) PROVE HistoryTypes'
  BY <1>5 DEF ClaimOwn, Leave
<1>6. ASSUME NEW h \in Handlers, Cut(h) PROVE HistoryTypes'
  BY <1>6 DEF Cut, Leave
<1>7. ASSUME NEW t \in Handlers, Retry(t) PROVE HistoryTypes'
  BY <1>7 DEF Retry
<1>8. ASSUME NEW t \in Handlers, Cancel(t) PROVE HistoryTypes'
  BY <1>8 DEF Cancel
<1>9. CASE StartProcessor BY <1>9 DEF StartProcessor
<1>10. CASE ClaimNext BY <1>10 DEF ClaimNext
<1>11. CASE ShowBans BY <1>11 DEF ShowBans
<1>12. ASSUME NEW s \in Syncs, Connect(s) PROVE HistoryTypes'
  BY <1>12 DEF Connect
<1>13. ASSUME NEW s \in Syncs, StartSync(s) PROVE HistoryTypes'
  BY <1>13 DEF StartSync
<1>14. ASSUME NEW x \in Procs, ListBans(x) PROVE HistoryTypes'
  BY <1>14 DEF ListBans
<1>15. ASSUME NEW x \in Procs, Send(x) PROVE HistoryTypes'
  BY <1>15 DEF Send
<1>16. ASSUME NEW x \in Procs, Timeout(x) PROVE HistoryTypes'
  BY <1>16 DEF Timeout
<1>17. ASSUME NEW x \in Procs, Mark(x) PROVE HistoryTypes'
  BY <1>17 DEF Mark, Marks, Leave
<1>18. ASSUME NEW x \in Procs, Finish(x) PROVE HistoryTypes'
  BY <1>18 DEF Finish, Result, Leave
<1>19. CASE Drop BY <1>19 DEF Drop
<1>20. ASSUME NEW r \in {"ok", "refused"}, NEW b \in BOOLEAN, NEW heard \in BOOLEAN,
             r = "ok" => b, ApplyNext(r, b, heard) PROVE HistoryTypes'
  BY <1>20 DEF ApplyNext
<1>21. ASSUME NEW a \in Addresses, Expire(a) PROVE HistoryTypes'
  BY <1>21 DEF Expire
<1>22. CASE UNCHANGED vars BY <1>22 DEF vars
<1>23. ASSUME NEW x \in Procs, ListFails(x) PROVE HistoryTypes'
  BY <1>23 DEF ListFails, Leave
<1> HIDE DEF HistoryTypes
<1> QED
  BY <1>1, <1>2, <1>3, <1>4, <1>5, <1>6, <1>7, <1>8, <1>9, <1>10, <1>11, <1>12, <1>13, <1>14,
     <1>15, <1>16, <1>17, <1>18, <1>19, <1>20, <1>21, <1>22, <1>23, NextCases

-----------------------------------------------------------------------------
\* Who works and who waits.
LEMMA NextWorkers == TypeOK /\ Workers /\ Waited /\ [Next]_vars => Workers'
<1> SUFFICES ASSUME TypeOK, Workers, Waited, [Next]_vars PROVE Workers'
  OBVIOUS
<1> USE ProcsAssumption DEF Workers, Waited, TypeOK, Procs, At, Goto, rowVars, linkVars,
       procVars, historyVars
<1>1. ASSUME NEW h \in Handlers, NEW a \in Addresses, Ban(h, a) PROVE Workers'
  BY <1>1 DEF Ban
<1>2. ASSUME NEW h \in Handlers, NEW a \in Addresses, Unban(h, a) PROVE Workers'
  BY <1>2 DEF Unban
<1>3. ASSUME NEW h \in Handlers, ChangeOther(h) PROVE Workers'
  BY <1>3 DEF ChangeOther
<1>4. ASSUME NEW h \in Handlers, CreateTask(h) PROVE Workers'
  BY <1>4 DEF CreateTask
<1>5. ASSUME NEW h \in Handlers, ClaimOwn(h) PROVE Workers'
  BY <1>5 DEF ClaimOwn, Leave
<1>6. ASSUME NEW h \in Handlers, Cut(h) PROVE Workers'
  BY <1>6 DEF Cut, Leave
<1>7. ASSUME NEW t \in Handlers, Retry(t) PROVE Workers'
  BY <1>7 DEF Retry
<1>8. ASSUME NEW t \in Handlers, Cancel(t) PROVE Workers'
  BY <1>8 DEF Cancel
<1>9. CASE StartProcessor BY <1>9 DEF StartProcessor
<1>10. CASE ClaimNext BY <1>10 DEF ClaimNext
<1>11. CASE ShowBans BY <1>11 DEF ShowBans
<1>12. ASSUME NEW s \in Syncs, Connect(s) PROVE Workers'
  BY <1>12 DEF Connect
<1>13. ASSUME NEW s \in Syncs, StartSync(s) PROVE Workers'
  BY <1>13 DEF StartSync
<1>14. ASSUME NEW x \in Procs, ListBans(x) PROVE Workers'
  <2>1. /\ pc' = [pc EXCEPT ![x] = "send"] /\ pc[x] = "list"
        /\ UNCHANGED <<task, works, answer, newest>>
    BY <1>14 DEF ListBans
  <2> QED BY <2>1
<1>15. ASSUME NEW x \in Procs, Send(x) PROVE Workers'
  BY <1>15, SendInbox DEF Send
<1>16. ASSUME NEW x \in Procs, Timeout(x) PROVE Workers'
  BY <1>16, TimeoutInbox DEF Timeout
<1>17. ASSUME NEW x \in Procs, Mark(x) PROVE Workers'
  <2>1. pc[x] = "wait" /\ answer[x] # None /\ UNCHANGED <<task, newest>> BY <1>17 DEF Mark
  <2>2. CASE works[x] = None
    <3>1. PICK to \in {"done", "idle", "next"} :
              pc' = [pc EXCEPT ![x] = to] /\ (to = "idle" => x \notin Handlers)
      BY <1>17, <2>2 DEF Mark, Leave
    <3>2. answer' = [answer EXCEPT ![x] = None] /\ works' = [works EXCEPT ![x] = None]
      BY <1>17, <2>2 DEF Mark, Leave
    <3> QED BY <2>1, <3>1, <3>2
  <2>3. CASE works[x] # None
    <3>1. pc' = [pc EXCEPT ![x] = "finish"] /\ UNCHANGED <<works, answer>> BY <1>17, <2>3 DEF Mark
    <3> QED BY <2>1, <2>3, <3>1
  <2> QED BY <2>2, <2>3
<1>18. ASSUME NEW x \in Procs, Finish(x) PROVE Workers'
  BY <1>18 DEF Finish, Result, Leave
<1>19. CASE Drop BY <1>19, DropInbox DEF Drop
<1>20. ASSUME NEW r \in {"ok", "refused"}, NEW b \in BOOLEAN, NEW heard \in BOOLEAN,
             r = "ok" => b, ApplyNext(r, b, heard) PROVE Workers'
  BY <1>20, ApplyInbox DEF ApplyNext
<1>21. ASSUME NEW a \in Addresses, Expire(a) PROVE Workers'
  BY <1>21, ExpireInbox DEF Expire
<1>22. CASE UNCHANGED vars BY <1>22 DEF vars
<1>23. ASSUME NEW x \in Procs, ListFails(x) PROVE Workers'
  BY <1>23 DEF ListFails, Leave
<1> HIDE DEF Workers
<1> QED
  BY <1>1, <1>2, <1>3, <1>4, <1>5, <1>6, <1>7, <1>8, <1>9, <1>10, <1>11, <1>12, <1>13, <1>14,
     <1>15, <1>16, <1>17, <1>18, <1>19, <1>20, <1>21, <1>22, <1>23, NextCases

\* A step of a synchronisation that no list names changes nothing for those named.
LEMMA WaitedKept ==
    ASSUME TypeOK, Waited, NEW z \in Procs, pc[z] # "wait" \/ answer[z] # None, inbox' = inbox,
           \A y \in Procs \ {z} : pc'[y] = pc[y] /\ answer'[y] = answer[y]
    PROVE  Waited'
<1>1. \A i \in 1..Len(inbox) : inbox[i].by \in Procs \cup {None} BY Inbox DEF Entries
<1> QED BY <1>1 DEF Waited

LEMMA NextWaited == TypeOK /\ Workers /\ Waited /\ [Next]_vars => Waited'
<1> SUFFICES ASSUME TypeOK, Workers, Waited, [Next]_vars PROVE Waited'
  OBVIOUS
<1>s. ASSUME NEW x \in Procs, Send(x), online
      PROVE  /\ Len(inbox') \in Nat /\ Len(inbox') > 0
             /\ inbox'[Len(inbox')].by = x /\ inbox'[Len(inbox')].list = list[x]
             /\ \A i \in 1..Len(inbox') :
                    i # Len(inbox') => i \in 1..Len(inbox) /\ inbox'[i] = inbox[i]
  BY <1>s, SendFrom
<1>l. Len(inbox) \in Nat /\ (Drop => Len(inbox') \in Nat)
  BY DropInbox, Inbox, LenProperties
<1>d. ASSUME Drop
      PROVE  \E kept \in [1..Len(inbox') -> 1..Len(inbox)] :
                 /\ \A i, j \in 1..Len(inbox') : i < j => kept[i] < kept[j]
                 /\ \A i \in 1..Len(inbox') : inbox'[i] = inbox[kept[i]]
  BY <1>d, DropInbox
<1> USE ProcsAssumption DEF Workers, Waited, TypeOK, Procs, Entries, At, Goto, rowVars,
       linkVars, procVars, historyVars
<1>1. ASSUME NEW h \in Handlers, NEW a \in Addresses, Ban(h, a) PROVE Waited'
  BY <1>1 DEF Ban
<1>2. ASSUME NEW h \in Handlers, NEW a \in Addresses, Unban(h, a) PROVE Waited'
  BY <1>2 DEF Unban
<1>3. ASSUME NEW h \in Handlers, ChangeOther(h) PROVE Waited'
  BY <1>3 DEF ChangeOther
<1>4. ASSUME NEW h \in Handlers, CreateTask(h) PROVE Waited'
  BY <1>4 DEF CreateTask
<1>5. ASSUME NEW h \in Handlers, ClaimOwn(h) PROVE Waited'
  <2>1. pc[h] = "claim" /\ inbox' = inbox BY <1>5 DEF ClaimOwn
  <2>2. \A y \in Procs \ {h} : pc'[y] = pc[y] /\ answer'[y] = answer[y]
    <3>1. CASE online /\ task[h] = "queued" BY <1>5, <3>1 DEF ClaimOwn
    <3>2. CASE ~(online /\ task[h] = "queued") BY <1>5, <3>2 DEF ClaimOwn, Leave
    <3> QED BY <3>1, <3>2
  <2> QED BY <2>1, <2>2, WaitedKept
<1>6. ASSUME NEW h \in Handlers, Cut(h) PROVE Waited'
  BY <1>6 DEF Cut, Leave
<1>7. ASSUME NEW t \in Handlers, Retry(t) PROVE Waited'
  BY <1>7 DEF Retry
<1>8. ASSUME NEW t \in Handlers, Cancel(t) PROVE Waited'
  BY <1>8 DEF Cancel
<1>9. CASE StartProcessor BY <1>9 DEF StartProcessor
<1>10. CASE ClaimNext
  <2>1. pc[Processor] = "next" /\ inbox' = inbox BY <1>10 DEF ClaimNext
  <2>2. \A y \in Procs \ {Processor} : pc'[y] = pc[y] /\ answer'[y] = answer[y]
    BY <1>10 DEF ClaimNext
  <2> QED BY <2>1, <2>2, WaitedKept
<1>11. CASE ShowBans BY <1>11 DEF ShowBans
<1>12. ASSUME NEW s \in Syncs, Connect(s) PROVE Waited'
  BY <1>12 DEF Connect
<1>13. ASSUME NEW s \in Syncs, StartSync(s) PROVE Waited'
  BY <1>13 DEF StartSync
<1>14. ASSUME NEW x \in Procs, ListBans(x) PROVE Waited'
  BY <1>14 DEF ListBans
<1>15. ASSUME NEW x \in Procs, Send(x) PROVE Waited'
  <2>1. pc[x] = "send" /\ pc' = [pc EXCEPT ![x] = "wait"] BY <1>15 DEF Send
  <2>2. \A i \in 1..Len(inbox) : inbox[i].by # x BY <2>1
  <2>3. CASE online
    <3>1. answer' = answer /\ answer[x] = None BY <1>15, <2>1, <2>3 DEF Send
    <3>2. \A i \in 1..Len(inbox') : i # Len(inbox') => i \in 1..Len(inbox) /\ inbox'[i] = inbox[i]
      BY <1>15, <2>3, <1>s
    <3>3. Len(inbox') \in Nat /\ inbox'[Len(inbox')].by = x BY <1>15, <2>3, <1>s
    <3> QED BY <2>1, <2>2, <3>1, <3>2, <3>3
  <2>4. CASE ~online
    <3>1. inbox' = inbox /\ answer' = [answer EXCEPT ![x] = "error"] BY <1>15, <2>4 DEF Send
    <3> QED BY <2>1, <3>1, WaitedKept
  <2> QED BY <2>3, <2>4
<1>16. ASSUME NEW x \in Procs, Timeout(x) PROVE Waited'
  BY <1>16, TimeoutInbox DEF Timeout
<1>17. ASSUME NEW x \in Procs, Mark(x) PROVE Waited'
  <2>1. answer[x] # None /\ inbox' = inbox BY <1>17 DEF Mark
  <2>2. \A y \in Procs \ {x} : pc'[y] = pc[y] /\ answer'[y] = answer[y]
    <3>1. CASE works[x] = None BY <1>17, <3>1 DEF Mark, Leave
    <3>2. CASE works[x] # None BY <1>17, <3>2 DEF Mark
    <3> QED BY <3>1, <3>2
  <2> QED BY <2>1, <2>2, WaitedKept
<1>18. ASSUME NEW x \in Procs, Finish(x) PROVE Waited'
  BY <1>18 DEF Finish, Result, Leave
<1>19. CASE Drop
  <2>1. PICK kept \in [1..Len(inbox') -> 1..Len(inbox)] :
            /\ \A i, j \in 1..Len(inbox') : i < j => kept[i] < kept[j]
            /\ \A i \in 1..Len(inbox') : inbox'[i] = inbox[kept[i]]
    BY <1>19, <1>d
  <2>2. UNCHANGED <<pc, answer>> BY <1>19 DEF Drop
  <2> SUFFICES ASSUME NEW i \in 1..Len(inbox'), inbox'[i].by # None
      PROVE  /\ pc[inbox'[i].by] = "wait" /\ answer[inbox'[i].by] = None
             /\ \A j \in 1..Len(inbox') : inbox'[j].by = inbox'[i].by => j = i
    BY <2>2
  <2>3. inbox'[i] = inbox[kept[i]] /\ kept[i] \in 1..Len(inbox) BY <2>1
  <2>4. ASSUME NEW j \in 1..Len(inbox'), inbox'[j].by = inbox'[i].by PROVE j = i
    <3>1. inbox'[j] = inbox[kept[j]] /\ kept[j] \in 1..Len(inbox) BY <2>1
    <3>2. kept[j] = kept[i] BY <2>3, <2>4, <3>1
    <3>3. ~(i < j) /\ ~(j < i) BY <2>1, <3>2
    <3> QED BY <3>3, <1>l, <1>19
  <2> QED BY <2>3, <2>4
<1>20. ASSUME NEW r \in {"ok", "refused"}, NEW b \in BOOLEAN, NEW heard \in BOOLEAN,
             r = "ok" => b, ApplyNext(r, b, heard) PROVE Waited'
  BY <1>20, ApplyInbox DEF ApplyNext
<1>21. ASSUME NEW a \in Addresses, Expire(a) PROVE Waited'
  BY <1>21, ExpireInbox DEF Expire
<1>22. CASE UNCHANGED vars BY <1>22 DEF vars
<1>23. ASSUME NEW x \in Procs, ListFails(x) PROVE Waited'
  <2>1. pc[x] # "wait" /\ inbox' = inbox BY <1>23 DEF ListFails
  <2>2. \A y \in Procs \ {x} : pc'[y] = pc[y] /\ answer'[y] = answer[y]
    BY <1>23 DEF ListFails, Leave
  <2> QED BY <2>1, <2>2, WaitedKept
<1> HIDE DEF Waited
<1> QED
  BY <1>1, <1>2, <1>3, <1>4, <1>5, <1>6, <1>7, <1>8, <1>9, <1>10, <1>11, <1>12, <1>13, <1>14,
     <1>15, <1>16, <1>17, <1>18, <1>19, <1>20, <1>21, <1>22, <1>23, NextCases

LEMMA NextOverlap == TypeOK /\ Workers /\ Overlap /\ [Next]_vars => Overlap'
<1> SUFFICES ASSUME TypeOK, Workers, Overlap, [Next]_vars PROVE Overlap'
  OBVIOUS
<1> USE ProcsAssumption DEF Workers, Overlap, Window, TypeOK, Procs, At, Goto, rowVars,
       linkVars, procVars, historyVars
<1>1. ASSUME NEW h \in Handlers, NEW a \in Addresses, Ban(h, a) PROVE Overlap'
  BY <1>1 DEF Ban
<1>2. ASSUME NEW h \in Handlers, NEW a \in Addresses, Unban(h, a) PROVE Overlap'
  BY <1>2 DEF Unban
<1>3. ASSUME NEW h \in Handlers, ChangeOther(h) PROVE Overlap'
  BY <1>3 DEF ChangeOther
<1>4. ASSUME NEW h \in Handlers, CreateTask(h) PROVE Overlap'
  BY <1>4 DEF CreateTask
<1>5. ASSUME NEW h \in Handlers, ClaimOwn(h) PROVE Overlap'
  BY <1>5 DEF ClaimOwn, Leave
<1>6. ASSUME NEW h \in Handlers, Cut(h) PROVE Overlap'
  BY <1>6 DEF Cut, Leave
<1>7. ASSUME NEW t \in Handlers, Retry(t) PROVE Overlap'
  BY <1>7 DEF Retry
<1>8. ASSUME NEW t \in Handlers, Cancel(t) PROVE Overlap'
  BY <1>8 DEF Cancel
<1>9. CASE StartProcessor BY <1>9 DEF StartProcessor
<1>10. CASE ClaimNext BY <1>10 DEF ClaimNext
<1>11. CASE ShowBans BY <1>11 DEF ShowBans
<1>12. ASSUME NEW s \in Syncs, Connect(s) PROVE Overlap'
  BY <1>12 DEF Connect
<1>13. ASSUME NEW s \in Syncs, StartSync(s) PROVE Overlap'
  BY <1>13 DEF StartSync
<1>14. ASSUME NEW x \in Procs, ListBans(x) PROVE Overlap'
  <2>1. Window' = Window \cup {x} BY <1>14 DEF ListBans
  <2>2. CASE Window = {} BY <1>14, <2>1, <2>2 DEF ListBans
  <2>3. CASE Window # {}
    <3>1. alone' = None /\ mixed' BY <1>14, <2>3 DEF ListBans
    <3> QED BY <3>1
  <2> QED BY <2>2, <2>3
<1>15. ASSUME NEW x \in Procs, Send(x) PROVE Overlap'
  BY <1>15 DEF Send
<1>16. ASSUME NEW x \in Procs, Timeout(x) PROVE Overlap'
  BY <1>16 DEF Timeout
<1>17. ASSUME NEW x \in Procs, Mark(x) PROVE Overlap'
  BY <1>17 DEF Mark, Marks, Leave
<1>18. ASSUME NEW x \in Procs, Finish(x) PROVE Overlap'
  BY <1>18 DEF Finish, Result, Leave
<1>19. CASE Drop BY <1>19 DEF Drop
<1>20. ASSUME NEW r \in {"ok", "refused"}, NEW b \in BOOLEAN, NEW heard \in BOOLEAN,
             r = "ok" => b, ApplyNext(r, b, heard) PROVE Overlap'
  BY <1>20 DEF ApplyNext
<1>21. ASSUME NEW a \in Addresses, Expire(a) PROVE Overlap'
  BY <1>21 DEF Expire
<1>22. CASE UNCHANGED vars BY <1>22 DEF vars
<1>23. ASSUME NEW x \in Procs, ListFails(x) PROVE Overlap'
  BY <1>23 DEF ListFails, Leave
<1> HIDE DEF Overlap
<1> QED
  BY <1>1, <1>2, <1>3, <1>4, <1>5, <1>6, <1>7, <1>8, <1>9, <1>10, <1>11, <1>12, <1>13, <1>14,
     <1>15, <1>16, <1>17, <1>18, <1>19, <1>20, <1>21, <1>22, <1>23, NextCases

\* Commands are applied in the order they were sent, so nothing follows the list of alone.
LEMMA NextLastIn == TypeOK /\ Workers /\ Waited /\ Overlap /\ LastIn /\ [Next]_vars => LastIn'
<1> SUFFICES ASSUME TypeOK, Workers, Waited, Overlap, LastIn, [Next]_vars PROVE LastIn'
  OBVIOUS
<1>s. ASSUME NEW x \in Procs, Send(x), online
      PROVE  /\ Len(inbox') \in Nat /\ Len(inbox') > 0
             /\ inbox'[Len(inbox')].by = x /\ inbox'[Len(inbox')].list = list[x]
             /\ \A i \in 1..Len(inbox') :
                    i # Len(inbox') => i \in 1..Len(inbox) /\ inbox'[i] = inbox[i]
  BY <1>s, SendFrom
<1>l. Len(inbox) \in Nat /\ (Drop => Len(inbox') \in Nat)
  BY DropInbox, Inbox, LenProperties
<1>d. ASSUME Drop
      PROVE  \E kept \in [1..Len(inbox') -> 1..Len(inbox)] :
                 /\ \A i, j \in 1..Len(inbox') : i < j => kept[i] < kept[j]
                 /\ \A i \in 1..Len(inbox') : inbox'[i] = inbox[kept[i]]
  BY <1>d, DropInbox
<1> USE ProcsAssumption DEF Workers, Waited, Overlap, LastIn, Window, TypeOK, Procs, Entries,
       At, Goto, rowVars, linkVars, procVars, historyVars
<1>1. ASSUME NEW h \in Handlers, NEW a \in Addresses, Ban(h, a) PROVE LastIn'
  BY <1>1 DEF Ban
<1>2. ASSUME NEW h \in Handlers, NEW a \in Addresses, Unban(h, a) PROVE LastIn'
  BY <1>2 DEF Unban
<1>3. ASSUME NEW h \in Handlers, ChangeOther(h) PROVE LastIn'
  BY <1>3 DEF ChangeOther
<1>4. ASSUME NEW h \in Handlers, CreateTask(h) PROVE LastIn'
  BY <1>4 DEF CreateTask
<1>5. ASSUME NEW h \in Handlers, ClaimOwn(h) PROVE LastIn'
  BY <1>5 DEF ClaimOwn, Leave
<1>6. ASSUME NEW h \in Handlers, Cut(h) PROVE LastIn'
  BY <1>6 DEF Cut, Leave
<1>7. ASSUME NEW t \in Handlers, Retry(t) PROVE LastIn'
  BY <1>7 DEF Retry
<1>8. ASSUME NEW t \in Handlers, Cancel(t) PROVE LastIn'
  BY <1>8 DEF Cancel
<1>9. CASE StartProcessor BY <1>9 DEF StartProcessor
<1>10. CASE ClaimNext BY <1>10 DEF ClaimNext
<1>11. CASE ShowBans BY <1>11 DEF ShowBans
<1>12. ASSUME NEW s \in Syncs, Connect(s) PROVE LastIn'
  BY <1>12 DEF Connect
<1>13. ASSUME NEW s \in Syncs, StartSync(s) PROVE LastIn'
  BY <1>13 DEF StartSync
<1>14. ASSUME NEW x \in Procs, ListBans(x) PROVE LastIn'
  BY <1>14 DEF ListBans
<1>15. ASSUME NEW x \in Procs, Send(x) PROVE LastIn'
  <2>1. pc[x] = "send" /\ alone' = alone BY <1>15 DEF Send
  <2>2. alone # None => alone = x BY <2>1
  <2>3. \A i \in 1..Len(inbox) : inbox[i].by # x BY <2>1
  <2>4. CASE online
    <3>1. answer' = answer /\ answer[x] = None BY <1>15, <2>1, <2>4 DEF Send
    <3>2. \A i \in 1..Len(inbox') : i # Len(inbox') => i \in 1..Len(inbox) /\ inbox'[i] = inbox[i]
      BY <1>15, <2>4, <1>s
    <3> QED BY <2>1, <2>2, <2>3, <3>1, <3>2
  <2>5. CASE ~online
    <3>1. inbox' = inbox /\ answer' = [answer EXCEPT ![x] = "error"] BY <1>15, <2>5 DEF Send
    <3> QED BY <2>1, <2>2, <2>3, <3>1
  <2> QED BY <2>4, <2>5
<1>16. ASSUME NEW x \in Procs, Timeout(x) PROVE LastIn'
  BY <1>16, TimeoutInbox DEF Timeout
<1>17. ASSUME NEW x \in Procs, Mark(x) PROVE LastIn'
  BY <1>17 DEF Mark, Marks, Leave
<1>18. ASSUME NEW x \in Procs, Finish(x) PROVE LastIn'
  BY <1>18 DEF Finish, Result, Leave
<1>19. CASE Drop
  <2>1. PICK kept \in [1..Len(inbox') -> 1..Len(inbox)] :
            /\ \A i, j \in 1..Len(inbox') : i < j => kept[i] < kept[j]
            /\ \A i \in 1..Len(inbox') : inbox'[i] = inbox[kept[i]]
    BY <1>19, <1>d
  <2>2. UNCHANGED <<alone, answer>> /\ Len(inbox') \in Nat /\ Len(inbox) \in Nat
    BY <1>19, DropInbox, Inbox, LenProperties DEF Drop
  <2>3. ASSUME alone # None, NEW i \in 1..Len(inbox'), inbox'[i].by = alone PROVE i = Len(inbox')
    <3>1. kept[i] = Len(inbox) BY <2>1, <2>3
    <3>2. SUFFICES ASSUME i < Len(inbox') PROVE FALSE BY <2>2
    <3>3. kept[i] < kept[Len(inbox')] /\ kept[Len(inbox')] \in 1..Len(inbox) BY <2>1, <2>2, <3>2
    <3> QED BY <2>2, <3>1, <3>3
  <2>4. Len(inbox) = 0 => Len(inbox') = 0 BY <2>1, <2>2
  <2> QED BY <2>2, <2>3, <2>4
<1>20. ASSUME NEW r \in {"ok", "refused"}, NEW b \in BOOLEAN, NEW heard \in BOOLEAN,
             r = "ok" => b, ApplyNext(r, b, heard) PROVE LastIn'
  <2> SUFFICES ASSUME alone # None PROVE LastIn' BY <1>20 DEF ApplyNext
  <2>1. /\ Len(inbox) \in Nat /\ Len(inbox) > 0 /\ Len(inbox') = Len(inbox) - 1
        /\ \A i \in 1..Len(inbox') : inbox'[i] = inbox[i + 1]
        /\ Head(inbox) = inbox[1]
    BY <1>20, ApplyInbox, Inbox
  <2>2. alone' = alone BY <1>20 DEF ApplyNext
  <2>3. \A i \in 1..Len(inbox') : inbox'[i].by = alone => i = Len(inbox')
    <3> SUFFICES ASSUME NEW i \in 1..Len(inbox'), inbox'[i].by = alone PROVE i = Len(inbox')
      OBVIOUS
    <3>1. inbox'[i] = inbox[i + 1] /\ i + 1 \in 1..Len(inbox) BY <2>1
    <3>2. i + 1 = Len(inbox) BY <3>1
    <3> QED BY <2>1, <3>2
  <2>4. CASE inbox[1].by = alone
    <3>1. Len(inbox') = 0 BY <2>1, <2>4
    <3> QED BY <2>2, <3>1
  <2>5. CASE inbox[1].by # alone
    <3>1. answer'[alone] = answer[alone] BY <1>20, <2>1, <2>5 DEF ApplyNext
    <3> QED BY <2>1, <2>2, <2>3, <3>1
  <2> QED BY <2>4, <2>5
<1>21. ASSUME NEW a \in Addresses, Expire(a) PROVE LastIn'
  BY <1>21, ExpireInbox DEF Expire
<1>22. CASE UNCHANGED vars BY <1>22 DEF vars
<1>23. ASSUME NEW x \in Procs, ListFails(x) PROVE LastIn'
  BY <1>23 DEF ListFails, Leave
<1> HIDE DEF LastIn
<1> QED
  BY <1>1, <1>2, <1>3, <1>4, <1>5, <1>6, <1>7, <1>8, <1>9, <1>10, <1>11, <1>12, <1>13, <1>14,
     <1>15, <1>16, <1>17, <1>18, <1>19, <1>20, <1>21, <1>22, <1>23, NextCases

-----------------------------------------------------------------------------
\* What the rows, the lists and the set have to do with each other.
LEMMA NextAloneExact ==
    TypeOK /\ Workers /\ Waited /\ Overlap /\ LastIn /\ AloneExact /\ [Next]_vars =>
        AloneExact'
<1> SUFFICES ASSUME TypeOK, Workers, Waited, Overlap, LastIn, AloneExact, [Next]_vars
             PROVE AloneExact'
  OBVIOUS
<1>s. ASSUME NEW x \in Procs, Send(x), online
      PROVE  /\ Len(inbox') \in Nat /\ Len(inbox') > 0
             /\ inbox'[Len(inbox')].by = x /\ inbox'[Len(inbox')].list = list[x]
             /\ \A i \in 1..Len(inbox') :
                    i # Len(inbox') => i \in 1..Len(inbox) /\ inbox'[i] = inbox[i]
  BY <1>s, SendFrom
<1>d. ASSUME Drop
      PROVE  /\ \A i \in 1..Len(inbox') : \E j \in 1..Len(inbox) : inbox'[i] = inbox[j]
             /\ UNCHANGED <<rowVars, task, blocked, procVars, historyVars>>
  BY <1>d, DropInbox DEF Drop
<1> USE ProcsAssumption DEF AloneExact, Unread, Banned, Rows, Workers, Waited, Overlap, LastIn,
       Window, TypeOK, Procs, Entries, At, Goto, rowVars, linkVars, procVars, historyVars
<1>1. ASSUME NEW h \in Handlers, NEW a \in Addresses, Ban(h, a) PROVE AloneExact'
  BY <1>1 DEF Ban
<1>2. ASSUME NEW h \in Handlers, NEW a \in Addresses, Unban(h, a) PROVE AloneExact'
  BY <1>2 DEF Unban
<1>3. ASSUME NEW h \in Handlers, ChangeOther(h) PROVE AloneExact'
  BY <1>3 DEF ChangeOther
<1>4. ASSUME NEW h \in Handlers, CreateTask(h) PROVE AloneExact'
  BY <1>4 DEF CreateTask
<1>5. ASSUME NEW h \in Handlers, ClaimOwn(h) PROVE AloneExact'
  BY <1>5 DEF ClaimOwn, Leave
<1>6. ASSUME NEW h \in Handlers, Cut(h) PROVE AloneExact'
  BY <1>6 DEF Cut, Leave
<1>7. ASSUME NEW t \in Handlers, Retry(t) PROVE AloneExact'
  BY <1>7 DEF Retry
<1>8. ASSUME NEW t \in Handlers, Cancel(t) PROVE AloneExact'
  BY <1>8 DEF Cancel
<1>9. CASE StartProcessor BY <1>9 DEF StartProcessor
<1>10. CASE ClaimNext BY <1>10 DEF ClaimNext
<1>11. CASE ShowBans BY <1>11 DEF ShowBans
<1>12. ASSUME NEW s \in Syncs, Connect(s) PROVE AloneExact'
  BY <1>12 DEF Connect
<1>13. ASSUME NEW s \in Syncs, StartSync(s) PROVE AloneExact'
  BY <1>13 DEF StartSync
<1>14. ASSUME NEW x \in Procs, ListBans(x) PROVE AloneExact'
  BY <1>14 DEF ListBans
<1>15. ASSUME NEW x \in Procs, Send(x) PROVE AloneExact'
  <2> SUFFICES ASSUME alone # None, ~Unread' PROVE AloneExact' BY <1>15 DEF Send
  <2>1. /\ pc[x] = "send" /\ pc' = [pc EXCEPT ![x] = "wait"]
        /\ UNCHANGED <<alone, row, due, blocked, task, works, newest>>
    BY <1>15 DEF Send
  <2>2. alone = x /\ ~Unread /\ Banned' = Banned BY <2>1
  <2>3. \A i \in 1..Len(inbox) : inbox[i].by # x BY <2>1
  <2>4. list[x] = Banned BY <2>1, <2>2
  <2>5. CASE online
    <3>1. answer' = answer /\ answer[x] = None BY <1>15, <2>1, <2>5 DEF Send
    <3>2. \A i \in 1..Len(inbox') : i # Len(inbox') => i \in 1..Len(inbox) /\ inbox'[i] = inbox[i]
      BY <1>15, <2>5, <1>s
    <3>3. \A i \in 1..Len(inbox') : i = Len(inbox') => inbox'[i].list = list[x]
      BY <1>15, <2>5, <1>s
    <3> QED BY <2>1, <2>2, <2>3, <2>4, <3>1, <3>2, <3>3
  <2>6. CASE ~online
    <3>1. inbox' = inbox /\ answer' = [answer EXCEPT ![x] = "error"] BY <1>15, <2>6 DEF Send
    <3> QED BY <2>1, <2>2, <2>3, <3>1
  <2> QED BY <2>5, <2>6
<1>16. ASSUME NEW x \in Procs, Timeout(x) PROVE AloneExact'
  BY <1>16, TimeoutInbox DEF Timeout
<1>17. ASSUME NEW x \in Procs, Mark(x) PROVE AloneExact'
  BY <1>17 DEF Mark, Marks, Leave
<1>18. ASSUME NEW x \in Procs, Finish(x) PROVE AloneExact'
  BY <1>18 DEF Finish, Result, Leave
<1>19. CASE Drop
  <2>1. \A i \in 1..Len(inbox') : \E j \in 1..Len(inbox) : inbox'[i] = inbox[j]
    BY <1>19, <1>d
  <2>2. UNCHANGED <<rowVars, task, blocked, procVars, historyVars>> BY <1>19, <1>d
  <2> QED BY <2>1, <2>2
<1>20. ASSUME NEW r \in {"ok", "refused"}, NEW b \in BOOLEAN, NEW heard \in BOOLEAN,
             r = "ok" => b, ApplyNext(r, b, heard) PROVE AloneExact'
  BY <1>20, ApplyInbox DEF ApplyNext
<1>21. ASSUME NEW a \in Addresses, Expire(a) PROVE AloneExact'
  BY <1>21, ExpireInbox DEF Expire
<1>22. CASE UNCHANGED vars BY <1>22 DEF vars
<1>23. ASSUME NEW x \in Procs, ListFails(x) PROVE AloneExact'
  BY <1>23 DEF ListFails, Leave
<1> HIDE DEF AloneExact
<1> QED
  BY <1>1, <1>2, <1>3, <1>4, <1>5, <1>6, <1>7, <1>8, <1>9, <1>10, <1>11, <1>12, <1>13, <1>14,
     <1>15, <1>16, <1>17, <1>18, <1>19, <1>20, <1>21, <1>22, <1>23, NextCases

LEMMA NextMarksTrue ==
    TypeOK /\ Workers /\ Waited /\ Overlap /\ LastIn /\ AloneExact /\ MarksTrue /\ [Next]_vars =>
        MarksTrue'
<1> SUFFICES ASSUME TypeOK, Workers, Waited, Overlap, LastIn, AloneExact, MarksTrue, [Next]_vars
             PROVE MarksTrue'
  OBVIOUS
<1>d. ASSUME Drop
      PROVE  /\ \A i \in 1..Len(inbox') : \E j \in 1..Len(inbox) : inbox'[i] = inbox[j]
             /\ UNCHANGED <<rowVars, task, blocked, procVars, historyVars>>
  BY <1>d, DropInbox DEF Drop
<1> USE ProcsAssumption DEF AloneExact, MarksTrue, Applied, Unread, Banned, Rows, Workers,
       Waited, Overlap, LastIn, Window, TypeOK, Procs, Entries, At, Goto, rowVars, linkVars,
       procVars, historyVars
<1>1. ASSUME NEW h \in Handlers, NEW a \in Addresses, Ban(h, a) PROVE MarksTrue'
  BY <1>1 DEF Ban
<1>2. ASSUME NEW h \in Handlers, NEW a \in Addresses, Unban(h, a) PROVE MarksTrue'
  BY <1>2 DEF Unban
<1>3. ASSUME NEW h \in Handlers, ChangeOther(h) PROVE MarksTrue'
  BY <1>3 DEF ChangeOther
<1>4. ASSUME NEW h \in Handlers, CreateTask(h) PROVE MarksTrue'
  BY <1>4 DEF CreateTask
<1>5. ASSUME NEW h \in Handlers, ClaimOwn(h) PROVE MarksTrue'
  BY <1>5 DEF ClaimOwn, Leave
<1>6. ASSUME NEW h \in Handlers, Cut(h) PROVE MarksTrue'
  BY <1>6 DEF Cut, Leave
<1>7. ASSUME NEW t \in Handlers, Retry(t) PROVE MarksTrue'
  BY <1>7 DEF Retry
<1>8. ASSUME NEW t \in Handlers, Cancel(t) PROVE MarksTrue'
  BY <1>8 DEF Cancel
<1>9. CASE StartProcessor BY <1>9 DEF StartProcessor
<1>10. CASE ClaimNext BY <1>10 DEF ClaimNext
<1>11. CASE ShowBans BY <1>11 DEF ShowBans
<1>12. ASSUME NEW s \in Syncs, Connect(s) PROVE MarksTrue'
  BY <1>12 DEF Connect
<1>13. ASSUME NEW s \in Syncs, StartSync(s) PROVE MarksTrue'
  BY <1>13 DEF StartSync
<1>14. ASSUME NEW x \in Procs, ListBans(x) PROVE MarksTrue'
  BY <1>14 DEF ListBans
<1>15. ASSUME NEW x \in Procs, Send(x) PROVE MarksTrue'
  BY <1>15, SendInbox DEF Send
<1>16. ASSUME NEW x \in Procs, Timeout(x) PROVE MarksTrue'
  BY <1>16, TimeoutInbox DEF Timeout
<1>17. ASSUME NEW x \in Procs, Mark(x) PROVE MarksTrue'
  BY <1>17 DEF Mark, Marks, Leave
<1>18. ASSUME NEW x \in Procs, Finish(x) PROVE MarksTrue'
  BY <1>18 DEF Finish, Result, Leave
<1>19. CASE Drop
  <2>1. \A i \in 1..Len(inbox') : \E j \in 1..Len(inbox) : inbox'[i] = inbox[j]
    BY <1>19, <1>d
  <2>2. UNCHANGED <<rowVars, task, blocked, procVars, historyVars>> BY <1>19, <1>d
  <2> QED BY <2>1, <2>2
<1>20. ASSUME NEW r \in {"ok", "refused"}, NEW b \in BOOLEAN, NEW heard \in BOOLEAN,
             r = "ok" => b, ApplyNext(r, b, heard) PROVE MarksTrue'
  BY <1>20, ApplyInbox DEF ApplyNext
<1>21. ASSUME NEW a \in Addresses, Expire(a) PROVE MarksTrue'
  BY <1>21, ExpireInbox DEF Expire
<1>22. CASE UNCHANGED vars BY <1>22 DEF vars
<1>23. ASSUME NEW x \in Procs, ListFails(x) PROVE MarksTrue'
  BY <1>23 DEF ListFails, Leave
<1> HIDE DEF MarksTrue
<1> QED
  BY <1>1, <1>2, <1>3, <1>4, <1>5, <1>6, <1>7, <1>8, <1>9, <1>10, <1>11, <1>12, <1>13, <1>14,
     <1>15, <1>16, <1>17, <1>18, <1>19, <1>20, <1>21, <1>22, <1>23, NextCases

LEMMA NextDoneExact ==
    TypeOK /\ Workers /\ Waited /\ Overlap /\ LastIn /\ AloneExact /\ DoneExact /\ [Next]_vars =>
        DoneExact'
<1> SUFFICES ASSUME TypeOK, Workers, Waited, Overlap, LastIn, AloneExact, DoneExact, [Next]_vars
             PROVE DoneExact'
  OBVIOUS
<1>d. ASSUME Drop
      PROVE  /\ \A i \in 1..Len(inbox') : \E j \in 1..Len(inbox) : inbox'[i] = inbox[j]
             /\ UNCHANGED <<rowVars, task, blocked, procVars, historyVars>>
  BY <1>d, DropInbox DEF Drop
<1> USE ProcsAssumption DEF AloneExact, DoneExact, Done, Unread, Banned, Rows, Workers, Waited,
       Overlap, LastIn, Window, TypeOK, Procs, Entries, At, Goto, rowVars, linkVars, procVars,
       historyVars
<1>1. ASSUME NEW h \in Handlers, NEW a \in Addresses, Ban(h, a) PROVE DoneExact'
  BY <1>1 DEF Ban
<1>2. ASSUME NEW h \in Handlers, NEW a \in Addresses, Unban(h, a) PROVE DoneExact'
  BY <1>2 DEF Unban
<1>3. ASSUME NEW h \in Handlers, ChangeOther(h) PROVE DoneExact'
  BY <1>3 DEF ChangeOther
<1>4. ASSUME NEW h \in Handlers, CreateTask(h) PROVE DoneExact'
  BY <1>4 DEF CreateTask
<1>5. ASSUME NEW h \in Handlers, ClaimOwn(h) PROVE DoneExact'
  BY <1>5 DEF ClaimOwn, Leave
<1>6. ASSUME NEW h \in Handlers, Cut(h) PROVE DoneExact'
  BY <1>6 DEF Cut, Leave
<1>7. ASSUME NEW t \in Handlers, Retry(t) PROVE DoneExact'
  BY <1>7 DEF Retry
<1>8. ASSUME NEW t \in Handlers, Cancel(t) PROVE DoneExact'
  BY <1>8 DEF Cancel
<1>9. CASE StartProcessor BY <1>9 DEF StartProcessor
<1>10. CASE ClaimNext BY <1>10 DEF ClaimNext
<1>11. CASE ShowBans BY <1>11 DEF ShowBans
<1>12. ASSUME NEW s \in Syncs, Connect(s) PROVE DoneExact'
  BY <1>12 DEF Connect
<1>13. ASSUME NEW s \in Syncs, StartSync(s) PROVE DoneExact'
  BY <1>13 DEF StartSync
<1>14. ASSUME NEW x \in Procs, ListBans(x) PROVE DoneExact'
  BY <1>14 DEF ListBans
<1>15. ASSUME NEW x \in Procs, Send(x) PROVE DoneExact'
  BY <1>15, SendInbox DEF Send
<1>16. ASSUME NEW x \in Procs, Timeout(x) PROVE DoneExact'
  BY <1>16, TimeoutInbox DEF Timeout
<1>17. ASSUME NEW x \in Procs, Mark(x) PROVE DoneExact'
  BY <1>17 DEF Mark, Marks, Leave
<1>18. ASSUME NEW x \in Procs, Finish(x) PROVE DoneExact'
  BY <1>18 DEF Finish, Result, Leave
<1>19. CASE Drop
  <2>1. \A i \in 1..Len(inbox') : \E j \in 1..Len(inbox) : inbox'[i] = inbox[j] BY <1>19, <1>d
  <2>2. UNCHANGED <<rowVars, task, blocked, procVars, historyVars>> BY <1>19, <1>d
  <2>3. mixed \/ Unread \/ ~Done \/ \A i \in 1..Len(inbox') : inbox'[i].list = Banned BY <2>1
  <2>4. (Unread' <=> Unread) /\ (Done' <=> Done) /\ Banned' = Banned BY <2>2
  <2> QED BY <2>2, <2>3, <2>4
<1>20. ASSUME NEW r \in {"ok", "refused"}, NEW b \in BOOLEAN, NEW heard \in BOOLEAN,
             r = "ok" => b, ApplyNext(r, b, heard) PROVE DoneExact'
  BY <1>20, ApplyInbox DEF ApplyNext
<1>21. ASSUME NEW a \in Addresses, Expire(a) PROVE DoneExact'
  BY <1>21, ExpireInbox DEF Expire
<1>22. CASE UNCHANGED vars BY <1>22 DEF vars
<1>23. ASSUME NEW x \in Procs, ListFails(x) PROVE DoneExact'
  BY <1>23 DEF ListFails, Leave
<1> HIDE DEF DoneExact
<1> QED
  BY <1>1, <1>2, <1>3, <1>4, <1>5, <1>6, <1>7, <1>8, <1>9, <1>10, <1>11, <1>12, <1>13, <1>14,
     <1>15, <1>16, <1>17, <1>18, <1>19, <1>20, <1>21, <1>22, <1>23, NextCases

-----------------------------------------------------------------------------
LEMMA InitIInv == Init => IInv
<1> SUFFICES ASSUME Init PROVE IInv
  OBVIOUS
<1> USE ProcsAssumption DEF Init, Procs
<1>1. inbox = <<>> /\ Len(inbox) = 0 /\ inbox \in Seq(Entries) BY EmptySeq
<1>2. TypeOK BY <1>1 DEF TypeOK, Entries, Rows
<1>3. Workers BY DEF Workers
<1>4. Waited /\ LastIn BY <1>1 DEF Waited, LastIn
<1>5. Window = {} BY DEF Window
<1>6. Overlap BY <1>5 DEF Overlap
<1>7. AloneExact BY DEF AloneExact
<1>8. MarksTrue BY <1>1 DEF MarksTrue, Applied, Rows
<1>9. DoneExact BY DEF DoneExact, Done
<1> QED BY <1>2, <1>3, <1>4, <1>6, <1>7, <1>8, <1>9 DEF IInv

LEMMA NextIInv == IInv /\ [Next]_vars => IInv'
<1> SUFFICES ASSUME IInv, [Next]_vars PROVE IInv'
  OBVIOUS
<1>1. /\ TypeOK /\ Workers /\ Waited /\ Overlap /\ LastIn
      /\ AloneExact /\ MarksTrue /\ DoneExact
  BY DEF IInv
<1>2. TypeOK'
  <2>1. /\ RowTypes' /\ TaskTypes' /\ ProcTypes' /\ InboxTypes' /\ FlagTypes'
        /\ HistoryTypes'
    BY <1>1, NextRowTypes, NextTaskTypes, NextProcTypes, NextInboxTypes, NextFlagTypes,
       NextHistoryTypes
  <2> QED
    BY <2>1 DEF TypeOK, RowTypes, TaskTypes, ProcTypes, InboxTypes, FlagTypes, HistoryTypes,
       Entries
<1>3. Workers' /\ Waited' /\ Overlap' /\ LastIn'
  BY <1>1, NextWorkers, NextWaited, NextOverlap, NextLastIn
<1>4. AloneExact' /\ MarksTrue' /\ DoneExact'
  BY <1>1, NextAloneExact, NextMarksTrue, NextDoneExact
<1> QED BY <1>2, <1>3, <1>4 DEF IInv

LEMMA Invariance == Spec => []IInv
BY InitIInv, NextIInv, PTL DEF Spec

-----------------------------------------------------------------------------
\* The rows, tasks, requests and lists keep their types, and who executes a task has it
\* claimed: ClaimAgentTask's "running" is there until its worker finishes it.
THEOREM BanSyncTypeCorrect == Spec => []TypeOK
<1>1. IInv => TypeOK BY DEF IInv
<1> QED BY Invariance, <1>1, PTL

\* At rest nobody is in the window of a synchronisation and no change is unread.
LEMMA RestRead == TypeOK /\ Workers /\ Quiet => Window = {} /\ ~Unread
BY DEF TypeOK, Workers, Quiet, Window, Unread, Procs

\* A ban shown as applied is in the Agent's set at rest, although SetIPBansApplyState marks
\* rows that the list it answers for did not hold (syncAgentBans).
THEOREM AppliedStaysBlocked == Spec => []AppliedIsBlocked
<1>1. IInv => AppliedIsBlocked
  <2> SUFFICES ASSUME IInv, Quiet, ~mixed,
                      NEW a \in Addresses \ due, row[a] = "applied"
               PROVE  a \in blocked
    BY DEF AppliedIsBlocked
  <2>1. a \in Applied BY DEF Applied
  <2>2. Window = {} /\ ~Unread BY RestRead DEF IInv
  <2> QED BY <2>1, <2>2 DEF IInv, MarksTrue
<1> QED BY Invariance, <1>1, PTL

\* When the newest ban_sync task has succeeded, the Agent blocks exactly the rows: no
\* superseded, retried or unanswered list can still replace its own (CreateAgentTask,
\* executeAgentTask).
THEOREM SucceededStaysExact == Spec => []SucceededIsExact
<1>1. IInv => SucceededIsExact
  <2> SUFFICES ASSUME IInv, Quiet, ~mixed, newest # None, task[newest] = "succeeded"
               PROVE  blocked = Rows \ due
    BY DEF SucceededIsExact
  <2>1. Done BY DEF Done
  <2>2. ~Unread BY RestRead DEF IInv
  <2> QED BY <2>1, <2>2 DEF IInv, DoneExact, Banned
<1> QED BY Invariance, <1>1, PTL
=============================================================================
