--------------------------- MODULE CommandService ---------------------------
(***************************************************************************)
(* What the controller promises the code that commands an Agent            *)
(* (Hub.ApplyPolicy, SyncBans, RotateCredential, UpdateAgent), whatever    *)
(* the transports do underneath.  An Agent process carries a command out   *)
(* at most once.  One that is started after the caller had its answer, or  *)
(* gave up, does not carry it out at all; one started while the caller     *)
(* still waits may, even if the process before it already had.  A success  *)
(* is reported only for a command that took effect, and a command refused  *)
(* because the Agent is offline never takes effect.  A command that timed  *)
(* out, or is reported as failed, may have taken effect or do so later.    *)
(***************************************************************************)
EXTENDS Naturals

CONSTANT Requests

VARIABLES status,    \* the caller's view of each command
          effects,   \* how often the Agent has carried it out
          live       \* the commands the present Agent process may carry out

vars == <<status, effects, live>>

Init == /\ status = [r \in Requests |-> "idle"]
        /\ effects = [r \in Requests |-> 0]
        /\ live = {}

Refuse(r) == /\ status[r] = "idle"
             /\ status' = [status EXCEPT ![r] = "offline"]
             /\ UNCHANGED <<effects, live>>

Accept(r) == /\ status[r] = "idle"
             /\ status' = [status EXCEPT ![r] = "open"]
             /\ live' = live \cup {r}
             /\ UNCHANGED effects

TakeEffect(r) == /\ r \in live
                 /\ effects' = [effects EXCEPT ![r] = @ + 1]
                 /\ live' = live \ {r}
                 /\ UNCHANGED status

Report(r, outcome) ==
    /\ status[r] = "open"
    /\ outcome = "success" => effects[r] > 0
    /\ status' = [status EXCEPT ![r] = outcome]
    /\ UNCHANGED <<effects, live>>

\* Another Agent process takes over.
Restart == /\ live' = {r \in Requests : status[r] = "open"}
           /\ UNCHANGED <<status, effects>>

Next == \/ \E r \in Requests :
               \/ Refuse(r)
               \/ Accept(r)
               \/ TakeEffect(r)
               \/ \E outcome \in {"success", "failure", "timeout"} : Report(r, outcome)
        \/ Restart

Spec == Init /\ [][Next]_vars
=============================================================================
