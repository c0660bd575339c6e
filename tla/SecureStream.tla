---------------------------- MODULE SecureStream ----------------------------
(***************************************************************************)
(* What the encrypted channel between an Agent and the controller promises *)
(* to its users: inside one session, each end receives the messages of the *)
(* other end in the order they were sent, none twice, none invented, none  *)
(* skipped.  A stream may stop at any point (the network is not reliable), *)
(* so what is received is a prefix of what was sent.                       *)
(***************************************************************************)
EXTENDS Naturals, Sequences

CONSTANTS Sessions,   \* identities of handshakes
          Messages    \* payloads

VARIABLES sent,       \* sent[s][e]: what end e has handed to session s
          accepted    \* accepted[s][e]: what end e has got out of session s

vars == <<sent, accepted>>

Ends == {"agent", "controller"}
Peer(e) == IF e = "agent" THEN "controller" ELSE "agent"

Init == /\ sent = [s \in Sessions |-> [e \in Ends |-> <<>>]]
        /\ accepted = [s \in Sessions |-> [e \in Ends |-> <<>>]]

\* End e sends m in session s.
Send(s, e, m) ==
    /\ sent' = [sent EXCEPT ![s][e] = Append(@, m)]
    /\ UNCHANGED accepted

\* End e receives the oldest message of its peer that it has not yet received.
Receive(s, e) ==
    LET n == Len(accepted[s][e]) + 1
    IN  /\ n <= Len(sent[s][Peer(e)])
        /\ accepted' = [accepted EXCEPT ![s][e] = Append(@, sent[s][Peer(e)][n])]
        /\ UNCHANGED sent

Next == \E s \in Sessions, e \in Ends :
            \/ \E m \in Messages : Send(s, e, m)
            \/ Receive(s, e)

Spec == Init /\ [][Next]_vars
=============================================================================
