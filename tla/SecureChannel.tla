---------------------------- MODULE SecureChannel ----------------------------
(***************************************************************************)
(* The application-layer secure channel of internal/protocol/secure.go.    *)
(*                                                                         *)
(* Every handshake derives, at both ends, one SecureSession: two AEAD keys *)
(* (one per direction), a send counter and a receive counter.              *)
(* EncryptMessage numbers and seals an envelope, DecryptMessage opens the  *)
(* one envelope it expects next.  Each runs under its own mutex (sendMu,   *)
(* recvMu) and is therefore one step.                                      *)
(*                                                                         *)
(* Between the ends nothing is assumed of the network: an envelope can be  *)
(* lost (never opened), duplicated, delayed across a reconnect, reordered, *)
(* or have its clear-text sequence number damaged on the way.  AES-GCM is  *)
(* taken as ideal: a ciphertext opens only under the key, nonce and        *)
(* additional data it was sealed with.                                     *)
(***************************************************************************)
EXTENDS Naturals, Sequences

CONSTANTS Sessions,   \* identities of handshakes (fresh ephemeral key pairs)
          Messages,   \* payloads
          MaxSeq      \* largest value of the sequence counter (2^64 - 1)

ASSUME MaxSeqAssumption == MaxSeq \in Nat \ {0}

VARIABLES derived,    \* derived[s][e]: end e holds a SecureSession for handshake s
          sendSeq,    \* SecureSession.sendSeq of each end
          recvSeq,    \* SecureSession.recvSeq of each end
          wire,       \* every envelope ever put on the network
          sent,       \* history: messages sealed by each end, in order
          accepted    \* history: messages opened by each end, in order

channelVars == <<derived, sendSeq, recvSeq, wire, sent, accepted>>

Ends == {"agent", "controller"}
Peer(e) == IF e = "agent" THEN "controller" ELSE "agent"

\* The two directions HKDF expands key material for.
Directions == {"agentToController", "controllerToAgent"}
Keys == Sessions \X Directions

\* An envelope.  "sequence" travels in the clear; "key" and "sealed" are what the
\* ciphertext was sealed with: the key and the sequence bound into nonce and AAD.
Envelopes == [key : Keys, sealed : 0..MaxSeq, sequence : 0..MaxSeq, message : Messages]

-----------------------------------------------------------------------------
\* DeriveSecureSession assigns the expanded keys by role.
SendKey(s, e) ==
    <<s, IF e = "controller" THEN "controllerToAgent" ELSE "agentToController">>
ReceiveKey(s, e) ==
    <<s, IF e = "controller" THEN "agentToController" ELSE "controllerToAgent">>

\* uint64 increment.
Succ(n) == (n + 1) % (MaxSeq + 1)

\* Mutant: the sequence number is bound neither to the nonce nor to the AAD.
OpensAnyNumber(k, env) == env.key = k

\* What secureNonce and secureAAD authenticate: key, prefix and sequence number.
Opens(k, env) == env.key = k /\ env.sealed = env.sequence

ChannelInit ==
    /\ derived = [s \in Sessions |-> [e \in Ends |-> FALSE]]
    /\ sendSeq = [s \in Sessions |-> [e \in Ends |-> 0]]
    /\ recvSeq = [s \in Sessions |-> [e \in Ends |-> 0]]
    /\ wire = {}
    /\ sent = [s \in Sessions |-> [e \in Ends |-> <<>>]]
    /\ accepted = [s \in Sessions |-> [e \in Ends |-> <<>>]]

\* The controller derives when it answers the hello, the Agent when it has
\* verified the acknowledgement; the counters of the new session are zero.
DeriveSecureSession(s, e) ==
    /\ ~derived[s][e]
    /\ e = "agent" => derived[s]["controller"]
    /\ derived' = [derived EXCEPT ![s][e] = TRUE]
    /\ sendSeq' = [sendSeq EXCEPT ![s][e] = 0]
    /\ recvSeq' = [recvSeq EXCEPT ![s][e] = 0]
    /\ UNCHANGED <<wire, sent, accepted>>

\* Mutant: the exhaustion test is missing, the counter wraps.
EncryptWrapping(s, e, m) ==
    /\ derived[s][e]
    /\ LET n == Succ(sendSeq[s][e])
       IN  /\ sendSeq' = [sendSeq EXCEPT ![s][e] = n]
           /\ wire' = wire \cup {[key |-> SendKey(s, e), sealed |-> n, sequence |-> n, message |-> m]}
    /\ sent' = [sent EXCEPT ![s][e] = Append(@, m)]
    /\ Len(sent[s][e]) <= MaxSeq + 1
    /\ UNCHANGED <<derived, recvSeq, accepted>>

\* Mutant: the exhaustion test is off by one and the counter is wider than the nonce field.
EncryptPastLimit(s, e, m) ==
    /\ derived[s][e]
    /\ sendSeq[s][e] <= MaxSeq
    /\ LET n == sendSeq[s][e] + 1
       IN  /\ sendSeq' = [sendSeq EXCEPT ![s][e] = n]
           /\ wire' = wire \cup {[key |-> SendKey(s, e), sealed |-> n, sequence |-> n, message |-> m]}
    /\ sent' = [sent EXCEPT ![s][e] = Append(@, m)]
    /\ UNCHANGED <<derived, recvSeq, accepted>>

\* EncryptMessage: refused once the counter is exhausted.
EncryptMessage(s, e, m) ==
    /\ derived[s][e]
    /\ sendSeq[s][e] # MaxSeq
    /\ LET n == Succ(sendSeq[s][e])
       IN  /\ sendSeq' = [sendSeq EXCEPT ![s][e] = n]
           /\ wire' = wire \cup {[key |-> SendKey(s, e), sealed |-> n, sequence |-> n, message |-> m]}
    /\ sent' = [sent EXCEPT ![s][e] = Append(@, m)]
    /\ UNCHANGED <<derived, recvSeq, accepted>>

\* Mutant: any number not yet passed is opened, so that a lost envelope is skipped.
DecryptSkipping(s, e, env) ==
    /\ derived[s][e]
    /\ env.sequence > recvSeq[s][e]
    /\ Opens(ReceiveKey(s, e), env)
    /\ recvSeq' = [recvSeq EXCEPT ![s][e] = env.sequence]
    /\ accepted' = [accepted EXCEPT ![s][e] = Append(@, env.message)]
    /\ UNCHANGED <<derived, sendSeq, wire, sent>>

\* Mutant: the receive counter moves before the ciphertext has been authenticated.
DecryptMovingFirst(s, e, env) ==
    /\ derived[s][e]
    /\ env.sequence = Succ(recvSeq[s][e])
    /\ recvSeq' = [recvSeq EXCEPT ![s][e] = env.sequence]
    /\ accepted' = IF Opens(ReceiveKey(s, e), env)
                   THEN [accepted EXCEPT ![s][e] = Append(@, env.message)]
                   ELSE accepted
    /\ UNCHANGED <<derived, sendSeq, wire, sent>>

\* DecryptMessage on env: only the next number is looked at, the counter moves
\* only after the ciphertext has been authenticated.
DecryptMessage(s, e, env) ==
    /\ derived[s][e]
    /\ env.sequence = Succ(recvSeq[s][e])
    /\ Opens(ReceiveKey(s, e), env)
    /\ recvSeq' = [recvSeq EXCEPT ![s][e] = env.sequence]
    /\ accepted' = [accepted EXCEPT ![s][e] = Append(@, env.message)]
    /\ UNCHANGED <<derived, sendSeq, wire, sent>>

\* The network hands end e any envelope it ever carried, its number intact or not.
Deliver(s, e) ==
    \E env \in wire, q \in 0..MaxSeq :
        DecryptMessage(s, e, [env EXCEPT !.sequence = q])

ChannelNext == \E s \in Sessions, e \in Ends :
            \/ DeriveSecureSession(s, e)
            \/ \E m \in Messages : EncryptMessage(s, e, m)
            \/ Deliver(s, e)

ChannelSpec == ChannelInit /\ [][ChannelNext]_channelVars

-----------------------------------------------------------------------------
ChannelTypeOK ==
    /\ derived \in [Sessions -> [Ends -> BOOLEAN]]
    /\ sendSeq \in [Sessions -> [Ends -> 0..MaxSeq]]
    /\ recvSeq \in [Sessions -> [Ends -> 0..MaxSeq]]
    /\ wire \subseteq Envelopes
    /\ sent \in [Sessions -> [Ends -> Seq(Messages)]]
    /\ accepted \in [Sessions -> [Ends -> Seq(Messages)]]

\* What an end has opened is a prefix of what its peer sealed in the same session,
\* whatever the network lost, repeated, reordered, damaged or kept from an older
\* session (DecryptMessage's strict "recvSeq+1" and the keys of DeriveSecureSession).
AcceptedIsPrefix ==
    \A s \in Sessions, e \in Ends :
        /\ Len(accepted[s][e]) <= Len(sent[s][Peer(e)])
        /\ \A i \in 1..Len(accepted[s][e]) : accepted[s][e][i] = sent[s][Peer(e)][i]

\* No two envelopes are ever sealed with the same key and nonce, up to and at the
\* end of the counter's range (EncryptMessage's exhaustion test, one key per direction).
NonceUsedOnce ==
    \A x, y \in wire : x.key = y.key /\ x.sealed = y.sealed => x = y

\* A session never loses step by itself: an undamaged envelope that carries the
\* number after the receiver's counter always opens (a refused envelope must not
\* move recvSeq, and both ends must derive complementary keys).
NextGenuineOpens ==
    \A s \in Sessions, e \in Ends :
        /\ recvSeq[s][e] = Len(accepted[s][e])
        /\ recvSeq[s][e] < sendSeq[s][Peer(e)] =>
               \E env \in wire : /\ env.sequence = recvSeq[s][e] + 1
                                 /\ Opens(ReceiveKey(s, e), env)

\* The channel implements the ordered stream its users rely on.
Stream == INSTANCE SecureStream
StreamSpec == Stream!Spec
=============================================================================
