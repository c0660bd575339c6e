--------------------------- MODULE IdentityProofs ----------------------------
(***************************************************************************)
(* Proofs about the secure channel and about the credentials of an Agent.  *)
(*                                                                         *)
(* SecureChannel, for every set of sessions, every set of messages and     *)
(* every counter width: its invariants and its refinement of SecureStream. *)
(* None of them is inductive.  ChannelIInv adds what ties the counters to  *)
(* the histories (Counters), says that every envelope on the wire was      *)
(* sealed by the end that owns its key (Genuine) and that no sealed        *)
(* envelope is missing from the wire's history (Complete).                 *)
(*                                                                         *)
(* Credentials, for any number of rotations, re-pairings, tokens and       *)
(* connection handlers.  The invariant is built in layers: TypeOK;         *)
(* TokenInv (a token that gave a secret is used); RevokedInv (what is      *)
(* pending while revoked was prepared since the revocation); HeldInv       *)
(* (whatever an Agent presents, it has had on disk); UnusedInv (a secret   *)
(* is on disk only after it was handed out); and DiskInv, which follows a  *)
(* new secret from the row to the Agent's disk.                            *)
(***************************************************************************)
EXTENDS Credentials, SecureChannel, SequenceTheorems, TLAPS

\* The envelope end e seals as number i.
Envelope(s, e, i) ==
    [key |-> SendKey(s, e), sealed |-> i, sequence |-> i, message |-> sent[s][e][i]]

Counters ==
    \A s \in Sessions, e \in Ends :
        /\ Len(sent[s][e]) = sendSeq[s][e]
        /\ Len(accepted[s][e]) = recvSeq[s][e]
        /\ ~derived[s][e] => sendSeq[s][e] = 0 /\ recvSeq[s][e] = 0

Genuine ==
    \A env \in wire : \E s \in Sessions, e \in Ends :
        \E i \in 1..sendSeq[s][e] : env = Envelope(s, e, i)

Complete ==
    \A s \in Sessions, e \in Ends : \A i \in 1..sendSeq[s][e] : Envelope(s, e, i) \in wire

ChannelIInv == ChannelTypeOK /\ Counters /\ Genuine /\ Complete /\ AcceptedIsPrefix

-----------------------------------------------------------------------------
\* The two ends of a session use complementary keys, and no two ends share one:
\* the role argument of DeriveSecureSession swaps exactly the two directions.
LEMMA KeysMatch ==
    ASSUME NEW s \in Sessions, NEW e \in Ends, NEW t \in Sessions, NEW f \in Ends
    PROVE  /\ Peer(e) \in Ends
           /\ SendKey(s, e) \in Keys
           /\ ReceiveKey(s, e) = SendKey(s, Peer(e))
           /\ SendKey(s, e) = SendKey(t, f) => s = t /\ e = f
  BY DEF Ends, Peer, SendKey, ReceiveKey, Keys, Directions

\* Below its maximum the 64-bit counter increments like a natural number; at its
\* maximum it wraps to 0, a number no envelope carries.
LEMMA SuccValue ==
    ASSUME NEW n \in 0..MaxSeq
    PROVE  Succ(n) = IF n = MaxSeq THEN 0 ELSE n + 1
  BY MaxSeqAssumption DEF Succ

\* What a successful EncryptMessage does to the counters, without the modulus.
LEMMA EncryptStep ==
    ASSUME ChannelTypeOK, NEW s \in Sessions, NEW e \in Ends, NEW m \in Messages,
           EncryptMessage(s, e, m)
    PROVE  /\ sendSeq[s][e] + 1 \in 1..MaxSeq
           /\ sendSeq' = [sendSeq EXCEPT ![s][e] = sendSeq[s][e] + 1]
           /\ sent' = [sent EXCEPT ![s][e] = Append(@, m)]
           /\ wire' = wire \cup {[key |-> SendKey(s, e), sealed |-> sendSeq[s][e] + 1,
                                  sequence |-> sendSeq[s][e] + 1, message |-> m]}
           /\ UNCHANGED <<derived, recvSeq, accepted>>
  <1>1. sendSeq[s][e] \in 0..MaxSeq
    BY DEF ChannelTypeOK
  <1>2. Succ(sendSeq[s][e]) = sendSeq[s][e] + 1
    BY <1>1, SuccValue DEF EncryptMessage
  <1>3. sendSeq[s][e] + 1 \in 1..MaxSeq
    BY <1>1, MaxSeqAssumption DEF EncryptMessage
  <1>4. QED
    BY <1>2, <1>3 DEF EncryptMessage

\* What DecryptMessage accepts: the peer's message numbered one more than the last.
LEMMA DecryptStep ==
    ASSUME ChannelIInv, NEW s \in Sessions, NEW e \in Ends, Deliver(s, e)
    PROVE  LET n == recvSeq[s][e] + 1
           IN  /\ n \in 1..sendSeq[s][Peer(e)]
               /\ n \in 1..MaxSeq
               /\ recvSeq' = [recvSeq EXCEPT ![s][e] = n]
               /\ accepted' = [accepted EXCEPT ![s][e] = Append(@, sent[s][Peer(e)][n])]
               /\ derived[s][e]
               /\ UNCHANGED <<derived, sendSeq, wire, sent>>
  <1> DEFINE n == recvSeq[s][e] + 1
  <1>1. PICK env \in wire, q \in 0..MaxSeq : DecryptMessage(s, e, [env EXCEPT !.sequence = q])
    BY DEF Deliver
  <1>2. PICK t \in Sessions, f \in Ends : \E i \in 1..sendSeq[t][f] : env = Envelope(t, f, i)
    BY DEF ChannelIInv, Genuine
  <1>3. PICK i \in 1..sendSeq[t][f] : env = Envelope(t, f, i)
    BY <1>2
  <1>4. /\ q = Succ(recvSeq[s][e])
        /\ env.key = ReceiveKey(s, e)
        /\ env.sealed = q
        /\ recvSeq' = [recvSeq EXCEPT ![s][e] = q]
        /\ accepted' = [accepted EXCEPT ![s][e] = Append(@, env.message)]
        /\ derived[s][e]
        /\ UNCHANGED <<derived, sendSeq, wire, sent>>
    BY <1>1, <1>3 DEF DecryptMessage, Opens, Envelope
  <1>5. t = s /\ f = Peer(e)
    BY <1>3, <1>4, KeysMatch DEF Envelope
  <1>6. i = q /\ env.message = sent[s][Peer(e)][q]
    BY <1>3, <1>4, <1>5 DEF Envelope
  <1>7. recvSeq[s][e] \in 0..MaxSeq /\ sendSeq[s][Peer(e)] \in 0..MaxSeq
    BY KeysMatch DEF ChannelIInv, ChannelTypeOK
  <1>8. q # 0 /\ q \in 1..sendSeq[s][Peer(e)]
    BY <1>5, <1>6, <1>7
  <1>9. q = n /\ n \in 1..MaxSeq
    BY <1>4, <1>7, <1>8, SuccValue, MaxSeqAssumption
  <1>10. QED
    BY <1>4, <1>6, <1>8, <1>9

-----------------------------------------------------------------------------
LEMMA InitChannelIInv == ChannelInit => ChannelIInv
  <1> SUFFICES ASSUME ChannelInit PROVE ChannelIInv
    OBVIOUS
  <1>1. ChannelTypeOK
    BY MaxSeqAssumption DEF ChannelInit, ChannelTypeOK
  <1>2. Counters
    BY DEF ChannelInit, Counters
  <1>3. Genuine
    BY DEF ChannelInit, Genuine
  <1>4. Complete
    BY DEF ChannelInit, Complete
  <1>5. AcceptedIsPrefix
    BY KeysMatch DEF ChannelInit, AcceptedIsPrefix
  <1>6. QED
    BY <1>1, <1>2, <1>3, <1>4, <1>5 DEF ChannelIInv

LEMMA DeriveKeepsIInv ==
    ASSUME ChannelIInv, NEW s \in Sessions, NEW e \in Ends, DeriveSecureSession(s, e)
    PROVE  ChannelIInv'
  <1>1. sendSeq' = sendSeq /\ recvSeq' = recvSeq
    <2>1. sendSeq[s][e] = 0 /\ recvSeq[s][e] = 0
      BY DEF ChannelIInv, Counters, DeriveSecureSession
    <2>2. QED
      BY <2>1 DEF ChannelIInv, ChannelTypeOK, DeriveSecureSession
  <1>2. /\ derived' = [derived EXCEPT ![s][e] = TRUE]
        /\ UNCHANGED <<wire, sent, accepted>>
    BY DEF DeriveSecureSession
  <1>3. ChannelTypeOK'
    BY <1>1, <1>2 DEF ChannelIInv, ChannelTypeOK
  <1>4. Counters'
    BY <1>1, <1>2 DEF ChannelIInv, Counters, ChannelTypeOK
  <1>5. Genuine' /\ Complete' /\ AcceptedIsPrefix'
    BY <1>1, <1>2 DEF ChannelIInv, Genuine, Complete, Envelope, AcceptedIsPrefix
  <1>6. QED
    BY <1>3, <1>4, <1>5 DEF ChannelIInv

LEMMA EncryptKeepsIInv ==
    ASSUME ChannelIInv, NEW s \in Sessions, NEW e \in Ends, NEW m \in Messages,
           EncryptMessage(s, e, m)
    PROVE  ChannelIInv'
  <1>0. PICK n \in 1..MaxSeq : n = sendSeq[s][e] + 1
    BY EncryptStep DEF ChannelIInv
  <1> DEFINE new == [key |-> SendKey(s, e), sealed |-> n, sequence |-> n, message |-> m]
  <1>1. /\ sendSeq' = [sendSeq EXCEPT ![s][e] = n]
        /\ sent' = [sent EXCEPT ![s][e] = Append(@, m)]
        /\ wire' = wire \cup {new}
        /\ UNCHANGED <<derived, recvSeq, accepted>>
    BY <1>0, EncryptStep DEF ChannelIInv
  <1>2. /\ sendSeq \in [Sessions -> [Ends -> 0..MaxSeq]]
        /\ sent \in [Sessions -> [Ends -> Seq(Messages)]]
        /\ accepted \in [Sessions -> [Ends -> Seq(Messages)]]
                /\ Len(sent[s][e]) = sendSeq[s][e]
    BY DEF ChannelIInv, ChannelTypeOK, Counters
  <1>3. /\ Len(sent'[s][e]) = n
        /\ sent'[s][e][n] = m
        /\ \A i \in 1..sendSeq[s][e] : sent'[s][e][i] = sent[s][e][i]
    BY <1>0, <1>1, <1>2, AppendProperties
  <1>4. \A t \in Sessions, f \in Ends :
            ~(t = s /\ f = e) => sent'[t][f] = sent[t][f] /\ sendSeq'[t][f] = sendSeq[t][f]
    BY <1>1, <1>2
  <1>5. sendSeq'[s][e] = n
    BY <1>1, <1>2
  <1>6. ChannelTypeOK'
    <2>1. new \in Envelopes
      BY <1>1, KeysMatch DEF Envelopes
    <2>2. sent' \in [Sessions -> [Ends -> Seq(Messages)]]
      BY <1>1, <1>2, AppendProperties
    <2>3. sendSeq' \in [Sessions -> [Ends -> 0..MaxSeq]]
      BY <1>0, <1>1, <1>2, MaxSeqAssumption
    <2>4. QED
      BY <1>1, <2>1, <2>2, <2>3 DEF ChannelIInv, ChannelTypeOK
  <1>7. Counters'
    <2> SUFFICES ASSUME NEW t \in Sessions, NEW f \in Ends
                 PROVE  (/\ Len(sent[t][f]) = sendSeq[t][f]
                         /\ Len(accepted[t][f]) = recvSeq[t][f]
                         /\ ~derived[t][f] => sendSeq[t][f] = 0 /\ recvSeq[t][f] = 0)'
      BY DEF Counters
    <2>1. CASE t = s /\ f = e
      BY <2>1, <1>1, <1>3, <1>5 DEF ChannelIInv, Counters, EncryptMessage
    <2>2. CASE ~(t = s /\ f = e)
      BY <2>2, <1>1, <1>4 DEF ChannelIInv, Counters
    <2>3. QED
      BY <2>1, <2>2
  <1>8. \A t \in Sessions, f \in Ends : \A i \in 1..sendSeq[t][f] :
            i \in 1..sendSeq'[t][f] /\ Envelope(t, f, i)' = Envelope(t, f, i)
    <2> SUFFICES ASSUME NEW t \in Sessions, NEW f \in Ends, NEW i \in 1..sendSeq[t][f]
                 PROVE  i \in 1..sendSeq'[t][f] /\ Envelope(t, f, i)' = Envelope(t, f, i)
      OBVIOUS
    <2>0. sendSeq[t][f] \in Nat
      BY <1>2, MaxSeqAssumption
    <2>1. CASE t = s /\ f = e
      <3>1. i \in 1..sendSeq'[t][f]
        BY <2>0, <2>1, <1>0, <1>5
      <3>2. sent'[t][f][i] = sent[t][f][i]
        BY <2>1, <1>3
      <3>3. QED
        BY <3>1, <3>2 DEF Envelope
    <2>2. CASE ~(t = s /\ f = e)
      BY <2>2, <1>4 DEF Envelope
    <2>3. QED
      BY <2>1, <2>2
  <1>9. new = Envelope(s, e, n)' /\ n \in 1..sendSeq'[s][e]
    BY <1>0, <1>1, <1>3, <1>5 DEF Envelope
  <1>10. Genuine'
    <2> SUFFICES ASSUME NEW env \in wire'
                 PROVE  \E t \in Sessions, f \in Ends :
                            \E i \in 1..sendSeq'[t][f] : env = Envelope(t, f, i)'
      BY DEF Genuine
    <2>1. CASE env \in wire
      BY <2>1, <1>8 DEF ChannelIInv, Genuine
    <2>2. CASE env = new
      BY <2>2, <1>9
    <2>3. QED
      BY <1>1, <2>1, <2>2
  <1>11. Complete'
    <2> SUFFICES ASSUME NEW t \in Sessions, NEW f \in Ends, NEW i \in 1..sendSeq'[t][f]
                 PROVE  Envelope(t, f, i)' \in wire'
      BY DEF Complete
    <2>1. CASE i \in 1..sendSeq[t][f]
      BY <2>1, <1>1, <1>8 DEF ChannelIInv, Complete
    <2>2. CASE i \notin 1..sendSeq[t][f]
      <3>1. t = s /\ f = e /\ i = n
        BY <2>2, <1>0, <1>2, <1>4, <1>5, MaxSeqAssumption
      <3>2. QED
        BY <3>1, <1>1, <1>9
    <2>3. QED
      BY <2>1, <2>2
  <1>12. AcceptedIsPrefix'
    <2> SUFFICES ASSUME NEW t \in Sessions, NEW f \in Ends
                 PROVE  /\ Len(accepted[t][f]) <= Len(sent'[t][Peer(f)])
                        /\ \A i \in 1..Len(accepted[t][f]) :
                               accepted[t][f][i] = sent'[t][Peer(f)][i]
      BY <1>1 DEF AcceptedIsPrefix
    <2>1. Peer(f) \in Ends
      BY KeysMatch
    <2>2. /\ Len(accepted[t][f]) <= Len(sent[t][Peer(f)])
          /\ \A i \in 1..Len(accepted[t][f]) : accepted[t][f][i] = sent[t][Peer(f)][i]
      BY DEF ChannelIInv, AcceptedIsPrefix
    <2>0. Len(accepted[t][f]) \in Nat
      BY <1>2, LenProperties
    <2>3. CASE t = s /\ Peer(f) = e
      <3>1. /\ sendSeq[s][e] \in Nat /\ n = sendSeq[s][e] + 1
            /\ Len(accepted[t][f]) <= sendSeq[s][e]
        BY <2>2, <2>3, <1>0, <1>2
      <3>2. Len(accepted[t][f]) <= Len(sent'[s][e])
        BY <3>1, <2>0, <1>3
      <3>3. ASSUME NEW i \in 1..Len(accepted[t][f])
            PROVE  accepted[t][f][i] = sent'[s][e][i]
        <4>1. i \in 1..sendSeq[s][e]
          BY <3>1, <2>0
        <4>2. accepted[t][f][i] = sent[s][e][i]
          BY <2>2, <2>3
        <4>3. QED
          BY <4>1, <4>2, <1>3
      <3>4. QED
        BY <3>2, <3>3, <2>3
    <2>4. CASE ~(t = s /\ Peer(f) = e)
      BY <2>1, <2>2, <2>4, <1>4
    <2>5. QED
      BY <2>3, <2>4
  <1>13. QED
    BY <1>6, <1>7, <1>10, <1>11, <1>12 DEF ChannelIInv

LEMMA DeliverKeepsIInv ==
    ASSUME ChannelIInv, NEW s \in Sessions, NEW e \in Ends, Deliver(s, e)
    PROVE  ChannelIInv'
  <1> DEFINE n == recvSeq[s][e] + 1
             m == sent[s][Peer(e)][n]
  <1>1. /\ n \in 1..sendSeq[s][Peer(e)]
        /\ n \in 1..MaxSeq
        /\ recvSeq' = [recvSeq EXCEPT ![s][e] = n]
        /\ accepted' = [accepted EXCEPT ![s][e] = Append(@, m)]
        /\ derived[s][e]
        /\ UNCHANGED <<derived, sendSeq, wire, sent>>
    BY DecryptStep
  <1>2. /\ recvSeq \in [Sessions -> [Ends -> 0..MaxSeq]]
        /\ sent \in [Sessions -> [Ends -> Seq(Messages)]]
        /\ accepted \in [Sessions -> [Ends -> Seq(Messages)]]
                /\ Peer(e) \in Ends
        /\ Len(accepted[s][e]) = recvSeq[s][e]
        /\ Len(sent[s][Peer(e)]) = sendSeq[s][Peer(e)]
    BY KeysMatch DEF ChannelIInv, ChannelTypeOK, Counters
  <1>3. m \in Messages
    BY <1>1, <1>2, ElementOfSeq
  <1>4. /\ Len(accepted'[s][e]) = n
        /\ accepted'[s][e][n] = m
        /\ \A i \in 1..recvSeq[s][e] : accepted'[s][e][i] = accepted[s][e][i]
    BY <1>1, <1>2, <1>3, AppendProperties
  <1>5. \A t \in Sessions, f \in Ends :
            ~(t = s /\ f = e) =>
                accepted'[t][f] = accepted[t][f] /\ recvSeq'[t][f] = recvSeq[t][f]
    BY <1>1, <1>2
  <1>6. ChannelTypeOK'
    BY <1>1, <1>2, <1>3, AppendProperties, MaxSeqAssumption DEF ChannelIInv, ChannelTypeOK
  <1>7. Counters'
    <2> SUFFICES ASSUME NEW t \in Sessions, NEW f \in Ends
                 PROVE  (/\ Len(sent[t][f]) = sendSeq[t][f]
                         /\ Len(accepted[t][f]) = recvSeq[t][f]
                         /\ ~derived[t][f] => sendSeq[t][f] = 0 /\ recvSeq[t][f] = 0)'
      BY DEF Counters
    <2>1. CASE t = s /\ f = e
      BY <2>1, <1>1, <1>2, <1>4 DEF ChannelIInv, Counters
    <2>2. CASE ~(t = s /\ f = e)
      BY <2>2, <1>1, <1>5 DEF ChannelIInv, Counters
    <2>3. QED
      BY <2>1, <2>2
  <1>8. Genuine' /\ Complete'
    BY <1>1 DEF ChannelIInv, Genuine, Complete, Envelope
  <1>9. AcceptedIsPrefix'
    <2> SUFFICES ASSUME NEW t \in Sessions, NEW f \in Ends
                 PROVE  /\ Len(accepted'[t][f]) <= Len(sent[t][Peer(f)])
                        /\ \A i \in 1..Len(accepted'[t][f]) :
                               accepted'[t][f][i] = sent[t][Peer(f)][i]
      BY <1>1 DEF AcceptedIsPrefix
    <2>1. /\ Len(accepted[t][f]) <= Len(sent[t][Peer(f)])
          /\ \A i \in 1..Len(accepted[t][f]) : accepted[t][f][i] = sent[t][Peer(f)][i]
      BY DEF ChannelIInv, AcceptedIsPrefix
    <2>2. CASE t = s /\ f = e
      BY <2>1, <2>2, <1>1, <1>2, <1>4
    <2>3. CASE ~(t = s /\ f = e)
      BY <2>1, <2>3, <1>5
    <2>4. QED
      BY <2>2, <2>3
  <1>10. QED
    BY <1>6, <1>7, <1>8, <1>9 DEF ChannelIInv

LEMMA StutterKeepsIInv ==
    ASSUME ChannelIInv, UNCHANGED channelVars PROVE ChannelIInv'
  BY DEF ChannelIInv, channelVars, ChannelTypeOK, Counters, Genuine, Complete, Envelope,
     AcceptedIsPrefix

\* The inductive invariant holds in every reachable state.
THEOREM Invariance == ChannelSpec => []ChannelIInv
  <1>1. ChannelIInv /\ [ChannelNext]_channelVars => ChannelIInv'
    <2> SUFFICES ASSUME ChannelIInv, [ChannelNext]_channelVars PROVE ChannelIInv'
      OBVIOUS
    <2>1. ASSUME NEW s \in Sessions, NEW e \in Ends, DeriveSecureSession(s, e) PROVE ChannelIInv'
      BY <2>1, DeriveKeepsIInv
    <2>2. ASSUME NEW s \in Sessions, NEW e \in Ends, NEW m \in Messages,
                 EncryptMessage(s, e, m)
          PROVE  ChannelIInv'
      BY <2>2, EncryptKeepsIInv
    <2>3. ASSUME NEW s \in Sessions, NEW e \in Ends, Deliver(s, e) PROVE ChannelIInv'
      BY <2>3, DeliverKeepsIInv
    <2>4. CASE UNCHANGED channelVars
      BY <2>4, StutterKeepsIInv
    <2>5. QED
      BY <2>1, <2>2, <2>3, <2>4 DEF ChannelNext
  <1>2. QED
    BY InitChannelIInv, <1>1, PTL DEF ChannelSpec

\* The type invariant, for every instance.
THEOREM ChannelTypeCorrect == ChannelSpec => []ChannelTypeOK
  <1>1. ChannelIInv => ChannelTypeOK
    BY DEF ChannelIInv
  <1>2. QED
    BY Invariance, <1>1, PTL

\* In-order, gap-free, duplicate-free delivery over an arbitrary network.
THEOREM PrefixDelivery == ChannelSpec => []AcceptedIsPrefix
  <1>1. ChannelIInv => AcceptedIsPrefix
    BY DEF ChannelIInv
  <1>2. QED
    BY Invariance, <1>1, PTL

\* A nonce is never used twice under one key.
THEOREM NonceUniqueness == ChannelSpec => []NonceUsedOnce
  <1>1. ChannelIInv => NonceUsedOnce
    <2> SUFFICES ASSUME ChannelIInv,
                        NEW x \in wire, NEW y \in wire, x.key = y.key, x.sealed = y.sealed
                 PROVE  x = y
      BY DEF NonceUsedOnce
    <2>1. PICK s \in Sessions, e \in Ends : \E i \in 1..sendSeq[s][e] : x = Envelope(s, e, i)
      BY DEF ChannelIInv, Genuine
    <2>2. PICK t \in Sessions, f \in Ends : \E i \in 1..sendSeq[t][f] : y = Envelope(t, f, i)
      BY DEF ChannelIInv, Genuine
    <2>3. s = t /\ e = f
      BY <2>1, <2>2, KeysMatch DEF Envelope
    <2>4. QED
      BY <2>1, <2>2, <2>3 DEF Envelope
  <1>2. QED
    BY Invariance, <1>1, PTL

\* The receiver never desynchronises itself: the next genuine envelope opens.
THEOREM NeverDesynchronised == ChannelSpec => []NextGenuineOpens
  <1>1. ChannelIInv => NextGenuineOpens
    <2> SUFFICES ASSUME ChannelIInv, NEW s \in Sessions, NEW e \in Ends
                 PROVE  /\ recvSeq[s][e] = Len(accepted[s][e])
                        /\ recvSeq[s][e] < sendSeq[s][Peer(e)] =>
                               \E env \in wire : /\ env.sequence = recvSeq[s][e] + 1
                                                 /\ Opens(ReceiveKey(s, e), env)
      BY DEF NextGenuineOpens
    <2>1. recvSeq[s][e] = Len(accepted[s][e])
      BY DEF ChannelIInv, Counters
    <2>2. ASSUME recvSeq[s][e] < sendSeq[s][Peer(e)]
          PROVE  \E env \in wire : /\ env.sequence = recvSeq[s][e] + 1
                                   /\ Opens(ReceiveKey(s, e), env)
      <3>1. Peer(e) \in Ends /\ ReceiveKey(s, e) = SendKey(s, Peer(e))
        BY KeysMatch
      <3>2. recvSeq[s][e] + 1 \in 1..sendSeq[s][Peer(e)]
        BY <2>2, <3>1, MaxSeqAssumption DEF ChannelIInv, ChannelTypeOK
      <3>3. Envelope(s, Peer(e), recvSeq[s][e] + 1) \in wire
        BY <3>1, <3>2 DEF ChannelIInv, Complete
      <3>4. WITNESS Envelope(s, Peer(e), recvSeq[s][e] + 1) \in wire
      <3>5. QED
        BY <3>1 DEF Envelope, Opens
    <2>3. QED
      BY <2>1, <2>2
  <1>2. QED
    BY Invariance, <1>1, PTL

\* The channel implements the ordered stream: sealing is a Send, an accepted
\* envelope a Receive, a handshake a stutter.
THEOREM Refinement == ChannelSpec => StreamSpec
  <1>1. ChannelInit => Stream!Init
    BY DEF ChannelInit, Stream!Init, Ends, Stream!Ends
  <1>2. ChannelIInv /\ [ChannelNext]_channelVars => [Stream!Next]_(Stream!vars)
    <2> SUFFICES ASSUME ChannelIInv, [ChannelNext]_channelVars PROVE [Stream!Next]_(Stream!vars)
      OBVIOUS
    <2>1. ASSUME NEW s \in Sessions, NEW e \in Ends, DeriveSecureSession(s, e)
          PROVE  UNCHANGED Stream!vars
      BY <2>1 DEF DeriveSecureSession, Stream!vars
    <2>2. ASSUME NEW s \in Sessions, NEW e \in Ends, NEW m \in Messages,
                 EncryptMessage(s, e, m)
          PROVE  Stream!Send(s, e, m)
      BY <2>2 DEF EncryptMessage, Stream!Send
    <2>3. ASSUME NEW s \in Sessions, NEW e \in Ends, Deliver(s, e)
          PROVE  Stream!Receive(s, e)
      <3>1. /\ recvSeq[s][e] = Len(accepted[s][e])
            /\ sendSeq[s][Peer(e)] = Len(sent[s][Peer(e)])
        BY KeysMatch DEF ChannelIInv, Counters
      <3>2. Peer(e) = Stream!Peer(e)
        BY DEF Peer, Stream!Peer
      <3>3. QED
        BY <2>3, <3>1, <3>2, DecryptStep DEF Stream!Receive
    <2>4. QED
      BY <2>1, <2>2, <2>3 DEF ChannelNext, channelVars, Stream!Next, Stream!vars, Ends,
         Stream!Ends
  <1>3. QED
    BY Invariance, <1>1, <1>2, PTL DEF ChannelSpec, StreamSpec, Stream!Spec

-----------------------------------------------------------------------------
TokenInv ==
    /\ \A p \in Pairings : pairing[p] # "idle" => with[p] \in Tokens
    /\ \A p \in Pairings : pairing[p] \in {"consumed", "prepared", "answered"} =>
                               token[with[p]] = "used"
    /\ OneSecretPerToken

RevokedInv ==
    /\ pending # Initial
    /\ revoked => pending \in since \cup {None}

HeldInv ==
    /\ Disk \in held
    /\ memory # None => memory \in held
    /\ running => memory # None
    /\ \A h \in Handlers : step[h] # "idle" => presented[h] \in held
    /\ \A r \in Rotations : delivery[r] \in {"saved", "done"} => r \in held

UnusedInv ==
    /\ \A r \in Rotations : rotation[r] \in {"idle", "checked", "begun"} => delivery[r] = "none"
    /\ \A r \in Rotations : delivery[r] = "none" => r \notin held
    /\ \A p \in Pairings : pairing[p] # "answered" => p \notin held
    /\ installer # "idle" => ~running
    /\ installer \in {"granted", "saved"} => pairing[run] = "answered"
    /\ installer \in {"asking", "granted"} => run \notin held
    /\ installer = "saved" => run \notin held \/ Disk = run

DiskInv ==
    /\ \A r \in Rotations : rotation[r] = "begun" => r \in {pending} \cup discarded
    /\ \A r \in Rotations : delivery[r] \in {"due", "accepted"} =>
           r \in repeatable \/ (r \notin held /\ r \in {pending} \cup discarded)
    /\ \A p \in Pairings : pairing[p] \in {"prepared", "answered"} /\ p \notin held =>
           p \in {pending} \cup discarded
    /\ pending \in held => Disk \in {pending} \cup discarded \cup repeatable
    /\ LockoutNeedsDiscard

-----------------------------------------------------------------------------
\* Every part of the state is well typed at first, and each action keeps it so.
LEMMA InitType == Init => TypeOK
<1> SUFFICES ASSUME Init PROVE TypeOK
  OBVIOUS
<1>1. RowOK
  BY SecretsAssumption DEF Init, RowOK, Secrets
<1>2. ConnOK
  <2>1. viaPending \in [Handlers -> BOOLEAN]
    BY DEF Init
  <2> QED
    BY <2>1 DEF Init, ConnOK
<1>3. AdminOK
  <2>1. revoker \in BOOLEAN
    BY DEF Init
  <2> QED
    BY <2>1 DEF Init, AdminOK
<1>4. PairOK
  BY DEF Init, PairOK
<1>5. AgentOK
  <2>1. running \in BOOLEAN
    BY DEF Init
  <2> QED
    BY <2>1 DEF Init, AgentOK, Secrets
<1> QED
  BY <1>1, <1>2, <1>3, <1>4, <1>5 DEF TypeOK

\* What an action leaves alone stays well typed.
LEMMA Frame ==
    ASSUME TypeOK
    PROVE  /\ UNCHANGED <<row, history>> => RowOK'
           /\ UNCHANGED connVars => ConnOK'
           /\ UNCHANGED adminVars => AdminOK'
           /\ UNCHANGED pairVars => PairOK'
           /\ UNCHANGED agentVars => AgentOK'
<1>1. UNCHANGED <<row, history>> => RowOK'
  BY DEF TypeOK, RowOK, row, history
<1>2. UNCHANGED connVars => ConnOK'
  BY DEF TypeOK, ConnOK, connVars
<1>3. UNCHANGED adminVars => AdminOK'
  BY DEF TypeOK, AdminOK, adminVars
<1>4. UNCHANGED pairVars => PairOK'
  BY DEF TypeOK, PairOK, pairVars
<1>5. UNCHANGED agentVars => AgentOK'
  BY DEF TypeOK, AgentOK, agentVars, diskVars
<1> QED
  BY <1>1, <1>2, <1>3, <1>4, <1>5

\* The statements on the row.
LEMMA RowType ==
    ASSUME TypeOK,
           \/ \E r \in Rotations : BeginCredentialRotation(r)
           \/ ClearCredentialRotation
           \/ pending # None /\ PromoteCredential
           \/ RevokeCredential
           \/ \E p \in Pairings : PrepareReenrollment(p)
    PROVE  RowOK'
<1>1. CASE \E r \in Rotations : BeginCredentialRotation(r)
  BY <1>1, SecretsAssumption DEF TypeOK, RowOK, Secrets, BeginCredentialRotation, Discard
<1>2. CASE ClearCredentialRotation
  BY <1>2 DEF TypeOK, RowOK, ClearCredentialRotation, Discard
<1>3. CASE pending # None /\ PromoteCredential
  BY <1>3 DEF TypeOK, RowOK, PromoteCredential, history
<1>4. CASE RevokeCredential
  BY <1>4 DEF TypeOK, RowOK, RevokeCredential, Discard
<1>5. CASE \E p \in Pairings : PrepareReenrollment(p)
  BY <1>5, SecretsAssumption DEF TypeOK, RowOK, Secrets, PrepareReenrollment, Discard
<1> QED
  BY <1>1, <1>2, <1>3, <1>4, <1>5

\* Handler h moves to another step, keeping its flag.
LEMMA StepType ==
    ASSUME TypeOK, NEW h \in Handlers,
           NEW to \in {"idle", "dialed", "accepted", "promoted", "online"},
           step' = [step EXCEPT ![h] = to], UNCHANGED <<presented, viaPending>>,
           registered' \in Handlers \cup {None}
    PROVE  ConnOK'
BY DEF TypeOK, ConnOK

LEMMA DisconnectType == ASSUME TypeOK, Disconnect PROVE ConnOK'
<1>1. step' \in [Handlers -> {"idle", "dialed", "accepted", "promoted", "online"}]
  BY DEF TypeOK, ConnOK, Disconnect
<1> QED
  BY <1>1 DEF TypeOK, ConnOK, Disconnect

LEMMA NextType == TypeOK /\ [Next]_vars => TypeOK'
<1> SUFFICES ASSUME TypeOK, [Next]_vars PROVE TypeOK'
  OBVIOUS
<1> USE DEF TypeOK
<1>1. ASSUME NEW h \in Handlers, Connecting(h) PROVE TypeOK'
  <2>1. CASE Dial(h)
    <3>1. ConnOK'
      BY <2>1 DEF Dial, ConnOK, AgentOK
    <3> QED
      BY <2>1, <3>1, Frame DEF Dial
  <2>2. CASE Authenticate(h)
    <3>1. PendingMatch(presented[h]) \in BOOLEAN
      BY DEF PendingMatch, RowOK
    <3>2. viaPending' \in [Handlers -> BOOLEAN]
      BY <2>2, <3>1 DEF Authenticate, ConnOK
    <3>3. ConnOK'
      BY <2>2, <3>2 DEF Authenticate, ConnOK
    <3> QED
      BY <2>2, <3>3, Frame DEF Authenticate
  <2>3. CASE Promote(h)
    <3>1. ConnOK'
      BY <2>3, StepType DEF Promote, ConnOK
    <3>2. RowOK'
      BY <2>3, RowType, Frame DEF Promote, Promotable, RowOK
    <3> QED
      BY <2>3, <3>1, <3>2, Frame DEF Promote
  <2>4. CASE Register(h)
    <3>1. ConnOK'
      BY <2>4 DEF Register, ConnOK
    <3> QED
      BY <2>4, <3>1, Frame DEF Register
  <2>5. CASE Drop(h)
    <3>1. ConnOK'
      BY <2>5, StepType DEF Drop, ConnOK
    <3> QED
      BY <2>5, <3>1, Frame DEF Drop
  <2> QED
    BY <1>1, <2>1, <2>2, <2>3, <2>4, <2>5 DEF Connecting
<1>2. ASSUME NEW r \in Rotations, Rotating(r) PROVE TypeOK'
  <2>1. CASE CheckOnline(r) \/ ReportFailure(r) \/ End(r)
    <3>1. AdminOK'
      BY <2>1 DEF CheckOnline, ReportFailure, End, AdminOK
    <3> QED
      BY <2>1, <3>1, Frame DEF CheckOnline, ReportFailure, End
  <2>2. CASE Begin(r)
    <3>1. AdminOK'
      BY <2>2 DEF Begin, AdminOK
    <3> QED
      BY <2>2, <3>1, Frame, RowType DEF Begin
  <2>3. CASE Clear(r)
    <3>1. AdminOK'
      BY <2>3 DEF Clear, AdminOK
    <3> QED
      BY <2>3, <3>1, Frame, RowType DEF Clear
  <2>4. CASE Send(r)
    <3>1. AdminOK'
      BY <2>4 DEF Send, AdminOK
    <3>2. AgentOK'
      BY <2>4 DEF Send, AgentOK, diskVars
    <3> QED
      BY <2>4, <3>1, <3>2, Frame DEF Send
  <2>5. CASE Stale(r) \/ AcceptCommand(r)
    <3>1. AgentOK'
      BY <2>5 DEF Stale, AcceptCommand, AgentOK, diskVars
    <3> QED
      BY <2>5, <3>1, Frame DEF Stale, AcceptCommand
  <2>6. CASE SaveRotated(r)
    <3>1. AgentOK'
      BY <2>6 DEF SaveRotated, Save, Disk, AgentOK, diskVars, Secrets
    <3> QED
      BY <2>6, <3>1, Frame DEF SaveRotated
  <2>7. CASE UseRotated(r)
    <3>1. AgentOK'
      BY <2>7 DEF UseRotated, AgentOK, diskVars, Secrets
    <3> QED
      BY <2>7, <3>1, Frame DEF UseRotated
  <2> QED
    BY <1>2, <2>1, <2>2, <2>3, <2>4, <2>5, <2>6, <2>7 DEF Rotating
<1>3. ASSUME NEW p \in Pairings, Pairing(p) PROVE TypeOK'
  <2>1. CASE CheckToken(p) \/ RefusePairing(p)
    <3>1. PairOK'
      BY <2>1 DEF CheckToken, RefusePairing, PairingStep, PairOK
    <3> QED
      BY <2>1, <3>1, Frame DEF CheckToken, RefusePairing
  <2>2. CASE ConsumeToken(p)
    <3>1. PairOK'
      BY <2>2 DEF ConsumeToken, PairingStep, PairOK
    <3> QED
      BY <2>2, <3>1, Frame DEF ConsumeToken
  <2>3. CASE Prepare(p)
    <3>1. PairOK'
      BY <2>3 DEF Prepare, PairingStep, PairOK
    <3> QED
      BY <2>3, <3>1, Frame, RowType DEF Prepare
  <2>4. CASE PairDisconnect(p)
    <3>1. PairOK'
      BY <2>4 DEF PairDisconnect, PairingStep, PairOK
    <3> QED
      BY <2>4, <3>1, Frame, DisconnectType DEF PairDisconnect
  <2>5. ASSUME NEW t \in Tokens, AskPairing(p, t) PROVE TypeOK'
    <3>1. PairOK'
      BY <2>5 DEF AskPairing, PairOK
    <3>2. AgentOK'
      BY <2>5, SecretsAssumption DEF AskPairing, AgentOK, diskVars
    <3> QED
      BY <2>5, <3>1, <3>2, Frame DEF AskPairing
  <2> QED
    BY <1>3, <2>1, <2>2, <2>3, <2>4, <2>5 DEF Pairing
<1>4. ASSUME NEW t \in Tokens, CreatePairing(t) \/ ExpireToken(t) PROVE TypeOK'
  <2>1. PairOK'
    BY <1>4 DEF CreatePairing, ExpireToken, PairOK
  <2> QED
    BY <1>4, <2>1, Frame DEF CreatePairing, ExpireToken
<1>5. CASE Revoke
  <2>1. AdminOK'
    <3>1. revoker' \in BOOLEAN
      BY <1>5 DEF Revoke
    <3> QED
      BY <1>5, <3>1 DEF Revoke, AdminOK
  <2> QED
    BY <1>5, <2>1, Frame, RowType DEF Revoke
<1>6. CASE RevokeDisconnect
  <2>1. AdminOK'
    <3>1. revoker' \in BOOLEAN
      BY <1>6 DEF RevokeDisconnect
    <3> QED
      BY <1>6, <3>1 DEF RevokeDisconnect, AdminOK
  <2> QED
    BY <1>6, <2>1, Frame, DisconnectType DEF RevokeDisconnect
<1>7. CASE Expire
  <2>1. RowOK'
    BY <1>7 DEF Expire, history, RowOK
  <2> QED
    BY <1>7, <2>1, Frame DEF Expire
<1>8. CASE ControllerRestart
  <2>1. ConnOK'
    BY <1>8 DEF ControllerRestart, ConnOK
  <2>2. AdminOK'
    <3>1. revoker' \in BOOLEAN
      BY <1>8 DEF ControllerRestart
    <3> QED
      BY <1>8, <3>1 DEF ControllerRestart, AdminOK
  <2>3. PairOK'
    BY <1>8 DEF ControllerRestart, PairOK
  <2> QED
    BY <1>8, <2>1, <2>2, <2>3, Frame DEF ControllerRestart
<1>9. CASE AgentStops
  <2>1. running' \in BOOLEAN
    BY <1>9 DEF AgentStops
  <2>2. AgentOK'
    BY <1>9, <2>1 DEF AgentStops, Forget, AgentOK
  <2> QED
    BY <1>9, <2>2, Frame DEF AgentStops
<1>10. CASE AgentStarts
  <2>1. running' \in BOOLEAN
    BY <1>10 DEF AgentStarts
  <2>2. AgentOK'
    BY <1>10, <2>1 DEF AgentStarts, Disk, AgentOK, diskVars
  <2> QED
    BY <1>10, <2>2, Frame DEF AgentStarts
<1>11. CASE Installing
  <2>1. AgentOK'
    <3>1. CASE Granted \/ InstallerEnds
      BY <3>1 DEF Granted, InstallerEnds, AgentOK, diskVars
    <3>2. CASE SaveConfig
      BY <3>2, SecretsAssumption DEF SaveConfig, Save, Disk, AgentOK, Secrets
    <3>3. CASE SaveOverride
      BY <3>3, SecretsAssumption DEF SaveOverride, Save, Disk, AgentOK, Secrets
    <3> QED
      BY <1>11, <3>1, <3>2, <3>3 DEF Installing
  <2> QED
    BY <1>11, <2>1, Frame DEF Installing, Granted, SaveConfig, SaveOverride, InstallerEnds
<1>12. CASE UNCHANGED vars
  BY <1>12, Frame DEF vars
<1> QED
  BY <1>1, <1>2, <1>3, <1>4, <1>5, <1>6, <1>7, <1>8, <1>9, <1>10, <1>11, <1>12 DEF Next

-----------------------------------------------------------------------------
\* Tokens: each is consumed by one transaction.
LEMMA InitToken == Init => TokenInv
BY DEF Init, TokenInv, OneSecretPerToken

LEMMA NextToken == TypeOK /\ TokenInv /\ [Next]_vars => TokenInv'
<1> SUFFICES ASSUME TypeOK, TokenInv, [Next]_vars PROVE TokenInv'
  OBVIOUS
<1> USE DEF TypeOK, PairOK, TokenInv, OneSecretPerToken
<1>1. ASSUME NEW p \in Pairings, Pairing(p) PROVE TokenInv'
  <2>1. CASE CheckToken(p)
    BY <2>1 DEF CheckToken, PairingStep
  <2>2. CASE ConsumeToken(p)
    BY <2>2 DEF ConsumeToken, PairingStep, Usable
  <2>3. CASE Prepare(p)
    BY <2>3 DEF Prepare, PairingStep
  <2>4. CASE PairDisconnect(p)
    BY <2>4 DEF PairDisconnect, PairingStep
  <2>5. CASE RefusePairing(p)
    BY <2>5 DEF RefusePairing, PairingStep
  <2>6. ASSUME NEW t \in Tokens, AskPairing(p, t) PROVE TokenInv'
    BY <2>6 DEF AskPairing
  <2> QED
    BY <1>1, <2>1, <2>2, <2>3, <2>4, <2>5, <2>6 DEF Pairing
<1>2. ASSUME NEW t \in Tokens, CreatePairing(t) \/ ExpireToken(t) PROVE TokenInv'
  BY <1>2 DEF CreatePairing, ExpireToken
<1>3. CASE ControllerRestart
  BY <1>3 DEF ControllerRestart
<1>4. CASE UNCHANGED pairVars
  BY <1>4 DEF pairVars
<1>5. \/ UNCHANGED pairVars \/ ControllerRestart
      \/ \E p \in Pairings : Pairing(p)
      \/ \E t \in Tokens : CreatePairing(t) \/ ExpireToken(t)
  BY DEF Next, vars, Connecting, Dial, Authenticate, Promote, Register, Drop, Rotating,
         CheckOnline, Begin, Send, ReportFailure, Clear, End, Stale, AcceptCommand, SaveRotated,
         UseRotated, Revoke, RevokeDisconnect, Expire, AgentStops, AgentStarts, Installing,
         Granted, SaveConfig, SaveOverride, InstallerEnds
<1> QED
  BY <1>1, <1>2, <1>3, <1>4, <1>5

-----------------------------------------------------------------------------
\* What a step does to the row.
RowStep ==
    \/ UNCHANGED <<row, history>>
    \/ \E r \in Rotations : Begin(r)
    \/ \E r \in Rotations : Clear(r)
    \/ \E h \in Handlers : Promote(h) /\ PromoteCredential /\ Promotable(presented[h])
    \/ Revoke
    \/ \E p \in Pairings : Prepare(p)
    \/ Expire

LEMMA RowSteps == [Next]_vars => RowStep
BY DEF Next, vars, RowStep, Connecting, Dial, Authenticate, Promote, Register, Drop, Rotating,
       CheckOnline, Send, ReportFailure, End, Stale, AcceptCommand, SaveRotated,
       UseRotated, RevokeDisconnect, AgentStops, AgentStarts, Installing,
       Granted, SaveConfig, SaveOverride, InstallerEnds, Pairing, CheckToken, ConsumeToken,
       PairDisconnect, RefusePairing, AskPairing, CreatePairing, ExpireToken, ControllerRestart

\* Revocation: a secret that was pending is gone, and no rotation begins.
LEMMA InitRevoked == Init => RevokedInv
BY SecretsAssumption DEF Init, RevokedInv

LEMMA NextRevoked == RevokedInv /\ [Next]_vars => RevokedInv'
<1> SUFFICES ASSUME RevokedInv, RowStep PROVE RevokedInv'
  BY RowSteps
<1> USE SecretsAssumption DEF RevokedInv
<1>1. CASE UNCHANGED <<row, history>>
  BY <1>1 DEF row, history
<1>2. ASSUME NEW r \in Rotations, Begin(r) PROVE RevokedInv'
  BY <1>2 DEF Begin, BeginCredentialRotation
<1>3. ASSUME NEW r \in Rotations, Clear(r) PROVE RevokedInv'
  BY <1>3 DEF Clear, ClearCredentialRotation
<1>4. CASE PromoteCredential
  BY <1>4 DEF PromoteCredential, history
<1>5. CASE Revoke
  BY <1>5 DEF Revoke, RevokeCredential
<1>6. ASSUME NEW p \in Pairings, Prepare(p) PROVE RevokedInv'
  BY <1>6 DEF Prepare, PrepareReenrollment
<1>7. CASE Expire
  BY <1>7 DEF Expire, history
<1> QED
  BY <1>1, <1>2, <1>3, <1>4, <1>5, <1>6, <1>7 DEF RowStep

-----------------------------------------------------------------------------
\* What a step does to the Agent.
AgentStep ==
    \/ UNCHANGED agentVars
    \/ \E r \in Rotations : \/ Send(r) \/ Stale(r) \/ AcceptCommand(r) \/ SaveRotated(r)
                            \/ UseRotated(r)
    \/ AgentStops \/ AgentStarts \/ Installing
    \/ \E p \in Pairings, t \in Tokens : AskPairing(p, t)

LEMMA AgentSteps == [Next]_vars => AgentStep
BY DEF Next, vars, AgentStep, Connecting, Dial, Authenticate, Promote, Register, Drop, Rotating,
       CheckOnline, Begin, ReportFailure, Clear, End, Revoke, RevokeDisconnect, Expire,
       Pairing, CheckToken, ConsumeToken, Prepare, PairDisconnect, RefusePairing,
       CreatePairing, ExpireToken, ControllerRestart

\* The secrets the Agent works with have been on its disk.
AgentHeld ==
    /\ Disk \in held
    /\ memory # None => memory \in held
    /\ running => memory # None
    /\ \A r \in Rotations : delivery[r] \in {"saved", "done"} => r \in held

LEMMA NextAgentHeld == TypeOK /\ AgentHeld /\ [Next]_vars => AgentHeld' /\ held \subseteq held'
<1> DEFINE Goal == AgentHeld' /\ held \subseteq held'
<1> SUFFICES ASSUME TypeOK, AgentHeld, AgentStep PROVE Goal
  BY AgentSteps
<1> USE DEF TypeOK, AgentOK, AgentHeld, Disk
<1>1. CASE UNCHANGED agentVars
  BY <1>1 DEF agentVars, diskVars
<1>2. ASSUME NEW r \in Rotations, Send(r) \/ Stale(r) \/ AcceptCommand(r) PROVE Goal
  BY <1>2 DEF Send, Stale, AcceptCommand, diskVars
<1>3. ASSUME NEW r \in Rotations, SaveRotated(r) PROVE Goal
  BY <1>3, SecretsAssumption DEF SaveRotated, Save, diskVars
<1>4. ASSUME NEW r \in Rotations, UseRotated(r) PROVE Goal
  BY <1>4, SecretsAssumption DEF UseRotated, diskVars
<1>5. CASE AgentStops
  BY <1>5 DEF AgentStops, Forget
<1>6. CASE AgentStarts
  BY <1>6, SecretsAssumption DEF AgentStarts, diskVars, Secrets
<1>7. CASE Installing
  BY <1>7, SecretsAssumption DEF Installing, Granted, SaveConfig, SaveOverride, InstallerEnds,
                                 Save, diskVars
<1>8. ASSUME NEW p \in Pairings, NEW t \in Tokens, AskPairing(p, t) PROVE Goal
  BY <1>8 DEF AskPairing, diskVars
<1> QED
  BY <1>1, <1>2, <1>3, <1>4, <1>5, <1>6, <1>7, <1>8 DEF AgentStep

LEMMA InitHeld == Init => HeldInv
BY SecretsAssumption DEF Init, HeldInv, Disk

LEMMA NextHeld == TypeOK /\ HeldInv /\ [Next]_vars => HeldInv'
<1> SUFFICES ASSUME TypeOK, HeldInv, [Next]_vars PROVE HeldInv'
  OBVIOUS
<1>1. AgentHeld' /\ held \subseteq held'
  BY NextAgentHeld DEF HeldInv, AgentHeld
<1>2. ASSUME NEW h \in Handlers, step'[h] # "idle" PROVE presented'[h] \in held'
  <2>1. \/ step[h] # "idle" /\ presented'[h] = presented[h]
        \/ presented'[h] = memory /\ memory # None
    <3>1. ASSUME NEW g \in Handlers, Connecting(g)
          PROVE  \/ step[h] # "idle" /\ presented'[h] = presented[h]
                 \/ presented'[h] = memory /\ memory # None
      <4>1. CASE Dial(g)
        BY <1>2, <4>1 DEF TypeOK, ConnOK, HeldInv, Dial
      <4>2. CASE Authenticate(g) \/ Promote(g) \/ Drop(g)
        BY <1>2, <4>2 DEF TypeOK, ConnOK, Authenticate, Promote, Drop
      <4>3. CASE Register(g)
        BY <1>2, <4>3 DEF TypeOK, ConnOK, Register
      <4> QED
        BY <3>1, <4>1, <4>2, <4>3 DEF Connecting
    <3>2. CASE Disconnect
      BY <1>2, <3>2 DEF TypeOK, ConnOK, Disconnect
    <3>3. CASE ControllerRestart
      BY <1>2, <3>3 DEF ControllerRestart
    <3>4. CASE UNCHANGED connVars
      BY <1>2, <3>4 DEF connVars
    <3>5. \/ \E g \in Handlers : Connecting(g)
          \/ Disconnect \/ ControllerRestart \/ UNCHANGED connVars
      BY DEF Next, vars, Rotating, CheckOnline, Begin, Send, ReportFailure, Clear, End, Stale,
             AcceptCommand, SaveRotated, UseRotated, Revoke, RevokeDisconnect, Expire,
             AgentStops, AgentStarts, Installing, Granted, SaveConfig, SaveOverride,
             InstallerEnds, Pairing, CheckToken, ConsumeToken, Prepare, PairDisconnect,
             RefusePairing, AskPairing, CreatePairing, ExpireToken
    <3> QED
      BY <3>1, <3>2, <3>3, <3>4, <3>5
  <2> QED
    BY <1>1, <2>1 DEF HeldInv
<1> QED
  BY <1>1, <1>2 DEF HeldInv, AgentHeld

-----------------------------------------------------------------------------
\* The steps the last two invariants are about, by what they change.
QuietStep == UNCHANGED <<current, pending, discarded, rotation, pairing, agentVars>>
RotationStep(r) == CheckOnline(r) \/ ReportFailure(r) \/ End(r)
DeliveryStep(r) == Stale(r) \/ AcceptCommand(r) \/ UseRotated(r)
PairStep(p) == CheckToken(p) \/ ConsumeToken(p) \/ PairDisconnect(p) \/ RefusePairing(p)
PromoteStep(h) == Promote(h) /\ PromoteCredential /\ Promotable(presented[h])

DiskStep ==
    \/ QuietStep \/ Revoke \/ ControllerRestart
    \/ \E r \in Rotations : \/ RotationStep(r) \/ DeliveryStep(r) \/ Begin(r) \/ Send(r)
                            \/ Clear(r) \/ SaveRotated(r)
    \/ \E p \in Pairings : PairStep(p) \/ Prepare(p) \/ \E t \in Tokens : AskPairing(p, t)
    \/ \E h \in Handlers : PromoteStep(h)
    \/ AgentStops \/ AgentStarts \/ Granted \/ SaveConfig \/ SaveOverride \/ InstallerEnds

LEMMA DiskSteps == [Next]_vars => DiskStep
<1> SUFFICES ASSUME [Next]_vars PROVE DiskStep
  OBVIOUS
<1>1. ASSUME NEW h \in Handlers, Connecting(h) PROVE QuietStep \/ PromoteStep(h)
  BY <1>1 DEF Connecting, Dial, Authenticate, Promote, Register, Drop, QuietStep, PromoteStep,
              row, history, adminVars, pairVars
<1>2. ASSUME NEW r \in Rotations, Rotating(r)
      PROVE  \/ RotationStep(r) \/ DeliveryStep(r)
             \/ Begin(r) \/ Send(r) \/ Clear(r) \/ SaveRotated(r)
  BY <1>2 DEF Rotating, RotationStep, DeliveryStep
<1>3. ASSUME NEW p \in Pairings, Pairing(p)
      PROVE  PairStep(p) \/ Prepare(p) \/ \E t \in Tokens : AskPairing(p, t)
  BY <1>3 DEF Pairing, PairStep
<1>4. ASSUME NEW t \in Tokens, CreatePairing(t) \/ ExpireToken(t) PROVE QuietStep
  BY <1>4 DEF CreatePairing, ExpireToken, QuietStep, row, history, adminVars
<1>5. RevokeDisconnect \/ Expire \/ UNCHANGED vars => QuietStep
  BY DEF RevokeDisconnect, Expire, QuietStep, vars, row, history, adminVars, pairVars
<1> QED
  BY <1>1, <1>2, <1>3, <1>4, <1>5 DEF Next, DiskStep, Installing

\* A secret reaches the Agent's disk only after it was handed out, and an installer works
\* alone on the files.
LEMMA InitUnused == Init => UnusedInv
BY SecretsAssumption DEF Init, UnusedInv

LEMMA NextUnused == TypeOK /\ HeldInv /\ UnusedInv /\ [Next]_vars => UnusedInv'
<1> SUFFICES ASSUME TypeOK, HeldInv, UnusedInv, DiskStep PROVE UnusedInv'
  BY DiskSteps
<1> USE DEF TypeOK, AdminOK, PairOK, AgentOK, UnusedInv
<1>1. CASE QuietStep
  BY <1>1 DEF QuietStep, agentVars, diskVars, Disk
<1>2. CASE Revoke
  BY <1>2 DEF Revoke, agentVars, diskVars, pairVars, Disk
<1>3. CASE ControllerRestart
  BY <1>3 DEF ControllerRestart, agentVars, diskVars, Disk
<1>4. ASSUME NEW r \in Rotations, RotationStep(r) PROVE UnusedInv'
  BY <1>4 DEF RotationStep, CheckOnline, ReportFailure, End, agentVars, diskVars, pairVars, Disk
<1>5. ASSUME NEW r \in Rotations, DeliveryStep(r) PROVE UnusedInv'
  BY <1>5 DEF DeliveryStep, Stale, AcceptCommand, UseRotated, diskVars, pairVars, adminVars, Disk
<1>6. ASSUME NEW r \in Rotations, Begin(r) \/ Clear(r) PROVE UnusedInv'
  BY <1>6 DEF Begin, Clear, agentVars, diskVars, pairVars, Disk
<1>7. ASSUME NEW r \in Rotations, Send(r) PROVE UnusedInv'
  BY <1>7 DEF Send, diskVars, pairVars, Disk
<1>8. ASSUME NEW r \in Rotations, SaveRotated(r) PROVE UnusedInv'
  BY <1>8, SecretsAssumption DEF SaveRotated, Save, diskVars, pairVars, adminVars, Disk
<1>9. ASSUME NEW p \in Pairings, PairStep(p) \/ Prepare(p) PROVE UnusedInv'
  BY <1>9 DEF PairStep, Prepare, CheckToken, ConsumeToken, PairDisconnect, RefusePairing,
              PairingStep, agentVars, adminVars, diskVars, Disk
<1>10. ASSUME NEW p \in Pairings, NEW t \in Tokens, AskPairing(p, t) PROVE UnusedInv'
  BY <1>10 DEF AskPairing, adminVars, diskVars, Disk
<1>11. ASSUME NEW h \in Handlers, PromoteStep(h) PROVE UnusedInv'
  BY <1>11 DEF PromoteStep, Promote, adminVars, pairVars, agentVars, diskVars, Disk
<1>12. CASE AgentStops
  BY <1>12 DEF AgentStops, Forget, adminVars, pairVars, Disk
<1>13. CASE AgentStarts
  BY <1>13 DEF AgentStarts, adminVars, pairVars, diskVars, Disk
<1>14. CASE Granted \/ InstallerEnds
  BY <1>14 DEF Granted, InstallerEnds, adminVars, pairVars, diskVars, Disk
<1>15. CASE SaveConfig
  BY <1>15, SecretsAssumption DEF SaveConfig, Save, adminVars, pairVars, Disk, HeldInv
<1>16. CASE SaveOverride
  BY <1>16, SecretsAssumption DEF SaveOverride, Save, adminVars, pairVars, Disk, HeldInv
<1> QED
  BY <1>1, <1>2, <1>3, <1>4, <1>5, <1>6, <1>7, <1>8, <1>9, <1>10, <1>11, <1>12, <1>13, <1>14,
     <1>15, <1>16 DEF DiskStep

-----------------------------------------------------------------------------
\* A new secret stays in the row, or is among the discarded ones, until the Agent has it;
\* then the row is no longer where the Agent's secret can be lost.
LEMMA InitDisk == Init => DiskInv
BY SecretsAssumption DEF Init, DiskInv, LockoutNeedsDiscard, Disk

\* What the Agent presents was on its disk, so a promotion takes a secret it has had.
LEMMA PromotedHeld ==
    ASSUME HeldInv, NEW h \in Handlers, PromoteStep(h)
    PROVE  pending \in held /\ current' = pending /\ pending' = None /\ UNCHANGED discarded
BY DEF HeldInv, PromoteStep, Promote, PromoteCredential, Promotable, history

LEMMA NextDisk == TypeOK /\ HeldInv /\ UnusedInv /\ DiskInv /\ [Next]_vars => DiskInv'
<1> SUFFICES ASSUME TypeOK, HeldInv, UnusedInv, DiskInv, DiskStep PROVE DiskInv'
  BY DiskSteps
<1> USE DEF TypeOK, RowOK, AdminOK, PairOK, AgentOK, DiskInv, LockoutNeedsDiscard
<1>1. CASE QuietStep
  BY <1>1 DEF QuietStep, agentVars, diskVars, Disk
<1>2. CASE Revoke
  BY <1>2, SecretsAssumption
     DEF Revoke, RevokeCredential, Discard, agentVars, diskVars, pairVars, Disk, Secrets
<1>3. CASE ControllerRestart
  BY <1>3 DEF ControllerRestart, row, history, agentVars, diskVars, Disk
<1>4. ASSUME NEW r \in Rotations, RotationStep(r) PROVE DiskInv'
  BY <1>4 DEF RotationStep, CheckOnline, ReportFailure, End, row, history, agentVars,
              diskVars, pairVars, Disk
<1>5. ASSUME NEW r \in Rotations, DeliveryStep(r) PROVE DiskInv'
  BY <1>5 DEF DeliveryStep, Stale, AcceptCommand, UseRotated, row, history, diskVars,
              pairVars, adminVars, Disk
<1>6. ASSUME NEW r \in Rotations, Begin(r) PROVE DiskInv'
  <2>1. UNCHANGED <<pairVars, agentVars>> /\ pending' = r /\ current' = current
    BY <1>6 DEF Begin, BeginCredentialRotation
  <2>2. r \notin held
    BY <1>6 DEF Begin, UnusedInv
  <2>3. discarded \subseteq discarded' /\ (pending # None => pending \in discarded')
    BY <1>6 DEF Begin, BeginCredentialRotation, Discard
  <2>4. \A q \in Rotations : rotation'[q] = "begun" => rotation[q] = "begun" \/ q = r
    BY <1>6 DEF Begin
  <2> QED
    BY <2>1, <2>2, <2>3, <2>4, SecretsAssumption
       DEF agentVars, diskVars, pairVars, Disk, Secrets
<1>7. ASSUME NEW r \in Rotations, Clear(r) PROVE DiskInv'
  BY <1>7, SecretsAssumption
     DEF Clear, ClearCredentialRotation, Discard, agentVars, diskVars, pairVars, Disk, Secrets
<1>8. ASSUME NEW r \in Rotations, Send(r) PROVE DiskInv'
  BY <1>8 DEF Send, row, history, diskVars, pairVars, Disk, UnusedInv
<1>9. ASSUME NEW r \in Rotations, SaveRotated(r) PROVE DiskInv'
  BY <1>9, SecretsAssumption
     DEF SaveRotated, Save, row, history, diskVars, pairVars, adminVars, Disk, HeldInv, UnusedInv
<1>10. ASSUME NEW p \in Pairings, PairStep(p) PROVE DiskInv'
  BY <1>10 DEF PairStep, CheckToken, ConsumeToken, PairDisconnect, RefusePairing, PairingStep,
               row, history, agentVars, adminVars, diskVars, Disk
<1>11. ASSUME NEW p \in Pairings, Prepare(p) PROVE DiskInv'
  <2>1. UNCHANGED <<adminVars, agentVars>> /\ pending' = p /\ current' = current
    BY <1>11 DEF Prepare, PrepareReenrollment
  <2>2. p \notin held
    BY <1>11 DEF Prepare, PairingStep, UnusedInv
  <2>3. discarded \subseteq discarded' /\ (pending # None => pending \in discarded')
    BY <1>11 DEF Prepare, PrepareReenrollment, Discard
  <2>4. \A q \in Pairings : pairing'[q] \in {"prepared", "answered"} =>
                                pairing[q] \in {"prepared", "answered"} \/ q = p
    BY <1>11 DEF Prepare, PairingStep
  <2> QED
    BY <2>1, <2>2, <2>3, <2>4, SecretsAssumption
       DEF agentVars, diskVars, adminVars, Disk, Secrets
<1>12. ASSUME NEW p \in Pairings, NEW t \in Tokens, AskPairing(p, t) PROVE DiskInv'
  BY <1>12 DEF AskPairing, row, history, adminVars, diskVars, Disk
<1>13. ASSUME NEW h \in Handlers, PromoteStep(h) PROVE DiskInv'
  <2>1. UNCHANGED <<adminVars, pairVars, agentVars>>
    BY <1>13 DEF PromoteStep, Promote
  <2> QED
    BY <1>13, <2>1, PromotedHeld, SecretsAssumption
       DEF adminVars, pairVars, agentVars, diskVars, Disk, UnusedInv, Secrets
<1>14. CASE AgentStops
  BY <1>14 DEF AgentStops, Forget, row, history, adminVars, pairVars, Disk, HeldInv
<1>15. CASE AgentStarts
  BY <1>15 DEF AgentStarts, row, history, adminVars, pairVars, diskVars, Disk
<1>16. CASE Granted \/ InstallerEnds
  BY <1>16 DEF Granted, InstallerEnds, row, history, adminVars, pairVars, diskVars, Disk
<1>17. CASE SaveConfig
  BY <1>17, SecretsAssumption
     DEF SaveConfig, Save, row, history, adminVars, pairVars, Disk, HeldInv, UnusedInv
<1>18. CASE SaveOverride
  BY <1>18, SecretsAssumption
     DEF SaveOverride, Save, row, history, adminVars, pairVars, Disk, HeldInv, UnusedInv
<1> QED
  BY <1>1, <1>2, <1>3, <1>4, <1>5, <1>6, <1>7, <1>8, <1>9, <1>10, <1>11, <1>12, <1>13, <1>14,
     <1>15, <1>16, <1>17, <1>18 DEF DiskStep

-----------------------------------------------------------------------------
IInv == TypeOK /\ TokenInv /\ RevokedInv /\ HeldInv /\ UnusedInv /\ DiskInv

LEMMA InitIInv == Init => IInv
BY InitType, InitToken, InitRevoked, InitHeld, InitUnused, InitDisk DEF IInv

LEMMA NextIInv == IInv /\ [Next]_vars => IInv'
BY NextType, NextToken, NextRevoked, NextHeld, NextUnused, NextDisk DEF IInv

\* Every field of the row, the handlers and the Agent keeps its type, and an expiry belongs to
\* a pending secret.
THEOREM CredentialsTypeCorrect == Spec => []TypeOK
<1>1. IInv => TypeOK BY DEF IInv
<1> QED BY InitIInv, NextIInv, <1>1, PTL DEF Spec

\* A re-pairing token yields one secret, whatever requests race for it.
THEOREM TokensUsedOnce == Spec => []OneSecretPerToken
<1>1. IInv => OneSecretPerToken BY DEF IInv, TokenInv
<1> QED BY InitIInv, NextIInv, <1>1, PTL DEF Spec

\* An Agent is locked out only by a secret the controller discarded, or by a rotation command
\* that reached a second process of the Agent.
THEOREM LockoutsExplained == Spec => []LockoutNeedsDiscard
<1>1. IInv => LockoutNeedsDiscard BY DEF IInv, DiskInv
<1> QED BY InitIInv, NextIInv, <1>1, PTL DEF Spec

-----------------------------------------------------------------------------
\* Only a promotion changes the secret in force or ends a revocation.
LEMMA RowPromotion ==
    ASSUME [Next]_vars, current' # current \/ (revoked /\ ~revoked')
    PROVE  \E h \in Handlers : PromoteStep(h)
<1>1. CASE UNCHANGED <<row, history>>
  BY <1>1 DEF row
<1>2. ASSUME NEW r \in Rotations, Begin(r) PROVE FALSE
  BY <1>2 DEF Begin, BeginCredentialRotation
<1>3. ASSUME NEW r \in Rotations, Clear(r) PROVE FALSE
  BY <1>3 DEF Clear, ClearCredentialRotation
<1>4. CASE Revoke
  BY <1>4 DEF Revoke, RevokeCredential
<1>5. ASSUME NEW p \in Pairings, Prepare(p) PROVE FALSE
  BY <1>5 DEF Prepare, PrepareReenrollment
<1>6. CASE Expire
  BY <1>6 DEF Expire
<1> QED
  BY RowSteps, <1>1, <1>2, <1>3, <1>4, <1>5, <1>6 DEF RowStep, PromoteStep

\* The secret in force is replaced only by one the Agent has had on disk.
THEOREM CurrentReplacedByHeld == Spec => ReplacedByHeld
<1>1. IInv /\ [Next]_vars => (current' # current => current' \in held)
  BY RowPromotion, PromotedHeld DEF IInv
<1>2. IInv /\ [Next]_vars => [current' # current => current' \in held]_vars
  BY <1>1
<1> QED BY InitIInv, NextIInv, <1>2, PTL DEF Spec, ReplacedByHeld

\* A revocation ends only with a re-pairing prepared after it: what it found pending is gone.
THEOREM RevocationsStand == Spec => RevocationStands
<1>1. IInv /\ [Next]_vars => (revoked /\ ~revoked' => current' \in since)
  <2> SUFFICES ASSUME IInv, [Next]_vars, revoked, ~revoked' PROVE current' \in since
    OBVIOUS
  <2>1. PICK h \in Handlers : PromoteStep(h)
    BY RowPromotion
  <2>2. pending \in held /\ current' = pending
    BY <2>1, PromotedHeld DEF IInv
  <2> QED
    BY <2>2, SecretsAssumption DEF IInv, TypeOK, RowOK, AgentOK, RevokedInv, Secrets
<1>2. IInv /\ [Next]_vars => [revoked /\ ~revoked' => current' \in since]_vars
  BY <1>1
<1> QED BY InitIInv, NextIInv, <1>2, PTL DEF Spec, RevocationStands
=============================================================================
