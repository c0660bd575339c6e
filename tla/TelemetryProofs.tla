--------------------------- MODULE TelemetryProofs ---------------------------
(***************************************************************************)
(* Proofs about what the controller shows of an Agent.                     *)
(*                                                                         *)
(* Presence: its type invariant and that the row tells the truth between   *)
(* its writes, for every number of connections and faults.                 *)
(*                                                                         *)
(* DropCounter, for every number of packets, minutes and reports and every *)
(* width of the counters.  A counter is exact when what it has and what    *)
(* its next sample would add were really dropped (Exact); that holds of    *)
(* the one in the file as well, so a restart loses packets but invents     *)
(* none.  Samples of later minutes are then larger (Ordered), the drops of *)
(* the intervals of a chart are the sizes of disjoint stretches of the     *)
(* count, and their sum, whatever order the fold takes them in, is the     *)
(* size of the union (SumOfSizes, by induction over the set of intervals). *)
(***************************************************************************)
EXTENDS Presence, DropCounter, FiniteSetTheorems, TLAPS

\* A connection that has been rejected or found gone is no longer registered.
MarkerGone == \A c \in Conns : pc[c] \in {"look", "mark"} => registered # c

\* A row that does not say what is registered is about to be written again: by the handler of
\* the connection that is registered, or by one that has just removed its own.
Mended ==
    /\ registered # None =>
           (status = "online" /\ secure) \/ pc[registered] = "greet" \/ admin = "cut"
    /\ registered = None =>
           \/ status = "offline"
           \/ \E c \in Conns : pc[c] \in {"look", "mark"}
           \/ \E c \in Sessions : expiry[c] = "mark"

IInv ==
    /\ TypeOK /\ MarkerGone
    /\ secure => status = "online"
    /\ ~misled => Mended

-----------------------------------------------------------------------------
LEMMA InitIInv == Init => IInv
<1> SUFFICES ASSUME Init PROVE IInv
  OBVIOUS
<1>1. secure \in BOOLEAN /\ recent \in BOOLEAN /\ misled \in BOOLEAN BY Zenon DEF Init
<1>2. TypeOK BY <1>1, ConnsAssumption DEF Init, TypeOK, Conns
<1>3. MarkerGone /\ Mended BY ConnsAssumption DEF Init, MarkerGone, Mended, Conns
<1> QED BY <1>2, <1>3 DEF Init, IInv

\* SetAgentOffline and UnregisterSelf leave a type to each variable they write.
LEMMA NextTypeOK == TypeOK /\ MarkerGone /\ [Next]_vars => TypeOK' /\ MarkerGone'
<1> SUFFICES ASSUME TypeOK, MarkerGone, [Next]_vars PROVE TypeOK' /\ MarkerGone'
  OBVIOUS
<1> USE ConnsAssumption DEF TypeOK, MarkerGone, Conns, rowVars, agentVars, Goto
<1>1. CASE HangUp BY <1>1 DEF HangUp
<1>2. CASE FourSeconds BY <1>2 DEF FourSeconds
<1>3. CASE Revoke
  <2>1. secure' \in BOOLEAN BY <1>3, Zenon DEF Revoke
  <2> QED BY <1>3, <2>1 DEF Revoke
<1>4. CASE Disconnect BY <1>4 DEF Disconnect
<1>5. CASE Restart
  <2>1. recent' \in BOOLEAN /\ misled' \in BOOLEAN BY <1>5, Zenon DEF Restart
  <2>2. pc' \in [Conns -> {"new", "end"}] /\ expiry' \in [Sessions -> {"off", "end"}]
    BY <1>5 DEF Restart
  <2>3. registered' = None /\ mail' = {} /\ admin' = "idle" /\ faults' \in 0..MaxFaults
    BY <1>5 DEF Restart
  <2> QED BY <1>5, <2>1, <2>2, <2>3 DEF Restart
<1>6. ASSUME NEW c \in Conns, Dial(c) PROVE TypeOK' /\ MarkerGone' BY <1>6 DEF Dial
<1>7. ASSUME NEW c \in Conns, Report(c) PROVE TypeOK' /\ MarkerGone' BY <1>7 DEF Report
<1>8. ASSUME NEW c \in Conns, Register(c) PROVE TypeOK' /\ MarkerGone' BY <1>8 DEF Register
<1>9. ASSUME NEW c \in Conns, Abort(c) PROVE TypeOK' /\ MarkerGone' BY <1>9 DEF Abort
<1>10. ASSUME NEW c \in Conns, Greet(c) PROVE TypeOK' /\ MarkerGone'
  BY <1>10 DEF Greet, SetAgentConnected
<1>11. ASSUME NEW c \in Conns, NEW from \in {"open", "begun"}, Accept(c, from)
       PROVE TypeOK' /\ MarkerGone'
  BY <1>11 DEF Accept
<1>12. ASSUME NEW c \in Conns, Read(c) \/ Decrypt(c) PROVE TypeOK' /\ MarkerGone'
  BY <1>11, <1>12 DEF Read, Decrypt
<1>13. ASSUME NEW c \in Conns, Begin(c) PROVE TypeOK' /\ MarkerGone' BY <1>13 DEF Begin
<1>14. ASSUME NEW c \in Conns, Store(c) PROVE TypeOK' /\ MarkerGone'
  BY <1>14 DEF Store, UpdateTelemetry
<1>15. ASSUME NEW c \in Conns, StopReading(c) PROVE TypeOK' /\ MarkerGone'
  BY <1>15 DEF StopReading
<1>16. ASSUME NEW c \in Conns, Unregister(c) PROVE TypeOK' /\ MarkerGone'
  BY <1>16 DEF Unregister, UnregisterSelf
<1>17. ASSUME NEW c \in Conns, Look(c) PROVE TypeOK' /\ MarkerGone' BY <1>17 DEF Look
<1>18. ASSUME NEW c \in Conns, Mark(c) PROVE TypeOK' /\ MarkerGone'
  BY <1>18 DEF Mark, SetAgentOffline
<1>19. ASSUME NEW c \in Conns, Reject(c) PROVE TypeOK' /\ MarkerGone'
  BY <1>19 DEF Reject, UnregisterSelf
<1>20. ASSUME NEW c \in Sessions, Expire(c) PROVE TypeOK' /\ MarkerGone' BY <1>20 DEF Expire
<1>21. ASSUME NEW c \in Sessions, MarkExpired(c) PROVE TypeOK' /\ MarkerGone'
  BY <1>21 DEF MarkExpired, SetAgentOffline
<1>22. CASE UNCHANGED vars BY <1>22 DEF vars
<1> QED
  BY <1>1, <1>2, <1>3, <1>4, <1>5, <1>6, <1>7, <1>8, <1>9, <1>10, <1>12, <1>13, <1>14, <1>15,
     <1>16,
     <1>17, <1>18, <1>19, <1>20, <1>21, <1>22 DEF Next, Handle, Expiring

LEMMA NextMended ==
    IInv /\ [Next]_vars => (secure' => status' = "online") /\ (~misled' => Mended')
<1> SUFFICES ASSUME IInv, [Next]_vars
             PROVE  (secure' => status' = "online") /\ (~misled' => Mended')
  OBVIOUS
<1> DEFINE Goal == (secure' => status' = "online") /\ (~misled' => Mended')
<1> USE ConnsAssumption DEF IInv, TypeOK, MarkerGone, Mended, Conns, rowVars, agentVars, Goto
<1>1. CASE HangUp BY <1>1 DEF HangUp
<1>2. CASE FourSeconds BY <1>2 DEF FourSeconds
<1>3. CASE Revoke BY <1>3 DEF Revoke
<1>4. CASE Disconnect BY <1>4 DEF Disconnect
<1>5. CASE Restart BY <1>5 DEF Restart
<1>6. ASSUME NEW c \in Conns, Dial(c) PROVE Goal BY <1>6 DEF Dial
<1>7. ASSUME NEW c \in Conns, Report(c) PROVE Goal BY <1>7 DEF Report
<1>8. ASSUME NEW c \in Conns, Register(c) PROVE Goal BY <1>8 DEF Register
<1>9. ASSUME NEW c \in Conns, Abort(c) PROVE Goal BY <1>9 DEF Abort
<1>10. ASSUME NEW c \in Conns, Greet(c) PROVE Goal
  <2>1. CASE SetAgentConnected
    <3>1. status' = "online" /\ secure' /\ registered' = registered
      BY <1>10, <2>1 DEF Greet, SetAgentConnected
    <3>2. misled' = (registered = None) BY <2>1 DEF SetAgentConnected
    <3> QED BY <3>1, <3>2
  <2>2. CASE misled' = TRUE /\ UNCHANGED rowVars BY <2>2
  <2> QED BY <1>10, <2>1, <2>2 DEF Greet
<1>11. ASSUME NEW c \in Conns, NEW from \in {"open", "begun"}, Accept(c, from) PROVE Goal
  BY <1>11 DEF Accept
<1>12. ASSUME NEW c \in Conns, Read(c) \/ Decrypt(c) PROVE Goal
  BY <1>11, <1>12 DEF Read, Decrypt
<1>13. ASSUME NEW c \in Conns, Begin(c) PROVE Goal BY <1>13 DEF Begin
<1>14. ASSUME NEW c \in Conns, Store(c) PROVE Goal
  <2>1. CASE UpdateTelemetry
    <3>1. status' = "online" /\ secure' = secure BY <2>1 DEF UpdateTelemetry
    <3>2. CASE registered = None
      <4>1. misled' BY <2>1, <3>2 DEF UpdateTelemetry
      <4> QED BY <3>1, <4>1
    <3>3. CASE registered # None
      <4>1. misled' = misled BY <2>1, <3>3 DEF UpdateTelemetry
      <4>2. ~misled => (secure \/ pc'[registered] = "greet" \/ admin = "cut")
        BY <1>14, <3>3 DEF Store
      <4>3. registered' = registered /\ admin' = admin BY <1>14 DEF Store
      <4> QED BY <3>1, <3>3, <4>1, <4>2, <4>3
    <3> QED BY <3>2, <3>3
  <2>2. CASE UNCHANGED <<rowVars, misled>> BY <1>14, <2>2 DEF Store
  <2> QED BY <1>14, <2>1, <2>2 DEF Store
<1>15. ASSUME NEW c \in Conns, StopReading(c) PROVE Goal BY <1>15 DEF StopReading
<1>16. ASSUME NEW c \in Conns, Unregister(c) PROVE Goal BY <1>16 DEF Unregister, UnregisterSelf
<1>17. ASSUME NEW c \in Conns, Look(c) PROVE Goal BY <1>17 DEF Look
<1>18. ASSUME NEW c \in Conns, Mark(c) PROVE Goal BY <1>18 DEF Mark, SetAgentOffline
<1>19. ASSUME NEW c \in Conns, Reject(c) PROVE Goal BY <1>19 DEF Reject, UnregisterSelf
<1>20. ASSUME NEW c \in Sessions, Expire(c) PROVE Goal BY <1>20 DEF Expire
<1>21. ASSUME NEW c \in Sessions, MarkExpired(c) PROVE Goal
  BY <1>21 DEF MarkExpired, SetAgentOffline
<1>22. CASE UNCHANGED vars BY <1>22 DEF vars
<1> QED
  BY <1>1, <1>2, <1>3, <1>4, <1>5, <1>6, <1>7, <1>8, <1>9, <1>10, <1>12, <1>13, <1>14, <1>15,
     <1>16,
     <1>17, <1>18, <1>19, <1>20, <1>21, <1>22 DEF Next, Handle, Expiring

LEMMA NextIInv == IInv /\ [Next]_vars => IInv'
<1> SUFFICES ASSUME IInv, [Next]_vars PROVE IInv'
  OBVIOUS
<1>1. TypeOK' /\ MarkerGone' BY NextTypeOK DEF IInv
<1>2. (secure' => status' = "online") /\ (~misled' => Mended') BY NextMended
<1> QED BY <1>1, <1>2 DEF IInv

-----------------------------------------------------------------------------
\* Every variable keeps its type, and only a connection whose handler runs is registered.
THEOREM PresenceTypeCorrect == Spec => []TypeOK
<1>1. Init => IInv BY InitIInv
<1>2. IInv /\ [Next]_vars => IInv' BY NextIInv
<1>3. IInv => TypeOK BY DEF IInv
<1> QED BY <1>1, <1>2, <1>3, PTL DEF Spec

\* Between its writes the row of the Agent tells whether it is connected (server.go:489, 620,
\* 643), whatever connections replace, overlap and follow each other.
THEOREM RowTellsTruth == Spec => []RowIsTrue
<1>1. Init => IInv BY InitIInv
<1>2. IInv /\ [Next]_vars => IInv' BY NextIInv
<1>3. IInv => RowIsTrue
  <2> SUFFICES ASSUME IInv, Quiet, ~misled
               PROVE  (status = "online") = (registered # None) /\ secure = (registered # None)
    BY DEF RowIsTrue
  <2>1. Mended /\ TypeOK /\ (secure => status = "online") BY DEF IInv
  <2>2. CASE registered # None
    <3>1. pc[registered] # "greet" /\ admin # "cut" BY <2>1, <2>2 DEF Quiet, TypeOK, Conns
    <3> QED BY <2>1, <2>2, <3>1 DEF Mended
  <2>3. CASE registered = None
    <3>1. \A c \in Conns : pc[c] \notin {"look", "mark"} BY DEF Quiet, Conns
    <3>2. \A c \in Sessions : expiry[c] # "mark" BY DEF Quiet
    <3>3. status = "offline" BY <2>1, <2>3, <3>1, <3>2 DEF Mended
    <3>4. secure = FALSE BY <2>1, <3>3 DEF TypeOK
    <3> QED BY <2>3, <3>3, <3>4
  <2> QED BY <2>2, <2>3
<1> QED BY <1>1, <1>2, <1>3, PTL DEF Spec

-----------------------------------------------------------------------------
\* Induction over a finite set, for a property given as the set P of the subsets that have it.
LEMMA SetInduction ==
    ASSUME NEW S, IsFiniteSet(S), NEW P, {} \in P,
           \A T \in SUBSET S : T # {} /\ (\A x \in T : T \ {x} \in P) => T \in P
    PROVE  S \in P
<1> DEFINE R == StrictSubsetOrdering(S)
           F == FiniteSubsetsOf(S)
           Bad == {T \in F : T \notin P}
<1> SUFFICES ASSUME S \notin P PROVE FALSE
  OBVIOUS
<1>1. S \in Bad BY DEF FiniteSubsetsOf
<1>2. PICK T \in Bad : \A U \in Bad : <<U, T>> \notin R
  <2>1. Bad \subseteq F /\ Bad # {} BY <1>1
  <2>2. IsWellFoundedOn(R, F) BY FS_StrictSubsetOrderingWellFounded
  <2> HIDE DEF R, F, Bad
  <2> QED BY <2>1, <2>2, WFMin
<1>3. T \in SUBSET S /\ IsFiniteSet(T) /\ T \notin P BY DEF FiniteSubsetsOf
<1>4. ASSUME NEW x \in T PROVE T \ {x} \in P
  <2>1. T \ {x} \in SUBSET S /\ IsFiniteSet(T \ {x}) BY <1>3, FS_RemoveElement
  <2>2. T \ {x} \in F BY <2>1 DEF FiniteSubsetsOf
  <2>3. <<T \ {x}, T>> \in R BY <1>3, <1>4, <2>1 DEF StrictSubsetOrdering
  <2> QED BY <1>2, <2>2, <2>3
<1> QED BY <1>3, <1>4

\* What is counted and compared here: parts of an interval, the extremes of a set, minutes
\* grouped into intervals.
LEMMA PartOfInterval ==
    ASSUME NEW a \in Int, NEW b \in Int, NEW T, T \subseteq a..b
    PROVE  /\ IsFiniteSet(T) /\ Cardinality(T) \in Nat
           /\ a <= b + 1 => Cardinality(T) <= b - a + 1
<1>1. IsFiniteSet(a..b) /\ Cardinality(a..b) = IF a > b THEN 0 ELSE b - a + 1 BY FS_Interval
<1>2. IsFiniteSet(T) /\ Cardinality(T) <= Cardinality(a..b) BY <1>1, FS_Subset
<1>3. Cardinality(T) \in Nat BY <1>2, FS_CardinalityType
<1> QED BY <1>1, <1>2, <1>3

LEMMA MaxOf ==
    ASSUME NEW S, IsFiniteSet(S), S # {}, S \subseteq Nat
    PROVE  Max(S) \in S /\ \A x \in S : x <= Max(S)
<1> DEFINE P == {T \in SUBSET S : T = {} \/ \E x \in T : \A y \in T : x >= y}
<1>1. {} \in P OBVIOUS
<1>2. ASSUME NEW T \in SUBSET S, T # {}, \A x \in T : T \ {x} \in P PROVE T \in P
  <2>0. PICK x \in T : T \ {x} \in P BY <1>2
  <2>1. CASE T \ {x} = {} BY <2>1
  <2>2. CASE T \ {x} # {}
    <3>1. PICK z \in T \ {x} : \A y \in T \ {x} : z >= y BY <2>0, <2>2
    <3>2. CASE z >= x BY <3>1, <3>2
    <3>3. CASE ~(z >= x)
      <4>1. \A y \in T : x >= y BY <3>1, <3>3
      <4> QED BY <4>1
    <3> QED BY <3>2, <3>3
  <2> QED BY <2>1, <2>2
<1>3. S \in P
  <2> HIDE DEF P
  <2> QED BY <1>1, <1>2, SetInduction
<1>4. \E x \in S : \A y \in S : x >= y BY <1>3
<1> QED BY <1>4 DEF Max

LEMMA MinOf ==
    ASSUME NEW S, IsFiniteSet(S), S # {}, S \subseteq Nat
    PROVE  Min(S) \in S /\ \A x \in S : Min(S) <= x
<1> DEFINE P == {T \in SUBSET S : T = {} \/ \E x \in T : \A y \in T : x =< y}
<1>1. {} \in P OBVIOUS
<1>2. ASSUME NEW T \in SUBSET S, T # {}, \A x \in T : T \ {x} \in P PROVE T \in P
  <2>0. PICK x \in T : T \ {x} \in P BY <1>2
  <2>1. CASE T \ {x} = {} BY <2>1
  <2>2. CASE T \ {x} # {}
    <3>1. PICK z \in T \ {x} : \A y \in T \ {x} : z =< y BY <2>0, <2>2
    <3>2. CASE z =< x BY <3>1, <3>2
    <3>3. CASE ~(z =< x)
      <4>1. \A y \in T : x =< y BY <3>1, <3>3
      <4> QED BY <4>1
    <3> QED BY <3>2, <3>3
  <2> QED BY <2>1, <2>2
<1>3. S \in P
  <2> HIDE DEF P
  <2> QED BY <1>1, <1>2, SetInduction
<1>4. \E x \in S : \A y \in S : x =< y BY <1>3
<1> QED BY <1>4 DEF Min

LEMMA DivOrder ==
    ASSUME NEW m \in Nat, NEW n \in Nat, NEW step \in Nat \ {0}, m \div step < n \div step
    PROVE  m < n
OBVIOUS
LEMMA DivNat ==
    ASSUME NEW m \in Nat, NEW step \in Nat \ {0}
    PROVE  m \div step \in 0..m
OBVIOUS

-----------------------------------------------------------------------------
States == [total : 0..MaxCount, raw : 0..MaxCount, ready : BOOLEAN]

\* The types of the variables, and what the kernel has to do with the packets dropped.
CounterTypes ==
    /\ kernel \in Nat /\ real \in Nat /\ kernel <= real /\ (~replaced => kernel = real)
    /\ counter \in States /\ disk \in States
    /\ minute \in Minutes
    /\ reports \in SUBSET [dropped : 0..MaxCount, minute : Minutes]
    /\ samples \in [Minutes -> 0..MaxCount \cup {NoSample}]
    /\ replaced \in BOOLEAN /\ forgotten \in BOOLEAN

\* What the next sample would add to a counter that has seen raw.
Ahead(raw) ==
    IF saturate(kernel) >= raw THEN saturate(kernel) - raw ELSE saturate(kernel)

\* A counter, in memory or in the file.
Exact(c) ==
    /\ c.ready => c.total + Ahead(c.raw) <= real
    /\ ~c.ready => c = Fresh
    /\ ~replaced => c.total = c.raw /\ c.raw <= saturate(kernel)

\* A later sample is at least an earlier one.
SamplesOrdered ==
    \A m, n \in Minutes :
        samples[m] # NoSample /\ samples[n] # NoSample /\ m < n => samples[m] <= samples[n]

\* Nothing reported is ahead of the counter, and of two reports or samples of different
\* minutes the later one is at least the earlier, until a counter is forgotten.
Ordered ==
    ~forgotten =>
        /\ \A r \in reports : r.dropped <= counter.total /\ r.minute <= minute
        /\ \A m \in Minutes :
               samples[m] # NoSample => samples[m] <= counter.total /\ m <= minute
        /\ \A r, q \in reports : r.minute < q.minute => r.dropped <= q.dropped
        /\ \A r \in reports, m \in Minutes : samples[m] # NoSample =>
               /\ r.minute < m => r.dropped <= samples[m]
               /\ m < r.minute => samples[m] <= r.dropped
        /\ SamplesOrdered

CounterInv == CounterTypes /\ Exact(counter) /\ Exact(disk) /\ Ordered

LEMMA Saturated ==
    ASSUME NEW n \in Nat
    PROVE  saturate(n) \in 0..MaxCount /\ saturate(n) <= n
BY CountAssumption DEF saturate

LEMMA InitCounterInv == CounterInit => CounterInv
<1> SUFFICES ASSUME CounterInit PROVE CounterInv
  OBVIOUS
<1> USE CountAssumption DEF CounterInit, Fresh, saturate
<1>1. CounterTypes
  <2>1. counter \in States /\ disk \in States BY DEF States
  <2>2. minute \in Minutes BY DEF Minutes
  <2>3. replaced \in BOOLEAN /\ forgotten \in BOOLEAN BY Zenon
  <2>4. samples \in [Minutes -> 0..MaxCount \cup {NoSample}] OBVIOUS
  <2>5. kernel \in Nat /\ real = kernel /\ reports = {} OBVIOUS
  <2> QED BY <2>1, <2>2, <2>3, <2>4, <2>5 DEF CounterTypes
<1>2. Exact(counter) /\ Exact(disk) BY DEF Exact
<1>3. Ordered BY DEF Ordered, SamplesOrdered
<1> QED BY <1>1, <1>2, <1>3 DEF CounterInv

\* A sample keeps a counter exact and never takes it back.
LEMMA Counted ==
    ASSUME CounterInv
    PROVE  LET c == cumulativeDrops(saturate(kernel))
           IN  c \in States /\ Exact(c) /\ counter.total <= c.total
<1>1. saturate(kernel) \in 0..MaxCount /\ saturate(kernel) <= kernel
  BY Saturated DEF CounterInv, CounterTypes
<1>2. counter \in States /\ kernel \in Nat /\ real \in Nat /\ kernel <= real /\ Exact(counter)
  BY DEF CounterInv, CounterTypes
<1> DEFINE c == cumulativeDrops(saturate(kernel))
<1>3. c.ready /\ c.raw = saturate(kernel) BY DEF cumulativeDrops
<1>4. CASE ~counter.ready
  <2>1. c.total = saturate(kernel) /\ counter.total = 0
    BY <1>2, <1>4 DEF cumulativeDrops, Exact, Fresh
  <2>2. c \in States BY <1>1, <1>4 DEF cumulativeDrops, States
  <2>3. Exact(c) BY <1>1, <1>2, <1>3, <2>1 DEF Exact, Ahead
  <2> QED BY <1>1, <2>1, <2>2, <2>3
<1>5. CASE counter.ready
  <2>1. c.total = saturate(counter.total + Ahead(counter.raw))
    BY <1>1, <1>5 DEF cumulativeDrops, saturatingAdd, Ahead
  <2>2. Ahead(counter.raw) \in Nat BY <1>1, <1>2 DEF Ahead, States
  <2>3. counter.total \in 0..MaxCount /\ counter.raw \in 0..MaxCount BY <1>2 DEF States
  <2>4. c.total \in 0..MaxCount /\ c.total <= counter.total + Ahead(counter.raw)
    BY <2>1, <2>2, <2>3, Saturated
  <2>5. c = [total |-> c.total, raw |-> saturate(kernel), ready |-> TRUE] BY DEF cumulativeDrops
  <2>6. c \in States
    <3>1. \A n \in 0..MaxCount :
              [total |-> n, raw |-> saturate(kernel), ready |-> TRUE] \in States
      BY <1>1 DEF States
    <3> HIDE DEF c
    <3> QED BY <2>4, <2>5, <3>1
  <2>7. counter.total <= c.total BY <2>1, <2>2, <2>3, CountAssumption DEF saturate
  <2>8. ~replaced => c.total = c.raw
    <3> SUFFICES ASSUME ~replaced PROVE c.total = c.raw
      OBVIOUS
    <3>1. counter.total + Ahead(counter.raw) = saturate(kernel)
      BY <1>1, <1>2, <2>3 DEF Exact, Ahead
    <3> QED BY <1>1, <1>3, <2>1, <3>1, CountAssumption DEF saturate
  <2>9. Exact(c)
    <3>1. Ahead(c.raw) = 0 BY <1>1, <1>3 DEF Ahead
    <3>2. c.total <= real BY <1>2, <1>5, <2>2, <2>3, <2>4 DEF Exact
    <3> QED BY <1>1, <1>3, <2>4, <2>8, <3>1, <3>2 DEF Exact
  <2> QED BY <2>6, <2>7, <2>9
<1> QED BY <1>4, <1>5

LEMMA NextCounterTypes == CounterInv /\ [CounterNext]_counterVars => CounterTypes'
<1> SUFFICES ASSUME CounterInv, [CounterNext]_counterVars PROVE CounterTypes'
  OBVIOUS
<1>0. cumulativeDrops(saturate(kernel)) \in States BY Counted
<1> HIDE DEF CounterInv
<1>a. CounterTypes BY DEF CounterInv
<1> USE <1>a, CountAssumption DEF CounterTypes, Minutes
<1>1. CASE Drop BY <1>1 DEF Drop
<1>2. CASE ReplaceTable BY <1>2 DEF ReplaceTable
<1>3. CASE Collect
  <2>1. counter' \in States /\ disk' \in States BY <1>0, <1>3 DEF Collect
  <2>2. counter'.total \in 0..MaxCount BY <2>1 DEF States
  <2>3. reports' = reports \cup {[dropped |-> counter'.total, minute |-> minute]}
    BY <1>3 DEF Collect, Submit
  <2> QED BY <1>3, <2>1, <2>2, <2>3 DEF Collect
<1>4. CASE CollectNothing
  <2>2. counter.total \in 0..MaxCount BY DEF States
  <2>3. reports' = reports \cup {[dropped |-> counter.total, minute |-> minute]}
    BY <1>4 DEF CollectNothing, Submit
  <2> QED BY <1>4, <2>2, <2>3 DEF CollectNothing
<1>5. CASE RestartAgent BY <1>5 DEF RestartAgent
<1>6. CASE Tick BY <1>6 DEF Tick
<1>7. ASSUME NEW r \in reports, Arrive(r) PROVE CounterTypes' BY <1>7 DEF Arrive
<1>8. ASSUME NEW r \in reports, Lose(r) PROVE CounterTypes' BY <1>8 DEF Lose
<1>9. CASE UNCHANGED counterVars BY <1>9 DEF counterVars
<1> QED BY <1>1, <1>2, <1>3, <1>4, <1>5, <1>6, <1>7, <1>8, <1>9 DEF CounterNext

\* What the kernel does keeps every counter exact, the one in memory as the one in the file.
LEMMA NextExact ==
    ASSUME CounterInv, [CounterNext]_counterVars, NEW c \in States, Exact(c)
    PROVE  Exact(c)'
<1>0. /\ kernel \in Nat /\ real \in Nat /\ kernel <= real
      /\ c.total \in 0..MaxCount /\ c.raw \in 0..MaxCount /\ c.ready \in BOOLEAN
  BY DEF CounterInv, CounterTypes, States
<1> USE <1>0, CountAssumption DEF Exact, Ahead, saturate
<1>1. CASE Drop BY <1>1 DEF Drop
<1>2. CASE ReplaceTable BY <1>2 DEF ReplaceTable
<1>3. CASE UNCHANGED <<kernel, real, replaced>> BY <1>3
<1> QED
  BY <1>1, <1>2, <1>3 DEF CounterNext, Collect, CollectNothing, RestartAgent, Tick, Arrive, Lose,
     counterVars

LEMMA NextCounters == CounterInv /\ [CounterNext]_counterVars => Exact(counter)' /\ Exact(disk)'
<1> SUFFICES ASSUME CounterInv, [CounterNext]_counterVars
             PROVE  Exact(counter)' /\ Exact(disk)'
  OBVIOUS
<1>1. PICK c \in States : c = counter /\ Exact(c) BY DEF CounterInv, CounterTypes
<1>2. PICK d \in States : d = disk /\ Exact(d) BY DEF CounterInv, CounterTypes
<1>3. PICK n \in States : n = cumulativeDrops(saturate(kernel)) /\ Exact(n) BY Counted
<1>4. counter' \in {c, d, n} /\ disk' \in {c, d, n}
  BY <1>1, <1>2, <1>3 DEF CounterNext, Drop, ReplaceTable, Collect, CollectNothing, RestartAgent,
     Tick, Arrive, Lose, counterVars
<1>5. Exact(c)' /\ Exact(d)' /\ Exact(n)' BY <1>1, <1>2, <1>3, NextExact
<1>6. ASSUME NEW x \in States, Exact(x)'
      PROVE  (counter' = x => Exact(counter)') /\ (disk' = x => Exact(disk)')
  BY <1>6 DEF Exact, Ahead
<1> QED BY <1>4, <1>5, <1>6

LEMMA NextOrdered == CounterInv /\ [CounterNext]_counterVars => Ordered'
<1> SUFFICES ASSUME CounterInv, [CounterNext]_counterVars, ~forgotten' PROVE Ordered'
  BY DEF Ordered
<1>1. /\ counter \in States /\ disk \in States
      /\ counter.total \in 0..MaxCount
      /\ reports \in SUBSET [dropped : 0..MaxCount, minute : Minutes]
      /\ samples \in [Minutes -> 0..MaxCount \cup {NoSample}]
      /\ minute \in Minutes
  BY DEF CounterInv, CounterTypes, States
<1>2. ~forgotten /\ Ordered
  BY DEF CounterInv, Ordered, CounterTypes, CounterNext, Drop, ReplaceTable, Collect,
     CollectNothing, RestartAgent, Tick, Arrive, Lose, counterVars
<1>c. counter' \in States BY NextCounterTypes DEF CounterTypes
<1> USE <1>1, <1>2, CountAssumption DEF Ordered, SamplesOrdered, Minutes
<1>3. ASSUME counter' \in States, counter.total <= counter'.total,
             reports' = reports \cup {[dropped |-> counter'.total, minute |-> minute]},
             UNCHANGED <<samples, minute>>
      PROVE  Ordered'
  <2>0. counter'.total \in 0..MaxCount BY <1>3 DEF States
  <2>1. \A r \in reports' : r.dropped <= counter'.total /\ r.minute <= minute BY <1>3, <2>0
  <2>2. \A m \in Minutes : samples[m] # NoSample => samples[m] <= counter'.total /\ m <= minute
    BY <1>3, <2>0
  <2>3. \A r, q \in reports' : r.minute < q.minute => r.dropped <= q.dropped BY <1>3, <2>0
  <2>4. \A r \in reports', m \in Minutes : samples[m] # NoSample =>
           /\ r.minute < m => r.dropped <= samples[m]
           /\ m < r.minute => samples[m] <= r.dropped
    BY <1>3, <2>0, <2>2
  <2> QED BY <1>3, <2>1, <2>2, <2>3, <2>4
<1>4. CASE Collect
  <2>1. counter' = cumulativeDrops(saturate(kernel)) BY <1>4 DEF Collect
  <2>2. counter.total <= counter'.total BY <2>1, Counted
  <2> QED BY <1>c, <1>3, <1>4, <2>2 DEF Collect, Submit
<1>5. CASE CollectNothing BY <1>c, <1>3, <1>5 DEF CollectNothing, Submit
<1>6. CASE RestartAgent
  <2>1. counter' = counter BY <1>6 DEF RestartAgent, CounterInv, CounterTypes
  <2> QED BY <1>6, <2>1 DEF RestartAgent
<1>7. CASE Tick BY <1>7 DEF Tick
<1>8. ASSUME NEW r \in reports, Arrive(r) PROVE Ordered' BY <1>8 DEF Arrive
<1>9. ASSUME NEW r \in reports, Lose(r) PROVE Ordered' BY <1>9 DEF Lose
<1>10. CASE UNCHANGED <<counter, minute, reports, samples>> BY <1>10
<1> QED
  BY <1>4, <1>5, <1>6, <1>7, <1>8, <1>9, <1>10 DEF CounterNext, Drop, ReplaceTable, counterVars

LEMMA CounterInvariance == CounterSpec => []CounterInv
<1>1. CounterInv /\ [CounterNext]_counterVars => CounterInv'
  BY NextCounterTypes, NextCounters, NextOrdered DEF CounterInv
<1> QED BY InitCounterInv, <1>1, PTL DEF CounterSpec

\* The counter never shows more than was dropped, and all of it while the table stays.
LEMMA TrueCounter == CounterInv => CounterTrue
<1> SUFFICES ASSUME CounterInv PROVE CounterTrue
  OBVIOUS
<1>1. /\ counter.total \in 0..MaxCount /\ counter.raw \in 0..MaxCount
      /\ kernel \in Nat /\ real \in Nat /\ kernel <= real /\ (~replaced => kernel = real)
      /\ Exact(counter)
  BY DEF CounterInv, CounterTypes, States
<1>2. counter.total <= real
  <2>1. CASE counter.ready BY <1>1, <2>1, CountAssumption DEF Exact, Ahead, saturate
  <2>2. CASE ~counter.ready
    <3>1. counter = Fresh BY <1>1, <2>2 DEF Exact
    <3>2. counter.total = 0 BY <3>1 DEF Fresh
    <3> QED BY <1>1, <3>2
  <2>3. counter.ready \in BOOLEAN BY DEF CounterInv, CounterTypes, States
  <2> QED BY <2>1, <2>2, <2>3
<1>3. counter.total <= saturate(real) BY <1>1, <1>2 DEF saturate
<1>4. counter.ready /\ ~replaced =>
          saturatingAdd(counter.total, saturate(kernel) - counter.raw) = saturate(real)
  BY <1>1, CountAssumption DEF Exact, Ahead, saturate, saturatingAdd
<1> QED BY <1>3, <1>4 DEF CounterTrue

-----------------------------------------------------------------------------
\* The minutes that have a sample.
Sampled == {n \in Minutes : samples[n] # NoSample}

\* The total of an interval is its largest sample.
LEMMA Totals ==
    ASSUME CounterTypes, NEW step \in Minutes
    PROVE  /\ IsFiniteSet(Intervals(step)) /\ Intervals(step) \subseteq Nat
           /\ \A i \in Intervals(step) :
                  /\ DroppedTotal(step, i) \in 0..MaxCount
                  /\ \E m \in Sampled : m \div step = i /\ samples[m] = DroppedTotal(step, i)
                  /\ \A m \in Sampled : m \div step = i => samples[m] <= DroppedTotal(step, i)
<1>1. Minutes \subseteq Nat /\ IsFiniteSet(Minutes) /\ step \in Nat \ {0}
  BY CountAssumption, FS_Interval DEF Minutes
<1>2. Sampled \subseteq Nat /\ IsFiniteSet(Sampled) BY <1>1, FS_Subset DEF Sampled
<1>3. Intervals(step) = {m \div step : m \in Sampled} BY DEF Intervals, Sampled
<1>4. ASSUME NEW m \in Sampled PROVE m \div step \in 0..MaxMinute
  <2>1. m \in Nat /\ m <= MaxMinute BY CountAssumption DEF Minutes, Sampled
  <2>2. m \div step \in 0..m BY <1>1, <2>1, DivNat
  <2> QED BY <2>1, <2>2, CountAssumption
<1>5. IsFiniteSet(Intervals(step)) /\ Intervals(step) \subseteq Nat
  <2>1. Intervals(step) \subseteq 0..MaxMinute BY <1>3, <1>4
  <2>2. MaxMinute \in Nat BY CountAssumption
  <2> QED BY <2>1, <2>2, PartOfInterval
<1>6. ASSUME NEW i \in Intervals(step)
      PROVE  /\ DroppedTotal(step, i) \in 0..MaxCount
             /\ \E m \in Sampled : m \div step = i /\ samples[m] = DroppedTotal(step, i)
             /\ \A m \in Sampled : m \div step = i => samples[m] <= DroppedTotal(step, i)
  <2> DEFINE In == {m \in Sampled : m \div step = i}
             T == {samples[m] : m \in In}
  <2>1. DroppedTotal(step, i) = Max(T)
    <3>1. In = {n \in Minutes : samples[n] # NoSample /\ n \div step = i} BY DEF Sampled
    <3> QED BY <3>1 DEF DroppedTotal
  <2>2. In # {} BY <1>3
  <2>3. \A m \in Sampled : samples[m] \in 0..MaxCount BY DEF CounterTypes, Sampled
  <2>4. T \subseteq 0..MaxCount /\ T # {} BY <2>2, <2>3
  <2>5. IsFiniteSet(T)
    <3>1. 0 \in Int /\ MaxCount \in Int /\ T \subseteq 0..MaxCount BY <2>4, CountAssumption
    <3> HIDE DEF T
    <3> QED BY <3>1, PartOfInterval, Zenon
  <2>6. T \subseteq Nat BY <2>4, CountAssumption
  <2>7. Max(T) \in T /\ \A x \in T : x <= Max(T)
    <3> HIDE DEF T
    <3> QED BY <2>4, <2>5, <2>6, MaxOf
  <2>8. \E m \in Sampled : m \div step = i /\ samples[m] = Max(T) BY <2>7
  <2>9. \A m \in Sampled : m \div step = i => samples[m] <= Max(T) BY <2>7
  <2>10. Max(T) \in 0..MaxCount BY <2>4, <2>7
  <2> HIDE DEF T
  <2> QED BY <2>1, <2>8, <2>9, <2>10
<1> QED BY <1>5, <1>6

\* A later interval has at least the total of an earlier one.
LEMMA TotalsOrdered ==
    ASSUME CounterTypes, SamplesOrdered, NEW step \in Minutes,
           NEW i \in Intervals(step), NEW j \in Intervals(step), i < j
    PROVE  DroppedTotal(step, i) <= DroppedTotal(step, j)
<1>1. step \in Nat \ {0} /\ \A m \in Sampled : m \in Nat /\ m \in Minutes /\ samples[m] # NoSample
  BY CountAssumption DEF Minutes, Sampled
<1>2. PICK m \in Sampled : m \div step = i /\ samples[m] = DroppedTotal(step, i) BY Totals
<1>3. PICK n \in Sampled : n \div step = j /\ samples[n] = DroppedTotal(step, j) BY Totals
<1>4. m < n BY <1>1, <1>2, <1>3, DivOrder
<1> QED BY <1>1, <1>2, <1>3, <1>4 DEF SamplesOrdered

\* The sum of ListMetricSamples over a set of intervals, by the fold that defines it.
Sums(step, S) ==
    LET iter[s \in SUBSET S] ==
            IF s = {} THEN 0
            ELSE DroppedDelta(step, CHOOSE x \in s : TRUE) + iter[s \ {CHOOSE x \in s : TRUE}]
    IN  iter

\* A sum of sizes of disjoint sets is the size of their union.
LEMMA SumOfSizes ==
    ASSUME NEW step, NEW S, IsFiniteSet(S), NEW n \in Nat, NEW D \in [S -> SUBSET (1..n)],
           \A i \in S : DroppedDelta(step, i) = Cardinality(D[i]),
           \A i, j \in S : i # j => D[i] \cap D[j] = {}
    PROVE  Sums(step, S)[S] = Cardinality(UNION {D[i] : i \in S})
<1> DEFINE first(s) == CHOOSE x \in s : TRUE
           U(s) == UNION {D[i] : i \in s}
           size == [s \in SUBSET S |-> Cardinality(U(s))]
           Eq(f) == f = [s \in SUBSET S |->
                        IF s = {} THEN 0 ELSE DroppedDelta(step, first(s)) + f[s \ {first(s)}]]
<1>1. \A s \in SUBSET S : U(s) \subseteq 1..n /\ IsFiniteSet(U(s)) /\ Cardinality(U(s)) \in Nat
  <2> SUFFICES ASSUME NEW s \in SUBSET S
               PROVE  U(s) \subseteq 1..n /\ IsFiniteSet(U(s)) /\ Cardinality(U(s)) \in Nat
    OBVIOUS
  <2>1. U(s) \subseteq 1..n OBVIOUS
  <2>2. IsFiniteSet(U(s))
    <3> HIDE DEF U
    <3> QED BY <2>1, FS_Interval, FS_Subset
  <2> HIDE DEF U
  <2> QED BY <2>1, <2>2, FS_CardinalityType
<1>2. ASSUME NEW s \in SUBSET S, NEW x \in s
      PROVE  Cardinality(U(s)) = DroppedDelta(step, x) + Cardinality(U(s \ {x}))
  <2>1. U(s) = D[x] \cup U(s \ {x}) OBVIOUS
  <2>2. D[x] \cap U(s \ {x}) = {} OBVIOUS
  <2>3. IsFiniteSet(D[x]) /\ IsFiniteSet(U(s \ {x})) /\ Cardinality(U(s \ {x})) \in Nat
    <3>1. s \ {x} \in SUBSET S /\ D[x] \subseteq 1..n OBVIOUS
    <3> HIDE DEF U
    <3> QED BY <1>1, <3>1, FS_Interval, FS_Subset
  <2>4. Cardinality(D[x]) \in Nat BY <2>3, FS_CardinalityType
  <2> HIDE DEF U
  <2>5. Cardinality(D[x] \cup U(s \ {x})) =
            Cardinality(D[x]) + Cardinality(U(s \ {x})) - Cardinality(D[x] \cap U(s \ {x}))
    BY <2>3, FS_Union
  <2>6. Cardinality(D[x] \cap U(s \ {x})) = 0 BY <2>2, FS_EmptySet
  <2>7. x \in S OBVIOUS
  <2>8. DroppedDelta(step, x) = Cardinality(D[x]) BY <2>7
  <2> QED BY <2>1, <2>3, <2>4, <2>5, <2>6, <2>8
<1>3. Cardinality(U({})) = 0
  <2>1. U({}) = {} OBVIOUS
  <2> QED BY <2>1, FS_EmptySet
<1> HIDE DEF U
<1>4. \A s \in SUBSET S : s # {} => first(s) \in s /\ s \ {first(s)} \in SUBSET S OBVIOUS
<1> HIDE DEF first
<1>5. Eq(size)
  <2> SUFFICES ASSUME NEW s \in SUBSET S
               PROVE  size[s] = IF s = {} THEN 0
                                ELSE DroppedDelta(step, first(s)) + size[s \ {first(s)}]
    OBVIOUS
  <2>1. CASE s = {} BY <1>3, <2>1
  <2>2. CASE s # {} BY <1>2, <1>4, <2>2
  <2> QED BY <2>1, <2>2
<1>6. Eq(Sums(step, S))
  <2>1. Sums(step, S) = CHOOSE f : Eq(f) BY DEF Sums, first
  <2> HIDE DEF Eq
  <2> QED BY <1>5, <2>1
<1> DEFINE P == {s \in SUBSET S : Sums(step, S)[s] = Cardinality(U(s))}
<1>7. {} \in P BY <1>3, <1>6
<1>8. ASSUME NEW s \in SUBSET S, s # {}, \A x \in s : s \ {x} \in P PROVE s \in P
  <2>1. first(s) \in s /\ s \ {first(s)} \in SUBSET S BY <1>4, <1>8
  <2>2. Sums(step, S)[s] = DroppedDelta(step, first(s)) + Sums(step, S)[s \ {first(s)}]
    BY <1>6, <1>8
  <2>3. Sums(step, S)[s \ {first(s)}] = Cardinality(U(s \ {first(s)})) BY <1>8, <2>1
  <2> QED BY <1>2, <2>1, <2>2, <2>3
<1>9. S \in P
  <2> HIDE DEF P
  <2> QED BY <1>7, <1>8, SetInduction
<1> QED BY <1>9 DEF U

\* With the samples in order, the drops of the intervals are disjoint stretches of the count.
LEMMA ChartCounts ==
    ASSUME CounterTypes, SamplesOrdered, NEW step \in Minutes, Intervals(step) # {},
           NEW most \in Nat, \A m \in Sampled : samples[m] <= most
    PROVE  DroppedTotal(step, Min(Intervals(step)))
               + MapThenSumSet(LAMBDA i : DroppedDelta(step, i), Intervals(step)) <= most
<1> DEFINE I == Intervals(step)
           total(i) == DroppedTotal(step, i)
           Before(i) == {j \in I : j < i}
           D == [i \in I |-> IF Before(i) = {} THEN {} ELSE total(Max(Before(i))) + 1 .. total(i)]
<1>1. IsFiniteSet(I) /\ I \subseteq Nat /\ Min(I) \in I /\ \A i \in I : Min(I) <= i
  BY Totals, MinOf
<1>2. \A i \in I : total(i) \in Nat /\ total(i) <= most
  BY Totals, CountAssumption
<1>3. \A i, j \in I : i < j => total(i) <= total(j) BY TotalsOrdered
<1>4. ASSUME NEW i \in I, Before(i) # {}
      PROVE  Max(Before(i)) \in Before(i) /\ \A j \in Before(i) : j <= Max(Before(i))
  <2>1. Before(i) \subseteq I OBVIOUS
  <2>2. IsFiniteSet(Before(i)) /\ Before(i) \subseteq Nat
    <3> HIDE DEF I, Before
    <3> QED BY <1>1, <2>1, FS_Subset
  <2> HIDE DEF I, Before
  <2> QED BY <1>4, <2>2, MaxOf
<1>5. \A i \in I : Before(i) # {} => Max(Before(i)) \in I /\ Max(Before(i)) < i BY <1>4
<1>6. Before(Min(I)) = {} BY <1>1
<1>7. \A i \in I : D[i] \subseteq total(Min(I)) + 1 .. most
  <2> SUFFICES ASSUME NEW i \in I, Before(i) # {} PROVE D[i] \subseteq total(Min(I)) + 1 .. most
    OBVIOUS
  <2> DEFINE p == Max(Before(i))
  <2>1. p \in I BY <1>5
  <2>2. total(Min(I)) <= total(p) BY <1>1, <1>2, <1>3, <2>1
  <2>3. D[i] = total(p) + 1 .. total(i) OBVIOUS
  <2>4. /\ total(p) \in Nat /\ total(i) \in Nat /\ total(Min(I)) \in Nat
        /\ total(i) <= most
    BY <1>1, <1>2, <2>1
  <2> HIDE DEF D, p, total, I
  <2> QED BY <2>2, <2>3, <2>4
<1>8. \A i \in I : DroppedDelta(step, i) = Cardinality(D[i])
  <2> SUFFICES ASSUME NEW i \in I PROVE DroppedDelta(step, i) = Cardinality(D[i])
    OBVIOUS
  <2>1. CASE Before(i) = {} BY <2>1, FS_EmptySet DEF DroppedDelta
  <2>2. CASE Before(i) # {}
    <3> DEFINE p == Max(Before(i))
    <3>1. p \in I /\ p < i BY <1>5, <2>2
    <3>2. total(p) \in Nat /\ total(i) \in Nat /\ total(p) <= total(i) BY <1>2, <1>3, <3>1
    <3>3. DroppedDelta(step, i) = total(i) - total(p) BY <2>2, <3>2 DEF DroppedDelta
    <3>4. D[i] = total(p) + 1 .. total(i) BY <2>2
    <3> HIDE DEF D, p, total
    <3>5. Cardinality(total(p) + 1 .. total(i)) = total(i) - total(p) BY <3>2, FS_Interval
    <3> QED BY <3>3, <3>4, <3>5
  <2> QED BY <2>1, <2>2
<1>9. \A i, j \in I : i < j => D[i] \cap D[j] = {}
  <2> SUFFICES ASSUME NEW i \in I, NEW j \in I, i < j, Before(i) # {} PROVE D[i] \cap D[j] = {}
    OBVIOUS
  <2> DEFINE p == Max(Before(j))
  <2>1. i \in Before(j) OBVIOUS
  <2>2. p \in I /\ i <= p BY <1>4, <1>5, <2>1
  <2>3. total(i) <= total(p) BY <1>1, <1>2, <1>3, <2>2
  <2>4. D[j] = total(p) + 1 .. total(j) BY <2>1
  <2>5. D[i] = total(Max(Before(i))) + 1 .. total(i) OBVIOUS
  <2>6. total(Max(Before(i))) \in Nat /\ total(i) \in Nat /\ total(p) \in Nat /\ total(j) \in Nat
    BY <1>2, <1>5, <2>2
  <2> HIDE DEF D, p, total
  <2> QED BY <2>3, <2>4, <2>5, <2>6
<1>10. \A i, j \in I : i # j => D[i] \cap D[j] = {}
  <2> HIDE DEF D
  <2> QED BY <1>1, <1>9
<1>11. D \in [I -> SUBSET (1..most)]
  <2>1. total(Min(I)) \in Nat BY <1>1, <1>2
  <2>2. \A i \in I : D[i] \subseteq 1..most
    <3> HIDE DEF D, total, I
    <3> QED BY <1>7, <2>1
  <2>3. D = [i \in I |-> D[i]] OBVIOUS
  <2> HIDE DEF D, I
  <2> QED BY <2>2, <2>3
<1> DEFINE sum == MapThenSumSet(LAMBDA i : DroppedDelta(step, i), I)
           A == UNION {D[i] : i \in I}
<1>12. sum = Cardinality(A)
  <2>1. sum = Sums(step, I)[I] BY DEF MapThenSumSet, MapThenFoldSet, Sums
  <2> HIDE DEF D, I, sum
  <2>2. \A E : E = D => Sums(step, I)[I] = Cardinality(UNION {E[i] : i \in I})
    <3> SUFFICES ASSUME NEW E, E = D PROVE Sums(step, I)[I] = Cardinality(UNION {E[i] : i \in I})
      OBVIOUS
    <3>1. E \in [I -> SUBSET (1..most)] BY <1>11
    <3>2. \A i \in I : DroppedDelta(step, i) = Cardinality(E[i]) BY <1>8
    <3>3. \A i, j \in I : i # j => E[i] \cap E[j] = {} BY <1>10
    <3>4. IsFiniteSet(I) BY <1>1
    <3> HIDE DEF I, D
    <3> QED BY <3>1, <3>2, <3>3, <3>4, SumOfSizes
  <2> QED BY <2>1, <2>2
<1>13. A \subseteq total(Min(I)) + 1 .. most
  <2> HIDE DEF D, I, total
  <2> QED BY <1>7
<1>14. total(Min(I)) \in Nat /\ total(Min(I)) <= most BY <1>1, <1>2
<1> HIDE DEF A, total, sum
<1>15. Cardinality(A) \in Nat /\ Cardinality(A) <= most - total(Min(I))
  <2>1. total(Min(I)) + 1 \in Int /\ most \in Int BY <1>14
  <2>2. /\ Cardinality(A) \in Nat
        /\ total(Min(I)) + 1 <= most + 1 =>
               Cardinality(A) <= most - (total(Min(I)) + 1) + 1
    BY <1>13, <2>1, PartOfInterval, Zenon
  <2> QED BY <1>14, <2>2
<1>17. total(Min(I)) + sum <= most BY <1>12, <1>14, <1>15
<1> QED BY <1>17 DEF total, sum

-----------------------------------------------------------------------------
LEMMA TrueChart == CounterInv => ChartTrue
<1> SUFFICES ASSUME CounterInv, ~forgotten, NEW step \in Minutes, Intervals(step) # {}
             PROVE  DroppedTotal(step, Min(Intervals(step)))
                        + MapThenSumSet(LAMBDA i : DroppedDelta(step, i), Intervals(step)) <= real
  BY DEF ChartTrue
<1>1. CounterTypes /\ SamplesOrdered /\ real \in Nat
  BY DEF CounterInv, CounterTypes, Ordered
<1>2. counter.total \in 0..MaxCount BY DEF CounterInv, CounterTypes, States
<1>3. counter.total <= saturate(real) BY TrueCounter DEF CounterTrue
<1>4. saturate(real) \in 0..MaxCount /\ saturate(real) <= real BY <1>1, Saturated
<1>5. ASSUME NEW m \in Sampled PROVE samples[m] <= real
  <2>1. samples[m] \in 0..MaxCount BY DEF CounterInv, CounterTypes, Sampled
  <2>2. samples[m] <= counter.total BY DEF CounterInv, Ordered, Sampled
  <2> QED BY <1>1, <1>2, <1>3, <1>4, <2>1, <2>2, CountAssumption
<1> QED BY <1>1, <1>5, ChartCounts

\* No packet is counted twice, or shown twice in a chart, and while the table stays none is
\* missed: cumulativeDrops, the samples UpdateTelemetry keeps and the differences
\* ListMetricSamples takes, for every number of packets, minutes and reports and every
\* grouping of the minutes.
THEOREM DropsCountedOnce == CounterSpec => []CountedOnce
<1>1. CounterInv => CountedOnce BY TrueCounter, TrueChart DEF CountedOnce
<1> QED BY CounterInvariance, <1>1, PTL
=============================================================================
