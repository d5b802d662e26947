----------------------------- MODULE WaveProofs -----------------------------
(***************************************************************************)
(* Waves, the sequences a wave may be emitted as, and the invariant of the *)
(* total order layer: what a member delivers is known to it, what it has   *)
(* heard of comes from its graph, and what it has applied is all that was  *)
(* sent of the waves it has emitted.  This module states the invariant and *)
(* proves what the conversation's steps do to it; TotalProofs takes the    *)
(* pump's steps and draws the theorems.                                    *)
(***************************************************************************)
EXTENDS TotalOrder, PsyncSafetyProofs, FiniteSetTheorems

(* The assumption: restarts are careful, and no member is held frozen.     *)
AllHeard == CarefulRestart /\ MaxFaults["freeze"] = 0

-----------------------------------------------------------------------------
(* Numbers *)

(* Every set of natural numbers that is not empty has a least element. *)
LEMMA LeastNat ==
  ASSUME NEW S \in SUBSET Nat, S # {}
  PROVE  \E n \in S : \A m \in S : n <= m
<1>1. PICK n \in S : \A m \in S : ~(<<m, n>> \in OpToRel(<, Nat))
  BY WFMin, NatLessThanWellFounded, ZenonT(30)
<1>2. \A m \in S : ~(m < n)
  BY <1>1, ZenonT(30) DEF OpToRel
<1> QED
  BY <1>2

(* A finite set of natural numbers that is not empty has a greatest element. *)
LEMMA GreatestNat ==
  ASSUME NEW S \in SUBSET Nat, S # {}, IsFiniteSet(S)
  PROVE  \E n \in S : \A m \in S : m <= n
<1> DEFINE HasMax(T) == \E n \in T : \A m \in T : m <= n
           Bad == {k \in Nat : \E T \in SUBSET Nat :
                      IsFiniteSet(T) /\ T # {} /\ Cardinality(T) = k /\ ~HasMax(T)}
<1>1. SUFFICES Bad = {}
  BY <1>1, FS_CardinalityType
<1>2. SUFFICES ASSUME Bad # {} PROVE FALSE
  OBVIOUS
<1>3. PICK k \in Bad : \A j \in Bad : k <= j
  BY <1>2, LeastNat, ZenonT(30)
<1>4. PICK T \in SUBSET Nat : IsFiniteSet(T) /\ T # {} /\ Cardinality(T) = k /\ ~HasMax(T)
  BY <1>3
<1>5. PICK x \in T : TRUE
  BY <1>4, ZenonT(30)
<1> DEFINE U == T \ {x}
<1>6. IsFiniteSet(U) /\ Cardinality(U) = k - 1
  BY <1>4, <1>5, FS_RemoveElement, ZenonT(30)
<1>7. U # {}
  BY <1>4, <1>5
<1>8. HasMax(U)
  <2>1. k - 1 \notin Bad
    BY <1>3
  <2> QED
    BY <1>6, <1>7, <2>1, FS_CardinalityType, SMTT(10), Z3T(30)
<1>9. PICK m \in U : \A y \in U : y <= m
  BY <1>8
<1>10. HasMax(T)
  <2>1. CASE x <= m
    BY <1>5, <1>9, <2>1
  <2>2. CASE ~(x <= m)
    BY <1>5, <1>9, <2>2, SMTT(10), Z3T(30)
  <2> QED
    BY <2>1, <2>2, SMTT(10), Z3T(30)
<1> QED
  BY <1>4, <1>10

(* A function on a finite set has a finite range. *)
LEMMA RangeFinite ==
  ASSUME NEW S, IsFiniteSet(S), NEW T, NEW f \in [S -> T]
  PROVE  IsFiniteSet(Range(f))
BY FS_Surjection DEF Surjection, Range

-----------------------------------------------------------------------------
(* Waves *)

(* The wave of a message is the largest entry of its clock. *)
LEMMA WaveIs ==
  ASSUME NEW e \in Envelope
  PROVE  /\ WaveOf(e) \in Nat
         /\ WaveOf(e) >= 1
         /\ \E q \in Replica : WaveOf(e) = e.vc[q]
         /\ \A q \in Replica : e.vc[q] <= WaveOf(e)
<1> DEFINE S == {e.vc[q] : q \in Replica}
<1>1. e.vc \in [Replica -> Nat] /\ e.sender \in Replica /\ e.vc[e.sender] > 0
  BY EnvelopeFields DEF SenderSeq
<1>2. S \in SUBSET Nat /\ S # {}
  BY <1>1
<1>3. IsFiniteSet(S)
  <2>1. IsFiniteSet(Replica)
    BY ReplicaAssumption
  <2>2. S = Range(e.vc)
    BY <1>1 DEF Range
  <2> QED
    BY <1>1, <2>1, <2>2, RangeFinite, SMTT(30), Z3T(30)
<1>4. WaveOf(e) = Max(S)
  BY DEF WaveOf
<1> HIDE DEF S
<1>5. PICK m \in S : \A x \in S : x <= m
  BY <1>2, <1>3, GreatestNat, SMTT(30), Z3T(30)
<1>6. WaveOf(e) = m
  BY <1>2, <1>4, <1>5, MaxIs, SMTT(10), Z3T(30)
<1> QED
  BY <1>1, <1>2, <1>5, <1>6, SMTT(10), Z3T(30) DEF S

(* A later clock is of a later wave or the same. *)
LEMMA WaveMonotone ==
  ASSUME NEW e \in Envelope, NEW f \in Envelope, Covers(f.vc, e.vc)
  PROVE  WaveOf(e) <= WaveOf(f)
<1>1. PICK q \in Replica : WaveOf(e) = e.vc[q]
  BY WaveIs
<1> QED
  BY <1>1, WaveIs, EnvelopeFields, SMTT(10), Z3T(30) DEF Covers

(* The waves of one sender's messages never decrease. *)
LEMMA SenderWaves ==
  ASSUME TypeOK, HistoryInv, NEW e \in Issued, NEW f \in Issued,
         e.sender = f.sender, SenderSeq(e) <= SenderSeq(f)
  PROVE  WaveOf(e) <= WaveOf(f)
BY IssuedIs, WaveMonotone DEF HistoryInv, ClockCondition, SenderSeq

(* Having a sender's message past wave w is having all it sends up to w. *)
LEMMA WaveKnown ==
  ASSUME TypeOK, GraphsOK, HistoryInv, NEW r \in Replica, NEW d \in graph[r],
         NEW e \in Issued, e.sender = d.sender, WaveOf(e) < WaveOf(d)
  PROVE  e \in graph[r]
<1>1. d \in Issued
  BY DEF HistoryInv, OnlyIssued
<1>2. e \in Envelope /\ d \in Envelope
  BY <1>1, IssuedIs DEF HistoryInv
<1>3. SenderSeq(e) \in 1..d.vc[e.sender]
  BY <1>1, <1>2, EnvelopeFields, WaveIs, SenderWaves, SMTT(10), Z3T(30) DEF SenderSeq
<1>4. Has(graph[r], Id(e))
  BY <1>2, <1>3, EnvelopeFields, SMTT(10), Z3T(30) DEF HasPast, Id, GraphsOK, GraphOK
<1> QED
  BY <1>4, GraphMember, SMTT(10), Z3T(30) DEF HistoryInv

-----------------------------------------------------------------------------
(* Sequences *)

(* The range of a concatenation. *)
LEMMA RangeConcat ==
  ASSUME NEW S, NEW s \in Seq(S), NEW t \in Seq(S)
  PROVE  /\ s \o t \in Seq(S)
         /\ Range(s \o t) = Range(s) \cup Range(t)
<1>1. /\ s \o t \in Seq(S) /\ Len(s) \in Nat /\ Len(t) \in Nat
      /\ DOMAIN (s \o t) = 1..(Len(s) + Len(t)) /\ DOMAIN s = 1..Len(s) /\ DOMAIN t = 1..Len(t)
  OBVIOUS
<1>2. /\ \A i \in 1..Len(s) : (s \o t)[i] = s[i]
      /\ \A i \in 1..Len(t) : (s \o t)[Len(s) + i] = t[i]
  OBVIOUS
<1>3. ASSUME NEW x \in Range(s \o t) PROVE x \in Range(s) \cup Range(t)
  <2>1. PICK i \in 1..(Len(s) + Len(t)) : x = (s \o t)[i]
    BY <1>1 DEF Range
  <2>2. CASE i \in 1..Len(s)
    BY <1>1, <1>2, <2>1, <2>2, ZenonT(30) DEF Range
  <2>3. CASE i \notin 1..Len(s)
    <3>1. i - Len(s) \in 1..Len(t) /\ i = Len(s) + (i - Len(s))
      BY <1>1, <2>3
    <3>2. x = t[i - Len(s)]
      BY <1>2, <2>1, <3>1, ZenonT(30)
    <3> QED
      BY <1>1, <3>1, <3>2, SMTT(10), Z3T(30) DEF Range
  <2> QED
    BY <2>2, <2>3, SMTT(10), Z3T(30)
<1>4. ASSUME NEW x \in Range(s) PROVE x \in Range(s \o t)
  <2>1. PICK i \in 1..Len(s) : x = s[i]
    BY <1>1 DEF Range
  <2>2. i \in 1..(Len(s) + Len(t))
    BY <1>1
  <2> QED
    BY <1>1, <1>2, <2>1, <2>2, SMTT(30), Z3T(30) DEF Range
<1>5. ASSUME NEW x \in Range(t) PROVE x \in Range(s \o t)
  <2>1. PICK i \in 1..Len(t) : x = t[i]
    BY <1>1 DEF Range
  <2>2. Len(s) + i \in 1..(Len(s) + Len(t))
    BY <1>1
  <2> QED
    BY <1>1, <1>2, <2>1, <2>2, ZenonT(30) DEF Range
<1> QED
  BY <1>1, <1>3, <1>4, <1>5, SMTT(10), Z3T(30)

(* A sequence sort.Slice may leave a wave in is an arrangement of it. *)
LEMMA WaveOrdersArrange ==
  ASSUME NEW envs \in SUBSET Envelope, IsFiniteSet(envs), NEW s \in WaveOrders(envs)
  PROVE  /\ s \in Seq(Envelope)
         /\ Range(s) = envs
         /\ \A i, j \in DOMAIN s : s[i] = s[j] => i = j
<1> DEFINE n == Cardinality(envs)
<1>1. n \in Nat
  BY FS_CardinalityType
<1>2. s \in Injection(1..n, envs)
  BY DEF WaveOrders
<1>3. s \in [1..n -> envs] /\ \A i, j \in 1..n : s[i] = s[j] => i = j
  BY <1>2 DEF Injection, IsInjective
<1>4. s \in Surjection(1..n, envs)
  BY <1>1, <1>2, FS_Interval, FS_Injection, SMTT(10), Z3T(30)
<1> QED
  BY <1>1, <1>3, <1>4, SMTT(10), Z3T(30) DEF Surjection, Range

-----------------------------------------------------------------------------
(* The order in which all members apply messages: by wave, then by sender, *)
(* then as sent.                                                           *)

Earlier(e, f) ==
  \/ WaveOf(e) < WaveOf(f)
  \/ WaveOf(e) = WaveOf(f) /\ Rank[e.sender] < Rank[f.sender]
  \/ WaveOf(e) = WaveOf(f) /\ e.sender = f.sender /\ SenderSeq(e) < SenderSeq(f)

InOrder(s) == \A i, j \in DOMAIN s : i < j => Earlier(s[i], s[j])

(* The order is strict. *)
LEMMA EarlierStrict ==
  ASSUME NEW e \in Envelope, NEW f \in Envelope, Earlier(e, f)
  PROVE  ~Earlier(f, e)
BY WaveIs, EnvelopeFields, RankAssumption, SMTT(10), Z3T(30) DEF Earlier

(* Two sequences in order, one with the elements of the other and those    *)
(* before them, agree as far as both go.                                   *)
LEMMA SortedAgree ==
  ASSUME NEW s \in Seq(Envelope), NEW t \in Seq(Envelope), InOrder(s), InOrder(t),
         Range(s) \subseteq Range(t),
         \A e \in Range(s) : \A f \in Range(t) : Earlier(f, e) => f \in Range(s)
  PROVE  \A i \in DOMAIN s \cap DOMAIN t : s[i] = t[i]
<1> DEFINE Bad == {i \in 1..Len(s) : ~(i \in 1..Len(t) /\ s[i] = t[i])}
<1>1. /\ Len(s) \in Nat /\ Len(t) \in Nat /\ DOMAIN s = 1..Len(s) /\ DOMAIN t = 1..Len(t)
      /\ \A i \in 1..Len(s) : s[i] \in Envelope
      /\ \A i \in 1..Len(t) : t[i] \in Envelope
  OBVIOUS
<1>2. ASSUME Bad # {} PROVE FALSE
  <2>1. PICK i \in Bad : \A j \in Bad : i <= j
    <3>1. Bad \in SUBSET Nat
      BY <1>1
    <3> QED
      BY <1>2, <3>1, LeastNat, ZenonT(30)
  <2>2. i \in 1..Len(s) /\ ~(i \in 1..Len(t) /\ s[i] = t[i])
    BY <2>1
  <2>3. ASSUME NEW k \in 1..(i - 1) PROVE k \in 1..Len(s) /\ k \in 1..Len(t) /\ s[k] = t[k]
    BY <1>1, <2>1, <2>2, SMTT(10), Z3T(30)
  <2> HIDE DEF Bad
  <2>4. PICK m \in 1..Len(t) : s[i] = t[m]
    BY <1>1, <2>2, ZenonT(30) DEF Range
  <2>5. ~(m < i)
    <3>1. SUFFICES ASSUME m < i PROVE FALSE
      OBVIOUS
    <3>2. Earlier(s[m], s[i]) /\ s[m] = s[i]
      BY <1>1, <2>2, <2>3, <2>4, <3>1, SMTT(10), Z3T(30) DEF InOrder
    <3> QED
      BY <1>1, <2>2, <3>2, EarlierStrict, ZenonT(30)
  <2>6. i \in 1..Len(t) /\ i < m
    BY <1>1, <2>2, <2>4, <2>5, SMTT(30), Z3T(30)
  <2>7. Earlier(t[i], s[i])
    BY <1>1, <2>4, <2>6, ZenonT(30) DEF InOrder
  <2>8. t[i] \in Range(t) /\ s[i] \in Range(s)
    BY <1>1, <2>2, <2>6, ZenonT(30) DEF Range
  <2>9. PICK n \in 1..Len(s) : t[i] = s[n]
    BY <1>1, <2>7, <2>8, ZenonT(30) DEF Range
  <2>10. CASE n < i
    <3>1. n \in 1..(i - 1)
      BY <1>1, <2>2, <2>10, SMTT(30), Z3T(30)
    <3>2. Earlier(t[n], t[i]) /\ t[n] = t[i]
      BY <1>1, <2>3, <2>6, <2>9, <2>10, <3>1, ZenonT(30) DEF InOrder
    <3> QED
      BY <1>1, <2>6, <3>2, EarlierStrict, ZenonT(30)
  <2>11. CASE n = i
    BY <2>2, <2>6, <2>9, <2>11, ZenonT(30)
  <2>12. CASE i < n
    <3>1. Earlier(s[i], t[i])
      BY <1>1, <2>2, <2>9, <2>12, ZenonT(30) DEF InOrder
    <3> QED
      BY <1>1, <2>2, <2>6, <2>7, <3>1, EarlierStrict, ZenonT(30)
  <2> QED
    BY <1>1, <2>2, <2>9, <2>10, <2>11, <2>12, SMTT(10), Z3T(30)
<1> QED
  BY <1>1, <1>2

-----------------------------------------------------------------------------
(* The inductive invariant *)

(* What a member delivers or is about to deliver is in its graph. *)
DeliversKnown ==
  \A r \in Replica : Range(deliver[r]) \subseteq graph[r] /\ Range(replayed[r]) \subseteq graph[r]

(* The pump has heard of a wave from a message in the graph. *)
HeardFrom ==
  \A r, q \in Replica : latestWave[r][q] > 0 =>
    \E d \in graph[r] : d.sender = q /\ WaveOf(d) = latestWave[r][q]

(* Everybody has been heard from past the waves emitted and the one about  *)
(* to be.                                                                  *)
HeardAll ==
  \A r \in Replica :
    /\ nextWave[r] > 1 => \A q \in Replica : latestWave[r][q] >= nextWave[r]
    /\ pump[r] = "emit" => \A q \in Replica : latestWave[r][q] > nextWave[r]

(* What was applied is what was sent of the waves emitted. *)
AppliedWaves ==
  \A r \in Replica : Range(apply[r]) = {e \in Issued : WaveOf(e) < nextWave[r]}

TotalInv ==
  /\ TotalTypeOK
  /\ frozen = [r \in Replica |-> {}]
  /\ DeliversKnown
  /\ HeardFrom
  /\ HeardAll
  /\ AppliedWaves

(* A step of the conversation that is not a crash. *)
Progress == Lose \/ \E r \in Replica : Handler(r) \/ Replay(r) \/ Call(r)

(* What a step of the conversation does to one member's graph and queues. *)
Grows(r) ==
  \/ /\ graph[r] \subseteq graph'[r]
     /\ deliver'[r] = deliver[r]
     /\ replayed'[r] = replayed[r]
  \/ \E e \in Envelope : /\ graph'[r] = graph[r] \cup {e}
                         /\ deliver'[r] = Append(deliver[r], e)
                         /\ replayed'[r] = replayed[r]
  \/ \E e \in Envelope : /\ graph'[r] = graph[r] \cup {e}
                         /\ deliver'[r] = deliver[r]
                         /\ replayed'[r] = Append(replayed[r], e)
  \/ /\ graph'[r] = graph[r]
     /\ replayed[r] # <<>>
     /\ deliver'[r] = Append(deliver[r], Head(replayed[r]))
     /\ replayed'[r] = Tail(replayed[r])

(* An element added to a graph and pushed to a queue. *)
LEMMA PushGrows ==
  ASSUME TypeOK, NEW p \in Replica, NEW e \in Envelope,
         graph' = [graph EXCEPT ![p] = @ \cup {e}],
         \/ deliver' = Push(deliver, p, e) /\ UNCHANGED replayed
         \/ replayed' = Push(replayed, p, e) /\ UNCHANGED deliver
  PROVE  \A r \in Replica : Grows(r)
<1>1. /\ graph \in [Replica -> SUBSET Envelope]
      /\ deliver \in [Replica -> Seq(Envelope)] /\ replayed \in [Replica -> Seq(Envelope)]
  BY DEF TypeOK
<1>2. /\ graph'[p] = graph[p] \cup {e}
      /\ \A q \in Replica \ {p} : graph'[q] = graph[q]
  BY <1>1
<1>3. CASE deliver' = Push(deliver, p, e) /\ UNCHANGED replayed
  <2>1. /\ deliver'[p] = Append(deliver[p], e)
        /\ \A q \in Replica \ {p} : deliver'[q] = deliver[q]
    BY <1>1, <1>3, SMTT(10), Z3T(30) DEF Push
  <2>2. Grows(p)
    BY <1>2, <1>3, <2>1, ZenonT(30) DEF Grows
  <2>3. \A q \in Replica \ {p} : Grows(q)
    BY <1>2, <1>3, <2>1, ZenonT(30) DEF Grows
  <2> QED
    BY <2>2, <2>3, ZenonT(30)
<1>4. CASE replayed' = Push(replayed, p, e) /\ UNCHANGED deliver
  <2>1. /\ replayed'[p] = Append(replayed[p], e)
        /\ \A q \in Replica \ {p} : replayed'[q] = replayed[q]
    BY <1>1, <1>4, SMTT(10), Z3T(30) DEF Push
  <2>2. Grows(p)
    BY <1>2, <1>4, <2>1, ZenonT(30) DEF Grows
  <2>3. \A q \in Replica \ {p} : Grows(q)
    BY <1>2, <1>4, <2>1, ZenonT(30) DEF Grows
  <2> QED
    BY <2>2, <2>3, ZenonT(30)
<1> QED
  BY <1>3, <1>4, ZenonT(30)

(* Steps that touch neither. *)
LEMMA StillGrows ==
  ASSUME UNCHANGED <<graph, deliver, replayed>>
  PROVE  \A r \in Replica : Grows(r)
BY SMTT(10), Z3T(30) DEF Grows

(* So does handling an envelope. *)
LEMMA HandleGrows ==
  ASSUME TypeOK, NEW p \in Replica, NEW e \in Envelope, NEW from, NEW pend,
         HandleEnvelope(p, e, from, pend), UNCHANGED replayed
  PROVE  \A r \in Replica : Grows(r)
<1>1. CASE Accept(p, e, pend)
  <2>1. graph' = [graph EXCEPT ![p] = @ \cup {e}] /\ deliver' = Push(deliver, p, e)
    BY <1>1, SMTT(10), Z3T(30) DEF Accept
  <2> QED
    BY <2>1, PushGrows, ZenonT(30)
<1>2. CASE Drop(p, pend) \/ Defer(p, e, from, pend)
  BY <1>2, StillGrows, SMTT(10), Z3T(30) DEF Drop, Defer
<1> QED
  BY <1>1, <1>2, SMTT(10), Z3T(30) DEF HandleEnvelope

(* Every step but a crash. *)
LEMMA ProgressGrows ==
  ASSUME TypeOK, GraphsOK, Progress
  PROVE  \A r \in Replica : Grows(r)
<1>1. CASE Lose
  BY <1>1, StillGrows, SMTT(10), Z3T(30) DEF Lose, volatile
<1>2. ASSUME NEW p \in Replica, Handler(p) PROVE \A r \in Replica : Grows(r)
  <2>1. CASE ReceiveEnvelope(p)
    <3>1. PICK m \in wire : HandleEnvelope(p, m.env, m.from, deferred[p]) /\ UNCHANGED replayed
      BY <2>1, ZenonT(30) DEF ReceiveEnvelope
    <3>2. m.env \in Envelope
      BY <3>1, SMTT(10), Z3T(30) DEF TypeOK, WireEnvelope
    <3> QED
      BY <3>1, <3>2, HandleGrows, ZenonT(30)
  <2>2. CASE WakeDeferred(p)
    <3>1. PICK d \in deferred[p] :
            HandleEnvelope(p, d.env, d.from, deferred[p] \ {d}) /\ UNCHANGED replayed
      BY <2>2, ZenonT(30) DEF WakeDeferred
    <3>2. d.env \in Envelope
      BY <3>1, SMTT(10), Z3T(30) DEF TypeOK, Pending
    <3> QED
      BY <3>1, <3>2, HandleGrows, SMTT(10), Z3T(30)
  <2>3. CASE ReceiveLostRequest(p)
    BY <2>3, StillGrows, SMTT(10), Z3T(30) DEF ReceiveLostRequest, volatile
  <2> QED
    BY <1>2, <2>1, <2>2, <2>3, ZenonT(30) DEF Handler
<1>3. ASSUME NEW p \in Replica, Replay(p) PROVE \A r \in Replica : Grows(r)
  <2>1. CASE ReplayLog(p) \/ ReplayDone(p)
    BY <2>1, StillGrows, SMTT(10), Z3T(30) DEF ReplayLog, ReplayDone
  <2>2. CASE ReplayEntry(p)
    <3>1. CASE UNCHANGED <<graph, replayed>>
      BY <2>2, <3>1, StillGrows, SMTT(30), Z3T(30) DEF ReplayEntry
    <3>2. CASE ~UNCHANGED <<graph, replayed>>
      <4> DEFINE e == log[p][cursor[p] + 1]
      <4>1. /\ graph' = [graph EXCEPT ![p] = @ \cup {e}]
            /\ replayed' = Push(replayed, p, e) /\ UNCHANGED deliver
        BY <2>2, <3>2, ZenonT(30) DEF ReplayEntry
      <4>2. e \in Envelope
        BY <2>2 DEF ReplayEntry, TypeOK
      <4> HIDE DEF e
      <4> QED
        BY <4>1, <4>2, PushGrows, ZenonT(30)
    <3> QED
      BY <3>1, <3>2, ZenonT(30)
  <2>3. CASE DeliverReplayed(p)
    <3>1. /\ deliver' = Push(deliver, p, Head(replayed[p]))
          /\ replayed' = [replayed EXCEPT ![p] = Tail(@)]
          /\ UNCHANGED graph /\ replayed[p] # <<>>
      BY <2>3, SMTT(10), Z3T(30) DEF DeliverReplayed
    <3>2. deliver \in [Replica -> Seq(Envelope)] /\ replayed \in [Replica -> Seq(Envelope)]
      BY DEF TypeOK
    <3>3. /\ deliver'[p] = Append(deliver[p], Head(replayed[p]))
          /\ \A q \in Replica \ {p} : deliver'[q] = deliver[q]
      BY <3>1, <3>2, SMTT(10), Z3T(30) DEF Push
    <3>4. /\ replayed'[p] = Tail(replayed[p])
          /\ \A q \in Replica \ {p} : replayed'[q] = replayed[q]
      BY <3>1, <3>2, SMTT(10), Z3T(30)
    <3> QED
      BY <3>1, <3>3, <3>4, ZenonT(30) DEF Grows
  <2> QED
    BY <1>3, <2>1, <2>2, <2>3, ZenonT(30) DEF Replay
<1>4. ASSUME NEW p \in Replica, Call(p) PROVE \A r \in Replica : Grows(r)
  <2>1. CASE Send(p)
    <3>1. /\ graph' = [graph EXCEPT ![p] = @ \cup {NewEnvelope(p)}]
          /\ deliver' = Push(deliver, p, NewEnvelope(p)) /\ UNCHANGED replayed
      BY <2>1, ZenonT(30) DEF Send
    <3>2. NewEnvelope(p) \in Envelope
      BY StampOK, ZenonT(30) DEF NewEnvelope, GraphsOK
    <3> QED
      BY <3>1, <3>2, PushGrows, ZenonT(30)
  <2>2. CASE ~Send(p)
    BY <1>4, <2>2, StillGrows, ZenonT(30)
       DEF Call, RequestMissing, FreezeMember, Maskout, Maskin, volatile
  <2> QED
    BY <2>1, <2>2
<1> QED
  BY <1>1, <1>2, <1>3, <1>4, ZenonT(30) DEF Progress

-----------------------------------------------------------------------------
(* The conversation's steps keep the invariant *)

(* What is delivered stays known. *)
LEMMA GrowsKnown ==
  ASSUME TypeOK, DeliversKnown, NEW r \in Replica, Grows(r)
  PROVE  /\ graph[r] \subseteq graph'[r]
         /\ Range(deliver'[r]) \subseteq graph'[r]
         /\ Range(replayed'[r]) \subseteq graph'[r]
<1>1. /\ deliver[r] \in Seq(Envelope) /\ replayed[r] \in Seq(Envelope)
      /\ Range(deliver[r]) \subseteq graph[r] /\ Range(replayed[r]) \subseteq graph[r]
  BY DEF TypeOK, DeliversKnown
<1>2. ASSUME NEW e \in Envelope
      PROVE  /\ Range(Append(deliver[r], e)) = Range(deliver[r]) \cup {e}
             /\ Range(Append(replayed[r], e)) = Range(replayed[r]) \cup {e}
  BY <1>1, RangeAppend, SMTT(10), Z3T(30)
<1>3. ASSUME replayed[r] # <<>>
      PROVE  /\ Head(replayed[r]) \in Envelope
             /\ Head(replayed[r]) \in Range(replayed[r])
             /\ Range(Tail(replayed[r])) \subseteq Range(replayed[r])
  <2>1. Len(replayed[r]) \in Nat /\ Len(replayed[r]) > 0 /\ Head(replayed[r]) = replayed[r][1]
    BY <1>1, <1>3, SMTT(10), Z3T(30)
  <2>2. /\ DOMAIN Tail(replayed[r]) = 1..(Len(replayed[r]) - 1)
        /\ \A i \in 1..(Len(replayed[r]) - 1) : Tail(replayed[r])[i] = replayed[r][i + 1]
    BY <1>1, <1>3, SMTT(10), Z3T(30)
  <2> QED
    BY <1>1, <2>1, <2>2, SMTT(10), Z3T(30) DEF Range
<1>4. CASE graph[r] \subseteq graph'[r] /\ deliver'[r] = deliver[r] /\ replayed'[r] = replayed[r]
  BY <1>1, <1>4
<1>5. ASSUME NEW e \in Envelope, graph'[r] = graph[r] \cup {e},
             \/ deliver'[r] = Append(deliver[r], e) /\ replayed'[r] = replayed[r]
             \/ deliver'[r] = deliver[r] /\ replayed'[r] = Append(replayed[r], e)
      PROVE  /\ graph[r] \subseteq graph'[r] /\ Range(deliver'[r]) \subseteq graph'[r]
             /\ Range(replayed'[r]) \subseteq graph'[r]
  <2>1. /\ Range(deliver'[r]) \subseteq Range(deliver[r]) \cup {e}
        /\ Range(replayed'[r]) \subseteq Range(replayed[r]) \cup {e}
    BY <1>2, <1>5, ZenonT(30)
  <2> QED
    BY <1>1, <1>5, <2>1, ZenonT(30)
<1>6. ASSUME graph'[r] = graph[r], replayed[r] # <<>>, replayed'[r] = Tail(replayed[r]),
             deliver'[r] = Append(deliver[r], Head(replayed[r]))
      PROVE  /\ graph[r] \subseteq graph'[r] /\ Range(deliver'[r]) \subseteq graph'[r]
             /\ Range(replayed'[r]) \subseteq graph'[r]
  <2>1. /\ Range(deliver'[r]) = Range(deliver[r]) \cup {Head(replayed[r])}
        /\ Head(replayed[r]) \in graph[r] /\ Range(replayed'[r]) \subseteq Range(replayed[r])
    BY <1>1, <1>2, <1>3, <1>6, ZenonT(30)
  <2> QED
    BY <1>1, <1>6, <2>1, ZenonT(30)
<1> QED
  BY <1>4, <1>5, <1>6, ZenonT(30) DEF Grows

(* A message that is sent is numbered after its sender's earlier ones. *)
LEMMA IssuedLater ==
  ASSUME TypeOK, GraphsOK, HistoryInv, HistoryInv', Progress
  PROVE  /\ Issued \subseteq Issued'
         /\ \A e \in Issued' \ Issued : /\ e \in Envelope
                                      /\ \A d \in Issued : d.sender = e.sender =>
                                                            SenderSeq(d) < SenderSeq(e)
<1>1. CASE sent' = sent
  BY <1>1 DEF Issued
<1>2. ASSUME NEW p \in Replica, Send(p)
      PROVE  /\ Issued \subseteq Issued'
             /\ \A e \in Issued' \ Issued : /\ e \in Envelope
                                          /\ \A d \in Issued : d.sender = e.sender =>
                                                                SenderSeq(d) < SenderSeq(e)
  <2> DEFINE n == NewEnvelope(p)
  <2>1. n \in Envelope /\ n.sender = p
    BY StampOK, ZenonT(30) DEF NewEnvelope, GraphsOK
  <2>2. sent' = Push(sent, p, n)
    BY <1>2 DEF Send
  <2> HIDE DEF n
  <2>3. sent'[p] = Append(sent[p], n) /\ Issued' = Issued \cup {n}
    BY <2>1, <2>2, IssuedGrows, ZenonT(30)
  <2>4. /\ Len(sent[p]) \in Nat /\ Len(sent[p]) + 1 \in DOMAIN sent'[p]
        /\ sent'[p][Len(sent[p]) + 1] = n
    BY <2>1, <2>3, SMTT(10), Z3T(30) DEF TypeOK
  <2>5. ASSUME NEW d \in Issued, d.sender = p PROVE SenderSeq(d) < SenderSeq(n)
    <3>1. SenderSeq(d) \in 1..Len(sent[p])
      BY <2>5, IssuedIs, ZenonT(30) DEF HistoryInv
    <3> QED
      BY <2>4, <3>1, SMTT(10), Z3T(30) DEF HistoryInv, SentNumbered
  <2> QED
    BY <2>1, <2>3, <2>5, ZenonT(30)
<1>3. sent' = sent \/ \E p \in Replica : Send(p)
  BY ZenonT(30) DEF Progress, Lose, Handler, ReceiveEnvelope, WakeDeferred, ReceiveLostRequest,
     Replay, Call,
         ReplayLog, ReplayEntry, ReplayDone, DeliverReplayed, RequestMissing, FreezeMember,
         Maskout, Maskin
<1> QED
  BY <1>1, <1>2, <1>3, ZenonT(30)

(* Nobody is frozen. *)
LEMMA ProgressFreezes ==
  ASSUME TypeOK, AllHeard, Progress
  PROVE  frozen' = frozen
<1>1. ~Spend("freeze")
  BY NoSpend, ZenonT(30) DEF AllHeard, FaultKind
<1> QED
  BY <1>1, ZenonT(30) DEF Progress, Lose, Handler, ReceiveEnvelope, WakeDeferred,
     ReceiveLostRequest, Replay,
         Call, ReplayLog, ReplayEntry, ReplayDone, DeliverReplayed, Send, RequestMissing,
         FreezeMember, Maskout, Maskin, volatile

(* A step of the conversation leaves what was emitted whole. *)
LEMMA ProgressTotal ==
  ASSUME TypeOK, GraphsOK, HistoryInv, HistoryInv', TotalInv, AllHeard,
         Progress, UNCHANGED orderVars
  PROVE  TotalInv'
<1>1. UNCHANGED <<pump, consumed, nextWave, latestWave, apply>>
  BY DEF orderVars
<1>2. frozen' = [r \in Replica |-> {}]
  BY ProgressFreezes, ZenonT(30) DEF TotalInv
<1>3. \A r \in Replica : /\ graph[r] \subseteq graph'[r]
                         /\ Range(deliver'[r]) \subseteq graph'[r]
                         /\ Range(replayed'[r]) \subseteq graph'[r]
  BY ProgressGrows, GrowsKnown, ZenonT(30) DEF TotalInv
<1>4. DeliversKnown'
  BY <1>3, ZenonT(30) DEF DeliversKnown
<1>5. HeardFrom'
  BY <1>1, <1>3, SMTT(30), Z3T(30) DEF TotalInv, HeardFrom
<1>6. ASSUME NEW r \in Replica, NEW e \in Issued' \ Issued PROVE ~(WaveOf(e) < nextWave[r])
  <2>1. e \in Envelope /\ \A d \in Issued : d.sender = e.sender => SenderSeq(d) < SenderSeq(e)
    BY IssuedLater, ZenonT(30)
  <2>2. WaveOf(e) \in Nat /\ WaveOf(e) >= 1 /\ nextWave[r] \in Nat /\ e.sender \in Replica
    BY <2>1, WaveIs, EnvelopeFields, ZenonT(30) DEF TotalInv, TotalTypeOK
  <2>3. CASE nextWave[r] > 1
    <3>1. latestWave[r][e.sender] >= nextWave[r] /\ latestWave[r][e.sender] \in Nat
      BY <2>2, <2>3, ZenonT(30) DEF TotalInv, TotalTypeOK, HeardAll, Vector
    <3>2. PICK d \in graph[r] : d.sender = e.sender /\ WaveOf(d) = latestWave[r][e.sender]
      BY <2>2, <2>3, <3>1, SMTT(30), Z3T(30) DEF TotalInv, HeardFrom
    <3>3. d \in Issued /\ d \in Envelope
      BY <3>2, IssuedIs, ZenonT(30) DEF HistoryInv, OnlyIssued
    <3>4. SenderSeq(d) < SenderSeq(e) /\ SenderSeq(d) \in Nat /\ SenderSeq(e) \in Nat
      BY <2>1, <3>2, <3>3, EnvelopeFields, ZenonT(30)
    <3>5. Covers(e.vc, d.vc)
      <4>1. d \in Issued' /\ e \in Issued' /\ SenderSeq(d) <= e.vc[d.sender]
        BY <3>2, <3>3, <3>4, IssuedLater, SMTT(30), Z3T(30) DEF SenderSeq
      <4> QED
        BY <4>1, SMTT(10), Z3T(30) DEF HistoryInv, ClockCondition
    <3>6. WaveOf(d) <= WaveOf(e)
      BY <2>1, <3>3, <3>5, WaveMonotone, ZenonT(30)
    <3> QED
      BY <2>2, <3>1, <3>2, <3>6, SMTT(30), Z3T(30)
  <2> QED
    BY <2>2, <2>3, SMTT(10), Z3T(30)
<1>7. AppliedWaves'
  BY <1>1, <1>6, IssuedLater, ZenonT(30) DEF TotalInv, AppliedWaves
<1> QED
  BY <1>1, <1>2, <1>4, <1>5, <1>7, ZenonT(30) DEF TotalInv, TotalTypeOK, HeardAll
=============================================================================
