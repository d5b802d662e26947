---------------------------- MODULE TotalProofs -----------------------------
(***************************************************************************)
(* The total order layer, for every membership and any number of messages, *)
(* losses, crashes, masks and pulls: waves are emitted whole, and as long  *)
(* as no wave outgrows the slices sort.Slice sorts by insertion, all       *)
(* members apply one sequence.                                             *)
(*                                                                         *)
(* The argument.  A member emits wave w once it has a message past w from  *)
(* everybody.  Clocks tell causality and graphs are causally closed, so    *)
(* what a sender stamped before that message is in the member's graph, and *)
(* what it stamps later is of a later wave: the wave in the graph is all   *)
(* there will ever be of it.  The emitted waves are then a set that is the *)
(* same at every member, sorted by one strict order.                       *)
(***************************************************************************)
EXTENDS WaveProofs

-----------------------------------------------------------------------------
(* The pump's steps *)

(* Only finitely many messages have been sent. *)
LEMMA IssuedFinite ==
  ASSUME TypeOK
  PROVE  IsFiniteSet(Issued)
<1> DEFINE F == [q \in Replica |-> Range(sent[q])]
<1>1. IsFiniteSet(Replica) /\ F \in [Replica -> SUBSET Envelope]
  BY ReplicaAssumption, SMTT(30), Z3T(30) DEF TypeOK, Range
<1>2. IsFiniteSet(Range(F))
  BY <1>1, RangeFinite, ZenonT(30)
<1>3. ASSUME NEW q \in Replica PROVE IsFiniteSet(Range(sent[q]))
  <2>1. Len(sent[q]) \in Nat /\ sent[q] \in [1..Len(sent[q]) -> Envelope]
    BY DEF TypeOK
  <2>2. IsFiniteSet(1..Len(sent[q]))
    <3>1. 1 \in Int /\ Len(sent[q]) \in Int
      BY <2>1
    <3> QED
      BY <3>1, FS_Interval, ZenonT(30)
  <2> QED
    BY <2>1, <2>2, RangeFinite, ZenonT(30)
<1>4. \A T \in Range(F) : IsFiniteSet(T)
  BY <1>3 DEF Range
<1>5. Issued = UNION Range(F)
  BY DEF Issued, Range
<1> HIDE DEF F
<1> QED
  BY <1>2, <1>4, <1>5, FS_UNION, ZenonT(30)

(* A delivery read raises what is heard from its sender to its wave. *)
LEMMA ObserveTotal ==
  ASSUME TypeOK, TotalInv, NEW r \in Replica, Observe(r)
  PROVE  TotalInv'
<1> DEFINE e == deliver[r][consumed[r] + 1]
           seen == latestWave[r][e.sender]
           m == Max({seen, WaveOf(e)})
<1>1. e \in Envelope /\ e \in graph[r]
  <2>1. /\ deliver[r] \in Seq(Envelope) /\ consumed[r] \in Nat /\ consumed[r] < Len(deliver[r])
        /\ Range(deliver[r]) \subseteq graph[r]
    BY DEF TypeOK, TotalInv, TotalTypeOK, Observe, DeliversKnown
  <2>2. consumed[r] + 1 \in DOMAIN deliver[r] /\ e \in Envelope
    BY <2>1, SMTT(10), Z3T(30)
  <2> QED
    BY <2>1, <2>2, SMTT(30), Z3T(30) DEF Range
<1>2. /\ latestWave' = [latestWave EXCEPT ![r][e.sender] = m]
      /\ consumed' = [consumed EXCEPT ![r] = @ + 1]
      /\ pump' = [pump EXCEPT ![r] = "check"]
      /\ UNCHANGED <<graph, sent, frozen, deliver, replayed, nextWave, apply>>
  BY DEF Observe, vars, volatile
<1> HIDE DEF e
<1>3. /\ WaveOf(e) \in Nat /\ e.sender \in Replica /\ seen \in Nat
  BY <1>1, WaveIs, EnvelopeFields, ZenonT(30) DEF TotalInv, TotalTypeOK, Vector
<1>4. m \in Nat /\ m >= seen /\ (m = seen \/ m = WaveOf(e))
  <2>1. CASE seen <= WaveOf(e)
    <3>1. m = WaveOf(e)
      BY <1>3, <2>1, MaxIs, SMTT(30), Z3T(30)
    <3> QED
      BY <1>3, <2>1, <3>1, SMTT(10), Z3T(30)
  <2>2. CASE ~(seen <= WaveOf(e))
    <3> DEFINE S == {seen, WaveOf(e)}
    <3>1. S \in SUBSET Int /\ seen \in S /\ \A x \in S : x <= seen
      BY <1>3, <2>2, SMTT(30), Z3T(30)
    <3> HIDE DEF S
    <3>2. Max(S) = seen
      BY <3>1, MaxIs, ZenonT(30)
    <3> QED
      BY <1>3, <3>2, SMTT(30), Z3T(30) DEF S
  <2> QED
    BY <2>1, <2>2, SMTT(10), Z3T(30)
<1> HIDE DEF m
<1>5. latestWave \in [Replica -> [Replica -> Nat]]
  BY DEF TotalInv, TotalTypeOK, Vector
<1>6. /\ latestWave' \in [Replica -> [Replica -> Nat]]
      /\ latestWave'[r][e.sender] = m
      /\ \A p, q \in Replica : p # r \/ q # e.sender => latestWave'[p][q] = latestWave[p][q]
  BY <1>2, <1>3, <1>4, <1>5, ZenonT(30)
<1>7. TotalTypeOK'
  <2>1. TotalTypeOK /\ latestWave' \in [Replica -> Vector]
    BY <1>6 DEF TotalInv, Vector
  <2> QED
    BY <1>2, <2>1, SMTT(10), Z3T(30) DEF TotalTypeOK
<1>8. DeliversKnown' /\ frozen' = [q \in Replica |-> {}]
  BY <1>2 DEF TotalInv, DeliversKnown
<1>9. HeardFrom'
  <2>1. HeardFrom
    BY DEF TotalInv
  <2>2. ASSUME NEW p \in Replica, NEW q \in Replica, latestWave'[p][q] > 0
        PROVE  \E d \in graph'[p] : d.sender = q /\ WaveOf(d) = latestWave'[p][q]
    <3>1. CASE p # r \/ q # e.sender
      <4>1. latestWave'[p][q] = latestWave[p][q] /\ graph' = graph
        BY <1>2, <1>6, <3>1, SMTT(10), Z3T(30)
      <4> QED
        BY <2>1, <2>2, <4>1, SMTT(10), Z3T(30) DEF HeardFrom
    <3>2. CASE p = r /\ q = e.sender /\ m = WaveOf(e)
      BY <1>1, <1>2, <1>6, <3>2, ZenonT(30)
    <3>3. CASE p = r /\ q = e.sender /\ m = seen
      <4>1. latestWave'[p][q] = latestWave[p][q] /\ graph' = graph
        BY <1>2, <1>6, <3>3, ZenonT(30)
      <4> QED
        BY <2>1, <2>2, <4>1 DEF HeardFrom
    <3> QED
      BY <1>4, <3>1, <3>2, <3>3, ZenonT(30)
  <2> QED
    BY <2>2 DEF HeardFrom
<1>10. HeardAll'
  <2>1. \A p, q \in Replica : latestWave'[p][q] >= latestWave[p][q]
    BY <1>4, <1>5, <1>6, SMTT(30), Z3T(30)
  <2>2. /\ pump'[r] = "check" /\ \A p \in Replica \ {r} : pump'[p] = pump[p]
        /\ \A p \in Replica : nextWave[p] \in Nat
    BY <1>2, SMTT(10), Z3T(30) DEF TotalInv, TotalTypeOK
  <2>3. HeardAll
    BY DEF TotalInv
  <2> QED
    BY <1>2, <1>5, <1>6, <2>1, <2>2, <2>3, SMTT(30), Z3T(30) DEF HeardAll
<1>11. AppliedWaves'
  BY <1>2, SMTT(10), Z3T(30) DEF TotalInv, AppliedWaves, Issued
<1> QED
  BY <1>7, <1>8, <1>9, <1>10, <1>11, SMTT(30), Z3T(30) DEF TotalInv

(* The check passes only when everybody has been heard from past the wave. *)
LEMMA CheckTotal ==
  ASSUME TypeOK, TotalInv, NEW r \in Replica, CheckWave(r)
  PROVE  TotalInv'
<1>1. UNCHANGED <<graph, sent, frozen, deliver, replayed, consumed, nextWave, latestWave, apply>>
  BY DEF CheckWave, vars, volatile
<1>2. /\ pump'[r] \in {"recv", "emit"} /\ \A p \in Replica \ {r} : pump'[p] = pump[p]
      /\ pump'[r] = "emit" => ContinuationProperty(r, nextWave[r])
      /\ pump' \in [Replica -> {"recv", "check", "emit"}]
  BY DEF CheckWave, TotalInv, TotalTypeOK
<1>3. TotalTypeOK'
  BY <1>1, <1>2, ZenonT(30) DEF TotalInv, TotalTypeOK
<1>4. HeardAll'
  BY <1>1, <1>2, SMTT(10), Z3T(30) DEF HeardAll, TotalInv, ContinuationProperty
<1>5. AppliedWaves'
  BY <1>1 DEF TotalInv, AppliedWaves, Issued
<1> QED
  BY <1>1, <1>3, <1>4, <1>5, SMTT(10), Z3T(30) DEF TotalInv, DeliversKnown, HeardFrom

(* The messages of the wave about to be emitted are all there will be. *)
LEMMA WaveIsWhole ==
  ASSUME TypeOK, GraphsOK, HistoryInv, TotalInv, NEW r \in Replica, pump[r] = "emit"
  PROVE  MessagesInWave(graph[r], nextWave[r]) = {e \in Issued : WaveOf(e) = nextWave[r]}
<1>1. ASSUME NEW e \in Issued, WaveOf(e) = nextWave[r] PROVE e \in graph[r]
  <2>1. e \in Envelope /\ e.sender \in Replica
    BY IssuedIs DEF HistoryInv
  <2>2. /\ latestWave[r][e.sender] > nextWave[r] /\ latestWave[r][e.sender] \in Nat
        /\ nextWave[r] \in Nat
    BY <2>1 DEF TotalInv, TotalTypeOK, HeardAll, Vector
  <2>3. PICK d \in graph[r] : d.sender = e.sender /\ WaveOf(d) = latestWave[r][e.sender]
    BY <2>1, <2>2, SMTT(30), Z3T(30) DEF TotalInv, HeardFrom
  <2> QED
    BY <1>1, <2>2, <2>3, WaveKnown, ZenonT(30)
<1>2. graph[r] \subseteq Issued
  BY DEF HistoryInv, OnlyIssued
<1> QED
  BY <1>1, <1>2, ZenonT(30) DEF MessagesInWave

(* A wave is emitted whole. *)
LEMMA EmitTotal ==
  ASSUME TypeOK, GraphsOK, HistoryInv, TotalInv, NEW r \in Replica, EmitWave(r)
  PROVE  TotalInv'
<1> DEFINE w == nextWave[r]
           envs == {e \in Issued : WaveOf(e) = w}
<1>1. /\ pump[r] = "emit" /\ pump' = [pump EXCEPT ![r] = "check"]
      /\ nextWave' = [nextWave EXCEPT ![r] = @ + 1]
      /\ UNCHANGED <<graph, sent, frozen, deliver, replayed, consumed, latestWave>>
  BY DEF EmitWave, vars, volatile
<1>2. PICK s \in WaveOrders(envs) : apply' = [apply EXCEPT ![r] = @ \o s]
  BY <1>1, WaveIsWhole, ZenonT(30) DEF EmitWave
<1>3. envs \in SUBSET Envelope /\ IsFiniteSet(envs)
  BY IssuedIs, IssuedFinite, FS_Subset, SMTT(10), Z3T(30) DEF HistoryInv
<1>4. s \in Seq(Envelope) /\ Range(s) = envs
  BY <1>3, WaveOrdersArrange, SMTT(10), Z3T(30)
<1>5. /\ apply \in [Replica -> Seq(Envelope)] /\ nextWave \in [Replica -> Nat \ {0}]
      /\ pump \in [Replica -> {"recv", "check", "emit"}] /\ latestWave \in [Replica -> [Replica -> Nat]]
  BY DEF TotalInv, TotalTypeOK, Vector
<1>6. /\ apply[r] \o s \in Seq(Envelope)
      /\ Range(apply[r] \o s) = Range(apply[r]) \cup envs
  BY <1>4, <1>5, RangeConcat, SMTT(10), Z3T(30)
<1>7. /\ apply' \in [Replica -> Seq(Envelope)]
      /\ Range(apply'[r]) = Range(apply[r]) \cup envs
      /\ \A q \in Replica \ {r} : apply'[q] = apply[q]
  BY <1>2, <1>5, <1>6, ZenonT(30)
<1>8. /\ nextWave' \in [Replica -> Nat \ {0}] /\ nextWave'[r] = w + 1 /\ w \in Nat
      /\ \A q \in Replica \ {r} : nextWave'[q] = nextWave[q]
      /\ pump' \in [Replica -> {"recv", "check", "emit"}] /\ pump'[r] = "check"
      /\ \A q \in Replica \ {r} : pump'[q] = pump[q]
  BY <1>1, <1>5, SMTT(30), Z3T(30)
<1>9. TotalTypeOK'
  BY <1>1, <1>7, <1>8, ZenonT(30) DEF TotalInv, TotalTypeOK
<1>10. HeardAll'
  <2>1. HeardAll
    BY DEF TotalInv
  <2>2. \A q \in Replica : latestWave[r][q] > w /\ latestWave[r][q] \in Nat
    BY <1>1, <1>5, <2>1, ZenonT(30) DEF HeardAll
  <2> QED
    <3>1. ASSUME NEW q \in Replica \ {r}
          PROVE  nextWave'[q] = nextWave[q] /\ pump'[q] = pump[q] /\ latestWave'[q] = latestWave[q]
      BY <1>1, <1>8, SMTT(10), Z3T(30)
    <3>2. pump'[r] # "emit"
      BY <1>8
    <3> QED
      BY <1>1, <1>8, <2>1, <2>2, <3>1, <3>2, SMTT(10), Z3T(30) DEF HeardAll
<1>11. AppliedWaves'
  <2>1. Issued' = Issued /\ AppliedWaves
    BY <1>1, ZenonT(30) DEF Issued, TotalInv
  <2>2. \A e \in Issued : WaveOf(e) \in Nat
    BY IssuedIs, WaveIs, ZenonT(30) DEF HistoryInv
  <2>3. Range(apply'[r]) = {e \in Issued : WaveOf(e) < w + 1}
    BY <1>7, <1>8, <2>1, <2>2, SMTT(30), Z3T(30) DEF AppliedWaves
  <2>4. ASSUME NEW q \in Replica PROVE Range(apply'[q]) = {e \in Issued' : WaveOf(e) < nextWave'[q]}
    <3>1. CASE q = r
      <4>1. nextWave'[q] = w + 1
        BY <1>8, <3>1, ZenonT(30)
      <4> QED
        BY <2>1, <2>3, <3>1, <4>1, ZenonT(30)
    <3>2. CASE q # r
      <4>1. nextWave'[q] = nextWave[q] /\ apply'[q] = apply[q]
        BY <1>7, <1>8, <3>2, ZenonT(30)
      <4> QED
        BY <2>1, <4>1, ZenonT(30) DEF AppliedWaves
    <3> QED
      BY <3>1, <3>2, SMTT(30), Z3T(30)
  <2> QED
    BY <2>4, Zenon DEF AppliedWaves
<1> QED
  BY <1>1, <1>9, <1>10, <1>11, ZenonT(30) DEF TotalInv, DeliversKnown, HeardFrom

(* A crashed member starts over. *)
LEMMA CrashTotalKeeps ==
  ASSUME TypeOK, HistoryInv, TotalInv, NEW r \in Replica, CrashTotal(r)
  PROVE  TotalInv'
<1>1. /\ pump' = [pump EXCEPT ![r] = "recv"]
      /\ consumed' = [consumed EXCEPT ![r] = 0]
      /\ nextWave' = [nextWave EXCEPT ![r] = 1]
      /\ latestWave' = [latestWave EXCEPT ![r] = ZeroVector]
      /\ apply' = [apply EXCEPT ![r] = <<>>]
  BY DEF CrashTotal
<1>2. /\ graph' = [graph EXCEPT ![r] = {}] /\ frozen' = [frozen EXCEPT ![r] = {}]
      /\ replayed' = [replayed EXCEPT ![r] = <<>>] /\ deliver' = [deliver EXCEPT ![r] = <<>>]
      /\ UNCHANGED sent
  BY DEF CrashTotal, Crash
<1>3. TotalTypeOK /\ DeliversKnown /\ HeardFrom /\ HeardAll /\ AppliedWaves
  BY DEF TotalInv
<1>4. ZeroVector \in Vector /\ <<>> \in Seq(Envelope) /\ Range(<<>>) = {}
  BY DEF ZeroVector, Vector, Range
<1>5. TotalTypeOK'
  BY <1>1, <1>3, <1>4, SMTT(30), Z3T(30) DEF TotalTypeOK
<1>6. DeliversKnown'
  <2>1. /\ deliver \in [Replica -> Seq(Envelope)] /\ replayed \in [Replica -> Seq(Envelope)]
        /\ graph \in [Replica -> SUBSET Envelope]
    BY ZenonT(30) DEF TypeOK
  <2> QED
    BY <1>2, <1>3, <1>4, <2>1, ZenonT(30) DEF DeliversKnown
<1>7. HeardFrom' /\ HeardAll'
  <2>1. /\ \A q \in Replica : latestWave'[r][q] = 0
        /\ nextWave'[r] = 1 /\ pump'[r] = "recv"
        /\ \A p \in Replica \ {r} : /\ latestWave'[p] = latestWave[p]
                                   /\ nextWave'[p] = nextWave[p] /\ pump'[p] = pump[p]
                                   /\ graph'[p] = graph[p]
    <3>1. graph \in [Replica -> SUBSET Envelope]
      BY ZenonT(30) DEF TypeOK
    <3> QED
      BY <1>1, <1>2, <1>3, <3>1, ZenonT(30) DEF TotalTypeOK, ZeroVector
  <2> QED
    BY <1>3, <2>1, SMTT(30), Z3T(30) DEF HeardFrom, HeardAll
<1>8. AppliedWaves'
  <2>1. Issued' = Issued
    BY <1>2, SMTT(10), Z3T(30) DEF Issued
  <2>2. \A e \in Issued : WaveOf(e) \in Nat /\ ~(WaveOf(e) < 1)
    BY IssuedIs, WaveIs, SMTT(10), Z3T(30) DEF HistoryInv
  <2>3. /\ Range(apply'[r]) = {} /\ nextWave'[r] = 1
        /\ \A p \in Replica \ {r} : apply'[p] = apply[p] /\ nextWave'[p] = nextWave[p]
    BY <1>1, <1>3, <1>4, SMTT(10), Z3T(30) DEF TotalTypeOK
  <2> QED
    BY <1>3, <2>1, <2>2, <2>3, ZenonT(30) DEF AppliedWaves
<1> QED
  BY <1>2, <1>5, <1>6, <1>7, <1>8, ZenonT(30) DEF TotalInv

-----------------------------------------------------------------------------
(* The invariant always holds *)

(* At the start nothing is known, heard of or applied. *)
LEMMA InitTotal == TotalInit => TotalInv
<1> SUFFICES ASSUME TotalInit PROVE TotalInv
  OBVIOUS
<1>1. /\ \A r \in Replica : deliver[r] = <<>> /\ replayed[r] = <<>> /\ sent[r] = <<>>
      /\ frozen = [r \in Replica |-> {}]
  BY DEF TotalInit, Init
<1>2. /\ pump = [r \in Replica |-> "recv"] /\ consumed = [r \in Replica |-> 0]
      /\ nextWave = [r \in Replica |-> 1] /\ latestWave = [r \in Replica |-> ZeroVector]
      /\ apply = [r \in Replica |-> <<>>]
  BY DEF TotalInit
<1>3. ZeroVector \in Vector /\ <<>> \in Seq(Envelope) /\ Range(<<>>) = {}
  BY DEF ZeroVector, Vector, Range
<1>4. TotalTypeOK
  BY <1>2, <1>3, SMTT(10), Z3T(30) DEF TotalTypeOK
<1>5. Issued = {} /\ DeliversKnown
  BY <1>1, <1>3, ZenonT(30) DEF Issued, DeliversKnown
<1>6. HeardFrom /\ HeardAll
  BY <1>2 DEF HeardFrom, HeardAll, ZeroVector
<1>7. AppliedWaves
  BY <1>2, <1>3, <1>5, ZenonT(30) DEF AppliedWaves
<1> QED
  BY <1>1, <1>4, <1>5, <1>6, <1>7, ZenonT(30) DEF TotalInv

(* What the order layer adds does not disturb the conversation. *)
LEMMA TotalStepIs ==
  ASSUME [TotalNext]_totalVars
  PROVE  /\ [Next]_vars
         /\ \/ Progress /\ UNCHANGED orderVars
            \/ \E r \in Replica : Observe(r) \/ CheckWave(r) \/ EmitWave(r)
            \/ \E r \in Replica : CrashTotal(r)
            \/ UNCHANGED totalVars
<1>1. CASE UNCHANGED totalVars
  BY <1>1 DEF totalVars
<1>2. CASE Lose /\ UNCHANGED orderVars
  BY <1>2 DEF Next, Progress
<1>3. ASSUME NEW r \in Replica, Conversation(r) PROVE Next /\ Progress /\ UNCHANGED orderVars
  BY <1>3 DEF Conversation, Next, Progress
<1>4. ASSUME NEW r \in Replica, Pump(r)
      PROVE  UNCHANGED vars /\ (Observe(r) \/ CheckWave(r) \/ EmitWave(r))
  BY <1>4, ZenonT(30) DEF Pump, Observe, CheckWave, EmitWave
<1>5. ASSUME NEW r \in Replica, CrashTotal(r) PROVE Next
  BY <1>5, ZenonT(30) DEF CrashTotal, Next
<1> QED
  BY <1>1, <1>2, <1>3, <1>4, <1>5, ZenonT(30) DEF TotalNext

(* Every step keeps it. *)
LEMMA StepTotal ==
  ASSUME TypeOK, GraphsOK, HistoryInv, HistoryInv', TotalInv, AllHeard, [TotalNext]_totalVars
  PROVE  TotalInv'
<1>1. CASE UNCHANGED totalVars
  <2>1. UNCHANGED <<graph, frozen, replayed, deliver, sent, pump, consumed, nextWave, latestWave, apply>>
    BY <1>1 DEF totalVars, vars, volatile, orderVars
  <2> QED
    BY <2>1, SMTT(30), Z3T(30)
       DEF TotalInv, TotalTypeOK, DeliversKnown, HeardFrom, HeardAll, AppliedWaves,
           Issued
<1> QED
  BY <1>1, TotalStepIs, ProgressTotal, ObserveTotal, CheckTotal, EmitTotal,
     CrashTotalKeeps, ZenonT(30)

ConversationInv == TypeOK /\ GraphsOK /\ HistoryInv

(* The conversation's invariants and the order layer's. *)
LEMMA TotalAlways ==
  ASSUME AllHeard
  PROVE  TotalSpec => [](ConversationInv /\ TotalInv)
<1>1. TotalInit => ConversationInv /\ TotalInv
  BY InitTotal, InitType, InitHistory, ZenonT(30) DEF TotalInit, ConversationInv
<1>2. ConversationInv /\ TotalInv /\ [TotalNext]_totalVars => (ConversationInv /\ TotalInv)'
  <2> SUFFICES ASSUME ConversationInv, TotalInv, [TotalNext]_totalVars
               PROVE  ConversationInv' /\ TotalInv'
    OBVIOUS
  <2>1. [Next]_vars /\ CarefulRestart
    BY TotalStepIs DEF AllHeard
  <2>2. ConversationInv'
    BY <2>1, StepType, StepHistory, ZenonT(30) DEF ConversationInv
  <2> QED
    BY <2>2, StepTotal, SMTT(10), Z3T(30) DEF ConversationInv
<1> QED
  BY <1>1, <1>2, PTL DEF TotalSpec

(* Waves are emitted whole, for every membership, however many messages    *)
(* are sent or lost and however often members crash: continuationProperty  *)
(* and the causal past of the graph together leave nothing of an emitted   *)
(* wave on its way or still to be sent.                                    *)
THEOREM WavesAreWhole ==
  ASSUME AllHeard
  PROVE  TotalSpec => []NothingStranded
<1>1. TotalInv => NothingStranded
  BY DEF TotalInv, AppliedWaves, NothingStranded
<1> QED
  BY <1>1, TotalAlways, PTL

-----------------------------------------------------------------------------
(* One sequence *)

(* No wave has more messages than sort.Slice sorts by insertion. *)
ShortWaves ==
  \A w \in Nat : Cardinality({e \in Issued : WaveOf(e) = w}) <= InsertionSortLimit

(* Every member applies in order. *)
AppliesInOrder == \A r \in Replica : InOrder(apply[r])

(* A short wave is sorted by sender and, for one sender, as sent. *)
LEMMA WaveSorted ==
  ASSUME TypeOK, HistoryInv, ShortWaves, NEW w \in Nat,
         NEW s \in WaveOrders({e \in Issued : WaveOf(e) = w})
  PROVE  InOrder(s)
<1> DEFINE envs == {e \in Issued : WaveOf(e) = w}
<1>1. envs \in SUBSET Envelope /\ IsFiniteSet(envs)
  BY IssuedIs, IssuedFinite, FS_Subset, ZenonT(30) DEF HistoryInv
<1>2. s \in Seq(Envelope) /\ Range(s) = envs /\ \A i, j \in DOMAIN s : s[i] = s[j] => i = j
  BY <1>1, WaveOrdersArrange, ZenonT(30)
<1>3. \A i, j \in DOMAIN s :
        \/ BySender(s[i], s[j])
        \/ s[i].sender = s[j].sender /\ SenderSeq(s[i]) < SenderSeq(s[j])
        => i < j
  BY DEF ShortWaves, WaveOrders
<1>4. ASSUME NEW i \in DOMAIN s, NEW j \in DOMAIN s, i < j PROVE Earlier(s[i], s[j])
  <2> DEFINE e == s[i]
             f == s[j]
  <2>1. e \in envs /\ f \in envs /\ i \in Int /\ j \in Int
    BY <1>2, SMTT(10), Z3T(30) DEF Range
  <2>2. /\ e # f /\ ~BySender(f, e)
        /\ ~(f.sender = e.sender /\ SenderSeq(f) < SenderSeq(e))
    BY <1>2, <1>3, <1>4, <2>1, SMTT(10), Z3T(30)
  <2> HIDE DEF e, f
  <2>3. /\ e \in Issued /\ f \in Issued /\ e \in Envelope /\ f \in Envelope
        /\ WaveOf(e) = w /\ WaveOf(f) = w
    BY <1>1, <2>1, SMTT(10), Z3T(30)
  <2>4. /\ e.sender \in Replica /\ f.sender \in Replica
        /\ SenderSeq(e) \in Nat /\ SenderSeq(f) \in Nat
    BY <2>3, EnvelopeFields, SMTT(10), Z3T(30)
  <2>5. /\ Rank[e.sender] \in Nat /\ Rank[f.sender] \in Nat
        /\ Rank[e.sender] = Rank[f.sender] => e.sender = f.sender
    BY <2>4, RankAssumption, ZenonT(30)
  <2>6. CASE e.sender = f.sender
    <3>1. Id(e) # Id(f)
      BY <2>2, <2>3, IssuedUnique, ZenonT(30) DEF HistoryInv
    <3>2. SenderSeq(e) # SenderSeq(f)
      BY <2>6, <3>1, SMTT(10), Z3T(30) DEF Id
    <3> QED
      BY <2>2, <2>3, <2>4, <2>6, <3>2, SMTT(30), Z3T(30) DEF Earlier, e, f
  <2>7. CASE e.sender # f.sender
    <3>1. Rank[e.sender] < Rank[f.sender]
      BY <2>2, <2>5, <2>7, SMTT(10), Z3T(30) DEF BySender
    <3> QED
      BY <2>3, <3>1, SMTT(10), Z3T(30) DEF Earlier, e, f
  <2> QED
    BY <2>6, <2>7, ZenonT(30)
<1> QED
  BY <1>4 DEF InOrder

(* A wave comes after the waves before it. *)
LEMMA ConcatInOrder ==
  ASSUME NEW s \in Seq(Envelope), NEW t \in Seq(Envelope), InOrder(s), InOrder(t),
         \A e \in Range(s) : \A f \in Range(t) : Earlier(e, f)
  PROVE  InOrder(s \o t)
<1>1. /\ Len(s) \in Nat /\ Len(t) \in Nat /\ DOMAIN s = 1..Len(s) /\ DOMAIN t = 1..Len(t)
      /\ DOMAIN (s \o t) = 1..(Len(s) + Len(t))
      /\ \A i \in 1..Len(s) : (s \o t)[i] = s[i]
      /\ \A i \in (Len(s) + 1)..(Len(s) + Len(t)) : (s \o t)[i] = t[i - Len(s)]
  OBVIOUS
<1>2. ASSUME NEW i \in 1..(Len(s) + Len(t)), NEW j \in 1..(Len(s) + Len(t)), i < j
      PROVE  Earlier((s \o t)[i], (s \o t)[j])
  <2>1. CASE j \in 1..Len(s)
    <3>1. i \in 1..Len(s)
      BY <1>1, <1>2, <2>1, SMTT(10), Z3T(30)
    <3> QED
      BY <1>1, <1>2, <2>1, <3>1, ZenonT(30) DEF InOrder
  <2>2. CASE i \in 1..Len(s) /\ j \notin 1..Len(s)
    <3>1. j \in (Len(s) + 1)..(Len(s) + Len(t)) /\ j - Len(s) \in 1..Len(t)
      BY <1>1, <2>2, SMTT(10), Z3T(30)
    <3>2. s[i] \in Range(s) /\ t[j - Len(s)] \in Range(t)
      BY <1>1, <2>2, <3>1, ZenonT(30) DEF Range
    <3> QED
      BY <1>1, <2>2, <3>1, <3>2, ZenonT(30)
  <2>3. CASE i \notin 1..Len(s)
    <3>1. /\ i \in (Len(s) + 1)..(Len(s) + Len(t)) /\ j \in (Len(s) + 1)..(Len(s) + Len(t))
          /\ i - Len(s) \in 1..Len(t) /\ j - Len(s) \in 1..Len(t) /\ i - Len(s) < j - Len(s)
      BY <1>1, <1>2, <2>3, SMTT(10), Z3T(30)
    <3>2. Earlier(t[i - Len(s)], t[j - Len(s)])
      BY <1>1, <3>1, ZenonT(30) DEF InOrder
    <3> QED
      BY <1>1, <3>1, <3>2, ZenonT(30)
  <2> QED
    BY <2>1, <2>2, <2>3, ZenonT(30)
<1> QED
  BY <1>1, <1>2, ZenonT(30) DEF InOrder

(* Every step keeps the order. *)
LEMMA StepInOrder ==
  ASSUME ConversationInv, TotalInv, AppliesInOrder, ShortWaves, [TotalNext]_totalVars
  PROVE  AppliesInOrder'
<1>1. ASSUME NEW r \in Replica, EmitWave(r) PROVE AppliesInOrder'
  <2> DEFINE w == nextWave[r]
             envs == {e \in Issued : WaveOf(e) = w}
  <2>1. TypeOK /\ GraphsOK /\ HistoryInv
    BY DEF ConversationInv
  <2>2. PICK s \in WaveOrders(envs) : apply' = [apply EXCEPT ![r] = @ \o s]
    BY <1>1, <2>1, WaveIsWhole, ZenonT(30) DEF EmitWave
  <2>3. w \in Nat /\ apply \in [Replica -> Seq(Envelope)] /\ apply[r] \in Seq(Envelope)
    BY DEF TotalInv, TotalTypeOK
  <2>4. InOrder(s)
    BY <2>1, <2>3, WaveSorted, ZenonT(30)
  <2>5. envs \in SUBSET Envelope /\ IsFiniteSet(envs)
    BY <2>1, IssuedIs, IssuedFinite, FS_Subset, ZenonT(30) DEF HistoryInv
  <2>6. s \in Seq(Envelope) /\ Range(s) = envs
    BY <2>5, WaveOrdersArrange, ZenonT(30)
  <2>7. InOrder(apply[r] \o s)
    BY <2>3, <2>4, <2>6, ConcatInOrder, ZenonT(30)
       DEF AppliesInOrder, TotalInv, AppliedWaves, Earlier
  <2> QED
    BY <2>2, <2>3, <2>7, SMTT(10), Z3T(30) DEF AppliesInOrder
<1>2. ASSUME NEW r \in Replica, CrashTotal(r) PROVE AppliesInOrder'
  <2>1. apply'[r] = <<>> /\ \A q \in Replica \ {r} : apply'[q] = apply[q]
    BY <1>2 DEF CrashTotal, TotalInv, TotalTypeOK
  <2>2. InOrder(<<>>)
    BY DEF InOrder
  <2> QED
    BY <2>1, <2>2, ZenonT(30) DEF AppliesInOrder
<1>3. CASE UNCHANGED apply
  BY <1>3 DEF AppliesInOrder
<1>4. \/ UNCHANGED apply
      \/ \E r \in Replica : EmitWave(r) \/ CrashTotal(r)
  BY TotalStepIs, ZenonT(30) DEF orderVars, totalVars, Observe, CheckWave
<1> QED
  BY <1>1, <1>2, <1>3, <1>4, SMTT(10), Z3T(30)

(* All members apply in one order as long as waves are short. *)
LEMMA InOrderAlways ==
  ASSUME AllHeard
  PROVE  TotalSpec /\ []ShortWaves => [](ConversationInv /\ TotalInv /\ AppliesInOrder)
<1>1. TotalInit => AppliesInOrder
  BY DEF TotalInit, AppliesInOrder, InOrder
<1>2. ConversationInv /\ TotalInv /\ AppliesInOrder /\ ShortWaves /\ [TotalNext]_totalVars
      => AppliesInOrder'
  BY StepInOrder
<1> QED
  BY <1>1, <1>2, TotalAlways, PTL DEF TotalSpec

(* Total emits one sequence everywhere (total.go:26, "every replica sees   *)
(* the same sequence"), as long as no wave outgrows the slices sort.Slice  *)
(* sorts by insertion: what any two members have applied, each at its own  *)
(* pace and after its own crashes, differs only in length.                 *)
THEOREM OneSequence ==
  ASSUME AllHeard
  PROVE  TotalSpec /\ []ShortWaves => []Agreement
<1>1. ASSUME ConversationInv, TotalInv, AppliesInOrder, NEW q \in Replica, NEW r \in Replica,
             nextWave[q] <= nextWave[r]
      PROVE  \A i \in DOMAIN apply[q] \cap DOMAIN apply[r] : apply[q][i] = apply[r][i]
  <2>1. /\ apply[q] \in Seq(Envelope) /\ apply[r] \in Seq(Envelope)
        /\ nextWave[q] \in Nat /\ nextWave[r] \in Nat
    BY <1>1 DEF TotalInv, TotalTypeOK
  <2>2. InOrder(apply[q]) /\ InOrder(apply[r])
    BY <1>1, ZenonT(30) DEF AppliesInOrder
  <2>3. /\ Range(apply[q]) = {e \in Issued : WaveOf(e) < nextWave[q]}
        /\ Range(apply[r]) = {e \in Issued : WaveOf(e) < nextWave[r]}
    BY <1>1, ZenonT(30) DEF TotalInv, AppliedWaves
  <2>4. \A e \in Issued : WaveOf(e) \in Nat
    BY <1>1, IssuedIs, WaveIs, ZenonT(30) DEF ConversationInv, HistoryInv
  <2>5. Range(apply[q]) \subseteq Range(apply[r])
    BY <1>1, <2>1, <2>3, <2>4, SMTT(30), Z3T(30)
  <2>6. \A e \in Range(apply[q]) : \A f \in Range(apply[r]) :
          Earlier(f, e) => f \in Range(apply[q])
    BY <2>1, <2>3, <2>4, SMTT(30), Z3T(30) DEF Earlier
  <2> QED
    BY <2>1, <2>2, <2>5, <2>6, SortedAgree, ZenonT(30)
<1>2. ConversationInv /\ TotalInv /\ AppliesInOrder => Agreement
  <2> SUFFICES ASSUME ConversationInv, TotalInv, AppliesInOrder, NEW q \in Replica, NEW r \in Replica
               PROVE  \A i \in DOMAIN apply[q] \cap DOMAIN apply[r] : apply[q][i] = apply[r][i]
    BY DEF Agreement
  <2>1. nextWave[q] \in Nat /\ nextWave[r] \in Nat
    BY DEF TotalInv, TotalTypeOK
  <2>2. nextWave[q] <= nextWave[r] \/ nextWave[r] <= nextWave[q]
    BY <2>1, SMTT(10), Z3T(30)
  <2> QED
    BY <1>1, <2>2, SMTT(10), Z3T(30)
<1> QED
  BY <1>2, InOrderAlways, PTL

(* Under the same assumptions one sender's messages are applied as sent:   *)
(* its waves never decrease, and a short wave keeps them as inserted.      *)
THEOREM SendersKeepOrder ==
  ASSUME AllHeard
  PROVE  TotalSpec /\ []ShortWaves => []SenderOrder
<1>1. ASSUME ConversationInv, TotalInv, AppliesInOrder, NEW r \in Replica,
             NEW i \in DOMAIN apply[r], NEW j \in DOMAIN apply[r],
             apply[r][i].sender = apply[r][j].sender, i < j
      PROVE  SenderSeq(apply[r][i]) < SenderSeq(apply[r][j])
  <2> DEFINE e == apply[r][i]
             f == apply[r][j]
  <2>1. e \in Issued /\ f \in Issued
    BY <1>1, ZenonT(30) DEF TotalInv, AppliedWaves, Range
  <2>2. Earlier(e, f) /\ e.sender = f.sender
    BY <1>1 DEF AppliesInOrder, InOrder
  <2> HIDE DEF e, f
  <2>3. e \in Envelope /\ f \in Envelope
    BY <1>1, <2>1, IssuedIs, ZenonT(30) DEF ConversationInv, HistoryInv
  <2>4. /\ WaveOf(e) \in Nat /\ WaveOf(f) \in Nat /\ e.sender \in Replica
        /\ SenderSeq(e) \in Nat /\ SenderSeq(f) \in Nat
    BY <2>3, WaveIs, EnvelopeFields, ZenonT(30)
  <2>5. CASE WaveOf(e) < WaveOf(f)
    <3>1. ~(SenderSeq(f) <= SenderSeq(e))
      BY <1>1, <2>1, <2>2, <2>4, <2>5, SenderWaves, SMTT(30), Z3T(30)
         DEF ConversationInv
    <3> QED
      BY <2>4, <3>1, SMTT(30), Z3T(30) DEF e, f
  <2>6. CASE ~(WaveOf(e) < WaveOf(f))
    BY <2>2, <2>4, <2>6, RankAssumption, SMTT(10), Z3T(30) DEF Earlier, e, f
  <2> QED
    BY <2>5, <2>6, ZenonT(30)
<1>2. ConversationInv /\ TotalInv /\ AppliesInOrder => SenderOrder
  BY <1>1 DEF SenderOrder
<1> QED
  BY <1>2, InOrderAlways, PTL
=============================================================================
