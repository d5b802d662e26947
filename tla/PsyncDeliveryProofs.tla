------------------------ MODULE PsyncDeliveryProofs -------------------------
(***************************************************************************)
(* What the deliver channel of a member that has not crashed carries, and  *)
(* what its deferred envelopes wait for.  Without a crash the channel has  *)
(* carried exactly the log, so that causal delivery follows from LogClosed *)
(* and the uniqueness of ids, both of the history invariant.               *)
(*                                                                         *)
(* The conversation implements CausalBroadcast: Send is an Issue, an       *)
(* accepted envelope is a Deliver, and every other step leaves the         *)
(* abstract past and seen alone.  Only the delivery invariant and one      *)
(* count are needed: a member has logged at least what it has sent.        *)
(***************************************************************************)
EXTENDS PsyncSafetyProofs, PsyncRefinement

-----------------------------------------------------------------------------
(* The delivery invariant *)

(* The assumption: no member crashes and no log append fails. *)
NeverDown == CarefulRestart /\ MaxFaults["crash"] = 0

(* The deliver channel has carried what was logged, in that order. *)
DeliversLog ==
  \A r \in Replica : phase[r] = "live" /\ replayed[r] = <<>> /\ deliver[r] = log[r]

(* No message is logged twice. *)
LoggedOnce ==
  \A r \in Replica : \A i, j \in DOMAIN log[r] : log[r][i] = log[r][j] => i = j

(* Only messages that were sent are waited for. *)
WaitsForSent ==
  \A r \in Replica : \A p \in deferred[r] : \A id \in p.waiting : id[2] <= Len(sent[id[1]])

DeliveryInv == DeliversLog /\ LoggedOnce /\ DeferredCanWake /\ WaitsForSent

-----------------------------------------------------------------------------
(* No message happens before itself. *)
LEMMA NotBeforeItself ==
  ASSUME NEW e \in Envelope
  PROVE  ~HappensBefore(e.vc, e.vc)
BY EnvelopeFields DEF HappensBefore, Dominates

(* A fresh message goes to the log and to the channel together. *)
LEMMA PushBoth ==
  ASSUME TypeOK, HistoryInv, DeliversLog, LoggedOnce, NEW r \in Replica, NEW e \in Envelope,
         ~Has(graph[r], Id(e)), UNCHANGED <<phase, replayed>>,
         log' = Push(log, r, e), deliver' = Push(deliver, r, e)
  PROVE  DeliversLog' /\ LoggedOnce'
<1>1. /\ log \in [Replica -> Seq(Envelope)] /\ deliver \in [Replica -> Seq(Envelope)]
      /\ log[r] \in Seq(Envelope) /\ deliver[r] = log[r]
  BY DEF TypeOK, DeliversLog
<1>2. /\ log'[r] = Append(log[r], e)
      /\ \A q \in Replica \ {r} : log'[q] = log[q]
  BY <1>1 DEF Push
<1>3. /\ deliver'[r] = Append(log[r], e)
      /\ \A q \in Replica \ {r} : deliver'[q] = deliver[q]
  BY <1>1 DEF Push
<1>4. DeliversLog'
  <2>1. ASSUME NEW q \in Replica PROVE deliver'[q] = log'[q]
    <3>1. CASE q = r
      BY <1>2, <1>3, <3>1, ZenonT(30)
    <3>2. CASE q # r
      BY <1>2, <1>3, <3>2, ZenonT(30) DEF DeliversLog
    <3> QED
      BY <3>1, <3>2
  <2> QED
    BY <2>1, ZenonT(30) DEF DeliversLog
<1>5. ASSUME NEW i \in DOMAIN log[r] PROVE log[r][i] # e
  <2>1. log[r][i] \in graph[r]
    BY DEF HistoryInv, Recovered, DeliversLog, Range
  <2> QED
    BY <2>1 DEF Has
<1>6. ASSUME NEW i \in DOMAIN log'[r], NEW j \in DOMAIN log'[r], log'[r][i] = log'[r][j]
      PROVE  i = j
  <2> DEFINE n == Len(log[r])
  <2>1. /\ n \in Nat /\ DOMAIN log[r] = 1..n /\ DOMAIN log'[r] = 1..(n + 1)
        /\ \A k \in 1..n : log'[r][k] = log[r][k]
        /\ log'[r][n + 1] = e
    BY <1>1, <1>2
  <2> HIDE DEF n
  <2> QED
    BY <1>5, <1>6, <2>1 DEF LoggedOnce
<1>7. LoggedOnce'
  <2> SUFFICES ASSUME NEW q \in Replica, NEW i \in DOMAIN log'[q], NEW j \in DOMAIN log'[q],
                      log'[q][i] = log'[q][j]
               PROVE  i = j
    BY DEF LoggedOnce
  <2>1. CASE q = r
    BY <1>6, <2>1
  <2>2. CASE q # r
    BY <1>2, <2>2 DEF LoggedOnce
  <2> QED
    BY <2>1, <2>2
<1> QED
  BY <1>4, <1>7

(* Steps that leave log, channel and deferred envelopes alone. *)
LEMMA QuietDelivery ==
  ASSUME DeliveryInv,
         UNCHANGED <<phase, replayed, log, deliver, graph, deferred, outstanding, sent>>
  PROVE  DeliveryInv'
BY DEF DeliveryInv, DeliversLog, LoggedOnce, DeferredCanWake, WaitsForSent

(* Send delivers the message it logs. *)
LEMMA SendDelivery ==
  ASSUME TypeOK, GraphsOK, HistoryInv, DeliveryInv, NEW r \in Replica, Send(r)
  PROVE  DeliveryInv'
<1> DEFINE e == NewEnvelope(r)
<1>1. /\ e \in Envelope /\ ~Has(graph[r], Id(e))
      /\ e.vc[r] = CurrentView(graph[r])[r] + 1
  BY StampOK DEF NewEnvelope, GraphsOK
<1>2. /\ log' = Push(log, r, e)
      /\ graph' = [graph EXCEPT ![r] = @ \cup {e}]
      /\ deliver' = Push(deliver, r, e)
      /\ sent' = Push(sent, r, e)
      /\ UNCHANGED <<phase, replayed, deferred, outstanding>>
  BY DEF Send
<1>3. Id(e) = <<r, Len(sent[r]) + 1>>
  BY <1>1, ViewOfLive
     DEF NewEnvelope, Id, SenderSeq, HistoryInv, DeliveryInv, DeliversLog
<1> HIDE DEF e
<1>4. /\ sent \in [Replica -> Seq(Envelope)] /\ e \in Envelope
      /\ \A q \in Replica : Len(sent[q]) \in Nat
  BY <1>1 DEF TypeOK
<1>5. /\ sent'[r] = Append(sent[r], e)
      /\ \A q \in Replica \ {r} : sent'[q] = sent[q]
  BY <1>2, <1>4, PushIs
<1>6. \A q \in Replica : Len(sent'[q]) \in Nat /\ Len(sent[q]) <= Len(sent'[q])
  <2>1. Len(sent'[r]) = Len(sent[r]) + 1
    BY <1>4, <1>5
  <2> QED
    BY <1>4, <1>5, <2>1, SMTT(30), Z3T(30)
<1>7. ASSUME NEW q \in Replica, NEW p \in deferred[q], NEW id \in p.waiting
      PROVE  /\ ~Has(graph'[q], id) /\ id \in outstanding[q]
             /\ id[2] <= Len(sent'[id[1]])
  <2>1. id \in MessageId
    BY SMTT(30) DEF TypeOK, Pending
  <2>2. id[1] \in Replica /\ id[2] \in Nat /\ id[2] <= Len(sent[id[1]])
    BY <2>1 DEF MessageId, DeliveryInv, WaitsForSent
  <2>3. ~Has(graph[q], id) /\ id \in outstanding[q]
    BY DEF DeliveryInv, DeferredCanWake
  <2>4. graph'[q] \subseteq graph[q] \cup {e}
    BY <1>2 DEF TypeOK
  <2>5. ~Has(graph'[q], id)
    BY <1>3, <1>4, <2>2, <2>3, <2>4 DEF Has
  <2>6. id[2] <= Len(sent'[id[1]])
    BY <1>4, <1>6, <2>2
  <2> QED
    BY <2>3, <2>5, <2>6
<1>8. DeferredCanWake' /\ WaitsForSent'
  BY <1>2, <1>7, ZenonT(30) DEF DeferredCanWake, WaitsForSent
<1> QED
  BY <1>1, <1>2, <1>8, PushBoth DEF DeliveryInv

(* handleEnvelope logs and delivers, or defers what is asked for. *)
LEMMA HandleDelivery ==
  ASSUME TypeOK, GraphsOK, HistoryInv, DeliveryInv, CarefulRestart,
         NEW r \in Replica, NEW e \in Issued, NEW from \in Replica,
         NEW pend \in SUBSET deferred[r],
         HandleEnvelope(r, e, from, pend), UNCHANGED <<phase, replayed, sent>>
  PROVE  DeliveryInv'
<1> USE DEF DeliveryInv
<1>1. e \in Envelope /\ \A p \in pend : p \in Pending
  <2>1. deferred \in [Replica -> SUBSET Pending]
    BY ZenonT(30) DEF TypeOK
  <2> QED
    BY <2>1, IssuedIs DEF HistoryInv
<1>2. CASE Drop(r, pend)
  <2>1. UNCHANGED <<log, graph, deliver, outstanding>>
    BY <1>2 DEF Drop
  <2> QED
    BY <1>2, <2>1, SMTT(10), Z3T(30)
       DEF DeliversLog, LoggedOnce, DeferredCanWake, WaitsForSent, Drop, TypeOK
<1>3. CASE Defer(r, e, from, pend)
  <2> DEFINE missing == Missing(graph[r], e)
             pe == [env |-> e, from |-> from, waiting |-> missing]
  <2>1. /\ UNCHANGED <<log, graph, deliver>>
        /\ \A q \in Replica : outstanding[q] \subseteq outstanding'[q]
        /\ \A q \in Replica \ {r} : deferred'[q] = deferred[q]
        /\ \/ deferred'[r] = pend
           \/ deferred'[r] = pend \cup {pe} /\ missing \subseteq outstanding'[r]
    BY <1>3, ZenonT(30) DEF Defer, TypeOK
  <2>2. \A id \in missing : ~Has(graph[r], id)
    BY DEF Missing
  <2>3. ASSUME NEW id \in missing PROVE id[2] <= Len(sent[id[1]])
    <3>1. id \in MessageId /\ id[2] \in 1..e.vc[id[1]]
      BY <1>1, ParentIs DEF Missing
    <3>2. id[1] \in Replica
      BY <3>1 DEF MessageId
    <3>3. e.vc[id[1]] \in Nat /\ e.vc[id[1]] <= Len(sent[id[1]]) /\ Len(sent[id[1]]) \in Nat
      <4>1. e.vc \in [Replica -> Nat] /\ sent \in [Replica -> Seq(Envelope)]
        BY <1>1, EnvelopeFields, ZenonT(30) DEF TypeOK
      <4> QED
        BY <3>2, <4>1 DEF HistoryInv, WithinSent
    <3> QED
      BY <3>1, <3>3
  <2>4. pe.waiting = missing
    OBVIOUS
  <2> HIDE DEF missing, pe
  <2>5. DeferredCanWake' /\ WaitsForSent'
    BY <2>1, <2>2, <2>3, <2>4 DEF DeferredCanWake, WaitsForSent
  <2> QED
    BY <2>1, <2>5 DEF DeliversLog, LoggedOnce
<1>4. CASE ~Has(graph[r], Id(e)) /\ Accept(r, e, pend)
  <2>1. DeliversLog' /\ LoggedOnce'
    BY <1>1, <1>4, NoSpend, PushBoth, ZenonT(30) DEF Accept, CarefulRestart, FaultKind
  <2>2. /\ \A q \in Replica : graph'[q] = IF q = r THEN graph[r] \cup {e} ELSE graph[q]
        /\ \A q \in Replica : deferred'[q] = IF q = r THEN Satisfy(pend, Id(e)) ELSE deferred[q]
        /\ \A q \in Replica : outstanding'[q] = IF q = r THEN outstanding[r] \ {Id(e)}
                                                         ELSE outstanding[q]
    BY <1>4, ZenonT(30) DEF Accept, TypeOK
  <2>3. ASSUME NEW p \in Satisfy(pend, Id(e)), NEW id \in p.waiting
        PROVE  /\ ~Has(graph[r] \cup {e}, id) /\ id \in outstanding[r] \ {Id(e)}
               /\ id[2] <= Len(sent[id[1]])
    <3>1. PICK o \in pend : p = [o EXCEPT !.waiting = @ \ {Id(e)}]
      BY DEF Satisfy
    <3>2. ~Has(graph[r], id) /\ id \in outstanding[r] /\ id[2] <= Len(sent[id[1]]) /\ id # Id(e)
      BY <1>1, <3>1 DEF DeferredCanWake, WaitsForSent, Pending
    <3> QED
      BY <3>2 DEF Has
  <2>4. DeferredCanWake' /\ WaitsForSent'
    <3> SUFFICES ASSUME NEW q \in Replica, NEW p \in deferred'[q], NEW id \in p.waiting
                 PROVE  /\ ~Has(graph'[q], id) /\ id \in outstanding'[q]
                        /\ id[2] <= Len(sent'[id[1]])
      BY DEF DeferredCanWake, WaitsForSent
    <3>1. CASE q = r
      BY <2>2, <2>3, <3>1, ZenonT(30)
    <3>2. CASE q # r
      BY <2>2, <3>2 DEF DeferredCanWake, WaitsForSent
    <3> QED
      BY <3>1, <3>2, SMTT(10), Z3T(30)
  <2> QED
    BY <2>1, <2>4
<1> QED
  BY <1>2, <1>3, <1>4 DEF HandleEnvelope

(* Nobody crashes, so nothing is replayed. *)
LEMMA NothingToReplay ==
  ASSUME TypeOK, DeliveryInv, NeverDown, NEW r \in Replica
  PROVE  ~Replay(r) /\ ~Crash(r)
<1>1. phase[r] = "live" /\ replayed[r] = <<>> /\ ~Crash(r)
  BY NoSpend DEF DeliveryInv, DeliversLog, NeverDown, Crash, FaultKind
<1> QED
  BY <1>1, ZenonT(30) DEF Replay, ReplayLog, ReplayEntry, ReplayDone, DeliverReplayed

(* Every step keeps the invariant. *)
LEMMA StepDelivery ==
  ASSUME TypeOK, GraphsOK, HistoryInv, DeliveryInv, NeverDown, [Next]_vars
  PROVE  DeliveryInv'
<1>1. \A r \in Replica : \A p \in deferred[r] : p.env \in Issued /\ p.from \in Replica
  BY DEF HistoryInv, OnlyIssued, TypeOK, Pending
<1>2. CASE UNCHANGED vars
  BY <1>2, QuietDelivery DEF vars, durable, volatile
<1>3. CASE Lose
  BY <1>3, QuietDelivery DEF Lose, durable, volatile
<1>4. ASSUME NEW r \in Replica, ReceiveEnvelope(r) PROVE DeliveryInv'
  <2>1. PICK m \in wire : HandleEnvelope(r, m.env, m.from, deferred[r])
    BY <1>4 DEF ReceiveEnvelope
  <2>2. m.env \in Issued /\ m.from \in Replica
    BY DEF HistoryInv, OnlyIssued, TypeOK, WireEnvelope
  <2> QED
    BY <1>4, <2>1, <2>2, HandleDelivery, SMTT(30) DEF ReceiveEnvelope, NeverDown
<1>5. ASSUME NEW r \in Replica, WakeDeferred(r) PROVE DeliveryInv'
  <2>1. PICK p \in deferred[r] : HandleEnvelope(r, p.env, p.from, deferred[r] \ {p})
    BY <1>5, ZenonT(30) DEF WakeDeferred
  <2> QED
    BY <1>1, <1>5, <2>1, HandleDelivery DEF WakeDeferred, NeverDown
<1>6. ASSUME NEW r \in Replica,
             ReceiveLostRequest(r) \/ RequestMissing(r) \/ FreezeMember(r) \/ Maskout(r) \/ Maskin(r)
      PROVE  DeliveryInv'
  BY <1>6, QuietDelivery
     DEF ReceiveLostRequest, RequestMissing, FreezeMember, Maskout, Maskin, durable, volatile
<1>7. ASSUME NEW r \in Replica, Replay(r) \/ Crash(r) PROVE FALSE
  BY <1>7, NothingToReplay
<1> QED
  BY <1>2, <1>3, <1>4, <1>5, <1>6, <1>7, SendDelivery, ZenonT(30)
     DEF Next, Handler, Call

(* The invariants, together. *)
LEMMA DeliveryAlways ==
  ASSUME NeverDown
  PROVE  Spec => [](TypeOK /\ HistoryInv /\ DeliveryInv)
<1>1. Init => DeliveryInv
  BY DEF Init, DeliveryInv, DeliversLog, LoggedOnce, DeferredCanWake, WaitsForSent
<1>2. /\ TypeOK /\ GraphsOK /\ HistoryInv /\ DeliveryInv /\ [Next]_vars
      => DeliveryInv'
  BY StepDelivery
<1>3. Spec => [](TypeOK /\ GraphsOK /\ HistoryInv)
  BY HistoryAlways DEF NeverDown
<1> QED
  BY <1>1, <1>2, <1>3, PTL DEF Spec

-----------------------------------------------------------------------------
(* Whatever the network loses, duplicates through re-sends or reorders,    *)
(* and whoever is masked or frozen, the deliver channel carries a message  *)
(* once and after all messages that happen before it.                      *)
THEOREM DeliveryIsCausal ==
  ASSUME NeverDown
  PROVE  Spec => []CausalDelivery
<1>1. ASSUME TypeOK, HistoryInv, DeliveryInv, NEW r \in Replica, NEW j \in DOMAIN deliver[r],
             NEW e \in Issued
      PROVE  /\ HappensBefore(e.vc, deliver[r][j].vc) => \E i \in 1..(j - 1) : deliver[r][i] = e
             /\ \A i \in 1..(j - 1) : deliver[r][i] # deliver[r][j]
  <2>1. deliver[r] = log[r] /\ log[r] \in Seq(Envelope) /\ DOMAIN log[r] = 1..Len(log[r])
    BY <1>1 DEF DeliveryInv, DeliversLog, TypeOK
  <2>2. \A i \in 1..(j - 1) : deliver[r][i] # deliver[r][j]
    BY <1>1, <2>1 DEF DeliveryInv, LoggedOnce
  <2>3. ASSUME HappensBefore(e.vc, deliver[r][j].vc)
        PROVE  \E i \in 1..(j - 1) : deliver[r][i] = e
    <3> DEFINE d == log[r][j]
    <3>1. e \in Envelope /\ e.sender \in Replica /\ d \in Envelope
      BY <1>1, <2>1, IssuedIs, SMTT(10), Z3T(30) DEF HistoryInv
    <3>2. SenderSeq(e) \in 1..d.vc[e.sender]
      <4>1. /\ SenderSeq(e) \in Nat /\ SenderSeq(e) > 0
            /\ d.vc[e.sender] \in Nat
        BY <3>1, EnvelopeFields
      <4>2. d.vc[e.sender] >= SenderSeq(e)
        BY <2>1, <2>3, <3>1, ZenonT(30) DEF HappensBefore, Dominates, Covers, SenderSeq
      <4> QED
        BY <4>1, <4>2, SMTT(30), Z3T(30)
    <3>3. PICK i \in 1..j : Id(log[r][i]) = <<e.sender, SenderSeq(e)>>
      BY <1>1, <2>1, <3>1, <3>2, ZenonT(30) DEF HistoryInv, LogClosed
    <3>4. log[r][i] \in Issued
      BY <1>1, <2>1 DEF HistoryInv, OnlyIssued, Range
    <3>5. log[r][i] = e
      BY <1>1, <3>3, <3>4, IssuedUnique, SMTT(30) DEF HistoryInv, Id
    <3>6. i # j
      BY <2>1, <2>3, <3>1, <3>5, NotBeforeItself, ZenonT(30)
    <3>7. i \in 1..(j - 1)
      BY <2>1, <3>6
    <3> QED
      BY <2>1, <3>5, <3>7, SMTT(10), Z3T(30)
  <2> QED
    BY <2>2, <2>3
<1>2. TypeOK /\ HistoryInv /\ DeliveryInv => CausalDelivery
  BY <1>1 DEF CausalDelivery
<1> QED
  BY <1>2, DeliveryAlways, PTL

(* No deferred envelope waits for a message that has already arrived, and  *)
(* every one it waits for is outstanding: processNewlyAvailable and        *)
(* deferEnvelope never miss one.                                           *)
THEOREM WakeupsAreNotLost ==
  ASSUME NeverDown
  PROVE  Spec => []DeferredCanWake
<1>1. DeliveryInv => DeferredCanWake
  BY DEF DeliveryInv
<1> QED
  BY <1>1, DeliveryAlways, PTL

-----------------------------------------------------------------------------
(* The refinement *)

(* A member has logged at least as many messages as it has sent. *)
SendsAreLogged == \A r \in Replica : Len(sent[r]) <= Len(log[r])

(* One message more on a deliver channel is one more id on the abstract one. *)
LEMMA SeenGrows ==
  ASSUME TypeOK, NEW r \in Replica, NEW e \in Envelope, deliver' = Push(deliver, r, e)
  PROVE  CB!See(r, Id(e))
<1>1. /\ deliver \in [Replica -> Seq(Envelope)]
      /\ deliver' \in [Replica -> Seq(Envelope)]
      /\ deliver'[r] = Append(deliver[r], e)
      /\ \A q \in Replica \ {r} : deliver'[q] = deliver[q]
  <2>1. deliver \in [Replica -> Seq(Envelope)]
    BY DEF TypeOK
  <2> QED
    BY <2>1, PushIs, SMTT(30)
<1> DEFINE ids(s) == [i \in DOMAIN s |-> Id(s[i])]
<1>2. ids(Append(deliver[r], e)) = Append(ids(deliver[r]), Id(e))
  <2> DEFINE s == deliver[r]
             n == Len(s)
  <2> QED
    BY <1>1, EnvelopeFields, SMTT(10), Z3T(30)
<1>3. AbstractSeen = [q \in Replica |-> ids(deliver[q])]
  BY DEF AbstractSeen
<1>4. AbstractSeen' = [q \in Replica |-> ids(deliver'[q])]
  BY DEF AbstractSeen
<1> HIDE DEF ids
<1>5. AbstractSeen' = [AbstractSeen EXCEPT ![r] = Append(@, Id(e))]
  BY <1>1, <1>2, <1>3, <1>4, ZenonT(30)
<1> QED
  BY <1>5 DEF CB!See

(* The ids on the abstract channel are those of the graph's nodes. *)
LEMMA SeenIsGraph ==
  ASSUME TypeOK, HistoryInv, DeliveryInv, NEW r \in Replica
  PROVE  /\ Range(AbstractSeen[r]) = {Id(f) : f \in graph[r]}
         /\ Len(AbstractSeen[r]) = Len(log[r])
<1>1. phase[r] = "live" /\ deliver[r] = log[r] /\ log[r] \in Seq(Envelope)
  BY DEF DeliveryInv, DeliversLog, TypeOK
<1>2. DOMAIN log[r] = 1..Len(log[r]) /\ Len(log[r]) \in Nat
  BY <1>1
<1>3. AbstractSeen[r] = [i \in 1..Len(log[r]) |-> Id(log[r][i])]
  BY <1>1, <1>2 DEF AbstractSeen
<1>4. Len(AbstractSeen[r]) = Len(log[r])
  BY <1>2, <1>3
<1>5. Range(AbstractSeen[r]) = {Id(log[r][i]) : i \in 1..Len(log[r])}
  BY <1>3, ZenonT(30) DEF Range
<1>6. {Id(log[r][i]) : i \in 1..Len(log[r])} = {Id(f) : f \in graph[r]}
  BY <1>1, <1>2, SMTT(10), Z3T(30) DEF Range, HistoryInv, Durable, Recovered
<1> QED
  BY <1>4, <1>5, <1>6, ZenonT(30)

(* What the abstract past says of a message. *)
LEMMA PastIs ==
  ASSUME TypeOK, SentNumbered
  PROVE  /\ DOMAIN AbstractPast = {Id(f) : f \in Issued}
         /\ \A f \in Issued : AbstractPast[Id(f)] = Before(f)
<1>1. ASSUME NEW f \in Issued PROVE (CHOOSE x \in Issued : Id(x) = Id(f)) = f
  <2>1. \A x \in Issued : Id(x) = Id(f) => x = f
    BY IssuedUnique, ZenonT(30)
  <2> QED
    BY <2>1
<1> QED
  BY <1>1 DEF AbstractPast

(* An envelope that handleEnvelope accepts is a Deliver. *)
LEMMA AcceptDelivers ==
  ASSUME TypeOK, GraphsOK, HistoryInv, DeliveryInv, NEW r \in Replica, NEW e \in Issued,
         ~Has(graph[r], Id(e)), Missing(graph[r], e) = {},
         deliver' = Push(deliver, r, e), UNCHANGED sent
  PROVE  CB!Deliver(r)
<1>1. SentNumbered /\ OnlyIssued
  BY ZenonT(30) DEF HistoryInv
<1>2. e \in Envelope
  BY <1>1, IssuedIs, ZenonT(30)
<1>3. Id(e) \in DOMAIN AbstractPast /\ AbstractPast[Id(e)] = Before(e)
  BY <1>1, PastIs
<1>4. Id(e) \notin Range(AbstractSeen[r])
  BY SeenIsGraph DEF Has
<1>5. ASSUME NEW f \in Issued, HappensBefore(f.vc, e.vc) PROVE f \in graph[r]
  <2>1. f \in Envelope /\ f.sender \in Replica
    BY <1>1, IssuedIs, ZenonT(30)
  <2>2. SenderSeq(f) \in 1..e.vc[f.sender]
    <3>1. SenderSeq(f) \in Nat /\ SenderSeq(f) > 0 /\ e.vc[f.sender] \in Nat
      BY <1>2, <2>1, EnvelopeFields, SMTT(10), Z3T(30)
    <3>2. e.vc[f.sender] >= SenderSeq(f)
      BY <1>5, <2>1 DEF HappensBefore, Dominates, Covers, SenderSeq
    <3> QED
      BY <3>1, <3>2, SMTT(10), Z3T(30)
  <2>3. Has(graph[r] \cup {e}, Id(f))
    <3>1. HasPast(graph[r] \cup {e}, e)
      BY <1>2, PastOfInserted DEF GraphsOK
    <3> QED
      BY <2>1, <2>2, <3>1, ZenonT(30) DEF HasPast, Id
  <2>4. Id(f) # Id(e)
    BY <1>1, <1>5, <2>1, IssuedUnique, NotBeforeItself, ZenonT(30)
  <2>5. Has(graph[r], Id(f))
    BY <2>3, <2>4, ZenonT(30) DEF Has
  <2> QED
    BY <1>1, <2>5, GraphMember, ZenonT(30)
<1>6. Before(e) \subseteq Range(AbstractSeen[r])
  BY <1>5, SeenIsGraph DEF Before
<1>7. CB!See(r, Id(e))
  BY <1>2, SeenGrows, ZenonT(30)
<1>8. UNCHANGED AbstractPast
  BY DEF AbstractPast, Before, Issued
<1>9. CB!Range(AbstractSeen[r]) = Range(AbstractSeen[r])
  BY DEF CB!Range, Range
<1> QED
  BY <1>3, <1>4, <1>6, <1>7, <1>8, <1>9, ZenonT(30) DEF CB!Deliver, CB!Issued

(* A Send is an Issue: its clock tells exactly what the sender has delivered. *)
LEMMA SendIssues ==
  ASSUME TypeOK, GraphsOK, HistoryInv, DeliveryInv, SendsAreLogged, NEW r \in Replica, Send(r)
  PROVE  CB!Issue(r)
<1> DEFINE e == NewEnvelope(r)
           view == CurrentView(graph[r])
           n == Len(sent[r]) + 1
           newBefore(x) == {Id(f) : f \in {g \in Issued' : HappensBefore(g.vc, x.vc)}}
<1>1. /\ SentNumbered /\ OnlyIssued /\ WithinSent /\ GraphOK(graph[r])
      /\ graph[r] \subseteq Issued
  BY DEF HistoryInv, GraphsOK, OnlyIssued
<1>2. /\ view \in [Replica -> Nat] /\ view[r] = Len(sent[r]) /\ Len(sent[r]) \in Nat
      /\ \A q \in Replica : Seqs(graph[r], q) = 1..view[q]
  <2>1. view \in [Replica -> Nat] /\ view[r] = Len(sent[r])
    BY ViewOfLive, ZenonT(30) DEF HistoryInv, Vector, DeliveryInv, DeliversLog
  <2> QED
    BY <1>1, <2>1, ViewIs
<1>3. /\ e \in Envelope /\ e.sender = r
      /\ e.vc[r] = n
      /\ \A q \in Replica \ {r} : e.vc[q] = view[q]
  BY <1>1, <1>2, StampOK, SMTT(30), Z3T(30) DEF NewEnvelope
<1>4. Id(e) = <<r, n>>
  BY <1>3, SMTT(10), Z3T(30) DEF Id, SenderSeq
<1>5. sent' = Push(sent, r, e) /\ deliver' = Push(deliver, r, e)
  BY DEF Send
<1> HIDE DEF e, view
<1>6. Issued' = Issued \cup {e}
  BY <1>3, <1>5, IssuedGrows, ZenonT(30)
<1>7. ASSUME NEW f \in Issued
      PROVE  f \in Envelope /\ f.sender \in Replica /\ Id(f) # <<r, n>> /\ f.vc[r] < e.vc[r]
  <2>1. f \in Envelope /\ f.sender \in Replica /\ SenderSeq(f) \in 1..Len(sent[f.sender])
    BY <1>1, IssuedIs, SMTT(10), Z3T(30)
  <2>2. f.vc[r] \in Nat /\ f.vc[r] <= Len(sent[r])
    BY <1>1, <2>1, EnvelopeFields DEF WithinSent
  <2> QED
    BY <1>2, <1>3, <2>1, <2>2, SMTT(10), Z3T(30) DEF Id
<1>8. ASSUME NEW f \in Issued' PROVE (CHOOSE x \in Issued' : Id(x) = Id(f)) = f
  <2>1. ASSUME NEW x \in Issued', Id(x) = Id(f) PROVE x = f
    BY <1>1, <1>4, <1>6, <1>7, <2>1, IssuedUnique, SMTT(10), Z3T(30)
  <2> QED
    BY <2>1, SMTT(10), Z3T(30)
<1>9. ASSUME NEW f \in Issued PROVE newBefore(f) = Before(f)
  <2>1. ~HappensBefore(e.vc, f.vc)
    BY <1>2, <1>3, <1>7, EnvelopeFields DEF HappensBefore, Dominates, Covers
  <2> QED
    BY <1>6, <2>1, SMTT(10), Z3T(30) DEF Before
<1>10. ASSUME NEW f \in Issued PROVE HappensBefore(f.vc, e.vc) <=> f \in graph[r]
  <2>1. /\ f \in Envelope /\ f.sender \in Replica
        /\ f.vc \in [Replica -> Nat] /\ e.vc \in [Replica -> Nat]
        /\ SenderSeq(f) \in Nat /\ SenderSeq(f) > 0
    BY <1>3, <1>7, EnvelopeFields, ZenonT(30)
  <2>2. ASSUME f \in graph[r] PROVE HappensBefore(f.vc, e.vc)
    <3>1. ASSUME NEW q \in Replica PROVE e.vc[q] >= f.vc[q]
      <4>1. CASE f.vc[q] = 0
        BY <2>1, <4>1, SMTT(10), Z3T(30)
      <4>2. CASE f.vc[q] > 0
        <5>1. Has(graph[r], <<q, f.vc[q]>>)
          <6>1. HasPast(graph[r], f)
            BY <1>1, <2>2, ZenonT(30) DEF GraphOK
          <6> QED
            BY <2>1, <4>2, <6>1 DEF HasPast
        <5>2. f.vc[q] \in 1..view[q]
          BY <1>1, <1>2, <2>1, <5>1, HasIsSeq, ZenonT(30) DEF GraphOK
        <5>3. e.vc[q] >= view[q] /\ view[q] \in Nat
          BY <1>2, <1>3
        <5> QED
          BY <2>1, <5>2, <5>3, SMTT(30), Z3T(30)
      <4> QED
        BY <2>1, <4>1, <4>2, SMTT(10), Z3T(30)
    <3>2. e.vc[r] > f.vc[r]
      BY <1>7, <2>1, SMTT(10), Z3T(30)
    <3> QED
      BY <3>1, <3>2, SMTT(10), Z3T(30) DEF HappensBefore, Dominates, Covers
  <2>3. ASSUME HappensBefore(f.vc, e.vc) PROVE f \in graph[r]
    <3>1. f.vc[f.sender] <= e.vc[f.sender] /\ f.vc[r] < e.vc[r]
      BY <1>7, <2>1, <2>3, ZenonT(30) DEF HappensBefore, Dominates, Covers
    <3>2. SenderSeq(f) \in 1..view[f.sender]
      <4>1. CASE f.sender = r
        BY <1>2, <1>3, <2>1, <3>1, <4>1, SMTT(30), Z3T(30) DEF SenderSeq
      <4>2. CASE f.sender # r
        BY <1>2, <1>3, <2>1, <3>1, <4>2, SMTT(30), Z3T(30) DEF SenderSeq
      <4> QED
        BY <4>1, <4>2, ZenonT(30)
    <3>3. Has(graph[r], Id(f))
      <4>1. SenderSeq(f) \in Seqs(graph[r], f.sender)
        BY <1>2, <2>1, <3>2, ZenonT(30)
      <4> QED
        BY <1>1, <2>1, <4>1, HasIsSeq, ZenonT(30) DEF Id, GraphOK
    <3> QED
      BY <1>1, <3>3, GraphMember, ZenonT(30)
  <2> QED
    BY <2>2, <2>3, ZenonT(30)
<1>11. newBefore(e) = {Id(f) : f \in graph[r]}
  <2>1. {g \in Issued' : HappensBefore(g.vc, e.vc)} = graph[r]
    BY <1>1, <1>3, <1>6, <1>10, NotBeforeItself, ZenonT(30)
  <2> QED
    BY <2>1
<1>12. Range(AbstractSeen[r]) = {Id(f) : f \in graph[r]} /\ Len(AbstractSeen[r]) = Len(log[r])
  BY SeenIsGraph, ZenonT(30)
<1>13. AbstractPast' = [id \in DOMAIN AbstractPast \cup {<<r, n>>} |->
                          IF id = <<r, n>> THEN Range(AbstractSeen[r]) ELSE AbstractPast[id]]
  <2>1. /\ DOMAIN AbstractPast = {Id(f) : f \in Issued}
        /\ \A f \in Issued : AbstractPast[Id(f)] = Before(f)
    BY <1>1, PastIs
  <2>2. {Id(f) : f \in Issued'} = DOMAIN AbstractPast \cup {<<r, n>>}
    BY <1>4, <1>6, <2>1, SMTT(10), Z3T(30)
  <2> DEFINE chosen(id) == CHOOSE x \in Issued' : Id(x) = id
  <2>3. AbstractPast' = [id \in {Id(f) : f \in Issued'} |-> newBefore(chosen(id))]
    BY DEF AbstractPast, Before
  <2> HIDE DEF newBefore
  <2>4. \A f \in Issued : newBefore(chosen(Id(f))) = AbstractPast[Id(f)]
    BY <1>6, <1>8, <1>9, <2>1, ZenonT(30)
  <2>5. chosen(Id(e)) = e
    BY <1>6, <1>8
  <2> HIDE DEF chosen, n
  <2>6. newBefore(chosen(<<r, n>>)) = Range(AbstractSeen[r])
    BY <1>4, <1>11, <1>12, <2>5, SMTT(10), Z3T(30)
  <2> QED
    BY <1>7, <2>1, <2>2, <2>3, <2>4, <2>6, ZenonT(30)
<1>14. CB!See(r, <<r, n>>)
  BY <1>3, <1>4, <1>5, SeenGrows, SMTT(10), Z3T(30)
<1>15. n \in 1..(Len(AbstractSeen[r]) + 1)
  BY <1>2, <1>12, SMTT(10), Z3T(30) DEF SendsAreLogged, TypeOK
<1>16. <<r, n>> \notin DOMAIN AbstractPast
  BY <1>1, <1>7, PastIs, SMTT(10), Z3T(30)
<1>17. \A k \in 1..(n - 1) : <<r, k>> \in Range(AbstractSeen[r])
  <2>1. \A k \in 1..(n - 1) : k \in Nat /\ k \in Seqs(graph[r], r)
    BY <1>2, SMTT(10), Z3T(30)
  <2>2. \A k \in 1..(n - 1) : Has(graph[r], <<r, k>>)
    BY <1>1, <2>1, HasIsSeq DEF GraphOK
  <2> QED
    BY <1>12, <2>2 DEF Has
<1>18. CB!Range(AbstractSeen[r]) = Range(AbstractSeen[r])
  BY DEF CB!Range, Range
<1> HIDE DEF n
<1> QED
  BY <1>13, <1>14, <1>15, <1>16, <1>17, <1>18, ZenonT(30) DEF CB!Issue, CB!Issued

(* Every step is a step of the abstract specification or leaves it alone. *)
LEMMA StepRefines ==
  ASSUME TypeOK, GraphsOK, HistoryInv, DeliveryInv, SendsAreLogged, NeverDown, [Next]_vars
  PROVE  [CB!Next]_(CB!vars) /\ SendsAreLogged'
<1>1. /\ \A r \in Replica : log[r] \in Seq(Envelope) /\ sent[r] \in Seq(Envelope)
      /\ \A r \in Replica : Len(log[r]) \in Nat /\ Len(sent[r]) \in Nat
  BY SMTT(10), Z3T(30) DEF TypeOK
<1>2. ASSUME UNCHANGED <<sent, log, deliver>>
      PROVE  [CB!Next]_(CB!vars) /\ SendsAreLogged'
  BY <1>2 DEF CB!vars, SendsAreLogged, AbstractPast, AbstractSeen, Before, Issued
<1>3. ASSUME NEW r \in Replica, NEW e \in Issued, NEW from, NEW pend,
             HandleEnvelope(r, e, from, pend), UNCHANGED sent
      PROVE  [CB!Next]_(CB!vars) /\ SendsAreLogged'
  <2>1. CASE Drop(r, pend) \/ Defer(r, e, from, pend)
    BY <1>2, <1>3, <2>1 DEF Drop, Defer
  <2>2. CASE ~Has(graph[r], Id(e)) /\ Missing(graph[r], e) = {} /\ Accept(r, e, pend)
    <3>1. log' = Push(log, r, e) /\ deliver' = Push(deliver, r, e)
      BY <2>2, NoSpend DEF Accept, NeverDown, CarefulRestart, FaultKind
    <3>2. CB!Deliver(r)
      BY <1>3, <2>2, <3>1, AcceptDelivers, SMTT(30), Z3T(30)
    <3>3. \A q \in Replica : Len(log[q]) <= Len(log'[q]) /\ Len(log'[q]) \in Nat
      <4>1. log \in [Replica -> Seq(Envelope)]
        BY <1>1, ZenonT(30) DEF TypeOK
      <4> QED
        BY <3>1, <4>1 DEF Push
    <3>4. SendsAreLogged'
      BY <1>1, <1>3, <3>3, SMTT(10), Z3T(30) DEF SendsAreLogged
    <3> QED
      BY <3>2, <3>4, SMTT(10), Z3T(30) DEF CB!Next
  <2> QED
    BY <1>3, <2>1, <2>2, ZenonT(30) DEF HandleEnvelope
<1>4. ASSUME NEW r \in Replica, Send(r) PROVE [CB!Next]_(CB!vars) /\ SendsAreLogged'
  <2>1. CB!Issue(r)
    BY <1>4, SendIssues, ZenonT(30)
  <2>2. \A q \in Replica : /\ Len(log'[q]) = IF q = r THEN Len(log[q]) + 1 ELSE Len(log[q])
                           /\ Len(sent'[q]) = IF q = r THEN Len(sent[q]) + 1 ELSE Len(sent[q])
    <3>1. log \in [Replica -> Seq(Envelope)] /\ sent \in [Replica -> Seq(Envelope)]
      BY <1>1, ZenonT(30) DEF TypeOK
    <3> QED
      BY <1>4, <3>1, SMTT(10), Z3T(30) DEF Push, Send
  <2>3. SendsAreLogged'
    BY <1>1, <2>2 DEF SendsAreLogged
  <2> QED
    BY <2>1, <2>3 DEF CB!Next
<1>5. ASSUME NEW r \in Replica, ReceiveEnvelope(r)
      PROVE  [CB!Next]_(CB!vars) /\ SendsAreLogged'
  <2>1. PICK m \in wire : HandleEnvelope(r, m.env, m.from, deferred[r])
    BY <1>5, SMTT(30) DEF ReceiveEnvelope
  <2>2. m.env \in Issued /\ UNCHANGED sent
    BY <1>5, ZenonT(30) DEF HistoryInv, OnlyIssued, ReceiveEnvelope
  <2> QED
    BY <1>3, <2>1, <2>2, SMTT(10), Z3T(30)
<1>6. ASSUME NEW r \in Replica, WakeDeferred(r)
      PROVE  [CB!Next]_(CB!vars) /\ SendsAreLogged'
  <2>1. PICK p \in deferred[r] : HandleEnvelope(r, p.env, p.from, deferred[r] \ {p})
    BY <1>6, ZenonT(30) DEF WakeDeferred
  <2> QED
    BY <1>3, <1>6, <2>1 DEF HistoryInv, OnlyIssued, WakeDeferred
<1>7. CASE \/ UNCHANGED vars
           \/ Lose
           \/ \E r \in Replica : \/ ReceiveLostRequest(r) \/ RequestMissing(r)
                                 \/ FreezeMember(r) \/ Maskout(r) \/ Maskin(r)
  <2>1. UNCHANGED <<sent, log, deliver>>
    BY <1>7, ZenonT(30)
       DEF vars, Lose, ReceiveLostRequest, RequestMissing, FreezeMember, Maskout, Maskin,
                durable, volatile
  <2> QED
    BY <1>2, <2>1, SMTT(30)
<1>8. ASSUME NEW r \in Replica, Replay(r) \/ Crash(r) PROVE FALSE
  BY <1>8, NothingToReplay
<1> QED
  BY <1>4, <1>5, <1>6, <1>7, <1>8, SMTT(30), Z3T(30) DEF Next, Handler, Call

(* Without crashes and failing log appends, and whatever the network does  *)
(* and whoever is masked, frozen or asked, the conversation implements the *)
(* causal broadcast that the layers above rely on: a Send issues a message *)
(* whose causal past, read off the clock handleSend stamps, is what its    *)
(* sender has delivered, and handleEnvelope delivers it once, after that   *)
(* past.                                                                   *)
THEOREM ConversationIsCausalBroadcast ==
  ASSUME NeverDown
  PROVE  Spec => ImplementsCausalBroadcast
<1>1. Init => CB!Init /\ SendsAreLogged
  <2> SUFFICES ASSUME Init PROVE CB!Init /\ SendsAreLogged
    OBVIOUS
  <2> QED
    BY DEF CB!Init, SendsAreLogged, AbstractSeen, AbstractPast, Issued, Range, Init
<1>2. /\ TypeOK /\ GraphsOK /\ HistoryInv /\ DeliveryInv /\ SendsAreLogged /\ [Next]_vars
      => [CB!Next]_(CB!vars) /\ SendsAreLogged'
  BY StepRefines
<1>3. Spec => [](TypeOK /\ HistoryInv /\ DeliveryInv)
  BY DeliveryAlways
<1>4. Spec => [](TypeOK /\ GraphsOK /\ HistoryInv)
  BY HistoryAlways DEF NeverDown
<1> QED
  BY <1>1, <1>2, <1>3, <1>4, PTL DEF Spec, ImplementsCausalBroadcast, CB!Spec
=============================================================================
