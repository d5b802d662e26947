------------------------- MODULE PsyncSafetyProofs --------------------------
(***************************************************************************)
(* Ids, clocks, replay and stability through any number of crashes, as     *)
(* long as log appends succeed and nobody sends before the replay.  The    *)
(* history invariant says what was sent, logged and stored, and how the    *)
(* three agree.  The argument is the log: it survives, it is closed under  *)
(* the past entry by entry, and so the replay puts every message back and  *)
(* the next Send finds its own last number.                                *)
(***************************************************************************)
EXTENDS PsyncProofs

-----------------------------------------------------------------------------
(* The inductive invariant behind the theorems.                            *)

(* The n-th message a member has sent is number n. *)
SentNumbered ==
  \A r \in Replica : \A i \in DOMAIN sent[r] :
    sent[r][i].sender = r /\ SenderSeq(sent[r][i]) = i

(* A clock counts only messages that were sent. *)
WithinSent == \A e \in Issued : \A q \in Replica : e.vc[q] <= Len(sent[q])

(* Nothing is stored or in flight that was not sent. *)
OnlyIssued ==
  /\ \A r \in Replica : graph[r] \subseteq Issued /\ Range(log[r]) \subseteq Issued
  /\ \A r \in Replica : \A p \in deferred[r] : p.env \in Issued
  /\ \A m \in wire : m.env \in Issued

(* A log holds the past of each entry up to that entry. *)
LogClosed ==
  \A r \in Replica : \A i \in DOMAIN log[r] : \A q \in Replica :
    \A k \in 1..log[r][i].vc[q] : \E j \in 1..i : Id(log[r][j]) = <<q, k>>

(* What a member has accepted or sent is in its log. *)
Durable ==
  \A r \in Replica : graph[r] \subseteq Range(log[r]) /\ Range(sent[r]) \subseteq Range(log[r])

(* What the replay has read of the log is in the graph. *)
Recovered ==
  \A r \in Replica :
    /\ phase[r] = "live" => Range(log[r]) \subseteq graph[r]
    /\ phase[r] = "booting" => cursor[r] = 0
    /\ phase[r] = "replaying" => /\ cursor[r] <= Len(log[r])
                                 /\ \A i \in 1..cursor[r] : log[r][i] \in graph[r]

HistoryInv ==
  /\ SentNumbered
  /\ ClockCondition
  /\ WithinSent
  /\ OnlyIssued
  /\ LogClosed
  /\ Durable
  /\ Recovered

-----------------------------------------------------------------------------
(* Messages are known by their ids. *)

(* A message that was sent is an entry of its sender's history. *)
LEMMA IssuedIs ==
  ASSUME TypeOK, SentNumbered, NEW e \in Issued
  PROVE  /\ e \in Envelope
         /\ e.sender \in Replica
         /\ SenderSeq(e) \in 1..Len(sent[e.sender])
         /\ e = sent[e.sender][SenderSeq(e)]
         /\ e \in Range(sent[e.sender])
<1>1. PICK q \in Replica : e \in Range(sent[q])
  BY DEF Issued
<1>2. sent[q] \in Seq(Envelope)
  BY DEF TypeOK
<1>3. PICK i \in 1..Len(sent[q]) : e = sent[q][i]
  BY <1>1, <1>2 DEF Range
<1> QED
  BY <1>1, <1>2, <1>3 DEF SentNumbered

(* Two messages that were sent and have one id are one message. *)
LEMMA IssuedUnique ==
  ASSUME TypeOK, SentNumbered, NEW e \in Issued, NEW f \in Issued, Id(e) = Id(f)
  PROVE  e = f
BY IssuedIs DEF Id

(* A node is a message that was sent. *)
LEMMA GraphMember ==
  ASSUME TypeOK, SentNumbered, OnlyIssued, NEW r \in Replica, NEW e \in Issued,
         Has(graph[r], Id(e))
  PROVE  e \in graph[r]
BY IssuedUnique DEF Has, OnlyIssued

(* What an appended entry does to a log that is closed. *)
LEMMA LogAppend ==
  ASSUME TypeOK, LogClosed, Durable, NEW r \in Replica, NEW e \in Envelope,
         HasPast(graph[r] \cup {e}, e), log' = Push(log, r, e)
  PROVE  /\ LogClosed'
         /\ \A q \in Replica : Range(log'[q]) = IF q = r THEN Range(log[r]) \cup {e}
                                                         ELSE Range(log[q])
<1>1. /\ log'[r] = Append(log[r], e)
      /\ \A q \in Replica \ {r} : log'[q] = log[q]
      /\ log[r] \in Seq(Envelope)
  <2>1. log \in [Replica -> Seq(Envelope)]
    BY DEF TypeOK
  <2> QED
    BY <2>1, PushIs
<1> DEFINE n == Len(log[r])
<1>2. /\ n \in Nat
      /\ DOMAIN log'[r] = 1..(n + 1)
      /\ \A i \in 1..n : log'[r][i] = log[r][i]
      /\ log'[r][n + 1] = e
      /\ DOMAIN log[r] = 1..n
  BY <1>1
<1>3. Range(log'[r]) = Range(log[r]) \cup {e}
  BY <1>1, RangeAppend
<1>4. ASSUME NEW q \in Replica, NEW i \in DOMAIN log'[q], NEW p \in Replica,
             NEW k \in 1..log'[q][i].vc[p]
      PROVE  \E j \in 1..i : Id(log'[q][j]) = <<p, k>>
  <2>1. CASE q # r
    <3>1. log'[q] = log[q]
      BY <1>1, <2>1
    <3>2. PICK j \in 1..i : Id(log[q][j]) = <<p, k>>
      BY <3>1 DEF LogClosed
    <3> QED
      BY <3>1, <3>2, ZenonT(30)
  <2>2. CASE q = r /\ i \in 1..n
    <3>1. i \in DOMAIN log[r] /\ k \in 1..log[r][i].vc[p]
      BY <1>2, <2>2, SMTT(10), Z3T(30)
    <3>2. PICK j \in 1..i : Id(log[r][j]) = <<p, k>>
      BY <3>1 DEF LogClosed
    <3>3. j \in 1..n
      BY <1>2, <2>2, SMTT(10), Z3T(30)
    <3>4. log'[q][j] = log[r][j]
      BY <1>2, <2>2, <3>3, ZenonT(30)
    <3> QED
      BY <3>2, <3>4, ZenonT(30)
  <2>3. CASE q = r /\ i = n + 1
    <3>1. PICK f \in graph[r] \cup {e} : Id(f) = <<p, k>>
      BY <1>2, <2>3 DEF HasPast, Has
    <3>2. CASE f = e
      <4>1. Id(log'[q][i]) = <<p, k>> /\ i \in 1..i
        BY <1>2, <2>3, <3>1, <3>2
      <4> QED
        BY <4>1
    <3>3. CASE f \in graph[r]
      <4>1. PICK j \in 1..n : log[r][j] = f
        BY <1>2, <3>3 DEF Range, Durable
      <4>2. j \in 1..i /\ log'[q][j] = f
        BY <1>2, <2>3, <4>1
      <4> QED
        BY <3>1, <4>2
    <3> QED
      BY <3>1, <3>2, <3>3
  <2> QED
    BY <1>2, <2>1, <2>2, <2>3
<1>5. LogClosed'
  BY <1>4 DEF LogClosed
<1> QED
  BY <1>1, <1>3, <1>5, ZenonT(30)

-----------------------------------------------------------------------------
(* The clock of a member that has its own messages in its graph. *)
LEMMA ViewOfLive ==
  ASSUME TypeOK, GraphsOK, SentNumbered, OnlyIssued, Durable, Recovered,
         NEW r \in Replica, phase[r] = "live"
  PROVE  /\ CurrentView(graph[r]) \in Vector
         /\ CurrentView(graph[r])[r] = Len(sent[r])
         /\ \A q \in Replica : CurrentView(graph[r])[q] <= Len(sent[q])
<1> DEFINE g == graph[r]
           view == CurrentView(g)
<1>1. view \in [Replica -> Nat] /\ \A q \in Replica : Seqs(g, q) = 1..view[q]
  BY ViewIs DEF Vector, GraphsOK, GraphOK
<1> HIDE DEF view
<1>2. ASSUME NEW q \in Replica, NEW k \in Seqs(g, q) PROVE k \in 1..Len(sent[q])
  <2>1. PICK e \in g : e.sender = q /\ SenderSeq(e) = k
    BY DEF Seqs, FromSender
  <2> QED
    BY <2>1, IssuedIs DEF OnlyIssued
<1>3. ASSUME NEW k \in 1..Len(sent[r]) PROVE k \in Seqs(g, r)
  <2>1. sent[r][k] \in Range(sent[r]) /\ k \in DOMAIN sent[r]
    BY DEF Range, TypeOK
  <2> QED
    BY <2>1 DEF Seqs, FromSender, Durable, Recovered, SentNumbered
<1>4. Len(sent[r]) \in Nat /\ \A q \in Replica : Len(sent[q]) \in Nat
  BY DEF TypeOK
<1>5. view[r] = Len(sent[r])
  <2>1. view[r] \in Nat
    BY <1>1
  <2> QED
    BY <1>1, <1>2, <1>3, <1>4, <2>1
<1>6. ASSUME NEW q \in Replica PROVE view[q] <= Len(sent[q])
  BY <1>1, <1>2, <1>4
<1> QED
  BY <1>1, <1>5, <1>6 DEF view, Vector

(* Send adds one message to those that were sent. *)
LEMMA IssuedGrows ==
  ASSUME TypeOK, NEW r \in Replica, NEW e \in Envelope, sent' = Push(sent, r, e)
  PROVE  /\ sent'[r] = Append(sent[r], e)
         /\ \A q \in Replica \ {r} : sent'[q] = sent[q]
         /\ \A q \in Replica : Range(sent'[q]) = IF q = r THEN Range(sent[r]) \cup {e}
                                                          ELSE Range(sent[q])
         /\ Issued' = Issued \cup {e}
<1>1. sent \in [Replica -> Seq(Envelope)] /\ sent[r] \in Seq(Envelope)
  BY DEF TypeOK
<1>2. /\ sent'[r] = Append(sent[r], e)
      /\ \A q \in Replica \ {r} : sent'[q] = sent[q]
  BY <1>1, PushIs
<1>3. \A q \in Replica : Range(sent'[q]) = IF q = r THEN Range(sent[r]) \cup {e}
                                                    ELSE Range(sent[q])
  <2>1. Range(Append(sent[r], e)) = Range(sent[r]) \cup {e}
    BY <1>1, RangeAppend
  <2> QED
    BY <1>2, <2>1, ZenonT(30)
<1>4. Issued' = Issued \cup {e}
  BY <1>3 DEF Issued
<1> QED
  BY <1>2, <1>3, <1>4, ZenonT(30)

(* Send extends the history by a fresh number. *)
LEMMA SendHistory ==
  ASSUME TypeOK, GraphsOK, HistoryInv, NEW r \in Replica, Send(r), phase[r] = "live"
  PROVE  HistoryInv'
<1> USE DEF HistoryInv
<1> DEFINE g == graph[r]
           view == CurrentView(g)
           e == NewEnvelope(r)
<1>1. GraphOK(g) /\ g \in SUBSET Envelope
  BY DEF GraphsOK, GraphOK
<1>2. /\ view \in [Replica -> Nat]
      /\ view[r] = Len(sent[r])
      /\ \A q \in Replica : view[q] <= Len(sent[q])
  BY ViewOfLive DEF Vector
<1>3. \A q \in Replica : Seqs(g, q) = 1..view[q]
  BY <1>1, ViewIs
<1>4. /\ e \in Envelope
      /\ e.vc[r] = view[r] + 1
      /\ \A q \in Replica \ {r} : e.vc[q] = view[q]
      /\ Missing(g, e) = {}
  BY <1>1, StampOK DEF NewEnvelope
<1>5. e.sender = r
  BY DEF NewEnvelope
<1>t. /\ e \in Envelope
      /\ log \in [Replica -> Seq(Envelope)]
      /\ sent \in [Replica -> Seq(Envelope)]
      /\ \A q \in Replica : Len(sent[q]) \in Nat
  BY <1>4 DEF TypeOK
<1>6. /\ log' = Push(log, r, e)
      /\ graph' = [graph EXCEPT ![r] = @ \cup {e}]
      /\ wire' = wire \cup Broadcast(r, e)
      /\ sent' = Push(sent, r, e)
      /\ UNCHANGED <<phase, cursor, deferred>>
  BY DEF Send
<1> HIDE DEF view, e
<1>7. /\ sent'[r] = Append(sent[r], e)
      /\ \A q \in Replica \ {r} : sent'[q] = sent[q]
      /\ sent[r] \in Seq(Envelope)
      /\ \A q \in Replica : Range(sent'[q]) = IF q = r THEN Range(sent[r]) \cup {e}
                                                       ELSE Range(sent[q])
      /\ Issued' = Issued \cup {e}
  <2>1. sent[r] \in Seq(Envelope)
    BY <1>t
  <2> QED
    BY <1>t, <1>6, <2>1, IssuedGrows, ZenonT(30)
<1>8. \A q \in Replica : graph'[q] = IF q = r THEN g \cup {e} ELSE graph[q]
  BY <1>6 DEF TypeOK
<1>9. /\ LogClosed'
      /\ \A q \in Replica : Range(log'[q]) = IF q = r THEN Range(log[r]) \cup {e}
                                                      ELSE Range(log[q])
  BY <1>1, <1>4, <1>6, PastOfInserted, LogAppend, ZenonT(30)
<1>10. SentNumbered'
  <2>1. ASSUME NEW i \in DOMAIN sent'[r]
        PROVE  sent'[r][i].sender = r /\ SenderSeq(sent'[r][i]) = i
    <3>1. CASE i \in 1..Len(sent[r])
      BY <1>7, <3>1, SMTT(10), Z3T(30) DEF SentNumbered
    <3>2. CASE i = Len(sent[r]) + 1
      BY <1>2, <1>4, <1>5, <1>7, <3>2 DEF SenderSeq
    <3> QED
      BY <1>7, <3>1, <3>2
  <2> QED
    BY <1>7, <2>1, ZenonT(30) DEF SentNumbered
<1>11. WithinSent'
  <2>1. Len(sent'[r]) = Len(sent[r]) + 1 /\ Len(sent[r]) \in Nat
    BY <1>7
  <2>2. \A q \in Replica : Len(sent[q]) \in Nat /\ Len(sent[q]) <= Len(sent'[q])
    <3>1. \A q \in Replica \ {r} : Len(sent'[q]) = Len(sent[q])
      BY <1>7
    <3> QED
      BY <1>t, <2>1, <3>1
  <2>3. \A q \in Replica : Len(sent'[q]) \in Nat
    BY <1>7, <1>t, <2>1
  <2>4. ASSUME NEW f \in Issued, NEW q \in Replica PROVE f.vc[q] <= Len(sent'[q])
    <3>1. f.vc[q] \in Nat /\ f.vc[q] <= Len(sent[q])
      BY IssuedIs, EnvelopeFields DEF WithinSent
    <3> QED
      BY <2>2, <2>3, <3>1
  <2>5. ASSUME NEW q \in Replica PROVE e.vc[q] <= Len(sent'[q])
    BY <1>2, <1>4, <2>1, <2>2, <2>3, SMTT(10), Z3T(30)
  <2> QED
    BY <1>7, <2>4, <2>5 DEF WithinSent
<1>12. ClockCondition'
  <2>1. ASSUME NEW f \in Issued, SenderSeq(f) <= e.vc[f.sender]
        PROVE  Covers(e.vc, f.vc)
    <3>1. f \in Envelope /\ f.sender \in Replica /\ SenderSeq(f) \in 1..Len(sent[f.sender])
      BY IssuedIs
    <3>2. SenderSeq(f) \in 1..view[f.sender]
      <4>1. view[f.sender] \in Nat /\ Len(sent[f.sender]) \in Nat
        BY <1>2, <3>1 DEF TypeOK
      <4> QED
        BY <1>2, <1>4, <2>1, <3>1, <4>1, SMTT(10), Z3T(30)
    <3>3. Has(g, Id(f))
      <4>1. SenderSeq(f) \in Seqs(g, f.sender) /\ SenderSeq(f) \in Nat
        <5>1. Seqs(g, f.sender) = 1..view[f.sender]
          BY <1>3, <3>1
        <5> QED
          BY <3>2, <5>1
      <4> QED
        BY <1>1, <3>1, <4>1, HasIsSeq DEF Id
    <3>4. ASSUME NEW q \in Replica PROVE e.vc[q] >= f.vc[q]
      <4>1. f.vc[q] \in Nat /\ view[q] \in Nat /\ e.vc[q] \in Nat /\ e.vc[q] >= view[q]
        <5>1. f.vc \in [Replica -> Nat] /\ e.vc \in [Replica -> Nat]
          BY <1>t, <3>1, EnvelopeFields, ZenonT(30)
        <5>2. view[q] \in Nat
          BY <1>2
        <5> QED
          BY <1>4, <5>1, <5>2
      <4>2. CASE f.vc[q] = 0
        BY <4>1, <4>2
      <4>3. CASE f.vc[q] > 0
        <5>1. Has(g, <<q, f.vc[q]>>)
          BY <1>1, <3>3, <4>1, <4>3, GraphMember, SMTT(10), Z3T(30) DEF GraphOK, HasPast
        <5>2. f.vc[q] \in 1..view[q]
          BY <1>1, <1>3, <4>1, <5>1, HasIsSeq, ZenonT(30)
        <5> QED
          BY <4>1, <5>2
      <4> QED
        BY <4>1, <4>2, <4>3
    <3> QED
      BY <3>4 DEF Covers
  <2>2. ASSUME NEW f \in Issued PROVE ~(SenderSeq(e) <= f.vc[r])
    <3>1. f.vc[r] \in Nat /\ f.vc[r] <= Len(sent[r]) /\ Len(sent[r]) \in Nat
      BY <1>t, IssuedIs, EnvelopeFields, SMTT(10), Z3T(30) DEF WithinSent
    <3> QED
      BY <1>2, <1>4, <1>5, <3>1 DEF SenderSeq
  <2> QED
    BY <1>4, <1>5, <1>7, <2>1, <2>2, EnvelopeFields DEF ClockCondition, Covers
<1>13. OnlyIssued'
  <2>1. \A m \in Broadcast(r, e) : m.env = e
    BY DEF Broadcast
  <2> QED
    BY <1>6, <1>7, <1>8, <1>9, <2>1 DEF OnlyIssued
<1>14. Durable'
  BY <1>7, <1>8, <1>9, ZenonT(30) DEF Durable
<1>15. Recovered'
  <2>1. \A q \in Replica \ {r} : log'[q] = log[q]
    <3>1. \A q \in Replica \ {r} : Push(log, r, e)[q] = log[q]
      BY <1>t, PushIs, ZenonT(30)
    <3> QED
      BY <1>6, <3>1
  <2> QED
    BY <1>6, <1>8, <1>9, <2>1, SMTT(10), Z3T(30) DEF Recovered
<1> QED
  BY <1>9, <1>10, <1>11, <1>12, <1>13, <1>14, <1>15

-----------------------------------------------------------------------------
(* The assumption under which a restart is harmless: no log append fails,  *)
(* and nobody calls Send before the replay has finished.                   *)
CarefulRestart == MaxFaults["earlySend"] = 0 /\ MaxFaults["logFail"] = 0

(* A fault with a budget of zero does not happen. *)
LEMMA NoSpend ==
  ASSUME TypeOK, NEW k \in FaultKind, MaxFaults[k] = 0
  PROVE  ~Spend(k)
BY DEF TypeOK, Spend

(* What was sent decides numbers and clocks. *)
LEMMA SameSent ==
  ASSUME SentNumbered, ClockCondition, WithinSent, sent' = sent
  PROVE  Issued' = Issued /\ SentNumbered' /\ ClockCondition' /\ WithinSent'
BY DEF SentNumbered, ClockCondition, WithinSent, Issued

(* A log that is left alone stays closed. *)
LEMMA SameLog ==
  ASSUME LogClosed, log' = log
  PROVE  LogClosed'
BY DEF LogClosed

(* Steps that move envelopes but touch no log, graph or history. *)
LEMMA QuietHistory ==
  ASSUME HistoryInv, UNCHANGED <<log, graph, sent, phase, cursor>>,
         \A r \in Replica : \A p \in deferred'[r] : p.env \in Issued,
         \A m \in wire' : m.env \in Issued
  PROVE  HistoryInv'
<1>1. Recovered'
  BY DEF HistoryInv, Recovered
<1> QED
  BY <1>1, SameSent, SameLog DEF HistoryInv, OnlyIssued, Durable

(* Steps that at most take messages off the wire. *)
LEMMA StillHistory ==
  ASSUME HistoryInv, UNCHANGED <<log, graph, sent, phase, cursor, deferred>>, wire' \subseteq wire
  PROVE  HistoryInv'
BY QuietHistory, ZenonT(30) DEF HistoryInv, OnlyIssued

(* The invariant at the start. *)
LEMMA InitHistory == Init => HistoryInv
<1> SUFFICES ASSUME Init PROVE HistoryInv
  OBVIOUS
<1>1. \A r \in Replica : Range(sent[r]) = {} /\ Range(log[r]) = {}
  BY DEF Init, Range
<1>2. Issued = {}
  BY <1>1 DEF Issued
<1>3. LogClosed
  BY DEF Init, LogClosed
<1>4. Recovered
  BY <1>1, ZenonT(30) DEF Init, Recovered
<1> QED
  BY <1>1, <1>2, <1>3, <1>4
     DEF HistoryInv, Init, SentNumbered, ClockCondition, WithinSent, OnlyIssued, Durable

(* handleEnvelope keeps the invariant. *)
LEMMA HandleHistory ==
  ASSUME TypeOK, GraphsOK, HistoryInv, CarefulRestart,
         NEW r \in Replica, NEW e \in Issued, NEW from, NEW pend \in SUBSET deferred[r],
         HandleEnvelope(r, e, from, pend),
         phase[r] # "replaying", UNCHANGED <<phase, cursor, sent>>, wire' \subseteq wire
  PROVE  HistoryInv'
<1>1. /\ e \in Envelope
      /\ \A q \in Replica : \A p \in deferred[q] : p.env \in Issued
      /\ \A m \in wire' : m.env \in Issued
  BY IssuedIs DEF HistoryInv, OnlyIssued
<1>2. CASE Drop(r, pend)
  <2>1. \A q \in Replica : deferred'[q] = IF q = r THEN pend ELSE deferred[q]
    BY <1>2 DEF Drop, TypeOK
  <2> QED
    BY <1>1, <1>2, <2>1, QuietHistory DEF Drop
<1>3. CASE Defer(r, e, from, pend)
  <2>1. \A q \in Replica : \A p \in deferred'[q] :
          p \in deferred[q] \/ p = [env |-> e, from |-> from, waiting |-> Missing(graph[r], e)]
    BY <1>3, ZenonT(30) DEF Defer, TypeOK
  <2>2. \A q \in Replica : \A p \in deferred'[q] : p.env \in Issued
    BY <1>1, <2>1
  <2> QED
    BY <1>1, <1>3, <2>2, QuietHistory, ZenonT(30) DEF Defer
<1>4. CASE ~Has(graph[r], Id(e)) /\ Missing(graph[r], e) = {} /\ Accept(r, e, pend)
  <2> USE DEF HistoryInv
  <2>1. log' = Push(log, r, e)
    BY <1>4, NoSpend DEF Accept, CarefulRestart, FaultKind
  <2>2. \A q \in Replica : graph'[q] = IF q = r THEN graph[r] \cup {e} ELSE graph[q]
    BY <1>4, SMTT(10), Z3T(30) DEF Accept, TypeOK
  <2>3. GraphOK(graph[r])
    BY DEF GraphsOK
  <2>4. /\ LogClosed'
        /\ \A q \in Replica : Range(log'[q]) = IF q = r THEN Range(log[r]) \cup {e}
                                                        ELSE Range(log[q])
    BY <1>1, <1>4, <2>1, <2>3, PastOfInserted, LogAppend, ZenonT(30)
  <2>5. Issued' = Issued /\ SentNumbered' /\ ClockCondition' /\ WithinSent'
    BY SameSent, ZenonT(30)
  <2>6. OnlyIssued'
    <3>1. \A q \in Replica : deferred'[q] = IF q = r THEN Satisfy(pend, Id(e)) ELSE deferred[q]
      BY <1>4 DEF Accept, TypeOK
    <3>2. ASSUME NEW p \in Satisfy(pend, Id(e)) PROVE p.env \in Issued
      <4>1. PICK o \in pend : p = [o EXCEPT !.waiting = @ \ {Id(e)}]
        BY ZenonT(30) DEF Satisfy
      <4> QED
        BY <1>1, <4>1 DEF Pending, TypeOK
    <3> QED
      BY <1>1, <2>2, <2>4, <2>5, <3>1, <3>2, ZenonT(30) DEF OnlyIssued
  <2>7. Durable'
    BY <2>2, <2>4, ZenonT(30) DEF Durable
  <2>8. Recovered'
    <3>1. e \in Envelope /\ log \in [Replica -> Seq(Envelope)]
      BY <1>1, ZenonT(30) DEF TypeOK
    <3>2. \A q \in Replica \ {r} : Push(log, r, e)[q] = log[q]
      BY <3>1, PushIs, ZenonT(30)
    <3>3. /\ phase'[r] = "live" => Range(log'[r]) \subseteq graph'[r]
          /\ phase'[r] = "booting" => cursor'[r] = 0
          /\ phase'[r] # "replaying"
      BY <2>2, <2>4, ZenonT(30) DEF Recovered
    <3>4. ASSUME NEW q \in Replica \ {r}
          PROVE  /\ phase'[q] = "live" => Range(log'[q]) \subseteq graph'[q]
                 /\ phase'[q] = "booting" => cursor'[q] = 0
                 /\ phase'[q] = "replaying" => /\ cursor'[q] <= Len(log'[q])
                                               /\ \A i \in 1..cursor'[q] : log'[q][i] \in graph'[q]
      BY <2>1, <2>2, <3>2 DEF Recovered
    <3> QED
      BY <3>3, <3>4, ZenonT(30) DEF Recovered
  <2> QED
    BY <2>4, <2>5, <2>6, <2>7, <2>8, ZenonT(30)
<1> QED
  BY <1>2, <1>3, <1>4, SMTT(10), Z3T(30) DEF HandleEnvelope

(* So do the handlers of the genserver. *)
LEMMA ReceiveHistory ==
  ASSUME TypeOK, GraphsOK, HistoryInv, CarefulRestart, NEW r \in Replica, Handler(r)
  PROVE  HistoryInv'
<1>1. /\ \A p \in deferred[r] : p.env \in Issued
      /\ \A m \in wire : m.env \in Issued
  BY DEF HistoryInv, OnlyIssued
<1>2. CASE ReceiveEnvelope(r)
  <2>1. PICK m \in wire : wire' = wire \ {m} /\ HandleEnvelope(r, m.env, m.from, deferred[r])
    BY <1>2, ZenonT(30) DEF ReceiveEnvelope
  <2> QED
    BY <1>1, <1>2, <2>1, HandleHistory DEF ReceiveEnvelope, Idle
<1>3. CASE WakeDeferred(r)
  <2>1. PICK p \in deferred[r] : HandleEnvelope(r, p.env, p.from, deferred[r] \ {p})
    BY <1>3, ZenonT(30) DEF WakeDeferred
  <2> QED
    BY <1>1, <1>3, <2>1, HandleHistory DEF WakeDeferred
<1>4. CASE ReceiveLostRequest(r)
  <2>1. \A m \in wire' : m.env \in Issued
    <3>1. PICK a \in asks :
            wire' = wire \cup {[from |-> r, to |-> a.from, env |-> e] : e \in Lookup(log[r], a.id)}
      BY <1>4 DEF ReceiveLostRequest
    <3> SUFFICES ASSUME NEW m \in wire' PROVE m.env \in Issued
      OBVIOUS
    <3>2. CASE m \in wire
      BY <1>1, <3>2, ZenonT(30)
    <3>3. CASE m \notin wire
      <4>1. PICK e \in Lookup(log[r], a.id) : m = [from |-> r, to |-> a.from, env |-> e]
        BY <3>1, <3>3, ZenonT(30)
      <4> QED
        BY <4>1 DEF HistoryInv, OnlyIssued, Lookup, Range, TypeOK
    <3> QED
      BY <3>2, <3>3, ZenonT(30)
  <2> QED
    BY <1>4, <2>1, QuietHistory, ZenonT(30)
       DEF ReceiveLostRequest, durable, volatile, HistoryInv, OnlyIssued
<1> QED
  BY <1>2, <1>3, <1>4 DEF Handler

(* All but Recovered is about the log, the graph and the messages. *)
LEMMA SameHistory ==
  ASSUME HistoryInv, Recovered', UNCHANGED <<log, graph, deferred, wire, sent>>
  PROVE  HistoryInv'
BY SameSent, SameLog DEF HistoryInv, OnlyIssued, Durable

(* A replay begins with nothing read. *)
LEMMA ReplayBegins ==
  ASSUME TypeOK, Recovered, NEW r \in Replica, ReplayLog(r)
  PROVE  Recovered'
<1>1. /\ phase[r] = "booting" /\ phase'[r] = "replaying"
      /\ \A q \in Replica \ {r} : phase'[q] = phase[q]
      /\ UNCHANGED <<log, cursor, graph>>
  BY DEF ReplayLog, durable, TypeOK
<1>2. cursor[r] <= Len(log[r]) /\ \A i \in 1..cursor[r] : FALSE
  BY <1>1 DEF TypeOK, Recovered
<1> QED
  BY <1>1, <1>2 DEF Recovered

(* The replay puts back exactly what was logged. *)
LEMMA ReplayHistory ==
  ASSUME TypeOK, GraphsOK, HistoryInv, NEW r \in Replica, Replay(r)
  PROVE  HistoryInv'
<1>1. /\ log[r] \in Seq(Envelope) /\ DOMAIN log[r] = 1..Len(log[r]) /\ Len(log[r]) \in Nat
      /\ cursor[r] \in Nat
  BY DEF TypeOK
<1>n. cursor[r] < Len(log[r]) => cursor[r] + 1 \in 1..Len(log[r])
  BY <1>1
<1> USE DEF HistoryInv
<1>2. CASE ReplayLog(r)
  <2>1. Recovered'
    BY <1>2, ReplayBegins
  <2> QED
    BY <1>2, <2>1, SameHistory DEF ReplayLog, durable, network
<1>3. CASE ReplayEntry(r)
  <2> DEFINE n == cursor[r] + 1
             e == log[r][n]
  <2>1. /\ phase[r] = "replaying" /\ cursor[r] < Len(log[r])
        /\ cursor' = [cursor EXCEPT ![r] = n]
        /\ UNCHANGED <<log, phase, sent, deferred, wire>>
    BY <1>3 DEF ReplayEntry, durable, network
  <2>2. n \in 1..Len(log[r]) /\ e \in Range(log[r]) /\ e \in Envelope
    <3>1. n \in 1..Len(log[r])
      BY <1>n, <2>1, ZenonT(30)
    <3> QED
      BY <1>1, <3>1 DEF Range
  <2>3. e \in Issued
    BY <2>2, ZenonT(30) DEF OnlyIssued
  <2>4. Missing(graph[r], e) = {}
    <3> SUFFICES ASSUME NEW id \in Parents(e) PROVE Has(graph[r], id)
      BY DEF Missing
    <3>1. id \in MessageId /\ id = <<id[1], id[2]>> /\ id[2] \in 1..e.vc[id[1]] /\ id # Id(e)
      BY <2>2, ParentIs, ZenonT(30)
    <3>a. id[1] \in Replica /\ n \in DOMAIN log[r]
      BY <1>1, <2>2, <3>1, ZenonT(30) DEF MessageId
    <3>2. PICK j \in 1..n : Id(log[r][j]) = id
      BY <3>1, <3>a DEF LogClosed
    <3>3. j # n
      BY <3>1, <3>2
    <3>4. j \in 1..cursor[r]
      BY <1>1, <3>2, <3>3
    <3>5. log[r][j] \in graph[r]
      BY <2>1, <3>4, ZenonT(30) DEF Recovered
    <3> QED
      BY <3>2, <3>5, ZenonT(30) DEF Has
  <2>5. /\ e \in graph'[r]
        /\ graph[r] \subseteq graph'[r] /\ graph'[r] \subseteq graph[r] \cup {e}
        /\ \A q \in Replica \ {r} : graph'[q] = graph[q]
    <3>1. CASE Has(graph[r], Id(e))
      <4>1. graph' = graph
        BY <1>3, <3>1, ZenonT(30) DEF ReplayEntry
      <4> QED
        BY <2>3, <3>1, <4>1, GraphMember, ZenonT(30)
    <3>2. CASE ~Has(graph[r], Id(e))
      <4>1. graph' = [graph EXCEPT ![r] = @ \cup {e}]
        BY <1>3, <2>4, <3>2, ZenonT(30) DEF ReplayEntry
      <4> QED
        BY <4>1, SMTT(30) DEF TypeOK
    <3> QED
      BY <3>1, <3>2, ZenonT(30)
  <2> HIDE DEF e
  <2>6. Issued' = Issued /\ SentNumbered' /\ ClockCondition' /\ WithinSent' /\ LogClosed'
    BY <2>1, SameSent, SameLog, ZenonT(30)
  <2>7. OnlyIssued'
    <3>1. \A q \in Replica : graph'[q] \subseteq Issued
      BY <2>3, <2>5, ZenonT(30) DEF OnlyIssued
    <3> QED
      BY <2>1, <2>6, <3>1, ZenonT(30) DEF OnlyIssued
  <2>8. Durable'
    <3>1. \A q \in Replica : graph'[q] \subseteq Range(log[q])
      BY <2>2, <2>5, ZenonT(30) DEF Durable
    <3> QED
      BY <2>1, <3>1, ZenonT(30) DEF Durable
  <2>9. Recovered'
    <3>1. cursor'[r] = n /\ \A q \in Replica \ {r} : cursor'[q] = cursor[q]
      BY <2>1 DEF TypeOK
    <3>2. n <= Len(log[r])
      BY <1>1, <2>2
    <3>3. ASSUME NEW i \in 1..n PROVE log[r][i] \in graph'[r]
      <4>1. CASE i = n
        BY <2>5, <4>1, ZenonT(30) DEF e
      <4>2. CASE i # n
        <5>1. i \in 1..cursor[r]
          BY <1>1, <4>2
        <5> QED
          BY <2>1, <2>5, <5>1, SMTT(10), Z3T(30) DEF Recovered
      <4> QED
        BY <4>1, <4>2, ZenonT(30)
    <3> QED
      BY <2>1, <2>5, <3>1, <3>2, <3>3, ZenonT(30) DEF Recovered
  <2> QED
    BY <2>6, <2>7, <2>8, <2>9, ZenonT(30)
<1>4. CASE ReplayDone(r)
  <2>1. ASSUME NEW e \in Range(log[r]) PROVE e \in graph[r]
    <3>1. PICK i \in 1..Len(log[r]) : e = log[r][i]
      BY <1>1, ZenonT(30) DEF Range
    <3> QED
      BY <1>4, <3>1, ZenonT(30) DEF ReplayDone, Recovered
  <2>2. Recovered'
    BY <1>4, <2>1, SMTT(30) DEF ReplayDone, Recovered, durable, TypeOK
  <2> QED
    BY <1>4, <2>2, SameHistory, ZenonT(30) DEF ReplayDone, durable, network
<1>5. CASE DeliverReplayed(r)
  BY <1>5, QuietHistory, ZenonT(30) DEF DeliverReplayed, durable, network, OnlyIssued
<1> QED
  BY <1>2, <1>3, <1>4, <1>5 DEF Replay

(* So does a crash, which keeps the log. *)
LEMMA CrashHistory ==
  ASSUME TypeOK, GraphsOK, HistoryInv, NEW r \in Replica, Crash(r)
  PROVE  HistoryInv'
<1>1. /\ SentNumbered /\ ClockCondition /\ WithinSent
      /\ OnlyIssued /\ LogClosed /\ Durable /\ Recovered
  BY SMTT(10), Z3T(30) DEF HistoryInv
<1>2. /\ \A q \in Replica : graph'[q] = IF q = r THEN {} ELSE graph[q]
      /\ \A q \in Replica : deferred'[q] = IF q = r THEN {} ELSE deferred[q]
      /\ \A q \in Replica : phase'[q] = IF q = r THEN "booting" ELSE phase[q]
      /\ \A q \in Replica : cursor'[q] = IF q = r THEN 0 ELSE cursor[q]
      /\ UNCHANGED <<log, sent, wire>>
  BY SMTT(30) DEF Crash, TypeOK, durable, network
<1>3. Issued' = Issued /\ SentNumbered' /\ ClockCondition' /\ WithinSent' /\ LogClosed'
  BY <1>1, <1>2, SameSent, SameLog, ZenonT(30)
<1>4. OnlyIssued'
  BY <1>1, <1>2, <1>3, ZenonT(30) DEF OnlyIssued
<1>5. Durable'
  BY <1>1, <1>2 DEF Durable
<1> QED
  BY <1>1, <1>2, <1>3, <1>4, <1>5, ZenonT(30) DEF HistoryInv, Recovered

(* So do the calls of the application. *)
LEMMA CallHistory ==
  ASSUME TypeOK, GraphsOK, HistoryInv, CarefulRestart, NEW r \in Replica, Call(r)
  PROVE  HistoryInv'
<1>1. CASE Send(r)
  <2>1. phase[r] = "live"
    BY <1>1, NoSpend, ZenonT(30) DEF Send, CarefulRestart, FaultKind
  <2> QED
    BY <1>1, <2>1, SendHistory, ZenonT(30)
<1>2. CASE RequestMissing(r)
  BY <1>2, StillHistory, ZenonT(30) DEF RequestMissing, durable, volatile
<1>3. CASE FreezeMember(r)
  <2>1. UNCHANGED <<log, graph, sent, phase, cursor, deferred, wire>>
    BY <1>3 DEF FreezeMember, durable, network
  <2> QED
    BY <2>1, StillHistory
<1>4. CASE Maskout(r) \/ Maskin(r)
  BY <1>4, StillHistory DEF Maskout, Maskin, volatile, network
<1> QED
  BY <1>1, <1>2, <1>3, <1>4 DEF Call

(* Every step keeps the invariant. *)
LEMMA StepHistory ==
  ASSUME TypeOK, GraphsOK, HistoryInv, CarefulRestart, [Next]_vars
  PROVE  HistoryInv'
<1>1. CASE UNCHANGED vars
  BY <1>1, StillHistory DEF vars, durable, volatile, network
<1>2. CASE Lose
  BY <1>2, StillHistory DEF Lose, durable, volatile
<1>3. CASE \E r \in Replica : Handler(r) \/ Replay(r) \/ Call(r) \/ Crash(r)
  BY <1>3, ReceiveHistory, ReplayHistory, CallHistory, CrashHistory
<1> QED
  BY <1>1, <1>2, <1>3 DEF Next

(* TypeOK, well-formed graphs and the history invariant, together. *)
LEMMA HistoryAlways ==
  ASSUME CarefulRestart
  PROVE  Spec => [](TypeOK /\ GraphsOK /\ HistoryInv)
<1>1. Init => TypeOK /\ GraphsOK /\ HistoryInv
  BY InitType, InitHistory
<1>2. TypeOK /\ GraphsOK /\ HistoryInv /\ [Next]_vars => (TypeOK /\ GraphsOK /\ HistoryInv)'
  BY StepType, StepHistory
<1> QED
  BY <1>1, <1>2, PTL DEF Spec

-----------------------------------------------------------------------------
(* The theorems: for every set of members, any number of messages, losses, *)
(* crashes, freezes, masks and pulls.                                      *)

(* A member whose Sends wait for the log replay, and whose log appends     *)
(* succeed, never stamps two messages with one id, however often it        *)
(* crashes: handleSend numbers from a graph that holds the whole log.      *)
THEOREM SendsAreDistinct ==
  ASSUME CarefulRestart
  PROVE  Spec => []DistinctIds
<1>1. TypeOK /\ HistoryInv => DistinctIds
  BY DEF TypeOK, HistoryInv, SentNumbered, DistinctIds, Id
<1> QED
  BY <1>1, HistoryAlways, PTL

(* The clocks handleSend stamps characterise causality across crashes.     *)
THEOREM ClocksTellCausality ==
  ASSUME CarefulRestart
  PROVE  Spec => []ClockCondition
<1>1. HistoryInv => ClockCondition
  BY DEF HistoryInv
<1> QED
  BY <1>1, HistoryAlways, PTL

(* handleReplay rebuilds the graph exactly: a member that is not starting  *)
(* up has the messages of its log as nodes and no others.                  *)
THEOREM ReplayRebuilds ==
  ASSUME CarefulRestart
  PROVE  Spec => []GraphIsLog
<1>1. HistoryInv => GraphIsLog
  BY ZenonT(30) DEF HistoryInv, Durable, Recovered, GraphIsLog
<1> QED
  BY <1>1, HistoryAlways, PTL

(* IsStable, decided from one member's graph, is a fact about every member *)
(* it holds active: each has the message in its durable log, even if it    *)
(* has crashed since.                                                      *)
THEOREM StabilityIsGlobal ==
  ASSUME CarefulRestart
  PROVE  Spec => []StableEverywhere
<1>1. ASSUME TypeOK, HistoryInv, NEW r \in Replica, NEW e \in graph[r],
             IsStable(graph[r], frozen[r], e), NEW q \in Replica \ frozen[r]
      PROVE  e \in Range(log[q])
  <2>1. e \in Issued /\ e \in Range(sent[e.sender]) /\ e.sender \in Replica /\ e \in Envelope
    BY <1>1, IssuedIs, ZenonT(30) DEF HistoryInv, OnlyIssued
  <2>2. CASE q = e.sender
    BY <1>1, <2>1, <2>2, ZenonT(30) DEF HistoryInv, Durable
  <2>3. CASE q # e.sender
    <3>1. PICK f \in graph[r] : f.sender = q /\ f.vc[e.sender] >= SenderSeq(e)
      BY <1>1, <2>3, SMTT(10), Z3T(30) DEF IsStable, Latest
    <3>2. f \in Issued /\ f \in Envelope /\ f \in Range(sent[q])
      BY <1>1, <3>1, IssuedIs, SMTT(10), Z3T(30) DEF HistoryInv, OnlyIssued
    <3>3. f \in Range(log[q]) /\ log[q] \in Seq(Envelope)
      BY <1>1, <3>2 DEF HistoryInv, Durable, TypeOK
    <3>4. PICK i \in DOMAIN log[q] : log[q][i] = f
      BY <3>3, SMTT(10), Z3T(30) DEF Range
    <3>5. SenderSeq(e) \in 1..f.vc[e.sender]
      <4>1. SenderSeq(e) \in Nat /\ SenderSeq(e) > 0
        BY <2>1, EnvelopeFields, ZenonT(30)
      <4> QED
        BY <2>1, <3>1, <3>2, <4>1, EnvelopeFields
    <3>6. PICK j \in 1..i : Id(log[q][j]) = <<e.sender, SenderSeq(e)>>
      BY <1>1, <2>1, <3>4, <3>5, SMTT(10), Z3T(30) DEF HistoryInv, LogClosed
    <3>7. log[q][j] \in Range(log[q])
      BY <3>3, <3>4, <3>6 DEF Range
    <3>8. log[q][j] \in Issued
      BY <1>1, <3>7, ZenonT(30) DEF HistoryInv, OnlyIssued
    <3>9. log[q][j] = e
      BY <1>1, <2>1, <3>6, <3>8, IssuedUnique, ZenonT(30) DEF HistoryInv, Id
    <3> QED
      BY <3>7, <3>9
  <2> QED
    BY <2>2, <2>3, SMTT(30)
<1>2. TypeOK /\ HistoryInv => StableEverywhere
  BY <1>1 DEF StableEverywhere
<1> QED
  BY <1>2, HistoryAlways, PTL
=============================================================================
