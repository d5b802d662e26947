---------------------------- MODULE PsyncProofs -----------------------------
(***************************************************************************)
(* Types, and graphs without causal holes, under every combination of      *)
(* faults.  The invariant is GraphOK of every graph: ids are unique and    *)
(* each node has its whole past; a step either leaves a graph alone,       *)
(* empties it or inserts a node whose parents are there.  The lemmas about *)
(* the context graph's operators come first.                               *)
(***************************************************************************)
EXTENDS Psync, TLAPS

(* The maximum of a set of integers that has a largest element. *)
LEMMA MaxIs ==
  ASSUME NEW S \in SUBSET Int, NEW m \in S, \A x \in S : x <= m
  PROVE  Max(S) = m
<1>1. \A y \in S : m >= y
  OBVIOUS
<1>2. Max(S) \in S /\ \A y \in S : Max(S) >= y
  BY <1>1, Zenon DEF Max
<1>3. Max(S) \in Int /\ m \in Int
  BY <1>2, ZenonT(30)
<1>4. Max(S) >= m /\ m >= Max(S)
  BY <1>1, <1>2, ZenonT(30)
<1>5. QED
  BY <1>3, <1>4

(* Appending adds one element to the range of a sequence. *)
LEMMA RangeAppend ==
  ASSUME NEW S, NEW s \in Seq(S), NEW e \in S
  PROVE  Range(Append(s, e)) = Range(s) \cup {e}
<1>1. DOMAIN Append(s, e) = 1..(Len(s) + 1) /\ DOMAIN s = 1..Len(s) /\ Len(s) \in Nat
  OBVIOUS
<1>2. \A i \in 1..Len(s) : Append(s, e)[i] = s[i]
  OBVIOUS
<1>3. Append(s, e)[Len(s) + 1] = e
  OBVIOUS
<1>4. QED
  BY <1>1, <1>2, <1>3 DEF Range

-----------------------------------------------------------------------------
(* Graphs as Insert builds them: causally closed, and the messages of each  *)
(* sender numbered from 1 without a gap.                                    *)
Seqs(g, q) == {SenderSeq(e) : e \in FromSender(g, q)}

GraphOK(g) ==
  /\ g \in SUBSET Envelope
  /\ \A e \in g : HasPast(g, e)
  /\ \A q \in Replica : \E n \in Nat : Seqs(g, q) = 1..n

(* The parts of an envelope and their types. *)
LEMMA EnvelopeFields ==
  ASSUME NEW e \in Envelope
  PROVE  /\ e.sender \in Replica
         /\ e.vc \in [Replica -> Nat]
         /\ SenderSeq(e) \in Nat /\ SenderSeq(e) > 0
         /\ Id(e) \in MessageId
         /\ Id(e)[1] = e.sender /\ Id(e)[2] = SenderSeq(e)
BY DEF Envelope, Vector, SenderSeq, Id, MessageId

(* A node is found by its sender and number. *)
LEMMA HasIsSeq ==
  ASSUME NEW g \in SUBSET Envelope, NEW q \in Replica, NEW k \in Nat
  PROVE  Has(g, <<q, k>>) <=> k \in Seqs(g, q)
BY DEF Has, Seqs, FromSender, Id

(* Has only grows with the graph. *)
LEMMA HasMonotone ==
  ASSUME NEW g, NEW h, g \subseteq h, NEW id, Has(g, id)
  PROVE  Has(h, id)
BY DEF Has

(* A node whose parents are nodes has its whole past in the graph, itself included. *)
LEMMA PastOfInserted ==
  ASSUME NEW g, GraphOK(g), NEW e \in Envelope, Missing(g, e) = {}
  PROVE  HasPast(g \cup {e}, e)
<1> SUFFICES ASSUME NEW q \in Replica, NEW k \in 1..e.vc[q]
             PROVE  Has(g \cup {e}, <<q, k>>)
  BY ZenonT(30) DEF HasPast
<1>1. e.sender \in Replica /\ e.vc \in [Replica -> Nat] /\ SenderSeq(e) \in Nat
  BY EnvelopeFields
<1>2. CASE q = e.sender /\ k = e.vc[q]
  BY <1>2 DEF Has, Id, SenderSeq
<1>3. CASE ~(q = e.sender /\ k = e.vc[q])
  <2> DEFINE s == RequiredSeq(e, q)
  <2>1. s \in Nat /\ s > 0 /\ k \in 1..s
    BY <1>1, <1>3 DEF RequiredSeq
  <2>2. <<q, s>> \in Parents(e)
    BY <2>1 DEF Parents
  <2>3. PICK p \in g : Id(p) = <<q, s>>
    BY <2>2 DEF Missing, Has
  <2>4. p \in Envelope /\ HasPast(g, p)
    BY <2>3 DEF GraphOK
  <2>5. p.sender = q /\ p.vc[q] = s
    BY <2>3 DEF Id, SenderSeq
  <2>6. Has(g, <<q, k>>)
    BY <2>1, <2>4, <2>5 DEF HasPast
  <2> QED
    BY <2>6, HasMonotone
<1> QED
  BY <1>2, <1>3

(* Inserting a new node whose parents are nodes keeps a graph well formed. *)
LEMMA InsertOK ==
  ASSUME NEW g, GraphOK(g), NEW e \in Envelope, ~Has(g, Id(e)), Missing(g, e) = {}
  PROVE  GraphOK(g \cup {e})
<1> DEFINE h == g \cup {e}
<1>1. g \in SUBSET Envelope /\ h \in SUBSET Envelope
  BY DEF GraphOK
<1>2. e.sender \in Replica /\ e.vc \in [Replica -> Nat] /\ SenderSeq(e) \in Nat /\ SenderSeq(e) > 0
  BY EnvelopeFields
<1>3. ASSUME NEW f \in h PROVE HasPast(h, f)
  <2>1. CASE f \in g
    BY <2>1, HasMonotone, ZenonT(30) DEF GraphOK, HasPast
  <2>2. CASE f = e
    BY <2>2, PastOfInserted
  <2> QED
    BY <2>1, <2>2
<1>4. ASSUME NEW q \in Replica PROVE \E n \in Nat : Seqs(h, q) = 1..n
  <2>1. PICK n \in Nat : Seqs(g, q) = 1..n
    BY DEF GraphOK
  <2>2. CASE q # e.sender
    BY <2>1, <2>2 DEF Seqs, FromSender
  <2>3. CASE q = e.sender
    <3> DEFINE s == SenderSeq(e)
    <3>1. Seqs(h, q) = (1..n) \cup {s}
      BY <2>1, <2>3 DEF Seqs, FromSender
    <3>2. s \notin 1..n
      BY <1>1, <1>2, <2>1, <2>3, HasIsSeq, ZenonT(30) DEF Id
    <3>3. s = 1 \/ s - 1 \in 1..n
      <4>1. SUFFICES ASSUME s # 1 PROVE s - 1 \in 1..n
        OBVIOUS
      <4>2. s - 1 \in Nat /\ s - 1 > 0
        BY <1>2, <4>1
      <4>3. <<q, s - 1>> \in Parents(e)
        BY <2>3, <4>2 DEF Parents, RequiredSeq, SenderSeq
      <4>4. Has(g, <<q, s - 1>>)
        BY <4>3 DEF Missing
      <4> QED
        BY <1>1, <2>1, <4>2, <4>4, HasIsSeq, SMTT(30), Z3T(30)
    <3>4. s = n + 1
      BY <1>2, <3>2, <3>3
    <3>5. (1..n) \cup {n + 1} = 1..(n + 1)
      OBVIOUS
    <3>6. Seqs(h, q) = 1..(n + 1)
      BY <3>1, <3>4, <3>5, ZenonT(30)
    <3> QED
      BY <3>6
  <2> QED
    BY <2>2, <2>3, ZenonT(30)
<1> QED
  BY <1>1, <1>3, <1>4, ZenonT(30) DEF GraphOK

(* The latest sequence number of a sender and the view are what they say. *)
LEMMA LatestSeqIs ==
  ASSUME NEW g \in SUBSET Envelope, NEW q \in Replica, NEW n \in Nat, Seqs(g, q) = 1..n
  PROVE  LatestSeq(g, q) = n
<1>1. {0} \cup {SenderSeq(e) : e \in FromSender(g, q)} = {0} \cup 1..n
  BY DEF Seqs
<1>2. {0} \cup 1..n \in SUBSET Int /\ n \in {0} \cup 1..n /\ \A x \in {0} \cup 1..n : x <= n
  OBVIOUS
<1>3. Max({0} \cup 1..n) = n
  BY <1>2, MaxIs, ZenonT(30)
<1> QED
  BY <1>1, <1>3, ZenonT(30) DEF LatestSeq

(* The view bounds every clock in a well-formed graph, and each of its     *)
(* entries is the number of a node.                                        *)
LEMMA ViewIs ==
  ASSUME NEW g, GraphOK(g)
  PROVE  /\ CurrentView(g) \in Vector
         /\ \A q \in Replica : Seqs(g, q) = 1..CurrentView(g)[q]
<1> SUFFICES ASSUME NEW q \in Replica
             PROVE  CurrentView(g)[q] \in Nat /\ Seqs(g, q) = 1..CurrentView(g)[q]
  BY DEF CurrentView, Vector
<1>1. g \in SUBSET Envelope
  BY DEF GraphOK
<1>2. PICK n \in Nat : Seqs(g, q) = 1..n
  BY DEF GraphOK
<1> DEFINE V == {0} \cup {e.vc[q] : e \in Latest(g)}
<1>3. V \in SUBSET Nat
  BY <1>1, EnvelopeFields DEF Latest
<1>4. ASSUME NEW x \in V PROVE x <= n
  <2>1. CASE x = 0
    BY <2>1
  <2>2. CASE x # 0
    <3>1. PICK e \in g : x = e.vc[q]
      BY <2>2 DEF Latest
    <3>2. x \in Nat /\ x \in 1..e.vc[q]
      <4>1. x \in Nat
        BY <1>3, ZenonT(30)
      <4> QED
        BY <2>2, <3>1, <4>1
    <3>3. Has(g, <<q, x>>)
      BY <3>1, <3>2 DEF GraphOK, HasPast
    <3>4. x \in Seqs(g, q)
      BY <1>1, <3>2, <3>3, HasIsSeq
    <3> QED
      BY <1>2, <3>4
  <2> QED
    BY <2>1, <2>2
<1>5. n \in V
  <2>1. CASE n = 0
    BY <2>1
  <2>2. CASE n # 0
    <3>1. n \in Seqs(g, q)
      BY <1>2, <2>2
    <3>2. PICK e \in g : e.sender = q /\ SenderSeq(e) = n
      BY <3>1 DEF Seqs, FromSender
    <3>3. LatestSeq(g, q) = n
      BY <1>1, <1>2, LatestSeqIs
    <3> QED
      BY <3>2, <3>3 DEF Latest, SenderSeq
  <2> QED
    BY <2>1, <2>2
<1>6. Max(V) = n
  <2> HIDE DEF V
  <2> QED
    BY <1>3, <1>4, <1>5, MaxIs
<1>7. CurrentView(g)[q] = n
  BY <1>6 DEF CurrentView
<1> QED
  BY <1>2, <1>7

(* The envelope handleSend stamps is new and its parents are nodes. *)
LEMMA StampOK ==
  ASSUME NEW g, GraphOK(g), NEW r \in Replica, NEW e,
         e = [sender |-> r, vc |-> Increment(CurrentView(g), r)]
  PROVE  /\ e \in Envelope
         /\ e.vc[r] = CurrentView(g)[r] + 1
         /\ \A q \in Replica \ {r} : e.vc[q] = CurrentView(g)[q]
         /\ ~Has(g, Id(e))
         /\ Missing(g, e) = {}
<1> DEFINE view == CurrentView(g)
<1>1. g \in SUBSET Envelope
  BY DEF GraphOK
<1>2. view \in [Replica -> Nat] /\ \A q \in Replica : Seqs(g, q) = 1..view[q]
  BY ViewIs DEF Vector
<1> HIDE DEF view
<1>3. /\ e.sender = r
      /\ e.vc \in [Replica -> Nat]
      /\ e.vc[r] = view[r] + 1
      /\ \A q \in Replica \ {r} : e.vc[q] = view[q]
  BY <1>2 DEF Increment, view
<1>4. e \in Envelope
  BY <1>2, <1>3 DEF Envelope, Vector, Increment, view
<1>5. ~Has(g, Id(e))
  <2>1. Id(e) = <<r, view[r] + 1>>
    BY <1>3 DEF Id, SenderSeq
  <2>2. view[r] + 1 \in Nat /\ view[r] + 1 \notin Seqs(g, r)
    BY <1>2
  <2> QED
    BY <1>1, <2>1, <2>2, HasIsSeq
<1>6. ASSUME NEW id \in Parents(e) PROVE Has(g, id)
  <2>1. PICK q \in Replica : id = <<q, RequiredSeq(e, q)>> /\ RequiredSeq(e, q) > 0
    BY DEF Parents
  <2>2. RequiredSeq(e, q) = view[q]
    BY <1>2, <1>3 DEF RequiredSeq
  <2>3. view[q] \in Seqs(g, q)
    BY <1>2, <2>1, <2>2
  <2> QED
    BY <1>1, <1>2, <2>1, <2>2, <2>3, HasIsSeq
<1> QED
  BY <1>3, <1>4, <1>5, <1>6 DEF Missing, view

(* A parent is an earlier message inside the clock's reach. *)
LEMMA ParentIs ==
  ASSUME NEW e \in Envelope, NEW id \in Parents(e)
  PROVE  /\ id \in MessageId
         /\ id = <<id[1], id[2]>>
         /\ id[2] \in 1..e.vc[id[1]]
         /\ id # Id(e)
<1>1. PICK q \in Replica : id = <<q, RequiredSeq(e, q)>> /\ RequiredSeq(e, q) > 0
  BY DEF Parents
<1>2. /\ e.vc \in [Replica -> Nat] /\ e.sender \in Replica
      /\ e.vc[q] \in Nat /\ e.vc[e.sender] > 0
  BY EnvelopeFields DEF SenderSeq
<1>3. RequiredSeq(e, q) \in 1..e.vc[q]
  BY <1>1, <1>2 DEF RequiredSeq
<1>4. id # Id(e)
  BY <1>1, <1>2 DEF RequiredSeq, Id, SenderSeq
<1>5. id \in MessageId /\ id[1] = q /\ id[2] = RequiredSeq(e, q)
  BY <1>1, <1>2, <1>3 DEF MessageId
<1> QED
  BY <1>1, <1>3, <1>4, <1>5

-----------------------------------------------------------------------------
(* The conversation *)

(* Every member's graph is well formed, whatever crashes, losses and log   *)
(* failures there are.                                                     *)
GraphsOK == \A r \in Replica : GraphOK(graph[r])

(* Pushing an envelope on one member's sequence. *)
LEMMA PushIs ==
  ASSUME NEW f \in [Replica -> Seq(Envelope)], NEW r \in Replica, NEW e \in Envelope
  PROVE  /\ Push(f, r, e) \in [Replica -> Seq(Envelope)]
         /\ Push(f, r, e)[r] = Append(f[r], e)
         /\ \A q \in Replica \ {r} : Push(f, r, e)[q] = f[q]
<1>1. Append(f[r], e) \in Seq(Envelope)
  OBVIOUS
<1> QED
  BY <1>1 DEF Push

(* A fault counter stays a number. *)
LEMMA SpendType ==
  ASSUME faults \in [FaultKind -> Nat], NEW k \in FaultKind, Spend(k)
  PROVE  faults' \in [FaultKind -> Nat]
BY DEF Spend

(* A deferred envelope that waits for less is one still. *)
LEMMA SatisfyType ==
  ASSUME NEW pend \in SUBSET Pending, NEW id
  PROVE  Satisfy(pend, id) \in SUBSET Pending
<1>1. ASSUME NEW p \in pend PROVE [p EXCEPT !.waiting = @ \ {id}] \in Pending
  <2>1. /\ p \in [env : Envelope, from : Replica, waiting : SUBSET MessageId]
        /\ p.waiting \ {id} \in SUBSET MessageId
    BY DEF Pending
  <2> QED
    BY <2>1 DEF Pending
<1> QED
  BY <1>1 DEF Satisfy

(* An insertion keeps the graphs of all members typed and well formed. *)
LEMMA GraphInsert ==
  ASSUME graph \in [Replica -> SUBSET Envelope], GraphsOK,
         NEW r \in Replica, NEW e \in Envelope,
         ~Has(graph[r], Id(e)), Missing(graph[r], e) = {},
         graph' = [graph EXCEPT ![r] = @ \cup {e}]
  PROVE  graph' \in [Replica -> SUBSET Envelope] /\ GraphsOK'
<1>1. GraphOK(graph[r] \cup {e})
  BY InsertOK DEF GraphsOK
<1>2. \A q \in Replica : graph'[q] = IF q = r THEN graph[r] \cup {e} ELSE graph[q]
  OBVIOUS
<1>3. GraphsOK'
  BY <1>1, <1>2 DEF GraphsOK
<1> QED
  BY <1>3

(* handleEnvelope: accepted, deferred or dropped, types and graphs are kept. *)
LEMMA HandleEnvelopeType ==
  ASSUME TypeOK, GraphsOK, NEW r \in Replica, NEW e \in Envelope, NEW from \in Replica,
         NEW pend \in SUBSET Pending, HandleEnvelope(r, e, from, pend)
  PROVE  /\ log' \in [Replica -> Seq(Envelope)]
         /\ graph' \in [Replica -> SUBSET Envelope]
         /\ deferred' \in [Replica -> SUBSET Pending]
         /\ outstanding' \in [Replica -> SUBSET MessageId]
         /\ deliver' \in [Replica -> Seq(Envelope)]
         /\ asks' \in SUBSET LostMessageRequest
         /\ faults' \in [FaultKind -> Nat]
         /\ GraphsOK'
<1> USE DEF TypeOK
<1>1. CASE Drop(r, pend)
  BY <1>1 DEF Drop, GraphsOK
<1>2. CASE ~Has(graph[r], Id(e)) /\ Missing(graph[r], e) = {} /\ Accept(r, e, pend)
  <2>1. graph' \in [Replica -> SUBSET Envelope] /\ GraphsOK'
    BY <1>2, GraphInsert, ZenonT(30) DEF Accept
  <2>2. log' \in [Replica -> Seq(Envelope)] /\ deliver' \in [Replica -> Seq(Envelope)]
    <3>1. /\ Push(log, r, e) \in [Replica -> Seq(Envelope)]
          /\ Push(deliver, r, e) \in [Replica -> Seq(Envelope)]
      BY PushIs, ZenonT(30)
    <3> QED
      BY <1>2, <3>1, ZenonT(30) DEF Accept
  <2>3. Satisfy(pend, Id(e)) \in SUBSET Pending
    BY SatisfyType
  <2>4. deferred' \in [Replica -> SUBSET Pending]
    <3>1. /\ deferred \in [Replica -> SUBSET Pending]
          /\ deferred' = [deferred EXCEPT ![r] = Satisfy(pend, Id(e))]
      BY <1>2, ZenonT(30) DEF Accept
    <3> HIDE DEF TypeOK
    <3> QED
      BY <2>3, <3>1
  <2>5. outstanding' \in [Replica -> SUBSET MessageId] /\ asks' \in SUBSET LostMessageRequest
    BY <1>2, ZenonT(30) DEF Accept
  <2>6. faults' \in [FaultKind -> Nat]
    BY <1>2, SpendType, SMTT(10), Z3T(30) DEF Accept, FaultKind
  <2> QED
    BY <2>1, <2>2, <2>4, <2>5, <2>6, ZenonT(30)
<1>3. CASE Defer(r, e, from, pend)
  <2> DEFINE missing == Missing(graph[r], e)
  <2>1. missing \in SUBSET MessageId
    BY ParentIs DEF Missing
  <2> HIDE DEF missing
  <2>2. [env |-> e, from |-> from, waiting |-> missing] \in Pending
    BY <2>1 DEF Pending
  <2>3. deferred' \in [Replica -> SUBSET Pending]
    BY <1>3, <2>2, ZenonT(30) DEF Defer, missing
  <2>4. outstanding' \in [Replica -> SUBSET MessageId]
    BY <1>3, <2>1, SMTT(30), Z3T(30) DEF Defer, missing
  <2>5. asks' \in SUBSET LostMessageRequest
    BY <1>3, <2>1 DEF Defer, missing, LostMessageRequest
  <2> QED
    BY <1>3, <2>3, <2>4, <2>5, SMTT(30), Z3T(30) DEF Defer, GraphsOK
<1> QED
  BY <1>1, <1>2, <1>3, ZenonT(30) DEF HandleEnvelope

-----------------------------------------------------------------------------
(* Type correctness.  What handleSend stamps is an envelope only because   *)
(* the graph is well formed, so the two are proved together.               *)

(* The empty graph is well formed. *)
LEMMA EmptyGraphOK == GraphOK({})
<1>1. \A q \in Replica : Seqs({}, q) = 1..0
  BY DEF Seqs, FromSender
<1> QED
  BY <1>1 DEF GraphOK

(* Types and graphs at the start. *)
LEMMA InitType == Init => TypeOK /\ GraphsOK
<1> SUFFICES ASSUME Init PROVE TypeOK /\ GraphsOK
  OBVIOUS
<1>1. TypeOK
  BY DEF Init, TypeOK
<1> QED
  BY <1>1, EmptyGraphOK DEF Init, GraphsOK

(* Send keeps types and graphs. *)
LEMMA SendType ==
  ASSUME TypeOK, GraphsOK, NEW r \in Replica, Send(r)
  PROVE  TypeOK' /\ GraphsOK'
<1> DEFINE e == NewEnvelope(r)
<1>1. /\ e \in Envelope
      /\ ~Has(graph[r], Id(e)) /\ Missing(graph[r], e) = {}
  BY StampOK, SMTT(10), Z3T(30) DEF NewEnvelope, GraphsOK
<1>2. /\ log' = Push(log, r, e)
      /\ graph' = [graph EXCEPT ![r] = @ \cup {e}]
      /\ deliver' = Push(deliver, r, e)
      /\ wire' = wire \cup Broadcast(r, e)
      /\ sent' = Push(sent, r, e)
  BY DEF Send
<1> HIDE DEF e
<1>3. graph' \in [Replica -> SUBSET Envelope] /\ GraphsOK'
  BY <1>1, <1>2, GraphInsert, ZenonT(30) DEF TypeOK
<1>4. /\ Push(log, r, e) \in [Replica -> Seq(Envelope)]
      /\ Push(deliver, r, e) \in [Replica -> Seq(Envelope)]
      /\ Push(sent, r, e) \in [Replica -> Seq(Envelope)]
  <2>1. /\ log \in [Replica -> Seq(Envelope)]
        /\ deliver \in [Replica -> Seq(Envelope)]
        /\ sent \in [Replica -> Seq(Envelope)]
    BY ZenonT(30) DEF TypeOK
  <2> QED
    BY <1>1, <2>1, PushIs, ZenonT(30)
<1>5. wire' \in SUBSET WireEnvelope
  BY <1>1, <1>2 DEF TypeOK, Broadcast, WireEnvelope
<1>6. faults' \in [FaultKind -> Nat]
  BY SpendType DEF Send, TypeOK, FaultKind
<1> QED
  BY <1>2, <1>3, <1>4, <1>5, <1>6, ZenonT(30) DEF Send, TypeOK

(* So do an incoming envelope and a deferred one that is woken. *)
LEMMA ReceiveType ==
  ASSUME TypeOK, GraphsOK, NEW r \in Replica, ReceiveEnvelope(r) \/ WakeDeferred(r)
  PROVE  TypeOK' /\ GraphsOK'
<1>1. CASE ReceiveEnvelope(r)
  <2>1. PICK m \in wire : wire' = wire \ {m} /\ HandleEnvelope(r, m.env, m.from, deferred[r])
    BY <1>1 DEF ReceiveEnvelope
  <2>2. m.env \in Envelope /\ m.from \in Replica /\ deferred[r] \in SUBSET Pending
    <3>1. wire \in SUBSET WireEnvelope /\ deferred \in [Replica -> SUBSET Pending]
      BY ZenonT(30) DEF TypeOK
    <3> QED
      BY <3>1 DEF WireEnvelope
  <2>3. /\ log' \in [Replica -> Seq(Envelope)]
        /\ graph' \in [Replica -> SUBSET Envelope]
        /\ deferred' \in [Replica -> SUBSET Pending]
        /\ outstanding' \in [Replica -> SUBSET MessageId]
        /\ deliver' \in [Replica -> Seq(Envelope)]
        /\ asks' \in SUBSET LostMessageRequest
        /\ faults' \in [FaultKind -> Nat]
        /\ GraphsOK'
    BY <2>1, <2>2, HandleEnvelopeType, SMTT(10), Z3T(30)
  <2>4. UNCHANGED <<masked, phase, cursor, frozen, replayed, sent>>
    BY <1>1, ZenonT(30) DEF ReceiveEnvelope
  <2> QED
    BY <2>1, <2>3, <2>4 DEF TypeOK
<1>2. CASE WakeDeferred(r)
  <2>1. PICK p \in deferred[r] : HandleEnvelope(r, p.env, p.from, deferred[r] \ {p})
    BY <1>2, ZenonT(30) DEF WakeDeferred
  <2>2. p.env \in Envelope /\ p.from \in Replica /\ deferred[r] \ {p} \in SUBSET Pending
    BY DEF TypeOK, Pending
  <2>3. /\ log' \in [Replica -> Seq(Envelope)]
        /\ graph' \in [Replica -> SUBSET Envelope]
        /\ deferred' \in [Replica -> SUBSET Pending]
        /\ outstanding' \in [Replica -> SUBSET MessageId]
        /\ deliver' \in [Replica -> Seq(Envelope)]
        /\ asks' \in SUBSET LostMessageRequest
        /\ faults' \in [FaultKind -> Nat]
        /\ GraphsOK'
    BY <2>1, <2>2, HandleEnvelopeType
  <2> QED
    BY <1>2, <2>3 DEF WakeDeferred, TypeOK
<1> QED
  BY <1>1, <1>2

(* So do the two sides of the lost-message protocol. *)
LEMMA RequestType ==
  ASSUME TypeOK, GraphsOK, NEW r \in Replica, ReceiveLostRequest(r) \/ RequestMissing(r)
  PROVE  TypeOK' /\ GraphsOK'
<1>1. CASE ReceiveLostRequest(r)
  <2>1. PICK m \in asks :
          /\ asks' = asks \ {m}
          /\ wire' = wire \cup {[from |-> r, to |-> m.from, env |-> e] : e \in Lookup(log[r], m.id)}
    BY <1>1, ZenonT(30) DEF ReceiveLostRequest
  <2>2. m.from \in Replica /\ asks' \in SUBSET LostMessageRequest
    <3>1. asks \in SUBSET LostMessageRequest
      BY ZenonT(30) DEF TypeOK
    <3> QED
      BY <2>1, <3>1 DEF LostMessageRequest
  <2>3. Lookup(log[r], m.id) \in SUBSET Envelope
    <3>1. log[r] \in Seq(Envelope)
      BY DEF TypeOK
    <3> QED
      BY <3>1 DEF Lookup
  <2>4. wire' \in SUBSET WireEnvelope
    <3>1. wire \in SUBSET WireEnvelope
      BY ZenonT(30) DEF TypeOK
    <3> QED
      BY <2>1, <2>2, <2>3, <3>1 DEF WireEnvelope
  <2>5. UNCHANGED <<log, masked, phase, cursor, graph, deferred, outstanding, frozen, replayed,
                    deliver, sent, faults>>
    BY <1>1 DEF ReceiveLostRequest, durable, volatile
  <2> QED
    BY <2>2, <2>4, <2>5, ZenonT(30) DEF TypeOK, GraphsOK
<1>2. CASE RequestMissing(r)
  <2>1. ASSUME NEW e \in Issued PROVE e \in Envelope
    <3>1. PICK q \in Replica : e \in Range(sent[q])
      BY DEF Issued
    <3>2. sent[q] \in Seq(Envelope)
      BY SMTT(10), Z3T(30) DEF TypeOK
    <3> QED
      BY <3>1, <3>2 DEF Range
  <2>2. PICK e \in Issued :
          LET whom == IF e.sender = r THEN Replica \ ({r} \cup frozen[r]) ELSE {e.sender}
          IN  asks' = asks \cup {[from |-> r, to |-> q, id |-> Id(e)] : q \in whom}
    BY <1>2 DEF RequestMissing
  <2>3. e.sender \in Replica /\ Id(e) \in MessageId
    BY <2>1, <2>2, EnvelopeFields, ZenonT(30)
  <2>4. asks' \in SUBSET LostMessageRequest
    BY <2>2, <2>3, SMTT(10), Z3T(30) DEF TypeOK, LostMessageRequest
  <2>5. faults' \in [FaultKind -> Nat]
    BY <1>2, SpendType DEF RequestMissing, TypeOK, FaultKind
  <2> QED
    BY <1>2, <2>4, <2>5, ZenonT(30) DEF RequestMissing, TypeOK, GraphsOK, durable, volatile
<1> QED
  BY <1>1, <1>2

(* So do the calls that change the membership view and the mask. *)
LEMMA ViewType ==
  ASSUME TypeOK, GraphsOK, NEW r \in Replica, FreezeMember(r) \/ Maskout(r) \/ Maskin(r)
  PROVE  TypeOK' /\ GraphsOK'
<1>1. CASE FreezeMember(r)
  <2>1. frozen' \in [Replica -> SUBSET Replica]
    BY <1>1, SMTT(30), Z3T(30) DEF FreezeMember, TypeOK
  <2>2. faults' \in [FaultKind -> Nat]
    BY <1>1, SpendType DEF FreezeMember, TypeOK, FaultKind
  <2> QED
    BY <1>1, <2>1, <2>2, ZenonT(30) DEF FreezeMember, TypeOK, GraphsOK, durable, network
<1>2. CASE Maskout(r)
  <2>1. masked' \in [Replica -> SUBSET Replica]
    BY <1>2, SMTT(30), Z3T(30) DEF Maskout, TypeOK
  <2>2. faults' \in [FaultKind -> Nat]
    BY <1>2, SpendType DEF Maskout, TypeOK, FaultKind
  <2> QED
    BY <1>2, <2>1, <2>2, ZenonT(30) DEF Maskout, TypeOK, GraphsOK, volatile, network
<1>3. CASE Maskin(r)
  <2>1. masked' \in [Replica -> SUBSET Replica]
    BY <1>3, SMTT(30) DEF Maskin, TypeOK
  <2> QED
    BY <1>3, <2>1, ZenonT(30) DEF Maskin, TypeOK, GraphsOK, volatile, network
<1> QED
  BY <1>1, <1>2, <1>3

(* So do a crash and each step of the replay. *)
LEMMA RestartType ==
  ASSUME TypeOK, GraphsOK, NEW r \in Replica, Crash(r) \/ Replay(r)
  PROVE  TypeOK' /\ GraphsOK'
<1>1. CASE Crash(r)
  <2>1. faults' \in [FaultKind -> Nat]
    BY <1>1, SpendType, ZenonT(30) DEF Crash, TypeOK, FaultKind
  <2>2. \A q \in Replica : graph'[q] = IF q = r THEN {} ELSE graph[q]
    BY <1>1 DEF Crash, TypeOK
  <2>3. GraphsOK'
    BY <2>2, EmptyGraphOK, ZenonT(30) DEF GraphsOK
  <2>4. /\ phase' \in [Replica -> {"live", "booting", "replaying"}]
        /\ cursor' \in [Replica -> Nat]
        /\ frozen' \in [Replica -> SUBSET Replica]
    BY <1>1, SMTT(10), Z3T(30) DEF Crash, TypeOK
  <2>5. /\ graph' \in [Replica -> SUBSET Envelope]
        /\ deferred' \in [Replica -> SUBSET Pending]
        /\ outstanding' \in [Replica -> SUBSET MessageId]
    BY <1>1 DEF Crash, TypeOK
  <2>6. <<>> \in Seq(Envelope)
    BY SMTT(10), Z3T(30)
  <2>7. /\ replayed' \in [Replica -> Seq(Envelope)]
        /\ deliver' \in [Replica -> Seq(Envelope)]
    BY <1>1, <2>6, SMTT(10), Z3T(30) DEF Crash, TypeOK
  <2>8. UNCHANGED <<log, masked, wire, asks, sent>>
    BY <1>1 DEF Crash, durable, network
  <2>9. TypeOK'
    BY <2>1, <2>4, <2>5, <2>7, <2>8, ZenonT(30) DEF TypeOK
  <2> QED
    BY <2>3, <2>9, ZenonT(30)
<1>2. CASE ReplayLog(r)
  BY <1>2, ZenonT(30) DEF ReplayLog, TypeOK, GraphsOK, durable, network
<1>3. CASE ReplayEntry(r)
  <2> DEFINE e == log[r][cursor[r] + 1]
  <2>1. e \in Envelope /\ cursor' \in [Replica -> Nat]
    BY <1>3 DEF ReplayEntry, TypeOK
  <2>u. UNCHANGED <<log, masked, phase, deferred, outstanding, frozen, deliver, wire, asks,
                    sent, faults>>
    BY <1>3, ZenonT(30) DEF ReplayEntry, durable, network
  <2>2. CASE UNCHANGED <<graph, replayed>>
    BY <2>1, <2>2, <2>u, ZenonT(30) DEF TypeOK, GraphsOK
  <2>3. CASE /\ ~Has(graph[r], Id(e)) /\ Missing(graph[r], e) = {}
             /\ graph' = [graph EXCEPT ![r] = @ \cup {e}]
             /\ replayed' = Push(replayed, r, e)
    <3> HIDE DEF e
    <3>1. graph' \in [Replica -> SUBSET Envelope] /\ GraphsOK'
      BY <2>1, <2>3, GraphInsert, ZenonT(30) DEF TypeOK
    <3>2. Push(replayed, r, e) \in [Replica -> Seq(Envelope)]
      BY <2>1, PushIs, ZenonT(30) DEF TypeOK
    <3> QED
      BY <2>1, <2>3, <2>u, <3>1, <3>2 DEF TypeOK
  <2> QED
    BY <1>3, <2>2, <2>3, ZenonT(30) DEF ReplayEntry
<1>4. CASE ReplayDone(r)
  BY <1>4, ZenonT(30) DEF ReplayDone, TypeOK, GraphsOK, durable, network
<1>5. CASE DeliverReplayed(r)
  <2>1. replayed[r] \in Seq(Envelope) /\ replayed[r] # <<>>
    BY <1>5 DEF DeliverReplayed, TypeOK
  <2>2. Head(replayed[r]) \in Envelope /\ Tail(replayed[r]) \in Seq(Envelope)
    BY <2>1
  <2>3. Push(deliver, r, Head(replayed[r])) \in [Replica -> Seq(Envelope)]
    BY <2>2, PushIs, ZenonT(30) DEF TypeOK
  <2> QED
    BY <1>5, <2>2, <2>3, SMTT(30), Z3T(30)
       DEF DeliverReplayed, TypeOK, GraphsOK, durable, network
<1> QED
  BY <1>1, <1>2, <1>3, <1>4, <1>5 DEF Replay

(* So does a loss. *)
LEMMA LoseType ==
  ASSUME TypeOK, GraphsOK, Lose
  PROVE  TypeOK' /\ GraphsOK'
<1>1. faults' \in [FaultKind -> Nat]
  BY SpendType DEF Lose, TypeOK, FaultKind
<1> QED
  BY <1>1, SMTT(10), Z3T(30) DEF Lose, TypeOK, GraphsOK, durable, volatile

(* Every step keeps types and graphs. *)
LEMMA StepType ==
  ASSUME TypeOK, GraphsOK, [Next]_vars
  PROVE  TypeOK' /\ GraphsOK'
<1>1. CASE UNCHANGED vars
  BY <1>1, SMTT(10), Z3T(30) DEF vars, durable, volatile, network, TypeOK, GraphsOK
<1>2. CASE Next
  BY <1>2, SendType, ReceiveType, RequestType, ViewType, RestartType, LoseType
     DEF Next, Handler, Call
<1> QED
  BY <1>1, <1>2, ZenonT(30)

(* Every variable has its type in every reachable state. *)
THEOREM TypeCorrect == Spec => []TypeOK
<1>1. Init => TypeOK /\ GraphsOK
  BY InitType
<1>2. TypeOK /\ GraphsOK /\ [Next]_vars => (TypeOK /\ GraphsOK)'
  BY StepType
<1> QED
  BY <1>1, <1>2, PTL DEF Spec

(* CausallyClosed, with no assumption on the faults: not even a log that   *)
(* fails or a Send before the replay makes a graph with a hole.            *)
THEOREM GraphsCausallyClosed == Spec => []CausallyClosed
<1>1. Init => TypeOK /\ GraphsOK
  BY InitType
<1>2. TypeOK /\ GraphsOK /\ [Next]_vars => (TypeOK /\ GraphsOK)'
  BY StepType
<1>3. GraphsOK => CausallyClosed
  BY DEF GraphsOK, GraphOK, CausallyClosed
<1> QED
  BY <1>1, <1>2, <1>3, PTL DEF Spec
=============================================================================
