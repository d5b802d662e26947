---------------------------- MODULE ContextGraph ----------------------------
(***************************************************************************)
(* The data a conversation is built from: vector clocks (psync/vector.go), *)
(* the context graph (psync/graph.go) and stability (psync/stability.go).  *)
(*                                                                         *)
(* The membership of the conversation is fixed here, so a slot is named by *)
(* the replica that owns it and every vector clock has one entry for each  *)
(* member.  An envelope is its sender and its vector clock; the payload is *)
(* never looked at by these layers.  A graph is the set of its envelopes:  *)
(* parents and children are functions of the vector clocks.                *)
(***************************************************************************)
EXTENDS Integers, FiniteSets, FiniteSetsExt

CONSTANT Replica      \* the members of the conversation

ASSUME ReplicaAssumption == Replica # {} /\ IsFiniteSet(Replica)

Vector == [Replica -> Nat]
Envelope == {e \in [sender : Replica, vc : Vector] : e.vc[e.sender] > 0}
MessageId == Replica \X Nat

ZeroVector == [q \in Replica |-> 0]

(* A message is known by its sender and the sender's own vector entry. *)
SenderSeq(e) == e.vc[e.sender]
Id(e) == <<e.sender, SenderSeq(e)>>

-----------------------------------------------------------------------------
(* Vector clocks *)

(* a is nowhere behind b. *)
Covers(a, b) == \A q \in Replica : a[q] >= b[q]

Dominates(a, b) == Covers(a, b) /\ \E q \in Replica : a[q] > b[q]
HappensBefore(a, b) == Dominates(b, a)

(* Mutant: the sender's own entry is not counted up. *)
IncrementForgotten(v, r) == v

Increment(v, r) == [v EXCEPT ![r] = @ + 1]

-----------------------------------------------------------------------------
(* The graph *)

Has(g, id) == \E e \in g : Id(e) = id
FromSender(g, q) == {e \in g : e.sender = q}
LatestSeq(g, q) == Max({0} \cup {SenderSeq(e) : e \in FromSender(g, q)})
Latest(g) == {e \in g : SenderSeq(e) = LatestSeq(g, e.sender)}

(* Mutant: off by one for the other senders too. *)
RequiredSeqOffByOne(e, q) == e.vc[q] - 1

(* The entry of slot q that envelope e needs in the graph before itself:   *)
(* the sender's previous message, everybody else's message e had seen.     *)
RequiredSeq(e, q) == IF q = e.sender THEN e.vc[q] - 1 ELSE e.vc[q]
Parents(e) == {id \in {<<q, RequiredSeq(e, q)>> : q \in Replica} : id[2] > 0}

(* Mutant: only the sender's own previous message is looked for. *)
MissingFifo(g, e) == {id \in Parents(e) : id[1] = e.sender /\ ~Has(g, id)}

(* Insert returns the missing parents; with none missing e becomes a node. *)
Missing(g, e) == {id \in Parents(e) : ~Has(g, id)}

(* Every message e has seen, by its clock, is a node too. *)
HasPast(g, e) == \A q \in Replica : \A k \in 1..e.vc[q] : Has(g, <<q, k>>)

(* The clock a replica stamps its next message from. *)
CurrentView(g) ==
  [q \in Replica |-> Max({0} \cup {e.vc[q] : e \in Latest(g)})]

WaveOf(e) == Max({e.vc[q] : q \in Replica})
MessagesInWave(g, w) == {e \in g : WaveOf(e) = w}

-----------------------------------------------------------------------------
(* Stability: every other active member's latest message acknowledges e.   *)

(* Mutant: off by one. *)
IsStableOffByOne(g, frozen, e) ==
  \A q \in Replica \ (frozen \cup {e.sender}) :
    \E f \in Latest(g) : f.sender = q /\ f.vc[e.sender] >= SenderSeq(e) - 1

IsStable(g, frozen, e) ==
  \A q \in Replica \ (frozen \cup {e.sender}) :
    \E f \in Latest(g) : f.sender = q /\ f.vc[e.sender] >= SenderSeq(e)

WaveComplete(g, frozen, w) == \E e \in MessagesInWave(g, w) : IsStable(g, frozen, e)
=============================================================================
