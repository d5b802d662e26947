-------------------------- MODULE PsyncRefinement ---------------------------
(* Psync, as long as no member crashes, implements CausalBroadcast.        *)
EXTENDS Psync

(* The causal past of a message is what its vector clock says it is. *)
Before(e) == {Id(f) : f \in {g \in Issued : HappensBefore(g.vc, e.vc)}}

AbstractPast ==
  [id \in {Id(e) : e \in Issued} |-> Before(CHOOSE e \in Issued : Id(e) = id)]

AbstractSeen ==
  [r \in Replica |-> [i \in DOMAIN deliver[r] |-> Id(deliver[r][i])]]

CB == INSTANCE CausalBroadcast WITH past <- AbstractPast, seen <- AbstractSeen

(* Every Send is an Issue whose causal past, read off its vector clock, is *)
(* exactly what the sender had delivered, and every envelope accepted from *)
(* the network, directly or after a deferral, is a Deliver.                *)
ImplementsCausalBroadcast == CB!Spec
=============================================================================
