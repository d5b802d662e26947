-------------------------- MODULE CausalBroadcast ---------------------------
(***************************************************************************)
(* What psync promises to the layers above it, with no vector clock, no    *)
(* graph and no network: a message is issued with a causal past, all its   *)
(* issuer has seen so far, and a member sees it once, after that past.     *)
(***************************************************************************)
EXTENDS Naturals, Sequences, Functions

CONSTANT Replica

VARIABLES
  past,      \* past[id]: the messages that happen before message id
  seen       \* seen[r]: the messages member r has delivered, in order

vars == <<past, seen>>

Issued == DOMAIN past

Init == /\ past = [id \in {} |-> {}]
        /\ seen = [r \in Replica |-> <<>>]

See(r, id) == seen' = [seen EXCEPT ![r] = Append(@, id)]

Issue(r) ==
  \E n \in 1..(Len(seen[r]) + 1) :
    /\ <<r, n>> \notin Issued
    /\ \A k \in 1..(n - 1) : <<r, k>> \in Range(seen[r])
    /\ past' = [id \in Issued \cup {<<r, n>>} |->
                  IF id = <<r, n>> THEN Range(seen[r]) ELSE past[id]]
    /\ See(r, <<r, n>>)

Deliver(r) ==
  \E id \in Issued \ Range(seen[r]) :
    /\ past[id] \subseteq Range(seen[r])
    /\ See(r, id)
    /\ UNCHANGED past

Next == \E r \in Replica : Issue(r) \/ Deliver(r)

Spec == Init /\ [][Next]_vars
=============================================================================
