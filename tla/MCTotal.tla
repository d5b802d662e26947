------------------------------ MODULE MCTotal -------------------------------
(* The instance of TotalOrder for TLC.                                     *)
EXTENDS TotalOrder, TLC

CONSTANTS a, b

AB == {a, b}
AFirst == a :> 1 @@ b :> 2

ThreeThree == a :> 3 @@ b :> 3

NoFaults == [k \in FaultKind |-> 0]
CrashesAndLoss == [NoFaults EXCEPT !["crash"] = 2, !["loss"] = 1]

\* The behaviours in which the order layer keeps up with the deliver channel.
KeepsUp == \A r \in Replica : Len(deliver[r]) - consumed[r] <= 1

\* Of those, the ones with one kind of fault, and fewer messages the more
\* faults there are: two of a's and one of b's with one, the least for a wave to
\* be emitted, and two in all with two crashes.  Without a fault there are four,
\* and six when b has a's second message before its own first: then b's first
\* two are of one wave.
FewFaults ==
  LET sends == Len(sent[a]) + Len(sent[b])
      failures == faults["loss"] + faults["crash"]
  IN  /\ KeepsUp
      /\ sends > 4 \/ Len(sent[b]) = 3 => sent[b][1].vc[a] = 2
      /\ failures >= 1 => Len(sent[a]) <= 2 /\ Len(sent[b]) <= 1
      /\ failures = 2 => sends <= 2 /\ faults["loss"] = 0
      /\ failures <= 2
=============================================================================
