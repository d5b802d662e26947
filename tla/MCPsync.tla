------------------------------ MODULE MCPsync -------------------------------
(* Instances of Psync for TLC.                                             *)
EXTENDS PsyncRefinement, TLC

CONSTANTS a, b, c

AB == {a, b}
ABC == {a, b, c}

\* Calls of Send: one each; one writes on.
OneEach == [r \in Replica |-> 1]
TwoOne == a :> 2 @@ b :> 1

NoFaults == [k \in FaultKind |-> 0]
OneLoss == [NoFaults EXCEPT !["loss"] = 1]
CrashAndEarlySend == [NoFaults EXCEPT !["crash"] = 1, !["earlySend"] = 1]
OneOfEach == [k \in FaultKind |-> 1]
=============================================================================
