---------------------------- MODULE MCDirectory -----------------------------
(* Instances of Directory for TLC.                                         *)
EXTENDS Directory

CONSTANTS a, b, c

AB == {a, b}
ABC == {a, b, c}
ByName == Restrict(a :> 1 @@ b :> 2 @@ c :> 3, Replica)

Operations == {"ins", "upd", "beat"}
\* The directory's own classifier looks for a command and finds a frame: class 0.
\* Another one looks into the frame and lets inserts fire eagerly.
Malformed == [f \in ConvFrames |-> 0]
InsertsCommute == [f \in ConvFrames |-> IF f.body = "beat" THEN 0 ELSE IF f.body = "ins" THEN 1 ELSE 2]
Both == {Malformed, InsertsCommute}
Mixed == {InsertsCommute}

Script(ofA, ofB, ofC) == Restrict(a :> ofA @@ b :> ofB @@ c :> ofC, Replica)
TwoMembers == {Script(<<"ins", "upd", "beat">>, <<"upd", "ins", "beat">>, <<>>),
               Script(<<"upd", "upd", "ins", "ins">>, <<"ins", "beat">>, <<>>)}

\* Pumps go first.  A pump reads only the messages delivered before it ran and
\* writes only what is its own, so a behaviour in which it lags is one in which
\* the later deliveries and sends of its member come later.
Lagging == {r \in Replica : pump[r] # "recv" \/ consumed[r] < Len(seen[r])}
PumpFirst == Lagging # {} => UNCHANGED vars
=============================================================================
