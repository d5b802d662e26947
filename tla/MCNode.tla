------------------------------- MODULE MCNode -------------------------------
(* Instances of Node for TLC.                                              *)
EXTENDS Node, TLC

CONSTANTS a, b, p, x, y, sys, w1

Members == {a, b}
WatchersAt == w1 :> a
Frames == {[n |-> 1, conv |-> sys, cluster |-> "ours"],
           [n |-> 2, conv |-> sys, cluster |-> "ours"],
           [n |-> 3, conv |-> sys, cluster |-> "theirs"]}

\* One plan per part, so that the parts do not multiply each other's states.
NoPlan == [routes |-> p :> x, calls |-> {}, moves |-> 0, frames |-> {},
          todo |-> [r \in Members |-> <<>>], watchers |-> {}, callers |-> {}, closes |-> TRUE]
Reg(n) == [kind |-> "register", name |-> n]
Unreg(n) == [kind |-> "unregister", name |-> n]
Todo(ofA, ofB) == a :> ofA @@ b :> ofB

\* Three Sends to a peer whose route changes twice; frames of two clusters;
\* concurrent registrations; a name unregistered that may not be there; a
\* registrant faster than its channels; writers.
Routing == [NoPlan EXCEPT !.calls = 1..3, !.moves = 2]
Receiving == [NoPlan EXCEPT !.calls = {1}, !.frames = Frames]
Registering == [NoPlan EXCEPT !.todo = Todo(<<Reg("n"), Unreg("n")>>, <<Reg("n")>>), !.watchers = {w1}, !.closes = FALSE]
Unregistering == [NoPlan EXCEPT !.todo = Todo(<<Unreg("n")>>, <<Reg("n")>>), !.watchers = {w1}, !.closes = FALSE]
Busy == [NoPlan EXCEPT !.todo = Todo(<<Reg("n"), Reg("n"), Reg("n")>>, <<>>), !.watchers = {w1}]
Writing == [NoPlan EXCEPT !.callers = 1..3]

EachPart == {Routing, Receiving, Registering, Unregistering, Busy, Writing}
=============================================================================
