------------------------------ MODULE Pipeline ------------------------------
(***************************************************************************)
(* How one member's goroutines wait for each other.  The genserver pushes  *)
(* to the bounded deliver channel from inside its handlers; the pump of an *)
(* order layer, or of the membership manager, reads that channel.  Some of *)
(* these readers Call the genserver, which answers between two handlers:   *)
(* total order to learn about waves, the manager to freeze and to add a    *)
(* member.  An order layer pushes to the bounded apply channel, which the  *)
(* substrate reads.  Envelopes are counted, not named: what matters is who *)
(* is blocked.                                                             *)
(***************************************************************************)
EXTENDS Integers

CONSTANTS
  DeliverCap,    \* capacity of the deliver channel (DeliveryBufSize, 256)
  ApplyCap,      \* capacity of the apply channel (256)
  Incoming,      \* envelopes that come in from the network
  Submits,       \* Send calls of the application
  Replayed,      \* envelopes ReplayLog's goroutine has to push
  Layers         \* readers of the deliver channel to choose from

Total == Incoming + Submits + Replayed

Callers == {"total", "manager"}
Layer == {"partial", "semantic"} \cup Callers

ASSUME PipelineAssumption ==
  /\ DeliverCap \in Nat \ {0} /\ ApplyCap \in Nat \ {0}
  /\ Incoming \in Nat /\ Submits \in Nat /\ Replayed \in Nat
  /\ Layers \subseteq Layer

VARIABLES
  layer,         \* who reads the deliver channel
  casts,         \* incoming envelopes the genserver has not handled
  sends,         \* Send calls waiting for the genserver
  waiting,       \* envelopes deferred for missing parents
  owed,          \* what the handler in progress has still to push; 0: none in progress
  replay,        \* replayed envelopes not pushed yet
  deliver,       \* envelopes in the deliver channel
  pump,          \* "recv"; Calls "wave", "gate", "fetch", "member"; "emit"
  read,          \* envelopes the pump has read
  emitting,      \* envelopes being emitted
  apply,         \* envelopes in the apply channel
  applied        \* envelopes handed to the state machine or handled by the manager

vars == <<layer, casts, sends, waiting, owed, replay, deliver, pump, read, emitting, apply, applied>>

Init ==
  /\ layer \in Layers
  /\ casts = Incoming /\ sends = Submits /\ replay = Replayed
  /\ waiting = 0 /\ owed = 0 /\ deliver = 0
  /\ pump = "recv" /\ read = 0 /\ emitting = 0
  /\ apply = 0 /\ applied = 0

-----------------------------------------------------------------------------
(* The genserver *)

Free == owed = 0

(* handleEnvelope: deferred, or pushed with those it wakes. *)
HandleCast ==
  /\ Free /\ casts > 0
  /\ casts' = casts - 1
  /\ \E n \in 0..(waiting + 1) : owed' = n /\ waiting' = waiting + 1 - n
  /\ UNCHANGED <<layer, sends, replay, deliver, pump, read, emitting, apply, applied>>

HandleSend ==
  /\ Free /\ sends > 0
  /\ sends' = sends - 1
  /\ owed' = 1
  /\ UNCHANGED <<layer, casts, waiting, replay, deliver, pump, read, emitting, apply, applied>>

Room == deliver < DeliverCap

(* s.deliver <- Delivery{...}, in the handler. *)
PushDelivery ==
  /\ owed > 0 /\ Room
  /\ owed' = owed - 1
  /\ deliver' = deliver + 1
  /\ UNCHANGED <<layer, casts, sends, waiting, replay, pump, read, emitting, apply, applied>>

(* The goroutine of ReplayLog pushes outside the genserver. *)
PushReplayed ==
  /\ replay > 0 /\ Room
  /\ replay' = replay - 1
  /\ deliver' = deliver + 1
  /\ UNCHANGED <<layer, casts, sends, waiting, owed, pump, read, emitting, apply, applied>>

-----------------------------------------------------------------------------
(* The pump that reads the deliver channel *)

(* Partial order passes an envelope on; semantic order emits what is due,  *)
(* of all it has read; total order asks whether a wave is; the manager     *)
(* handles the frame, which may end in FreezeMember or AddMember.          *)
Receive ==
  /\ pump = "recv" /\ deliver > 0
  /\ deliver' = deliver - 1
  /\ read' = read + 1
  /\ \/ layer = "partial" /\ pump' = "emit" /\ emitting' = 1 /\ UNCHANGED applied
     \/ layer = "semantic" /\ pump' = "emit" /\ UNCHANGED applied
        /\ emitting' \in 0..(read + 1 - apply - applied)
     \/ layer = "total" /\ pump' = "wave" /\ UNCHANGED <<emitting, applied>>
     \/ layer = "manager" /\ pump' \in {"recv", "member"}
        /\ applied' = applied + 1 /\ UNCHANGED emitting
  /\ UNCHANGED <<layer, casts, sends, waiting, owed, replay, apply>>

(* Nodes of the graph that no emitted wave held: the waves come from the   *)
(* graph, where an envelope is a node before it is pushed.                 *)
Unemitted == Total - casts - sends - waiting - emitting - apply - applied

(* WaveComplete, then Membership for the continuation gate, either of      *)
(* which may end the loop; then MessagesInWave.  Or FreezeMember, AddMember.*)
Answer ==
  /\ Free
  /\ \/ pump = "wave" /\ pump' \in {"recv"} \cup {p \in {"gate"} : Unemitted > 0}
        /\ UNCHANGED emitting
     \/ pump = "gate" /\ pump' \in {"fetch", "recv"} /\ UNCHANGED emitting
     \/ pump = "fetch" /\ pump' = "emit" /\ emitting' \in 1..Unemitted
     \/ pump = "member" /\ pump' = "recv" /\ UNCHANGED emitting
  /\ UNCHANGED <<layer, casts, sends, waiting, owed, replay, deliver, read, apply, applied>>

Emit ==
  /\ pump = "emit" /\ emitting > 0 /\ apply < ApplyCap
  /\ emitting' = emitting - 1
  /\ apply' = apply + 1
  /\ UNCHANGED <<layer, casts, sends, waiting, owed, replay, deliver, pump, read, applied>>

(* Mutant: a layer asks for the next wave whichever it is. *)
EmittedAsks ==
  /\ pump = "emit" /\ emitting = 0
  /\ pump' = "wave"
  /\ UNCHANGED <<layer, casts, sends, waiting, owed, replay, deliver, read, emitting, apply, applied>>

(* Mutant: the pump returns when it has emitted. *)
EmittedReturns ==
  /\ pump = "emit" /\ emitting = 0
  /\ pump' = "done"
  /\ UNCHANGED <<layer, casts, sends, waiting, owed, replay, deliver, read, emitting, apply, applied>>

Emitted ==
  /\ pump = "emit" /\ emitting = 0
  /\ pump' = IF layer = "total" THEN "wave" ELSE "recv"
  /\ UNCHANGED <<layer, casts, sends, waiting, owed, replay, deliver, read, emitting, apply, applied>>

(* The substrate's applyPump. *)
Apply ==
  /\ apply > 0
  /\ apply' = apply - 1
  /\ applied' = applied + 1
  /\ UNCHANGED <<layer, casts, sends, waiting, owed, replay, deliver, pump, read, emitting>>

-----------------------------------------------------------------------------
Genserver == HandleCast \/ HandleSend \/ PushDelivery \/ Answer
Pump == Receive \/ Emit \/ Emitted

Next == Genserver \/ PushReplayed \/ Pump \/ Apply

Spec == Init /\ [][Next]_vars

(* Every goroutine that can go on does. *)
Fairness ==
  /\ WF_vars(Genserver) /\ WF_vars(PushReplayed)
  /\ WF_vars(Pump) /\ WF_vars(Apply)

FairSpec == Spec /\ Fairness

-----------------------------------------------------------------------------
Asked == pump \in {"wave", "gate", "fetch", "member"}

(* The types of the variables; no channel holds more than it can. *)
PipelineTypeOK ==
  /\ layer \in Layers
  /\ casts \in Nat /\ sends \in Nat /\ waiting \in Nat /\ owed \in Nat /\ replay \in Nat
  /\ deliver \in 0..DeliverCap /\ apply \in 0..ApplyCap
  /\ pump \in {"recv", "wave", "gate", "fetch", "member", "emit"}
  /\ read \in Nat /\ emitting \in Nat /\ applied \in Nat

(* No goroutine can go on: each is idle, or blocked on a channel or a Call. *)
Stuck ==
  /\ Free => casts = 0 /\ sends = 0 /\ ~Asked
  /\ Room => owed = 0 /\ replay = 0
  /\ pump = "recv" => deliver = 0
  /\ pump = "emit" => emitting > 0 /\ apply = ApplyCap
  /\ apply = 0

(* The genserver waits for room in the deliver channel, and the reader of  *)
(* the channel for the genserver.                                          *)
Wedged == owed > 0 /\ ~Room /\ Asked

Drained ==
  /\ casts = 0 /\ sends = 0 /\ owed = 0 /\ replay = 0
  /\ deliver = 0 /\ emitting = 0 /\ apply = 0

(* However small the channels are for the traffic, the goroutines come to  *)
(* rest only when nothing is left to do, every envelope that is not        *)
(* deferred having been applied where each one is passed on as it comes.   *)
(* The one exception is the reader that Calls the genserver from its loop  *)
(* (total.go:122, voteout.go:241, votein.go:228), which can wedge with it. *)
RestsOnlyWhenDone ==
  Stuck => \/ Drained /\ (layer \in {"partial", "manager"} => applied + waiting = Total)
           \/ layer \in Callers /\ Wedged

(* Behind an order layer that does not Call the genserver everything that  *)
(* came in, was sent or was replayed gets through: the genserver blocks on *)
(* a full deliver channel (conversation.go:840) only for a while.          *)
Drains == layer \notin Callers ~> Drained
=============================================================================
