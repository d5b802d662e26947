---------------------------- MODULE MCSubstrate -----------------------------
(* Instances of Substrate for TLC. *)
EXTENDS Substrate, TLC

CONSTANTS a, b, j, k

AB == {a, b}
TwoKeys == {k, j}
ByName == a :> 1 @@ b :> 2

Put(key) == [op |-> "set", key |-> key]
Del(key) == [op |-> "delete", key |-> key]

Each(f) == Restrict(f @@ [r \in Replica |-> 0], Replica)
Say(f) == Restrict(f @@ [r \in Replica |-> <<>>], Replica)
None == Each(a :> 0)

Quiet ==
  [script |-> Say(a :> <<>>), heartbeats |-> None, acks |-> None, waits |-> None,
   cancels |-> None, snapshots |-> None, crashes |-> None, outages |-> None,
   failures |-> None, joiners |-> {}, batch |-> 1, calm |-> FALSE]

(* Callers of both members, one of which gives up, and a reader. *)
Calls == [Quiet EXCEPT !.script = Say(a :> <<Put(k), Put(k)>> @@ b :> <<Put(k)>>),
                       !.waits = Each(b :> 1), !.cancels = Each(a :> 1), !.batch = 2]

(* A tombstone that is swept while an older write is on its way. *)
Sweeps == [Quiet EXCEPT !.script = Say(b :> <<Del(k), Put(j)>> @@ a :> <<Put(k)>>),
                        !.acks = Each(a :> 1), !.snapshots = Each(b :> 1)]

(* Both members take snapshots and trim. *)
Trims == [Quiet EXCEPT !.script = Say(a :> <<Put(k), Put(k)>> @@ b :> <<Put(k)>>),
                       !.snapshots = Each(a :> 1 @@ b :> 1)]

(* b joins a, and may write too. *)
Joins == [Quiet EXCEPT !.script = Say(a :> <<Put(k), Del(k)>> @@ b :> <<Put(j)>>),
                       !.heartbeats = Each(a :> 1), !.joiners = {b}, !.batch = 2]

(* A snapshot cannot be written, and the next tick tries again. *)
Fails == [Quiet EXCEPT !.script = Say(a :> <<Put(k), Del(k)>>), !.snapshots = Each(a :> 2),
                       !.failures = Each(a :> 1), !.crashes = Each(a :> 1)]

(* A member that takes a snapshot and is restarted twice. *)
Crashes == [Quiet EXCEPT !.script = Say(a :> <<Put(k), Del(k)>> @@ b :> <<Put(k)>>),
                         !.snapshots = Each(a :> 1), !.crashes = Each(a :> 2)]

(* A tombstone is swept, and the first entry of the log is applied again. *)
SweepsAndCrashes == [Quiet EXCEPT !.script = Say(a :> <<Put(k), Del(k), Put(j)>>),
                                  !.acks = Each(b :> 1), !.snapshots = Each(a :> 2),
                                  !.crashes = Each(a :> 1), !.calm = TRUE]

(* A member loses its power, or crashes, after it trimmed its log. *)
TrimsAndCrashes == [Quiet EXCEPT !.script = Say(a :> <<Put(k), Put(k), Put(j)>>),
                                 !.snapshots = Each(a :> 1 @@ b :> 1),
                                 !.outages = Each(a :> 1), !.calm = TRUE]

All == {Calls, Sweeps, Crashes, Trims, Joins, Fails, SweepsAndCrashes, TrimsAndCrashes}
Trimming == {Trims}

-----------------------------------------------------------------------------
(* Some scenarios follow members that take a snapshot or stop only when    *)
(* they have nothing else to do, and stop only after their last snapshot.  *)
Calm ==
  \A r \in Replica :
    budget.calm /\ (\E f \in {"snapshots", "crashes", "outages"} : budget'[f][r] # budget[f][r])
      => /\ Idle(r) /\ sub[r].snapper.pc = "idle"
         /\ \A t \in Loops : call[r][t].pc \notin {"sent", "waiting"}
         /\ budget'.snapshots = budget.snapshots => budget.snapshots[r] = 0

(* A member with no snapshot, crash, reader or cancellation left: its apply *)
(* pump touches nothing another step reads, except that it may enable an    *)
(* ack, so it can go first.  So it does in the calm scenarios.              *)
Prompt(r) ==
  /\ sub[r].up
  /\ sub[r].replay = <<>>
  /\ sub[r].snapper.pc = "idle" \/ (budget.calm /\ sub[r].snapper.pc # "write")
  /\ budget.calm \/ \A f \in {"snapshots", "crashes", "outages", "waits", "cancels"} : budget[f][r] = 0
  /\ wait[r].pc \notin {"checked", "waiting"}
  /\ sub[r].queue # <<>> \/ sub[r].pump # Nothing \/ sub[r].snapper.pc # "idle"

(* Where nobody cancels or reads, a call ends in the same way whether it is *)
(* registered before or after the message is applied.                       *)
Registers(r) ==
  /\ \A q \in Replica : budget.cancels[q] = 0 /\ budget.waits[q] = 0 /\ wait[q] = NoCall
  /\ \A t \in Loops : call[r][t].pc # "cancelled"
  /\ \E t \in Loops : call[r][t].pc = "sent"

PumpFirst ==
  /\ (\E r \in Replica : Registers(r)) =>
       LET r == CHOOSE q \in Replica : Registers(q) IN
       call'[r] # call[r] /\ seen' = seen /\ budget' = budget /\ sub'[r].pump = sub[r].pump
  /\ (\E r \in Replica : Prompt(r)) /\ (\A r \in Replica : ~Registers(r)) =>
       LET r == CHOOSE q \in Replica : Prompt(q) IN
       seen' = seen /\ budget' = budget /\ sub'[r] # sub[r]
=============================================================================
