----------------------------- MODULE TotalOrder -----------------------------
(***************************************************************************)
(* The Total order layer (order/total.go) on top of a conversation.  Its   *)
(* pump is a goroutine of its own that reads the deliver channel, and asks *)
(* the genserver about waves by calls that interleave with everything else *)
(* the genserver does.                                                     *)
(***************************************************************************)
EXTENDS Psync

CONSTANTS
  Rank,                 \* Rank[r]: position of r's id in byte order
  InsertionSortLimit    \* longest slice sort.Slice sorts by insertion, stably

ASSUME RankAssumption ==
  /\ Rank \in [Replica -> Nat]
  /\ \A q, r \in Replica : Rank[q] = Rank[r] => q = r
  /\ InsertionSortLimit \in Nat

VARIABLES
  pump,          \* pump[r]: "recv", "check" the next wave, "emit" it
  consumed,      \* consumed[r]: deliveries read from deliver[r]
  nextWave,      \* nextWave[r]: the first wave not emitted
  latestWave,    \* latestWave[r][q]: highest wave read from q, 0 if none
  apply          \* apply[r]: what was pushed to the apply channel

orderVars == <<pump, consumed, nextWave, latestWave, apply>>
totalVars == <<vars, orderVars>>

TotalInit ==
  /\ Init
  /\ pump = [r \in Replica |-> "recv"]
  /\ consumed = [r \in Replica |-> 0]
  /\ nextWave = [r \in Replica |-> 1]
  /\ latestWave = [r \in Replica |-> ZeroVector]
  /\ apply = [r \in Replica |-> <<>>]

(* pump reads a delivery and notes its wave. *)
Observe(r) ==
  /\ pump[r] = "recv"
  /\ consumed[r] < Len(deliver[r])
  /\ LET e == deliver[r][consumed[r] + 1]
         seen == latestWave[r][e.sender]
     IN  latestWave' = [latestWave EXCEPT ![r][e.sender] = Max({seen, WaveOf(e)})]
  /\ consumed' = [consumed EXCEPT ![r] = @ + 1]
  /\ pump' = [pump EXCEPT ![r] = "check"]
  /\ UNCHANGED <<vars, nextWave, apply>>

(* Mutant: having heard from the wave itself is enough. *)
ContinuationInclusive(r, w) == \A q \in Replica \ frozen[r] : latestWave[r][q] >= w

(* Every active member has been heard from past wave w. *)
ContinuationProperty(r, w) == \A q \in Replica \ frozen[r] : latestWave[r][q] > w

(* The condition of drainCompleteWaves is two Calls, WaveComplete and      *)
(* Membership.  They are one step: a complete wave stays complete while    *)
(* the second is waited for, and latestWave is the pump's own.             *)
CheckWave(r) ==
  /\ pump[r] = "check"
  /\ Idle(r)
  /\ pump' = [pump EXCEPT ![r] =
                IF /\ WaveComplete(graph[r], frozen[r], nextWave[r])
                   /\ ContinuationProperty(r, nextWave[r])
                THEN "emit" ELSE "recv"]
  /\ UNCHANGED <<vars, consumed, nextWave, latestWave, apply>>

BySender(e, f) == Rank[e.sender] < Rank[f.sender]

(* Mutant: the envelopes are left as they come. *)
WaveOrdersUnsorted(envs) == Injection(1..Cardinality(envs), envs)

(* The orders sort.Slice may leave the envelopes of a wave in: by sender,  *)
(* and for one sender as inserted when the slice is short.  The sort is    *)
(* not stable, so a long slice may come back in any order within a sender. *)
WaveOrders(envs) ==
  LET short == Cardinality(envs) <= InsertionSortLimit
      asInserted(e, f) == e.sender = f.sender /\ SenderSeq(e) < SenderSeq(f)
  IN  {s \in Injection(1..Cardinality(envs), envs) : \A i, j \in DOMAIN s :
         BySender(s[i], s[j]) \/ (short /\ asInserted(s[i], s[j])) => i < j}

EmitWave(r) ==
  /\ pump[r] = "emit"
  /\ Idle(r)
  /\ \E s \in WaveOrders(MessagesInWave(graph[r], nextWave[r])) :
       apply' = [apply EXCEPT ![r] = @ \o s]
  /\ nextWave' = [nextWave EXCEPT ![r] = @ + 1]
  /\ pump' = [pump EXCEPT ![r] = "check"]
  /\ UNCHANGED <<vars, consumed, latestWave>>

(* A crash takes the order layer with it. *)
CrashTotal(r) ==
  /\ Crash(r)
  /\ pump' = [pump EXCEPT ![r] = "recv"]
  /\ consumed' = [consumed EXCEPT ![r] = 0]
  /\ nextWave' = [nextWave EXCEPT ![r] = 1]
  /\ latestWave' = [latestWave EXCEPT ![r] = ZeroVector]
  /\ apply' = [apply EXCEPT ![r] = <<>>]

Conversation(r) == (Handler(r) \/ Replay(r) \/ Call(r)) /\ UNCHANGED orderVars
Pump(r) == Observe(r) \/ CheckWave(r) \/ EmitWave(r)

TotalNext ==
  \/ Lose /\ UNCHANGED orderVars
  \/ \E r \in Replica : Conversation(r) \/ Pump(r) \/ CrashTotal(r)

TotalSpec == TotalInit /\ [][TotalNext]_totalVars

-----------------------------------------------------------------------------
(* What the order layer promises *)

(* The types of the order layer's variables. *)
TotalTypeOK ==
  /\ pump \in [Replica -> {"recv", "check", "emit"}]
  /\ consumed \in [Replica -> Nat]
  /\ nextWave \in [Replica -> Nat \ {0}]
  /\ latestWave \in [Replica -> Vector]
  /\ apply \in [Replica -> Seq(Envelope)]

(* Every replica sees the same sequence: what two members have applied,    *)
(* each at its own pace, never differs but in length.                      *)
Agreement ==
  \A q, r \in Replica : \A i \in DOMAIN apply[q] \cap DOMAIN apply[r] :
    apply[q][i] = apply[r][i]

(* A wave is emitted whole: no message of an emitted wave is still on its  *)
(* way to the member, or will ever be sent (total.go:50, "stranding it     *)
(* forever").                                                              *)
NothingStranded ==
  \A r \in Replica : \A e \in Issued :
    WaveOf(e) < nextWave[r] => e \in Range(apply[r])

(* Messages of one sender are applied in the order they were sent. *)
SenderOrder ==
  \A r \in Replica : \A i, j \in DOMAIN apply[r] :
    (apply[r][i].sender = apply[r][j].sender /\ i < j) =>
      SenderSeq(apply[r][i]) < SenderSeq(apply[r][j])

(* A message is applied after every message that happens before it.  This  *)
(* does not hold: see the README.                                          *)
CausalApply ==
  \A r \in Replica : \A i, j \in DOMAIN apply[r] :
    HappensBefore(apply[r][i].vc, apply[r][j].vc) => i < j
=============================================================================
