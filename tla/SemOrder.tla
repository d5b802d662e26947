------------------------------ MODULE SemOrder ------------------------------
(***************************************************************************)
(* The semantic order layer (order/semorder.go), on top of what psync      *)
(* promises (CausalBroadcast): class 1 operations are applied as soon as   *)
(* their predecessors are, all others wave by wave.  The layer reads its   *)
(* own deliver channel and calls nobody, so its maps are functions of the  *)
(* messages it has read and of those it has applied: messagesByWave and    *)
(* latestVector of the former, executed of the latter.                     *)
(*                                                                         *)
(* Its membership is a copy taken when it is built, so a member frozen     *)
(* later stays active for it.                                              *)
(***************************************************************************)
EXTENDS CausalBroadcast, FiniteSets, SequencesExt

CONSTANTS
  Payload,       \* what the members send: operations and heartbeats
  Classifiers,   \* classifiers: functions from frames to classes
  Scripts,       \* scripts: what each member submits, in order
  Rank           \* Rank[r]: position of r's id in byte order

(* An envelope carries the payload wrapped in a frame.  The Substrate      *)
(* unwraps it above the order layer: the classifier meets the frame.       *)
ConvFrame(p) == [body |-> p]
ConvFrames == {ConvFrame(p) : p \in Payload}

ASSUME SemAssumption ==
  /\ \A f \in Classifiers : f \in [ConvFrames -> Nat]
  /\ \A s \in Scripts : s \in [Replica -> Seq(Payload)]
  /\ Rank \in [Replica -> Nat]
  /\ \A q, r \in Replica : Rank[q] = Rank[r] => q = r

VARIABLES
  classifier,    \* the classifier all members are configured with
  script,        \* the script the members follow
  pump,          \* pump[r]: "recv", "eager", "wave", "eagerAgain"
  consumed,      \* consumed[r]: deliveries read from the deliver channel
  currentWave,   \* currentWave[r]: the wave whose strict operations are due
  apply          \* apply[r]: what was pushed to the apply channel

pumpVars == <<pump, consumed, currentWave, apply>>
config == <<classifier, script>>
semVars == <<vars, config, pumpVars>>

PayloadOf(id) == script[id[1]][id[2]]

(* The vector clock and the wave of a message, read off its past. *)
Vc(id) ==
  [q \in Replica |-> Max({0} \cup {m[2] : m \in {n \in past[id] \cup {id} : n[1] = q}})]
WaveOf(id) == Max({Vc(id)[q] : q \in Replica})

Read(r) == {seen[r][i] : i \in 1..consumed[r]}
Executed(r) == Range(apply[r])
IsClass1(id) == classifier[ConvFrame(PayloadOf(id))] = 1
InWave(r, w) == {id \in Read(r) : WaveOf(id) = w}

(* latestVector: the last message read from each member. *)
Heard(r, q) == \E id \in Read(r) : id[1] = q
LatestVector(r, q) == Vc(<<q, Max({id[2] : id \in {m \in Read(r) : m[1] = q}})>>)
LatestWave(r, q) == Max({LatestVector(r, q)[p] : p \in Replica})

SemInit ==
  /\ Init
  /\ classifier \in Classifiers
  /\ script \in Scripts
  /\ pump = [r \in Replica |-> "recv"]
  /\ consumed = [r \in Replica |-> 0]
  /\ currentWave = [r \in Replica |-> 1]
  /\ apply = [r \in Replica |-> <<>>]

-----------------------------------------------------------------------------
(* pump reads a delivery.  A message is delivered once, so the check for   *)
(* duplicates of observe never strikes.                                    *)
Observe(r) ==
  /\ pump[r] = "recv"
  /\ consumed[r] < Len(seen[r])
  /\ consumed' = [consumed EXCEPT ![r] = @ + 1]
  /\ pump' = [pump EXCEPT ![r] = "eager"]
  /\ UNCHANGED <<vars, config, currentWave, apply>>

(* Mutant: only the sender's own previous message is looked for. *)
PredecessorsExecutedFifo(r, id) == id[2] > 1 => <<id[1], id[2] - 1>> \in Executed(r)

(* The sender's previous message, and the latest one it had seen of each   *)
(* other member, have been applied.                                        *)
PredecessorsExecuted(r, id) ==
  \A q \in Replica :
    LET need == IF q = id[1] THEN id[2] - 1 ELSE Vc(id)[q]
    IN  need > 0 => <<q, need>> \in Executed(r)

Ready(r) ==
  {id \in Read(r) \ Executed(r) : IsClass1(id) /\ PredecessorsExecuted(r, id)}

(* tryEagerExecutions: one class 1 operation after another until none is   *)
(* ready.  The waves are walked in the order of a Go map, so any ready one *)
(* may be next.  deferredEager is never filled.                            *)
ApplyEager(r) ==
  /\ pump[r] \in {"eager", "eagerAgain"}
  /\ \E id \in Ready(r) : apply' = [apply EXCEPT ![r] = Append(@, id)]
  /\ UNCHANGED <<vars, config, pump, consumed, currentWave>>

EagerDone(r) ==
  /\ pump[r] = "eager"
  /\ Ready(r) = {}
  /\ pump' = [pump EXCEPT ![r] = "wave"]
  /\ UNCHANGED <<vars, config, consumed, currentWave, apply>>

-----------------------------------------------------------------------------
(* advanceWave *)

IsMessageStable(r, id) ==
  \A q \in Replica \ {id[1]} : Heard(r, q) /\ LatestVector(r, q)[id[1]] >= id[2]

WaveComplete(r, w) == \E id \in InWave(r, w) : IsMessageStable(r, id)

(* Mutant: the earlier version, hearing from the wave itself is enough. *)
ContinuationInclusive(r) ==
  \A q \in Replica : Heard(r, q) /\ LatestWave(r, q) >= currentWave[r]

ContinuationProperty(r) ==
  \A q \in Replica : Heard(r, q) /\ LatestWave(r, q) > currentWave[r]

(* Mutant: the operations of a wave in the order they were read. *)
BySenderAsRead(r, ids) == SelectSeq(SubSeq(seen[r], 1, consumed[r]), LAMBDA id : id \in ids)

(* The operations of a wave sorted by the id of their sender; those of one *)
(* sender stay as read, which is in the order sent (sort.Slice sorts up to *)
(* 12 elements by insertion).                                              *)
BySender(r, ids) ==
  SetToSortSeq(ids, LAMBDA x, y : Rank[x[1]] < Rank[y[1]] \/ (x[1] = y[1] /\ x[2] < y[2]))

Due(r) == {id \in InWave(r, currentWave[r]) \ Executed(r) : ~IsClass1(id)}

ApplyWave(r) ==
  /\ pump[r] = "wave"
  /\ WaveComplete(r, currentWave[r])
  /\ ContinuationProperty(r)
  /\ apply' = [apply EXCEPT ![r] = @ \o BySender(r, Due(r))]
  /\ pump' = [pump EXCEPT ![r] = "eagerAgain"]
  /\ UNCHANGED <<vars, config, consumed, currentWave>>

WaveNotDue(r) ==
  /\ pump[r] = "wave"
  /\ ~(WaveComplete(r, currentWave[r]) /\ ContinuationProperty(r))
  /\ pump' = [pump EXCEPT ![r] = "recv"]
  /\ UNCHANGED <<vars, config, consumed, currentWave, apply>>

(* findNextStrictWave: the waves from start on with a strict operation     *)
(* among the messages read so far.                                         *)
StrictWaves(r, start) ==
  {WaveOf(id) : id \in {m \in Read(r) : ~IsClass1(m) /\ WaveOf(m) >= start}}

(* Mutant: one wave for each delivery. *)
NextWaveOnce(r) ==
  /\ pump[r] = "eagerAgain"
  /\ Ready(r) = {}
  /\ pump' = [pump EXCEPT ![r] = "recv"]
  /\ LET later == StrictWaves(r, currentWave[r] + 1)
     IN  currentWave' = [currentWave EXCEPT ![r] = IF later = {} THEN @ ELSE Min(later)]
  /\ UNCHANGED <<vars, config, consumed, apply>>

NextWave(r) ==
  /\ pump[r] = "eagerAgain"
  /\ Ready(r) = {}
  /\ LET later == StrictWaves(r, currentWave[r] + 1) IN
       IF later = {}
       THEN pump' = [pump EXCEPT ![r] = "recv"] /\ UNCHANGED currentWave
       ELSE /\ pump' = [pump EXCEPT ![r] = "wave"]
            /\ currentWave' = [currentWave EXCEPT ![r] = Min(later)]
  /\ UNCHANGED <<vars, config, consumed, apply>>

-----------------------------------------------------------------------------
Submit(r) ==
  /\ Cardinality({id \in Issued : id[1] = r}) < Len(script[r])
  /\ Issue(r)
  /\ UNCHANGED <<config, pumpVars>>

Receive(r) == Deliver(r) /\ UNCHANGED <<config, pumpVars>>

Pump(r) ==
  Observe(r) \/ ApplyEager(r) \/ EagerDone(r) \/ ApplyWave(r) \/ WaveNotDue(r) \/ NextWave(r)

SemNext == \E r \in Replica : Submit(r) \/ Receive(r) \/ Pump(r)

SemSpec == SemInit /\ [][SemNext]_semVars

-----------------------------------------------------------------------------
(* What the order layer promises *)

(* The types of the order layer's variables; nothing is applied twice or   *)
(* before it was read.                                                     *)
SemTypeOK ==
  /\ classifier \in Classifiers
  /\ script \in Scripts
  /\ \A r \in Replica :
       /\ pump[r] \in {"recv", "eager", "wave", "eagerAgain"}
       /\ consumed[r] \in 0..Len(seen[r])
       /\ currentWave[r] \in Nat \ {0}
       /\ Executed(r) \subseteq Read(r)
       /\ Cardinality(Executed(r)) = Len(apply[r])

(* The strict operations a member has gone past and will never look at. *)
Stranded(r) ==
  {id \in Issued : ~IsClass1(id) /\ WaveOf(id) < currentWave[r] /\ id \notin Executed(r)}

(* No strict operation is left behind the wave gate, "permanently          *)
(* un-applied" (semorder.go:373).                                          *)
NoneStranded == \A r \in Replica : Stranded(r) = {}

AllStrict == \A f \in ConvFrames : classifier[f] # 1

(* With a classifier that has no class 1, none is.                         *)
StrictNeverStranded == AllStrict => NoneStranded

StrictOf(r) == SelectSeq(apply[r], LAMBDA id : ~IsClass1(id))

(* semorder.go:57, "This produces the same intra-wave class->=2 sequence   *)
(* at every replica": the strict operations that two members apply never   *)
(* differ but in number, as long as none was stranded.                     *)
SemAgreement ==
  NoneStranded => \A q, r \in Replica :
    IsPrefix(StrictOf(q), StrictOf(r)) \/ IsPrefix(StrictOf(r), StrictOf(q))

(* Class 1 operations fire when all their causal predecessors are          *)
(* executed, not only the direct ones, which are all the code looks at; a  *)
(* member that stranded one of them is the exception.                      *)
EagerCausal ==
  \A r \in Replica : Stranded(r) = {} =>
    \A i \in DOMAIN apply[r] : IsClass1(apply[r][i]) =>
      past[apply[r][i]] \subseteq {apply[r][j] : j \in 1..(i - 1)}

(* advanceWave goes on until no wave is due: of what a member that waits   *)
(* for a delivery has not applied, each operation has its own wave or an   *)
(* earlier one incomplete or not passed by every member.                   *)
NothingHeldBack ==
  AllStrict =>
    \A r \in Replica : pump[r] = "recv" =>
      \A id \in Read(r) \ Executed(r) : \E w \in 1..WaveOf(id) :
        ~WaveComplete(r, w) \/ \E q \in Replica : ~Heard(r, q) \/ LatestWave(r, q) <= w
=============================================================================
