----------------------------- MODULE Substrate ------------------------------
(***************************************************************************)
(* A Substrate (substrate.go) with the key-value store as its state        *)
(* machine, under OrderingPartial as the store configures it, over what    *)
(* psync promises (CausalBroadcast).  The deliveries of a member are its   *)
(* log: the message at position k of seen[r] has offset k - 1 in the log   *)
(* of r, and the logs of two members list the same messages in different   *)
(* orders.                                                                 *)
(*                                                                         *)
(* A member runs the apply pump, the batcher loop and the ack loop (each   *)
(* in one Submit at a time), a reader in WaitForCausality, the snapshot    *)
(* loop, and the goroutines that send a watermark and push the replayed    *)
(* log.  They interleave freely.                                           *)
(***************************************************************************)
EXTENDS CausalBroadcast, FiniteSets, SequencesExt, FiniteSetsExt

CONSTANTS
  Key,               \* the keys of the store
  Order,             \* Order[r]: position of r's id in byte order
  NoEntry,           \* a key with no entry
  Nothing,           \* no message in hand, no snapshot on disk, ...
  Scenarios          \* what each member does, how often (see budget)

INSTANCE Store
INSTANCE Trim

ASSUME SubstrateAssumption ==
  /\ Order \in [Replica -> Nat]
  /\ \A q, r \in Replica : Order[q] = Order[r] => q = r

VARIABLES
  payload,   \* payload[id]: what message id carries
  first,     \* first[r]: first offset kept in r's log
  disk,      \* disk[r]: the versions of r's snapshot file, the one in place last
  sub,       \* sub[r]: the process of r: its Substrate and its Store
  call,      \* call[r][t]: the Submit call of loop t of r
  wait,      \* wait[r]: the WaitForCausality call of r
  budget,    \* what is left of the scenario
  spoilt,    \* spoilt[r]: what has happened to r that its store may suffer from
  basis      \* basis[r]: the log that the snapshot r joined with counts in

history == <<spoilt, basis>>
volatile == <<sub, call, wait>>
subVars == <<vars, payload, first, disk, volatile, budget, history>>

Loops == {"batch", "ack"}
NoCall == [pc |-> "idle", id |-> Nothing]

(* The wave of a message: the largest slot of its vector clock. *)
WaveOf(id) == Max({m[2] : m \in past[id] \cup {id}})

(* LookupBySender and the offset handleApplied makes of it: 0 when the     *)
(* entry is gone, and 0 for the first entry of the log.                    *)
OffsetIn(r, id) ==
  LET place == CHOOSE i \in DOMAIN seen[r] : seen[r][i] = id
  IN  IF place - 1 >= first[r] THEN place - 1 ELSE 0

(* NewSubstrate: state restored from snap, or empty.  The rest of the log  *)
(* is replayed by handleReplay, which leaves out an entry whose causal     *)
(* past is not in the log; the entries go to the deliver channel from a    *)
(* goroutine.                                                              *)
NewSubstrate(r, snap) ==
  LET kept == SubSeq(seen[r], first[r] + 1, Len(seen[r]))
      inserted == FoldLeft(LAMBDA done, id :
                    IF past[id] \subseteq Range(done) THEN Append(done, id) ELSE done,
                    <<>>, kept)
      through == IF snap = Nothing THEN 0 ELSE snap.through
  IN  [up          |-> TRUE,
       graph       |-> Range(inserted),
       replay      |-> inserted,
       queue       |-> <<>>,
       pump        |-> Nothing,
       store       |-> IF snap = Nothing THEN NewStore ELSE Restore(snap),
       through     |-> through,
       wmk         |-> through,
       applied     |-> through,
       marks       |-> NewTracker(Replica),
       senderSeen  |-> [q \in Replica |-> 0],
       done        |-> {},
       pending     |-> {},
       appliedSelf |-> {},
       snapper     |-> [pc |-> "idle", snap |-> Nothing, cur |-> 0, lastOff |-> 0],
       outgoing    |-> {}]

SubstrateInit ==
  /\ Init
  /\ payload = past
  /\ first = [r \in Replica |-> 0]
  /\ disk = [r \in Replica |-> <<Nothing>>]
  /\ budget \in Scenarios
  /\ sub = [r \in Replica |->
              [NewSubstrate(r, Nothing) EXCEPT !.up = r \notin budget.joiners]]
  /\ call = [r \in Replica |-> [t \in Loops |-> NoCall]]
  /\ wait = [r \in Replica |-> NoCall]
  /\ spoilt = [r \in Replica |-> {}]
  /\ basis = [r \in Replica |-> <<>>]

Spend(field, r) ==
  /\ budget[field][r] > 0
  /\ budget' = [budget EXCEPT ![field][r] = @ - 1]

-----------------------------------------------------------------------------
(* psync.  Send and delivery append to the log and push to the deliver     *)
(* channel, which OrderingPartial passes on unchanged.  A member restarted *)
(* over a log whose beginning was trimmed is followed up to its next send. *)

(* What is pushed now comes before the entries still to be replayed. *)
Overtakes(r) ==
  /\ spoilt' = IF sub[r].replay = <<>> THEN spoilt
               ELSE [spoilt EXCEPT ![r] = @ \cup {"overtaken"}]
  /\ UNCHANGED basis

Pushed(s, id) == [s EXCEPT !.queue = Append(@, id), !.graph = @ \cup {id}]

Send(r, content) ==
  /\ sub[r].up
  /\ sub[r].graph = Range(seen[r])
  /\ Issue(r)
  /\ Overtakes(r)
  /\ payload' = [id \in DOMAIN past' |->
                   IF id \in Issued THEN payload[id] ELSE content]

Sent(r) == Last(seen'[r])

Receive(r) ==
  /\ sub[r].up
  /\ Deliver(r)
  /\ Overtakes(r)
  /\ past[Sent(r)] \subseteq sub[r].graph
  /\ sub' = [sub EXCEPT ![r] = Pushed(@, Sent(r))]
  /\ UNCHANGED <<payload, first, disk, call, wait, budget>>

(* The goroutine of ReplayLog. *)
PushReplayed(r) ==
  /\ sub[r].replay # <<>>
  /\ sub' = [sub EXCEPT ![r].queue = Append(@, Head(sub[r].replay)),
                        ![r].replay = Tail(@)]
  /\ UNCHANGED <<vars, payload, first, disk, call, wait, budget, history>>

Heartbeat(r) ==
  /\ Spend("heartbeats", r)
  /\ Send(r, [kind |-> "heartbeat"])
  /\ sub' = [sub EXCEPT ![r] = Pushed(@, Sent(r))]
  /\ UNCHANGED <<first, disk, call, wait>>

-----------------------------------------------------------------------------
(* Submit: send, then look whether the apply pump was faster, else wait.   *)

Ready(r, t) == call[r][t].pc \in {"idle", "ok", "cancelled"}

(* The batcher loop flushes what it found queued. *)
SubmitBatch(r) ==
  /\ Ready(r, "batch")
  /\ \E n \in 1..budget.batch :
       /\ n <= Len(budget.script[r])
       /\ Send(r, [kind |-> "app", batch |-> SubSeq(budget.script[r], 1, n)])
       /\ budget' = [budget EXCEPT !.script[r] = SubSeq(@, n + 1, Len(@))]
  /\ sub' = [sub EXCEPT ![r] = Pushed(@, Sent(r))]
  /\ call' = [call EXCEPT ![r]["batch"] = [pc |-> "sent", id |-> Sent(r)]]
  /\ UNCHANGED <<first, disk, wait>>

(* The ack loop, on a tick that finds the flag set. *)
SubmitAck(r) ==
  /\ Ready(r, "ack")
  /\ sub[r].store.ackDue
  /\ Spend("acks", r)
  /\ Send(r, [kind |-> "app", batch |-> <<Ack>>])
  /\ sub' = [sub EXCEPT ![r] = Pushed([@ EXCEPT !.store.ackDue = FALSE], Sent(r))]
  /\ call' = [call EXCEPT ![r]["ack"] = [pc |-> "sent", id |-> Sent(r)]]
  /\ UNCHANGED <<first, disk, wait>>


Register(r, t) ==
  LET id == call[r][t].id
      fast == id \in sub[r].appliedSelf
  IN
  /\ call[r][t].pc = "sent"
  /\ sub' = [sub EXCEPT ![r].appliedSelf = @ \ {id},
                        ![r].pending = IF fast THEN @ ELSE @ \cup {id}]
  /\ call' = [call EXCEPT ![r][t].pc = IF fast THEN "ok" ELSE "waiting"]
  /\ UNCHANGED <<vars, payload, first, disk, wait, budget, history>>

(* ctx is done first. *)
Cancel(r, t) ==
  /\ call[r][t].pc = "waiting"
  /\ Spend("cancels", r)
  /\ sub' = [sub EXCEPT ![r].pending = @ \ {call[r][t].id}]
  /\ call' = [call EXCEPT ![r][t].pc = "cancelled"]
  /\ UNCHANGED <<vars, payload, first, disk, wait, history>>

-----------------------------------------------------------------------------
(* maybeTrim, with Truncate of the log: the log keeps offsets from frontier *)
(* on, and never drops more than it has.                                    *)
Trimmed(r, marks) ==
  LET frontier == SafeFrontier(marks)
  IN  IF frontier <= first[r] THEN first[r]
      ELSE IF frontier < Len(seen[r]) THEN frontier ELSE Len(seen[r])

(* handleApplied.  Heartbeats and watermarks return early. *)
TakeControl(r) ==
  /\ sub[r].pump = Nothing
  /\ sub[r].queue # <<>>
  /\ LET id == Head(sub[r].queue)
         frame == payload[id]
         marks == IF frame.kind = "watermark" THEN Update(sub[r].marks, id[1], frame.mark)
                  ELSE sub[r].marks
     IN  /\ frame.kind \in {"heartbeat", "watermark"}
         /\ sub' = [sub EXCEPT ![r].queue = Tail(@), ![r].marks = marks]
         /\ first' = [first EXCEPT ![r] = IF marks = sub[r].marks THEN @ ELSE Trimmed(r, marks)]
  /\ UNCHANGED <<vars, payload, disk, call, wait, budget, history>>

Covered(s, offset) == offset # 0 /\ offset <= s.through

(* Application data: StateMachine.Apply, unless the snapshot has it. *)
TakeApp(r) ==
  /\ sub[r].pump = Nothing
  /\ sub[r].queue # <<>>
  /\ LET id == Head(sub[r].queue)
         offset == OffsetIn(r, id)
         skip == Covered(sub[r], offset)
         msg == [id |-> id, wave |-> WaveOf(id), offset |-> offset,
                 batch |-> payload[id].batch]
     IN  /\ payload[id].kind = "app"
         /\ sub' = [sub EXCEPT ![r].queue = Tail(@),
                               ![r].pump = [msg |-> msg, skip |-> skip],
                               ![r].store = IF skip THEN @ ELSE ApplyBatch(@, r, msg)]
  /\ UNCHANGED <<vars, payload, first, disk, call, wait, budget, history>>

(* noteAppliedForCausality wakes those who wait for this slot or less. *)
Release(r, id) ==
  wait' = [wait EXCEPT ![r].pc =
             IF @ = "waiting" /\ wait[r].id[1] = id[1] /\ wait[r].id[2] <= id[2]
               THEN "ok" ELSE @]

(* The end of Apply and of handleApplied. *)
NoteApplied(r) ==
  LET msg == sub[r].pump.msg
      id == msg.id
      waited == id \in sub[r].pending
  IN
  /\ sub[r].pump # Nothing
  /\ sub' = [sub EXCEPT
       ![r].pump = Nothing,
       ![r].store = IF sub[r].pump.skip THEN @ ELSE NoteOffset(@, msg),
       ![r].applied = Larger(@, msg.offset),
       ![r].senderSeen[id[1]] = Larger(@, id[2]),
       ![r].done = @ \cup {id},
       ![r].pending = @ \ {id},
       ![r].appliedSelf = IF id[1] = r /\ ~waited THEN @ \cup {id} ELSE @]
  /\ Release(r, id)
  /\ call' = [call EXCEPT ![r] =
       [t \in Loops |-> IF waited /\ @[t].pc = "waiting" /\ @[t].id = id
                          THEN [@[t] EXCEPT !.pc = "ok"] ELSE @[t]]]
  /\ UNCHANGED <<vars, payload, first, disk, budget, history>>

-----------------------------------------------------------------------------
(* WaitForCausality, with the token of a Submit that returned. *)

Token(id) == \E t \in Loops : call[id[1]][t] = [pc |-> "ok", id |-> id]

Reached(r, id) == sub[r].senderSeen[id[1]] >= id[2]

WaitForCausality(r) ==
  /\ sub[r].up
  /\ wait[r].pc \in {"idle", "ok", "timeout"}
  /\ Spend("waits", r)
  /\ \E id \in Issued :
       /\ Token(id)
       /\ wait' = [wait EXCEPT ![r] =
                     [pc |-> IF Reached(r, id) THEN "ok" ELSE "checked", id |-> id]]
  /\ UNCHANGED <<vars, payload, first, disk, sub, call, history>>


AddWaiter(r) ==
  /\ wait[r].pc = "checked"
  /\ wait' = [wait EXCEPT ![r].pc = IF Reached(r, wait[r].id) THEN "ok" ELSE "waiting"]
  /\ UNCHANGED <<vars, payload, first, disk, sub, call, budget, history>>

WaitTimesOut(r) ==
  /\ wait[r].pc = "waiting"
  /\ wait' = [wait EXCEPT ![r].pc = "timeout"]
  /\ UNCHANGED <<vars, payload, first, disk, sub, call, budget, history>>

-----------------------------------------------------------------------------
(* The snapshot loop: copy under the data lock, write the file, advance    *)
(* the watermark, sweep the tombstones.                                    *)

TakeSnapshot(r) ==
  LET s == sub[r].store IN
  /\ sub[r].up
  /\ sub[r].snapper.pc = "idle"
  /\ s.maxOff # sub[r].snapper.lastOff
  /\ Spend("snapshots", r)
  /\ sub' = [sub EXCEPT ![r].snapper =
               [pc |-> "write", snap |-> Snapshot(s), cur |-> s.maxOff, lastOff |-> @.lastOff]]
  /\ UNCHANGED <<vars, payload, first, disk, call, wait, history>>

(* The temporary file is written, synced and renamed.  The directory is    *)
(* not synced: the rename stands, and may not survive a loss of power.     *)
WriteSnapshot(r) ==
  /\ sub[r].snapper.pc = "write"
  /\ disk' = [disk EXCEPT ![r] = Append(@, sub[r].snapper.snap)]
  /\ sub' = [sub EXCEPT ![r].snapper.pc = "advance"]
  /\ UNCHANGED <<vars, payload, first, call, wait, budget, history>>

(* One of these steps fails: the next tick tries again. *)
WriteSnapshotFails(r) ==
  /\ sub[r].snapper.pc = "write"
  /\ Spend("failures", r)
  /\ sub' = [sub EXCEPT ![r].snapper.pc = "idle", ![r].snapper.snap = Nothing]
  /\ UNCHANGED <<vars, payload, first, disk, call, wait, history>>

AdvanceSnapshotWatermark(r) ==
  LET through == sub[r].snapper.snap.through
      mark == [applied |-> Larger(sub[r].applied, through), snapshot |-> through]
  IN
  /\ sub[r].snapper.pc = "advance"
  /\ sub' = [sub EXCEPT
       ![r].snapper.pc = "sweep",
       ![r].wmk = Larger(@, through),
       ![r].marks = IF through > sub[r].wmk THEN Update(@, r, mark) ELSE @,
       ![r].outgoing = IF through > sub[r].wmk THEN @ \cup {mark} ELSE @]
  /\ UNCHANGED <<vars, payload, first, disk, call, wait, budget, history>>

Sweep(r) ==
  /\ sub[r].snapper.pc = "sweep"
  /\ sub' = [sub EXCEPT ![r].snapper.pc = "idle", ![r].snapper.snap = Nothing,
                        ![r].snapper.lastOff = sub[r].snapper.cur, ![r].store = GcTombstones(@)]
  /\ UNCHANGED <<vars, payload, first, disk, call, wait, budget, history>>

(* A goroutine of AdvanceSnapshotWatermark. *)
SendWatermark(r) ==
  /\ \E mark \in sub[r].outgoing :
       /\ Send(r, [kind |-> "watermark", mark |-> mark])
       /\ sub' = [sub EXCEPT ![r] = Pushed([@ EXCEPT !.outgoing = @ \ {mark}], Sent(r))]
  /\ first' = [first EXCEPT ![r] = Trimmed(r, sub[r].marks)]
  /\ UNCHANGED <<disk, call, wait, budget>>

-----------------------------------------------------------------------------
(* A member that joins: New finds no snapshot file and an empty log, and   *)
(* pulls a snapshot of a running member, through offset included.          *)
Bootstrap(r) ==
  /\ ~sub[r].up
  /\ \E q \in Replica \ {r} :
       /\ sub[q].up
       /\ sub' = [sub EXCEPT ![r] = NewSubstrate(r, Snapshot(sub[q].store))]
       /\ LET through == sub[q].store.maxOff
          IN  basis' = [basis EXCEPT ![r] = IF through = 0 THEN <<>> ELSE SubSeq(seen[q], 1, through + 1)]
  /\ UNCHANGED <<vars, payload, first, disk, call, wait, budget, spoilt>>

(* The writes to key k among the messages in ids. *)
Writes(ids, k) ==
  {w \in ids \X (1..budget.batch) :
     LET msg == payload[w[1]] IN
     msg.kind = "app" /\ w[2] \in DOMAIN msg.batch /\ msg.batch[w[2]] # Ack /\ msg.batch[w[2]].key = k}

(* The first entry of r's log sets a key whose tombstone was swept before  *)
(* the snapshot; its offset is 0, and it is applied once more.             *)
Resurrects(r, snap) ==
  /\ snap # Nothing /\ first[r] = 0
  /\ snap.through > 0 /\ \E k \in Key : snap.data[k] = NoEntry /\ Writes({seen[r][1]}, k) # {}

(* New loads the snapshot file; the callers of the old process are gone.   *)
StartAgain(r, snap, harm) ==
  /\ sub' = [sub EXCEPT ![r] = NewSubstrate(r, snap)]
  /\ call' = [call EXCEPT ![r] = [t \in Loops |-> NoCall]]
  /\ wait' = [wait EXCEPT ![r] = NoCall]
  /\ spoilt' = [spoilt EXCEPT ![r] =
                  @ \cup harm \cup (IF first[r] > 0 THEN {"trimmed"} ELSE {})
                    \cup (IF Resurrects(r, snap) THEN {"swept"} ELSE {})]
  /\ UNCHANGED <<vars, payload, first, basis>>

(* The process of r dies and is started again. *)
Restart(r) ==
  /\ sub[r].up
  /\ Spend("crashes", r)
  /\ StartAgain(r, Last(disk[r]), {})
  /\ UNCHANGED disk

(* So does its machine, which may bring back an older snapshot file (the   *)
(* log syncs what it appends).                                             *)
PowerLoss(r) ==
  /\ sub[r].up
  /\ Spend("outages", r)
  /\ \E n \in DOMAIN disk[r] :
       /\ disk' = [disk EXCEPT ![r] = SubSeq(@, 1, n)]
       /\ StartAgain(r, disk[r][n], IF n < Len(disk[r]) THEN {"undone"} ELSE {})

Pump(r) == TakeControl(r) \/ TakeApp(r) \/ NoteApplied(r) \/ PushReplayed(r)

Callers(r) ==
  \/ SubmitBatch(r) \/ SubmitAck(r)
  \/ \E t \in Loops : Register(r, t) \/ Cancel(r, t)
  \/ WaitForCausality(r) \/ AddWaiter(r) \/ WaitTimesOut(r)

Snapper(r) ==
  \/ TakeSnapshot(r) \/ WriteSnapshot(r) \/ WriteSnapshotFails(r) \/ AdvanceSnapshotWatermark(r)
  \/ Sweep(r) \/ SendWatermark(r)

SubstrateNext ==
  \E r \in Replica :
    \/ Receive(r) \/ Heartbeat(r)
    \/ Pump(r) \/ Callers(r) \/ Snapper(r)
    \/ Bootstrap(r) \/ Restart(r) \/ PowerLoss(r)

SubstrateSpec == SubstrateInit /\ [][SubstrateNext]_subVars

-----------------------------------------------------------------------------
Idle(r) == sub[r].up /\ sub[r].pump = Nothing /\ sub[r].queue = <<>> /\ sub[r].replay = <<>>

(* Of all writes to k the one that every member should end with is the     *)
(* greatest in (wave, sender, place).                                      *)
Before(v, w) ==
  LET place(u) == <<WaveOf(u[1]), Order[u[1][1]], u[1][2], u[2]>>
      i == CHOOSE n \in 1..5 :
             /\ n = 5 \/ place(v)[n] # place(w)[n]
             /\ \A m \in 1..(n - 1) : place(v)[m] = place(w)[m]
  IN  i < 5 /\ place(v)[i] < place(w)[i]

Merged(ids, k) ==
  LET ws == Writes(ids, k)
      top == CHOOSE w \in ws : \A v \in ws \ {w} : Before(v, w)
  IN  IF ws = {} \/ payload[top[1]].batch[top[2]].op = "delete" THEN NoEntry ELSE top

(* The state of every process stays in its type, and psync's view of what  *)
(* was delivered never runs ahead of the log.                              *)
SubstrateTypeOK ==
  /\ first \in [Replica -> Nat]
  /\ \A r \in Replica :
       /\ first[r] <= Len(seen[r])
       /\ disk[r] # <<>> /\ spoilt[r] \subseteq {"overtaken", "trimmed", "swept", "undone"}
       /\ sub[r].graph \cup sub[r].done \subseteq Range(seen[r])
       /\ Range(sub[r].queue) \cup Range(sub[r].replay) \subseteq sub[r].graph
       /\ \A t \in Loops : call[r][t].pc \in {"idle", "sent", "waiting", "ok", "cancelled"}
       /\ wait[r].pc \in {"idle", "checked", "waiting", "ok", "timeout"}
       /\ \A k \in Key : sub[r].store.data[k] = NoEntry
                          \/ sub[r].store.data[k].origin \in Replica
       /\ DOMAIN sub[r].marks = Replica

(* A store that has applied all it received shows, for every key, the last *)
(* write in (wave, sender) order of all of them, whatever the order they   *)
(* arrived in, the batches they came in, the tombstones swept, the         *)
(* snapshots taken or failed and the restarts from them.  The code keeps   *)
(* this up to four cases, which the model reaches and the property names:  *)
(*   overtaken  psync took a message while ReplayLog's goroutine was still *)
(*              pushing: it is applied before older ones, and a snapshot   *)
(*              through its offset claims those;                           *)
(*   trimmed    the member restarted over a trimmed log: handleReplay      *)
(*              leaves out the entries whose parents were trimmed;         *)
(*   swept      handleApplied takes offset 0 for no offset: the first      *)
(*              entry was applied once more, after its tombstone was gone; *)
(*   a joiner whose log is not in the order of its peer's, in which the    *)
(*              through offset of the snapshot it pulled counts.           *)
StoreIsMerge ==
  \A r \in Replica :
    (/\ Idle(r) /\ spoilt[r] \cap {"overtaken", "trimmed", "swept"} = {}
     /\ r \in budget.joiners => Range(seen[r]) = Issued /\ IsPrefix(basis[r], seen[r]))
      => \A k \in Key : Get(sub[r].store, k) = Merged(Range(seen[r]), k)



(* What a member has trimmed from its log is in its own snapshot file,     *)
(* whatever failed and crashed, until a loss of power undoes a rename:     *)
(* writeSnapshot advances the watermark before the rename is sure to last. *)
TrimmedIsSnapshotted ==
  \A r \in Replica :
    first[r] > 0 /\ "undone" \notin spoilt[r]
      => Last(disk[r]) # Nothing /\ first[r] - 1 <= Last(disk[r]).through

(* A message trimmed by a member was received by every other member, so    *)
(* that nobody will ever have to ask for it.                               *)
TrimmedEverywhere ==
  \A r, q \in Replica : \A k \in 1..first[r] : seen[r][k] \in Range(seen[q])
=============================================================================
