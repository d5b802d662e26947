------------------------------- MODULE Store --------------------------------
(***************************************************************************)
(* The state machine of the key-value store (examples/kvstore/kvstore.go): *)
(* last writer wins by (wave, sender), with tombstones.  A store is the    *)
(* data map, maxOff, peerWaveSeen and the pending flag of ackController.   *)
(* A message is a record of its id, wave, offset and batch of commands;    *)
(* the value a Set writes is named by the message and its place in the     *)
(* batch, so that two writes never write the same value.                   *)
(***************************************************************************)
LOCAL INSTANCE Integers
LOCAL INSTANCE Sequences
LOCAL INSTANCE SequencesExt

CONSTANTS
  Key,       \* the keys of the store
  Replica,   \* the members of the store's cluster
  Order,     \* Order[r]: position of r's id in byte order
  NoEntry    \* a key with no entry in the data map

Command == [op : {"set", "delete"}, key : Key]
Ack == [op |-> "ack"]

NewStore ==
  [data     |-> [k \in Key |-> NoEntry],
   maxOff   |-> 0,
   waveSeen |-> [q \in Replica |-> 0],
   ackDue   |-> FALSE]

(* lww, and the rule that an entry of the same wave and sender is replaced *)
(* by the later write.  Its comment takes such a pair for one envelope; a  *)
(* sender may issue several at one wave, and FIFO makes the last one win.  *)
Wins(inc, cur) ==
  \/ cur = NoEntry
  \/ inc.wave > cur.wave
  \/ inc.wave = cur.wave /\ Order[inc.origin] >= Order[cur.origin]

(* One command of a batch. *)
Write(data, msg, i) ==
  LET cmd == msg.batch[i]
      inc == [wave |-> msg.wave, origin |-> msg.id[1],
              value |-> <<msg.id, i>>, deleted |-> cmd.op = "delete"]
  IN  IF cmd = Ack \/ ~Wins(inc, data[cmd.key])
        THEN data
        ELSE [data EXCEPT ![cmd.key] = inc]

AllAck(batch) == \A i \in DOMAIN batch : batch[i] = Ack

(* Apply up to the release of the data lock, on member r. *)
ApplyBatch(s, r, msg) ==
  LET q == msg.id[1] IN
  [s EXCEPT !.waveSeen[q] = IF msg.wave > @ THEN msg.wave ELSE @,
            !.data = FoldLeft(LAMBDA d, i : Write(d, msg, i), @,
                              [i \in DOMAIN msg.batch |-> i]),
            !.ackDue = @ \/ (q # r /\ ~AllAck(msg.batch))]

(* The rest of Apply: a batch of acks returns before maxOff. *)
NoteOffset(s, msg) ==
  [s EXCEPT !.maxOff = IF AllAck(msg.batch) \/ msg.offset <= @ THEN @ ELSE msg.offset]

Get(s, k) ==
  IF s.data[k] = NoEntry \/ s.data[k].deleted THEN NoEntry ELSE s.data[k].value

Snapshot(s) == [data |-> s.data, through |-> s.maxOff]

Restore(snap) == [NewStore EXCEPT !.data = snap.data, !.maxOff = snap.through]

(* Mutant: tombstones newer than what the slowest member was heard at go. *)
GcTombstonesEager(s) ==
  [s EXCEPT !.data = [k \in Key |-> IF @[k] # NoEntry /\ @[k].deleted THEN NoEntry ELSE @[k]]]

(* Tombstones older than the wave every member was heard at are dropped; a *)
(* member not heard yet keeps them all.                                    *)
GcTombstones(s) ==
  [s EXCEPT !.data =
     [k \in Key |->
        IF /\ @[k] # NoEntry
           /\ @[k].deleted
           /\ \A q \in Replica : @[k].wave < s.waveSeen[q]
          THEN NoEntry ELSE @[k]]]

=============================================================================
