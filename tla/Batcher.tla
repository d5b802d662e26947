------------------------------ MODULE Batcher -------------------------------
(***************************************************************************)
(* The key-value store's batcher: concurrent Set and Delete calls queue    *)
(* their commands, one loop drains the queue into a batch, submits it as a *)
(* single message and answers everyone in the batch with that message's    *)
(* token.  Commands are named after their callers.                         *)
(***************************************************************************)
EXTENDS Naturals, Sequences, Functions

CONSTANTS
  Caller,      \* concurrent Set and Delete calls
  QueueCap,    \* capacity of batcher.in (1024)
  MaxBatchOps

VARIABLES
  caller,      \* caller[c]: [pc, token]
  queue,       \* batcher.in
  loop,        \* "select", "submit", "done"
  pending,     \* the batch being built or submitted
  stopped,     \* batcher.stop is closed
  submitted    \* the batches the substrate accepted; a token is a position in it

batcherVars == <<caller, queue, loop, pending, stopped, submitted>>

NoToken == 0

BatcherInit ==
  /\ caller = [c \in Caller |-> [pc |-> "idle", token |-> NoToken]]
  /\ queue = <<>> /\ loop = "select" /\ pending = <<>> /\ stopped = FALSE /\ submitted = <<>>

Becomes(c, pc) == caller' = [caller EXCEPT ![c].pc = pc]

(* submit, first select: a place in the queue, even when stop is closed;   *)
(* or a refusal; or the caller's context is done.                          *)
Enqueue(c) ==
  /\ caller[c].pc = "idle" /\ Len(queue) < QueueCap
  /\ queue' = Append(queue, c) /\ Becomes(c, "waiting")
  /\ UNCHANGED <<loop, pending, stopped, submitted>>

Refused(c) ==
  /\ caller[c].pc = "idle"
  /\ \/ stopped /\ Becomes(c, "refused")
     \/ Becomes(c, "gone")
  /\ UNCHANGED <<queue, loop, pending, stopped, submitted>>

(* submit, second select: the caller's context is done; the entry stays. *)
GivesUp(c) ==
  /\ caller[c].pc = "waiting"
  /\ Becomes(c, "gone")
  /\ UNCHANGED <<queue, loop, pending, stopped, submitted>>

(* loop: the first entry and, drainAvailable, those queued behind it up to *)
(* MaxBatchOps; the byte limit may cut the batch anywhere after the first. *)
Collect ==
  /\ loop = "select" /\ queue # <<>>
  /\ \E n \in 1..Len(queue) :
       /\ n <= MaxBatchOps
       /\ pending' = pending \o SubSeq(queue, 1, n)
       /\ queue' = SubSeq(queue, n + 1, Len(queue))
  /\ loop' = "submit"
  /\ UNCHANGED <<caller, stopped, submitted>>

Waiting(c) == caller[c].pc = "waiting"

Answered(result, token) ==
  [c \in Caller |-> IF c \in Range(pending) /\ Waiting(c)
                    THEN [pc |-> result, token |-> token] ELSE caller[c]]

(* Mutant: the batch is not emptied. *)
FlushKeepsPending ==
  /\ loop = "submit" /\ loop' = "select"
  /\ submitted' = Append(submitted, pending)
  /\ caller' = Answered("ok", Len(submitted) + 1)
  /\ UNCHANGED <<queue, pending, stopped>>

(* flush: Submit returned; everyone in the batch gets its token. *)
Flush ==
  /\ loop = "submit" /\ loop' = "select"
  /\ submitted' = Append(submitted, pending)
  /\ caller' = Answered("ok", Len(submitted) + 1)
  /\ pending' = <<>>
  /\ UNCHANGED <<queue, stopped>>

(* flush: Submit failed; everyone in the batch gets its error.  A Submit   *)
(* that was cancelled may have sent the batch all the same.                *)
FlushFails ==
  /\ loop = "submit" /\ loop' = "select"
  /\ submitted' \in {submitted} \cup (IF stopped THEN {Append(submitted, pending)} ELSE {})
  /\ caller' = Answered("error", NoToken)
  /\ pending' = <<>>
  /\ UNCHANGED <<queue, stopped>>

(* Close: stop is closed; it waits for the loop. *)
Stop ==
  /\ ~stopped /\ stopped' = TRUE
  /\ UNCHANGED <<caller, queue, loop, pending, submitted>>

(* loop: stop was chosen, whether or not the queue is empty; abortPending  *)
(* has nothing to abort, pending is empty between two batches.             *)
LoopExit ==
  /\ loop = "select" /\ stopped
  /\ loop' = "done" /\ caller' = Answered("error", NoToken) /\ pending' = <<>>
  /\ UNCHANGED <<queue, stopped, submitted>>

-----------------------------------------------------------------------------
(* Properties *)

(* A command is submitted at most once, however batches are cut and        *)
(* whatever fails, and a caller that got a token finds its command in the  *)
(* message the token stands for (kvstore.go:327 to 330): GetAt waits for   *)
(* the right write.                                                        *)
OneBatchEach ==
  /\ \A i, j \in DOMAIN submitted : \A k \in DOMAIN submitted[i], l \in DOMAIN submitted[j] :
       submitted[i][k] = submitted[j][l] => i = j /\ k = l
  /\ \A c \in Caller : caller[c].pc = "ok" =>
       /\ caller[c].token \in DOMAIN submitted
       /\ c \in Range(submitted[caller[c].token])
=============================================================================
