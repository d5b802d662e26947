------------------------------- MODULE Psync --------------------------------
(***************************************************************************)
(* One psync conversation (psync/conversation.go): every member runs a     *)
(* genserver, a goroutine that handles one request at a time, so a handler *)
(* is one action.  The one handler that calls itself (handleEnvelope,      *)
(* through processNewlyAvailable) is a run of steps during which no other  *)
(* handler of that member is enabled; so is the log replay.                *)
(*                                                                         *)
(* Sends are fire and forget on goroutines of their own: messages in       *)
(* flight form a set, arrive in any order and may be lost.                 *)
(***************************************************************************)
EXTENDS ContextGraph, Sequences, Functions

CONSTANTS
  MaxSends,      \* MaxSends[r]: how many times r's application calls Send
  MaxFaults      \* MaxFaults[k]: how often a fault of kind k may happen

FaultKind == {"loss", "crash", "logFail", "earlySend", "freeze", "mask", "pull"}

ASSUME BoundsAssumption == /\ MaxSends \in [Replica -> Nat]
                           /\ MaxFaults \in [FaultKind -> Nat]

VARIABLES
  log,           \* log[r]: the message log, durable
  masked,        \* masked[r]: the masked senders, durable
  phase,         \* phase[r]: "live", "booting" (restarted, log not replayed), "replaying"
  cursor,        \* cursor[r]: log entries handleReplay has read
  graph,         \* graph[r]: the context graph
  deferred,      \* deferred[r]: envelopes waiting for missing parents
  outstanding,   \* outstanding[r]: parents asked for and not yet received
  frozen,        \* frozen[r]: frozen slots of r's membership view
  replayed,      \* replayed[r]: replayed envelopes not yet pushed to deliver
  deliver,       \* deliver[r]: what r pushed to its deliver channel since it started
  wire,          \* envelopes in flight
  asks,          \* lost-message requests in flight
  sent,          \* sent[r]: history of the envelopes Send has returned to r's callers
  faults         \* faults[k]: faults of kind k so far

durable  == <<log, masked>>
volatile == <<phase, cursor, graph, deferred, outstanding, frozen, replayed, deliver>>
network  == <<wire, asks>>
vars     == <<durable, volatile, network, sent, faults>>

Pending == [env : Envelope, from : Replica, waiting : SUBSET MessageId]
WireEnvelope == [from : Replica, to : Replica, env : Envelope]
LostMessageRequest == [from : Replica, to : Replica, id : MessageId]

Init ==
  /\ log = [r \in Replica |-> <<>>]
  /\ masked = [r \in Replica |-> {}]
  /\ phase = [r \in Replica |-> "live"]
  /\ cursor = [r \in Replica |-> 0]
  /\ graph = [r \in Replica |-> {}]
  /\ deferred = [r \in Replica |-> {}]
  /\ outstanding = [r \in Replica |-> {}]
  /\ frozen = [r \in Replica |-> {}]
  /\ replayed = [r \in Replica |-> <<>>]
  /\ deliver = [r \in Replica |-> <<>>]
  /\ wire = {}
  /\ asks = {}
  /\ sent = [r \in Replica |-> <<>>]
  /\ faults = [k \in FaultKind |-> 0]

Spend(k) == /\ faults[k] < MaxFaults[k]
            /\ faults' = [faults EXCEPT ![k] = @ + 1]

(* The genserver of r is between two requests. *)
Idle(r) == phase[r] # "replaying" /\ \A p \in deferred[r] : p.waiting # {}

Push(q, r, e) == [q EXCEPT ![r] = Append(@, e)]

-----------------------------------------------------------------------------
(* handleSend: stamp, log, insert, deliver locally, broadcast to the       *)
(* active peers.  A failing log append changes nothing.  Nothing makes the *)
(* caller wait for the log replay of a restarted member.                   *)

(* Mutant: the clock is taken from the last message delivered. *)
NewEnvelopeFromLast(r) ==
  LET n == Len(deliver[r])
      view == IF n = 0 THEN ZeroVector ELSE deliver[r][n].vc
  IN  [sender |-> r, vc |-> Increment(view, r)]

NewEnvelope(r) == [sender |-> r, vc |-> Increment(CurrentView(graph[r]), r)]

Broadcast(r, e) ==
  {[from |-> r, to |-> q, env |-> e] : q \in Replica \ ({r} \cup frozen[r])}

(* Mutant: the message goes out without being logged. *)
SendUnlogged(r) ==
  /\ Idle(r)
  /\ Len(sent[r]) < MaxSends[r]
  /\ IF phase[r] = "live" THEN UNCHANGED faults ELSE Spend("earlySend")
  /\ LET e == NewEnvelope(r) IN
       /\ graph' = [graph EXCEPT ![r] = @ \cup {e}]
       /\ deliver' = Push(deliver, r, e)
       /\ wire' = wire \cup Broadcast(r, e)
       /\ sent' = Push(sent, r, e)
  /\ UNCHANGED <<log, masked, phase, cursor, deferred, outstanding, frozen, replayed, asks>>

Send(r) ==
  /\ Idle(r)
  /\ Len(sent[r]) < MaxSends[r]
  /\ IF phase[r] = "live" THEN UNCHANGED faults ELSE Spend("earlySend")
  /\ LET e == NewEnvelope(r) IN
       /\ log' = Push(log, r, e)
       /\ graph' = [graph EXCEPT ![r] = @ \cup {e}]
       /\ deliver' = Push(deliver, r, e)
       /\ wire' = wire \cup Broadcast(r, e)
       /\ sent' = Push(sent, r, e)
  /\ UNCHANGED <<masked, phase, cursor, deferred, outstanding, frozen, replayed, asks>>

-----------------------------------------------------------------------------
(* handleEnvelope of e, received from peer `from`; pend is what is deferred *)
(* besides e.                                                               *)

(* Mutant: a message that comes is not struck off what others wait for. *)
SatisfyNobody(pend, id) == pend

(* processNewlyAvailable: whoever waits for id waits no longer. *)
Satisfy(pend, id) == {[p EXCEPT !.waiting = @ \ {id}] : p \in pend}

Accept(r, e, pend) ==
  /\ graph' = [graph EXCEPT ![r] = @ \cup {e}]
  /\ \/ log' = Push(log, r, e) /\ UNCHANGED faults
     \/ Spend("logFail") /\ UNCHANGED log
  /\ deliver' = Push(deliver, r, e)
  /\ outstanding' = [outstanding EXCEPT ![r] = @ \ {Id(e)}]
  /\ deferred' = [deferred EXCEPT ![r] = Satisfy(pend, Id(e))]
  /\ UNCHANGED asks

(* Mutant: nobody is asked for the missing parents. *)
DeferSilently(r, e, from, pend) ==
  /\ deferred' = [deferred EXCEPT ![r] =
                    @ \cup {[env |-> e, from |-> from, waiting |-> Missing(graph[r], e)]}]
  /\ UNCHANGED <<log, graph, deliver, outstanding, asks, faults>>

(* deferEnvelope: ask `from` for every missing parent not yet asked for. *)
Defer(r, e, from, pend) ==
  LET missing == Missing(graph[r], e)
      pe == [env |-> e, from |-> from, waiting |-> missing]
      already == \E p \in pend : Id(p.env) = Id(e)
  IN  /\ deferred' = [deferred EXCEPT ![r] = IF already THEN pend ELSE pend \cup {pe}]
      /\ outstanding' = [outstanding EXCEPT ![r] = IF already THEN @ ELSE @ \cup missing]
      /\ asks' = IF already THEN asks
                 ELSE asks \cup {[from |-> r, to |-> from, id |-> id] :
                                   id \in missing \ outstanding[r]}
      /\ UNCHANGED <<log, graph, deliver, faults>>

Drop(r, pend) ==
  /\ deferred' = [deferred EXCEPT ![r] = pend]
  /\ UNCHANGED <<log, graph, deliver, outstanding, asks, faults>>

(* Mutant: what is a node already is handled again. *)
HandleEnvelopeTwice(r, e, from, pend) ==
  \/ e.sender \in masked[r] /\ Drop(r, pend)
  \/ e.sender \notin masked[r] /\ Missing(graph[r], e) = {} /\ Accept(r, e, pend)
  \/ e.sender \notin masked[r] /\ Missing(graph[r], e) # {} /\ Defer(r, e, from, pend)

HandleEnvelope(r, e, from, pend) ==
  LET unwanted == e.sender \in masked[r] \/ Has(graph[r], Id(e))
      complete == Missing(graph[r], e) = {}
  IN  \/ unwanted /\ Drop(r, pend)
      \/ ~unwanted /\ complete /\ Accept(r, e, pend)
      \/ ~unwanted /\ ~complete /\ Defer(r, e, from, pend)

ReceiveEnvelope(r) ==
  /\ Idle(r)
  /\ \E m \in wire :
       /\ m.to = r
       /\ wire' = wire \ {m}
       /\ HandleEnvelope(r, m.env, m.from, deferred[r])
  /\ UNCHANGED <<masked, phase, cursor, frozen, replayed, sent>>

(* The recursive call: an envelope whose last missing parent has arrived. *)
WakeDeferred(r) ==
  /\ phase[r] # "replaying"
  /\ \E p \in deferred[r] :
       /\ p.waiting = {}
       /\ HandleEnvelope(r, p.env, p.from, deferred[r] \ {p})
  /\ UNCHANGED <<masked, phase, cursor, frozen, replayed, wire, sent>>

-----------------------------------------------------------------------------
(* The lost-message protocol *)

(* The log's index keeps the last entry appended for a message id. *)
Lookup(l, id) ==
  {l[i] : i \in {k \in 1..Len(l) : Id(l[k]) = id /\ \A j \in (k + 1)..Len(l) : Id(l[j]) # id}}

ReceiveLostRequest(r) ==
  /\ Idle(r)
  /\ \E m \in asks :
       /\ m.to = r
       /\ asks' = asks \ {m}
       /\ wire' = wire \cup {[from |-> r, to |-> m.from, env |-> e] : e \in Lookup(log[r], m.id)}
  /\ UNCHANGED <<durable, volatile, sent, faults>>

(* A reader holding a causality token for message id asks its sender, or   *)
(* every active peer when r sent it itself.                                *)
Issued == UNION {Range(sent[q]) : q \in Replica}

RequestMissing(r) ==
  /\ Idle(r)
  /\ Spend("pull")
  /\ \E e \in Issued :
       LET whom == IF e.sender = r THEN Replica \ ({r} \cup frozen[r]) ELSE {e.sender}
       IN  asks' = asks \cup {[from |-> r, to |-> q, id |-> Id(e)] : q \in whom}
  /\ UNCHANGED <<durable, volatile, wire, sent>>

-----------------------------------------------------------------------------
(* Membership view and mask *)

FreezeMember(r) ==
  /\ Idle(r)
  /\ Spend("freeze")
  /\ \E q \in Replica \ ({r} \cup frozen[r]) : frozen' = [frozen EXCEPT ![r] = @ \cup {q}]
  /\ UNCHANGED <<durable, phase, cursor, graph, deferred, outstanding, replayed, deliver,
                 network, sent>>

Maskout(r) ==
  /\ Idle(r)
  /\ Spend("mask")
  /\ \E q \in Replica \ masked[r] : masked' = [masked EXCEPT ![r] = @ \cup {q}]
  /\ UNCHANGED <<log, volatile, network, sent>>

Maskin(r) ==
  /\ Idle(r)
  /\ \E q \in masked[r] : masked' = [masked EXCEPT ![r] = @ \ {q}]
  /\ UNCHANGED <<log, volatile, network, sent, faults>>

-----------------------------------------------------------------------------
(* Crash and restart.  The process loses everything but its log and mask;  *)
(* New starts the genserver on an empty graph and the network pump at      *)
(* once, and ReplayLog is called by a goroutine some time later.           *)

Crash(r) ==
  /\ Spend("crash")
  /\ phase' = [phase EXCEPT ![r] = "booting"]
  /\ cursor' = [cursor EXCEPT ![r] = 0]
  /\ graph' = [graph EXCEPT ![r] = {}]
  /\ deferred' = [deferred EXCEPT ![r] = {}]
  /\ outstanding' = [outstanding EXCEPT ![r] = {}]
  /\ frozen' = [frozen EXCEPT ![r] = {}]
  /\ replayed' = [replayed EXCEPT ![r] = <<>>]
  /\ deliver' = [deliver EXCEPT ![r] = <<>>]
  /\ UNCHANGED <<durable, network, sent>>

ReplayLog(r) ==
  /\ Idle(r)
  /\ phase[r] = "booting"
  /\ phase' = [phase EXCEPT ![r] = "replaying"]
  /\ UNCHANGED <<durable, cursor, graph, deferred, outstanding, frozen, replayed, deliver,
                 network, sent, faults>>

(* handleReplay reads the next log entry: inserted unless it is a node     *)
(* already or misses a parent.  Nobody deferred is woken.                  *)
ReplayEntry(r) ==
  /\ phase[r] = "replaying"
  /\ cursor[r] < Len(log[r])
  /\ cursor' = [cursor EXCEPT ![r] = @ + 1]
  /\ LET e == log[r][cursor[r] + 1] IN
       IF Has(graph[r], Id(e)) \/ Missing(graph[r], e) # {}
       THEN UNCHANGED <<graph, replayed>>
       ELSE /\ graph' = [graph EXCEPT ![r] = @ \cup {e}]
            /\ replayed' = Push(replayed, r, e)
  /\ UNCHANGED <<durable, phase, deferred, outstanding, frozen, deliver, network, sent, faults>>

(* Mutant: the last entry of the log is left out. *)
ReplayDoneEarly(r) ==
  /\ phase[r] = "replaying"
  /\ cursor[r] + 1 >= Len(log[r])
  /\ phase' = [phase EXCEPT ![r] = "live"]
  /\ UNCHANGED <<durable, cursor, graph, deferred, outstanding, frozen, replayed, deliver,
                 network, sent, faults>>

ReplayDone(r) ==
  /\ phase[r] = "replaying"
  /\ cursor[r] = Len(log[r])
  /\ phase' = [phase EXCEPT ![r] = "live"]
  /\ UNCHANGED <<durable, cursor, graph, deferred, outstanding, frozen, replayed, deliver,
                 network, sent, faults>>

(* The goroutine ReplayLog leaves behind pushes what was replayed, while   *)
(* the genserver already handles new requests.                             *)
DeliverReplayed(r) ==
  /\ phase[r] = "live"
  /\ replayed[r] # <<>>
  /\ deliver' = Push(deliver, r, Head(replayed[r]))
  /\ replayed' = [replayed EXCEPT ![r] = Tail(@)]
  /\ UNCHANGED <<durable, phase, cursor, graph, deferred, outstanding, frozen, network, sent,
                 faults>>

-----------------------------------------------------------------------------
Lose ==
  /\ Spend("loss")
  /\ \/ \E m \in wire : wire' = wire \ {m} /\ UNCHANGED asks
     \/ \E m \in asks : asks' = asks \ {m} /\ UNCHANGED wire
  /\ UNCHANGED <<durable, volatile, sent>>

Handler(r) == ReceiveEnvelope(r) \/ WakeDeferred(r) \/ ReceiveLostRequest(r)
Replay(r) == ReplayLog(r) \/ ReplayEntry(r) \/ ReplayDone(r) \/ DeliverReplayed(r)
Call(r) == Send(r) \/ RequestMissing(r) \/ FreezeMember(r) \/ Maskout(r) \/ Maskin(r)

Next == Lose \/ \E r \in Replica : Handler(r) \/ Replay(r) \/ Call(r) \/ Crash(r)

Spec == Init /\ [][Next]_vars

(* Goroutines are scheduled: a genserver with a request handles it, replay *)
(* goes on.  Nothing says that the application calls Send.                 *)
Fairness == \A r \in Replica : WF_vars(Handler(r)) /\ WF_vars(Replay(r))

FairSpec == Spec /\ Fairness
-----------------------------------------------------------------------------
(* What the conversation promises *)

(* The types of the variables. *)
TypeOK ==
  /\ log \in [Replica -> Seq(Envelope)]
  /\ masked \in [Replica -> SUBSET Replica]
  /\ phase \in [Replica -> {"live", "booting", "replaying"}]
  /\ cursor \in [Replica -> Nat]
  /\ graph \in [Replica -> SUBSET Envelope]
  /\ deferred \in [Replica -> SUBSET Pending]
  /\ outstanding \in [Replica -> SUBSET MessageId]
  /\ frozen \in [Replica -> SUBSET Replica]
  /\ replayed \in [Replica -> Seq(Envelope)]
  /\ deliver \in [Replica -> Seq(Envelope)]
  /\ wire \in SUBSET WireEnvelope
  /\ asks \in SUBSET LostMessageRequest
  /\ sent \in [Replica -> Seq(Envelope)]
  /\ faults \in [FaultKind -> Nat]

(* No two Sends of a member, before or after a crash, return one message   *)
(* id: handleSend numbers messages from the graph it finds (psync/         *)
(* vector.go:26, the sender's own entry is its monotonic counter).         *)
DistinctIds ==
  \A r \in Replica : \A i, j \in DOMAIN sent[r] :
    Id(sent[r][i]) = Id(sent[r][j]) => i = j

(* The vector clocks handleSend stamps tell causality: whoever knows a     *)
(* message by its number has a clock past that message's whole clock.      *)
ClockCondition ==
  \A e, f \in Issued : SenderSeq(f) <= e.vc[f.sender] => Covers(e.vc, f.vc)

(* A graph holds the whole causal past of each of its nodes, not only the  *)
(* direct parents Insert looks at.                                         *)
CausallyClosed ==
  \A r \in Replica : \A e \in graph[r] : HasPast(graph[r], e)

(* Each deliver channel carries a message at most once and after every     *)
(* message that happens before it, whatever order the network chose and    *)
(* however deferred envelopes were woken.                                  *)
CausalDelivery ==
  \A r \in Replica : \A j \in DOMAIN deliver[r] : \A e \in Issued :
    /\ HappensBefore(e.vc, deliver[r][j].vc) => \E i \in 1..(j - 1) : deliver[r][i] = e
    /\ \A i \in 1..(j - 1) : deliver[r][i] # deliver[r][j]

(* What a member takes for stable (IsStable, from its own graph alone) has *)
(* been accepted and logged by every member it does not hold frozen.       *)
StableEverywhere ==
  \A r \in Replica : \A e \in graph[r] :
    IsStable(graph[r], frozen[r], e) =>
      \A q \in Replica \ frozen[r] : e \in Range(log[q])

(* What a deferred envelope still waits for is really missing and has been *)
(* asked for; otherwise nothing is left that would ever wake it.           *)
DeferredCanWake ==
  \A r \in Replica : \A p \in deferred[r] : \A id \in p.waiting :
    ~Has(graph[r], id) /\ id \in outstanding[r]

(* A member that has replayed its log has every logged message in its      *)
(* graph, and every message in its graph is in the log.                    *)
GraphIsLog ==
  \A r \in Replica : phase[r] = "live" => graph[r] = Range(log[r])

(* A deferred envelope is delivered in the end (conversation.go:748, "the  *)
(* peer detects the gap on its next inbound message and requests the       *)
(* missing entry").                                                        *)
GapsClose ==
  \A r \in Replica : (deferred[r] # {}) ~> (deferred[r] = {})

(* As long as nothing is lost, every member ends up with every message,    *)
(* whatever order the messages come in.                                    *)
Converges ==
  [](faults["loss"] = 0) => <>[](\A r \in Replica : graph[r] = Issued)
=============================================================================
