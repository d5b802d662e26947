----------------------------- MODULE Membership -----------------------------
(***************************************************************************)
(* membership.Manager (membership/membership.go, voteout.go, votein.go):   *)
(* the members of a conversation decide over that conversation whom to     *)
(* remove and whom to admit.                                               *)
(*                                                                         *)
(* Four kinds of goroutine of a replica meet here: the pump that handles   *)
(* delivered frames, a caller inside VoteOut or VoteIn, the failure        *)
(* detector's loop, and one goroutine per asynchronous Send.  A step lasts *)
(* from one acquisition of m.mu or session.mu to the next; a session is an *)
(* object that goroutines keep a pointer to after the maps have dropped    *)
(* it.                                                                     *)
(*                                                                         *)
(* The conversation below is the causal broadcast of module Psync, which   *)
(* also delivers to the sender: a frame is handled after the frames its    *)
(* sender had received, and a sender's own frame is the next one in its    *)
(* delivery channel.  Frames that wait in the channel when the replica     *)
(* sends are modelled as handled before the Send: the Send runs on another *)
(* goroutine and does not depend on them.                                  *)
(***************************************************************************)
EXTENDS Naturals, Sequences, FiniteSets, Bags, SequencesExt

CONSTANTS
  Founders,     (* cfg.Members: the initial members in slot order           *)
  Candidates,   (* replicas that may be voted in; never removed ones: a     *)
                (* removed ReplicaID is not admitted again                  *)
  Budgets       (* what may happen, one of these: out[r][t] and in[r][t]    *)
                (* calls of VoteOut(t) and VoteIn(t) by r, silences[r][p]   *)
                (* suspicions of p by r's detector, beats[r] heartbeats and *)
                (* application frames of r, errors failed Sends of a        *)
                (* caller, down the members that have crashed               *)

FD == INSTANCE FailureDetector

Member == Range(Founders)
Known == Member \cup Candidates
GroupSize == Len(Founders)

ASSUME Bounds ==
  /\ Founders \in Seq(Member) /\ GroupSize > 0 /\ Cardinality(Member) = GroupSize
  /\ Candidates \cap Member = {}
  /\ Budgets \subseteq [out : [Member -> [Known -> Nat]], in : [Member -> [Candidates -> Nat]],
                         silences : [Member -> [Known -> Nat]], beats : [Member -> Nat], errors : Nat,
                         down : SUBSET Member]

VARIABLES
  ml,        (* membershipList: the active members, in order                *)
  slots,     (* psync's Membership: every member ever, in slot order        *)
  frozen,    (* the slots psync has frozen                                  *)
  fd,        (* the failure detector                                        *)
  suspects,  (* suspectDownList                                             *)
  reporting, (* newly suspected, OnSuspect not called yet                   *)
  session,   (* every session object created so far                         *)
  outMap,    (* voteOutSessions: target -> index in session, 0 if absent    *)
  inMap,     (* voteInSessions                                              *)
  thread,    (* where the pump and the caller stand                         *)
  outbox,    (* frames whose asyncSend goroutine has not run                *)
  sent,      (* what each member sent on the conversation                   *)
  handled,   (* handled[r][p]: how many of p's frames r's pump has taken    *)
  early,     (* early[r][p]: p's frame that r met too early, 0 if none      *)
  vain,      (* the members whose early frame r has asked for in vain       *)
  budget     (* what is left of the bounds                                  *)

local == <<ml, slots, frozen, fd, suspects>>
net == <<sent, handled, early, vain>>
vars == <<local, reporting, session, outMap, inMap, thread, outbox, net, budget>>

Pump == "pump"
Caller == "caller"
Goroutine == {Pump, Caller}

Heartbeat == [kind |-> "heartbeat"]
Frame(kind, t) == [kind |-> kind, target |-> t]
Idle == [pc |-> "idle", s |-> 0]
At(pc, s) == [pc |-> pc, s |-> s]

(* newVoteOutSession and newVoteInSession: voters counts membersAtStart    *)
(* without the target.                                                     *)
NewSession(kind, t, members, acks) ==
  [kind |-> kind, target |-> t, voters |-> Cardinality(Range(members) \ {t}),
   acked |-> acks, nacked |-> {}, committed |-> FALSE, res |-> "open"]

IsMember(r, t) == t \in Range(ml[r])

Up == Member \ budget.down

InMajority(r) == Len(ml[r]) * 2 > GroupSize

(* Mutant: half of the voters is enough. *)
HasQuorumHalf(s) == Cardinality(s.acked) >= s.voters \div 2

HasQuorum(s) == Cardinality(s.acked) >= s.voters \div 2 + 1

(* session.done.Do: the first outcome stays. *)
Completed(s, res) == IF s.res = "open" THEN [s EXCEPT !.res = res] ELSE s

Init ==
  /\ ml = [r \in Member |-> Founders]
  /\ slots = [r \in Member |-> Founders]
  /\ frozen = [r \in Member |-> {}]
  /\ fd = [r \in Member |-> FD!NewDetector(r, Member)]
  /\ suspects = [r \in Member |-> {}]
  /\ reporting = [r \in Member |-> {}]
  /\ session = [r \in Member |-> <<>>]
  /\ outMap = [r \in Member |-> [t \in Known |-> 0]]
  /\ inMap = [r \in Member |-> [t \in Candidates |-> 0]]
  /\ thread = [r \in Member |-> [k \in Goroutine |-> Idle]]
  /\ outbox = [r \in Member |-> EmptyBag]
  /\ sent = [r \in Member |-> <<>>]
  /\ handled = [r \in Member |-> [p \in Member |-> 0]]
  /\ early = [r \in Member |-> [p \in Member |-> 0]]
  /\ vain = [r \in Member |-> {}]
  /\ budget \in Budgets

-----------------------------------------------------------------------------
(* The conversation. *)

(* Send, as psync's handleSend: the frame's vector clock has a component   *)
(* for each slot the sender knows.                                         *)
Post(r, frame) ==
  sent' = [sent EXCEPT ![r] =
             Append(@, [frame |-> frame, past |-> [handled[r] EXCEPT ![r] = Len(sent[r])], era |-> Len(slots[r])])]

(* The clock of p's n-th frame is longer than r's membership: p had added  *)
(* a member that r has not added yet.                                      *)
FutureEra(r, p, n) == sent[p][n].era > Len(slots[r])

(* Insert cannot tell the parents of such a frame and names only p's frame *)
(* before it.  With that one in the graph the frame is deferred on what is *)
(* there, and nothing wakes it (AddMember looks at no deferred frame); a   *)
(* first frame is dropped.                                                 *)
TooEarly(r, p) ==
  /\ early[r][p] <= handled[r][p]
  /\ \E n \in (handled[r][p] + 1)..Len(sent[p]) :
       /\ FutureEra(r, p, n)
       /\ \A i \in (handled[r][p] + 1)..(n - 1) : ~FutureEra(r, p, i)
       /\ early' = [early EXCEPT ![r][p] = n]
  /\ UNCHANGED <<local, reporting, session, outMap, inMap, thread, outbox, sent, handled, vain, budget>>

(* A later frame names p's n-th as missing, so that r asks for it: p's     *)
(* next one, whatever its era, or one of another member that Insert can    *)
(* tell the parents of.                                                    *)
Asked(r, p, n) ==
  \/ n < Len(sent[p])
  \/ \E q \in Member \ {p} : \E i \in (handled[r][q] + 1)..Len(sent[q]) :
       sent[q][i].past[p] = n /\ ~FutureEra(r, q, i) /\ early[r][q] # i

(* What the answer to that request is good for: it is inserted, or it was  *)
(* dropped and not deferred before, and waits for its parents now.         *)
Welcome(r, p, n) ==
  ~FutureEra(r, p, n) /\ (n = 1 \/ \A q \in Member \ {p} : sent[p][n].past[q] <= handled[r][q])

(* The answer comes when it is of no use: it is dropped, as a frame that   *)
(* is deferred already or as one of no known predecessor, and the request  *)
(* counts as outstanding for ever.                                         *)
AskedInVain(r, p) ==
  /\ early[r][p] > handled[r][p] /\ p \notin vain[r]
  /\ Asked(r, p, early[r][p]) /\ ~Welcome(r, p, early[r][p])
  /\ vain' = [vain EXCEPT ![r] = @ \cup {p}]
  /\ UNCHANGED <<local, reporting, session, outMap, inMap, thread, outbox, sent, handled, early, budget>>

(* p's next frame may be handed to r's pump: its clock is no longer than   *)
(* r's view, all of its past has been handed over, and r's own frames,     *)
(* which never travel, come first.  One that came too early has to be      *)
(* asked for.                                                              *)
Deliverable(r, p) ==
  LET n == handled[r][p] + 1
  IN /\ n <= Len(sent[p])
     /\ p # r => handled[r][r] = Len(sent[r])
     /\ \A q \in Member \ {p} : sent[p][n].past[q] <= handled[r][q]
     /\ ~FutureEra(r, p, n)
     /\ early[r][p] = n => p \notin vain[r] /\ Asked(r, p, n)

(* asyncSend: the goroutines of a replica run in any order. *)
AsyncSend(r) ==
  /\ \E f \in BagToSet(outbox[r]) :
       /\ Post(r, f)
       /\ outbox' = [outbox EXCEPT ![r] = @ (-) SetToBag({f})]
  /\ UNCHANGED <<local, reporting, session, outMap, inMap, thread, handled, early, vain, budget>>

-----------------------------------------------------------------------------
(* The failure detector's loop. *)

(* SendApp, or a tick after QuietInterval: a frame that proves its sender  *)
(* alive and asks for nothing.                                             *)
Beat(r) ==
  /\ budget.beats[r] > 0
  /\ budget' = [budget EXCEPT !.beats[r] = @ - 1]
  /\ outbox' = [outbox EXCEPT ![r] = @ (+) SetToBag({Heartbeat})]
  /\ UNCHANGED <<local, reporting, session, outMap, inMap, thread, net>>

(* tick finds one more peer silent for SuspicionInterval. *)
Tick(r) ==
  /\ reporting[r] = {}
  /\ \E p \in FD!NewlySuspected(fd[r], {q \in Known : budget.silences[r][q] > 0}) :
       /\ fd' = [fd EXCEPT ![r] = FD!Tick(@, {p})]
       /\ reporting' = [reporting EXCEPT ![r] = {p}]
       /\ budget' = [budget EXCEPT !.silences[r][p] = @ - 1]
  /\ UNCHANGED <<ml, slots, frozen, suspects, session, outMap, inMap, thread, outbox, net>>

(* onSuspect, called once tick has released the detector's lock. *)
OnSuspect(r) ==
  /\ reporting[r] # {}
  /\ suspects' = [suspects EXCEPT ![r] = @ \cup reporting[r]]
  /\ outbox' = [outbox EXCEPT ![r] =
                  @ (+) SetToBag({Frame("suspectDown", p) : p \in reporting[r]})]
  /\ reporting' = [reporting EXCEPT ![r] = {}]
  /\ UNCHANGED <<ml, slots, frozen, fd, session, outMap, inMap, thread, net, budget>>

-----------------------------------------------------------------------------
(* The pump.  Whatever arrives is proof of life of its sender. *)

Incoming(r, p) == sent[p][handled[r][p] + 1].frame

Take(r, p, kind) ==
  /\ thread[r][Pump] = Idle
  /\ Deliverable(r, p)
  /\ Incoming(r, p).kind = kind
  /\ handled' = [handled EXCEPT ![r][p] = @ + 1]
  /\ fd' = [fd EXCEPT ![r] = FD!NoteReceived(@, p)]
  /\ UNCHANGED <<slots, frozen, reporting, sent, early, vain, budget>>

(* clearSuspicion, and no other change of suspectDownList. *)
ClearSuspicion(r, p) == suspects' = [suspects EXCEPT ![r] = @ \ {p}]

(* The pump goes on to check the decision of session s. *)
Check(r, s) == thread' = [thread EXCEPT ![r][Pump] = At("decide", s)]

HandleHeartbeat(r, p) ==
  /\ Take(r, p, "heartbeat")
  /\ ClearSuspicion(r, p)
  /\ UNCHANGED <<ml, session, outMap, inMap, thread, outbox>>

HandleSuspectDown(r, p) ==
  /\ Take(r, p, "suspectDown")
  /\ suspects' = [suspects EXCEPT ![r] = (@ \ {p}) \cup ({Incoming(r, p).target} \ {r, p})]
  /\ UNCHANGED <<ml, session, outMap, inMap, thread, outbox>>

(* handleVoteOut up to the release of m.mu: the session, new or in the     *)
(* map, has the sender's Ack.                                              *)
HandleVoteOut(r, p) ==
  /\ Take(r, p, "voteOut")
  /\ ClearSuspicion(r, p)
  /\ LET t == Incoming(r, p).target
         s == outMap[r][t]
     IN \/ /\ t = r
           /\ outbox' = [outbox EXCEPT ![r] = @ (+) SetToBag({Frame("voteOutNack", t)})]
           /\ UNCHANGED <<session, outMap, thread>>
        \/ /\ t # r
           /\ p = r \/ ~IsMember(r, t)
           /\ UNCHANGED <<session, outMap, thread, outbox>>
        \/ /\ t # r /\ p # r /\ IsMember(r, t) /\ s # 0
           /\ session' = [session EXCEPT ![r][s].acked = @ \cup {p}]
           /\ thread' = [thread EXCEPT ![r][Pump] = At("judge", s)]
           /\ UNCHANGED <<outMap, outbox>>
        \/ /\ t # r /\ p # r /\ IsMember(r, t) /\ s = 0
           /\ session' = [session EXCEPT ![r] = Append(@, NewSession("out", t, ml[r], {p}))]
           /\ outMap' = [outMap EXCEPT ![r][t] = Len(session[r]) + 1]
           /\ thread' = [thread EXCEPT ![r][Pump] = At("judge", Len(session[r]) + 1)]
           /\ UNCHANGED outbox
  /\ UNCHANGED <<ml, inMap>>

(* Its policy: remove whom we suspect ourselves. *)
Judge(r) ==
  LET h == thread[r][Pump]
  IN /\ h.pc = "judge"
     /\ thread' = [thread EXCEPT ![r][Pump].pc =
                     IF session[r][h.s].target \in fd[r].suspected THEN "ack" ELSE "nack"]
     /\ UNCHANGED <<local, reporting, session, outMap, inMap, outbox, net, budget>>

(* The answer, in the session and to the others. *)
Respond(r) ==
  LET h == thread[r][Pump]
  IN /\ h.pc \in {"ack", "nack"}
     /\ session' = [session EXCEPT ![r][h.s] =
                      IF h.pc = "ack" THEN [@ EXCEPT !.acked = @ \cup {r}]
                      ELSE [@ EXCEPT !.nacked = @ \cup {r}]]
     /\ outbox' = [outbox EXCEPT ![r] =
                     @ (+) SetToBag({Frame(IF h.pc = "ack" THEN "voteOutAck" ELSE "voteOutNack",
                                           session[r][h.s].target)})]
     /\ Check(r, h.s)
     /\ UNCHANGED <<local, reporting, outMap, inMap, net, budget>>

(* handleVoteOutAck, handleVoteOutNack and handleVoteInAck: the answer is  *)
(* counted in whatever session the map holds for the target now.           *)
HandleAnswer(r, p, kind) ==
  /\ Take(r, p, kind)
  /\ ClearSuspicion(r, p)
  /\ LET t == Incoming(r, p).target
         s == IF kind = "voteInAck" THEN inMap[r][t] ELSE outMap[r][t]
     IN \/ s = 0 /\ UNCHANGED <<session, thread>>
        \/ /\ s # 0
           /\ session' = [session EXCEPT ![r][s] =
                IF kind = "voteOutNack" THEN [@ EXCEPT !.nacked = @ \cup {p}]
                ELSE [@ EXCEPT !.acked = @ \cup {p}]]
           /\ Check(r, s)
  /\ UNCHANGED <<ml, outMap, inMap, outbox>>

(* handleVoteIn acknowledges every proposal of somebody else. *)
HandleVoteIn(r, p) ==
  /\ Take(r, p, "voteIn")
  /\ ClearSuspicion(r, p)
  /\ outbox' = IF p = r THEN outbox
               ELSE [outbox EXCEPT ![r] =
                       @ (+) SetToBag({Frame("voteInAck", Incoming(r, p).target)})]
  /\ UNCHANGED <<ml, session, outMap, inMap, thread>>

(* Mutant: only a proposer applies the commit. *)
HandleMemberAddOfMine(r, p) ==
  /\ Take(r, p, "memberAdd")
  /\ ClearSuspicion(r, p)
  /\ LET t == Incoming(r, p).target
     IN \/ (IsMember(r, t) \/ inMap[r][t] = 0) /\ UNCHANGED <<ml, inMap, thread>>
        \/ /\ ~IsMember(r, t) /\ inMap[r][t] # 0
           /\ ml' = [ml EXCEPT ![r] = Append(@, t)]
           /\ inMap' = [inMap EXCEPT ![r][t] = 0]
           /\ thread' = [thread EXCEPT ![r][Pump] =
                           [pc |-> "admit", s |-> inMap[r][t], t |-> t]]
  /\ UNCHANGED <<session, outMap, outbox>>

(* handleMemberAdd and the part of applyMemberAdd under m.mu. *)
HandleMemberAdd(r, p) ==
  /\ Take(r, p, "memberAdd")
  /\ ClearSuspicion(r, p)
  /\ LET t == Incoming(r, p).target
     IN \/ IsMember(r, t) /\ UNCHANGED <<ml, inMap, thread>>
        \/ /\ ~IsMember(r, t)
           /\ ml' = [ml EXCEPT ![r] = Append(@, t)]
           /\ inMap' = [inMap EXCEPT ![r][t] = 0]
           /\ thread' = [thread EXCEPT ![r][Pump] =
                           [pc |-> "admit", s |-> inMap[r][t], t |-> t]]
  /\ UNCHANGED <<session, outMap, outbox>>

(* The rest of applyMemberAdd: psync grows, the detector tracks the new    *)
(* member, the callback runs, a waiting caller is released.                *)
Admit(r) ==
  LET h == thread[r][Pump]
  IN /\ h.pc = "admit"
     /\ slots' = [slots EXCEPT ![r] = IF h.t \in Range(@) THEN @ ELSE Append(@, h.t)]
     /\ fd' = [fd EXCEPT ![r] = FD!AddMember(@, r, h.t)]
     /\ session' = IF h.s = 0 THEN session
                   ELSE [session EXCEPT ![r][h.s] = Completed(@, "accepted")]
     /\ thread' = [thread EXCEPT ![r][Pump] = Idle]
     /\ UNCHANGED <<ml, frozen, suspects, reporting, outMap, inMap, outbox, net, budget>>

-----------------------------------------------------------------------------
(* Decisions, taken by the pump or by a caller on the session it holds. *)

(* Where goroutine k goes when its check is over. *)
Leave(r, k) ==
  thread' = [thread EXCEPT ![r][k] = IF k = Pump THEN Idle ELSE At("wait", @.s)]

(* checkVoteOutDecision up to session.mu.Unlock. *)
DecideOut(r, k) ==
  LET h == thread[r][k]
      s == session[r][h.s]
  IN /\ h.pc = "decide"
     /\ s.kind = "out"
     /\ \/ s.nacked # {} /\ thread' = [thread EXCEPT ![r][k].pc = "cancel"]
        \/ s.nacked = {} /\ ~HasQuorum(s) /\ Leave(r, k)
        \/ s.nacked = {} /\ HasQuorum(s) /\ thread' = [thread EXCEPT ![r][k].pc = "accept"]
     /\ UNCHANGED <<local, reporting, session, outMap, inMap, outbox, net, budget>>

(* Mutant: the waiter is not released. *)
CancelForgets(r, t, map, res) ==
  /\ UNCHANGED session
  /\ map' = [map EXCEPT ![r][t] = 0]

(* cancelSession and cancelVoteInSession: end the session the map holds    *)
(* for t, if any.                                                          *)
CancelSession(r, t, map, res) ==
  /\ session' = IF map[r][t] = 0 THEN session
                ELSE [session EXCEPT ![r][map[r][t]] = Completed(@, res)]
  /\ map' = [map EXCEPT ![r][t] = 0]

Nacked(r, k) ==
  LET h == thread[r][k]
  IN /\ h.pc = "cancel"
     /\ CancelSession(r, session[r][h.s].target, outMap, "nacked")
     /\ Leave(r, k)
     /\ UNCHANGED <<local, reporting, inMap, outbox, net, budget>>

(* The decision to remove, under m.mu: whatever session the map holds for  *)
(* the target is dropped from it.                                          *)
Accept(r, k) ==
  LET h == thread[r][k]
      t == session[r][h.s].target
  IN /\ h.pc = "accept"
     /\ outMap' = [outMap EXCEPT ![r][t] = 0]
     /\ ml' = [ml EXCEPT ![r] = SelectSeq(@, LAMBDA p : p # t)]
     /\ thread' = [thread EXCEPT ![r][k].pc = "finish"]
     /\ UNCHANGED <<slots, frozen, fd, suspects, reporting, session, inMap, outbox, net, budget>>

(* FreezeMember, RemoveMember, clearSuspicion, the callback, done. *)
FinishRemoval(r, k) ==
  LET h == thread[r][k]
      t == session[r][h.s].target
  IN /\ h.pc = "finish"
     /\ frozen' = [frozen EXCEPT ![r] = @ \cup {t}]
     /\ fd' = [fd EXCEPT ![r] = FD!RemoveMember(@, t)]
     /\ suspects' = [suspects EXCEPT ![r] = @ \ {t}]
     /\ session' = [session EXCEPT ![r][h.s] = Completed(@, "accepted")]
     /\ Leave(r, k)
     /\ UNCHANGED <<ml, slots, reporting, outMap, inMap, outbox, net, budget>>

(* checkVoteInDecision: the commit is broadcast once.  No replica ever     *)
(* sends a VoteInNack.                                                     *)
DecideIn(r, k) ==
  LET h == thread[r][k]
      s == session[r][h.s]
  IN /\ h.pc = "decide"
     /\ s.kind = "in"
     /\ IF s.committed \/ ~HasQuorum(s) THEN UNCHANGED <<session, outbox>>
        ELSE /\ session' = [session EXCEPT ![r][h.s].committed = TRUE]
             /\ outbox' = [outbox EXCEPT ![r] = @ (+) SetToBag({Frame("memberAdd", s.target)})]
     /\ Leave(r, k)
     /\ UNCHANGED <<local, reporting, outMap, inMap, net, budget>>

-----------------------------------------------------------------------------
(* A caller. *)

(* VoteOut and VoteIn up to the release of m.mu; a call that is refused    *)
(* changes nothing.                                                        *)
VoteOut(r, t) ==
  /\ thread[r][Caller] = Idle
  /\ budget.out[r][t] > 0
  /\ t # r /\ IsMember(r, t) /\ InMajority(r) /\ outMap[r][t] = 0
  /\ session' = [session EXCEPT ![r] = Append(@, NewSession("out", t, ml[r], {r}))]
  /\ outMap' = [outMap EXCEPT ![r][t] = Len(session[r]) + 1]
  /\ thread' = [thread EXCEPT ![r][Caller] = At("broadcast", Len(session[r]) + 1)]
  /\ budget' = [budget EXCEPT !.out[r][t] = @ - 1]
  /\ UNCHANGED <<local, reporting, inMap, outbox, net>>

VoteIn(r, t) ==
  /\ thread[r][Caller] = Idle
  /\ budget.in[r][t] > 0
  /\ t # r /\ ~IsMember(r, t) /\ InMajority(r) /\ inMap[r][t] = 0
  /\ session' = [session EXCEPT ![r] = Append(@, NewSession("in", t, ml[r], {r}))]
  /\ inMap' = [inMap EXCEPT ![r][t] = Len(session[r]) + 1]
  /\ thread' = [thread EXCEPT ![r][Caller] = At("broadcast", Len(session[r]) + 1)]
  /\ budget' = [budget EXCEPT !.in[r][t] = @ - 1]
  /\ UNCHANGED <<local, reporting, outMap, outbox, net>>

Mine(r) == session[r][thread[r][Caller].s]

(* broadcastVoteOut and broadcastVoteIn: a synchronous Send. *)
Broadcast(r) ==
  /\ thread[r][Caller].pc = "broadcast"
  /\ Post(r, Frame(IF Mine(r).kind = "out" THEN "voteOut" ELSE "voteIn", Mine(r).target))
  /\ thread' = [thread EXCEPT ![r][Caller].pc = "decide"]
  /\ UNCHANGED <<local, reporting, session, outMap, inMap, outbox, handled, early, vain, budget>>

(* The caller gives up: its Send failed, or its context or the vote timer  *)
(* ended.  It then waits for its own session's completion.                 *)
GiveUp(r, res) ==
  /\ IF Mine(r).kind = "out"
     THEN CancelSession(r, Mine(r).target, outMap, res) /\ UNCHANGED inMap
     ELSE CancelSession(r, Mine(r).target, inMap, res) /\ UNCHANGED outMap
  /\ thread' = [thread EXCEPT ![r][Caller].pc = "completing"]

BroadcastFails(r) ==
  /\ thread[r][Caller].pc = "broadcast"
  /\ budget.errors > 0
  /\ budget' = [budget EXCEPT !.errors = @ - 1]
  /\ GiveUp(r, "failed")
  /\ UNCHANGED <<local, reporting, outbox, net>>

Timeout(r) ==
  /\ thread[r][Caller].pc = "wait"
  /\ GiveUp(r, "timeout")
  /\ UNCHANGED <<local, reporting, outbox, net, budget>>

Return(r) ==
  /\ thread[r][Caller].pc \in {"wait", "completing"}
  /\ Mine(r).res # "open"
  /\ thread' = [thread EXCEPT ![r][Caller] = Idle]
  /\ UNCHANGED <<local, reporting, session, outMap, inMap, outbox, net, budget>>

-----------------------------------------------------------------------------
Handle(r, p) ==
  \/ HandleHeartbeat(r, p) \/ HandleSuspectDown(r, p)
  \/ HandleVoteOut(r, p)
  \/ \E kind \in {"voteOutAck", "voteOutNack", "voteInAck"} : HandleAnswer(r, p, kind)
  \/ HandleVoteIn(r, p) \/ HandleMemberAdd(r, p)

Decide(r, k) ==
  \/ DecideOut(r, k) \/ Nacked(r, k) \/ Accept(r, k) \/ DecideIn(r, k)

(* What goes on by itself: delivery, the goroutines, the vote timer. *)
Running ==
  \E r \in Up :
    \/ \E p \in Member : Handle(r, p)
    \/ \E p \in Member : TooEarly(r, p) \/ AskedInVain(r, p)
    \/ AsyncSend(r) \/ OnSuspect(r) \/ Judge(r) \/ Respond(r)
    \/ \E k \in Goroutine : Decide(r, k)
    \/ Broadcast(r) \/ Timeout(r)

(* What the application, the passage of time and faults bring. *)
Stimulus ==
  \E r \in Up :
    \/ Beat(r) \/ Tick(r) \/ BroadcastFails(r)
    \/ \E t \in Known : VoteOut(r, t)
    \/ \E t \in Candidates : VoteIn(r, t)

Next ==
  \/ Running \/ Stimulus
  \/ \E r \in Up : Admit(r) \/ (\E k \in Goroutine : FinishRemoval(r, k)) \/ Return(r)

Spec == Init /\ [][Next]_vars

-----------------------------------------------------------------------------
(* Types; no replica watches or suspects itself. *)
MembershipTypeOK ==
  /\ \A r \in Member :
       /\ ml[r] \in Seq(Known) /\ slots[r] \in Seq(Known) /\ frozen[r] \subseteq Known
       /\ fd[r] \in FD!Detector(Known \ {r})
       /\ suspects[r] \subseteq Known \ {r} /\ reporting[r] \subseteq Known
       /\ \A i \in DOMAIN session[r] :
            /\ session[r][i].target \in Known
            /\ session[r][i].acked \subseteq Member /\ session[r][i].nacked \subseteq Member
            /\ session[r][i].res \in {"open", "accepted", "nacked", "timeout", "failed"}
       /\ \A t \in Known : outMap[r][t] \in 0..Len(session[r])
       /\ \A t \in Candidates : inMap[r][t] \in 0..Len(session[r])
       /\ \A k \in Goroutine : thread[r][k].s \in 0..Len(session[r])
       /\ IsABag(outbox[r])
       /\ \A p \in Member : handled[r][p] \in 0..Len(sent[p]) /\ early[r][p] \in 0..Len(sent[p])
       /\ vain[r] \subseteq Member

(* The members that have asked for, or agreed to, t's removal. *)
Agreed(t) ==
  {p \in Member :
     \/ \E i \in DOMAIN sent[p] : sent[p][i].frame \in {Frame("voteOut", t), Frame("voteOutAck", t)}
     \/ Frame("voteOutAck", t) \in BagToSet(outbox[p])}

(* A replica drops a member from its list only in a session where more     *)
(* than half of the voters, itself among them, asked for the removal or    *)
(* agreed to it (checkVoteOutDecision's quorum, whichever goroutine takes  *)
(* the decision and however late).                                         *)
RemovalBacked ==
  \A r \in Member : \A t \in Range(slots[r]) \ Range(ml[r]) :
    \E i \in DOMAIN session[r] :
      LET s == session[r][i]
      IN /\ s.kind = "out" /\ s.target = t
         /\ r \in s.acked /\ s.acked \subseteq Agreed(t)
         /\ 2 * Cardinality(s.acked) > s.voters

(* Between decisions psync's unfrozen slots, in slot order, are the        *)
(* membership list, and the detector watches those same members: a removal *)
(* or an admission updates all three however the pump's and a caller's     *)
(* checks interleave.                                                      *)
ViewsAgree ==
  \A r \in Member :
    (\A k \in Goroutine : thread[r][k].pc \notin {"finish", "admit"})
      => /\ ml[r] = SelectSeq(slots[r], LAMBDA p : p \notin frozen[r])
         /\ fd[r].tracked = Range(ml[r]) \ {r}

(* A caller that has given up is answered: its own session is complete, or *)
(* the pump holds it and is about to complete it.  The exception is a call *)
(* whose target is gone already: an earlier call had given up, the pump    *)
(* decided its session late, and took the later one out of the map.  (Once *)
(* the vote timer has fired VoteOut and VoteIn wait for session.completed  *)
(* without a timer; cancelSession finds sessions by target.)               *)
NoCallStranded ==
  \A r \in Member :
    thread[r][Caller].pc = "completing" /\ Mine(r).res = "open"
      => \/ thread[r][Pump].pc \in {"finish", "admit"} /\ thread[r][Pump].s = thread[r][Caller].s
         \/ /\ Mine(r).kind = "out" /\ ~IsMember(r, Mine(r).target)
            /\ \E i \in 1..(thread[r][Caller].s - 1) :
                 session[r][i].target = Mine(r).target /\ session[r][i].res \in {"timeout", "failed"}
=============================================================================
