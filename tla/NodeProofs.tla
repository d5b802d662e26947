----------------------------- MODULE NodeProofs -----------------------------
(***************************************************************************)
(* What holds in the process of one member, for any number of peers,       *)
(* frames, calls, names, watchers and callers, and any capacities: of the  *)
(* transport, the registry and the batcher, while the member is shut down. *)
(***************************************************************************)
EXTENDS Node, RegistryProofs

-----------------------------------------------------------------------------
(* The invariants *)

Connection == [by : Call, addr : Addr]

SendTypes ==
  send \in [Call -> [pc : {"idle", "dial", "call", "sent", "failed", "unknown", "closed"},
                     peer : Peer \cup {None}, addr : Addr \cup {None},
                     conn : Connection \cup {None}]]

RouteTypes ==
  /\ server \in {"listening", "serving", "closing", "stopping", "closed"}
  /\ peers \in [DOMAIN peers -> Addr] /\ DOMAIN peers \subseteq Peer
  /\ conns \in [DOMAIN conns -> Connection] /\ DOMAIN conns \subseteq Peer
  /\ \A c \in Call : send[c].pc = "dial" => send[c].peer \in Peer /\ send[c].addr \in Addr

(* A Send between its two lock sections has the address of the table,      *)
(* unless the route has changed meanwhile.                                 *)
DialsCurrent ==
  \A c \in Call : send[c].pc = "dial" /\ send[c].peer \notin overtaken =>
    send[c].peer \in DOMAIN peers /\ send[c].addr = peers[send[c].peer]

(* A cached connection was dialled by a Send to that peer. *)
DialledOnce ==
  \A p \in DOMAIN conns :
    LET c == conns[p].by IN send[c].pc \notin {"idle", "dial"} /\ send[c].peer = p

(* Close has taken the connections away. *)
CloseEmpties == Closed => DOMAIN conns = {}

RouteInv ==
  /\ SendTypes /\ RouteTypes /\ DialsCurrent /\ DialledOnce /\ CloseEmpties
  /\ RoutesCurrent /\ NoConnectionLeaks

(* Whoever pushes to a channel is done when the channel is closed. *)
ChannelInv ==
  /\ server = "closed" => handling = {}
  /\ mux = "closed" => pump.pc = "done"
  /\ ChannelsClosedLast

(* No command is in two places, or in a place twice. *)
Placed ==
  /\ queue \in Seq(Caller) /\ pending \in Seq(Caller) /\ submitted \in Seq(Seq(Caller))
  /\ Distinct(queue) /\ Distinct(pending) /\ Range(queue) \cap Range(pending) = {}
  /\ \A i, j \in DOMAIN submitted : \A k \in DOMAIN submitted[i], l \in DOMAIN submitted[j] :
       submitted[i][k] = submitted[j][l] => i = j /\ k = l
  /\ \A i \in DOMAIN submitted : Range(submitted[i]) \cap (Range(queue) \cup Range(pending)) = {}

(* What a caller knows of its command. *)
Known(c) ==
  /\ caller[c].pc = "idle" =>
       /\ c \notin Range(queue) \cup Range(pending)
       /\ \A i \in DOMAIN submitted : c \notin Range(submitted[i])
  /\ caller[c].pc = "ok" =>
       caller[c].token \in DOMAIN submitted /\ c \in Range(submitted[caller[c].token])

CallerState == [pc : {"idle", "waiting", "refused", "gone", "ok", "error"}, token : Nat]

BatchInv ==
  /\ caller \in [Caller -> CallerState] /\ Placed /\ \A c \in Caller : Known(c)
  /\ loop \in {"select", "submit", "done"} /\ (loop # "submit" => pending = <<>>)

-----------------------------------------------------------------------------
(* Routes and connections *)

(* What the cache and the Sends are made of: all that RouteInv speaks of. *)
sendVars == <<server, peers, conns, open, overtaken, send>>

(* A step that leaves the routes, the connections and the Sends alone. *)
LEMMA QuietRoutes ==
  ASSUME RouteInv, Running, UNCHANGED sendVars
  PROVE  RouteInv'
BY DEF sendVars, RouteInv, SendTypes, RouteTypes, DialsCurrent, DialledOnce, CloseEmpties, Closed,
       RoutesCurrent, NoConnectionLeaks, Running

(* A route changes and the cached connection goes with it. *)
LEMMA InvalidateKeeps ==
  ASSUME RouteInv, Running, NEW p \in Peer, Invalidate(p), UNCHANGED <<panic, server, send>>,
         peers' \in [DOMAIN peers' -> Addr], DOMAIN peers' \subseteq Peer,
         \A q \in DOMAIN peers \ {p} : q \in DOMAIN peers' /\ peers'[q] = peers[q]
  PROVE  RouteInv'
<1>1. /\ SendTypes /\ RouteTypes /\ DialsCurrent /\ DialledOnce /\ CloseEmpties
      /\ RoutesCurrent /\ NoConnectionLeaks
  BY DEF RouteInv
<1>2. /\ DOMAIN conns' = DOMAIN conns \ {p} /\ \A q \in DOMAIN conns' : conns'[q] = conns[q]
      /\ conns' = [q \in DOMAIN conns' |-> conns'[q]]
      /\ overtaken' = IF Dialling(p) THEN overtaken \cup {p} ELSE overtaken
  BY DEF Invalidate, Restrict
<1>3. SendTypes' /\ RouteTypes'
  BY <1>1, <1>2 DEF SendTypes, RouteTypes
<1>4. DialsCurrent'
  BY <1>1, <1>2 DEF DialsCurrent, Dialling
<1>5. DialledOnce' /\ CloseEmpties'
  BY <1>1, <1>2 DEF DialledOnce, CloseEmpties, Closed
<1>6. RoutesCurrent'
  BY <1>1, <1>2 DEF RoutesCurrent
<1>7. NoConnectionLeaks'
  <2>1. \A q \in DOMAIN conns \ {p} : p \in DOMAIN conns => conns[q] # conns[p]
    BY <1>1 DEF DialledOnce
  <2>2. ASSUME server # "closing" PROVE open' = Range(conns')
    <3>1. open = Range(conns)
      BY <1>1, <2>2 DEF NoConnectionLeaks
    <3>2. open' = open \ {conns[q] : q \in DOMAIN conns \cap {p}}
      BY DEF Invalidate
    <3> QED
      BY <1>2, <2>1, <3>1, <3>2 DEF Range
  <2> QED
    BY <2>2 DEF NoConnectionLeaks
<1> QED
  BY <1>3, <1>4, <1>5, <1>6, <1>7 DEF RouteInv

(* AddPeer of a peer that is new, or is where it was. *)
LEMMA AddPeerKeeps ==
  ASSUME RouteInv, Running, NEW p \in Peer, NEW a \in Addr, AddPeer(p, a)
  PROVE  RouteInv'
<1>1. /\ peers' = [q \in DOMAIN peers \cup {p} |-> IF q = p THEN a ELSE peers[q]]
      /\ UNCHANGED <<panic, server, send>>
  BY DEF AddPeer, serverVars
<1>2. /\ peers' \in [DOMAIN peers' -> Addr] /\ DOMAIN peers' \subseteq Peer
      /\ \A q \in DOMAIN peers \ {p} : q \in DOMAIN peers' /\ peers'[q] = peers[q]
  BY <1>1 DEF RouteInv, RouteTypes
<1>3. CASE p \in DOMAIN peers /\ peers[p] # a
  <2>1. Invalidate(p)
    BY <1>3, SMTT(10), Z3T(30) DEF AddPeer
  <2> QED
    BY <1>1, <1>2, <2>1, InvalidateKeeps
<1>4. CASE ~(p \in DOMAIN peers /\ peers[p] # a)
  <2>1. UNCHANGED <<conns, open, overtaken>>
    BY <1>4 DEF AddPeer
  <2>2. \A q \in DOMAIN peers : q \in DOMAIN peers' /\ peers'[q] = peers[q]
    BY <1>1, <1>4
  <2> QED
    BY <1>1, <1>2, <2>1, <2>2
       DEF RouteInv, SendTypes, RouteTypes, DialsCurrent, DialledOnce, CloseEmpties, Closed,
           RoutesCurrent, NoConnectionLeaks, Running
<1> QED
  BY <1>3, <1>4

(* RemovePeer. *)
LEMMA RemovePeerKeeps ==
  ASSUME RouteInv, Running, NEW p \in Peer, RemovePeer(p)
  PROVE  RouteInv'
<1>1. /\ peers' = [q \in DOMAIN peers \ {p} |-> peers[q]] /\ Invalidate(p)
      /\ UNCHANGED <<panic, server, send>>
  BY DEF RemovePeer, serverVars, Restrict
<1>2. /\ peers' \in [DOMAIN peers' -> Addr] /\ DOMAIN peers' \subseteq Peer
      /\ \A q \in DOMAIN peers \ {p} : q \in DOMAIN peers' /\ peers'[q] = peers[q]
  BY <1>1, ZenonT(30) DEF RouteInv, RouteTypes
<1> QED
  BY <1>1, <1>2, InvalidateKeeps

(* The first lock section of Send. *)
LEMMA SendBeginKeeps ==
  ASSUME RouteInv, Running, NEW c \in Call, NEW p \in Peer, SendBegin(c, p)
  PROVE  RouteInv'
<1>1. /\ SendTypes /\ RouteTypes /\ DialsCurrent /\ DialledOnce /\ CloseEmpties
      /\ RoutesCurrent /\ NoConnectionLeaks
  BY DEF RouteInv
<1>2. UNCHANGED <<panic, server, peers, conns, open, overtaken>> /\ send[c].pc = "idle"
  BY DEF SendBegin, routeVars, serverVars, NoSend
<1> DEFINE Begun == [pc : {"closed", "unknown", "call", "dial"}, peer : Peer \cup {None},
                    addr : Addr \cup {None}, conn : Connection \cup {None}]
<1>3. PICK s \in Begun :
        /\ send' = [send EXCEPT ![c] = s]
        /\ s.pc = "dial" => p \in DOMAIN peers /\ s.peer = p /\ s.addr = peers[p]
  <2>1. CASE ViewClosed \/ Closed
    <3> DEFINE t == [pc |-> "closed", peer |-> None, addr |-> None, conn |-> None]
    <3>1. [NoSend EXCEPT !.pc = "closed"] = t
      BY DEF NoSend
    <3>2. t \in Begun /\ (t.pc = "dial" => p \in DOMAIN peers /\ t.peer = p /\ t.addr = peers[p])
      BY <2>1
    <3> QED
      BY <2>1, <3>1, <3>2, ZenonT(30) DEF SendBegin
  <2>2. CASE ~(ViewClosed \/ Closed) /\ p \notin DOMAIN peers
    <3> DEFINE t == [pc |-> "unknown", peer |-> None, addr |-> None, conn |-> None]
    <3>1. [NoSend EXCEPT !.pc = "unknown"] = t
      BY DEF NoSend
    <3>2. t \in Begun /\ (t.pc = "dial" => p \in DOMAIN peers /\ t.peer = p /\ t.addr = peers[p])
      BY <2>2
    <3> QED
      BY <2>2, <3>1, <3>2, ZenonT(30) DEF SendBegin
  <2>3. CASE ~(ViewClosed \/ Closed) /\ p \in DOMAIN peers /\ p \in DOMAIN conns
    <3> DEFINE t == [pc |-> "call", peer |-> p, addr |-> peers[p], conn |-> conns[p]]
    <3>1. send' = [send EXCEPT ![c] = t]
      BY <2>3 DEF SendBegin
    <3>2. t \in Begun /\ (t.pc = "dial" => p \in DOMAIN peers /\ t.peer = p /\ t.addr = peers[p])
      BY <1>1, <2>3 DEF RouteTypes
    <3> QED
      BY <3>1, <3>2, ZenonT(30)
  <2>4. CASE ~(ViewClosed \/ Closed) /\ p \in DOMAIN peers /\ p \notin DOMAIN conns
    <3> DEFINE t == [pc |-> "dial", peer |-> p, addr |-> peers[p], conn |-> None]
    <3>1. send' = [send EXCEPT ![c] = t]
      BY <2>4 DEF SendBegin
    <3>2. t \in Begun /\ (t.pc = "dial" => p \in DOMAIN peers /\ t.peer = p /\ t.addr = peers[p])
      BY <1>1, <2>4 DEF RouteTypes
    <3> QED
      BY <3>1, <3>2, ZenonT(30)
  <2> QED
    BY <2>1, <2>2, <2>3, <2>4
<1>4. CloseEmpties' /\ RoutesCurrent' /\ NoConnectionLeaks'
  BY <1>1, <1>2 DEF CloseEmpties, Closed, RoutesCurrent, NoConnectionLeaks, Running
<1> QED
  BY <1>1, <1>2, <1>3, <1>4
     DEF RouteInv, DialledOnce, RouteTypes, Connection, SendTypes, DialsCurrent

(* The second lock section of Send: the connection is cached, or closed    *)
(* because there is one already.                                           *)
LEMMA SendDialKeeps ==
  ASSUME RouteInv, Running, NEW c \in Call, SendDial(c)
  PROVE  RouteInv'
<1> DEFINE peer == send[c].peer
<1>1. /\ SendTypes /\ RouteTypes /\ DialsCurrent /\ DialledOnce /\ CloseEmpties
      /\ RoutesCurrent /\ NoConnectionLeaks
  BY DEF RouteInv
<1>2. send[c].pc = "dial" /\ UNCHANGED <<server, peers, overtaken>>
  BY ZenonT(30) DEF SendDial, serverVars
<1>3. peer \in Peer /\ send[c].addr \in Addr /\ Dialled(c) \in Connection
      /\ Dialled(c).by = c /\ Dialled(c).addr = send[c].addr
  BY <1>1, <1>2 DEF RouteTypes, Dialled, Connection
<1>4. PICK k \in Connection : send' = [send EXCEPT ![c].pc = "call", ![c].conn = k]
  <2>1. CASE peer \in DOMAIN conns
    BY <1>1, <2>1 DEF SendDial, RouteTypes
  <2>2. CASE peer \notin DOMAIN conns
    <3>1. send' = [send EXCEPT ![c].pc = "call", ![c].conn = Dialled(c)]
      BY <2>2, ZenonT(30) DEF SendDial
    <3> QED
      BY <1>3, <3>1, ZenonT(30)
  <2> QED
    BY <2>1, <2>2
<1>5. /\ SendTypes' /\ send'[c].pc = "call" /\ send'[c].peer = peer
      /\ \A d \in Call \ {c} : send'[d] = send[d]
  BY <1>1, <1>4, ZenonT(30) DEF SendTypes
<1>6. CASE peer \in DOMAIN conns
  <2>1. UNCHANGED <<panic, conns, open>>
    BY <1>6 DEF SendDial
  <2>2. RouteTypes' /\ DialsCurrent'
    BY <1>1, <1>2, <1>5, <2>1 DEF RouteTypes, DialsCurrent
  <2>3. CloseEmpties' /\ RoutesCurrent' /\ NoConnectionLeaks'
    BY <1>1, <1>2, <2>1, ZenonT(30)
       DEF CloseEmpties, Closed, RoutesCurrent, NoConnectionLeaks, Running
  <2> QED
    BY <1>1, <1>2, <1>5, <2>1, <2>2, <2>3
       DEF RouteInv, RouteTypes, DialledOnce, Connection
<1>7. CASE peer \notin DOMAIN conns /\ Closed
  <2>1. UNCHANGED conns /\ ~Running'
    BY <1>7, ZenonT(30) DEF SendDial, Unless, Running
  <2>2. RouteTypes' /\ DialsCurrent'
    BY <1>1, <1>2, <1>5, <2>1 DEF RouteTypes, DialsCurrent
  <2>3. CloseEmpties' /\ RoutesCurrent' /\ NoConnectionLeaks'
    BY <1>1, <1>2, <2>1 DEF CloseEmpties, Closed, RoutesCurrent, NoConnectionLeaks
  <2> QED
    BY <1>1, <1>2, <1>5, <2>1, <2>2, <2>3
       DEF RouteInv, RouteTypes, DialledOnce, Connection
<1>8. CASE peer \notin DOMAIN conns /\ ~Closed
  <2>1. /\ conns' = [q \in DOMAIN conns \cup {peer} |-> IF q = peer THEN Dialled(c) ELSE conns[q]]
        /\ open' = open \cup {Dialled(c)}
    BY <1>8, ZenonT(30) DEF SendDial
  <2>2. /\ conns' \in [DOMAIN conns' -> Connection] /\ DOMAIN conns' = DOMAIN conns \cup {peer}
        /\ conns'[peer] = Dialled(c) /\ \A q \in DOMAIN conns : conns'[q] = conns[q]
    BY <1>1, <1>3, <1>8, <2>1, SMTT(10), Z3T(30) DEF RouteTypes
  <2>3. RouteTypes' /\ DialsCurrent'
    BY <1>1, <1>2, <1>3, <1>5, <2>2, SMTT(10), Z3T(30) DEF RouteTypes, DialsCurrent
  <2>4. DialledOnce'
    <3>1. \A q \in DOMAIN conns : conns[q].by \in Call /\ conns[q].by # c
      BY <1>1, <1>2 DEF RouteTypes, DialledOnce, Connection
    <3> QED
      BY <1>1, <1>3, <1>5, <2>2, <3>1, SMTT(10), Z3T(30) DEF DialledOnce
  <2>5. RoutesCurrent'
    BY <1>1, <1>2, <1>3, <2>2 DEF RoutesCurrent, DialsCurrent
  <2>6. NoConnectionLeaks'
    <3>1. open = Range(conns)
      BY <1>1, <1>8 DEF NoConnectionLeaks, Closed
    <3> QED
      BY <2>1, <2>2, <3>1 DEF NoConnectionLeaks, Range
  <2>7. CloseEmpties'
    BY <1>2, <1>8, SMTT(10), Z3T(30) DEF CloseEmpties, Closed
  <2> QED
    BY <1>5, <2>3, <2>4, <2>5, <2>6, <2>7 DEF RouteInv
<1> QED
  BY <1>6, <1>7, <1>8

(* The RPC of Send, and a dial that fails. *)
LEMMA SendCallKeeps ==
  ASSUME RouteInv, Running, NEW c \in Call, SendCall(c) \/ SendDialFails(c)
  PROVE  RouteInv'
<1>1. /\ SendTypes /\ RouteTypes /\ DialsCurrent /\ DialledOnce /\ CloseEmpties
      /\ RoutesCurrent /\ NoConnectionLeaks
  BY DEF RouteInv
<1>2. /\ send[c].pc \in {"call", "dial"} /\ UNCHANGED <<panic, server, peers, conns, open, overtaken>>
      /\ \E result \in {"sent", "failed"} : send' = [send EXCEPT ![c].pc = result]
  BY ZenonT(30) DEF SendCall, SendDialFails, routeVars, serverVars
<1>3. /\ SendTypes' /\ send'[c].pc \in {"sent", "failed"} /\ send'[c].peer = send[c].peer
      /\ \A d \in Call \ {c} : send'[d] = send[d]
  BY <1>1, <1>2 DEF SendTypes
<1>4. RouteTypes' /\ DialsCurrent'
  BY <1>1, <1>2, <1>3 DEF RouteTypes, DialsCurrent
<1>5. DialledOnce'
  BY <1>1, <1>2, <1>3 DEF RouteTypes, DialledOnce, Connection
<1>6. CloseEmpties' /\ RoutesCurrent' /\ NoConnectionLeaks'
  BY <1>1, <1>2 DEF CloseEmpties, Closed, RoutesCurrent, NoConnectionLeaks, Running
<1> QED
  BY <1>3, <1>4, <1>5, <1>6 DEF RouteInv

(* Start, and the steps of Network.Close. *)
LEMMA ServerKeeps ==
  ASSUME RouteInv, Running, Start \/ NetClose \/ NetStop \/ NetClosed
  PROVE  RouteInv'
<1>1. /\ SendTypes /\ RouteTypes /\ DialsCurrent /\ DialledOnce /\ CloseEmpties
      /\ RoutesCurrent /\ NoConnectionLeaks
  BY DEF RouteInv
<1>2. UNCHANGED <<panic, peers, overtaken, send>>
  BY DEF Start, NetClose, NetStop, NetClosed, routeVars
<1>3. \/ UNCHANGED conns
      \/ conns' = [p \in {} |-> None]
  BY DEF Start, NetClose, NetStop, NetClosed, routeVars
<1>4. SendTypes' /\ RouteTypes' /\ DialsCurrent' /\ DialledOnce' /\ RoutesCurrent'
  <2>1. server' \in {"serving", "closing", "stopping", "closed"}
    BY DEF Start, NetClose, NetStop, NetClosed
  <2>2. CASE UNCHANGED conns
    BY <1>1, <1>2, <2>1, <2>2, ZenonT(30)
       DEF SendTypes, RouteTypes, DialsCurrent, DialledOnce, RoutesCurrent
  <2>3. CASE conns' = [p \in {} |-> None]
    BY <1>1, <1>2, <2>1, <2>3, SMTT(10), Z3T(30)
       DEF SendTypes, RouteTypes, DialsCurrent, DialledOnce, RoutesCurrent
  <2> QED
    BY <1>3, <2>2, <2>3
<1>5. CloseEmpties'
  BY <1>1 DEF CloseEmpties, Closed, Start, NetClose, NetStop, NetClosed, routeVars
<1>6. NoConnectionLeaks'
  <2>1. CASE Start
    BY <1>1, <1>2, <2>1, SMTT(10), Z3T(30) DEF NoConnectionLeaks, Running, Start
  <2>2. CASE NetClose
    BY <2>2 DEF NoConnectionLeaks, NetClose
  <2>3. CASE NetStop
    BY <1>1, <2>3 DEF NoConnectionLeaks, NetStop, CloseEmpties, Closed, Range
  <2>4. CASE NetClosed
    BY <1>1, <1>2, <2>4 DEF NoConnectionLeaks, Running, NetClosed, routeVars
  <2> QED
    BY <2>1, <2>2, <2>3, <2>4, SMTT(10), Z3T(30)
<1> QED
  BY <1>4, <1>5, <1>6 DEF RouteInv

-----------------------------------------------------------------------------
(* The transport in the process *)

(* What the environment may do stays a plan. *)
PlanOK == plan \in Plan

(* The calls, watchers and callers of a plan are those of the process. *)
LEMMA PlanBounds ==
  ASSUME PlanOK
  PROVE  plan.calls \subseteq Call /\ plan.watchers \subseteq Watcher /\ plan.callers \subseteq Caller
BY DEF PlanOK, Plan

(* Every step keeps the routes and connections as they should be. *)
LEMMA StepRoutes ==
  ASSUME PlanOK, RouteInv, [NodeNext]_nodeVars
  PROVE  RouteInv'
<1>1. CASE UNCHANGED nodeVars
  BY <1>1, SMTT(10), Z3T(30)
     DEF nodeVars, transportVars, routeVars, serverVars, RouteInv, SendTypes,
         RouteTypes, DialsCurrent, DialledOnce, CloseEmpties, Closed, RoutesCurrent,
         NoConnectionLeaks, Running
<1>2. CASE NodeNext
  <2> USE <1>2
  <2>1. Running
    BY DEF NodeNext
  <2>2. CASE Reroute
    <3>1. PICK p \in Peer : RemovePeer(p) \/ \E a \in Addr : AddPeer(p, a)
      BY <2>2 DEF Reroute
    <3> QED
      BY <2>1, <3>1, AddPeerKeeps, RemovePeerKeeps
  <2>3. CASE Start \/ NetClose \/ NetStop \/ NetClosed
    BY <2>1, <2>3, ServerKeeps
  <2>4. CASE \E c \in plan.calls : Sending(c)
    <3>1. PICK c \in Call : Sending(c)
      BY <2>4, PlanBounds
    <3> QED
      BY <2>1, <3>1, SendDialKeeps, SendCallKeeps, SendBeginKeeps DEF Sending
  <2>5. CASE UNCHANGED sendVars
    BY <2>1, <2>5, QuietRoutes
  <2>6. TransportStep \/ ClusterClose =>
          \/ Start \/ NetClose \/ NetStop \/ NetClosed
          \/ \E c \in plan.calls : Sending(c)
          \/ UNCHANGED sendVars
    <3>1. ASSUME NEW f \in Frame, Arrive(f) \/ Handle(f) PROVE UNCHANGED sendVars
      BY <3>1, ZenonT(30) DEF Arrive, Handle, sendVars, routeVars
    <3>2. ASSUME NEW v, ForConversation(v) \/ ViewRecv(v) PROVE UNCHANGED sendVars
      BY <3>2, ZenonT(30) DEF ForConversation, ViewRecv, sendVars, routeVars, serverVars
    <3>3. PumpTake \/ PumpPush \/ PumpExit => UNCHANGED sendVars
      BY ZenonT(30) DEF PumpTake, PumpPush, PumpExit, sendVars, routeVars, serverVars
    <3>4. MuxStop \/ MuxClose => UNCHANGED sendVars
      BY DEF MuxStop, MuxClose, sendVars, routeVars, serverVars
    <3> QED
      BY <3>1, <3>2, <3>3, <3>4, ZenonT(30) DEF TransportStep, ClusterClose
  <2>7. UNCHANGED transportVars => UNCHANGED sendVars
    BY DEF transportVars, routeVars, serverVars, sendVars
  <2> QED
    BY <2>2, <2>3, <2>4, <2>5, <2>6, <2>7, SMTT(10), Z3T(30) DEF NodeNext
<1> QED
  BY <1>1, <1>2, ZenonT(30)

(* The invariant of the channels is kept: a handler pushes only before the *)
(* server has waited for it, the pump only before the multiplexer has.     *)
LEMMA StepChannels ==
  ASSUME ChannelInv, [NodeNext]_nodeVars
  PROVE  ChannelInv'
<1> DEFINE quiet == UNCHANGED <<server, handling, mux, pump>>
           mild == panic' = panic \/ panic' \in {"Send: nil conns", "ForConversation: nil views",
                                                 "notify: closed watcher"}
<1>1. ASSUME quiet, mild PROVE ChannelInv'
  BY <1>1, ZenonT(30) DEF ChannelInv, ChannelsClosedLast
<1>2. UNCHANGED nodeVars => quiet /\ mild
  BY DEF nodeVars, transportVars, serverVars, muxVars
<1>3. Reroute => quiet /\ mild
  BY ZenonT(30) DEF Reroute, RemovePeer, AddPeer, serverVars, muxVars
<1>4. RegistryStep /\ UNCHANGED transportVars => quiet /\ mild
  <2>1. UNCHANGED transportVars => quiet
    BY ZenonT(30) DEF transportVars, serverVars, muxVars
  <2>2. ASSUME NEW r \in Replica,
               SubmitMetadata(r) \/ Receive(r) \/ Adapt(r) \/ ApplyMessage(r) \/ Dispatch(r)
        PROVE  mild
    BY <2>2, ZenonT(30) DEF SubmitMetadata, Receive, Adapt, ApplyMessage, Dispatch
  <2>3. ASSUME NEW r \in Replica, NEW w \in Watcher, Notify(r, w) \/ Replace(r, w)
        PROVE  mild
    BY <2>3, ZenonT(30) DEF Notify, Replace, Unless
  <2>4. ASSUME NEW w, Watch(w) \/ CancelWatch(w) \/ Observe(w)
        PROVE  mild
    BY <2>4, ZenonT(30) DEF Watch, CancelWatch, Observe
  <2> QED
    BY <2>1, <2>2, <2>3, <2>4, ZenonT(30) DEF RegistryStep
<1>5. UNCHANGED <<panic, transportVars>> => quiet /\ mild
  BY DEF transportVars, serverVars, muxVars
<1>6. ASSUME NEW c, Sending(c)
      PROVE  quiet /\ mild
  BY <1>6, ZenonT(30) DEF Sending, SendDial, SendDialFails, SendCall, SendBegin, Unless, serverVars, muxVars
<1>7. ASSUME NEW v, ForConversation(v) \/ ViewRecv(v) PROVE quiet /\ mild
  BY <1>7, ZenonT(30) DEF ForConversation, ViewRecv, Unless, serverVars
<1>8. ASSUME NEW f, Arrive(f) \/ Handle(f) PROVE ChannelInv'
  BY <1>8, ZenonT(30)
     DEF Arrive, Handle, Unless, muxVars, ChannelInv, ChannelsClosedLast
<1>9. Start \/ NetClose \/ NetStop \/ NetClosed => ChannelInv'
  BY ZenonT(30)
     DEF Start, NetClose, NetStop, NetClosed, muxVars, ChannelInv, ChannelsClosedLast
<1>10. ASSUME PumpTake \/ PumpPush \/ PumpExit PROVE ChannelInv'
  BY <1>10, ZenonT(30)
     DEF PumpTake, PumpPush, PumpExit, Unless, Idle, serverVars, ChannelInv,
         ChannelsClosedLast
<1>11. MuxStop \/ MuxClose => ChannelInv'
  BY ZenonT(30) DEF MuxStop, MuxClose, serverVars, ChannelInv, ChannelsClosedLast
<1> HIDE DEF quiet, mild
<1>12. TransportStep \/ ClusterClose => ChannelInv'
  BY <1>1, <1>6, <1>7, <1>8, <1>9, <1>10, <1>11, ZenonT(30) DEF TransportStep, ClusterClose
<1> QED
  BY <1>1, <1>2, <1>3, <1>4, <1>5, <1>12, SMTT(10), Z3T(30) DEF NodeNext

-----------------------------------------------------------------------------
(* Batches *)

(* A queue cut in two. *)
LEMMA CutInTwo ==
  ASSUME NEW s \in Seq(Caller), Distinct(s), NEW n \in 1..Len(s)
  PROVE  /\ SubSeq(s, 1, n) \in Seq(Caller) /\ Distinct(SubSeq(s, 1, n))
         /\ SubSeq(s, n + 1, Len(s)) \in Seq(Caller) /\ Distinct(SubSeq(s, n + 1, Len(s)))
         /\ Range(SubSeq(s, 1, n)) \cap Range(SubSeq(s, n + 1, Len(s))) = {}
         /\ Range(SubSeq(s, 1, n)) \subseteq Range(s)
         /\ Range(SubSeq(s, n + 1, Len(s))) \subseteq Range(s)
<1> DEFINE a == SubSeq(s, 1, n)
           b == SubSeq(s, n + 1, Len(s))
<1>1. /\ a \in Seq(Caller) /\ Len(a) = n /\ \A k \in 1..n : a[k] = s[k] /\ k \in 1..Len(s)
  OBVIOUS
<1>2. /\ b \in Seq(Caller) /\ Len(b) = Len(s) - n
      /\ \A k \in 1..(Len(s) - n) : b[k] = s[n + k] /\ n + k \in 1..Len(s)
  OBVIOUS
<1>3. /\ DOMAIN a = 1..n /\ DOMAIN b = 1..(Len(s) - n) /\ DOMAIN s = 1..Len(s)
      /\ n \in Nat /\ Len(s) \in Nat
  BY <1>1, <1>2
<1> HIDE DEF a, b
<1>4. Distinct(a)
  BY <1>1, <1>3 DEF Distinct
<1>5. Distinct(b)
  <2> SUFFICES ASSUME NEW k \in DOMAIN b, NEW l \in DOMAIN b, b[k] = b[l] PROVE k = l
    BY DEF Distinct
  <2>1. n + k = n + l
    BY <1>2, <1>3, ZenonT(30) DEF Distinct
  <2> QED
    BY <1>3, <2>1
<1>6. ASSUME NEW k \in 1..n, NEW l \in 1..(Len(s) - n) PROVE a[k] # b[l]
  <2>1. k # n + l /\ k \in DOMAIN s /\ n + l \in DOMAIN s
    BY <1>3
  <2> QED
    BY <1>1, <1>2, <2>1, ZenonT(30) DEF Distinct
<1>7. Range(a) \cap Range(b) = {}
  BY <1>3, <1>6, ZenonT(30) DEF Range
<1>8. Range(a) \subseteq Range(s) /\ Range(b) \subseteq Range(s)
  <2>1. \A k \in DOMAIN b : \E i \in DOMAIN s : b[k] = s[i]
    BY <1>2, <1>3, ZenonT(30)
  <2> QED
    BY <1>1, <1>3, <2>1 DEF Range
<1> QED
  BY <1>1, <1>2, <1>4, <1>5, <1>7, <1>8, SMTT(10), Z3T(30) DEF a, b

(* A caller's place in the queue. *)
LEMMA EnqueueKeeps ==
  ASSUME BatchInv, NEW c \in Caller, Enqueue(c)
  PROVE  BatchInv'
<1>1. /\ caller \in [Caller -> CallerState] /\ Placed /\ \A d \in Caller : Known(d)
      /\ loop \in {"select", "submit", "done"} /\ (loop # "submit" => pending = <<>>)
  BY DEF BatchInv
<1>2. /\ queue' = Append(queue, c) /\ UNCHANGED <<loop, pending, submitted>>
      /\ caller[c].pc = "idle" /\ caller' = [caller EXCEPT ![c].pc = "waiting"]
  BY DEF Enqueue, Becomes
<1>3. /\ c \notin Range(queue) /\ c \notin Range(pending)
      /\ \A i \in DOMAIN submitted : c \notin Range(submitted[i])
  BY <1>1, <1>2 DEF Known
<1>4. queue' \in Seq(Caller) /\ Distinct(queue') /\ Range(queue') = Range(queue) \cup {c}
  BY <1>1, <1>2, <1>3, OneMore DEF Placed
<1>5. Placed'
  <2>1. /\ queue' \in Seq(Caller) /\ pending \in Seq(Caller) /\ submitted \in Seq(Seq(Caller))
        /\ Distinct(queue') /\ Distinct(pending) /\ Range(queue') \cap Range(pending) = {}
    BY <1>1, <1>3, <1>4, ZenonT(30) DEF Placed
  <2>2. ASSUME NEW i \in DOMAIN submitted
        PROVE  Range(submitted[i]) \cap (Range(queue') \cup Range(pending)) = {}
    BY <1>1, <1>3, <1>4 DEF Placed
  <2> QED
    BY <1>1, <1>2, <2>1, <2>2 DEF Placed
<1> QED
  BY <1>1, <1>2, <1>4, <1>5 DEF BatchInv, Known, CallerState

(* A caller that is refused or gives up. *)
LEMMA LeavesKeeps ==
  ASSUME BatchInv, NEW c \in Caller, Refused(c) \/ GivesUp(c)
  PROVE  BatchInv'
<1>1. /\ caller \in [Caller -> CallerState] /\ Placed /\ \A d \in Caller : Known(d)
      /\ loop \in {"select", "submit", "done"} /\ (loop # "submit" => pending = <<>>)
  BY DEF BatchInv
<1>2. /\ UNCHANGED <<queue, loop, pending, submitted>>
      /\ \E pc \in {"refused", "gone"} : caller' = [caller EXCEPT ![c].pc = pc]
  BY DEF Refused, GivesUp, Becomes
<1>3. /\ caller' \in [Caller -> CallerState] /\ caller'[c].pc \in {"refused", "gone"}
      /\ \A d \in Caller \ {c} : caller'[d] = caller[d]
  BY <1>1, <1>2 DEF CallerState
<1>4. Placed' /\ \A d \in Caller : Known(d)'
  BY <1>1, <1>2, <1>3, SMTT(10), Z3T(30) DEF Known, Placed
<1> QED
  BY <1>1, <1>2, <1>3, <1>4, SMTT(10), Z3T(30) DEF BatchInv

(* The loop takes a batch off the queue. *)
LEMMA CollectKeeps ==
  ASSUME BatchInv, Collect
  PROVE  BatchInv'
<1>1. /\ caller \in [Caller -> CallerState] /\ Placed /\ \A d \in Caller : Known(d)
      /\ (loop # "submit" => pending = <<>>)
  BY DEF BatchInv
<1>2. /\ pending = <<>> /\ loop' = "submit" /\ UNCHANGED <<caller, submitted>>
      /\ \E n \in 1..Len(queue) : /\ pending' = pending \o SubSeq(queue, 1, n)
                                  /\ queue' = SubSeq(queue, n + 1, Len(queue))
  BY <1>1 DEF Collect
<1>3. PICK n \in 1..Len(queue) : /\ pending' = pending \o SubSeq(queue, 1, n)
                                 /\ queue' = SubSeq(queue, n + 1, Len(queue))
  BY <1>2
<1>4. queue \in Seq(Caller) /\ Distinct(queue)
  BY <1>1, ZenonT(30) DEF Placed
<1>5. /\ queue' \in Seq(Caller) /\ pending' \in Seq(Caller) /\ Distinct(queue') /\ Distinct(pending')
      /\ Range(pending') \cap Range(queue') = {}
      /\ Range(pending') \subseteq Range(queue) /\ Range(queue') \subseteq Range(queue)
  <2>1. /\ SubSeq(queue, 1, n) \in Seq(Caller) /\ Distinct(SubSeq(queue, 1, n))
        /\ SubSeq(queue, n + 1, Len(queue)) \in Seq(Caller)
        /\ Distinct(SubSeq(queue, n + 1, Len(queue)))
        /\ Range(SubSeq(queue, 1, n)) \cap Range(SubSeq(queue, n + 1, Len(queue))) = {}
        /\ Range(SubSeq(queue, 1, n)) \subseteq Range(queue)
        /\ Range(SubSeq(queue, n + 1, Len(queue))) \subseteq Range(queue)
    BY <1>4, CutInTwo
  <2>2. queue' = SubSeq(queue, n + 1, Len(queue))
    BY <1>3, SMTT(10), Z3T(30)
  <2> QED
    BY <1>2, <1>3, <1>4, <2>1, <2>2, SMTT(10), Z3T(30)
<1>6. Placed'
  BY <1>1, <1>2, <1>5, SMTT(10), Z3T(30) DEF Placed
<1>7. \A d \in Caller : Known(d)'
  BY <1>1, <1>2, <1>5, ZenonT(30) DEF Known
<1> QED
  BY <1>1, <1>2, <1>6, <1>7, ZenonT(30) DEF BatchInv

(* The end of a batch: everyone in it is answered, and it is submitted, or *)
(* not, or perhaps.  A token is given only for a batch that is submitted.  *)
LEMMA EndOfBatch ==
  ASSUME BatchInv, NEW result \in {"ok", "error"}, NEW token \in Nat,
         caller' = Answered(result, token), pending' = <<>>, UNCHANGED queue,
         loop' \in {"select", "done"},
         \/ submitted' = submitted /\ result = "error"
         \/ submitted' = Append(submitted, pending) /\ (result = "ok" => token = Len(submitted) + 1)
  PROVE  BatchInv'
<1>1. /\ caller \in [Caller -> CallerState] /\ Placed /\ \A d \in Caller : Known(d)
      /\ (loop # "submit" => pending = <<>>)
  BY SMTT(10), Z3T(30) DEF BatchInv
<1>2. /\ caller' \in [Caller -> CallerState]
      /\ \A c \in Caller : \/ caller'[c] = caller[c]
                           \/ /\ c \in Range(pending) /\ caller'[c].pc = result
                              /\ caller'[c].token = token
  BY <1>1 DEF Answered, CallerState
<1>3. Range(pending') = {} /\ pending' \in Seq(Caller) /\ Distinct(pending')
  BY DEF Range, Distinct
<1>4. CASE submitted' = submitted /\ result = "error"
  <2>1. Placed'
    BY <1>1, <1>3, <1>4 DEF Placed
  <2>2. \A c \in Caller : Known(c)'
    BY <1>1, <1>2, <1>3, <1>4, ZenonT(30) DEF Known
  <2> QED
    BY <1>2, <2>1, <2>2, ZenonT(30) DEF BatchInv
<1>5. CASE submitted' = Append(submitted, pending) /\ (result = "ok" => token = Len(submitted) + 1)
  <2> DEFINE n == Len(submitted) + 1
  <2>1. /\ submitted' \in Seq(Seq(Caller)) /\ DOMAIN submitted' = DOMAIN submitted \cup {n}
        /\ n \notin DOMAIN submitted /\ submitted'[n] = pending
        /\ \A i \in DOMAIN submitted : submitted'[i] = submitted[i]
    BY <1>1, <1>5, OneMore DEF Placed
  <2> HIDE DEF n
  <2>2. \A i \in DOMAIN submitted : \A k \in DOMAIN submitted[i], l \in DOMAIN pending :
          submitted[i][k] # pending[l]
    <3>1. \A i \in DOMAIN submitted : Range(submitted[i]) \cap Range(pending) = {}
      BY <1>1 DEF Placed
    <3> QED
      BY <3>1, ZenonT(30) DEF Range
  <2>3. ASSUME NEW i \in DOMAIN submitted', NEW j \in DOMAIN submitted',
               NEW k \in DOMAIN submitted'[i], NEW l \in DOMAIN submitted'[j],
               submitted'[i][k] = submitted'[j][l]
        PROVE  i = j /\ k = l
    <3>1. CASE i = n /\ j = n
      BY <1>1, <2>1, <2>3, <3>1, ZenonT(30) DEF Placed, Distinct
    <3>2. CASE i # n /\ j # n
      BY <1>1, <2>1, <2>3, <3>2, SMTT(10), Z3T(30) DEF Placed
    <3>3. CASE i = n <=> j # n
      BY <2>1, <2>2, <2>3, <3>3, SMTT(30), Z3T(30)
    <3> QED
      BY <3>1, <3>2, <3>3, ZenonT(30)
  <2>4. Placed'
    BY <1>1, <1>3, <2>1, <2>3, ZenonT(30) DEF Placed
  <2>5. ASSUME NEW c \in Caller PROVE Known(c)'
    <3>1. CASE caller'[c] = caller[c]
      BY <1>1, <1>3, <2>1, <3>1, ZenonT(30) DEF Known
    <3>2. CASE c \in Range(pending) /\ caller'[c].pc = result /\ caller'[c].token = token
      BY <1>5, <2>1, <3>2, ZenonT(30) DEF Known, n
    <3> QED
      BY <1>2, <3>1, <3>2, ZenonT(30)
  <2> QED
    BY <1>2, <2>4, <2>5, ZenonT(30) DEF BatchInv
<1> QED
  BY <1>4, <1>5, SMTT(10), Z3T(30)

(* Every step keeps the commands where they should be. *)
LEMMA StepBatches ==
  ASSUME PlanOK, BatchInv, [NodeNext]_nodeVars
  PROVE  BatchInv'
<1> DEFINE quiet == UNCHANGED <<caller, queue, loop, pending, submitted>>
<1>1. ASSUME quiet PROVE BatchInv'
  <2>1. Placed' /\ \A c \in Caller : Known(c)'
    <3>1. Placed /\ \A c \in Caller : Known(c)
      BY ZenonT(30) DEF BatchInv
    <3>2. Placed'
      BY <1>1, <3>1, SMTT(10), Z3T(30) DEF Placed
    <3>3. \A c \in Caller : Known(c)'
      BY <1>1, <3>1, ZenonT(30) DEF Known
    <3> QED
      BY <3>2, <3>3
  <2> QED
    BY <1>1, <2>1, ZenonT(30) DEF BatchInv
<1>2. UNCHANGED nodeVars \/ UNCHANGED batcherVars \/ Stop => quiet
  BY DEF nodeVars, batcherVars, Stop
<1>3. Flush => BatchInv'
  <2>1. Len(submitted) + 1 \in Nat
    BY DEF BatchInv, Placed
  <2> QED
    BY <2>1, EndOfBatch, SMTT(10), Z3T(30) DEF Flush
<1>4. FlushFails => BatchInv'
  <2> SUFFICES ASSUME FlushFails PROVE BatchInv'
    OBVIOUS
  <2> QED
    BY EndOfBatch DEF FlushFails, NoToken
<1>5. LoopExit => BatchInv'
  <2> SUFFICES ASSUME LoopExit PROVE BatchInv'
    OBVIOUS
  <2>1. /\ caller' = Answered("error", 0) /\ pending' = <<>> /\ UNCHANGED queue
        /\ loop' \in {"select", "done"} /\ submitted' = submitted
    BY DEF LoopExit, NoToken
  <2> QED
    BY <2>1, EndOfBatch
<1>6. \A c \in plan.callers : c \in Caller
  BY PlanBounds
<1> HIDE DEF quiet
<1>7. BatcherStep \/ StoreClose => BatchInv'
  BY <1>1, <1>2, <1>3, <1>4, <1>5, <1>6, EnqueueKeeps, LeavesKeeps, CollectKeeps, ZenonT(30)
     DEF BatcherStep, StoreClose
<1> QED
  BY <1>1, <1>2, <1>7, ZenonT(30) DEF NodeNext

-----------------------------------------------------------------------------
(* The process *)

(* A plan with another number of route changes. *)
LEMMA OtherMoves ==
  ASSUME NEW p \in Plan, NEW n \in Nat
  PROVE  [p EXCEPT !.moves = n] \in Plan
<1> DEFINE R == UNION {[known -> Addr] : known \in SUBSET Peer}
           T == [Replica -> Seq([kind : {"register", "unregister"}, name : STRING])]
           C == SUBSET Call
           F == SUBSET Frame
           W == SUBSET Watcher
           K == SUBSET Caller
           P == [routes : R, calls : C, moves : Nat, frames : F, todo : T, watchers : W,
                 callers : K, closes : BOOLEAN]
<1>1. Plan = P
  BY DEF Plan
<1> HIDE DEF R, T, C, F, W, K
<1> QED
  BY <1>1, ZenonT(30)

(* What the environment may still do only shrinks. *)
LEMMA StepPlan ==
  ASSUME PlanOK, [NodeNext]_nodeVars
  PROVE  PlanOK'
<1>1. CASE plan' = plan
  BY <1>1 DEF PlanOK
<1>2. CASE plan.moves > 0 /\ plan' = [plan EXCEPT !.moves = @ - 1]
  <2>1. plan.moves - 1 \in Nat /\ plan' = [plan EXCEPT !.moves = plan.moves - 1]
    BY <1>2, SMTT(10), Z3T(30) DEF PlanOK, Plan
  <2> QED
    BY <2>1, OtherMoves DEF PlanOK
<1> QED
  BY <1>1, <1>2 DEF NodeNext, Reroute, nodeVars

NodeInv == PlanOK /\ RouteInv /\ ChannelInv /\ EntryInv /\ WatcherInv /\ BatchInv

LEMMA InitRoutes ==
  ASSUME NodeInit
  PROVE  PlanOK /\ RouteInv /\ ChannelInv
<1>1. PlanOK
  BY NodeAssumption, ZenonT(30) DEF NodeInit, PlanOK
<1>2. /\ server = "listening" /\ peers = plan.routes /\ conns = [p \in {} |-> None]
      /\ open = {} /\ overtaken = {} /\ send = [c \in Call |-> NoSend]
      /\ handling = {} /\ mux = "running" /\ panic = "none"
  BY ZenonT(30) DEF NodeInit, TransportInit
<1>3. SendTypes /\ \A c \in Call : send[c].pc = "idle"
  BY <1>2, ZenonT(30) DEF SendTypes, NoSend
<1>4. DialledOnce /\ CloseEmpties /\ RoutesCurrent /\ NoConnectionLeaks
  BY <1>2, ZenonT(30)
     DEF DialledOnce, CloseEmpties, RoutesCurrent, NoConnectionLeaks, Range
<1> QED
  BY <1>1, <1>2, <1>3, <1>4
     DEF RouteInv, ChannelInv, ChannelsClosedLast, RouteTypes, DialsCurrent, PlanOK,
         Plan

LEMMA InitBatches ==
  ASSUME NodeInit
  PROVE  BatchInv
<1>1. /\ caller = [c \in Caller |-> [pc |-> "idle", token |-> NoToken]]
      /\ queue = <<>> /\ loop = "select" /\ pending = <<>> /\ submitted = <<>>
  BY ZenonT(30) DEF NodeInit, BatcherInit
<1>2. Placed
  BY <1>1, SMTT(30) DEF Placed, Distinct, Range
<1> QED
  BY <1>1, <1>2 DEF BatchInv, Known, Range, CallerState, NoToken

(* To the registry a step of the process is one of its own, or nothing. *)
LEMMA StepOfRegistry ==
  ASSUME PlanOK, [NodeNext]_nodeVars
  PROVE  [RegistryNext]_registryVars
<1>1. UNCHANGED nodeVars => UNCHANGED registryVars
  BY ZenonT(30) DEF nodeVars
<1> QED
  BY <1>1, PlanBounds, ZenonT(30) DEF NodeNext, RegistryStep, RegistryNext

(* The inductive invariant holds throughout. *)
LEMMA Invariance == NodeSpec => []NodeInv
<1>1. NodeInit => NodeInv
  BY InitRoutes, InitEntries, InitWatchers, InitBatches, ZenonT(30)
     DEF NodeInv, NodeInit
<1>2. NodeInv /\ [NodeNext]_nodeVars => NodeInv'
  <2> SUFFICES ASSUME NodeInv, [NodeNext]_nodeVars PROVE NodeInv'
    OBVIOUS
  <2>1. PlanOK /\ RouteInv /\ ChannelInv /\ EntryInv /\ WatcherInv /\ BatchInv
    BY ZenonT(30) DEF NodeInv
  <2>2. PlanOK' /\ RouteInv' /\ ChannelInv' /\ BatchInv'
    BY <2>1, StepPlan, StepRoutes, StepChannels, StepBatches, ZenonT(30)
  <2> QED
    BY <2>1, <2>2, StepOfRegistry, StepEntries, StepWatchers, ZenonT(30) DEF NodeInv
<1> QED
  BY <1>1, <1>2, PTL DEF NodeSpec

(* A Send is handed a connection to the address the routing table has for  *)
(* the peer, unless the table changed between its two lock sections        *)
(* (grpc.go, getOrDial), whatever AddPeer, RemovePeer and Close do.        *)
THEOREM RoutesStayCurrent == NodeSpec => []RoutesCurrent
<1>1. NodeInv => RoutesCurrent
  BY ZenonT(30) DEF NodeInv, RouteInv
<1> QED
  BY <1>1, Invariance, PTL

(* Every open connection is in the cache, where a change of route or Close *)
(* finds it, however many Sends dial the same peer at once.                *)
THEOREM ConnectionsAreTracked == NodeSpec => []NoConnectionLeaks
<1>1. NodeInv => NoConnectionLeaks
  BY ZenonT(30) DEF NodeInv, RouteInv
<1> QED
  BY <1>1, Invariance, PTL

(* No frame handler pushes to the receive channel, and no pump to a view,  *)
(* once Network.Close or Multiplex.Close has closed it.                    *)
THEOREM NoPushAfterClose == NodeSpec => []ChannelsClosedLast
<1>1. NodeInv => ChannelsClosedLast
  BY ZenonT(30) DEF NodeInv, ChannelInv
<1> QED
  BY <1>1, Invariance, PTL

(* The registry's last writer wins along causality, through the channel    *)
(* that drops when it is full and the one that waits, at every member.     *)
THEOREM LastWriterWins == NodeSpec => []EntryIsNewest
<1>1. NodeInv => EntryIsNewest
  BY DecidedByNewest, ZenonT(30) DEF NodeInv
<1> QED
  BY <1>1, Invariance, PTL

(* A watcher that notify is through with has the last event raised, or has *)
(* it still to read, after events in order: notify drops the oldest only.  *)
THEOREM SlowWatchersCatchUp == NodeSpec => []WatcherUpToDate
<1>1. NodeInv => WatcherUpToDate
  BY ZenonT(30) DEF NodeInv, WatcherInv, WatcherUpToDate
<1> QED
  BY <1>1, Invariance, PTL

(* The batcher submits a caller's command at most once, and a caller told  *)
(* of success has its command in the batch it got the token of, whoever    *)
(* gives up and whatever Submit answers.                                   *)
THEOREM CommandsGoOnce == NodeSpec => []OneBatchEach
<1>1. NodeInv => OneBatchEach
  BY ZenonT(30) DEF NodeInv, BatchInv, Placed, Known, OneBatchEach
<1> QED
  BY <1>1, Invariance, PTL
=============================================================================
