----------------------------- MODULE Transport ------------------------------
(***************************************************************************)
(* One member's network (transport/grpc) and the multiplexer on top of it  *)
(* (transport/multiplex): a routing table and cached connections used by   *)
(* concurrent Sends while membership changes rewrite the table; a server   *)
(* whose handlers push to a bounded channel, which the multiplexer's pump  *)
(* takes apart into one bounded channel per conversation; and the Close of *)
(* both, in the order Cluster.Close does it, while all of that runs.       *)
(***************************************************************************)
EXTENDS GoRuntime, Naturals, Sequences, Functions

CONSTANTS
  Peer,        \* the other members
  Addr,        \* addresses a member may be at
  Conv,        \* conversations
  Call,        \* Send calls made by this member
  Frame,       \* frames peers send to this member: [n, conv, cluster]
  Own,         \* this member's ClusterID
  RecvCap,     \* capacity of Network.recv (1024)
  ViewCap      \* capacity of a view's channel (256)

ASSUME TransportAssumption ==
  /\ RecvCap \in Nat \ {0} /\ ViewCap \in Nat \ {0}
  /\ \A f \in Frame : f.conv \in Conv

None == "none"

VARIABLES
  server,      \* "listening", "serving", "closing", "stopping", "closed"
  clusterID,   \* the ClusterID installed in the Network, or None
  peers,       \* routing table: peer -> address
  conns,       \* cached connections: peer -> [by, addr], by the call that dialled
  open,        \* the connections that are open
  send,        \* send[c]: [pc, peer, addr, conn]
  overtaken,   \* history: peers whose route changed under a dialling Send
  arriving,    \* frames peers have still to send
  handling,    \* frames in a server handler, waiting for room in recv
  recv,        \* Network.recv
  mux,         \* "running", "stopping", "closed"
  views,       \* conversations that have a view
  viewCh,      \* viewCh[v]: the view's channel
  pump         \* the multiplexer's pump: [pc, frame]

routeVars == <<clusterID, peers, conns, open, overtaken>>
serverVars == <<server, arriving, handling, recv>>
muxVars == <<mux, views, viewCh, pump>>
transportVars == <<routeVars, send, serverVars, muxVars>>

NoSend == [pc |-> "idle", peer |-> None, addr |-> None, conn |-> None]
Idle == [pc |-> "recv", frame |-> None]

Closed == server \in {"closing", "stopping", "closed"}

(* Listen, with the sponsors' addresses as first routes, and NewMultiplex. *)
TransportInit(routes, frames) ==
  /\ server = "listening" /\ clusterID = None
  /\ peers = routes /\ conns = [p \in {} |-> None] /\ open = {} /\ overtaken = {}
  /\ send = [c \in Call |-> NoSend]
  /\ arriving = frames /\ handling = {} /\ recv = <<>>
  /\ mux = "running" /\ views = {} /\ viewCh = [v \in Conv |-> <<>>] /\ pump = Idle

-----------------------------------------------------------------------------
(* Start-up and the routing table *)

(* NewCluster: SetClusterID, RegisterService, Start. *)
Start ==
  /\ server = "listening"
  /\ server' = "serving" /\ clusterID' = Own
  /\ UNCHANGED <<panic, peers, conns, open, overtaken, send, arriving, handling, recv, muxVars>>

Dialling(p) == \E c \in Call : send[c].pc = "dial" /\ send[c].peer = p

(* conn.Close() and delete, of the peer's cached connection if there is one. *)
Invalidate(p) ==
  /\ conns' = Restrict(conns, DOMAIN conns \ {p})
  /\ open' = open \ {conns[q] : q \in DOMAIN conns \cap {p}}
  /\ overtaken' = IF Dialling(p) THEN overtaken \cup {p} ELSE overtaken

(* Mutant: a cached connection to the old address is kept. *)
AddPeerOnly(p, a) ==
  /\ ~Closed
  /\ peers' = [q \in DOMAIN peers \cup {p} |-> IF q = p THEN a ELSE peers[q]]
  /\ overtaken' = IF Dialling(p) THEN overtaken \cup {p} ELSE overtaken
  /\ UNCHANGED <<panic, clusterID, conns, open, send, serverVars, muxVars>>

(* AddPeer: a peer that moved loses its cached connection. *)
AddPeer(p, a) ==
  /\ ~Closed
  /\ peers' = [q \in DOMAIN peers \cup {p} |-> IF q = p THEN a ELSE peers[q]]
  /\ IF p \in DOMAIN peers /\ peers[p] # a
     THEN Invalidate(p)
     ELSE UNCHANGED <<conns, open, overtaken>>
  /\ UNCHANGED <<panic, clusterID, send, serverVars, muxVars>>

(* RemovePeer. *)
RemovePeer(p) ==
  /\ peers' = Restrict(peers, DOMAIN peers \ {p})
  /\ Invalidate(p)
  /\ UNCHANGED <<panic, clusterID, send, serverVars, muxVars>>

-----------------------------------------------------------------------------
(* Network.Send *)

(* multiplexView.Send asks this before it hands the frame to the Network. *)
ViewClosed == mux = "closed"

(* Under the lock: closed, unknown peer, a cached connection, or none. *)
SendBegin(c, p) ==
  /\ send[c] = NoSend
  /\ send' = [send EXCEPT ![c] =
       IF ViewClosed \/ Closed THEN [NoSend EXCEPT !.pc = "closed"]
       ELSE IF p \notin DOMAIN peers THEN [NoSend EXCEPT !.pc = "unknown"]
       ELSE IF p \in DOMAIN conns
       THEN [pc |-> "call", peer |-> p, addr |-> peers[p], conn |-> conns[p]]
       ELSE [pc |-> "dial", peer |-> p, addr |-> peers[p], conn |-> None]]
  /\ UNCHANGED <<panic, routeVars, serverVars, muxVars>>

Dialled(c) == [by |-> c, addr |-> send[c].addr]

(* Mutant: the loser of two dials is not closed. *)
SendDialKeepsBoth(c) ==
  /\ send[c].pc = "dial"
  /\ Unless(Closed, "Send: nil conns")
  /\ conns' = IF Closed THEN conns
              ELSE [q \in DOMAIN conns \cup {send[c].peer} |->
                      IF q = send[c].peer THEN Dialled(c) ELSE conns[q]]
  /\ open' = open \cup {Dialled(c)}
  /\ send' = [send EXCEPT ![c].pc = "call", ![c].conn = Dialled(c)]
  /\ UNCHANGED <<clusterID, peers, overtaken, serverVars, muxVars>>

(* The new connection is cached, unless another Send cached one meanwhile: *)
(* then it is closed.  A Close meanwhile left no map to cache it in.       *)
SendDial(c) ==
  /\ send[c].pc = "dial"
  /\ LET peer == send[c].peer IN
     IF peer \in DOMAIN conns
     THEN /\ send' = [send EXCEPT ![c].pc = "call", ![c].conn = conns[peer]]
          /\ UNCHANGED <<panic, conns, open>>
     ELSE /\ Unless(Closed, "Send: nil conns")
          /\ conns' = IF Closed THEN conns
                      ELSE [q \in DOMAIN conns \cup {peer} |-> IF q = peer THEN Dialled(c) ELSE conns[q]]
          /\ open' = open \cup {Dialled(c)}
          /\ send' = [send EXCEPT ![c].pc = "call", ![c].conn = Dialled(c)]
  /\ UNCHANGED <<clusterID, peers, overtaken, serverVars, muxVars>>

(* NewClient fails, and Send with it: nothing is cached. *)
SendDialFails(c) ==
  /\ send[c].pc = "dial"
  /\ send' = [send EXCEPT ![c].pc = "failed"]
  /\ UNCHANGED <<panic, routeVars, serverVars, muxVars>>

(* The RPC: it can only succeed on a connection that is still open. *)
SendCall(c) ==
  /\ send[c].pc = "call"
  /\ \E result \in {"sent", "failed"} :
       /\ result = "sent" => send[c].conn \in open
       /\ send' = [send EXCEPT ![c].pc = result]
  /\ UNCHANGED <<panic, routeVars, serverVars, muxVars>>

Sending(c) ==
  SendDial(c) \/ SendDialFails(c) \/ SendCall(c) \/ \E p \in Peer : SendBegin(c, p)

-----------------------------------------------------------------------------
(* The server *)

(* serverInterceptor: permissive as long as no ClusterID is installed. *)
Admitted(f) == clusterID = None \/ f.cluster = clusterID

Arrive(f) ==
  /\ server \in {"serving", "closing"} /\ f \in arriving
  /\ arriving' = arriving \ {f}
  /\ handling' = IF Admitted(f) THEN handling \cup {f} ELSE handling
  /\ UNCHANGED <<panic, routeVars, send, server, recv, muxVars>>

(* handler.Send: waits for room in recv, or for its caller to give up. *)
Handle(f) ==
  /\ f \in handling
  /\ handling' = handling \ {f}
  /\ \/ /\ Len(recv) < RecvCap
        /\ Unless(server = "closed", "handler: closed recv")
        /\ recv' = Append(recv, f)
     \/ UNCHANGED <<panic, recv>>
  /\ UNCHANGED <<routeVars, send, server, arriving, muxVars>>

-----------------------------------------------------------------------------
(* The multiplexer *)

(* ForConversation: once the multiplexer is closed there is no map to      *)
(* register the view in.                                                   *)
ForConversation(v) ==
  /\ v \notin views
  /\ Unless(mux # "running", "ForConversation: nil views")
  /\ views' = IF mux = "running" THEN views \cup {v} ELSE views
  /\ UNCHANGED <<routeVars, send, serverVars, mux, viewCh, pump>>

(* pump: receive a frame and look its view up; without one it is dropped. *)
PumpTake ==
  /\ pump.pc = "recv" /\ recv # <<>>
  /\ recv' = Tail(recv)
  /\ pump' = IF mux = "running" /\ Head(recv).conv \in views
             THEN [pc |-> "push", frame |-> Head(recv)] ELSE pump
  /\ UNCHANGED <<panic, routeVars, send, server, arriving, handling, mux, views, viewCh>>

(* pump: push to the view, or drop when its channel is full. *)
PumpPush ==
  /\ pump.pc = "push" /\ pump' = Idle
  /\ LET v == pump.frame.conv IN
       /\ Unless(mux = "closed", "pump: closed view")
       /\ viewCh' = IF Len(viewCh[v]) < ViewCap /\ mux # "closed"
                    THEN [viewCh EXCEPT ![v] = Append(@, pump.frame)] ELSE viewCh
  /\ UNCHANGED <<routeVars, send, serverVars, mux, views>>

(* pump: the multiplexer is stopped, or the network closed recv. *)
PumpExit ==
  /\ pump.pc = "recv" /\ (mux # "running" \/ (server = "closed" /\ recv = <<>>))
  /\ pump' = [Idle EXCEPT !.pc = "done"]
  /\ UNCHANGED <<panic, routeVars, send, serverVars, mux, views, viewCh>>

(* The conversation reads its view. *)
ViewRecv(v) ==
  /\ viewCh[v] # <<>>
  /\ viewCh' = [viewCh EXCEPT ![v] = Tail(@)]
  /\ UNCHANGED <<panic, routeVars, send, serverVars, mux, views, pump>>

-----------------------------------------------------------------------------
(* Multiplex.Close, then Network.Close *)

(* No view can be found or registered any more; the pump is told to stop. *)
MuxStop ==
  /\ mux = "running" /\ server # "listening"
  /\ mux' = "stopping"
  /\ UNCHANGED <<panic, routeVars, send, serverVars, views, viewCh, pump>>

(* Mutant: the channels are closed without waiting for the pump. *)
MuxCloseAtOnce ==
  /\ mux = "stopping"
  /\ mux' = "closed"
  /\ UNCHANGED <<panic, routeVars, send, serverVars, views, viewCh, pump>>

(* Once the pump is done the views' channels are closed. *)
MuxClose ==
  /\ mux = "stopping" /\ pump.pc = "done"
  /\ mux' = "closed"
  /\ UNCHANGED <<panic, routeVars, send, serverVars, views, viewCh, pump>>

(* closed is set and the map of connections taken away. *)
NetClose ==
  /\ mux = "closed" /\ server = "serving"
  /\ server' = "closing" /\ conns' = [p \in {} |-> None]
  /\ UNCHANGED <<panic, clusterID, peers, open, overtaken, send, arriving, handling, recv, muxVars>>

(* The connections are closed; GracefulStop lets no new call in. *)
NetStop ==
  /\ server = "closing"
  /\ server' = "stopping" /\ open' = {}
  /\ UNCHANGED <<panic, clusterID, peers, conns, overtaken, send, arriving, handling, recv, muxVars>>

(* GracefulStop has waited for the handlers; recv is closed. *)
NetClosed ==
  /\ server = "stopping" /\ handling = {}
  /\ server' = "closed"
  /\ UNCHANGED <<panic, routeVars, send, arriving, handling, recv, muxVars>>

-----------------------------------------------------------------------------
(* Properties *)

(* A cached connection goes to the address the routing table holds for the *)
(* peer ("re-pointing a peer to a new address invalidates and reopens the  *)
(* cached connection on the next Send", grpc.go:200), unless the route     *)
(* changed while a Send to that peer was between its two lock sections     *)
(* (grpc.go:257 to 268): that one caches what it dialled.                  *)
RoutesCurrent ==
  \A p \in DOMAIN conns \ overtaken : p \in DOMAIN peers /\ conns[p].addr = peers[p]

(* No connection is lost track of: what is open is cached, so that a route *)
(* change or Close can close it, however many Sends dial the same peer at  *)
(* once; while Close is at work it holds the map (grpc.go:306 to 320).     *)
NoConnectionLeaks ==
  Running /\ server # "closing" => open = Range(conns)

(* Nothing is pushed to a channel that is closed: Network.Close waits for  *)
(* the handlers before it closes recv and Multiplex.Close for its pump     *)
(* before it closes the views, whatever frames are under way.              *)
ChannelsClosedLast ==
  panic \notin {"handler: closed recv", "pump: closed view"}
=============================================================================
