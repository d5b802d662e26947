-------------------------------- MODULE Node --------------------------------
(***************************************************************************)
(* The goroutines of one member's process around its conversations: the    *)
(* transport, the registry that lives on the system conversation, and the  *)
(* batcher in front of the key-value store.  They share the process, which *)
(* a panic in any of them ends, and the order in which Store.Close and     *)
(* Cluster.Close take them down while the others still run.                *)
(***************************************************************************)
EXTENDS Transport, Registry, Batcher

CONSTANTS
  Self,        \* the member whose process this is; the registry has them all
  Plans        \* what the environment does, at most: see plan

Plan ==
  [routes : UNION {[known -> Addr] : known \in SUBSET Peer}, calls : SUBSET Call, moves : Nat,
   frames : SUBSET Frame, todo : [Replica -> Seq([kind : {"register", "unregister"}, name : STRING])],
   watchers : SUBSET Watcher, callers : SUBSET Caller, closes : BOOLEAN]

ASSUME NodeAssumption == Self \in Replica /\ Plans \subseteq Plan

VARIABLE plan  \* a Plan

nodeVars == <<panic, plan, transportVars, registryVars, batcherVars>>

NodeInit ==
  /\ plan \in Plans
  /\ panic = "none"
  /\ TransportInit(plan.routes, plan.frames)
  /\ RegistryInit(plan.todo)
  /\ BatcherInit

(* A membership change or an application rewrites a route. *)
Reroute ==
  /\ plan.moves > 0 /\ plan' = [plan EXCEPT !.moves = @ - 1]
  /\ \E p \in Peer : RemovePeer(p) \/ \E a \in Addr : AddPeer(p, a)

TransportStep ==
  \/ Start
  \/ \E c \in plan.calls : Sending(c)
  \/ \E f \in Frame : Arrive(f) \/ Handle(f)
  \/ \E v \in {f.conv : f \in plan.frames} : ForConversation(v) \/ ViewRecv(v)
  \/ PumpTake \/ PumpPush \/ PumpExit

(* The manager's pump stops with Cluster.Close. *)
RegistryStep ==
  \/ \E r \in Replica :
       \/ SubmitMetadata(r) \/ Receive(r) \/ Adapt(r) \/ ApplyMessage(r)
       \/ (r = Self => mux = "running") /\ Dispatch(r)
       \/ \E w \in Watcher : Notify(r, w) \/ Replace(r, w)
  \/ \E w \in plan.watchers : Watch(w) \/ CancelWatch(w) \/ Observe(w)

BatcherStep ==
  \/ \E c \in plan.callers : Enqueue(c) \/ Refused(c) \/ GivesUp(c)
  \/ Collect \/ Flush \/ FlushFails \/ LoopExit

(* Store.Close: the batcher.  Then Cluster.Close: the system manager, the  *)
(* multiplexer, the network.                                               *)
StoreClose == plan.closes /\ server # "listening" /\ Stop

ClusterClose ==
  \/ loop = "done" /\ MuxStop
  \/ MuxClose \/ NetClose \/ NetStop \/ NetClosed

NodeNext ==
  /\ Running
  /\ \/ Reroute /\ UNCHANGED <<registryVars, batcherVars>>
     \/ (TransportStep \/ ClusterClose) /\ UNCHANGED <<plan, registryVars, batcherVars>>
     \/ RegistryStep /\ UNCHANGED <<plan, transportVars, batcherVars>>
     \/ (BatcherStep \/ StoreClose) /\ UNCHANGED <<panic, plan, transportVars, registryVars>>

NodeSpec == NodeInit /\ [][NodeNext]_nodeVars

-----------------------------------------------------------------------------

(* The channels hold no more than they were made for, and the pumps hold   *)
(* at most what they took.                                                 *)
NodeTypeOK ==
  /\ Len(recv) <= RecvCap /\ \A v \in Conv : Len(viewCh[v]) <= ViewCap
  /\ \A r \in Replica : Len(appCh[r]) <= AppCap /\ Len(metadataCh[r]) <= MetadataCap
  /\ \A w \in Watcher : Len(watch[w].ch) <= WatchCap
  /\ Len(queue) <= QueueCap /\ Len(pending) <= MaxBatchOps
  /\ \A c \in Call : send[c].pc \in {"idle", "dial", "call", "sent", "failed", "unknown", "closed"}
=============================================================================
