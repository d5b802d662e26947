------------------------------ MODULE Registry ------------------------------
(***************************************************************************)
(* The metadata registry (metadata_registry.go): a name to info map that   *)
(* every member keeps by applying the application messages of the system   *)
(* conversation.  They pass the membership manager's channel, which drops  *)
(* when it is full, and the cluster's adapter (cluster_metadata.go).       *)
(* Watchers get one event per change through a bounded channel that gives  *)
(* up its oldest event.  An info is the id of the message that carried it. *)
(***************************************************************************)
EXTENDS GoRuntime, CausalBroadcast

CONSTANTS
  Watcher,      \* Watch calls
  Home,         \* Home[w]: the member whose registry w watches
  AppCap,       \* capacity of Manager.appCh
  MetadataCap,  \* capacity of Cluster.metadataCh, with the adapter's hand
  WatchCap      \* capacity of a watcher's channel (registryWatcherBuffer, 64)

ASSUME RegistryAssumption == Home \in [Watcher -> Replica]

VARIABLES
  todo,         \* todo[r]: the Register and Unregister calls r will make
  op,           \* op[id]: the operation message id carries, [kind, name]
  dispatched,   \* dispatched[r]: how many of seen[r] the manager's pump took
  appCh,        \* appCh[r]: Manager.appCh
  dropped,      \* history: dropped[r], operations that found appCh full
  metadataCh,   \* metadataCh[r]: Cluster.metadataCh
  entries,      \* entries[r]: name -> id of the registration
  events,       \* events[r]: how many events r's registry has raised
  notifying,    \* notifying[r]: watchers the event in progress has still to go to
  replacing,    \* watchers whose full channel the pump is about to make room in
  watch         \* watch[w]: [state, ch, read], the events by their number

messageVars == <<past, seen, op, todo>>
channelVars == <<dispatched, appCh, dropped, metadataCh>>
registryVars == <<messageVars, channelVars, entries, events, notifying, replacing, watch>>

RegistryInit(calls) ==
  /\ Init
  /\ todo = calls /\ op = [id \in {} |-> {}]
  /\ dispatched = [r \in Replica |-> 0]
  /\ appCh = [r \in Replica |-> <<>>] /\ metadataCh = [r \in Replica |-> <<>>]
  /\ dropped = [r \in Replica |-> {}]
  /\ entries = [r \in Replica |-> [n \in {} |-> {}]]
  /\ events = [r \in Replica |-> 0]
  /\ notifying = [r \in Replica |-> {}] /\ replacing = {}
  /\ watch = [w \in Watcher |-> [state |-> "none", ch |-> <<>>, read |-> 0]]

-----------------------------------------------------------------------------
(* From the caller to the registry's pump *)

(* Register, Unregister: SubmitMetadata, SendApp. *)
SubmitMetadata(r) ==
  /\ todo[r] # <<>>
  /\ Issue(r)
  /\ op' = [id \in DOMAIN past' |-> IF id \in Issued THEN op[id] ELSE Head(todo[r])]
  /\ todo' = [todo EXCEPT ![r] = Tail(@)]
  /\ UNCHANGED <<panic, channelVars, entries, events, notifying, replacing, watch>>

(* The system conversation delivers. *)
Receive(r) ==
  /\ Deliver(r)
  /\ UNCHANGED <<panic, op, todo, channelVars, entries, events, notifying, replacing, watch>>

(* Manager.dispatch: to appCh, or dropped. *)
Dispatch(r) ==
  /\ dispatched[r] < Len(seen[r])
  /\ dispatched' = [dispatched EXCEPT ![r] = @ + 1]
  /\ LET id == seen[r][dispatched[r] + 1] IN
     \/ /\ Len(appCh[r]) < AppCap
        /\ appCh' = [appCh EXCEPT ![r] = Append(@, id)] /\ UNCHANGED dropped
     \/ /\ Len(appCh[r]) >= AppCap
        /\ dropped' = [dropped EXCEPT ![r] = @ \cup {id}] /\ UNCHANGED appCh
  /\ UNCHANGED <<panic, messageVars, metadataCh, entries, events, notifying, replacing, watch>>

(* adaptMetadataChannel: waits for room. *)
Adapt(r) ==
  /\ appCh[r] # <<>> /\ Len(metadataCh[r]) < MetadataCap
  /\ metadataCh' = [metadataCh EXCEPT ![r] = Append(@, Head(appCh[r]))]
  /\ appCh' = [appCh EXCEPT ![r] = Tail(@)]
  /\ UNCHANGED <<panic, messageVars, dispatched, dropped, entries, events, notifying, replacing, watch>>

-----------------------------------------------------------------------------
(* The registry *)

(* notify: the watchers are copied under the lock, the event goes to them  *)
(* outside it.                                                             *)
Raise(r) ==
  /\ events' = [events EXCEPT ![r] = @ + 1]
  /\ notifying' = [notifying EXCEPT ![r] = {w \in Watcher : Home[w] = r /\ watch[w].state = "open"}]

With(entry, name, id) == [n \in DOMAIN entry \cup {name} |-> IF n = name THEN id ELSE entry[n]]

Without(entry, name) == Restrict(entry, DOMAIN entry \ {name})

(* Mutant: the first registration of a name stays. *)
AppliedIfAbsent(entry, id) ==
  CASE op[id].kind = "register" /\ op[id].name \in DOMAIN entry -> entry
    [] op[id].kind = "register" -> With(entry, op[id].name, id)
    [] OTHER -> Without(entry, op[id].name)

Applied(entry, id) ==
  IF op[id].kind = "register" THEN With(entry, op[id].name, id) ELSE Without(entry, op[id].name)

(* applyMessage: a registration overwrites; unregistering what is not      *)
(* there raises no event.                                                  *)
ApplyMessage(r) ==
  /\ notifying[r] = {} /\ metadataCh[r] # <<>>
  /\ LET id == Head(metadataCh[r]) IN
       /\ entries' = [entries EXCEPT ![r] = Applied(@, id)]
       /\ IF op[id].kind = "register" \/ op[id].name \in DOMAIN entries[r]
          THEN Raise(r) ELSE UNCHANGED <<events, notifying>>
  /\ metadataCh' = [metadataCh EXCEPT ![r] = Tail(@)]
  /\ UNCHANGED <<panic, messageVars, dispatched, appCh, dropped, replacing, watch>>

(* notify, first select: pushed if there is room. *)
Notify(r, w) ==
  /\ w \in notifying[r] \ replacing
  /\ Unless(watch[w].state = "cancelled", "notify: closed watcher")
  /\ \/ /\ Len(watch[w].ch) < WatchCap
        /\ watch' = [watch EXCEPT ![w].ch = Append(@, events[r])]
        /\ notifying' = [notifying EXCEPT ![r] = @ \ {w}]
        /\ UNCHANGED replacing
     \/ /\ Len(watch[w].ch) >= WatchCap
        /\ replacing' = replacing \cup {w}
        /\ UNCHANGED <<watch, notifying>>
  /\ UNCHANGED <<messageVars, channelVars, entries, events>>

(* Mutant: the new event is dropped when the channel is full. *)
NotReplaced(ch, e) == ch

Replaced(ch, e) == Append(IF ch = <<>> THEN ch ELSE Tail(ch), e)

(* notify, second and third select: the oldest event goes, if the consumer *)
(* did not take it meanwhile, and the new one is pushed.                   *)
Replace(r, w) ==
  /\ w \in notifying[r] \cap replacing
  /\ Unless(watch[w].state = "cancelled", "notify: closed watcher")
  /\ watch' = [watch EXCEPT ![w].ch = Replaced(@, events[r])]
  /\ notifying' = [notifying EXCEPT ![r] = @ \ {w}]
  /\ replacing' = replacing \ {w}
  /\ UNCHANGED <<messageVars, channelVars, entries, events>>

-----------------------------------------------------------------------------
(* The registry's users *)

Watch(w) ==
  /\ watch[w].state = "none"
  /\ watch' = [watch EXCEPT ![w] = [state |-> "open", ch |-> <<>>, read |-> events[Home[w]]]]
  /\ UNCHANGED <<panic, messageVars, channelVars, entries, events, notifying, replacing>>

CancelWatch(w) ==
  /\ watch[w].state = "open"
  /\ watch' = [watch EXCEPT ![w].state = "cancelled"]
  /\ UNCHANGED <<panic, messageVars, channelVars, entries, events, notifying, replacing>>

(* The consumer takes an event. *)
Observe(w) ==
  /\ watch[w].state = "open" /\ watch[w].ch # <<>>
  /\ watch' = [watch EXCEPT ![w].ch = Tail(@), ![w].read = Head(watch[w].ch)]
  /\ UNCHANGED <<panic, messageVars, channelVars, entries, events, notifying, replacing>>

-----------------------------------------------------------------------------
(* Properties *)

Handed(r) == {seen[r][k] : k \in 1..dispatched[r]} \ dropped[r]

AppliedAt(r) == Handed(r) \ (Range(appCh[r]) \cup Range(metadataCh[r]))

(* The entry of a name is the outcome of an operation that no other one    *)
(* applied here causally follows: the last writer wins (metadata_registry  *)
(* .go:24) holds along causality, through two channels, whatever the first *)
(* one drops.  Concurrent operations have no such order: see the README.   *)
EntryIsNewest ==
  \A r \in Replica : \A n \in {op[id].name : id \in AppliedAt(r)} :
    LET ops == {id \in AppliedAt(r) : op[id].name = n}
    IN \E m \in ops :
         /\ \A id \in ops : m \notin past[id]
         /\ IF op[m].kind = "register"
            THEN n \in DOMAIN entries[r] /\ entries[r][n] = m
            ELSE n \notin DOMAIN entries[r]

LatestOf(w) == IF watch[w].ch = <<>> THEN watch[w].read ELSE watch[w].ch[Len(watch[w].ch)]

(* A slow watcher loses its oldest events only (metadata_registry.go:262): *)
(* when notify is through with it, the last event it has read or has still *)
(* to read is the last one raised, and its events come in order.           *)
WatcherUpToDate ==
  \A w \in Watcher :
    (watch[w].state = "open" /\ w \notin notifying[Home[w]]) =>
      /\ LatestOf(w) = events[Home[w]]
      /\ \A i, j \in DOMAIN watch[w].ch : i < j => watch[w].ch[i] < watch[w].ch[j]
=============================================================================
