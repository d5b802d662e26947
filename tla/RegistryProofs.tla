--------------------------- MODULE RegistryProofs ---------------------------
(***************************************************************************)
(* What holds of the metadata registry in the process of one member, for   *)
(* any number of members, names, operations and watchers, and any          *)
(* capacities: of its entries, and of what its watchers are told.          *)
(***************************************************************************)
EXTENDS Registry, TLAPS

-----------------------------------------------------------------------------
(* The invariants *)

(* How often and in which order a member sees messages. *)
SeenOnce ==
  /\ seen \in [Replica -> Seq(Issued)]
  /\ \A r \in Replica : \A i, j \in DOMAIN seen[r] : seen[r][i] = seen[r][j] => i = j
  /\ \A r \in Replica : \A j \in DOMAIN seen[r] : \A id \in past[seen[r][j]] :
       \E i \in DOMAIN seen[r] : i < j /\ seen[r][i] = id

(* Member r has seen message x, and y after it. *)
Before(r, x, y) ==
  \E i, j \in DOMAIN seen[r] : i < j /\ seen[r][i] = x /\ seen[r][j] = y

Ordered(r, ch) == \A i, j \in DOMAIN ch : i < j => Before(r, ch[i], ch[j])

(* Operations reach the registry of r in the order they were seen. *)
InSeenOrder(r) ==
  /\ Ordered(r, appCh[r]) /\ Ordered(r, metadataCh[r])
  /\ Range(appCh[r]) \subseteq Handed(r) /\ Range(metadataCh[r]) \subseteq Handed(r)
  /\ \A x \in Range(metadataCh[r]), y \in Range(appCh[r]) : Before(r, x, y)
  /\ \A x \in AppliedAt(r), y \in Range(appCh[r]) \cup Range(metadataCh[r]) : Before(r, x, y)

(* Operation m is what the registry of r last did about name n. *)
Decides(r, n, m) ==
  /\ m \in AppliedAt(r) /\ op[m].name = n
  /\ \A id \in AppliedAt(r) : op[id].name = n => id = m \/ Before(r, id, m)
  /\ IF op[m].kind = "register"
     THEN n \in DOMAIN entries[r] /\ entries[r][n] = m
     ELSE n \notin DOMAIN entries[r]

LastDecides(r) ==
  \A id \in AppliedAt(r) : \E m \in AppliedAt(r) : Decides(r, op[id].name, m)

EntryTypes ==
  /\ appCh \in [Replica -> Seq(Issued)] /\ metadataCh \in [Replica -> Seq(Issued)]
  /\ dispatched \in [Replica -> Nat] /\ dropped \in [Replica -> SUBSET Issued]
  /\ entries = [r \in Replica |-> entries[r]]
  /\ \A r \in Replica :
       dispatched[r] <= Len(seen[r]) /\ dropped[r] \subseteq {seen[r][k] : k \in 1..dispatched[r]}

EntryInv ==
  /\ SeenOnce /\ EntryTypes
  /\ \A r \in Replica : InSeenOrder(r) /\ LastDecides(r)

(* A watcher has everything up to the event in progress, which is the next *)
(* for those the event has still to go to.                                 *)
WatcherInv ==
  /\ events \in [Replica -> Nat] /\ notifying \in [Replica -> SUBSET Watcher]
  /\ watch \in [Watcher -> [state : {"none", "open", "cancelled"}, ch : Seq(Nat), read : Nat]]
  /\ \A r \in Replica : \A w \in notifying[r] : Home[w] = r /\ watch[w].state # "none"
  /\ \A w \in Watcher : watch[w].state = "open" =>
       /\ \A i, j \in DOMAIN watch[w].ch : i < j => watch[w].ch[i] < watch[w].ch[j]
       /\ events[Home[w]] = IF w \in notifying[Home[w]] THEN LatestOf(w) + 1 ELSE LatestOf(w)

-----------------------------------------------------------------------------
(* Sequences *)

Distinct(s) == \A k, l \in DOMAIN s : s[k] = s[l] => k = l

(* A sequence with one element more. *)
LEMMA OneMore ==
  ASSUME NEW S, NEW s \in Seq(S), NEW x \in S
  PROVE  /\ Append(s, x) \in Seq(S) /\ Range(Append(s, x)) = Range(s) \cup {x}
         /\ DOMAIN Append(s, x) = DOMAIN s \cup {Len(s) + 1} /\ Len(s) + 1 \notin DOMAIN s
         /\ Append(s, x)[Len(s) + 1] = x /\ \A i \in DOMAIN s : Append(s, x)[i] = s[i]
         /\ Distinct(s) /\ x \notin Range(s) => Distinct(Append(s, x))
<1>1. /\ Append(s, x) \in Seq(S) /\ DOMAIN Append(s, x) = DOMAIN s \cup {Len(s) + 1}
      /\ Len(s) + 1 \notin DOMAIN s
      /\ Append(s, x)[Len(s) + 1] = x /\ \A i \in DOMAIN s : Append(s, x)[i] = s[i]
  OBVIOUS
<1>2. Range(Append(s, x)) = Range(s) \cup {x}
  BY <1>1, ZenonT(30) DEF Range
<1>3. ASSUME Distinct(s), x \notin Range(s) PROVE Distinct(Append(s, x))
  <2> SUFFICES ASSUME NEW k \in DOMAIN Append(s, x), NEW l \in DOMAIN Append(s, x),
                      Append(s, x)[k] = Append(s, x)[l]
               PROVE  k = l
    BY DEF Distinct
  <2> QED
    BY <1>1, <1>3 DEF Distinct, Range
<1> QED
  BY <1>1, <1>2, <1>3, ZenonT(30)

(* All that the registry, its channels and its users do. *)
RegistryNext ==
  \/ \E r \in Replica :
       \/ SubmitMetadata(r) \/ Receive(r) \/ Dispatch(r) \/ Adapt(r) \/ ApplyMessage(r)
       \/ \E w \in Watcher : Notify(r, w) \/ Replace(r, w)
  \/ \E w \in Watcher : Watch(w) \/ CancelWatch(w) \/ Observe(w)

-----------------------------------------------------------------------------
(* Watchers *)

Watching == [state : {"none", "open", "cancelled"}, ch : Seq(Nat), read : Nat]

Latest(v) == IF v.ch = <<>> THEN v.read ELSE v.ch[Len(v.ch)]

Increasing(ch) == \A i, j \in DOMAIN ch : i < j => ch[i] < ch[j]

(* In an increasing channel no event is later than the last. *)
LEMMA LastIsLatest ==
  ASSUME NEW v \in Watching, Increasing(v.ch), NEW i \in DOMAIN v.ch
  PROVE  v.ch[i] \in Nat /\ v.ch[i] <= Latest(v)
BY DEF Latest, Increasing, Watching

(* What notify pushes is in order behind what the channel holds. *)
LEMMA PushedIsLatest ==
  ASSUME NEW ch \in Seq(Nat), Increasing(ch), NEW e \in Nat, \A i \in DOMAIN ch : ch[i] < e
  PROVE  /\ Append(ch, e) \in Seq(Nat) /\ Increasing(Append(ch, e))
         /\ Append(ch, e) # <<>> /\ Append(ch, e)[Len(Append(ch, e))] = e
<1>1. /\ Append(ch, e) \in Seq(Nat) /\ Len(Append(ch, e)) = Len(ch) + 1
      /\ Append(ch, e)[Len(ch) + 1] = e /\ \A i \in 1..Len(ch) : Append(ch, e)[i] = ch[i]
  OBVIOUS
<1>2. ASSUME NEW i \in 1..(Len(ch) + 1), NEW j \in 1..(Len(ch) + 1), i < j
      PROVE  Append(ch, e)[i] < Append(ch, e)[j]
  <2>1. i \in 1..Len(ch) /\ (j \in 1..Len(ch) \/ j = Len(ch) + 1)
    BY <1>2, SMTT(10), Z3T(30)
  <2> QED
    BY <1>1, <1>2, <2>1, SMTT(10), Z3T(30) DEF Increasing
<1> QED
  BY <1>1, <1>2, SMTT(10), Z3T(30) DEF Increasing

(* A sequence without elements is the empty one. *)
LEMMA EmptyIff ==
  ASSUME NEW S, NEW s \in Seq(S)
  PROVE  s = <<>> <=> Len(s) = 0
OBVIOUS

(* What is left of a channel after the first event is in order too. *)
LEMMA RestIncreases ==
  ASSUME NEW ch \in Seq(Nat), Increasing(ch), ch # <<>>
  PROVE  /\ Tail(ch) \in Seq(Nat) /\ Increasing(Tail(ch))
         /\ \A i \in DOMAIN Tail(ch) : i + 1 \in DOMAIN ch /\ Tail(ch)[i] = ch[i + 1]
         /\ Tail(ch) = <<>> => Len(ch) = 1
         /\ Tail(ch) # <<>> => Tail(ch)[Len(Tail(ch))] = ch[Len(ch)]
<1>1. /\ Len(ch) \in Nat \ {0} /\ Tail(ch) \in Seq(Nat) /\ Len(Tail(ch)) = Len(ch) - 1
      /\ \A i \in 1..(Len(ch) - 1) : i + 1 \in 1..Len(ch) /\ Tail(ch)[i] = ch[i + 1]
  OBVIOUS
<1>2. ASSUME NEW i \in 1..(Len(ch) - 1), NEW j \in 1..(Len(ch) - 1), i < j
      PROVE  Tail(ch)[i] < Tail(ch)[j]
  BY <1>1, <1>2 DEF Increasing
<1>3. /\ Tail(ch) = <<>> => Len(ch) = 1
      /\ Tail(ch) # <<>> => Len(ch) - 1 \in 1..(Len(ch) - 1)
  <2>1. Tail(ch) = <<>> <=> Len(Tail(ch)) = 0
    BY <1>1, EmptyIff, ZenonT(30)
  <2> QED
    BY <1>1, <2>1, SMTT(10), Z3T(30)
<1>4. DOMAIN Tail(ch) = 1..(Len(ch) - 1) /\ DOMAIN ch = 1..Len(ch)
  BY <1>1
<1>5. Increasing(Tail(ch))
  BY <1>2, <1>4, ZenonT(30) DEF Increasing
<1>6. \A i \in DOMAIN Tail(ch) : i + 1 \in DOMAIN ch /\ Tail(ch)[i] = ch[i + 1]
  BY <1>1, <1>4, ZenonT(30)
<1> QED
  BY <1>1, <1>3, <1>5, <1>6, SMTT(10), Z3T(30)

(* A watcher's record with another channel. *)
LEMMA OtherChannel ==
  ASSUME NEW v \in Watching, NEW ch
  PROVE  [v EXCEPT !.ch = ch] = [state |-> v.state, ch |-> ch, read |-> v.read]
BY DEF Watching

(* A watcher's record with another channel and another last event. *)
LEMMA OtherRead ==
  ASSUME NEW v \in Watching, NEW ch, NEW read
  PROVE  [v EXCEPT !.ch = ch, !.read = read] = [state |-> v.state, ch |-> ch, read |-> read]
<1> DEFINE a == [v EXCEPT !.ch = ch]
           b == [state |-> v.state, ch |-> ch, read |-> v.read]
<1>1. a = b
  BY OtherChannel, ZenonT(30)
<1>2. [v EXCEPT !.ch = ch, !.read = read] = [a EXCEPT !.read = read]
  BY DEF Watching
<1>3. [b EXCEPT !.read = read] = [state |-> v.state, ch |-> ch, read |-> read]
  OBVIOUS
<1> HIDE DEF a, b
<1> QED
  BY <1>1, <1>2, <1>3

(* The record of one watcher changes, to one that is up to date. *)
LEMMA OneWatcher ==
  ASSUME WatcherInv, NEW w \in Watcher, NEW v \in Watching, watch' = [watch EXCEPT ![w] = v],
         UNCHANGED events, notifying' \in [Replica -> SUBSET Watcher],
         \A r \in Replica : notifying'[r] \subseteq notifying[r],
         \A r \in Replica : notifying[r] \ {w} \subseteq notifying'[r],
         v.state = "none" => watch[w].state = "none",
         v.state = "open" =>
           /\ Increasing(v.ch)
           /\ events[Home[w]] = IF w \in notifying'[Home[w]] THEN Latest(v) + 1 ELSE Latest(v)
  PROVE  WatcherInv'
<1>1. /\ watch' \in [Watcher -> Watching] /\ watch'[w] = v
      /\ \A u \in Watcher \ {w} : watch'[u] = watch[u]
  BY DEF WatcherInv, Watching
<1>2. ASSUME NEW u \in Watcher, watch'[u].state = "open"
      PROVE  /\ Increasing(watch'[u].ch)
             /\ events'[Home[u]] = IF u \in notifying'[Home[u]] THEN LatestOf(u)' + 1 ELSE LatestOf(u)'
  <2>1. CASE u = w
    BY <1>1, <1>2, <2>1 DEF LatestOf, Latest
  <2>2. CASE u # w
    BY <1>1, <1>2, <2>2, RegistryAssumption DEF WatcherInv, Increasing, LatestOf
  <2> QED
    BY <2>1, <2>2
<1> QED
  BY <1>1, <1>2 DEF WatcherInv, Watching, Increasing

(* The events of an open watcher w, whose record is watch[w]. *)
LEMMA WatcherFacts ==
  ASSUME WatcherInv, NEW w \in Watcher
  PROVE  /\ watch[w] \in Watching
         /\ watch[w] = [state |-> watch[w].state, ch |-> watch[w].ch, read |-> watch[w].read]
         /\ events[Home[w]] \in Nat /\ Home[w] \in Replica
         /\ watch[w].state = "open" =>
              /\ Increasing(watch[w].ch)
              /\ events[Home[w]] =
                   IF w \in notifying[Home[w]] THEN Latest(watch[w]) + 1 ELSE Latest(watch[w])
BY RegistryAssumption DEF WatcherInv, Watching, Increasing, Latest, LatestOf

(* An event in progress is later than what the watcher has. *)
LEMMA EventIsNew ==
  ASSUME WatcherInv, NEW r \in Replica, NEW w \in notifying[r], watch[w].state = "open"
  PROVE  \A i \in DOMAIN watch[w].ch : watch[w].ch[i] < events[r]
<1>1. /\ watch[w] \in Watching /\ Increasing(watch[w].ch) /\ events[r] = Latest(watch[w]) + 1
      /\ events[r] \in Nat
  BY WatcherFacts DEF WatcherInv
<1> TAKE i \in DOMAIN watch[w].ch
<1> QED
  BY <1>1, LastIsLatest DEF Latest, Watching

(* notify hands the event to one watcher, who is then done with. *)
LEMMA HandedOver ==
  ASSUME WatcherInv, NEW r \in Replica, NEW w \in notifying[r], NEW ch \in Seq(Nat),
         watch[w].state = "open" => Increasing(ch) /\ \A i \in DOMAIN ch : ch[i] < events[r],
         watch' = [watch EXCEPT ![w].ch = Append(ch, events[r])],
         notifying' = [notifying EXCEPT ![r] = @ \ {w}], UNCHANGED events
  PROVE  WatcherInv'
<1> DEFINE v == [state |-> watch[w].state, ch |-> Append(ch, events[r]), read |-> watch[w].read]
<1>1. w \in Watcher /\ Home[w] = r /\ notifying \in [Replica -> SUBSET Watcher]
      /\ watch[w].state # "none" /\ watch \in [Watcher -> Watching]
  BY DEF WatcherInv, Watching
<1>2. watch[w] \in Watching /\ events[r] \in Nat
  BY <1>1, WatcherFacts
<1>3. v \in Watching /\ watch' = [watch EXCEPT ![w] = v]
  <2>1. v \in Watching
    BY <1>2 DEF Watching
  <2>2. watch' = [watch EXCEPT ![w] = [watch[w] EXCEPT !.ch = Append(ch, events[r])]]
    BY <1>1
  <2> QED
    BY <1>2, <2>1, <2>2, OtherChannel, ZenonT(30)
<1>4. v.state = "open" => Increasing(v.ch) /\ Latest(v) = events[r]
  BY <1>2, PushedIsLatest, ZenonT(30) DEF Latest
<1>5. /\ notifying' \in [Replica -> SUBSET Watcher] /\ w \notin notifying'[Home[w]]
      /\ \A q \in Replica : notifying'[q] \subseteq notifying[q]
      /\ \A q \in Replica : notifying[q] \ {w} \subseteq notifying'[q]
  BY <1>1
<1>6. v.state = watch[w].state
  OBVIOUS
<1> HIDE DEF v
<1> QED
  BY <1>1, <1>3, <1>4, <1>5, <1>6, OneWatcher, ZenonT(30)

(* notify, whether there is room or the oldest event is replaced. *)
LEMMA NotifyKeeps ==
  ASSUME WatcherInv, NEW r \in Replica, NEW w \in Watcher, Notify(r, w) \/ Replace(r, w)
  PROVE  WatcherInv'
<1>1. w \in notifying[r] /\ UNCHANGED events
  BY ZenonT(30) DEF Notify, Replace
<1>2. /\ watch[w] \in Watching /\ watch[w].ch \in Seq(Nat) /\ watch \in [Watcher -> Watching]
      /\ watch[w].state = "open" => /\ Increasing(watch[w].ch)
                                    /\ \A i \in DOMAIN watch[w].ch : watch[w].ch[i] < events[r]
  BY <1>1, WatcherFacts, EventIsNew DEF Watching, WatcherInv
<1>3. CASE UNCHANGED <<watch, notifying>>
  BY <1>1, <1>3 DEF WatcherInv, LatestOf
<1>4. CASE /\ watch' = [watch EXCEPT ![w].ch = Append(@, events[r])]
           /\ notifying' = [notifying EXCEPT ![r] = @ \ {w}]
  <2>1. watch' = [watch EXCEPT ![w].ch = Append(watch[w].ch, events[r])]
    BY <1>2, <1>4
  <2> QED
    BY <1>1, <1>2, <1>4, <2>1, HandedOver, ZenonT(30)
<1>5. CASE Replace(r, w)
  <2> DEFINE ch == IF watch[w].ch = <<>> THEN watch[w].ch ELSE Tail(watch[w].ch)
  <2>1. /\ watch' = [watch EXCEPT ![w].ch = Append(ch, events[r])]
        /\ notifying' = [notifying EXCEPT ![r] = @ \ {w}]
    BY <1>2, <1>5, ZenonT(30) DEF Replace, Replaced
  <2>2. ch \in Seq(Nat)
    BY <1>2
  <2>3. ASSUME watch[w].state = "open" PROVE Increasing(ch) /\ \A i \in DOMAIN ch : ch[i] < events[r]
    <3>1. CASE watch[w].ch = <<>>
      BY <1>2, <2>3, <3>1
    <3>2. CASE watch[w].ch # <<>>
      BY <1>2, <2>3, <3>2, RestIncreases, ZenonT(30)
    <3> QED
      BY <3>1, <3>2
  <2> HIDE DEF ch
  <2> QED
    BY <1>1, <2>1, <2>2, <2>3, HandedOver, ZenonT(30)
<1> QED
  BY <1>3, <1>4, <1>5, ZenonT(30) DEF Notify

(* Watch, cancel, and a consumer that takes an event. *)
LEMMA UserKeeps ==
  ASSUME WatcherInv, NEW w \in Watcher, Watch(w) \/ CancelWatch(w) \/ Observe(w)
  PROVE  WatcherInv'
<1>1. /\ UNCHANGED <<events, notifying>> /\ notifying \in [Replica -> SUBSET Watcher]
      /\ watch \in [Watcher -> Watching]
  BY DEF Watch, CancelWatch, Observe, WatcherInv, Watching
<1>2. /\ watch[w] \in Watching /\ events[Home[w]] \in Nat /\ Home[w] \in Replica
      /\ watch[w].state = "open" =>
           /\ Increasing(watch[w].ch)
           /\ events[Home[w]] = IF w \in notifying[Home[w]] THEN Latest(watch[w]) + 1 ELSE Latest(watch[w])
  BY WatcherFacts, ZenonT(30)
<1>3. watch[w].ch \in Seq(Nat) /\ watch[w].read \in Nat
  BY <1>2 DEF Watching
<1>4. CASE Watch(w)
  <2> DEFINE v == [state |-> "open", ch |-> <<>>, read |-> events[Home[w]]]
  <2>1. watch' = [watch EXCEPT ![w] = v] /\ watch[w].state = "none"
    BY <1>4 DEF Watch
  <2>2. v \in Watching /\ v.state = "open" /\ Increasing(v.ch) /\ Latest(v) = events[Home[w]]
    BY <1>2 DEF Watching, Increasing, Latest
  <2>3. w \notin notifying[Home[w]]
    BY <1>2, <2>1 DEF WatcherInv
  <2> HIDE DEF v
  <2> QED
    BY <1>1, <2>1, <2>2, <2>3, OneWatcher, ZenonT(30)
<1>5. CASE CancelWatch(w)
  <2> DEFINE v == [state |-> "cancelled", ch |-> watch[w].ch, read |-> watch[w].read]
  <2>1. watch' = [watch EXCEPT ![w] = [watch[w] EXCEPT !.state = "cancelled"]]
    BY <1>1, <1>5 DEF CancelWatch
  <2>2. [watch[w] EXCEPT !.state = "cancelled"] = v
    BY <1>2 DEF Watching
  <2>3. v \in Watching /\ v.state = "cancelled"
    BY <1>3 DEF Watching
  <2> HIDE DEF v
  <2> QED
    BY <1>1, <2>1, <2>2, <2>3, OneWatcher, ZenonT(30)
<1>6. CASE Observe(w)
  <2> DEFINE ch == watch[w].ch
             v == [state |-> "open", ch |-> Tail(ch), read |-> Head(ch)]
  <2>1. watch[w].state = "open" /\ ch # <<>> /\ Increasing(ch)
    BY <1>2, <1>6 DEF Observe
  <2>2. watch' = [watch EXCEPT ![w] = [watch[w] EXCEPT !.ch = Tail(ch), !.read = Head(ch)]]
    BY <1>1, <1>6, ZenonT(30) DEF Observe
  <2>3. [watch[w] EXCEPT !.ch = Tail(ch), !.read = Head(ch)] = v
    <3>1. [watch[w] EXCEPT !.ch = Tail(ch), !.read = Head(ch)]
            = [state |-> watch[w].state, ch |-> Tail(ch), read |-> Head(ch)]
      BY <1>2, OtherRead, ZenonT(30)
    <3> QED
      BY <2>1, <3>1
  <2>4. /\ Tail(ch) \in Seq(Nat) /\ Increasing(Tail(ch))
        /\ Tail(ch) = <<>> => Len(ch) = 1
        /\ Tail(ch) # <<>> => Tail(ch)[Len(Tail(ch))] = ch[Len(ch)]
    BY <1>3, <2>1, RestIncreases, ZenonT(30)
  <2>5. Head(ch) = ch[1] /\ Head(ch) \in Nat
    BY <1>3, <2>1
  <2>6. v \in Watching
    BY <2>4, <2>5 DEF Watching
  <2>7. Latest(v) = Latest(watch[w])
    BY <2>1, <2>4, <2>5, ZenonT(30) DEF Latest
  <2>8. v.state = "open" /\ v.ch = Tail(ch)
    OBVIOUS
  <2> HIDE DEF v
  <2> QED
    BY <1>1, <1>2, <2>1, <2>2, <2>3, <2>4, <2>6, <2>7, <2>8, OneWatcher, ZenonT(30)
<1> QED
  BY <1>4, <1>5, <1>6

(* The registry raises an event when everyone has the last one. *)
LEMMA ApplyKeepsWatchers ==
  ASSUME WatcherInv, NEW r \in Replica, ApplyMessage(r)
  PROVE  WatcherInv'
<1>1. UNCHANGED watch /\ notifying[r] = {}
  BY DEF ApplyMessage
<1>2. CASE UNCHANGED <<events, notifying>>
  BY <1>1, <1>2 DEF WatcherInv, LatestOf
<1>3. CASE Raise(r)
  <2>1. /\ events' \in [Replica -> Nat] /\ events'[r] = events[r] + 1
        /\ \A q \in Replica \ {r} : events'[q] = events[q] /\ notifying'[q] = notifying[q]
        /\ notifying'[r] = {w \in Watcher : Home[w] = r /\ watch[w].state = "open"}
        /\ notifying' \in [Replica -> SUBSET Watcher]
    BY <1>3 DEF Raise, WatcherInv
  <2>2. ASSUME NEW w \in Watcher, watch[w].state = "open"
        PROVE  events'[Home[w]] = IF w \in notifying'[Home[w]] THEN LatestOf(w) + 1 ELSE LatestOf(w)
    <3>1. /\ Home[w] \in Replica
          /\ events[Home[w]] = IF w \in notifying[Home[w]] THEN LatestOf(w) + 1 ELSE LatestOf(w)
      BY <2>2, RegistryAssumption DEF WatcherInv
    <3> QED
      BY <1>1, <2>1, <2>2, <3>1
  <2>3. \A q \in Replica : \A w \in notifying'[q] : Home[w] = q /\ watch[w].state # "none"
    <3>1. \A q \in Replica : \A w \in notifying[q] : Home[w] = q /\ watch[w].state # "none"
      BY DEF WatcherInv
    <3> QED
      BY <2>1, <3>1
  <2> QED
    BY <1>1, <2>1, <2>2, <2>3 DEF WatcherInv, LatestOf
<1> QED
  BY <1>2, <1>3 DEF ApplyMessage

(* Every step keeps the watchers up to date. *)
LEMMA StepWatchers ==
  ASSUME WatcherInv, [RegistryNext]_registryVars
  PROVE  WatcherInv'
<1> DEFINE quiet == UNCHANGED <<events, notifying, watch>>
<1>1. ASSUME quiet PROVE WatcherInv'
  BY <1>1 DEF WatcherInv, LatestOf
<1>2. UNCHANGED registryVars => quiet
  BY DEF registryVars
<1>3. ASSUME NEW r \in Replica, SubmitMetadata(r) \/ Receive(r) \/ Adapt(r) \/ Dispatch(r)
      PROVE  quiet
  BY <1>3 DEF SubmitMetadata, Receive, Adapt, Dispatch
<1> HIDE DEF quiet
<1> QED
  BY <1>1, <1>2, <1>3, NotifyKeeps, UserKeeps, ApplyKeepsWatchers, ZenonT(30) DEF RegistryNext

-----------------------------------------------------------------------------
(* Messages in the order a member sees them *)

(* The system conversation issues or delivers one message more. *)
SeesMore(r, id) ==
  /\ id \notin Range(seen[r]) /\ seen' = [seen EXCEPT ![r] = Append(@, id)]
  /\ Issued' = Issued \cup {id} /\ \A x \in Issued : past'[x] = past[x]
  /\ past'[id] \subseteq Range(seen[r])

(* So do the calls of Register and Unregister, and the receiver. *)
LEMMA SubmitSees ==
  ASSUME SeenOnce, NEW r \in Replica, SubmitMetadata(r) \/ Receive(r)
  PROVE  /\ \E id : SeesMore(r, id)
         /\ \A x \in Issued : op'[x] = op[x]
         /\ UNCHANGED <<channelVars, entries>>
<1>1. Range(seen[r]) \subseteq Issued
  BY DEF SeenOnce, Range
<1>2. CASE SubmitMetadata(r)
  <2>1. PICK n \in 1..(Len(seen[r]) + 1) :
          /\ <<r, n>> \notin Issued
          /\ past' = [id \in Issued \cup {<<r, n>>} |->
                        IF id = <<r, n>> THEN Range(seen[r]) ELSE past[id]]
          /\ See(r, <<r, n>>)
    BY <1>2 DEF SubmitMetadata, Issue
  <2>2. /\ Issued' = Issued \cup {<<r, n>>} /\ \A x \in Issued : past'[x] = past[x]
        /\ past'[<<r, n>>] = Range(seen[r])
    BY <2>1 DEF Issued
  <2>3. SeesMore(r, <<r, n>>)
    BY <1>1, <2>1, <2>2 DEF SeesMore, See
  <2> QED
    BY <1>2, <2>2, <2>3, SMTT(10), Z3T(30) DEF SubmitMetadata, Issued
<1>3. CASE Receive(r)
  <2>1. PICK id \in Issued \ Range(seen[r]) :
          past[id] \subseteq Range(seen[r]) /\ See(r, id) /\ UNCHANGED past
    BY <1>3 DEF Receive, Deliver
  <2>2. SeesMore(r, id)
    BY <2>1, ZenonT(30) DEF SeesMore, See, Issued
  <2> QED
    BY <1>3, <2>2, SMTT(10), Z3T(30) DEF Receive
<1> QED
  BY <1>2, <1>3

(* A member that sees one message more. *)
LEMMA SeenGrows ==
  ASSUME SeenOnce, NEW r \in Replica, NEW id, SeesMore(r, id)
  PROVE  /\ seen' \in [Replica -> Seq(Issued')]
         /\ \A q \in Replica : Len(seen[q]) <= Len(seen'[q])
         /\ \A q \in Replica : \A i \in DOMAIN seen[q] : i \in DOMAIN seen'[q] /\ seen'[q][i] = seen[q][i]
         /\ DOMAIN seen'[r] = DOMAIN seen[r] \cup {Len(seen[r]) + 1}
         /\ seen'[r][Len(seen[r]) + 1] = id
         /\ \A q \in Replica \ {r} : seen'[q] = seen[q]
<1>1. /\ seen \in [Replica -> Seq(Issued)] /\ Issued \subseteq Issued' /\ id \in Issued'
      /\ seen' = [seen EXCEPT ![r] = Append(@, id)]
  BY DEF SeenOnce, SeesMore
<1>2. seen \in [Replica -> Seq(Issued')]
  BY <1>1
<1> QED
  BY <1>1, <1>2

(* It has still seen everything once, and after its past. *)
LEMMA SeenOnceKept ==
  ASSUME SeenOnce, NEW r \in Replica, NEW id, SeesMore(r, id)
  PROVE  SeenOnce'
<1> DEFINE n == Len(seen[r]) + 1
<1>1. /\ seen' \in [Replica -> Seq(Issued')]
      /\ \A q \in Replica : \A i \in DOMAIN seen[q] : i \in DOMAIN seen'[q] /\ seen'[q][i] = seen[q][i]
      /\ DOMAIN seen'[r] = DOMAIN seen[r] \cup {n} /\ seen'[r][n] = id
      /\ \A q \in Replica \ {r} : seen'[q] = seen[q]
  BY SeenGrows
<1>2. /\ \A i \in DOMAIN seen[r] : i < n /\ seen[r][i] # id
      /\ \A q \in Replica : \A i \in DOMAIN seen[q] : seen[q][i] \in Issued
  BY DEF Range, SeenOnce, SeesMore
<1>3. /\ \A x \in Issued : past'[x] = past[x]
      /\ \A x \in past'[id] : \E i \in DOMAIN seen[r] : seen[r][i] = x
  BY DEF SeesMore, Range
<1>4. /\ \A q \in Replica : \A i, j \in DOMAIN seen[q] : seen[q][i] = seen[q][j] => i = j
      /\ \A q \in Replica : \A j \in DOMAIN seen[q] : \A x \in past[seen[q][j]] :
           \E i \in DOMAIN seen[q] : i < j /\ seen[q][i] = x
  BY DEF SeenOnce
<1> HIDE DEF n
<1>5. ASSUME NEW q \in Replica, NEW i \in DOMAIN seen'[q], NEW j \in DOMAIN seen'[q],
             seen'[q][i] = seen'[q][j]
      PROVE  i = j
  <2>1. CASE q # r
    BY <1>1, <1>4, <1>5, <2>1
  <2>2. CASE q = r
    BY <1>1, <1>2, <1>4, <1>5, <2>2
  <2> QED
    BY <2>1, <2>2
<1>6. ASSUME NEW q \in Replica, NEW j \in DOMAIN seen'[q], NEW x \in past'[seen'[q][j]]
      PROVE  \E i \in DOMAIN seen'[q] : i < j /\ seen'[q][i] = x
  <2>1. CASE j \in DOMAIN seen[q]
    <3>1. x \in past[seen[q][j]]
      BY <1>1, <1>2, <1>3, <1>6, <2>1
    <3>2. PICK i \in DOMAIN seen[q] : i < j /\ seen[q][i] = x
      BY <1>4, <2>1, <3>1
    <3> QED
      BY <1>1, <3>2
  <2>2. CASE q = r /\ j = n
    <3>1. PICK i \in DOMAIN seen[r] : seen[r][i] = x
      BY <1>1, <1>3, <1>6, <2>2
    <3> QED
      BY <1>1, <1>2, <2>2, <3>1
  <2> QED
    BY <1>1, <1>6, <2>1, <2>2
<1> QED
  BY <1>1, <1>5, <1>6 DEF SeenOnce

(* The order of what was seen is a fact once and for all. *)
LEMMA BeforeStays ==
  ASSUME SeenOnce, NEW r \in Replica, NEW id, SeesMore(r, id),
         NEW q \in Replica, NEW x, NEW y, Before(q, x, y)
  PROVE  Before(q, x, y)'
<1>1. PICK i \in DOMAIN seen[q], j \in DOMAIN seen[q] : i < j /\ seen[q][i] = x /\ seen[q][j] = y
  BY DEF Before
<1> QED
  BY <1>1, SeenGrows DEF Before

(* No message comes before itself, or both before and after another. *)
LEMMA BeforeIsStrict ==
  ASSUME SeenOnce, NEW r \in Replica, NEW x, NEW y, Before(r, x, y)
  PROVE  x # y /\ ~Before(r, y, x)
<1>1. seen \in [Replica -> Seq(Issued)]
      /\ \A i, j \in DOMAIN seen[r] : seen[r][i] = seen[r][j] => i = j
  BY DEF SeenOnce
<1>2. DOMAIN seen[r] \subseteq Nat
  BY <1>1
<1>3. PICK i \in DOMAIN seen[r], j \in DOMAIN seen[r] : i < j /\ seen[r][i] = x /\ seen[r][j] = y
  BY DEF Before
<1>4. ASSUME NEW k \in DOMAIN seen[r], NEW l \in DOMAIN seen[r],
             k < l, seen[r][k] = y, seen[r][l] = x
      PROVE  FALSE
  BY <1>1, <1>2, <1>3, <1>4
<1> QED
  BY <1>1, <1>2, <1>3, <1>4 DEF Before

(* What a member has handed to its registry it has seen, and knows. *)
LEMMA HandedIs ==
  ASSUME SeenOnce, EntryTypes, NEW r \in Replica
  PROVE  /\ 1..dispatched[r] \subseteq DOMAIN seen[r]
         /\ Handed(r) \subseteq Issued /\ AppliedAt(r) \subseteq Handed(r)
BY DEF Handed, AppliedAt, SeenOnce, EntryTypes

(* Nothing happens to the registry of q, but that q may see more. *)
LEMMA RegistryUnmoved ==
  ASSUME NEW q \in Replica, InSeenOrder(q), LastDecides(q),
         \A x, y : Before(q, x, y) => Before(q, x, y)',
         Handed(q)' = Handed(q), \A x \in Handed(q) : op'[x] = op[x],
         appCh'[q] = appCh[q], metadataCh'[q] = metadataCh[q], entries'[q] = entries[q]
  PROVE  InSeenOrder(q)' /\ LastDecides(q)'
<1>1. AppliedAt(q)' = AppliedAt(q) /\ AppliedAt(q) \subseteq Handed(q)
  BY ZenonT(30) DEF AppliedAt
<1>2. LastDecides(q)'
  <2> SUFFICES ASSUME NEW id \in AppliedAt(q)'
               PROVE  (\E m \in AppliedAt(q) : Decides(q, op[id].name, m))'
    BY DEF LastDecides
  <2>1. id \in AppliedAt(q) /\ op'[id] = op[id]
    BY <1>1, SMTT(10), Z3T(30)
  <2>2. PICK m \in AppliedAt(q) : Decides(q, op[id].name, m)
    BY <2>1 DEF LastDecides
  <2> QED
    BY <1>1, <2>1, <2>2, SMTT(10), Z3T(30) DEF Decides
<1> QED
  BY <1>1, <1>2, ZenonT(30) DEF InSeenOrder, Ordered

(* A member sees one message more. *)
LEMMA SeesKeeps ==
  ASSUME EntryInv, NEW r \in Replica, NEW id, SeesMore(r, id),
         \A x \in Issued : op'[x] = op[x], UNCHANGED <<channelVars, entries>>
  PROVE  EntryInv'
<1>1. SeenOnce /\ EntryTypes /\ \A q \in Replica : InSeenOrder(q) /\ LastDecides(q)
  BY DEF EntryInv
<1>2. UNCHANGED <<dispatched, appCh, dropped, metadataCh, entries>>
  BY ZenonT(30) DEF channelVars
<1>3. /\ seen \in [Replica -> Seq(Issued)] /\ seen' \in [Replica -> Seq(Issued')]
      /\ \A q \in Replica : Len(seen[q]) <= Len(seen'[q])
      /\ \A q \in Replica : \A i \in DOMAIN seen[q] : seen'[q][i] = seen[q][i]
  BY <1>1, SeenGrows DEF SeenOnce
<1>4. ASSUME NEW q \in Replica
      PROVE  /\ Handed(q)' = Handed(q)
             /\ {seen'[q][k] : k \in 1..dispatched[q]} = {seen[q][k] : k \in 1..dispatched[q]}
             /\ Handed(q) \subseteq Issued
  <2>1. 1..dispatched[q] \subseteq DOMAIN seen[q] /\ Handed(q) \subseteq Issued
    BY <1>1, HandedIs
  <2>2. \A k \in 1..dispatched[q] : seen'[q][k] = seen[q][k]
    BY <1>3, <2>1, ZenonT(30)
  <2> QED
    BY <1>2, <2>1, <2>2, ZenonT(30) DEF Handed
<1>5. EntryTypes'
  <2>1. /\ appCh \in [Replica -> Seq(Issued')] /\ metadataCh \in [Replica -> Seq(Issued')]
        /\ dropped \in [Replica -> SUBSET Issued']
    BY <1>1 DEF EntryTypes, SeesMore
  <2>2. \A q \in Replica : dispatched[q] <= Len(seen'[q])
    BY <1>1, <1>3, SMTT(10), Z3T(30) DEF EntryTypes
  <2>3. \A q \in Replica : dropped[q] \subseteq {seen'[q][k] : k \in 1..dispatched[q]}
    BY <1>1, <1>4, ZenonT(30) DEF EntryTypes
  <2> QED
    BY <1>1, <1>2, <2>1, <2>2, <2>3 DEF EntryTypes
<1>6. ASSUME NEW q \in Replica PROVE InSeenOrder(q)' /\ LastDecides(q)'
  <2>1. appCh'[q] = appCh[q] /\ metadataCh'[q] = metadataCh[q] /\ entries'[q] = entries[q]
    BY <1>2
  <2> QED
    BY <1>1, <1>4, <2>1, BeforeStays, RegistryUnmoved
<1> QED
  BY <1>1, <1>5, <1>6, SeenOnceKept DEF EntryInv

(* No message is issued or seen. *)
LEMMA NobodySees ==
  ASSUME UNCHANGED <<past, seen>>
  PROVE  /\ SeenOnce => SeenOnce'
         /\ \A r, x, y : Before(r, x, y) <=> Before(r, x, y)'
BY DEF SeenOnce, Before, Issued

(* A channel that gets one operation more. *)
LEMMA OrderedAppend ==
  ASSUME NEW r, NEW ch \in Seq(Issued), Ordered(r, ch), NEW id \in Issued,
         \A x \in Range(ch) : Before(r, x, id)
  PROVE  Ordered(r, Append(ch, id))
<1>1. /\ DOMAIN Append(ch, id) = DOMAIN ch \cup {Len(ch) + 1} /\ Append(ch, id)[Len(ch) + 1] = id
      /\ \A i \in DOMAIN ch : Append(ch, id)[i] = ch[i] /\ i \in Nat /\ i <= Len(ch)
      /\ Len(ch) \in Nat
  OBVIOUS
<1> SUFFICES ASSUME NEW i \in DOMAIN Append(ch, id), NEW j \in DOMAIN Append(ch, id), i < j
             PROVE  Before(r, Append(ch, id)[i], Append(ch, id)[j])
  BY DEF Ordered
<1> QED
  BY <1>1 DEF Ordered, Range

(* The same for a channel that gives its first one up. *)
LEMMA OrderedTail ==
  ASSUME NEW r, NEW ch \in Seq(Issued), Ordered(r, ch), ch # <<>>
  PROVE  /\ Tail(ch) \in Seq(Issued) /\ Ordered(r, Tail(ch)) /\ Head(ch) \in Issued
         /\ Range(ch) = {Head(ch)} \cup Range(Tail(ch))
         /\ \A x \in Range(Tail(ch)) : Before(r, Head(ch), x)
<1>1. /\ Tail(ch) \in Seq(Issued) /\ Head(ch) = ch[1] /\ Head(ch) \in Issued
      /\ DOMAIN Tail(ch) = 1..(Len(ch) - 1) /\ DOMAIN ch = 1..Len(ch) /\ Len(ch) \in Nat \ {0}
      /\ \A i \in 1..(Len(ch) - 1) : Tail(ch)[i] = ch[i + 1]
  OBVIOUS
<1>2. \A i \in 1..(Len(ch) - 1) : i + 1 \in 1..Len(ch) /\ 1 < i + 1 /\ 1 \in 1..Len(ch)
  BY <1>1
<1>3. Ordered(r, Tail(ch))
  <2> SUFFICES ASSUME NEW i \in 1..(Len(ch) - 1), NEW j \in 1..(Len(ch) - 1), i < j
               PROVE  Before(r, Tail(ch)[i], Tail(ch)[j])
    BY <1>1 DEF Ordered
  <2> QED
    BY <1>1, <1>2 DEF Ordered
<1>4. \A x \in Range(Tail(ch)) : Before(r, Head(ch), x)
  <2> SUFFICES ASSUME NEW i \in 1..(Len(ch) - 1) PROVE Before(r, ch[1], ch[i + 1])
    BY <1>1 DEF Range
  <2> QED
    BY <1>1, <1>2 DEF Ordered
<1>5. Range(ch) = {Head(ch)} \cup Range(Tail(ch))
  <2>1. \A x \in Range(ch) : x = Head(ch) \/ x \in Range(Tail(ch))
    <3> SUFFICES ASSUME NEW k \in 1..Len(ch), k # 1 PROVE ch[k] \in Range(Tail(ch))
      BY <1>1 DEF Range
    <3>1. k - 1 \in DOMAIN Tail(ch) /\ ch[k] = Tail(ch)[k - 1]
      BY <1>1
    <3> QED
      BY <3>1, ZenonT(30) DEF Range
  <2>2. Head(ch) \in Range(ch) /\ \A x \in Range(Tail(ch)) : x \in Range(ch)
    BY <1>1, <1>2 DEF Range
  <2> QED
    BY <2>1, <2>2
<1> QED
  BY <1>1, <1>3, <1>4, <1>5

(* A step of the channels of r. *)
Moves(r) ==
  /\ UNCHANGED <<past, seen, op>>
  /\ \A q \in Replica \ {r} :
       /\ appCh'[q] = appCh[q] /\ metadataCh'[q] = metadataCh[q] /\ entries'[q] = entries[q]
       /\ dispatched'[q] = dispatched[q] /\ dropped'[q] = dropped[q]

(* Such a step is of no concern to the other members. *)
LEMMA OthersUnmoved ==
  ASSUME EntryInv, NEW r \in Replica, Moves(r), EntryTypes', InSeenOrder(r)', LastDecides(r)'
  PROVE  EntryInv'
<1>1. SeenOnce' /\ \A q, x, y : Before(q, x, y) => Before(q, x, y)'
  BY NobodySees, SMTT(10), Z3T(30) DEF EntryInv, Moves
<1>2. ASSUME NEW q \in Replica \ {r} PROVE InSeenOrder(q)' /\ LastDecides(q)'
  BY <1>1, RegistryUnmoved DEF Moves, Handed, EntryInv
<1> QED
  BY <1>1, <1>2 DEF EntryInv

(* The manager's pump hands an operation over, or drops it. *)
LEMMA DispatchKeeps ==
  ASSUME EntryInv, NEW r \in Replica, Dispatch(r)
  PROVE  EntryInv'
<1> DEFINE d == dispatched[r]
           id == seen[r][d + 1]
<1>1. SeenOnce /\ EntryTypes /\ InSeenOrder(r) /\ LastDecides(r)
  BY DEF EntryInv
<1>2. /\ appCh \in [Replica -> Seq(Issued)] /\ dispatched \in [Replica -> Nat]
      /\ dropped \in [Replica -> SUBSET Issued]
      /\ seen \in [Replica -> Seq(Issued)] /\ d \in Nat
      /\ dropped[r] \subseteq {seen[r][k] : k \in 1..d}
      /\ \A i, j \in DOMAIN seen[r] : seen[r][i] = seen[r][j] => i = j
  BY <1>1, SMTT(10), Z3T(30) DEF SeenOnce, EntryTypes
<1>3. /\ d < Len(seen[r]) /\ dispatched' = [dispatched EXCEPT ![r] = d + 1]
      /\ UNCHANGED <<past, seen, op, metadataCh, entries>>
      /\ \/ appCh' = [appCh EXCEPT ![r] = Append(appCh[r], id)] /\ UNCHANGED dropped
         \/ dropped' = [dropped EXCEPT ![r] = dropped[r] \cup {id}] /\ UNCHANGED appCh
  BY <1>2, SMTT(10), Z3T(30) DEF Dispatch, messageVars
<1>4. /\ d + 1 \in DOMAIN seen[r] /\ id \in Issued
      /\ \A k \in 1..d : k \in DOMAIN seen[r] /\ k < d + 1 /\ seen[r][k] # id
  BY <1>2, <1>3
<1>5. {seen'[r][k] : k \in 1..dispatched'[r]} = {seen[r][k] : k \in 1..d} \cup {id}
  <2>1. 1..(d + 1) = 1..d \cup {d + 1} /\ dispatched'[r] = d + 1 /\ seen' = seen
    BY <1>2, <1>3
  <2> QED
    BY <2>1, SMTT(10), Z3T(30)
<1>6. Moves(r)
  BY <1>2, <1>3, SMTT(10), Z3T(30) DEF Moves
<1>7. dispatched' \in [Replica -> Nat] /\ \A q \in Replica : dispatched'[q] <= Len(seen'[q])
  BY <1>1, <1>2, <1>3, SMTT(10), Z3T(30) DEF EntryTypes
<1>8. \A x \in Handed(r) : x # id /\ Before(r, x, id)
  BY <1>4 DEF Before, Handed
<1>9. id \notin dropped[r]
  BY <1>2, <1>4
<1>10. ASSUME NEW q \in Replica \ {r} PROVE dropped'[q] \subseteq {seen'[q][k] : k \in 1..dispatched'[q]}
  <2>1. dropped[q] \subseteq {seen[q][k] : k \in 1..dispatched[q]}
    BY <1>1 DEF EntryTypes
  <2> QED
    BY <1>6, <2>1 DEF Moves
<1>11. /\ Issued' = Issued /\ metadataCh' \in [Replica -> Seq(Issued)]
       /\ entries' = [q \in Replica |-> entries'[q]]
  BY <1>1, <1>3 DEF EntryTypes, Issued
<1> HIDE DEF d, id
<1>12. CASE appCh' = [appCh EXCEPT ![r] = Append(appCh[r], id)] /\ UNCHANGED dropped
  <2>1. /\ appCh' \in [Replica -> Seq(Issued)] /\ appCh'[r] = Append(appCh[r], id)
        /\ Range(appCh'[r]) = Range(appCh[r]) \cup {id}
    BY <1>2, <1>4, <1>12, OneMore, SMTT(10), Z3T(30)
  <2>2. EntryTypes'
    <3>1. dropped'[r] \subseteq {seen'[r][k] : k \in 1..dispatched'[r]}
      BY <1>2, <1>5, <1>12, ZenonT(30) DEF d
    <3>2. \A q \in Replica : dropped'[q] \subseteq {seen'[q][k] : k \in 1..dispatched'[q]}
      BY <1>10, <3>1
    <3> QED
      BY <1>2, <1>7, <1>11, <1>12, <2>1, <3>2 DEF EntryTypes
  <2>3. Handed(r)' = Handed(r) \cup {id}
    BY <1>5, <1>9, <1>12, ZenonT(30) DEF Handed, d
  <2>4. /\ Range(appCh[r]) \subseteq Handed(r) /\ Range(metadataCh[r]) \subseteq Handed(r)
        /\ AppliedAt(r) \subseteq Handed(r)
    BY <1>1 DEF InSeenOrder, AppliedAt
  <2>5. AppliedAt(r)' = AppliedAt(r)
    BY <1>3, <1>8, <2>1, <2>3, ZenonT(30) DEF AppliedAt
  <2>6. Ordered(r, appCh'[r])
    BY <1>1, <1>2, <1>4, <1>8, <2>1, <2>4, OrderedAppend, SMTT(30), Z3T(30)
       DEF InSeenOrder
  <2>7. InSeenOrder(r)'
    <3>1. \A x, y : Before(r, x, y) <=> Before(r, x, y)'
      BY <1>3, NobodySees, ZenonT(30)
    <3>2. Ordered(r, appCh[r])' /\ Ordered(r, metadataCh[r])'
      BY <1>1, <1>3, <2>6, <3>1, ZenonT(30) DEF InSeenOrder, Ordered
    <3>3. /\ \A x \in Range(metadataCh'[r]), y \in Range(appCh'[r]) : Before(r, x, y)'
          /\ \A x \in AppliedAt(r), y \in Range(appCh'[r]) \cup Range(metadataCh'[r]) : Before(r, x, y)'
      BY <1>1, <1>3, <1>8, <2>1, <2>4, <3>1, ZenonT(30) DEF InSeenOrder
    <3>4. Range(appCh'[r]) \subseteq Handed(r)' /\ Range(metadataCh'[r]) \subseteq Handed(r)'
      BY <1>3, <2>1, <2>3, <2>4, ZenonT(30)
    <3> QED
      BY <2>5, <3>2, <3>3, <3>4 DEF InSeenOrder
  <2>8. LastDecides(r)'
    BY <1>1, <1>3, <2>5, NobodySees, ZenonT(30) DEF LastDecides, Decides
  <2> QED
    BY <1>6, <2>2, <2>7, <2>8, OthersUnmoved, ZenonT(30)
<1>13. CASE dropped' = [dropped EXCEPT ![r] = dropped[r] \cup {id}] /\ UNCHANGED appCh
  <2>1. dropped' \in [Replica -> SUBSET Issued] /\ dropped'[r] = dropped[r] \cup {id}
    BY <1>2, <1>4, <1>13
  <2>2. EntryTypes'
    <3>1. dropped'[r] \subseteq {seen'[r][k] : k \in 1..dispatched'[r]}
      BY <1>2, <1>5, <2>1, ZenonT(30) DEF d
    <3>2. \A q \in Replica : dropped'[q] \subseteq {seen'[q][k] : k \in 1..dispatched'[q]}
      BY <1>10, <3>1
    <3>3. /\ appCh' \in [Replica -> Seq(Issued')] /\ dropped' \in [Replica -> SUBSET Issued']
          /\ metadataCh' \in [Replica -> Seq(Issued')]
      BY <1>2, <1>13, <1>11, <2>1
    <3> QED
      BY <1>7, <1>11, <3>2, <3>3, ZenonT(30) DEF EntryTypes
  <2>3. Handed(r)' = Handed(r)
    BY <1>5, <1>8, <2>1, ZenonT(30) DEF Handed, d
  <2>4. InSeenOrder(r)' /\ LastDecides(r)'
    BY <1>1, <1>3, <1>13, <2>3, NobodySees, RegistryUnmoved, ZenonT(30)
  <2> QED
    BY <1>6, <2>2, <2>4, OthersUnmoved, ZenonT(30)
<1> QED
  BY <1>3, <1>12, <1>13 DEF d, id

(* Nothing is handed over; the types of the rest stay. *)
LEMMA OnlyMoves ==
  ASSUME EntryInv, UNCHANGED <<past, seen, op, dispatched, dropped>>,
         appCh' \in [Replica -> Seq(Issued)], metadataCh' \in [Replica -> Seq(Issued)],
         entries' = [r \in Replica |-> entries'[r]]
  PROVE  /\ EntryTypes' /\ \A r \in Replica : Handed(r)' = Handed(r)
         /\ \A r, x, y : Before(r, x, y) <=> Before(r, x, y)'
BY NobodySees, ZenonT(30) DEF Handed, EntryInv, EntryTypes, Issued

(* The adapter moves an operation from one channel to the other. *)
LEMMA AdaptKeeps ==
  ASSUME EntryInv, NEW r \in Replica, Adapt(r)
  PROVE  EntryInv'
<1> DEFINE h == Head(appCh[r])
<1>1. SeenOnce /\ EntryTypes /\ InSeenOrder(r) /\ LastDecides(r)
  BY DEF EntryInv
<1>2. appCh \in [Replica -> Seq(Issued)] /\ metadataCh \in [Replica -> Seq(Issued)]
  BY <1>1 DEF EntryTypes
<1>3. /\ appCh[r] # <<>> /\ UNCHANGED <<past, seen, op, dispatched, dropped, entries>>
      /\ metadataCh' = [metadataCh EXCEPT ![r] = Append(metadataCh[r], h)]
      /\ appCh' = [appCh EXCEPT ![r] = Tail(appCh[r])]
  BY <1>2, ZenonT(30) DEF Adapt, messageVars
<1>4. /\ Ordered(r, appCh[r]) /\ Ordered(r, metadataCh[r])
      /\ Range(appCh[r]) \subseteq Handed(r) /\ Range(metadataCh[r]) \subseteq Handed(r)
      /\ \A x \in Range(metadataCh[r]), y \in Range(appCh[r]) : Before(r, x, y)
      /\ \A x \in AppliedAt(r), y \in Range(appCh[r]) \cup Range(metadataCh[r]) : Before(r, x, y)
  BY <1>1 DEF InSeenOrder
<1>5. /\ Tail(appCh[r]) \in Seq(Issued) /\ Ordered(r, Tail(appCh[r])) /\ h \in Issued
      /\ Range(appCh[r]) = {h} \cup Range(Tail(appCh[r]))
      /\ \A x \in Range(Tail(appCh[r])) : Before(r, h, x)
  BY <1>2, <1>3, <1>4, OrderedTail, ZenonT(30)
<1> HIDE DEF h
<1>6. /\ Append(metadataCh[r], h) \in Seq(Issued)
      /\ Range(Append(metadataCh[r], h)) = Range(metadataCh[r]) \cup {h}
  BY <1>2, <1>5, OneMore
<1>7. Ordered(r, Append(metadataCh[r], h))
  BY <1>2, <1>4, <1>5, OrderedAppend
<1>8. /\ appCh' \in [Replica -> Seq(Issued)] /\ metadataCh' \in [Replica -> Seq(Issued)]
      /\ appCh'[r] = Tail(appCh[r]) /\ metadataCh'[r] = Append(metadataCh[r], h)
  BY <1>2, <1>3, <1>5, <1>6, ZenonT(30)
<1>9. /\ EntryTypes' /\ Handed(r)' = Handed(r)
       /\ \A x, y : Before(r, x, y) <=> Before(r, x, y)'
  BY <1>1, <1>3, <1>8, OnlyMoves, ZenonT(30) DEF EntryTypes
<1>10. AppliedAt(r)' = AppliedAt(r)
  BY <1>5, <1>6, <1>8, <1>9, ZenonT(30) DEF AppliedAt
<1>11. InSeenOrder(r)'
  <2>1. Ordered(r, appCh[r])' /\ Ordered(r, metadataCh[r])'
    BY <1>5, <1>7, <1>8, <1>9, ZenonT(30) DEF Ordered
  <2>2. /\ \A x \in Range(metadataCh'[r]), y \in Range(appCh'[r]) : Before(r, x, y)
        /\ \A x \in AppliedAt(r), y \in Range(appCh'[r]) \cup Range(metadataCh'[r]) : Before(r, x, y)
    BY <1>4, <1>5, <1>6, <1>8, ZenonT(30)
  <2>3. Range(appCh'[r]) \subseteq Handed(r)' /\ Range(metadataCh'[r]) \subseteq Handed(r)'
    BY <1>4, <1>5, <1>6, <1>8, <1>9, ZenonT(30)
  <2> QED
    BY <1>9, <1>10, <2>1, <2>2, <2>3, ZenonT(30) DEF InSeenOrder
<1>12. LastDecides(r)'
  BY <1>1, <1>3, <1>9, <1>10, ZenonT(30) DEF LastDecides, Decides
<1> QED
  BY <1>2, <1>3, <1>9, <1>11, <1>12, OthersUnmoved DEF Moves

(* What applying operation h makes of the entries. *)
LEMMA AppliedIs ==
  ASSUME NEW entry, NEW h
  PROVE  /\ op[h].kind = "register" =>
              op[h].name \in DOMAIN Applied(entry, h) /\ Applied(entry, h)[op[h].name] = h
         /\ op[h].kind # "register" => op[h].name \notin DOMAIN Applied(entry, h)
         /\ \A n : n # op[h].name =>
              /\ n \in DOMAIN Applied(entry, h) <=> n \in DOMAIN entry
              /\ n \in DOMAIN entry => Applied(entry, h)[n] = entry[n]
BY DEF Applied, With, Without, Restrict

(* The registry applies the operation at the head of its channel. *)
LEMMA ApplyKeepsEntries ==
  ASSUME EntryInv, NEW r \in Replica, ApplyMessage(r)
  PROVE  EntryInv'
<1> DEFINE h == Head(metadataCh[r])
<1>1. SeenOnce /\ EntryTypes /\ InSeenOrder(r) /\ LastDecides(r)
  BY DEF EntryInv
<1>2. /\ appCh \in [Replica -> Seq(Issued)] /\ metadataCh \in [Replica -> Seq(Issued)]
      /\ entries = [q \in Replica |-> entries[q]]
  BY <1>1 DEF EntryTypes
<1>3. /\ metadataCh[r] # <<>> /\ UNCHANGED <<past, seen, op, dispatched, dropped, appCh>>
      /\ metadataCh' = [metadataCh EXCEPT ![r] = Tail(metadataCh[r])]
      /\ entries' = [entries EXCEPT ![r] = Applied(entries[r], h)]
  BY <1>2 DEF ApplyMessage, messageVars
<1>4. /\ Ordered(r, appCh[r]) /\ Ordered(r, metadataCh[r])
      /\ Range(appCh[r]) \subseteq Handed(r) /\ Range(metadataCh[r]) \subseteq Handed(r)
      /\ \A x \in Range(metadataCh[r]), y \in Range(appCh[r]) : Before(r, x, y)
      /\ \A x \in AppliedAt(r), y \in Range(appCh[r]) \cup Range(metadataCh[r]) : Before(r, x, y)
  BY <1>1 DEF InSeenOrder
<1>5. /\ Tail(metadataCh[r]) \in Seq(Issued) /\ Ordered(r, Tail(metadataCh[r])) /\ h \in Issued
      /\ Range(metadataCh[r]) = {h} \cup Range(Tail(metadataCh[r]))
      /\ \A x \in Range(Tail(metadataCh[r])) : Before(r, h, x)
  BY <1>2, <1>3, <1>4, OrderedTail, ZenonT(30)
<1> HIDE DEF h
<1>6. /\ metadataCh' \in [Replica -> Seq(Issued)] /\ metadataCh'[r] = Tail(metadataCh[r])
      /\ entries' = [q \in Replica |-> entries'[q]] /\ entries'[r] = Applied(entries[r], h)
  BY <1>2, <1>3, <1>5, ZenonT(30)
<1>7. Moves(r)
  BY <1>2, <1>3 DEF Moves
<1>8. /\ EntryTypes' /\ Handed(r)' = Handed(r)
      /\ \A x, y : Before(r, x, y) <=> Before(r, x, y)'
  BY <1>2, <1>3, <1>6, OnlyMoves, ZenonT(30)
<1>9. h \notin Range(Tail(metadataCh[r])) /\ h \notin Range(appCh[r]) /\ h \in Handed(r)
  <2>1. ~Before(r, h, h)
    BY <1>1, BeforeIsStrict
  <2> QED
    BY <1>4, <1>5, <2>1
<1>10. AppliedAt(r)' = AppliedAt(r) \cup {h}
  BY <1>3, <1>5, <1>6, <1>8, <1>9, ZenonT(30) DEF AppliedAt
<1>11. InSeenOrder(r)'
  <2>1. Ordered(r, appCh[r])' /\ Ordered(r, metadataCh[r])'
    BY <1>3, <1>4, <1>5, <1>6, <1>8 DEF Ordered
  <2>2. /\ \A x \in Range(metadataCh'[r]), y \in Range(appCh'[r]) : Before(r, x, y)
        /\ \A x \in AppliedAt(r) \cup {h}, y \in Range(appCh'[r]) \cup Range(metadataCh'[r]) : Before(r, x, y)
    BY <1>3, <1>4, <1>5, <1>6, ZenonT(30)
  <2>3. Range(appCh'[r]) \subseteq Handed(r)' /\ Range(metadataCh'[r]) \subseteq Handed(r)'
    BY <1>3, <1>4, <1>5, <1>6, <1>8, SMTT(10), Z3T(30)
  <2> QED
    BY <1>8, <1>10, <2>1, <2>2, <2>3, ZenonT(30) DEF InSeenOrder
<1>12. LastDecides(r)'
  <2> SUFFICES ASSUME NEW id \in AppliedAt(r) \cup {h}
               PROVE  (\E m \in AppliedAt(r) : Decides(r, op[id].name, m))'
    BY <1>10 DEF LastDecides
  <2>1. CASE op[id].name = op[h].name
    <3>1. \A x \in AppliedAt(r)' : x = h \/ Before(r, x, h)
      BY <1>4, <1>5, <1>10, SMTT(10), Z3T(30)
    <3>2. IF op[h].kind = "register"
          THEN op[h].name \in DOMAIN entries'[r] /\ entries'[r][op[h].name] = h
          ELSE op[h].name \notin DOMAIN entries'[r]
      BY <1>6, AppliedIs
    <3>3. PICK m : m = h
      BY ZenonT(30)
    <3>4. Decides(r, op[id].name, m)'
      BY <1>3, <1>8, <1>10, <2>1, <3>1, <3>2, <3>3, SMTT(10), Z3T(30) DEF Decides
    <3> QED
      BY <1>10, <3>3, <3>4, ZenonT(30)
  <2>2. CASE op[id].name # op[h].name
    <3>1. PICK m \in AppliedAt(r) : Decides(r, op[id].name, m)
      BY <1>1, <2>2, SMTT(10), Z3T(30) DEF LastDecides
    <3>2. /\ op[id].name \in DOMAIN entries'[r] <=> op[id].name \in DOMAIN entries[r]
          /\ op[id].name \in DOMAIN entries[r] => entries'[r][op[id].name] = entries[r][op[id].name]
      BY <1>6, <2>2, AppliedIs, SMTT(10), Z3T(30)
    <3>3. Decides(r, op[id].name, m)'
      BY <1>3, <1>8, <1>10, <2>2, <3>1, <3>2 DEF Decides
    <3> QED
      BY <1>10, <3>1, <3>3
  <2> QED
    BY <2>1, <2>2
<1> QED
  BY <1>7, <1>8, <1>11, <1>12, OthersUnmoved

(* Every step keeps the operations in the order they were seen. *)
LEMMA StepEntries ==
  ASSUME EntryInv, [RegistryNext]_registryVars
  PROVE  EntryInv'
<1> DEFINE quiet == UNCHANGED <<past, seen, op, dispatched, appCh, dropped, metadataCh, entries>>
<1>1. ASSUME quiet PROVE EntryInv'
  <2>1. SeenOnce /\ EntryTypes /\ \A q \in Replica : InSeenOrder(q) /\ LastDecides(q)
    BY SMTT(10), Z3T(30) DEF EntryInv
  <2>2. SeenOnce' /\ EntryTypes'
    BY <1>1, <2>1 DEF SeenOnce, EntryTypes, Issued
  <2>3. \A q \in Replica : InSeenOrder(q)' /\ LastDecides(q)'
    BY <1>1, <2>1, NobodySees, RegistryUnmoved, ZenonT(30) DEF Handed
  <2> QED
    BY <2>2, <2>3 DEF EntryInv
<1>2. UNCHANGED registryVars => quiet
  BY ZenonT(30) DEF registryVars, messageVars, channelVars
<1>3. ASSUME NEW r, NEW w, Notify(r, w) \/ Replace(r, w) \/ Watch(w) \/ CancelWatch(w) \/ Observe(w)
      PROVE  quiet
  BY <1>3, ZenonT(30) DEF Notify, Replace, Watch, CancelWatch, Observe, messageVars, channelVars
<1>4. ASSUME NEW r \in Replica, SubmitMetadata(r) \/ Receive(r) PROVE EntryInv'
  <2>1. SeenOnce
    BY DEF EntryInv
  <2>2. PICK id : SeesMore(r, id)
    BY <1>4, <2>1, SubmitSees, ZenonT(30)
  <2> QED
    BY <1>4, <2>1, <2>2, SubmitSees, SeesKeeps
<1> HIDE DEF quiet
<1> QED
  BY <1>1, <1>2, <1>3, <1>4, DispatchKeeps, AdaptKeeps, ApplyKeepsEntries, ZenonT(30)
     DEF RegistryNext

-----------------------------------------------------------------------------
(* The initial state, and what the invariants are for *)

LEMMA InitEntries ==
  ASSUME NEW calls, RegistryInit(calls)
  PROVE  EntryInv
<1>1. /\ past = [id \in {} |-> {}] /\ seen = [r \in Replica |-> <<>>]
      /\ dispatched = [r \in Replica |-> 0] /\ appCh = [r \in Replica |-> <<>>]
      /\ metadataCh = [r \in Replica |-> <<>>] /\ dropped = [r \in Replica |-> {}]
      /\ entries = [r \in Replica |-> [n \in {} |-> {}]]
  BY ZenonT(30) DEF RegistryInit, Init
<1>2. EntryTypes
  BY <1>1 DEF EntryTypes, Issued
<1>3. \A r \in Replica : Handed(r) = {} /\ AppliedAt(r) = {}
  BY <1>1, SMTT(10), Z3T(30) DEF Handed, AppliedAt
<1> QED
  BY <1>1, <1>2, <1>3
     DEF EntryInv, SeenOnce, Issued, InSeenOrder, LastDecides, Ordered, Range

LEMMA InitWatchers ==
  ASSUME NEW calls, RegistryInit(calls)
  PROVE  WatcherInv
BY SMTT(10), Z3T(30) DEF WatcherInv, RegistryInit

(* What decided an entry was seen after every other operation applied to   *)
(* its name, so it is in the past of none.                                 *)
LEMMA DecidedByNewest ==
  ASSUME EntryInv
  PROVE  EntryIsNewest
<1> SUFFICES ASSUME NEW r \in Replica, NEW x \in AppliedAt(r)
             PROVE  \E m \in {id \in AppliedAt(r) : op[id].name = op[x].name} :
                      /\ \A id \in {id \in AppliedAt(r) : op[id].name = op[x].name} : m \notin past[id]
                      /\ IF op[m].kind = "register"
                         THEN op[x].name \in DOMAIN entries[r] /\ entries[r][op[x].name] = m
                         ELSE op[x].name \notin DOMAIN entries[r]
  BY DEF EntryIsNewest
<1>1. SeenOnce /\ EntryTypes /\ LastDecides(r)
  BY DEF EntryInv
<1>2. PICK m \in AppliedAt(r) : Decides(r, op[x].name, m)
  BY <1>1, ZenonT(30) DEF LastDecides
<1>3. ASSUME NEW id \in AppliedAt(r), op[id].name = op[x].name, m \in past[id]
      PROVE  FALSE
  <2>1. PICK k \in 1..dispatched[r] : id = seen[r][k]
    BY SMTT(10), Z3T(30) DEF AppliedAt, Handed
  <2>2. Before(r, m, id)
    BY <1>1, <1>3, <2>1 DEF SeenOnce, Before, EntryTypes
  <2> QED
    BY <1>1, <1>2, <1>3, <2>2, BeforeIsStrict, ZenonT(30) DEF Decides
<1> QED
  BY <1>2, <1>3, SMTT(30), Z3T(30) DEF Decides

=============================================================================
