---------------------------- MODULE MemberProofs ----------------------------
(***************************************************************************)
(* What holds inside one member, whatever the conversation does.           *)
(*                                                                         *)
(* Its disk keeps what was acknowledged in its place, for any number of    *)
(* calls, failing system calls and crashes.                                *)
(*                                                                         *)
(* Its goroutines come to rest only when there is nothing left to do, or   *)
(* wedged: the genserver pushing to a full channel, the reader of which is *)
(* Calling the genserver.                                                  *)
(***************************************************************************)
EXTENDS Pipeline, Storage, TLAPS

-----------------------------------------------------------------------------
(* The message log: its invariant, Create and Append *)

Frame == Nat \cup {Torn}

(* What a file replaced as a whole looks like. *)
FileOf(V) ==
  [now : V, disk : SUBSET V, tmp : {NoTmp} \cup [value : V, synced : BOOLEAN]]

Appending == call \in {"payload", "sync"}

(* The types of the state of a FileLog. *)
LogTypes ==
  /\ data \in Seq(Frame)
  /\ synced \in 0..Len(data)
  /\ meta \in FileOf(Nat)
  /\ cache \in [first : Nat, entries : Seq(Nat)]
  /\ acked \subseteq Nat \X Nat
  /\ appends \in Nat

(* Frames are numbered in the order they were written. *)
Ordered(frames, last) ==
  /\ \A i \in 1..Len(frames) : frames[i] # Torn => frames[i] \in 1..last
  /\ \A i, j \in 1..Len(frames) :
       i < j /\ frames[i] # Torn /\ frames[j] # Torn => frames[i] < frames[j]

Frames == Ordered(data, appends) /\ Ordered(cache.entries, appends)

(* The frame an Append is writing is the last, and newer than the rest. *)
PendingLast ==
  /\ call # NoCall => status = "open"
  /\ Appending =>
       /\ synced < Len(data) /\ appends > 0
       /\ \A i \in 1..Len(cache.entries) : cache.entries[i] < appends
       /\ \A i \in 1..(Len(data) - 1) : data[i] # Torn => data[i] < appends
  /\ call = "payload" => data[Len(data)] = Torn
  /\ call = "sync" => data[Len(data)] = appends

(* What was acknowledged in its place is there, synced, and no scan stops  *)
(* before it.                                                              *)
AckedStored ==
  \A a \in acked \ astray :
    /\ a[1] + 1 \in 1..synced
    /\ data[a[1] + 1] = a[2]
    /\ \A i \in 1..(a[1] + 1) : data[i] # Torn

(* An open log has it in the cache. *)
AckedCached ==
  status = "open" =>
    \A a \in acked \ astray :
      a[1] >= cache.first =>
        /\ a[1] - cache.first + 1 \in 1..Len(cache.entries)
        /\ cache.entries[a[1] - cache.first + 1] = a[2]

(* No frame is written before the header, and none synced before it is. *)
HeaderFirst ==
  /\ header # "ok" => synced = 0
  /\ header \in {"none", "torn"} => data = <<>>
  /\ status = "creating" => data = <<>>
  /\ status \in {"creating", "open"} => header \in {"unsynced", "ok"}

(* The first offset that Truncate is writing is one it may move to.       *)
Truncating ==
  /\ call \in {"syncMeta", "renameMeta"} =>
       meta.tmp \in [value : (cache.first + 1)..NextOffset, synced : BOOLEAN]
  /\ call = "renameMeta" => meta.tmp.synced
  /\ call = "syncDir" => meta.now \in (cache.first + 1)..NextOffset

(* Before the first mishap the cache ends where the file does. *)
Settled == IF Appending THEN Len(data) - 1 ELSE Len(data)

Aligned ==
  mishaps = {} =>
    /\ astray = {}
    /\ status \in {"open", "creating"} => NextOffset = Settled /\ Reads(Settled)

LogInv ==
  /\ LogTypes /\ Frames /\ PendingLast /\ AckedStored /\ AckedCached
  /\ HeaderFirst /\ Truncating /\ Aligned

(* What the first n frames of a file are. *)
LEMMA Prefix ==
  ASSUME NEW S, NEW frames \in Seq(S), NEW n \in 0..Len(frames)
  PROVE  /\ SubSeq(frames, 1, n) \in Seq(S) /\ Len(SubSeq(frames, 1, n)) = n
         /\ \A i \in 1..n : SubSeq(frames, 1, n)[i] = frames[i]
OBVIOUS

(* What becomes of a file when its last frame is written again. *)
LEMMA LastSet ==
  ASSUME NEW S, NEW frames \in Seq(S), NEW n \in Nat, Len(frames) = n + 1, NEW e \in S,
         NEW d, d = [frames EXCEPT ![Len(frames)] = e]
  PROVE  /\ d \in Seq(S) /\ Len(d) = n + 1 /\ d[n + 1] = e
         /\ \A i \in 1..n : d[i] = frames[i]
OBVIOUS

(* What the frames after the first k of a file are. *)
LEMMA Suffix ==
  ASSUME NEW S, NEW frames \in Seq(S), NEW k \in 0..Len(frames)
  PROVE  /\ SubSeq(frames, k + 1, Len(frames)) \in Seq(S)
         /\ Len(SubSeq(frames, k + 1, Len(frames))) = Len(frames) - k
         /\ \A i \in 1..(Len(frames) - k) : SubSeq(frames, k + 1, Len(frames))[i] = frames[k + i]
OBVIOUS

(* Where the entry with offset x is when those below m are dropped. *)
LEMMA Place ==
  ASSUME NEW x \in Nat, NEW f \in Nat, NEW m \in Nat, NEW n \in Nat,
         f <= m, m <= x, x - f + 1 \in 1..n
  PROVE  /\ x - m + 1 \in 1..(n - (m - f))
         /\ (m - f) + (x - m + 1) = x - f + 1
         /\ m + (n - (m - f)) = f + n
OBVIOUS

(* The types the leaves below need, field by field. *)
Shapes ==
  /\ Torn \notin Nat
  /\ Len(data) \in Nat /\ synced \in 0..Len(data) /\ appends \in Nat
  /\ \A i \in 1..Len(data) : data[i] \in Frame
  /\ cache.first \in Nat /\ cache.entries \in Seq(Nat) /\ Len(cache.entries) \in Nat
  /\ \A i \in 1..Len(cache.entries) : cache.entries[i] \in Nat
  /\ meta.now \in Nat /\ meta.disk \subseteq Nat

(* The invariant taken apart, with the types a step needs. *)
LEMMA LogFacts ==
  ASSUME LogInv
  PROVE  /\ Shapes /\ LogTypes /\ Frames /\ PendingLast /\ AckedStored /\ AckedCached
         /\ HeaderFirst /\ Truncating /\ Aligned
BY FileLogAssumption, SMTT(10), Z3T(30) DEF LogInv, LogTypes, FileOf, Shapes

(* What is left of frames in order is in order. *)
LEMMA CutOrdered ==
  ASSUME Torn \notin Nat, NEW last \in Nat, NEW later \in Nat, last <= later,
         NEW c \in Seq(Frame), Ordered(c, last), NEW n \in 0..Len(c),
         NEW d \in Seq(Frame), \A i \in 1..n : d[i] = c[i],
         Len(d) = n \/ (Len(d) = n + 1 /\ d[n + 1] = Torn)
  PROVE  Ordered(d, later)
<1>1. \A i \in 1..n : i \in 1..Len(c)
  BY SMTT(30), Z3T(30)
<1>2. Len(d) \in {n, n + 1} /\ Len(d) \in Nat
  OBVIOUS
<1>3. \A i \in 1..Len(d) : d[i] # Torn => i \in 1..n
  BY <1>2
<1>4. \A x \in 1..last : x \in 1..later
  OBVIOUS
<1> QED
  BY <1>1, <1>3, <1>4, SMTT(10), Z3T(30) DEF Ordered

(* What is in order stays so when the newest entry is added. *)
LEMMA NewestOrdered ==
  ASSUME Torn \notin Nat, NEW last \in Nat \ {0}, NEW c \in Seq(Nat), NEW k \in Nat, Len(c) = k,
         Ordered(c, last), \A i \in 1..k : c[i] < last,
         NEW d \in Seq(Nat), Len(d) = k + 1, d[k + 1] = last, \A i \in 1..k : d[i] = c[i]
  PROVE  Ordered(d, last)
<1>1. \A i \in 1..(k + 1) : i \in 1..k \/ i = k + 1
  OBVIOUS
<1>2. \A i \in 1..k : c[i] # Torn /\ c[i] \in 1..last
  BY DEF Ordered
<1>3. \A i, j \in 1..k : i < j => d[i] < d[j]
  BY <1>2, SMTT(10), Z3T(30) DEF Ordered
<1>4. \A i, j \in 1..(k + 1) : i < j => i \in 1..k
  OBVIOUS
<1>5. \A i, j \in 1..(k + 1) : i < j => d[i] < d[j]
  BY <1>1, <1>3, <1>4, ZenonT(30)
<1>6. \A i \in 1..(k + 1) : d[i] \in 1..last
  BY <1>1, <1>2, SMTT(10), Z3T(30)
<1> QED
  BY <1>5, <1>6, ZenonT(30) DEF Ordered

(* A file that keeps its first n frames keeps what was acknowledged among them. *)
LEMMA KeepsAcked ==
  ASSUME AckedStored, acked \subseteq Nat \X Nat, NEW n \in Nat, synced \in 0..n,
         NEW d, \A i \in 1..n : d[i] = data[i]
  PROVE  \A a \in acked \ astray :
           /\ a[1] + 1 \in 1..synced
           /\ d[a[1] + 1] = a[2]
           /\ \A i \in 1..(a[1] + 1) : d[i] # Torn
<1> TAKE a \in acked \ astray
<1>1. a[1] \in Nat /\ a[1] + 1 \in 1..n /\ \A i \in 1..(a[1] + 1) : i \in 1..n
  BY SMTT(10), Z3T(30) DEF AckedStored
<1> QED
  BY <1>1 DEF AckedStored

-----------------------------------------------------------------------------
(* Every step keeps the invariant. *)

(* OpenFile of an empty file. *)
LEMMA CreateKeeps ==
  ASSUME LogInv, Create
  PROVE  LogInv'
<1> USE DEF Settled, Appending, NoCall
<1>1. /\ Shapes /\ LogTypes /\ Frames /\ PendingLast /\ AckedStored /\ HeaderFirst
      /\ Truncating /\ Aligned
  BY LogFacts
<1>2. /\ status = "closed" /\ data = <<>> /\ synced = 0 /\ call = NoCall
      /\ status' = "creating" /\ header' = "unsynced"
      /\ cache' = [first |-> meta.now, entries |-> <<>>]
      /\ mishaps' = mishaps \cup Ahead(0)
      /\ UNCHANGED <<data, synced, meta, call, acked, appends, astray>>
  BY <1>1 DEF Create, HeaderFirst, PendingLast, Shapes
<1>3. mishaps' = {} => mishaps = {} /\ meta.now = 0
  <2>1. mishaps' = {} => mishaps = {} /\ ~(meta.now > 0)
    BY <1>2, ZenonT(30) DEF Ahead
  <2> QED
    BY <1>1, <2>1 DEF Shapes
<1>4. Frames' /\ AckedStored' /\ LogTypes'
  BY <1>1, <1>2 DEF Frames, Ordered, AckedStored, LogTypes, Shapes
<1>5. Aligned'
  BY <1>1, <1>2, <1>3, SMTT(10), Z3T(30) DEF Aligned, NextOffset, Reads
<1> QED
  BY <1>1, <1>2, <1>4, <1>5
     DEF LogInv, AckedCached, PendingLast, HeaderFirst, Truncating

(* The header is synced or is not; a log that is corrupt is not opened. *)
LEMMA StatusKeeps ==
  ASSUME LogInv, Created \/ Refuse
  PROVE  LogInv'
<1> USE DEF Settled, Appending, NoCall
<1>1. /\ Shapes /\ LogTypes /\ Frames /\ PendingLast /\ AckedStored /\ AckedCached
      /\ HeaderFirst /\ Truncating /\ Aligned
  BY LogFacts
<1>2. /\ UNCHANGED <<data, synced, meta, cache, call, acked, appends, mishaps, astray>>
      /\ \/ status = "creating" /\ status' = "open" /\ header' = "ok"
         \/ status = "closed" /\ status' = "refused" /\ UNCHANGED header
  BY DEF Created, Refuse, histVars
<1>3. PendingLast' /\ HeaderFirst' /\ Frames' /\ AckedStored'
  BY <1>1, <1>2 DEF PendingLast, HeaderFirst, Frames, AckedStored
<1>4. AckedCached'
  <2>1. status = "creating" => acked \ astray = {}
    BY <1>1 DEF HeaderFirst, AckedStored, Shapes
  <2> QED
    BY <1>1, <1>2, <2>1 DEF AckedCached
<1>5. Aligned'
  BY <1>1, <1>2 DEF Aligned, NextOffset, Reads
<1> QED
  BY <1>1, <1>2, <1>3, <1>4, <1>5 DEF LogInv, LogTypes, Truncating, NextOffset

(* writeHeader fails. *)
LEMMA CreateFailsKeeps ==
  ASSUME LogInv, CreateFails
  PROVE  LogInv'
<1> USE DEF Settled, Appending, NoCall
<1>1. /\ Shapes /\ LogTypes /\ Frames /\ PendingLast /\ AckedStored
      /\ HeaderFirst /\ Truncating /\ Aligned
  BY LogFacts
<1>2. /\ UNCHANGED <<data, synced, meta, call, acked, appends, mishaps, astray>>
      /\ status \in {"closed", "creating"} /\ status' = "closed" /\ call = NoCall
      /\ cache' = [first |-> 0, entries |-> <<>>]
      /\ \/ header = "none" /\ header' \in {"none", "torn"}
         \/ UNCHANGED header
  BY <1>1 DEF CreateFails, EmptyCache, PendingLast
<1>3. LogTypes' /\ Frames' /\ AckedStored' /\ AckedCached'
  BY <1>1, <1>2 DEF LogTypes, Frames, Ordered, AckedStored, AckedCached
<1> QED
  BY <1>1, <1>2, <1>3 DEF LogInv, PendingLast, HeaderFirst, Truncating, Aligned

(* Append writes the header of a frame. *)
LEMMA WriteHdrKeeps ==
  ASSUME LogInv, WriteHdr
  PROVE  LogInv'
<1> DEFINE n == Len(data)
<1>1. /\ Shapes /\ LogTypes /\ Frames /\ PendingLast /\ AckedStored /\ AckedCached
      /\ HeaderFirst /\ Truncating /\ Aligned
  BY LogFacts
<1>2. /\ status = "open" /\ call = NoCall /\ call' = "payload" /\ appends' = appends + 1
      /\ data' = Append(data, Torn)
      /\ UNCHANGED <<status, header, synced, meta, cache, acked, mishaps, astray>>
  BY DEF WriteHdr
<1>3. /\ data' \in Seq(Frame) /\ Len(data') = n + 1 /\ data'[n + 1] = Torn
      /\ \A i \in 1..n : data'[i] = data[i]
  BY <1>1, <1>2 DEF LogTypes, Frame
<1>4. n \in Nat /\ appends \in Nat /\ synced \in 0..n /\ Torn \notin Nat /\ n = Len(data)
      /\ acked \subseteq Nat \X Nat /\ appends + 1 \in Nat /\ appends <= appends + 1
  BY <1>1 DEF Shapes, LogTypes
<1> HIDE DEF n
<1>5. Ordered(data', appends + 1)
  <2>1. data \in Seq(Frame) /\ Ordered(data, appends) /\ n \in 0..Len(data)
    BY <1>1, <1>4 DEF LogTypes, Frames
  <2> QED
    BY <1>3, <1>4, <2>1, CutOrdered, SMTT(30), Z3T(30)
<1>6. Frames'
  <2>1. \A x \in 1..appends : x \in 1..(appends + 1)
    BY <1>4
  <2>2. Ordered(cache.entries, appends + 1)
    BY <1>1, <2>1, ZenonT(30) DEF Frames, Ordered
  <2> QED
    BY <1>2, <1>5, <2>2, ZenonT(30) DEF Frames, Ordered
<1>7. LogTypes'
  BY <1>1, <1>2, <1>3, <1>4 DEF LogTypes
<1>8. AckedStored'
  BY <1>1, <1>2, <1>3, <1>4, KeepsAcked DEF AckedStored
<1>9. PendingLast'
  <2>1. \A i \in 1..Len(cache.entries) : cache.entries[i] < appends + 1
    <3>1. \A i \in 1..Len(cache.entries) : cache.entries[i] # Torn
      BY <1>1, <1>4, ZenonT(30) DEF Shapes
    <3>2. \A x \in 1..appends : x < appends + 1
      BY <1>4
    <3> QED
      BY <1>1, <3>1, <3>2, ZenonT(30) DEF Frames, Ordered
  <2>2. \A i \in 1..n : data'[i] # Torn => data'[i] < appends + 1
    BY <1>1, <1>3, <1>4 DEF Frames, Ordered
  <2> QED
    BY <1>2, <1>3, <1>4, <2>1, <2>2, SMTT(10), Z3T(30) DEF PendingLast, Appending
<1>10. Aligned'
  BY <1>1, <1>2, <1>3, <1>4, SMTT(10), Z3T(30)
     DEF Aligned, NextOffset, Reads, Settled, Appending, NoCall
<1>11. AckedCached' /\ HeaderFirst' /\ Truncating'
  BY <1>1, <1>2 DEF AckedCached, HeaderFirst, Truncating
<1> QED
  BY <1>6, <1>7, <1>8, <1>9, <1>10, <1>11 DEF LogInv

(* Append writes the payload. *)
LEMMA WritePayloadKeeps ==
  ASSUME LogInv, WritePayload
  PROVE  LogInv'
<1> DEFINE n == Len(data) - 1
<1>1. /\ Shapes /\ LogTypes /\ Frames /\ PendingLast /\ AckedStored /\ AckedCached
      /\ HeaderFirst /\ Truncating /\ Aligned
  BY LogFacts
<1>2. /\ call = "payload" /\ call' = "sync"
      /\ data' = [data EXCEPT ![Len(data)] = appends]
      /\ UNCHANGED <<status, header, synced, meta, cache, acked, appends, mishaps, astray>>
  BY DEF WritePayload, histVars
<1>3. /\ status = "open" /\ n \in Nat /\ synced \in 0..n /\ appends > 0
      /\ Len(data) = n + 1 /\ appends \in Nat /\ Torn \notin Nat /\ acked \subseteq Nat \X Nat
      /\ \A i \in 1..n : data[i] # Torn => data[i] < appends
  BY <1>1, <1>2 DEF Shapes, PendingLast, Appending, NoCall, LogTypes
<1>4. /\ data' \in Seq(Frame) /\ Len(data') = n + 1 /\ data'[n + 1] = appends
      /\ \A i \in 1..n : data'[i] = data[i]
  <2>1. data \in Seq(Frame) /\ appends \in Frame
    BY <1>1, <1>3 DEF LogTypes, Frame
  <2> HIDE DEF n
  <2> QED
    BY <1>2, <1>3, <2>1, LastSet, SMTT(30), Z3T(30)
<1> HIDE DEF n
<1>5. LogTypes'
  BY <1>1, <1>2, <1>3, <1>4 DEF LogTypes
<1>6. AckedStored'
  BY <1>1, <1>2, <1>3, <1>4, KeepsAcked DEF AckedStored
<1>7. Frames'
  <2>1. \A i \in 1..(n + 1) : i \in 1..n \/ i = n + 1
    BY <1>3
  <2>2. \A i \in 1..n : i \in 1..Len(data)
    BY <1>3
  <2>3. Ordered(data', appends)
    BY <1>1, <1>3, <1>4, <2>1, <2>2, SMTT(10), Z3T(30) DEF Frames, Ordered
  <2> QED
    BY <1>1, <1>2, <2>3 DEF Frames
<1>8. PendingLast'
  BY <1>1, <1>2, <1>3, <1>4, SMTT(10), Z3T(30) DEF PendingLast, Appending, NoCall
<1>9. Aligned'
  BY <1>1, <1>2, <1>3, <1>4, SMTT(10), Z3T(30)
     DEF Aligned, NextOffset, Reads, Settled, Appending
<1>10. AckedCached' /\ HeaderFirst' /\ Truncating'
  BY <1>1, <1>2, <1>3, SMTT(10), Z3T(30) DEF AckedCached, HeaderFirst, Truncating
<1> QED
  BY <1>5, <1>6, <1>7, <1>8, <1>9, <1>10 DEF LogInv

(* Append syncs the file and returns. *)
LEMMA SyncDataKeeps ==
  ASSUME LogInv, SyncData
  PROVE  LogInv'
<1> DEFINE n == Len(data) - 1
           k == Len(cache.entries)
           new == <<cache.first + k, appends>>
<1>1. /\ Shapes /\ LogTypes /\ Frames /\ PendingLast /\ AckedStored /\ AckedCached
      /\ HeaderFirst /\ Truncating /\ Aligned
  BY LogFacts
<1>2. /\ call = "sync" /\ call' = NoCall /\ header' = "ok" /\ synced' = Len(data)
      /\ cache' = [cache EXCEPT !.entries = Append(cache.entries, appends)]
      /\ acked' = acked \cup {new}
      /\ astray' = IF InPlace THEN astray ELSE astray \cup {new}
      /\ UNCHANGED <<status, data, meta, appends, mishaps>>
  BY DEF SyncData, NextOffset
<1>3. /\ status = "open" /\ n \in Nat /\ synced \in 0..n /\ appends > 0
      /\ Len(data) = n + 1 /\ data[n + 1] = appends /\ appends \in Nat /\ Torn \notin Nat
      /\ k \in Nat /\ cache.first \in Nat /\ acked \subseteq Nat \X Nat
      /\ \A i \in 1..k : cache.entries[i] < appends /\ cache.entries[i] \in Nat
  BY <1>1, <1>2 DEF Shapes, PendingLast, Appending, NoCall, LogTypes
<1>4. /\ cache' \in [first : Nat, entries : Seq(Nat)] /\ cache'.first = cache.first
      /\ Len(cache'.entries) = k + 1 /\ cache'.entries[k + 1] = appends
      /\ \A i \in 1..k : cache'.entries[i] = cache.entries[i]
  <2>1. cache' = [first |-> cache.first, entries |-> Append(cache.entries, appends)]
    BY <1>1, <1>2, ZenonT(30) DEF LogTypes
  <2> QED
    BY <1>1, <1>3, <2>1 DEF LogTypes
<1>5. new \in Nat \X Nat /\ new[1] = cache.first + k /\ new[2] = appends
  BY <1>3
<1>6. \A a \in acked' \ astray' : a \in acked \ astray \/ (a = new /\ InPlace)
  BY <1>2, ZenonT(30)
<1> HIDE DEF n, k, new
<1>7. LogTypes'
  <2>1. acked' \subseteq Nat \X Nat /\ synced' \in 0..Len(data')
    BY <1>2, <1>3, <1>5
  <2> QED
    BY <1>1, <1>2, <1>4, <2>1 DEF LogTypes
<1>8. \A i \in 1..(k + 1) : i \in 1..k \/ i = k + 1
  BY <1>3
<1>9. Frames'
  <2>1. cache.entries \in Seq(Nat) /\ Len(cache.entries) = k /\ cache'.entries \in Seq(Nat)
        /\ Ordered(cache.entries, appends)
    BY <1>1, <1>4 DEF LogTypes, Frames, k
  <2>2. appends \in Nat \ {0}
    BY <1>3
  <2>3. Ordered(cache'.entries, appends)
    <3>1. /\ Torn \notin Nat /\ k \in Nat /\ \A i \in 1..k : cache.entries[i] < appends
          /\ Len(cache'.entries) = k + 1 /\ cache'.entries[k + 1] = appends
          /\ \A i \in 1..k : cache'.entries[i] = cache.entries[i]
      BY <1>3, <1>4, ZenonT(30)
    <3> QED
      BY <2>1, <2>2, <3>1, NewestOrdered, ZenonT(30)
  <2> QED
    BY <1>1, <1>2, <2>3 DEF Frames
<1>10. ASSUME InPlace
       PROVE  cache.first + k = n /\ \A i \in 1..(n + 1) : data[i] # Torn
  <2>1. n + 1 = cache.first + k + 1 /\ \A i \in 1..Len(data) : data[i] # Torn
    BY <1>3, <1>10, ZenonT(30) DEF InPlace, Reads, NextOffset, k
  <2> QED
    BY <1>3, <2>1
<1>11. AckedStored'
  <2> SUFFICES ASSUME NEW a \in acked' \ astray'
               PROVE  /\ a[1] + 1 \in 1..(n + 1)
                      /\ data[a[1] + 1] = a[2]
                      /\ \A i \in 1..(a[1] + 1) : data[i] # Torn
    BY <1>2, <1>3 DEF AckedStored
  <2>1. CASE a \in acked \ astray
    <3>1. a[1] + 1 \in 1..synced
      BY <1>1, <2>1, ZenonT(30) DEF AckedStored
    <3>2. a[1] + 1 \in 1..(n + 1)
      BY <1>3, <3>1
    <3> QED
      BY <1>1, <2>1, <3>2, ZenonT(30) DEF AckedStored
  <2>2. CASE a = new /\ InPlace
    <3>1. a[1] = n /\ a[2] = appends
      BY <1>5, <1>10, <2>2
    <3> QED
      BY <1>3, <1>10, <2>2, <3>1
  <2> QED
    BY <1>6, <2>1, <2>2
<1>12. AckedCached'
  <2> SUFFICES ASSUME NEW a \in acked' \ astray', a[1] >= cache.first
               PROVE  /\ a[1] - cache.first + 1 \in 1..(k + 1)
                      /\ cache'.entries[a[1] - cache.first + 1] = a[2]
    BY <1>4, ZenonT(30) DEF AckedCached
  <2>1. CASE a \in acked \ astray
    <3>1. /\ a[1] - cache.first + 1 \in 1..k
          /\ cache.entries[a[1] - cache.first + 1] = a[2]
      BY <1>1, <1>3, <2>1, ZenonT(30) DEF AckedCached, k
    <3>2. a[1] - cache.first + 1 \in 1..(k + 1)
      BY <1>3, <3>1
    <3> QED
      BY <1>4, <3>1, <3>2, ZenonT(30)
  <2>2. CASE a = new
    <3>1. a[1] - cache.first + 1 = k + 1 /\ a[2] = appends
      BY <1>3, <1>5, <2>2
    <3> QED
      BY <1>3, <1>4, <3>1
  <2> QED
    BY <1>6, <2>1, <2>2
<1>13. Aligned'
  <2> SUFFICES ASSUME mishaps = {}
               PROVE  /\ astray' = {} /\ cache'.first + Len(cache'.entries) = n + 1
                      /\ \A i \in 1..(n + 1) : data[i] # Torn
    BY <1>2, <1>3, SMTT(10), Z3T(30) DEF Aligned, NextOffset, Reads, Settled, Appending, NoCall
  <2>1. /\ astray = {} /\ cache.first + k = n /\ \A i \in 1..n : data[i] # Torn
    BY <1>1, <1>2, <1>3, SMTT(10), Z3T(30)
       DEF Aligned, NextOffset, Reads, Settled, Appending, k
  <2>2. \A i \in 1..(n + 1) : data[i] # Torn
    BY <1>3, <2>1, SMTT(10), Z3T(30)
  <2>3. InPlace
    BY <1>3, <2>1, <2>2 DEF InPlace, Reads, NextOffset, k
  <2> QED
    BY <1>2, <1>3, <1>4, <2>1, <2>2, <2>3
<1>14. PendingLast' /\ HeaderFirst' /\ Truncating'
  BY <1>1, <1>2, <1>3 DEF PendingLast, HeaderFirst, Truncating, Appending, NoCall
<1> QED
  BY <1>7, <1>9, <1>11, <1>12, <1>13, <1>14 DEF LogInv

(* An Append that fails is undone, or is not. *)
LEMMA AppendFailsKeeps ==
  ASSUME LogInv, AppendFails
  PROVE  LogInv'
<1> DEFINE n == Len(data) - 1
<1>1. /\ Shapes /\ LogTypes /\ Frames /\ PendingLast /\ AckedStored /\ AckedCached
      /\ HeaderFirst /\ Truncating /\ Aligned
  BY LogFacts
<1>2. /\ Appending /\ call' = NoCall
      /\ \/ data' = SubSeq(data, 1, n) /\ UNCHANGED mishaps
         \/ UNCHANGED data /\ mishaps' # {}
      /\ UNCHANGED <<status, header, synced, meta, cache, acked, appends, astray>>
  BY ZenonT(30) DEF AppendFails, Appending
<1>3. /\ status = "open" /\ n \in Nat /\ synced \in 0..n /\ n \in 0..Len(data)
      /\ Len(data) = n + 1 /\ appends \in Nat /\ Torn \notin Nat /\ acked \subseteq Nat \X Nat
      /\ data \in Seq(Frame) /\ Ordered(data, appends) /\ appends <= appends
  BY <1>1, <1>2 DEF Shapes, PendingLast, Appending, NoCall, LogTypes, Frames
<1> HIDE DEF n
<1>4. /\ data' \in Seq(Frame) /\ Len(data') \in {n, n + 1} /\ Ordered(data', appends)
      /\ \A i \in 1..n : data'[i] = data[i]
      /\ mishaps' = {} => Len(data') = n
  <2>1. CASE UNCHANGED data /\ mishaps' # {}
    BY <1>3, <2>1 DEF Ordered
  <2>2. CASE data' = SubSeq(data, 1, n)
    <3>1. /\ data' \in Seq(Frame) /\ Len(data') = n
          /\ \A i \in 1..n : data'[i] = data[i]
      BY <1>3, <2>2, Prefix
    <3> QED
      BY <1>3, <3>1, CutOrdered, SMTT(30), Z3T(30)
  <2> QED
    BY <1>2, <2>1, <2>2
<1>5. LogTypes' /\ Frames'
  BY <1>1, <1>2, <1>3, <1>4, SMTT(10), Z3T(30) DEF LogTypes, Frames
<1>6. AckedStored'
  BY <1>1, <1>2, <1>3, <1>4, KeepsAcked, SMTT(10), Z3T(30) DEF AckedStored
<1>7. Aligned'
  BY <1>1, <1>2, <1>3, <1>4, SMTT(10), Z3T(30)
     DEF Aligned, NextOffset, Reads, Settled, Appending, NoCall
<1>8. AckedCached' /\ PendingLast' /\ HeaderFirst' /\ Truncating'
  BY <1>1, <1>2, <1>3, SMTT(10), Z3T(30)
     DEF AckedCached, PendingLast, HeaderFirst, Truncating, Appending, NoCall
<1> QED
  BY <1>5, <1>6, <1>7, <1>8 DEF LogInv

(* A step of Truncate that touches the meta file only. *)
LEMMA MetaKeeps ==
  ASSUME LogInv, status = "open", ~Appending, ~Appending',
         UNCHANGED <<status, header, data, synced, cache, acked, appends, mishaps, astray>>,
         meta' \in FileOf(Nat), Truncating'
  PROVE  LogInv'
<1>1. LogTypes /\ Frames /\ PendingLast /\ AckedStored /\ AckedCached /\ HeaderFirst /\ Aligned
  BY LogFacts, SMTT(10), Z3T(30)
<1>2. LogTypes' /\ Frames' /\ AckedStored' /\ AckedCached' /\ HeaderFirst'
  BY <1>1 DEF LogTypes, Frames, Ordered, AckedStored, AckedCached, HeaderFirst
<1>3. PendingLast'
  BY SMTT(10), Z3T(30) DEF PendingLast, Appending
<1>4. Aligned'
  BY <1>1 DEF Aligned, NextOffset, Reads, Settled
<1> QED
  BY <1>2, <1>3, <1>4 DEF LogInv

-----------------------------------------------------------------------------
(* The message log: Truncate, OpenFile, crashes *)

(* Truncate writes the new first offset to a temporary file. *)
LEMMA WriteMetaKeeps ==
  ASSUME LogInv, WriteMeta
  PROVE  LogInv'
<1>1. PICK below \in 1..(MaxAppends + 1) :
        /\ below > cache.first /\ Clamp(below) # cache.first
        /\ meta' = [meta EXCEPT !.tmp = [value |-> Clamp(below), synced |-> FALSE]]
  BY ZenonT(30) DEF WriteMeta, WriteTmp
<1>2. /\ status = "open" /\ ~Appending /\ call' = "syncMeta" /\ ~Appending'
      /\ UNCHANGED <<status, header, data, synced, cache, acked, appends, mishaps, astray>>
  BY SMTT(10), Z3T(30) DEF WriteMeta, Appending, NoCall, histVars
<1>3. Shapes /\ meta \in FileOf(Nat)
  BY LogFacts DEF LogTypes
<1>4. Clamp(below) \in (cache.first + 1)..NextOffset /\ Clamp(below) \in Nat
  <2>1. below \in Nat /\ below > cache.first
    BY <1>1, FileLogAssumption
  <2>2. NextOffset \in Nat /\ cache.first <= NextOffset
    BY <1>3, SMTT(10), Z3T(30) DEF NextOffset, Shapes
  <2> QED
    BY <1>1, <1>3, <2>1, <2>2, SMTT(10), Z3T(30) DEF Clamp, Shapes
<1>5. meta' = [now |-> meta.now, disk |-> meta.disk,
               tmp |-> [value |-> Clamp(below), synced |-> FALSE]]
  BY <1>1, <1>3, ZenonT(30) DEF FileOf
<1>6. meta' \in FileOf(Nat)
  BY <1>3, <1>4, <1>5, ZenonT(30) DEF FileOf
<1>7. Truncating'
  BY <1>2, <1>4, <1>5 DEF Truncating, NextOffset
<1> QED
  BY <1>2, <1>6, <1>7, MetaKeeps

(* Truncate syncs the temporary file. *)
LEMMA SyncMetaKeeps ==
  ASSUME LogInv, SyncMeta
  PROVE  LogInv'
<1>1. /\ call = "syncMeta" /\ call' = "renameMeta" /\ ~Appending /\ ~Appending'
      /\ meta' = [meta EXCEPT !.tmp.synced = TRUE]
      /\ UNCHANGED <<status, header, data, synced, cache, acked, appends, mishaps, astray>>
  BY DEF SyncMeta, SyncTmp, Appending, histVars
<1>2. status = "open"
  BY <1>1, LogFacts DEF PendingLast, NoCall
<1>3. /\ meta \in FileOf(Nat) /\ cache.first \in Nat
      /\ meta.tmp \in [value : (cache.first + 1)..NextOffset, synced : BOOLEAN]
  BY <1>1, LogFacts DEF LogTypes, Truncating, Shapes
<1>4. meta' = [now |-> meta.now, disk |-> meta.disk,
               tmp |-> [value |-> meta.tmp.value, synced |-> TRUE]]
  BY <1>1, <1>3, ZenonT(30) DEF FileOf
<1>5. meta.tmp.value \in (cache.first + 1)..NextOffset /\ meta.tmp.value \in Nat
  BY <1>3
<1>6. meta' \in FileOf(Nat)
  BY <1>3, <1>4, <1>5 DEF FileOf
<1>7. Truncating'
  <2>1. /\ meta'.tmp \in [value : (cache.first + 1)..NextOffset, synced : BOOLEAN]
        /\ meta'.tmp.synced
    BY <1>4, <1>5, ZenonT(30)
  <2> QED
    BY <1>1, <2>1, ZenonT(30) DEF Truncating, NextOffset
<1> QED
  BY <1>1, <1>2, <1>6, <1>7, MetaKeeps

(* Truncate renames it. *)
LEMMA RenameMetaKeeps ==
  ASSUME LogInv, RenameMeta
  PROVE  LogInv'
<1>1. /\ call = "renameMeta" /\ call' = "syncDir" /\ ~Appending /\ ~Appending'
      /\ meta' = Rename(meta)
      /\ UNCHANGED <<status, header, data, synced, cache, acked, appends, mishaps, astray>>
  BY DEF RenameMeta, Appending, histVars
<1>2. status = "open"
  BY <1>1, LogFacts, ZenonT(30) DEF PendingLast, NoCall
<1>3. /\ meta.disk \subseteq Nat /\ cache.first \in Nat
      /\ meta.tmp.value \in (cache.first + 1)..NextOffset /\ meta.tmp.synced
  BY <1>1, LogFacts, ZenonT(30) DEF Shapes, Truncating
<1>4. /\ meta' = [now |-> meta.tmp.value, disk |-> meta.disk \cup {meta.tmp.value}, tmp |-> NoTmp]
      /\ meta.tmp.value \in Nat
  BY <1>1, <1>3, SMTT(10), Z3T(30) DEF Rename
<1>5. meta' \in FileOf(Nat)
  BY <1>3, <1>4, ZenonT(30) DEF FileOf
<1>6. Truncating'
  BY <1>1, <1>3, <1>4, SMTT(10), Z3T(30) DEF Truncating, NextOffset
<1> QED
  BY <1>1, <1>2, <1>5, <1>6, MetaKeeps

(* A Truncate that fails leaves the cache alone. *)
LEMMA TruncateFailsKeeps ==
  ASSUME LogInv, TruncateFails
  PROVE  LogInv'
<1>1. /\ call # NoCall /\ call' = NoCall /\ ~Appending /\ ~Appending'
      /\ meta' = [meta EXCEPT !.tmp = NoTmp]
      /\ UNCHANGED <<status, header, data, synced, cache, acked, appends, mishaps, astray>>
  BY DEF TruncateFails, Cleanup, Appending, NoCall
<1>2. status = "open"
  BY <1>1, LogFacts DEF PendingLast
<1>3. meta \in FileOf(Nat)
  BY LogFacts DEF LogTypes
<1>4. meta' = [now |-> meta.now, disk |-> meta.disk, tmp |-> NoTmp]
  BY <1>1, <1>3 DEF FileOf
<1>5. meta' \in FileOf(Nat) /\ Truncating'
  BY <1>1, <1>3, <1>4 DEF FileOf, Truncating, NoCall
<1> QED
  BY <1>1, <1>2, <1>5, MetaKeeps

(* Truncate syncs the directory and drops the entries. *)
LEMMA SyncMetaDirKeeps ==
  ASSUME LogInv, SyncMetaDir
  PROVE  LogInv'
<1> DEFINE k == meta.now - cache.first
           n == Len(cache.entries)
<1>1. /\ Shapes /\ LogTypes /\ Frames /\ PendingLast /\ AckedStored /\ AckedCached
      /\ HeaderFirst /\ Truncating /\ Aligned
  BY LogFacts
<1>2. /\ call = "syncDir" /\ call' = NoCall /\ ~Appending /\ ~Appending'
      /\ meta' = [meta EXCEPT !.disk = {meta.now}]
      /\ cache' = [first |-> meta.now,
                   entries |-> SubSeq(cache.entries, k + 1, Len(cache.entries))]
      /\ UNCHANGED <<status, header, data, synced, acked, appends, mishaps, astray>>
  BY DEF SyncMetaDir, SyncDir, DropEntries, Appending, NoCall, histVars
<1>3. status = "open"
  BY <1>1, <1>2 DEF PendingLast, NoCall
<1>4. /\ meta.now \in Nat /\ cache.first \in Nat /\ n \in Nat /\ appends \in Nat
      /\ cache.entries \in Seq(Nat) /\ meta.now \in (cache.first + 1)..(cache.first + n)
      /\ acked \subseteq Nat \X Nat
  BY <1>1, <1>2, ZenonT(30) DEF Shapes, Truncating, NextOffset, LogTypes
<1>5. k \in 0..n /\ cache.first + k = meta.now /\ n = Len(cache.entries)
  BY <1>4
<1> HIDE DEF k, n
<1>6. /\ cache'.first = meta.now /\ cache'.entries \in Seq(Nat)
      /\ cache' \in [first : Nat, entries : Seq(Nat)]
      /\ Len(cache'.entries) = n - k
      /\ \A i \in 1..(n - k) : cache'.entries[i] = cache.entries[k + i]
  BY <1>2, <1>4, <1>5, Suffix, ZenonT(30)
<1>7. \A i \in 1..(n - k) : k + i \in 1..n
  BY <1>4, <1>5
<1>8. Frames'
  <2>1. \A i, j \in 1..(n - k) : i < j => k + i < k + j
    BY <1>4, <1>5
  <2>2. Ordered(cache'.entries, appends)
    BY <1>1, <1>5, <1>6, <1>7, <2>1, ZenonT(30) DEF Frames, Ordered
  <2> QED
    BY <1>1, <1>2, <2>2 DEF Frames
<1>9. AckedCached'
  <2> SUFFICES ASSUME NEW a \in acked \ astray, a[1] >= meta.now
               PROVE  /\ a[1] - meta.now + 1 \in 1..(n - k)
                      /\ cache'.entries[a[1] - meta.now + 1] = a[2]
    BY <1>2, <1>6, ZenonT(30) DEF AckedCached
  <2>1. a[1] \in Nat /\ a[1] >= cache.first
    BY <1>4
  <2>2. /\ a[1] - cache.first + 1 \in 1..n
        /\ cache.entries[a[1] - cache.first + 1] = a[2]
    BY <1>1, <1>3, <1>5, <2>1, ZenonT(30) DEF AckedCached
  <2>3. /\ a[1] - meta.now + 1 \in 1..(n - k)
        /\ k + (a[1] - meta.now + 1) = a[1] - cache.first + 1
    <3>1. cache.first <= meta.now /\ meta.now <= a[1]
      BY <1>4, <2>1
    <3> DEFINE x == a[1]
               f == cache.first
               m == meta.now
    <3>2. /\ x \in Nat /\ f \in Nat /\ m \in Nat /\ n \in Nat
          /\ f <= m /\ m <= x /\ x - f + 1 \in 1..n
      BY <1>4, <2>1, <2>2, <3>1
    <3> HIDE DEF x, f, m
    <3>3. x - m + 1 \in 1..(n - (m - f)) /\ (m - f) + (x - m + 1) = x - f + 1
      BY <3>2, Place
    <3> QED
      BY <3>3 DEF k, x, f, m
  <2> QED
    BY <1>6, <2>2, <2>3
<1>10. Aligned'
  <2>1. meta.now + (n - k) = cache.first + n
    BY <1>4 DEF k
  <2>2. NextOffset' = NextOffset
    BY <1>5, <1>6, <2>1, ZenonT(30) DEF NextOffset
  <2> QED
    BY <1>1, <1>2, <1>3, <2>2 DEF Aligned, Reads, Settled
<1>11. meta' = [now |-> meta.now, disk |-> {meta.now}, tmp |-> meta.tmp] /\ meta' \in FileOf(Nat)
  BY <1>1, <1>2, ZenonT(30) DEF LogTypes, FileOf
<1>12. LogTypes' /\ AckedStored' /\ HeaderFirst'
  BY <1>1, <1>2, <1>6, <1>11, ZenonT(30) DEF LogTypes, AckedStored, HeaderFirst
<1>13. PendingLast' /\ Truncating'
  BY <1>2 DEF PendingLast, Truncating, NoCall
<1> QED
  BY <1>8, <1>9, <1>10, <1>12, <1>13 DEF LogInv

(* OpenFile has read n frames and cut the file there, of which what was    *)
(* acknowledged in its place is either part or gone astray.                *)
LEMMA OpenedKeeps ==
  ASSUME LogInv, NEW n \in 0..Len(data), Reads(n), Opened(n),
         astray \subseteq astray', \A a \in acked \ astray' : a[1] < n,
         mishaps' = {} => mishaps = {} /\ astray' = astray /\ ~(meta.now > n)
  PROVE  LogInv'
<1>1. /\ Shapes /\ LogTypes /\ Frames /\ PendingLast /\ AckedStored /\ HeaderFirst /\ Aligned
  BY LogFacts
<1>2. /\ status = "closed" /\ status' = "open" /\ call = NoCall /\ header \in {"unsynced", "ok"}
      /\ data' = SubSeq(data, 1, n) /\ synced' = IF synced > n THEN n ELSE synced
      /\ cache' = [first |-> meta.now, entries |-> SubSeq(data', meta.now + 1, Len(data'))]
      /\ UNCHANGED <<header, meta, call, acked, appends>>
  BY <1>1, ZenonT(30) DEF Opened, Scan, PendingLast, NoCall
<1>3. /\ n \in Nat /\ Len(data) \in Nat /\ synced \in 0..Len(data) /\ data \in Seq(Frame)
      /\ appends \in Nat /\ meta.now \in Nat /\ Torn \notin Nat /\ acked \subseteq Nat \X Nat
      /\ \A i \in 1..n : data[i] \in Nat /\ data[i] # Torn /\ i \in 1..Len(data)
  BY <1>1, SMTT(10), Z3T(30) DEF Shapes, LogTypes, Reads, Frame
<1>4. /\ data' \in Seq(Frame) /\ Len(data') = n
      /\ \A i \in 1..n : data'[i] = data[i]
  BY <1>2, <1>3, Prefix
<1>5. Ordered(data', appends)
  <2>1. Ordered(data, appends) /\ appends <= appends
    BY <1>1, <1>3, SMTT(10), Z3T(30) DEF Frames
  <2> QED
    BY <1>3, <1>4, <2>1, CutOrdered, SMTT(30), Z3T(30)
<1>6. /\ cache'.first = meta.now /\ cache' \in [first : Nat, entries : Seq(Nat)]
      /\ Len(cache'.entries) = IF meta.now > n THEN 0 ELSE n - meta.now
      /\ \A i \in 1..Len(cache'.entries) :
           cache'.entries[i] = data'[meta.now + i] /\ meta.now + i \in 1..n
  <2> DEFINE t == SubSeq(data', meta.now + 1, Len(data'))
  <2>1. data' \in Seq(Nat)
    <3>1. \A i \in 1..Len(data') : data'[i] \in Nat
      BY <1>3, <1>4
    <3> QED
      BY <1>4, <3>1
  <2>2. CASE meta.now > n
    <3>1. t = <<>>
      BY <1>3, <1>4, <2>1, <2>2, SMTT(10), Z3T(30)
    <3> HIDE DEF t
    <3>2. cache' = [first |-> meta.now, entries |-> t]
      BY <1>2 DEF t
    <3> QED
      BY <1>3, <2>2, <3>1, <3>2
  <2>3. CASE ~(meta.now > n)
    <3>1. meta.now \in 0..Len(data')
      BY <1>3, <1>4, <2>3
    <3>2. /\ t \in Seq(Nat) /\ Len(t) = n - meta.now
          /\ \A i \in 1..(n - meta.now) : t[i] = data'[meta.now + i]
      BY <1>4, <2>1, <3>1, Suffix, ZenonT(30)
    <3>3. \A i \in 1..(n - meta.now) : meta.now + i \in 1..n
      BY <1>3
    <3> HIDE DEF t
    <3>4. cache' = [first |-> meta.now, entries |-> t]
      BY <1>2 DEF t
    <3> QED
      BY <1>3, <2>3, <3>2, <3>3, <3>4, ZenonT(30)
  <2> QED
    BY <2>2, <2>3, SMTT(10), Z3T(30)
<1>7. Frames'
  <2> DEFINE k == Len(cache'.entries)
  <2>1. \A i, j \in 1..k : i < j => meta.now + i < meta.now + j
    <3>1. k \in Nat
      BY <1>6
    <3> HIDE DEF k
    <3> QED
      BY <1>3, <3>1
  <2>2. Ordered(cache'.entries, appends)
    BY <1>4, <1>5, <1>6, <2>1, ZenonT(30) DEF Ordered
  <2> QED
    BY <1>2, <1>5, <2>2 DEF Frames
<1>8. AckedStored'
  <2> SUFFICES ASSUME NEW a \in acked \ astray'
               PROVE  /\ a[1] + 1 \in 1..synced'
                      /\ data'[a[1] + 1] = a[2]
                      /\ \A i \in 1..(a[1] + 1) : data'[i] # Torn
    BY <1>2 DEF AckedStored
  <2>1. a \in acked \ astray /\ a[1] < n /\ a[1] \in Nat
    BY <1>3
  <2>2. a[1] + 1 \in 1..synced /\ data[a[1] + 1] = a[2]
    BY <1>1, <2>1, ZenonT(30) DEF AckedStored
  <2>3. a[1] + 1 \in 1..n /\ a[1] + 1 \in 1..synced' /\ \A i \in 1..(a[1] + 1) : i \in 1..n
    BY <1>2, <1>3, <2>1, <2>2, SMTT(10), Z3T(30)
  <2> QED
    BY <1>3, <1>4, <2>2, <2>3, ZenonT(30)
<1>9. AckedCached'
  <2> SUFFICES ASSUME NEW a \in acked \ astray', a[1] >= meta.now
               PROVE  /\ a[1] - meta.now + 1 \in 1..Len(cache'.entries)
                      /\ cache'.entries[a[1] - meta.now + 1] = a[2]
    BY <1>2, <1>6, ZenonT(30) DEF AckedCached
  <2>1. a \in acked \ astray /\ a[1] < n /\ a[1] \in Nat
    BY <1>3
  <2>2. data[a[1] + 1] = a[2]
    BY <1>1, <2>1, ZenonT(30) DEF AckedStored
  <2>3. /\ a[1] - meta.now + 1 \in 1..Len(cache'.entries)
        /\ meta.now + (a[1] - meta.now + 1) = a[1] + 1 /\ a[1] + 1 \in 1..n
    <3>1. a[1] - 0 + 1 \in 1..n /\ 0 <= meta.now /\ meta.now <= a[1] /\ ~(meta.now > n)
      BY <1>3, <2>1, SMTT(10), Z3T(30)
    <3>2. /\ a[1] - meta.now + 1 \in 1..(n - (meta.now - 0))
          /\ (meta.now - 0) + (a[1] - meta.now + 1) = a[1] - 0 + 1
      BY <1>3, <2>1, <3>1, Place, SMTT(10), Z3T(30)
    <3>3. n - (meta.now - 0) = Len(cache'.entries) /\ meta.now - 0 = meta.now /\ a[1] - 0 + 1 = a[1] + 1
      BY <1>3, <1>6, <2>1, <3>1, SMTT(10), Z3T(30)
    <3> QED
      BY <3>1, <3>2, <3>3, ZenonT(30)
  <2>4. /\ cache'.entries[a[1] - meta.now + 1] = data'[meta.now + (a[1] - meta.now + 1)]
        /\ data'[a[1] + 1] = data[a[1] + 1]
    BY <1>4, <1>6, <2>3, ZenonT(30)
  <2> QED
    BY <2>2, <2>3, <2>4, ZenonT(30)
<1>10. Aligned'
  <2> SUFFICES ASSUME mishaps' = {}
               PROVE  astray' = {} /\ NextOffset' = n /\ \A i \in 1..n : data'[i] # Torn
    BY <1>2, <1>4 DEF Aligned, Reads, Settled, Appending, NoCall
  <2>1. astray' = {} /\ ~(meta.now > n)
    BY <1>1, SMTT(10), Z3T(30) DEF Aligned
  <2> QED
    <3>1. meta.now + (n - meta.now) = n
      BY <1>3
    <3>2. NextOffset' = n
      BY <1>6, <2>1, <3>1, ZenonT(30) DEF NextOffset
    <3> QED
      BY <1>3, <1>4, <2>1, <3>2, ZenonT(30)
<1>11. LogTypes'
  <2>1. synced' \in 0..n
    BY <1>2, <1>3
  <2> QED
    BY <1>1, <1>2, <1>4, <1>6, <2>1, SMTT(10), Z3T(30) DEF LogTypes
<1>12. HeaderFirst'
  BY <1>1, <1>2, <1>3 DEF HeaderFirst
<1>13. PendingLast' /\ Truncating'
  BY <1>2 DEF PendingLast, Truncating, Appending, NoCall
<1> QED
  BY <1>7, <1>8, <1>9, <1>10, <1>11, <1>12, <1>13 DEF LogInv

(* OpenFile reads all there is. *)
LEMMA OpenKeeps ==
  ASSUME LogInv, Open
  PROVE  LogInv'
<1>1. PICK n \in 0..Len(data) :
        Reads(n) /\ Ends(n) /\ Opened(n) /\ mishaps' = mishaps \cup Ahead(n)
  BY DEF Open
<1>2. AckedStored /\ Shapes /\ acked \subseteq Nat \X Nat
  BY LogFacts DEF LogTypes
<1>3. astray' = astray
  BY DEF Open
<1>4. ASSUME NEW a \in acked \ astray PROVE a[1] < n
  <2>1. a[1] \in Nat /\ a[1] + 1 \in 1..Len(data) /\ \A i \in 1..(a[1] + 1) : data[i] # Torn
    BY <1>2 DEF AckedStored, Shapes
  <2>2. n < Len(data) => ~(n + 1 \in 1..(a[1] + 1))
    BY <1>1, <2>1, ZenonT(30) DEF Ends
  <2> QED
    BY <1>2, <2>1, <2>2 DEF Shapes
<1>5. mishaps' = {} => mishaps = {} /\ ~(meta.now > n)
  BY <1>1, ZenonT(30) DEF Ahead
<1> QED
  BY <1>1, <1>3, <1>4, <1>5, OpenedKeeps

(* OpenFile stops at a read that fails. *)
LEMMA OpenCutsShortKeeps ==
  ASSUME LogInv, OpenCutsShort
  PROVE  LogInv'
<1>1. PICK n \in 0..Len(data) :
        /\ Reads(n) /\ Opened(n) /\ mishaps' = mishaps \cup {"read"} \cup Ahead(n)
        /\ astray' = astray \cup {a \in acked : a[1] >= n}
  BY DEF OpenCutsShort
<1>2. Shapes /\ acked \subseteq Nat \X Nat
  BY LogFacts DEF LogTypes
<1>3. \A a \in acked \ astray' : a[1] < n
  BY <1>1, <1>2 DEF Shapes
<1>4. mishaps' # {} /\ astray \subseteq astray'
  BY <1>1
<1> QED
  BY <1>1, <1>3, <1>4, OpenedKeeps

(* A loss of power keeps what was synced, and of the rest a prefix. *)
LEMMA KeptIs ==
  ASSUME data \in Seq(Frame), synced \in 0..Len(data), NEW d \in Kept
  PROVE  /\ d \in Seq(Frame)
         /\ \E n \in synced..Len(data) :
              /\ \A i \in 1..n : d[i] = data[i]
              /\ Len(d) = n \/ (Len(d) = n + 1 /\ d[n + 1] = Torn)
<1>1. CASE d = data
  <2>1. Len(data) \in synced..Len(data)
    OBVIOUS
  <2> QED
    BY <1>1, <2>1
<1>2. ASSUME NEW n \in synced..(Len(data) - 1),
             d = SubSeq(data, 1, n) \/ d = Append(SubSeq(data, 1, n), Torn)
      PROVE  /\ d \in Seq(Frame) /\ n \in synced..Len(data)
             /\ \A i \in 1..n : d[i] = data[i]
             /\ Len(d) = n \/ (Len(d) = n + 1 /\ d[n + 1] = Torn)
  <2>1. /\ SubSeq(data, 1, n) \in Seq(Frame) /\ Len(SubSeq(data, 1, n)) = n
        /\ \A i \in 1..n : SubSeq(data, 1, n)[i] = data[i]
    BY Prefix
  <2>2. CASE d = SubSeq(data, 1, n)
    BY <2>1, <2>2
  <2>3. CASE d = Append(SubSeq(data, 1, n), Torn)
    <3> DEFINE kept == SubSeq(data, 1, n)
    <3> HIDE DEF kept
    <3> QED
      BY <2>1, <2>3 DEF Frame
  <2> QED
    BY <1>2, <2>2, <2>3
<1>3. \/ d = data
      \/ \E n \in synced..(Len(data) - 1) :
           d = SubSeq(data, 1, n) \/ d = Append(SubSeq(data, 1, n), Torn)
  <2>1. CASE d \in {data}
    BY <2>1
  <2>2. ASSUME NEW T \in {{SubSeq(data, 1, n), Append(SubSeq(data, 1, n), Torn)} :
                            n \in synced..(Len(data) - 1)},
               d \in T
        PROVE  \E n \in synced..(Len(data) - 1) :
                 d = SubSeq(data, 1, n) \/ d = Append(SubSeq(data, 1, n), Torn)
    BY <2>2, Zenon
  <2>3. \/ d \in UNION {{SubSeq(data, 1, n), Append(SubSeq(data, 1, n), Torn)} :
                            n \in synced..(Len(data) - 1)}
        \/ d \in {data}
    BY DEF Kept
  <2> QED
    BY <2>1, <2>2, <2>3, Zenon
<1> QED
  BY <1>1, <1>2, <1>3, ZenonT(30)

(* Closing the log or killing the process loses nothing, and a loss of     *)
(* power keeps what was synced.                                            *)
LEMMA CrashKeeps ==
  ASSUME LogInv, NEW kind, CrashLog(kind)
  PROVE  LogInv'
<1>1. /\ Shapes /\ LogTypes /\ Frames /\ AckedStored /\ HeaderFirst /\ Aligned
  BY LogFacts
<1>2. /\ status' = "closed" /\ call' = NoCall /\ cache' = [first |-> 0, entries |-> <<>>]
      /\ UNCHANGED <<acked, appends, mishaps, astray>>
      /\ \/ UNCHANGED <<header, data, synced>>
         \/ /\ synced' = Len(data')
            /\ header' = "ok" => data' \in Kept
            /\ header' # "ok" => data' = <<>> /\ header # "ok"
      /\ meta' = [meta EXCEPT !.tmp = NoTmp] \/ \E v \in meta.disk : meta' = Fresh(v)
  BY ZenonT(30) DEF CrashLog, LoseUnsynced, AfterCrash, Cleanup, EmptyCache
<1>3. /\ Len(data) \in Nat /\ synced \in 0..Len(data) /\ appends \in Nat /\ Torn \notin Nat
      /\ data \in Seq(Frame) /\ Ordered(data, appends) /\ appends <= appends
      /\ acked \subseteq Nat \X Nat /\ (header # "ok" => synced = 0)
  BY <1>1 DEF Shapes, LogTypes, Frames, HeaderFirst
<1>4. /\ data' \in Seq(Frame) /\ Ordered(data', appends)
      /\ synced \in 0..synced' /\ synced' \in 0..Len(data')
      /\ \A i \in 1..synced : data'[i] = data[i]
  <2>1. CASE UNCHANGED <<header, data, synced>>
    BY <1>3, <2>1
  <2>2. CASE synced' = Len(data') /\ data' = <<>> /\ header # "ok"
    BY <1>3, <2>2 DEF Ordered
  <2>3. CASE synced' = Len(data') /\ data' \in Kept
    <3>1. data' \in Seq(Frame) /\ Len(data') \in Nat
      BY <1>3, <2>3, KeptIs
    <3>2. PICK n \in synced..Len(data) :
               /\ \A i \in 1..n : data'[i] = data[i]
               /\ Len(data') = n \/ (Len(data') = n + 1 /\ data'[n + 1] = Torn)
      BY <1>3, <2>3, KeptIs, SMTT(10), Z3T(30)
    <3>3. n \in 0..Len(data) /\ n \in Nat /\ synced <= n
      BY <1>3
    <3>4. Ordered(data', appends)
      BY <1>3, <3>1, <3>2, <3>3, CutOrdered, SMTT(30), Z3T(30)
    <3>5. synced <= Len(data') /\ \A i \in 1..synced : i \in 1..n
      BY <1>3, <3>1, <3>2, <3>3
    <3> QED
      BY <1>3, <2>3, <3>1, <3>2, <3>4, <3>5
  <2> QED
    BY <1>2, <2>1, <2>2, <2>3, ZenonT(30)
<1>5. meta' \in FileOf(Nat)
  <2>1. CASE meta' = [meta EXCEPT !.tmp = NoTmp]
    <3>1. meta' = [now |-> meta.now, disk |-> meta.disk, tmp |-> NoTmp]
      BY <1>1, <2>1, SMTT(10), Z3T(30) DEF LogTypes, FileOf
    <3> QED
      BY <1>1, <3>1 DEF LogTypes, FileOf
  <2>2. ASSUME NEW v \in meta.disk, meta' = Fresh(v) PROVE meta' \in FileOf(Nat)
    BY <1>1, <2>2 DEF Shapes, FileOf, Fresh
  <2> QED
    BY <1>2, <2>1, <2>2
<1>6. LogTypes' /\ Frames'
  BY <1>1, <1>2, <1>4, <1>5 DEF LogTypes, Frames, Ordered
<1>7. AckedStored'
  <2>1. synced \in Nat /\ synced \in 0..synced
    BY <1>3
  <2>2. \A a \in acked \ astray :
           /\ a[1] + 1 \in 1..synced
           /\ data'[a[1] + 1] = a[2]
           /\ \A i \in 1..(a[1] + 1) : data'[i] # Torn
    BY <1>1, <1>3, <1>4, <2>1, KeepsAcked, SMTT(10), Z3T(30)
  <2>3. \A i \in 1..synced : i \in 1..synced'
    BY <1>3, <1>4
  <2> QED
    BY <1>2, <2>2, <2>3, ZenonT(30) DEF AckedStored
<1>8. HeaderFirst'
  BY <1>1, <1>2, <1>4 DEF HeaderFirst
<1>9. PendingLast' /\ AckedCached' /\ Truncating' /\ Aligned'
  BY <1>1, <1>2 DEF PendingLast, AckedCached, Truncating, Aligned, Appending, NoCall
<1> QED
  BY <1>6, <1>7, <1>8, <1>9 DEF LogInv

(* Every step of an operation on the log keeps the invariant. *)
LEMMA LogStepKeeps ==
  ASSUME LogInv, LogStep
  PROVE  LogInv'
BY CreateKeeps, StatusKeeps, CreateFailsKeeps, OpenKeeps, OpenCutsShortKeeps, WriteHdrKeeps,
   WritePayloadKeeps, SyncDataKeeps, AppendFailsKeeps, WriteMetaKeeps, SyncMetaKeeps,
   RenameMetaKeeps, SyncMetaDirKeeps, TruncateFailsKeeps, SMTT(10), Z3T(30)
   DEF LogStep

(* The invariant holds in every state of the storage of a member. *)
LEMMA LogAlways == StorageSpec => []LogInv
<1>1. StorageInit => LogInv
  <2> SUFFICES ASSUME StorageInit PROVE LogInv
    OBVIOUS
  <2>1. /\ status = "closed" /\ header = "none" /\ data = <<>> /\ synced = 0
        /\ meta = [now |-> 0, disk |-> {0}, tmp |-> NoTmp]
        /\ cache = [first |-> 0, entries |-> <<>>]
        /\ call = NoCall /\ acked = {} /\ appends = 0 /\ astray = {}
    BY ZenonT(30) DEF StorageInit, FileInit, Fresh, EmptyCache
  <2>2. LogTypes
    BY <2>1, SMTT(10), Z3T(30) DEF LogTypes, FileOf
  <2> QED
    BY <2>1, <2>2 DEF LogInv, Frames, Ordered, PendingLast, AckedStored, AckedCached,
       HeaderFirst, Truncating, Aligned, Appending, NoCall
<1>2. LogInv /\ [StorageNext]_storageVars => LogInv'
  <2> SUFFICES ASSUME LogInv, [StorageNext]_storageVars PROVE LogInv'
    OBVIOUS
  <2>1. CASE UNCHANGED logFileVars
    <3>1. UNCHANGED <<status, header, data, synced, meta, cache, call, acked, appends,
                      mishaps, astray>>
      BY <2>1 DEF logFileVars, fileVars, histVars
    <3>2. UNCHANGED <<Settled, NextOffset>> /\ (Appending' <=> Appending)
      BY <3>1, ZenonT(30) DEF Settled, Appending, NextOffset
    <3>3. LogTypes' /\ Frames' /\ AckedStored' /\ AckedCached' /\ HeaderFirst'
      BY <3>1, ZenonT(30) DEF LogInv, LogTypes, Frames, AckedStored, AckedCached, HeaderFirst
    <3>4. PendingLast' /\ Truncating'
      BY <3>1, <3>2, ZenonT(30) DEF LogInv, PendingLast, Truncating
    <3>5. Aligned'
      BY <3>1, <3>2, ZenonT(30) DEF LogInv, Aligned, Reads
    <3> QED
      BY <3>3, <3>4, <3>5 DEF LogInv
  <2>2. CASE LogStep
    BY <2>2, LogStepKeeps
  <2>3. ASSUME NEW kind, CrashLog(kind) PROVE LogInv'
    BY <2>3, CrashKeeps
  <2> QED
    BY <2>1, <2>2, <2>3 DEF StorageNext, storageVars
<1> QED
  BY <1>1, <1>2, PTL DEF StorageSpec

(* "On return, the entry is durable" (log.go:99) and "entry K is always at *)
(* offset K" (log.go:59), however many entries are appended, system calls  *)
(* fail and crashes of either kind follow: an open log shows each entry    *)
(* whose Append returned, under that offset and under no other, until      *)
(* Truncate drops it.  The exceptions are those of AckedSurvive, which     *)
(* only a failing read, an Append that was not undone or a first offset    *)
(* past the frames brings about.                                           *)
THEOREM AckedEntriesSurvive == StorageSpec => []AckedSurvive
<1>1. LogInv => AckedSurvive
  <2> SUFFICES ASSUME LogInv PROVE AckedSurvive
    OBVIOUS
  <2>1. Shapes /\ LogTypes /\ Frames /\ AckedCached /\ Aligned
    BY LogFacts
  <2>2. ASSUME status = "open", NEW a \in acked \ astray, a[1] >= cache.first
        PROVE  LookupBySender(a[2]) = {a[1]}
    <3> DEFINE f == cache.first
               n == Len(cache.entries)
               x == a[1]
    <3>1. /\ x \in Nat /\ f \in Nat /\ n \in Nat /\ x - f + 1 \in 1..n
          /\ cache.entries[x - f + 1] = a[2]
      BY <2>1, <2>2 DEF AckedCached, Shapes, LogTypes
    <3>2. \A i, j \in 1..n : i < j => cache.entries[i] < cache.entries[j]
      BY <2>1, ZenonT(30) DEF Frames, Ordered, Shapes
    <3>3. \A i \in 1..n : cache.entries[i] \in Nat
      BY <2>1 DEF Shapes
    <3>4. \A off : off \in LookupBySender(a[2]) <=>
                    off \in f..(f + n - 1) /\ cache.entries[off - f + 1] = a[2]
      BY <3>1, SMTT(10), Z3T(30) DEF LookupBySender, NextOffset
    <3> HIDE DEF f, n, x
    <3>5. x \in f..(f + n - 1)
      BY <3>1
    <3>6. ASSUME NEW off \in f..(f + n - 1), cache.entries[off - f + 1] = a[2]
          PROVE  off = x
      <4>1. off - f + 1 \in 1..n /\ off \in Nat
        BY <3>1
      <4>2. ~(off - f + 1 < x - f + 1) /\ ~(x - f + 1 < off - f + 1)
        BY <3>1, <3>2, <3>3, <3>6, <4>1, SMTT(10), Z3T(30)
      <4> QED
        BY <3>1, <4>1, <4>2
    <3> QED
      BY <3>1, <3>4, <3>5, <3>6, SMTT(10), Z3T(30) DEF x
  <2> QED
    BY <2>1, <2>2 DEF AckedSurvive, Aligned
<1> QED
  BY <1>1, LogAlways, PTL

-----------------------------------------------------------------------------
(* The stable storage *)

(* Every value a reader may find was put, and not before the last call     *)
(* that was acknowledged; the temporary file is on its way to the name.    *)
StableInv ==
  /\ puts \in Nat /\ putAcked \in 0..puts /\ putErrors \in Nat
  /\ putting \in {"none", "sync", "rename", "syncDir"}
  /\ key \in FileOf(0..puts)
  /\ PutDurable
  /\ putting \in {"sync", "rename"} => key.tmp \in [value : {puts}, synced : BOOLEAN]
  /\ putting = "rename" => key.tmp.synced
  /\ putting = "syncDir" => key.now = puts

(* Every step of the stable storage keeps it. *)
LEMMA StableStepKeeps ==
  ASSUME StableInv, StableStep
  PROVE  StableInv'
<1> USE DEF StableInv, PutDurable, FileOf
<1>1. CASE Put
  <2>1. /\ putting' = "sync" /\ puts' = puts + 1 /\ UNCHANGED <<putAcked, putErrors>>
        /\ key'.now = key.now /\ key'.disk = key.disk
        /\ key'.tmp = [value |-> puts', synced |-> FALSE]
    BY <1>1 DEF Put, WriteTmp
  <2>2. key' = [now |-> key.now, disk |-> key.disk, tmp |-> [value |-> puts', synced |-> FALSE]]
    BY <1>1, ZenonT(30) DEF Put, WriteTmp
  <2> QED
    BY <2>1, <2>2
<1>2. CASE PutSync
  <2>1. /\ putting = "sync" /\ putting' = "rename" /\ UNCHANGED <<puts, putAcked, putErrors>>
        /\ key' = [now |-> key.now, disk |-> key.disk, tmp |-> [value |-> puts, synced |-> TRUE]]
    BY <1>2, ZenonT(30) DEF PutSync, SyncTmp
  <2> QED
    BY <2>1
<1>3. CASE PutRename
  BY <1>3, SMTT(10), Z3T(30) DEF PutRename, Rename
<1>4. CASE Delete
  <2>1. /\ putting' = "syncDir" /\ puts' = puts + 1 /\ UNCHANGED <<putAcked, putErrors>>
        /\ key' = [now |-> puts', disk |-> key.disk \cup {puts'}, tmp |-> key.tmp]
    BY <1>4, ZenonT(30) DEF Delete, Unlink
  <2> QED
    BY <2>1
<1>5. CASE PutDone
  BY <1>5 DEF PutDone, SyncDir
<1>6. CASE PutFails
  BY <1>6, SMTT(10), Z3T(30) DEF PutFails, Cleanup
<1> QED
  BY <1>1, <1>2, <1>3, <1>4, <1>5, <1>6, ZenonT(30) DEF StableStep

(* So does a crash, with or without power. *)
LEMMA StableCrashKeeps ==
  ASSUME StableInv, NEW kind, CrashStable(kind)
  PROVE  StableInv'
<1> USE DEF StableInv, PutDurable, FileOf
<1>1. CASE key' = Cleanup(key)
  BY <1>1, ZenonT(30) DEF CrashStable, Cleanup
<1>2. CASE \E v \in key.disk : key' = Fresh(v)
  BY <1>2 DEF CrashStable, Fresh
<1> QED
  BY <1>1, <1>2 DEF CrashStable, AfterCrash

(* Put and Delete are atomic and durable (stable/file.go:64), whatever     *)
(* system call fails and whenever the member crashes or loses power: what  *)
(* a reader finds is the whole value of the last acknowledged call or of a *)
(* later one.                                                              *)
THEOREM PutsAreDurable == StorageSpec => []PutDurable
<1>1. StorageInit => StableInv
  BY DEF StorageInit, StableInit, StableInv, PutDurable, FileOf, Fresh
<1>2. StableInv /\ [StorageNext]_storageVars => StableInv'
  <2> SUFFICES ASSUME StableInv, [StorageNext]_storageVars PROVE StableInv'
    BY ZenonT(30)
  <2>1. CASE UNCHANGED stableVars
    BY <2>1 DEF stableVars, StableInv, PutDurable
  <2>2. CASE StableStep
    BY <2>2, StableStepKeeps
  <2>3. ASSUME NEW kind, CrashStable(kind) PROVE StableInv'
    BY <2>3, StableCrashKeeps, SMTT(10), Z3T(30)
  <2> QED
    BY <2>1, <2>2, <2>3 DEF StorageNext, storageVars
<1>3. StableInv => PutDurable
  BY DEF StableInv
<1> QED
  BY <1>1, <1>2, <1>3, PTL DEF StorageSpec

-----------------------------------------------------------------------------
(* The goroutines and channels *)

(* Every envelope is in one place on its way to the pump. *)
Accounted == casts + sends + waiting + owed + replay + deliver + read = Total

(* Partial order and the manager pass on each envelope they read. *)
PassedOn ==
  /\ layer = "partial" => read = emitting + apply + applied
  /\ layer = "manager" => read = applied /\ apply = 0

(* What the pump of each layer may be at; it emits nothing elsewhere. *)
Steps ==
  /\ Asked => layer \in Callers
  /\ layer = "manager" => pump \in {"recv", "member"}
  /\ pump # "emit" => emitting = 0

PipelineInv == PipelineTypeOK /\ Accounted /\ PassedOn /\ Steps

(* The inductive invariant holds at the start and is preserved. *)
LEMMA PipelineInvariant == Spec => []PipelineInv
<1> USE PipelineAssumption
    DEF PipelineInv, PipelineTypeOK, Accounted, PassedOn, Steps, Asked, Total, Layer, Callers
<1>1. Init => PipelineInv
  BY DEF Init
<1>2. ASSUME PipelineInv, [Next]_vars PROVE PipelineInv'
  <2>1. CASE HandleCast
    BY <1>2, <2>1, SMTT(10), Z3T(30) DEF HandleCast, Free
  <2>2. CASE HandleSend
    BY <1>2, <2>2, SMTT(10), Z3T(30) DEF HandleSend, Free
  <2>3. CASE PushDelivery
    BY <1>2, <2>3, SMTT(10), Z3T(30) DEF PushDelivery, Room
  <2>4. CASE PushReplayed
    BY <1>2, <2>4, SMTT(10), Z3T(30) DEF PushReplayed, Room
  <2>5. CASE Receive
    BY <1>2, <2>5, SMTT(10), Z3T(30) DEF Receive
  <2>6. CASE Answer
    BY <1>2, <2>6, SMTT(10), Z3T(30) DEF Answer, Free, Unemitted
  <2>7. CASE Emit
    BY <1>2, <2>7, SMTT(10), Z3T(30) DEF Emit
  <2>8. CASE Emitted
    BY <1>2, <2>8, SMTT(10), Z3T(30) DEF Emitted
  <2>9. CASE Apply
    BY <1>2, <2>9, SMTT(10), Z3T(30) DEF Apply
  <2>10. CASE UNCHANGED vars
    BY <1>2, <2>10 DEF vars
  <2> QED
    BY <1>2, <2>1, <2>2, <2>3, <2>4, <2>5, <2>6, <2>7, <2>8, <2>9, <2>10, ZenonT(30)
       DEF Next, Genserver, Pump
<1> QED
  BY <1>1, <1>2, PTL DEF Spec

(* Whatever the capacities of the channels and the traffic, the goroutines *)
(* of a member come to rest only when all there was to do is done, or when *)
(* the genserver is pushing to a full deliver channel whose reader waits   *)
(* for the genserver (conversation.go:840), which partial and semantic     *)
(* order never do.                                                         *)
THEOREM RestIsDoneOrWedged == Spec => []RestsOnlyWhenDone
<1>1. PipelineInv => RestsOnlyWhenDone
  <2> SUFFICES ASSUME PipelineInv, Stuck PROVE
         \/ Drained /\ (layer \in {"partial", "manager"} => applied + waiting = Total)
         \/ layer \in Callers /\ Wedged
    BY DEF RestsOnlyWhenDone
  <2> USE PipelineAssumption DEF PipelineInv, PipelineTypeOK, Steps
  <2>1. pump # "emit" /\ emitting = 0 /\ apply = 0
    BY DEF Stuck
  <2>2. CASE Asked
    <3>1. owed > 0 /\ ~Room
      BY <2>2 DEF Stuck, Free
    <3> QED
      BY <2>2, <3>1 DEF Wedged
  <2>3. CASE pump = "recv"
    <3>1. deliver = 0 /\ owed = 0 /\ replay = 0
      BY <2>3 DEF Stuck, Room
    <3>2. casts = 0 /\ sends = 0
      BY <3>1 DEF Stuck, Free
    <3>3. layer \in {"partial", "manager"} => applied + waiting = Total
      BY <2>1, <3>1, <3>2 DEF Accounted, PassedOn
    <3> QED
      BY <2>1, <3>1, <3>2, <3>3, SMTT(10), Z3T(30) DEF Drained
  <2> QED
    BY <2>1, <2>2, <2>3 DEF Asked
<1> QED
  BY <1>1, PipelineInvariant, PTL
=============================================================================
