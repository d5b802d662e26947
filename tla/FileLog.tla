------------------------------ MODULE FileLog -------------------------------
(***************************************************************************)
(* The file-backed message log (log/file.go).  The mutex lets one call in  *)
(* at a time, so calls interleave with nothing but crashes; a call is a    *)
(* run of steps, one for each thing it does to the disk.                   *)
(*                                                                         *)
(* The data file is a sequence of frames.  An entry is the number of the   *)
(* Append that wrote it.  Of what was written and not synced a loss of     *)
(* power keeps a prefix, the last frame of which may be cut short.  Any    *)
(* system call may fail, the read of a frame and the truncation that       *)
(* undoes an Append included; the code ignores the error of the latter.    *)
(***************************************************************************)
EXTENDS AtomicFile, Integers, Sequences, FiniteSetsExt

CONSTANTS
  MaxAppends,      \* calls of Append
  MaxIOErrors,     \* failing system calls
  MaxCrashes       \* crashes and orderly restarts

ASSUME FileLogAssumption ==
  /\ MaxAppends \in Nat /\ MaxIOErrors \in Nat /\ MaxCrashes \in Nat
  /\ Torn \notin Nat /\ NoTmp \notin Nat

VARIABLES
  status,     \* "closed", "creating" the file, "open", "refused" by openOrCreate
  header,     \* the header of the data file: "none", "torn", "unsynced", "ok"
  data,       \* the frames of the data file
  synced,     \* how many of them are synced
  meta,       \* the meta file, an AtomicFile holding the first offset
  cache,      \* firstOffset and entries
  call,       \* the call in progress: what it does next
  acked,      \* history: <<offset, entry>> of each Append that returned
  appends,    \* history: calls of Append
  ioErrors,   \* history: failed system calls
  crashes,    \* history: crashes
  mishaps,    \* history: "read" if a scan has met a failing read, "undo" if
              \* a failed Append was not undone, "ahead" if OpenFile found a
              \* first offset past the frames
  astray      \* history: the acknowledged entries a failing read cut off, or
              \* whose offset was not the place of their frame

fileVars == <<status, header, data, synced, meta, cache, call>>
histVars == <<acked, appends, ioErrors, crashes, mishaps, astray>>
logFileVars == <<fileVars, histVars>>

NoCall == "none"
EmptyCache == [first |-> 0, entries |-> <<>>]
NextOffset == cache.first + Len(cache.entries)

FileInit ==
  /\ status = "closed"
  /\ header = "none"
  /\ data = <<>>
  /\ synced = 0
  /\ meta = Fresh(0)
  /\ cache = EmptyCache
  /\ call = NoCall
  /\ acked = {}
  /\ appends = 0
  /\ ioErrors = 0
  /\ crashes = 0
  /\ mishaps = {}
  /\ astray = {}

-----------------------------------------------------------------------------
(* OpenFile *)

(* OpenFile does not ask whether the file has as many frames as the first  *)
(* offset says.                                                            *)
Ahead(n) == IF meta.now > n THEN {"ahead"} ELSE {}

(* An empty data file gets a header. *)
Create ==
  /\ status = "closed"
  /\ meta.now # Torn
  /\ header = "none"
  /\ status' = "creating"
  /\ header' = "unsynced"
  /\ cache' = [first |-> meta.now, entries |-> <<>>]
  /\ mishaps' = mishaps \cup Ahead(0)
  /\ UNCHANGED <<data, synced, meta, call, acked, appends, ioErrors, crashes, astray>>

Created ==
  /\ status = "creating"
  /\ header' = "ok"
  /\ status' = "open"
  /\ UNCHANGED <<data, synced, meta, cache, call, histVars>>

(* writeHeader fails: the write, which may leave a part of the header, or  *)
(* the sync.                                                               *)
CreateFails ==
  /\ ioErrors < MaxIOErrors
  /\ ioErrors' = ioErrors + 1
  /\ \/ status = "closed" /\ meta.now # Torn /\ header = "none" /\ header' \in {"none", "torn"}
     \/ status = "creating" /\ UNCHANGED header
  /\ status' = "closed"
  /\ cache' = EmptyCache
  /\ UNCHANGED <<data, synced, meta, call, acked, appends, crashes, mishaps, astray>>

(* scanIntoCache gets past the first n frames, none of which is cut short, *)
(* and no further.                                                         *)
Reads(n) == \A i \in 1..n : data[i] # Torn

Ends(n) == n < Len(data) => data[n + 1] = Torn

(* Mutant: the entries are numbered from the first offset. *)
ScanFromFirst(frames, firstOffset) == [first |-> firstOffset, entries |-> frames]

Scan(frames, firstOffset) ==
  [first |-> firstOffset, entries |-> SubSeq(frames, firstOffset + 1, Len(frames))]

(* A frame that is cut short and not the last: the bytes after it are read *)
(* as part of it, which ends in a mismatch or in a read past the end.      *)
Misread == \E i \in 1..(Len(data) - 1) : data[i] = Torn

(* scanIntoCache has read the first n frames; the file is cut there. *)
Opened(n) ==
  /\ status = "closed"
  /\ meta.now # Torn
  /\ header \in {"unsynced", "ok"}
  /\ status' = "open"
  /\ data' = SubSeq(data, 1, n)
  /\ synced' = IF synced > n THEN n ELSE synced
  /\ cache' = Scan(data', meta.now)
  /\ UNCHANGED <<header, meta, call, acked, appends, crashes>>

Open ==
  /\ \E n \in 0..Len(data) :
       /\ Reads(n) /\ Ends(n)
       /\ Opened(n)
       /\ mishaps' = mishaps \cup Ahead(n)
  /\ UNCHANGED <<ioErrors, astray>>

(* The read of a frame fails: scanIntoCache takes that for the end of the  *)
(* log, and truncates the file there.                                      *)
OpenCutsShort ==
  /\ ioErrors < MaxIOErrors
  /\ ioErrors' = ioErrors + 1
  /\ \E n \in 0..Len(data) :
       /\ Reads(n) /\ ~Ends(n)
       /\ Opened(n)
       /\ mishaps' = mishaps \cup {"read"} \cup Ahead(n)
       /\ astray' = astray \cup {a \in acked : a[1] >= n}

(* ErrCorrupt: nothing opens the log any more. *)
Refuse ==
  /\ status = "closed"
  /\ meta.now = Torn \/ header = "torn" \/ Misread
  /\ status' = "refused"
  /\ UNCHANGED <<header, data, synced, meta, cache, call, histVars>>

-----------------------------------------------------------------------------
(* Append: frame header, payload, sync, cache; a failure cuts the file     *)
(* back to where it ended.                                                 *)

WriteHdr ==
  /\ status = "open" /\ call = NoCall
  /\ appends < MaxAppends
  /\ appends' = appends + 1
  /\ data' = Append(data, Torn)
  /\ call' = "payload"
  /\ UNCHANGED <<status, header, synced, meta, cache, acked, ioErrors, crashes, mishaps, astray>>

WritePayload ==
  /\ call = "payload"
  /\ data' = [data EXCEPT ![Len(data)] = appends]
  /\ call' = "sync"
  /\ UNCHANGED <<status, header, synced, meta, cache, histVars>>

(* The frame that is being written is where a scan will look for it. *)
InPlace == Reads(Len(data)) /\ Len(data) = NextOffset + 1

SyncData ==
  /\ call = "sync"
  /\ synced' = Len(data)
  /\ header' = "ok"
  /\ cache' = [cache EXCEPT !.entries = Append(@, appends)]
  /\ acked' = acked \cup {<<NextOffset, appends>>}
  /\ astray' = IF InPlace THEN astray ELSE astray \cup {<<NextOffset, appends>>}
  /\ call' = NoCall
  /\ UNCHANGED <<status, data, meta, appends, ioErrors, crashes, mishaps>>

(* Mutant: the file is left as it is. *)
AppendFailsAsIs ==
  /\ call \in {"payload", "sync"}
  /\ ioErrors < MaxIOErrors
  /\ ioErrors' = ioErrors + 1
  /\ call' = NoCall
  /\ UNCHANGED <<status, header, data, synced, meta, cache, acked, appends, crashes, mishaps, astray>>

AppendFails ==
  /\ call \in {"payload", "sync"}
  /\ ioErrors < MaxIOErrors
  /\ ioErrors' = ioErrors + 1
  /\ \/ data' = SubSeq(data, 1, Len(data) - 1) /\ UNCHANGED mishaps
     \/ UNCHANGED data /\ mishaps' = mishaps \cup {"undo"}
  /\ call' = NoCall
  /\ UNCHANGED <<status, header, synced, meta, cache, acked, appends, crashes, astray>>

(* The offsets the index holds for an entry. *)
LookupBySender(e) ==
  {off \in cache.first..(NextOffset - 1) : cache.entries[off - cache.first + 1] = e}

-----------------------------------------------------------------------------
(* Truncate: the meta file, then the cache.  The data file stays. *)

Clamp(below) == IF below > NextOffset THEN NextOffset ELSE below

WriteMeta ==
  /\ status = "open" /\ call = NoCall
  /\ \E below \in 1..(MaxAppends + 1) :
       /\ below > cache.first
       /\ Clamp(below) # cache.first
       /\ meta' = WriteTmp(meta, Clamp(below))
  /\ call' = "syncMeta"
  /\ UNCHANGED <<status, header, data, synced, cache, histVars>>

SyncMeta ==
  /\ call = "syncMeta"
  /\ meta' = SyncTmp(meta)
  /\ call' = "renameMeta"
  /\ UNCHANGED <<status, header, data, synced, cache, histVars>>

RenameMeta ==
  /\ call = "renameMeta"
  /\ meta' = Rename(meta)
  /\ call' = "syncDir"
  /\ UNCHANGED <<status, header, data, synced, cache, histVars>>

DropEntries(below) ==
  [first |-> below, entries |-> SubSeq(cache.entries, below - cache.first + 1, Len(cache.entries))]

SyncMetaDir ==
  /\ call = "syncDir"
  /\ meta' = SyncDir(meta)
  /\ cache' = DropEntries(meta.now)
  /\ call' = NoCall
  /\ UNCHANGED <<status, header, data, synced, histVars>>

(* The error leaves the cache alone, also when the rename was done. *)
TruncateFails ==
  /\ call \in {"syncMeta", "renameMeta", "syncDir"}
  /\ ioErrors < MaxIOErrors
  /\ ioErrors' = ioErrors + 1
  /\ meta' = Cleanup(meta)
  /\ call' = NoCall
  /\ UNCHANGED <<status, header, data, synced, cache, acked, appends, crashes, mishaps, astray>>

-----------------------------------------------------------------------------
(* What a loss of power may leave of the frames that were not synced. *)
Kept ==
  {data} \cup
  UNION {{SubSeq(data, 1, n), Append(SubSeq(data, 1, n), Torn)} : n \in synced..(Len(data) - 1)}

(* Closing the log or killing the process loses nothing it has written;    *)
(* after a loss of power what is left is on disk.                          *)
LoseUnsynced(kind) ==
  IF kind # "power"
  THEN UNCHANGED <<header, data, synced>>
  ELSE /\ header' \in IF header = "unsynced" THEN {"none", "torn", "ok"} ELSE {header}
       /\ data' \in IF header' = "ok" THEN Kept ELSE {<<>>}
       /\ synced' = Len(data')

CrashLog(kind) ==
  /\ status # "closed"
  /\ kind = "close" => status = "open" /\ call = NoCall
  /\ status' = "closed"
  /\ LoseUnsynced(kind)
  /\ meta' \in AfterCrash(meta, kind)
  /\ cache' = EmptyCache
  /\ call' = NoCall
  /\ crashes < MaxCrashes
  /\ crashes' = crashes + 1
  /\ UNCHANGED <<acked, appends, ioErrors, mishaps, astray>>

LogStep ==
  \/ Create \/ Created \/ CreateFails \/ Open \/ OpenCutsShort \/ Refuse
  \/ WriteHdr \/ WritePayload \/ SyncData \/ AppendFails
  \/ WriteMeta \/ SyncMeta \/ RenameMeta \/ SyncMetaDir \/ TruncateFails

-----------------------------------------------------------------------------
(* Properties *)

(* log.go:99, "On return, the entry is durable: it survives a process      *)
(* kill", and log.go:59, "entry K is always at offset K, even after a      *)
(* Truncate has dropped earlier entries".  Whatever crashed or failed, an  *)
(* open log shows every entry it has acknowledged under the offset it was  *)
(* acknowledged with, unless that is below firstOffset, but for two kinds  *)
(* of entries: those a scan cut off because a read failed (file.go:214,    *)
(* 228), and those that were acknowledged under an offset that was not the *)
(* place of their frame.  The latter takes a failed Append that was not    *)
(* undone (file.go:287, the error is ignored) or a first offset past the   *)
(* frames of the file (OpenFile does not compare them): with neither, and  *)
(* no failing read, there is no exception.                                 *)
AckedSurvive ==
  /\ status = "open" =>
       \A a \in acked \ astray : a[1] >= cache.first => LookupBySender(a[2]) = {a[1]}
  /\ mishaps = {} => astray = {}

(* What the log shows while it is open, and would show if it were opened.  *)
Shown ==
  SubSeq(data, 1, IF status = "open" THEN NextOffset
                  ELSE CHOOSE n \in 0..Len(data) : Reads(n) /\ Ends(n))

Abstract == INSTANCE MessageLog WITH
  Entry <- 1..MaxAppends,
  entries <- Shown,
  durable <- Min({synced, Len(Shown)}),
  first <- IF status = "open" THEN cache.first ELSE meta.now,
  errors <- ioErrors,
  aligned <- /\ mishaps \cap {"undo", "ahead"} = {}
             /\ status = "open" \/ meta.now <= Len(Shown)

(* Steps of the disk, failures and crashes together never show more than   *)
(* the MessageLog interface promises, as long as the offsets of the log    *)
(* are the places of the frames: an entry that Append has returned for is  *)
(* lost only where a failing read cuts the log short.                      *)
ImplementsMessageLog == Abstract!LogSpec
=============================================================================
