----------------------------- MODULE StableFile -----------------------------
(***************************************************************************)
(* One key of the file-backed stable storage (stable/file.go), where masks,*)
(* the cluster id and the member list are kept.  The mutex lets one call   *)
(* in at a time.  The value is the number of the Put or Delete it is due   *)
(* to.                                                                     *)
(***************************************************************************)
EXTENDS AtomicFile

CONSTANTS MaxPuts, MaxPutErrors

ASSUME StableAssumption == MaxPuts \in Nat /\ MaxPutErrors \in Nat

VARIABLES
  key,         \* the file of the key, an AtomicFile
  putting,     \* the call in progress: what it does next
  puts,        \* history: calls of Put and Delete
  putAcked,    \* history: the last that returned no error
  putErrors    \* history: failed system calls

stableVars == <<key, putting, puts, putAcked, putErrors>>

StableInit ==
  /\ key = Fresh(0)
  /\ putting = "none"
  /\ puts = 0
  /\ putAcked = 0
  /\ putErrors = 0

Put ==
  /\ putting = "none" /\ puts < MaxPuts
  /\ puts' = puts + 1
  /\ key' = WriteTmp(key, puts')
  /\ putting' = "sync"
  /\ UNCHANGED <<putAcked, putErrors>>

PutSync ==
  /\ putting = "sync"
  /\ key' = SyncTmp(key)
  /\ putting' = "rename"
  /\ UNCHANGED <<puts, putAcked, putErrors>>

PutRename ==
  /\ putting = "rename"
  /\ key' = Rename(key)
  /\ putting' = "syncDir"
  /\ UNCHANGED <<puts, putAcked, putErrors>>

(* Delete takes the file away and shares the last step with Put. *)
Delete ==
  /\ putting = "none" /\ puts < MaxPuts
  /\ puts' = puts + 1
  /\ key' = Unlink(key, puts')
  /\ putting' = "syncDir"
  /\ UNCHANGED <<putAcked, putErrors>>

(* Mutant: the directory is not synced. *)
PutDoneUnsynced ==
  /\ putting = "syncDir"
  /\ putAcked' = puts
  /\ putting' = "none"
  /\ UNCHANGED <<key, puts, putErrors>>

PutDone ==
  /\ putting = "syncDir"
  /\ key' = SyncDir(key)
  /\ putAcked' = puts
  /\ putting' = "none"
  /\ UNCHANGED <<puts, putErrors>>

PutFails ==
  /\ putting # "none"
  /\ putErrors < MaxPutErrors
  /\ putErrors' = putErrors + 1
  /\ key' = Cleanup(key)
  /\ putting' = "none"
  /\ UNCHANGED <<puts, putAcked>>

CrashStable(kind) ==
  /\ kind = "close" => putting = "none"
  /\ key' \in AfterCrash(key, kind)
  /\ putting' = "none"
  /\ UNCHANGED <<puts, putAcked, putErrors>>

StableStep == Put \/ PutSync \/ PutRename \/ Delete \/ PutDone \/ PutFails

-----------------------------------------------------------------------------
(* stable/file.go:64, "atomically and durably": a Get, now or after any    *)
(* crash, returns the whole value of the last call that returned no error, *)
(* or of a later one that failed or was cut short.                         *)
PutDurable ==
  \A v \in key.disk \cup {key.now} : v \in putAcked..puts
=============================================================================
