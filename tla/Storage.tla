------------------------------ MODULE Storage -------------------------------
(* What a member keeps on disk: its message log and its stable storage.    *)
(* Their calls interleave; a crash hits both.                              *)
EXTENDS FileLog, StableFile

storageVars == <<logFileVars, stableVars>>

StorageInit == FileInit /\ StableInit

StorageNext ==
  \/ LogStep /\ UNCHANGED stableVars
  \/ StableStep /\ UNCHANGED logFileVars
  \/ \E kind \in {"kill", "power", "close"} : CrashLog(kind) /\ CrashStable(kind)

StorageSpec == StorageInit /\ [][StorageNext]_storageVars
=============================================================================
