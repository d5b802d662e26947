----------------------------- MODULE AtomicFile -----------------------------
(***************************************************************************)
(* A small file replaced as a whole: written to a temporary file, synced,  *)
(* renamed over the old one, and the directory synced.  stable/file.go     *)
(* stores every key that way and log/file.go its first offset.             *)
(*                                                                         *)
(* now is what a reader sees, disk what a loss of power may leave, tmp the *)
(* temporary file.                                                         *)
(***************************************************************************)
EXTENDS Naturals

CONSTANTS Torn,     \* what is left of a file that was not synced
          NoTmp     \* no temporary file

Fresh(v) == [now |-> v, disk |-> {v}, tmp |-> NoTmp]

WriteTmp(f, v) == [f EXCEPT !.tmp = [value |-> v, synced |-> FALSE]]

SyncTmp(f) == [f EXCEPT !.tmp.synced = TRUE]

Rename(f) ==
  [now  |-> f.tmp.value,
   disk |-> f.disk \cup {IF f.tmp.synced THEN f.tmp.value ELSE Torn},
   tmp  |-> NoTmp]

Unlink(f, v) == [f EXCEPT !.now = v, !.disk = @ \cup {v}]

SyncDir(f) == [f EXCEPT !.disk = {f.now}]

Cleanup(f) == [f EXCEPT !.tmp = NoTmp]

(* A restart finds what the process saw, but for the temporary file, whose *)
(* name is lost; after a loss of power it finds what is on disk.           *)
AfterCrash(f, kind) ==
  IF kind # "power" THEN {Cleanup(f)} ELSE {Fresh(v) : v \in f.disk}
=============================================================================
