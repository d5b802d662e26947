----------------------------- MODULE MessageLog -----------------------------
(***************************************************************************)
(* What a message log promises (log/log.go, the MessageLog interface, and  *)
(* log/memory.go, which is this and no more): entries are numbered from 0  *)
(* and keep their numbers; a restart keeps every entry Append has returned *)
(* for, and may keep the one it was at.                                    *)
(***************************************************************************)
EXTENDS Naturals, Sequences

CONSTANT Entry

VARIABLES
  entries,     \* all entries so far; the one with offset k is entries[k + 1]
  durable,     \* how many of them no crash can take
  first,       \* the lowest readable offset
  errors,      \* how many system calls have failed
  aligned      \* the offset of every entry is its place in the log

logVars == <<entries, durable, first, errors, aligned>>

LogInit == entries = <<>> /\ durable = 0 /\ first = 0 /\ errors = 0 /\ aligned = TRUE

Appended ==
  \E e \in Entry :
    /\ entries' = Append(entries, e)
    /\ durable' = Len(entries')
    /\ UNCHANGED <<first, errors, aligned>>

Truncated ==
  /\ first' \in first..Len(entries)
  /\ UNCHANGED <<entries, durable, errors, aligned>>

(* A crash or a restart: the tail that was not durable may go, the entry   *)
(* being written may stay, a truncation may take effect or be undone.      *)
Restarted ==
  /\ \/ \E n \in durable..Len(entries) : entries' = SubSeq(entries, 1, n)
     \/ \E e \in Entry : entries' = Append(entries, e)
  /\ durable' \in durable..Len(entries')
  /\ first' \in 0..Len(entries')
  /\ UNCHANGED <<errors, aligned>>

(* A failing call loses nothing durable, unless it is a read of the log:   *)
(* the rest then counts as not there.                                      *)
Failed ==
  /\ errors' = errors + 1
  /\ \/ UNCHANGED <<entries, durable>>
     \/ \E n \in 0..Len(entries) :
          entries' = SubSeq(entries, 1, n) /\ durable' = IF durable > n THEN n ELSE durable
  /\ first' \in 0..Len(entries')
  /\ UNCHANGED aligned

(* Nothing is promised once offsets and places differ. *)
LogNext ==
  \/ aligned' /\ (Appended \/ Truncated \/ Restarted \/ Failed)
  \/ ~aligned'

LogSpec == LogInit /\ [][LogNext]_logVars
=============================================================================
