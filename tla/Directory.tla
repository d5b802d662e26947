----------------------------- MODULE Directory ------------------------------
(***************************************************************************)
(* The directory example (examples/directory): a replicated name to value  *)
(* map over the semantic order.  One name is enough: operations on two     *)
(* names commute and share no state.  The value an operation carries is    *)
(* the id of its message.                                                  *)
(***************************************************************************)
EXTENDS SemOrder

Absent == <<>>

(* The state machine: Insert creates if absent, Update overwrites if       *)
(* present, Delete removes.  What else the conversation carries (the       *)
(* heartbeats) does not get to it.                                         *)
Apply(entry, id) ==
  CASE PayloadOf(id) = "ins" -> IF entry = Absent THEN id ELSE entry
    [] PayloadOf(id) = "upd" -> IF entry = Absent THEN entry ELSE id
    [] PayloadOf(id) = "del" -> Absent
    [] OTHER -> entry

Entry(r) == FoldLeft(Apply, Absent, apply[r])

(* Two members that have read the same messages, in whatever order, and    *)
(* have no more to do, hold the same directory (directory.go:26 to 30): it *)
(* takes the classifier to put every operation above class 1.              *)
DirectoriesConverge ==
  AllStrict =>
    \A q, r \in Replica :
      (pump[q] = "recv" /\ pump[r] = "recv" /\ Read(q) = Read(r)) => Entry(q) = Entry(r)
=============================================================================
