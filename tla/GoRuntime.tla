----------------------------- MODULE GoRuntime ------------------------------
(***************************************************************************)
(* The Go runtime of the process one member lives in.  A panic in any of   *)
(* its goroutines (a send on a closed channel, a write to a nil map) ends  *)
(* all of them; `panic' names the operation that did it.                   *)
(***************************************************************************)
VARIABLE panic

Running == panic = "none"

(* The operation runs, unless `fatal' holds when it is reached. *)
Unless(fatal, operation) == panic' = IF fatal THEN operation ELSE panic
=============================================================================
