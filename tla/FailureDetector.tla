-------------------------- MODULE FailureDetector ---------------------------
(***************************************************************************)
(* The state of a failure.Detector (failure/failure.go) and what its calls *)
(* do to it.  Time is left out: whether QuietInterval has passed since the *)
(* last send, or SuspicionInterval since a peer was last heard, is up to   *)
(* whoever ticks.                                                          *)
(***************************************************************************)
EXTENDS FiniteSets

(* tracked: the peers watched; suspected: those found silent and not heard *)
(* from since.                                                             *)
Detector(P) == [tracked : SUBSET P, suspected : SUBSET P]

NewDetector(self, members) == [tracked |-> members \ {self}, suspected |-> {}]

NoteReceived(d, from) == [d EXCEPT !.suspected = @ \ {from}]

(* A peer admitted again starts with a clean record. *)
AddMember(d, self, p) ==
  IF p = self THEN d
  ELSE [d EXCEPT !.tracked = @ \cup {p}, !.suspected = IF p \in d.tracked THEN @ \ {p} ELSE @]

(* Mutant: the peer is cleared but still watched. *)
RemoveMemberClears(d, p) == [d EXCEPT !.suspected = @ \ {p}]

RemoveMember(d, p) == [d EXCEPT !.tracked = @ \ {p}, !.suspected = @ \ {p}]

(* tick finds the peers in silent silent: the ones that become suspected   *)
(* now, each reported once.                                                *)
NewlySuspected(d, silent) == (d.tracked \cap silent) \ d.suspected
Tick(d, silent) == [d EXCEPT !.suspected = @ \cup NewlySuspected(d, silent)]
=============================================================================
