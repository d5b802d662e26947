-------------------------------- MODULE Trim --------------------------------
(***************************************************************************)
(* The watermark tracker of trim/trim.go.  A mark is what a member said it *)
(* has applied and what its snapshot covers, both offsets of its OWN log;  *)
(* a member that said nothing has no entry, which Update and SafeFrontier  *)
(* tell apart from zeros only in that no frontier is reported.             *)
(***************************************************************************)
LOCAL INSTANCE Naturals
LOCAL INSTANCE FiniteSetsExt

Larger(m, n) == IF m > n THEN m ELSE n

NewTracker(R) == [q \in R |-> [applied |-> 0, snapshot |-> 0]]

Update(t, q, mark) ==
  [t EXCEPT ![q] = [applied  |-> Larger(@.applied, mark.applied),
                    snapshot |-> Larger(@.snapshot, mark.snapshot)]]

UsableFrontier(mark) ==
  IF mark.applied < mark.snapshot THEN mark.applied ELSE mark.snapshot

(* Mutant: the members that have reported something decide. *)
SafeFrontierOfReported(t) ==
  Min({UsableFrontier(t[q]) : q \in {m \in DOMAIN t : t[m].snapshot > 0}} \cup {99})

(* 0 when a member has not reported: nothing can be trimmed either way. *)
SafeFrontier(t) == Min({UsableFrontier(t[q]) : q \in DOMAIN t})

=============================================================================
