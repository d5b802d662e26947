---------------------------- MODULE MCCluster ------------------------------
(* Instances of Cluster for TLC. *)
EXTENDS Cluster

CONSTANTS a, b, c, d

ABC == <<a, b, c>>
OneNew == {d}
NoCalls == [r \in Member |-> [t \in Known |-> 0]]
NoCallsIn == [r \in Member |-> [t \in Candidates |-> 0]]
Nothing == [out |-> NoCalls, in |-> NoCallsIn, silences |-> NoCalls, beats |-> [r \in Member |-> 0],
            errors |-> 0, down |-> {}]

(* a calls VoteOut(c) and b's detector may suspect c; or c is down, a      *)
(* calls twice, or b calls too.  Or d joins through a: with c up, with c   *)
(* down and b sending on, with c down and asking twice, or after c was     *)
(* removed.  Or just a frame and a suspicion.                              *)
CIsDown == [Nothing EXCEPT !.down = {c}]
Removals ==
  {[Nothing EXCEPT !.out[a][c] = 1, !.silences[b][c] = 1, !.errors = 1],
   [CIsDown EXCEPT !.out[a][c] = 2, !.silences[b][c] = 1],
   [CIsDown EXCEPT !.out[a][c] = 1, !.out[b][c] = 1]}
Admissions ==
  {[Nothing EXCEPT !.in[a][d] = 1],
   [CIsDown EXCEPT !.in[a][d] = 1, !.beats[b] = 2],
   [CIsDown EXCEPT !.in[a][d] = 2],
   [CIsDown EXCEPT !.in[a][d] = 1, !.out[a][c] = 1, !.silences[b][c] = 1]}
Cases == Removals \cup Admissions \cup {[Nothing EXCEPT !.beats[c] = 1, !.silences[b][c] = 1]}

\* Local steps go first.  At a member with no call of VoteOut or VoteIn left the
\* pump ends the frame it is in, and takes the member's own frames, before
\* anything else happens.  What else runs there is the detector's loop and the
\* goroutines of asyncSend, and each can as well run before the frame is taken
\* or after it is dealt with; other members see only when the next frame comes.
\* A joiner goes on to its start once it has its answer.
NoCallLeft(r) ==
  /\ thread[r][Caller] = Idle
  /\ \A t \in Known : budget.out[r][t] = 0
  /\ \A t \in Candidates : budget.in[r][t] = 0
Busy == {r \in Member : NoCallLeft(r) /\ (thread[r][Pump] # Idle \/ handled[r][r] < Len(sent[r]))}
Starting == {j \in Candidates : joiner[j].pc \in {"saveId", "saveMembers", "start"}}

LocalFirst ==
  IF Busy # {}
  THEN LET r == CHOOSE p \in Busy : TRUE IN thread'[r] # thread[r] \/ handled'[r] # handled[r]
  ELSE \A j \in Starting : joiner'[j] # joiner[j]

\* d comes when a's VoteOut, if any, has removed c; b sends on when it has
\* admitted d.  b calls VoteOut right after a has sent its own, for what a does
\* then makes no difference to the call, or when it has handled a's.  Writes fail
\* and joiners crash when c is up and voted out, or d comes after that.
InOrder ==
  LET Voted(kind) == \E i \in DOMAIN session[a] : session[a][i].kind = kind
  IN /\ budget'.in # budget.in => budget.out[a][c] = 0 /\ (Voted("out") => ~IsMember(a, c))
     /\ budget'.beats[b] # budget.beats[b] => d \in Range(slots[b])
     /\ budget'.out[b] # budget.out[b] => thread[a][Caller].pc = "decide" \/ handled[b][a] > 0
     /\ mishaps' # mishaps => Voted("out") /\ (budget.down = {} \/ Voted("in"))
=============================================================================
