------------------------------ MODULE Cluster -------------------------------
(***************************************************************************)
(* The Cluster (cluster.go, cluster_join.go, cluster_members.go and        *)
(* bootstrap.go) around the system conversation's membership.Manager:      *)
(* OnMembershipChange persists the member list and the routing, and a new  *)
(* process joins through a sponsor, which votes it in, answers with the    *)
(* member list, and leaves the joiner to persist it in two separate        *)
(* writes.  A joiner is configured with sponsors and no cfg.Members; its   *)
(* own Manager, once it runs, is not modelled.                             *)
(***************************************************************************)
EXTENDS Membership

CONSTANT MaxMishaps  (* bound: failed writes of a member list and crashes of  *)
                     (* a joiner while it starts, together                    *)

ASSUME MishapsBound == MaxMishaps \in Nat

VARIABLES
  cache,    (* memberStore.members: [id, addr known] in order               *)
  disk,     (* the list under comlink.members in stable storage             *)
  routes,   (* the peers the gRPC network has an address for                *)
  handler,  (* a sponsor's Join handler                                     *)
  joiner,   (* a joining process                                            *)
  unsaved,  (* the replicas where such a write has failed                   *)
  mishaps   (* what is left of the bound                                    *)

clusterVars == <<cache, disk, routes, handler, joiner, unsaved, mishaps>>
allVars == <<vars, clusterVars>>

Entry(id, addr) == [id |-> id, addr |-> addr]
Ids(list) == {list[i].id : i \in DOMAIN list}
Order(list) == [i \in DOMAIN list |-> list[i].id]
NoHandler == [pc |-> "none", for |-> "nobody", ids |-> <<>>]

ClusterInit ==
  /\ Init
  /\ cache = [r \in Member |-> [i \in DOMAIN Founders |-> Entry(Founders[i], TRUE)]]
  /\ disk = cache
  /\ routes = [r \in Member |-> Member \ {r}]
  /\ handler = [r \in Member |-> NoHandler]
  /\ joiner = [j \in Candidates |-> [pc |-> "new", id |-> FALSE, list |-> <<>>, resp |-> <<>>]]
  /\ unsaved = {}
  /\ mishaps = MaxMishaps

-----------------------------------------------------------------------------
(* OnMembershipChange. *)

(* memberStore.Add and Remove change the cache, then persistLocked writes  *)
(* all of it, or fails: the error is only logged.  A list that stays as it *)
(* is is not written.                                                      *)
Persist(r, list) ==
  \/ list = cache[r] /\ UNCHANGED <<cache, disk, unsaved, mishaps>>
  \/ /\ list # cache[r]
     /\ cache' = [cache EXCEPT ![r] = list]
     /\ \/ disk' = [disk EXCEPT ![r] = list] /\ unsaved' = unsaved \ {r} /\ UNCHANGED mishaps
        \/ /\ mishaps > 0
           /\ mishaps' = mishaps - 1
           /\ unsaved' = unsaved \cup {r}
           /\ UNCHANGED disk

AddEntry(list, t) ==
  IF t \in Ids(list) THEN [i \in DOMAIN list |-> IF list[i].id = t THEN Entry(t, TRUE) ELSE list[i]]
  ELSE Append(list, Entry(t, TRUE))

OnAdded(r, t) ==
  /\ Persist(r, AddEntry(cache[r], t))
  /\ routes' = [routes EXCEPT ![r] = @ \cup {t}]

(* Mutant: the route to a removed member stays. *)
OnRemovedKeepsRoute(r, t) ==
  /\ Persist(r, SelectSeq(cache[r], LAMBDA m : m.id # t))
  /\ UNCHANGED routes

OnRemoved(r, t) ==
  /\ Persist(r, SelectSeq(cache[r], LAMBDA m : m.id # t))
  /\ routes' = [routes EXCEPT ![r] = @ \ {t}]

ClusterAdmit(r) ==
  /\ Admit(r)
  /\ OnAdded(r, thread[r][Pump].t)
  /\ UNCHANGED <<handler, joiner>>

ClusterRemove(r, k) ==
  /\ FinishRemoval(r, k)
  /\ OnRemoved(r, session[r][thread[r][k].s].target)
  /\ UNCHANGED <<handler, joiner>>

-----------------------------------------------------------------------------
(* The sponsor handshake. *)

(* dialSponsorJoin, and Join up to the vote: an AlreadyMember error counts *)
(* as success, any other refusal is the joiner's error.                    *)
Join(r, j) ==
  /\ joiner[j].pc = "new"
  /\ handler[r] = NoHandler
  /\ \/ /\ IsMember(r, j)
        /\ handler' = [handler EXCEPT ![r] = [pc |-> "readMembers", for |-> j, ids |-> <<>>]]
        /\ UNCHANGED vars
     \/ /\ VoteIn(r, j)
        /\ handler' = [handler EXCEPT ![r] = [pc |-> "voting", for |-> j, ids |-> <<>>]]
  /\ joiner' = [joiner EXCEPT ![j].pc = "asking"]
  /\ UNCHANGED <<cache, disk, routes, unsaved, mishaps>>

(* VoteIn returns to Join. *)
JoinVoted(r) ==
  /\ handler[r].pc = "voting"
  /\ Return(r)
  /\ IF Mine(r).res = "accepted"
     THEN handler' = [handler EXCEPT ![r].pc = "readMembers"] /\ UNCHANGED joiner
     ELSE /\ handler' = [handler EXCEPT ![r] = NoHandler]
          /\ joiner' = [joiner EXCEPT ![handler[r].for].pc = "new"]
  /\ UNCHANGED <<cache, disk, routes, unsaved, mishaps>>

JoinReadMembers(r) ==
  /\ handler[r].pc = "readMembers"
  /\ handler' = [handler EXCEPT ![r].pc = "reply", ![r].ids = ml[r]]
  /\ UNCHANGED <<vars, cache, disk, routes, joiner, unsaved, mishaps>>

(* Mutant: the response lists what memberStore has, not the Manager's list.*)
ResponseFromCache(r) == cache[r]

(* The response: the ids read from the Manager, each with the address that *)
(* memberStore has for it now.                                             *)
Response(r) ==
  LET h == handler[r]
  IN [i \in DOMAIN h.ids |->
        Entry(h.ids[i], h.ids[i] = h.for \/ Entry(h.ids[i], TRUE) \in Range(cache[r]))]

(* The reply arrives, or the joiner's call has ended without it. *)
JoinReply(r) ==
  /\ handler[r].pc = "reply"
  /\ handler' = [handler EXCEPT ![r] = NoHandler]
  /\ joiner' = [joiner EXCEPT ![handler[r].for] =
                  IF @.pc = "asking" THEN [@ EXCEPT !.pc = "saveId", !.resp = Response(r)] ELSE @]
  /\ UNCHANGED <<vars, cache, disk, routes, unsaved, mishaps>>

(* The joiner's context ends while it waits for its sponsor; the process   *)
(* is started again.                                                       *)
JoinTimesOut(j) ==
  /\ joiner[j].pc = "asking"
  /\ mishaps > 0
  /\ \A r \in Member : handler[r].for # j \/ handler[r].pc = "reply"
  /\ mishaps' = mishaps - 1
  /\ joiner' = [joiner EXCEPT ![j].pc = "new"]
  /\ UNCHANGED <<vars, cache, disk, routes, handler, unsaved>>

(* persistClusterID, then memberStore.SetAll. *)
SaveId(j) ==
  /\ joiner[j].pc = "saveId"
  /\ joiner' = [joiner EXCEPT ![j].pc = "saveMembers", ![j].id = TRUE]
  /\ UNCHANGED <<vars, cache, disk, routes, handler, unsaved, mishaps>>

SaveMembers(j) ==
  /\ joiner[j].pc = "saveMembers"
  /\ joiner' = [joiner EXCEPT ![j].pc = "start", ![j].list = joiner[j].resp]
  /\ UNCHANGED <<vars, cache, disk, routes, handler, unsaved, mishaps>>

(* The rest of NewCluster: without a persisted list and without            *)
(* cfg.Members, or with a list that does not name Self, it fails.          *)
Start(j) ==
  /\ joiner[j].pc = "start"
  /\ joiner' = [joiner EXCEPT ![j].pc = IF j \in Ids(joiner[j].list) THEN "running" ELSE "refused"]
  /\ UNCHANGED <<vars, cache, disk, routes, handler, unsaved, mishaps>>

(* Crash and restart: loadClusterIDOrJoin takes a persisted id as the end  *)
(* of the bootstrap.                                                       *)
CrashJoiner(j) ==
  /\ joiner[j].pc \in {"saveId", "saveMembers", "start"}
  /\ mishaps > 0
  /\ mishaps' = mishaps - 1
  /\ joiner' = [joiner EXCEPT ![j].pc = IF joiner[j].id THEN "start" ELSE "new", ![j].resp = <<>>]
  /\ UNCHANGED <<vars, cache, disk, routes, handler, unsaved>>

-----------------------------------------------------------------------------
ClusterNext ==
  \/ Running /\ UNCHANGED clusterVars
  \/ \E r \in Up :
       \/ ClusterAdmit(r)
       \/ \E k \in Goroutine : ClusterRemove(r, k)
       \/ handler[r].pc # "voting" /\ Return(r) /\ UNCHANGED clusterVars
       \/ JoinVoted(r) \/ JoinReadMembers(r) \/ JoinReply(r)
  \/ \E j \in Candidates : SaveId(j) \/ SaveMembers(j) \/ Start(j)
  \/ Stimulus /\ UNCHANGED clusterVars
  \/ \E j \in Candidates : (\E r \in Up : Join(r, j)) \/ JoinTimesOut(j) \/ CrashJoiner(j)

ClusterSpec == ClusterInit /\ [][ClusterNext]_allVars

-----------------------------------------------------------------------------
(* Types of what a Cluster adds. *)
ClusterTypeOK ==
  /\ \A r \in Member :
       /\ cache[r] \in Seq([id : Known, addr : BOOLEAN])
       /\ disk[r] \in Seq([id : Known, addr : BOOLEAN])
       /\ routes[r] \subseteq Known
       /\ handler[r].pc \in {"none", "voting", "readMembers", "reply"}
  /\ \A j \in Candidates :
       joiner[j].pc \in {"new", "asking", "saveId", "saveMembers", "start", "running", "refused"}

(* Between decisions a restart of r would load the list that its Manager   *)
(* works with, in the same slot order and with a route to every peer,      *)
(* unless a write of the list failed (onMembershipChange runs inside the   *)
(* decision).                                                              *)
PersistedIsLive ==
  \A r \in Member :
    (\A k \in Goroutine : thread[r][k].pc \notin {"finish", "admit"})
      => /\ Order(cache[r]) = ml[r]
         /\ routes[r] = Range(ml[r]) \ {r}
         /\ r \notin unsaved => disk[r] = cache[r]

(* Some member has voted p out. *)
VotedOut(p) == \E q \in Member : p \in Range(slots[q]) \ Range(ml[q])

(* A joiner that runs starts from a list that names itself and has an      *)
(* address for everybody who is not being voted out: the slots as the      *)
(* others have them, in their order, but without those of members voted    *)
(* out before.  Its positions are theirs only as long as nobody was        *)
(* removed: Join answers with Manager.Members, and psync keeps the frozen  *)
(* slot.  Only a joiner that crashed between the two writes of its         *)
(* bootstrap is refused.                                                   *)
JoinerStartsAligned ==
  \A j \in Candidates :
    LET list == joiner[j].list
    IN /\ joiner[j].pc = "running" =>
            /\ \A i \in DOMAIN list : list[i].addr \/ VotedOut(list[i].id)
            /\ \A r \in Member :
                 /\ SelectSeq(slots[r], LAMBDA p : p \in Ids(list)) =
                      SelectSeq(Order(list), LAMBDA p : p \in Range(slots[r]))
                 /\ \A p \in Range(slots[r]) \ Ids(list) : VotedOut(p)
       /\ joiner[j].pc = "refused" => joiner[j].id /\ list = <<>> /\ mishaps < MaxMishaps

(* Nothing is left to handle, to send, to decide or to answer; frames that *)
(* came too early may stay away.                                           *)
Quiet ==
  /\ \A r \in Up :
       /\ \A k \in Goroutine : thread[r][k] = Idle
       /\ outbox[r] = EmptyBag /\ handler[r] = NoHandler
       /\ \A p \in Member : Deliverable(r, p) => early[r][p] = handled[r][p] + 1

(* When the cluster has come to rest, an admission that one member applied *)
(* has been applied, the new address included, by every member that runs   *)
(* and that nobody has removed: MemberAdd is broadcast once, whatever      *)
(* happened to the proposer's call, and does not stand behind the frames   *)
(* of the new era that came too early and may never be handled.  One       *)
(* admission at a time: with two, the second MemberAdd is itself such a    *)
(* frame.                                                                  *)
AdmissionsSettle ==
  Quiet => \A j \in Candidates :
             (\E q \in Member : IsMember(q, j)) =>
               \A r \in Up : (\A q \in Member : IsMember(q, r)) => j \in routes[r]
=============================================================================
