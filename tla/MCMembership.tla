---------------------------- MODULE MCMembership ----------------------------
(* Constants for TLC, and a message of the pages that overlapping requests  *)
(* refute.                                                                  *)
EXTENDS Membership, TLC

CONSTANTS cy, ann

Concurrent == Permutations(Handlers) \cup Permutations(Invites)

(* Two bounds in one run: everything is served, to everybody but ann and    *)
(* with one invitation; or only invitations are, any number, to everybody,  *)
(* while the organization stays enabled and one of them falls due at most.  *)
VARIABLE part

SentInvites == {i \in Invites : invite[i].status # "none"}
Within ==
  CASE part = "everything" ->
         /\ Cardinality(SentInvites) <= 1
         /\ \A h \in Handlers : ann \notin {handler[h].by, handler[h].whom} \cup handler[h].todo
    [] part = "invitations" ->
         /\ org = "enabled" /\ Cardinality(overdue) <= 1
         /\ \A h \in Handlers :
              handler[h].op \in {"idle", "issue"} \/ (handler[h].op = "accept" /\ handler[h].by = cy)

PartsInit == Init /\ part \in {"everything", "invitations"}
PartsNext == Next /\ UNCHANGED part /\ Within'
PartsSpec == PartsInit /\ [][PartsNext]_<<mvars, part>>

(* "Cannot remove the last owner from an organization." *)
AnOwnerRemains == org # "gone" => ActiveOwners # {}
=============================================================================
