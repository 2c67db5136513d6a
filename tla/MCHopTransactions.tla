-------------------------- MODULE MCHopTransactions --------------------------
(***************************************************************************)
(* Two connections at work on the hops of two members; the policy of a few *)
(* hours is that of MCHopLifecycle.                                        *)
(***************************************************************************)
EXTENDS HopTransactions, TLC

OnePolicy == {[min |-> -1, max |-> 2, start |-> 1]}
NoDeltas == {}

(* Without account events nothing tells the owner from another member. *)
Alike == Permutations(Hops) \cup Permutations(Members) \cup Permutations(Sessions)

AnySession == Permutations(Sessions)
=============================================================================
