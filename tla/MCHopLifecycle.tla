--------------------------- MODULE MCHopLifecycle ---------------------------
(***************************************************************************)
(* Instances of HopLifecycle for TLC: policies a few hours wide, so that   *)
(* the limits are reached by hops of one or two hours.                     *)
(***************************************************************************)
EXTENDS HopRefinement, HopPages

NarrowPolicy == [min |-> -1, max |-> 2, start |-> 1]
WiderPolicy == [min |-> -2, max |-> 3, start |-> 1]

OnePolicy == {NarrowPolicy}
TwoPolicies == {NarrowPolicy, WiderPolicy}

NoDeltas == {}
OneDelta == {-2}
=============================================================================
