-------------------------- MODULE MCBackgroundJobs --------------------------
(***************************************************************************)
(* Two processes whose clocks differ by a tick, and two jobs: the lease is *)
(* the shortest that LeaseAssumption allows, so that an outcome can come   *)
(* after the lease ran out.                                                *)
(***************************************************************************)
EXTENDS BackgroundJobs, TLC

CONSTANTS s1, s2

OneAhead == (s1 :> 0 @@ s2 :> 1)
InTurn == [j \in 1..NumJobs |-> 1 + (j - 1) * (Timeout + UpdateTimeout)]
=============================================================================
