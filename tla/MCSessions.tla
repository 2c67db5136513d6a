----------------------------- MODULE MCSessions -----------------------------
(* The server has one store or the other: whichever it is given when it is  *)
(* built, the one in memory if none.  Constants and bounds for TLC.         *)
EXTENDS MemorySessions, PostgresSessions, TLC

Alike == Permutations(Members) \cup Permutations(Tokens) \cup Permutations(Callers)

VARIABLE store

SInit == Init /\ PInit /\ store \in {"memory", "postgres"}

SNext ==
  \/ store = "memory" /\ Next /\ UNCHANGED <<stored, row, call, store>>
  \/ store = "postgres" /\ PNext /\ UNCHANGED <<issued, sessions, byMember, indexed, store>>

SSpec == SInit /\ [][SNext]_<<vars, pvars, store>>
=============================================================================
