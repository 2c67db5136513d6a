----------------------------- MODULE HopContract -----------------------------
(***************************************************************************)
(* What the hops of an organization promise to its members, without saying *)
(* how: a hop is open, paired, settled or closed; members are willing to   *)
(* take part before they are paired; hours move once, when a paired hop is *)
(* settled; and an account that departs leaves nothing behind.             *)
(* HopLifecycle implements this contract.                                  *)
(***************************************************************************)
EXTENDS Integers

CONSTANTS Members, NoMember, Hops

Phases == {"unposted", "open", "paired", "settled", "closed"}
Live == {"open", "paired"}

VARIABLES
  phase,    \* of every hop
  poster,   \* the member that posted it, while it is live and once it is settled
  pays,     \* whether the poster or the partner of a hop pays
  partner,  \* the member it is paired with, or was settled with
  willing,  \* the members that wait to be paired, for an open hop
  ledger,   \* the moves of hours
  gone      \* the accounts that departed

cvars == <<phase, poster, pays, partner, willing, ledger, gone>>

CInit ==
  /\ phase = [h \in Hops |-> "unposted"]
  /\ poster = [h \in Hops |-> NoMember]
  /\ pays = [h \in Hops |-> "poster"]
  /\ partner = [h \in Hops |-> NoMember]
  /\ willing = [h \in Hops |-> {}]
  /\ ledger = {}
  /\ gone = {}

Post(h, m, side) ==
  /\ phase[h] = "unposted" /\ m \notin gone
  /\ phase' = [phase EXCEPT ![h] = "open"]
  /\ poster' = [poster EXCEPT ![h] = m]
  /\ pays' = [pays EXCEPT ![h] = side]
  /\ UNCHANGED <<partner, willing, ledger, gone>>

Volunteer(h, m) ==
  /\ phase[h] = "open" /\ m # poster[h] /\ m \notin gone
  /\ willing' = [willing EXCEPT ![h] = @ \cup {m}]
  /\ UNCHANGED <<phase, poster, pays, partner, ledger, gone>>

TurnDown(h, m) ==
  /\ m \in willing[h]
  /\ willing' = [willing EXCEPT ![h] = @ \ {m}]
  /\ UNCHANGED <<phase, poster, pays, partner, ledger, gone>>

(* Only a member that waits is paired, and the others stop waiting. *)
Pair(h, m) ==
  /\ phase[h] = "open" /\ m \in willing[h]
  /\ phase' = [phase EXCEPT ![h] = "paired"]
  /\ partner' = [partner EXCEPT ![h] = m]
  /\ willing' = [willing EXCEPT ![h] = {}]
  /\ UNCHANGED <<poster, pays, ledger, gone>>

(* The only step that moves hours: once, between the two, the right way. *)
Settle(h) ==
  /\ phase[h] = "paired"
  /\ phase' = [phase EXCEPT ![h] = "settled"]
  /\ \E move \in ledger' :
       /\ move.hop = h /\ move.hours \in Nat
       /\ pays[h] = "poster"  => move.from = poster[h] /\ move.to = partner[h]
       /\ pays[h] = "partner" => move.from = partner[h] /\ move.to = poster[h]
       /\ ledger' = ledger \cup {move}
  /\ UNCHANGED <<poster, pays, partner, willing, gone>>

(* What is left of f when the hops of S end or lose their partner. *)
Without(f, S, nothing) == [h \in Hops |-> IF h \in S THEN nothing ELSE f[h]]

(* The paired hops of R lose their partner; the live hops of C end. *)
End(C, R) ==
  /\ \A h \in C : phase[h] \in Live
  /\ \A h \in R : phase[h] = "paired"
  /\ phase' = [h \in Hops |->
       IF h \in C THEN "closed" ELSE IF h \in R THEN "open" ELSE phase[h]]
  /\ poster' = Without(poster, C, NoMember)
  /\ partner' = Without(partner, C \cup R, NoMember)
  /\ UNCHANGED <<pays, ledger>>

Close(C) ==
  /\ End(C, {})
  /\ willing' = Without(willing, C, {})
  /\ UNCHANGED gone

Release(R) == End({}, R) /\ UNCHANGED <<willing, gone>>

(* All that a departing account takes part in ends, or goes on without it. *)
Depart(m) ==
  LET own == {h \in Hops : phase[h] \in Live /\ poster[h] = m}
  IN
  /\ m \notin gone
  /\ End(own, {h \in Hops : phase[h] = "paired" /\ partner[h] = m})
  /\ willing' = [h \in Hops |-> IF h \in own THEN {} ELSE willing[h] \ {m}]
  /\ gone' = gone \cup {m}

CNext ==
  \/ \E h \in Hops, m \in Members :
       \/ \E side \in {"poster", "partner"} : Post(h, m, side)
       \/ Volunteer(h, m) \/ TurnDown(h, m) \/ Pair(h, m)
  \/ \E h \in Hops : Settle(h)
  \/ \E C \in SUBSET Hops : Close(C) \/ Release(C)
  \/ \E m \in Members : Depart(m)

CSpec == CInit /\ [][CNext]_cvars
=============================================================================
