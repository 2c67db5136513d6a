---------------------------- MODULE HopRefinement ----------------------------
(***************************************************************************)
(* HopLifecycle implements HopContract: the mapping from the columns of    *)
(* the hops, offers and transactions tables to the contract's view.        *)
(***************************************************************************)
EXTENDS HopLifecycle

Phase(h) ==
  CASE status[h] = "none" -> "unposted"
    [] status[h] = "open" -> "open"
    [] status[h] = "accepted" -> "paired"
    [] status[h] = "completed" -> "settled"
    [] OTHER -> "closed"

(* A closed hop's columns stay filled, but nothing depends on them. *)
Poster(h) == IF Phase(h) = "closed" THEN NoMember ELSE creator[h]
Partner(h) == IF Phase(h) = "closed" THEN NoMember ELSE matched[h]

(* An expired hop's pending offers wait for nothing. *)
Willing(h) ==
  IF status[h] = "open" THEN {m \in Members : offer[h][m] = "pending"} ELSE {}

Contract == INSTANCE HopContract WITH
  phase <- [h \in Hops |-> Phase(h)],
  poster <- [h \in Hops |-> Poster(h)],
  pays <- [h \in Hops |-> IF kind[h] = "ask" THEN "poster" ELSE "partner"],
  partner <- [h \in Hops |-> Partner(h)],
  willing <- [h \in Hops |-> Willing(h)],
  ledger <- transfers,
  gone <- deleted

(* Every operation on hops, accounts and memberships keeps the contract:    *)
(* members are paired only while they wait for it, hours move only when a   *)
(* paired hop settles, and a deletion ends all the account took part in.    *)
ImplementsContract == Contract!CSpec
=============================================================================
