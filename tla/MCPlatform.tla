----------------------------- MODULE MCPlatform -----------------------------
(* Three parts of the server that share nothing but the database they run    *)
(* on, in one run: each behaviour is a behaviour of one of them, while the   *)
(* others rest in an initial state.  Constants and bounds for TLC.           *)
EXTENDS Accounts, Organizations, Administration, TLC

CONSTANTS ann, e1, bob, cy, c1, c2, n1, n2, n3

OneAccount == (ann :> e1)
Names == {<<"help">>, <<"help", 2>>}
Alike == Permutations({bob, cy}) \cup Permutations({c1, c2})

VARIABLE part

PlatformInit ==
  /\ AInit /\ OInit /\ AdmInit
  /\ part \in {"accounts", "organizations", "administration"}
  /\ part = "accounts" \/ (~featureEmail /\ \A m \in DOMAIN Registered : account[m].verified)

PlatformNext ==
  /\ UNCHANGED part
  /\ \/ part = "accounts" /\ ANext /\ UNCHANGED <<ovars, adminVars>>
     \/ part = "organizations" /\ ONext /\ UNCHANGED <<avars, adminVars>>
     \/ part = "administration" /\ AdmNext /\ UNCHANGED <<avars, ovars>>

PlatformSpec == PlatformInit /\ [][PlatformNext]_<<avars, ovars, adminVars, part>>

(* Bound: memberships change only between the pages. *)
Undisturbed == \A m \in Viewers : ~page[m].moved

(* Every variable of the three parts keeps its type, and an address belongs *)
(* to one account or organization.                                          *)
PlatformTypeOK ==
  AccountsTypeOK /\ OrganizationsTypeOK /\ AdministrationTypeOK
=============================================================================
