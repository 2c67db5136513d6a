---------------------------- MODULE SessionStore ----------------------------
(* What the two stores of sessions share: their configuration and the time. *)
EXTENDS Naturals

CONSTANTS
  Members, Tokens,
  AbsoluteTTL,  \* how long a session lives at most; 0 disables the check
  IdleTimeout,  \* how long it lives without being used; 0 likewise
  LastTime,     \* bound: the clock stops there
  NoSession     \* the value of a token without a session

sessionRecord == [memberID : Members, createdAt : Nat, lastActivityAt : Nat]

ASSUME StoreAssumption ==
  /\ AbsoluteTTL \in Nat /\ IdleTimeout \in Nat /\ LastTime \in Nat
  /\ NoSession \notin sessionRecord
  /\ NoSession \notin [member : Members, absolute : Nat, idle : Nat]

VARIABLE clock

expiryBound(start, ttl) == IF ttl > 0 THEN start + ttl ELSE 0
=============================================================================
