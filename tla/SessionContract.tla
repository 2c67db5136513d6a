--------------------------- MODULE SessionContract ---------------------------
(***************************************************************************)
(* What both stores of sessions promise the HTTP front.  A session belongs *)
(* to one member for as long as it lives; it ends for good when it is      *)
(* closed, when its absolute deadline passes, or when nobody has used it   *)
(* for the idle time; its token is not used again.                         *)
(***************************************************************************)
EXTENDS Naturals

CONSTANTS
  Members, Tokens,
  AbsoluteTTL,  \* how long a session lives at most; 0 disables the check
  IdleTimeout,  \* how long it lives without being used; 0 likewise
  NoSession     \* the value of a token without a live session

VARIABLES
  clock,
  issued,  \* the tokens that were ever handed out
  live     \* the live sessions

cvars == <<clock, issued, live>>

Session == [member : Members, absolute : Nat, idle : Nat]

(* A deadline of 0 stands for none. *)
Deadline(start, ttl) == IF ttl > 0 THEN start + ttl ELSE 0
Passed(deadline, now) == deadline # 0 /\ deadline <= now
Expired(s, now) == Passed(s.absolute, now) \/ Passed(s.idle, now)

NewSession(m, now) ==
  [member |-> m, absolute |-> Deadline(now, AbsoluteTTL), idle |-> Deadline(now, IdleTimeout)]

Sessions(m) == {t \in Tokens : live[t] # NoSession /\ live[t].member = m}

CInit ==
  /\ clock = 0 /\ issued = {}
  /\ live = [t \in Tokens |-> NoSession]

Open(t, m) ==
  /\ t \notin issued
  /\ issued' = issued \cup {t}
  /\ live' = [live EXCEPT ![t] = NewSession(m, clock)]
  /\ UNCHANGED clock

(* Use does not move the absolute deadline. *)
Use(t) ==
  /\ live[t] # NoSession
  /\ live' = [live EXCEPT ![t] = [live[t] EXCEPT !.idle = Deadline(clock, IdleTimeout)]]
  /\ UNCHANGED <<clock, issued>>

Close(m, closed) ==
  /\ closed \subseteq Sessions(m)
  /\ live' = [t \in Tokens |-> IF t \in closed THEN NoSession ELSE live[t]]
  /\ UNCHANGED <<clock, issued>>

(* The new session takes the place of the old one in the same step, with    *)
(* both deadlines anew.                                                     *)
Renew(t, u) ==
  /\ live[t] # NoSession /\ u \notin issued /\ u # t
  /\ issued' = issued \cup {u}
  /\ live' = [live EXCEPT ![t] = NoSession, ![u] = NewSession(live[t].member, clock)]
  /\ UNCHANGED clock

Tick ==
  /\ clock' = clock + 1
  /\ live' = [t \in Tokens |->
       IF live[t] # NoSession /\ Expired(live[t], clock + 1) THEN NoSession ELSE live[t]]
  /\ UNCHANGED issued

CNext ==
  \/ \E t \in Tokens, m \in Members : Open(t, m)
  \/ \E t \in Tokens : Use(t)
  \/ \E m \in Members, closed \in SUBSET Tokens : Close(m, closed)
  \/ \E t, u \in Tokens : Renew(t, u)
  \/ Tick

CSpec == CInit /\ [][CNext]_cvars
=============================================================================
