-------------------------- MODULE PostgresSessions --------------------------
(***************************************************************************)
(* PostgresSessionManager: a session is a row of member_sessions, shared   *)
(* by all instances of the server.  Create, Get and Delete are statements  *)
(* of their own; Rotate is a transaction that locks the row it replaces;   *)
(* RevokeAllForMember is one DELETE that removes the rows it saw when it   *)
(* began, and waits for those a rotation has locked.  A transaction is     *)
(* short for the clock: a unit of time begins only between transactions.   *)
(***************************************************************************)
EXTENDS SessionStore

CONSTANTS
  Callers,  \* the goroutines that use the store
  NoToken

Row == [member : Members, absolute : Nat, idle : Nat, login : Tokens]

ASSUME RowAssumption == NoToken \notin Tokens /\ NoSession \notin Row

VARIABLES
  stored,  \* the token ids ever inserted
  row,     \* member_sessions, each row with the login it goes back to
  call     \* what each caller is in the middle of

pvars == <<clock, stored, row, call>>

Calling ==
  [op : {"none", "rotate", "revoke"}, token : Tokens \cup {NoToken},
   read : Row \cup {NoSession}, seen : SUBSET Tokens]

Ready == [op |-> "none", token |-> NoToken, read |-> NoSession, seen |-> {}]

(* Types, and a row is locked by one rotation at most. *)
PTypeOK ==
  /\ clock \in Nat /\ stored \subseteq Tokens
  /\ row \in [Tokens -> Row \cup {NoSession}]
  /\ call \in [Callers -> Calling]
  /\ \A c, d \in Callers : c # d /\ call[c].token # NoToken => call[c].token # call[d].token

PInit ==
  /\ stored = {} /\ row = [t \in Tokens |-> NoSession]
  /\ call = [c \in Callers |-> Ready]

Stored(t) == row[t] # NoSession
Past(deadline) == deadline # 0 /\ deadline <= clock
Overdue(t) == Stored(t) /\ (Past(row[t].absolute) \/ Past(row[t].idle))
Current(t) == Stored(t) /\ ~Overdue(t)
RowsOf(m) == {t \in Tokens : Stored(t) /\ row[t].member = m}
Unlocked(t) == \A c \in Callers : call[c].token # t

Revoking(m) == [op |-> "revoke", token |-> NoToken, read |-> NoSession, seen |-> RowsOf(m)]
Rotating(t) == [op |-> "rotate", token |-> t, read |-> row[t], seen |-> {}]

NewRow(m, login) ==
  [member |-> m, absolute |-> expiryBound(clock, AbsoluteTTL),
   idle |-> expiryBound(clock, IdleTimeout), login |-> login]

Insert(t, m) ==
  /\ t \notin stored
  /\ stored' = stored \cup {t}
  /\ row' = [row EXCEPT ![t] = NewRow(m, t)]
  /\ UNCHANGED <<clock, call>>

(* Get: the UPDATE waits for a rotation that has the row. *)
Extend(t) ==   \* mutant: use moves the absolute deadline as well
  /\ Current(t) /\ Unlocked(t)
  /\ row' = [row EXCEPT ![t].idle = expiryBound(clock, IdleTimeout),
                        ![t].absolute = expiryBound(clock, AbsoluteTTL)]
  /\ UNCHANGED <<clock, stored, call>>
Touch(t) ==
  /\ Current(t) /\ Unlocked(t)
  /\ row' = [row EXCEPT ![t].idle = expiryBound(clock, IdleTimeout)]
  /\ UNCHANGED <<clock, stored, call>>

(* Get of an overdue token: the best-effort DELETE.  Rotate issues the same *)
(* DELETE, but returns without a commit.                                    *)
Clean(t) ==
  /\ Overdue(t) /\ Unlocked(t)
  /\ row' = [row EXCEPT ![t] = NoSession]
  /\ UNCHANGED <<clock, stored, call>>

Erase(t) ==
  /\ Stored(t) /\ Unlocked(t)
  /\ row' = [row EXCEPT ![t] = NoSession]
  /\ UNCHANGED <<clock, stored, call>>

BeginRevokeAll(c, m) ==
  /\ call[c] = Ready
  /\ call' = [call EXCEPT ![c] = Revoking(m)]
  /\ UNCHANGED <<clock, stored, row>>

EndRevokeAll(c) ==
  LET seen == call[c].seen IN
  /\ call[c].op = "revoke" /\ \A t \in seen : Unlocked(t)
  /\ row' = [t \in Tokens |-> IF t \in seen THEN NoSession ELSE row[t]]
  /\ call' = [call EXCEPT ![c] = Ready]
  /\ UNCHANGED <<clock, stored>>

LockNone(c, t) ==   \* mutant: SELECT without FOR UPDATE
  /\ call[c] = Ready /\ Current(t)
  /\ call' = [call EXCEPT ![c] = Rotating(t)]
  /\ UNCHANGED <<clock, stored, row>>
BeginRotate(c, t) ==
  /\ call[c] = Ready /\ Current(t) /\ Unlocked(t)
  /\ call' = [call EXCEPT ![c] = Rotating(t)]
  /\ UNCHANGED <<clock, stored, row>>

CommitRotate(c, u) ==
  LET t == call[c].token  old == call[c].read IN
  /\ call[c].op = "rotate" /\ u \notin stored
  /\ stored' = stored \cup {u}
  /\ row' = [row EXCEPT ![t] = NoSession, ![u] = NewRow(old.member, old.login)]
  /\ call' = [call EXCEPT ![c] = Ready]
  /\ UNCHANGED clock

(* An error, a cancelled request or a crash: nothing was committed. *)
Abort(c) ==
  /\ call[c] # Ready
  /\ call' = [call EXCEPT ![c] = Ready]
  /\ UNCHANGED <<clock, stored, row>>

(* The worker's job. *)
DeleteExpiredSessions ==
  /\ row' = [t \in Tokens |-> IF Overdue(t) THEN NoSession ELSE row[t]]
  /\ UNCHANGED <<clock, stored, call>>

ClockAdvances ==
  /\ \A c \in Callers : call[c].op # "rotate"
  /\ clock < LastTime /\ clock' = clock + 1
  /\ UNCHANGED <<stored, row, call>>

PNext ==
  \/ \E t \in Tokens, m \in Members : Insert(t, m)
  \/ \E t \in Tokens : Touch(t) \/ Clean(t) \/ Erase(t)
  \/ \E c \in Callers, m \in Members : BeginRevokeAll(c, m)
  \/ \E c \in Callers, t \in Tokens : BeginRotate(c, t)
  \/ \E c \in Callers : EndRevokeAll(c) \/ Abort(c)
  \/ \E c \in Callers, u \in Tokens : CommitRotate(c, u)
  \/ DeleteExpiredSessions \/ ClockAdvances

PSpec == clock = 0 /\ PInit /\ [][PNext]_pvars

-----------------------------------------------------------------------------

(* A login never becomes two sessions: however its rotations, uses and      *)
(* logout overlap, one session at most goes back to it.                     *)
RotationNeverForks ==
  \A t, u \in Tokens : Stored(t) /\ Stored(u) /\ row[t].login = row[u].login => t = u

LiveRows ==
  [t \in Tokens |->
     IF Current(t)
     THEN [member |-> row[t].member, absolute |-> row[t].absolute, idle |-> row[t].idle]
     ELSE NoSession]

Promise == INSTANCE SessionContract WITH live <- LiveRows, issued <- stored

(* The rows are a store of sessions as well, except that what one DELETE    *)
(* removes may be less than all the sessions a member has by then.          *)
PostgresImplementsContract == Promise!CSpec

(* Whoever revokes a member's sessions ends them: no session that was       *)
(* stored then lives on under another token.                                *)
RevocationEndsLogins ==
  [][\A c \in Callers : call[c].op = "revoke" /\ call'[c].op = "none" /\ row' # row =>
       \A t \in Tokens :
         row'[t] # NoSession => row'[t].login \notin call[c].seen]_pvars
=============================================================================
