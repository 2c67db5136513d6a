--------------------------- MODULE MemorySessions ---------------------------
(***************************************************************************)
(* SessionManager: sessions in two maps, one from tokens to records and an *)
(* index from members to their tokens, under one mutex, so that every      *)
(* method is one step.  Expired records stay in the maps until somebody    *)
(* presents their token; RevokeAllForMember goes by the index alone.       *)
(***************************************************************************)
EXTENDS SessionStore

VARIABLES
  issued,    \* the tokens that randomToken has returned
  sessions,  \* NoSession for a token that is no key of the map
  byMember,  \* the tokens listed for each member,
  indexed    \* and the members that are keys of that map

vars == <<clock, issued, sessions, byMember, indexed>>

TypeOK ==
  /\ clock \in Nat /\ issued \subseteq Tokens
  /\ sessions \in [Tokens -> sessionRecord \cup {NoSession}]
  /\ byMember \in [Members -> SUBSET Tokens] /\ indexed \subseteq Members

Init ==
  /\ clock = 0 /\ issued = {}
  /\ sessions = [t \in Tokens |-> NoSession]
  /\ byMember = [m \in Members |-> {}] /\ indexed = {}

isExpired(record) ==
  \/ AbsoluteTTL > 0 /\ record.createdAt + AbsoluteTTL <= clock
  \/ IdleTimeout > 0 /\ record.lastActivityAt + IdleTimeout <= clock

Found(t) == sessions[t] # NoSession
Valid(t) == Found(t) /\ ~isExpired(sessions[t])

KeepRecord(t, m) ==   \* mutant: the token goes from the index only
  /\ byMember' = [byMember EXCEPT ![m] = @ \ {t}]
  /\ indexed' = IF byMember[m] \subseteq {t} THEN indexed \ {m} ELSE indexed
  /\ UNCHANGED sessions
deleteLocked(t, m) ==
  /\ sessions' = [sessions EXCEPT ![t] = NoSession]
  /\ byMember' = [byMember EXCEPT ![m] = @ \ {t}]
  /\ indexed' = IF byMember[m] \subseteq {t} THEN indexed \ {m} ELSE indexed

NewRecord(m) == [memberID |-> m, createdAt |-> clock, lastActivityAt |-> clock]

Create(t, m) ==
  /\ t \notin issued
  /\ issued' = issued \cup {t}
  /\ sessions' = [sessions EXCEPT ![t] = NewRecord(m)]
  /\ byMember' = [byMember EXCEPT ![m] = @ \cup {t}]
  /\ indexed' = indexed \cup {m}
  /\ UNCHANGED clock

GetOverdue(t) ==   \* mutant: an expired session is used all the same
  /\ Found(t)
  /\ sessions' = [sessions EXCEPT ![t] = [sessions[t] EXCEPT !.lastActivityAt = clock]]
  /\ UNCHANGED <<clock, issued, byMember, indexed>>
Get(t) ==
  /\ Valid(t)
  /\ sessions' = [sessions EXCEPT ![t] = [sessions[t] EXCEPT !.lastActivityAt = clock]]
  /\ UNCHANGED <<clock, issued, byMember, indexed>>

(* Get or Rotate with a token that has expired. *)
Discard(t) ==
  /\ Found(t) /\ isExpired(sessions[t])
  /\ deleteLocked(t, sessions[t].memberID)
  /\ UNCHANGED <<clock, issued>>

Delete(t) ==
  /\ Found(t)
  /\ deleteLocked(t, sessions[t].memberID)
  /\ UNCHANGED <<clock, issued>>

RevokeAllForMember(m) ==
  /\ m \in indexed
  /\ sessions' = [t \in Tokens |-> IF t \in byMember[m] THEN NoSession ELSE sessions[t]]
  /\ byMember' = [byMember EXCEPT ![m] = {}]
  /\ indexed' = indexed \ {m}
  /\ UNCHANGED <<clock, issued>>

RotateUnindexed(t, u) ==   \* mutant: the new token is not entered in the index
  LET m == sessions[t].memberID IN
  /\ Valid(t) /\ u \notin issued
  /\ issued' = issued \cup {u}
  /\ sessions' = [sessions EXCEPT ![t] = NoSession, ![u] = NewRecord(m)]
  /\ byMember' = [byMember EXCEPT ![m] = @ \ {t}]
  /\ UNCHANGED <<clock, indexed>>
Rotate(t, u) ==
  LET m == sessions[t].memberID IN
  /\ Valid(t) /\ u \notin issued
  /\ issued' = issued \cup {u}
  /\ sessions' = [sessions EXCEPT ![t] = NoSession, ![u] = NewRecord(m)]
  /\ byMember' = [byMember EXCEPT ![m] = (@ \ {t}) \cup {u}]
  /\ UNCHANGED <<clock, indexed>>

TimePasses ==
  /\ clock < LastTime /\ clock' = clock + 1
  /\ UNCHANGED <<issued, sessions, byMember, indexed>>

Next ==
  \/ \E t \in Tokens, m \in Members : Create(t, m)
  \/ \E t \in Tokens : Get(t) \/ Discard(t) \/ Delete(t)
  \/ \E m \in Members : RevokeAllForMember(m)
  \/ \E t, u \in Tokens : Rotate(t, u)
  \/ TimePasses

Spec == Init /\ [][Next]_vars

-----------------------------------------------------------------------------

TokensOf(m) == {t \in Tokens : Found(t) /\ sessions[t].memberID = m}

(* The index lists exactly the tokens of each member, and keeps no entry    *)
(* without tokens: what RevokeAllForMember counts and removes is all there  *)
(* is, after any sequence of logins, rotations, logouts and expiries.       *)
IndexMatches ==
  \A m \in Members : byMember[m] = TokensOf(m) /\ (m \in indexed <=> TokensOf(m) # {})

(* Whatever is removed at once for a member leaves no session of his, and   *)
(* nobody else's session is touched by it.                                  *)
RevocationIsExact ==
  [][\A m \in indexed \ indexed' :
       \A t \in Tokens :
         IF Found(t) /\ sessions[t].memberID # m THEN sessions'[t] = sessions[t]
         ELSE sessions'[t] = NoSession]_vars

Live ==
  [t \in Tokens |->
     IF Valid(t)
     THEN [member |-> sessions[t].memberID,
           absolute |-> expiryBound(sessions[t].createdAt, AbsoluteTTL),
           idle |-> expiryBound(sessions[t].lastActivityAt, IdleTimeout)]
     ELSE NoSession]

Contract == INSTANCE SessionContract WITH live <- Live

(* The in-memory store is a store of sessions: expired records it still     *)
(* holds cannot be told from sessions that have ended.                      *)
MemoryImplementsContract == Contract!CSpec
=============================================================================
