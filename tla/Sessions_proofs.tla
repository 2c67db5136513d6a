--------------------------- MODULE Sessions_proofs ---------------------------
(***************************************************************************)
(* The two stores of sessions.  The one in memory keeps its index exact;   *)
(* in the rows of member_sessions a login never forks; and each is a store *)
(* of sessions, for every number of sessions and of concurrent callers.    *)
(***************************************************************************)
EXTENDS MCSessions, TLAPS

(***************************************************************************)
(* THE STORE IN MEMORY.                                                    *)
(***************************************************************************)

(* A token with a record was handed out once. *)
FoundIsIssued == \A t \in Tokens : Found(t) => t \in issued

MInv == TypeOK /\ IndexMatches /\ FoundIsIssued

LEMMA RecordShape ==
  ASSUME TypeOK, NEW t \in Tokens, Found(t)
  PROVE  /\ sessions[t] \in sessionRecord
         /\ sessions[t].memberID \in Members
         /\ sessions[t].createdAt \in Nat /\ sessions[t].lastActivityAt \in Nat
BY DEF TypeOK, Found, sessionRecord

LEMMA NewRecordShape ==
  ASSUME TypeOK, NEW m \in Members
  PROVE  NewRecord(m) \in sessionRecord /\ NewRecord(m) # NoSession
         /\ NewRecord(m).memberID = m
BY StoreAssumption DEF TypeOK, NewRecord, sessionRecord

LEMMA InitInv == Init => MInv
BY DEF Init, MInv, TypeOK, IndexMatches, FoundIsIssued, TokensOf, Found

-----------------------------------------------------------------------------
(* Every method keeps the invariant; deleteLocked as Discard and Delete call it. *)

LEMMA CreateKeeps ==
  ASSUME MInv, NEW t \in Tokens, NEW m \in Members, Create(t, m)
  PROVE  MInv'
<1>1. NewRecord(m) \in sessionRecord /\ NewRecord(m) # NoSession /\ NewRecord(m).memberID = m
  BY NewRecordShape DEF MInv
<1>2. ~Found(t)
  BY DEF MInv, FoundIsIssued, Create
<1>3. sessions' = [sessions EXCEPT ![t] = NewRecord(m)] /\ sessions \in [Tokens -> sessionRecord \cup {NoSession}]
  BY DEF Create, MInv, TypeOK
<1>4. TypeOK'
  BY <1>1, <1>3 DEF MInv, TypeOK, Create
<1>5. FoundIsIssued'
  BY <1>3 DEF MInv, FoundIsIssued, Create, Found
<1>6. ASSUME NEW n \in Members
      PROVE  TokensOf(n)' = IF n = m THEN TokensOf(n) \cup {t} ELSE TokensOf(n)
  BY <1>1, <1>2, <1>3 DEF TokensOf, Found
<1>7. IndexMatches'
  <2>1. ASSUME NEW n \in Members
        PROVE  byMember'[n] = IF n = m THEN byMember[n] \cup {t} ELSE byMember[n]
    BY DEF Create, MInv, TypeOK
  <2>2. indexed' = indexed \cup {m}
    BY DEF Create
  <2> QED  BY <1>6, <2>1, <2>2 DEF MInv, IndexMatches
<1> QED  BY <1>4, <1>5, <1>7 DEF MInv

LEMMA DeleteLockedKeeps ==
  ASSUME MInv, NEW t \in Tokens, Found(t), deleteLocked(t, sessions[t].memberID),
         UNCHANGED <<clock, issued>>
  PROVE  MInv'
<1> DEFINE m == sessions[t].memberID
<1>1. m \in Members
  BY RecordShape DEF MInv
<1>2. sessions' = [sessions EXCEPT ![t] = NoSession] /\ sessions \in [Tokens -> sessionRecord \cup {NoSession}]
  BY DEF deleteLocked, MInv, TypeOK
<1>3. ASSUME NEW n \in Members
      PROVE  byMember'[n] = IF n = m THEN byMember[n] \ {t} ELSE byMember[n]
  BY <1>1 DEF deleteLocked, MInv, TypeOK
<1>4. indexed' = IF byMember[m] \subseteq {t} THEN indexed \ {m} ELSE indexed
  BY DEF deleteLocked
<1>5. TypeOK'
  BY <1>1, <1>2, <1>4 DEF MInv, TypeOK, deleteLocked
<1>6. FoundIsIssued'
  BY <1>2 DEF MInv, FoundIsIssued, Found
<1>7. ASSUME NEW n \in Members
      PROVE  TokensOf(n)' = IF n = m THEN TokensOf(n) \ {t} ELSE TokensOf(n)
  BY <1>2 DEF TokensOf, Found
<1>8. IndexMatches'
  <2> SUFFICES ASSUME NEW n \in Members
               PROVE  byMember'[n] = TokensOf(n)' /\ (n \in indexed' <=> TokensOf(n)' # {})
    BY DEF IndexMatches
  <2>0. byMember[n] = TokensOf(n) /\ (n \in indexed <=> TokensOf(n) # {})
    BY DEF MInv, IndexMatches
  <2>1. CASE n # m
    BY <2>0, <2>1, <1>3, <1>4, <1>7
  <2>2. CASE n = m
    <3>1. t \in TokensOf(m)
      BY DEF TokensOf
    <3>2. byMember[m] \subseteq {t} <=> TokensOf(m) \ {t} = {}
      BY <2>0, <2>2
    <3> QED  BY <2>0, <2>2, <3>1, <3>2, <1>3, <1>4, <1>7
  <2> QED  BY <2>1, <2>2
<1> QED  BY <1>5, <1>6, <1>8 DEF MInv

LEMMA RevokeKeeps ==
  ASSUME MInv, NEW m \in Members, RevokeAllForMember(m)
  PROVE  MInv'
<1>1. ASSUME NEW t \in Tokens
      PROVE  sessions'[t] = IF t \in byMember[m] THEN NoSession ELSE sessions[t]
  BY DEF RevokeAllForMember
<1>2. byMember[m] = TokensOf(m)
  BY DEF MInv, IndexMatches
<1>3. TypeOK'
  BY DEF RevokeAllForMember, MInv, TypeOK
<1>4. FoundIsIssued'
  BY <1>1 DEF RevokeAllForMember, MInv, FoundIsIssued, Found
<1>5. ASSUME NEW n \in Members
      PROVE  TokensOf(n)' = IF n = m THEN {} ELSE TokensOf(n)
  BY <1>1, <1>2 DEF TokensOf, Found
<1>6. IndexMatches'
  BY <1>5 DEF RevokeAllForMember, MInv, TypeOK, IndexMatches
<1> QED  BY <1>3, <1>4, <1>6 DEF MInv

LEMMA RotateKeeps ==
  ASSUME MInv, NEW t \in Tokens, NEW u \in Tokens, Rotate(t, u)
  PROVE  MInv'
<1> DEFINE m == sessions[t].memberID
<1>1. Found(t) /\ m \in Members
  BY RecordShape DEF MInv, Rotate, Valid
<1>2. ~Found(u) /\ u # t
  BY <1>1 DEF MInv, FoundIsIssued, Rotate
<1>3. NewRecord(m) \in sessionRecord /\ NewRecord(m) # NoSession /\ NewRecord(m).memberID = m
  BY <1>1, NewRecordShape DEF MInv
<1>4. ASSUME NEW s \in Tokens
      PROVE  sessions'[s] = IF s = u THEN NewRecord(m) ELSE IF s = t THEN NoSession ELSE sessions[s]
  BY DEF Rotate, MInv, TypeOK
<1>5. TypeOK'
  BY <1>1, <1>3 DEF MInv, TypeOK, Rotate
<1>6. FoundIsIssued'
  BY <1>4 DEF MInv, FoundIsIssued, Rotate, Found
<1>7. ASSUME NEW n \in Members
      PROVE  TokensOf(n)' = IF n = m THEN (TokensOf(n) \ {t}) \cup {u} ELSE TokensOf(n)
  BY <1>1, <1>2, <1>3, <1>4 DEF TokensOf, Found
<1>8. ASSUME NEW n \in Members
      PROVE  byMember'[n] = IF n = m THEN (byMember[n] \ {t}) \cup {u} ELSE byMember[n]
  BY <1>1 DEF Rotate, MInv, TypeOK
<1>9. m \in indexed /\ indexed' = indexed
  BY <1>1 DEF MInv, IndexMatches, TokensOf, Rotate
<1>10. IndexMatches'
  BY <1>7, <1>8, <1>9 DEF MInv, IndexMatches
<1> QED  BY <1>5, <1>6, <1>10 DEF MInv

LEMMA GetKeeps ==
  ASSUME MInv, NEW t \in Tokens, Get(t)
  PROVE  MInv'
<1> DEFINE new == [sessions[t] EXCEPT !.lastActivityAt = clock]
<1>1. Found(t) /\ sessions[t] \in sessionRecord
  BY RecordShape DEF MInv, Get, Valid
<1>2. new \in sessionRecord /\ new # NoSession /\ new.memberID = sessions[t].memberID
  BY <1>1, StoreAssumption DEF sessionRecord, MInv, TypeOK
<1>3. ASSUME NEW s \in Tokens
      PROVE  sessions'[s] = IF s = t THEN new ELSE sessions[s]
  BY DEF Get, MInv, TypeOK
<1>4. TypeOK'
  BY <1>2 DEF Get, MInv, TypeOK
<1>5. FoundIsIssued'
  BY <1>1, <1>3 DEF Get, MInv, FoundIsIssued, Found
<1>6. ASSUME NEW n \in Members PROVE TokensOf(n)' = TokensOf(n)
  BY <1>1, <1>2, <1>3 DEF TokensOf, Found
<1>7. IndexMatches'
  BY <1>6 DEF Get, MInv, IndexMatches
<1> QED  BY <1>4, <1>5, <1>7 DEF MInv

LEMMA NextInv == MInv /\ [Next]_vars => MInv'
<1> SUFFICES ASSUME MInv, [Next]_vars PROVE MInv'
  OBVIOUS
<1>1. ASSUME NEW t \in Tokens, NEW m \in Members, Create(t, m) PROVE MInv'
  BY <1>1, CreateKeeps
<1>2. ASSUME NEW t \in Tokens, Get(t) PROVE MInv'
  BY <1>2, GetKeeps
<1>3. ASSUME NEW t \in Tokens, Discard(t) PROVE MInv'
  BY <1>3, DeleteLockedKeeps DEF Discard
<1>4. ASSUME NEW t \in Tokens, Delete(t) PROVE MInv'
  BY <1>4, DeleteLockedKeeps DEF Delete
<1>5. ASSUME NEW m \in Members, RevokeAllForMember(m) PROVE MInv'
  BY <1>5, RevokeKeeps
<1>6. ASSUME NEW t \in Tokens, NEW u \in Tokens, Rotate(t, u) PROVE MInv'
  BY <1>6, RotateKeeps
<1>7. CASE TimePasses
  BY <1>7 DEF TimePasses, MInv, TypeOK, IndexMatches, FoundIsIssued, TokensOf, Found
<1>8. CASE UNCHANGED vars
  BY <1>8 DEF vars, MInv, TypeOK, IndexMatches, FoundIsIssued, TokensOf, Found
<1> QED  BY <1>1, <1>2, <1>3, <1>4, <1>5, <1>6, <1>7, <1>8 DEF Next

(* The invariant behind all that follows. *)
THEOREM MemoryInvariant == Spec => []MInv
BY InitInv, NextInv, PTL DEF Spec

(* The maps keep their types: NewSessionManagerWithConfig, every method. *)
THEOREM MemoryTypeCorrect == Spec => []TypeOK
<1>1. MInv => TypeOK  BY DEF MInv
<1> QED  BY <1>1, MemoryInvariant, PTL

(* byMember is the exact inverse of sessions, whatever methods were called. *)
THEOREM IndexIsExact == Spec => []IndexMatches
<1>1. MInv => IndexMatches  BY DEF MInv
<1> QED  BY <1>1, MemoryInvariant, PTL

-----------------------------------------------------------------------------

OnlyHis(m, t) ==
  IF Found(t) /\ sessions[t].memberID # m THEN sessions'[t] = sessions[t]
  ELSE sessions'[t] = NoSession

LEMMA StepRevokesExactly ==
  ASSUME MInv, [Next]_vars, NEW m \in indexed \ indexed', NEW t \in Tokens
  PROVE  OnlyHis(m, t)
<1>0. m \in Members /\ byMember[m] = TokensOf(m)
  BY DEF MInv, TypeOK, IndexMatches
<1>1. ASSUME NEW s \in Tokens, Found(s), deleteLocked(s, sessions[s].memberID)
      PROVE  OnlyHis(m, t)
  <2>1. sessions[s].memberID = m /\ byMember[m] \subseteq {s}
    BY <1>1 DEF deleteLocked
  <2>2. sessions' = [sessions EXCEPT ![s] = NoSession]
    BY <1>1 DEF deleteLocked
  <2> QED  BY <1>0, <1>1, <2>1, <2>2 DEF TokensOf, Found, OnlyHis, MInv, TypeOK
<1>2. ASSUME NEW n \in Members, RevokeAllForMember(n)
      PROVE  OnlyHis(m, t)
  <2>1. n = m
    BY <1>2 DEF RevokeAllForMember
  <2> QED  BY <1>0, <1>2, <2>1 DEF RevokeAllForMember, TokensOf, Found, OnlyHis
<1>3. ASSUME NEW s \in Tokens, Discard(s) \/ Delete(s) PROVE OnlyHis(m, t)
  BY <1>1, <1>3 DEF Discard, Delete
<1> QED  BY <1>2, <1>3 DEF Next, Create, Get, Rotate, TimePasses, vars

(* A member leaves the index only with the last of his sessions, whether    *)
(* one by one or by RevokeAllForMember, which touches nobody else's.        *)
THEOREM RevokesExactly == Spec => RevocationIsExact
<1>1. MInv /\ [Next]_vars =>
        [\A m \in indexed \ indexed' :
           \A t \in Tokens :
             IF Found(t) /\ sessions[t].memberID # m THEN sessions'[t] = sessions[t]
             ELSE sessions'[t] = NoSession]_vars
  BY StepRevokesExactly DEF OnlyHis
<1> QED  BY <1>1, MemoryInvariant, PTL DEF Spec, RevocationIsExact

-----------------------------------------------------------------------------
(* The refinement: what the contract sees of a step.                        *)

LiveOf(record) ==
  [member |-> record.memberID,
   absolute |-> expiryBound(record.createdAt, AbsoluteTTL),
   idle |-> expiryBound(record.lastActivityAt, IdleTimeout)]

LEMMA LiveOfShape ==
  ASSUME NEW r \in sessionRecord
  PROVE  LiveOf(r) # NoSession /\ LiveOf(r).member = r.memberID
BY StoreAssumption DEF LiveOf, sessionRecord, expiryBound

LEMMA LiveAt ==
  ASSUME NEW t \in Tokens
  PROVE  Live[t] = IF Valid(t) THEN LiveOf(sessions[t]) ELSE NoSession
BY DEF Live, LiveOf

(* A record made now is live unless it expires at once, which no bound does. *)
LEMMA NewIsLive ==
  ASSUME MInv, NEW m \in Members
  PROVE  /\ ~isExpired(NewRecord(m))
         /\ LiveOf(NewRecord(m)) = Contract!NewSession(m, clock)
BY StoreAssumption
DEF MInv, TypeOK, isExpired, NewRecord, LiveOf, expiryBound,
    Contract!NewSession, Contract!Deadline

LEMMA RefinesInit == Init => Contract!CInit
BY DEF Init, Contract!CInit, Live, Valid, Found

LEMMA RefinesCreate ==
  ASSUME MInv, NEW t \in Tokens, NEW m \in Members, Create(t, m)
  PROVE  Contract!Open(t, m)
<1>1. NewRecord(m) # NoSession
  BY NewRecordShape DEF MInv
<1>2. ASSUME NEW s \in Tokens
      PROVE  sessions'[s] = IF s = t THEN NewRecord(m) ELSE sessions[s]
  BY DEF Create, MInv, TypeOK
<1>3. clock' = clock
  BY DEF Create
<1>4. ASSUME NEW s \in Tokens
      PROVE  Live'[s] = IF s = t THEN Contract!NewSession(m, clock) ELSE Live[s]
  BY <1>1, <1>2, <1>3, NewIsLive DEF Live, Valid, Found, isExpired, LiveOf
<1> QED  BY <1>4 DEF Create, Contract!Open, Live

LEMMA RefinesGet ==
  ASSUME MInv, NEW t \in Tokens, Get(t)
  PROVE  Contract!Use(t)
<1> DEFINE new == [sessions[t] EXCEPT !.lastActivityAt = clock]
<1>1. Valid(t) /\ sessions[t] \in sessionRecord
  BY RecordShape DEF MInv, Get, Valid
<1>2. new \in sessionRecord /\ new # NoSession
  BY <1>1, StoreAssumption DEF sessionRecord, MInv, TypeOK
<1>3. ~isExpired(new)
  BY <1>1, StoreAssumption DEF Valid, isExpired, sessionRecord, MInv, TypeOK
<1>4. ASSUME NEW s \in Tokens
      PROVE  sessions'[s] = IF s = t THEN new ELSE sessions[s]
  BY DEF Get, MInv, TypeOK
<1>5. clock' = clock
  BY DEF Get
<1>6. ASSUME NEW s \in Tokens
      PROVE  Live'[s] = IF s = t THEN LiveOf(new) ELSE Live[s]
  BY <1>2, <1>3, <1>4, <1>5 DEF Live, Valid, Found, isExpired, LiveOf
<1>7. Live[t] = LiveOf(sessions[t]) /\ Live[t] # NoSession
  BY <1>1, LiveAt, LiveOfShape
<1>8. LiveOf(new) = [Live[t] EXCEPT !.idle = Contract!Deadline(clock, IdleTimeout)]
  BY <1>1, <1>7 DEF LiveOf, expiryBound, Contract!Deadline, sessionRecord
<1> QED  BY <1>6, <1>7, <1>8 DEF Get, Contract!Use, Live

(* An expired record was not live: nothing happens.  A valid one is closed. *)
LEMMA RefinesDelete ==
  ASSUME MInv, NEW t \in Tokens, Found(t), deleteLocked(t, sessions[t].memberID),
         UNCHANGED <<clock, issued>>
  PROVE  \E m \in Members, closed \in SUBSET Tokens : Contract!Close(m, closed)
<1> DEFINE m == sessions[t].memberID
           closed == IF Valid(t) THEN {t} ELSE {}
<1>1. m \in Members /\ sessions[t] \in sessionRecord
  BY RecordShape DEF MInv
<1>2. ASSUME NEW s \in Tokens
      PROVE  sessions'[s] = IF s = t THEN NoSession ELSE sessions[s]
  BY DEF deleteLocked, MInv, TypeOK
<1>3. ASSUME NEW s \in Tokens
      PROVE  Live'[s] = IF s \in closed THEN NoSession ELSE Live[s]
  BY <1>2 DEF Live, Valid, Found, isExpired
<1>4. closed \subseteq Contract!Sessions(m)
  BY <1>1, LiveAt, LiveOfShape DEF Contract!Sessions
<1>5. Contract!Close(m, closed)
  BY <1>3, <1>4 DEF Contract!Close, Live
<1> QED  BY <1>1, <1>5

LEMMA RefinesRevoke ==
  ASSUME MInv, NEW m \in Members, RevokeAllForMember(m)
  PROVE  \E closed \in SUBSET Tokens : Contract!Close(m, closed)
<1> DEFINE closed == {t \in TokensOf(m) : Valid(t)}
<1>1. ASSUME NEW s \in Tokens
      PROVE  sessions'[s] = IF s \in TokensOf(m) THEN NoSession ELSE sessions[s]
  BY DEF RevokeAllForMember, MInv, IndexMatches
<1>2. clock' = clock
  BY DEF RevokeAllForMember
<1>3. ASSUME NEW s \in Tokens
      PROVE  Live'[s] = IF s \in closed THEN NoSession ELSE Live[s]
  BY <1>1, <1>2 DEF Live, Valid, Found, isExpired
<1>4. ASSUME NEW s \in closed PROVE s \in Contract!Sessions(m)
  <2>1. s \in Tokens /\ Valid(s) /\ sessions[s] \in sessionRecord /\ sessions[s].memberID = m
    BY RecordShape DEF TokensOf, MInv
  <2> QED  BY <2>1, LiveAt, LiveOfShape DEF Contract!Sessions
<1>5. Contract!Close(m, closed)
  BY <1>3, <1>4 DEF Contract!Close, Live, RevokeAllForMember
<1> QED  BY <1>5 DEF TokensOf

LEMMA RefinesRotate ==
  ASSUME MInv, NEW t \in Tokens, NEW u \in Tokens, Rotate(t, u)
  PROVE  Contract!Renew(t, u)
<1> DEFINE m == sessions[t].memberID
<1>1. Valid(t) /\ Found(t) /\ m \in Members /\ sessions[t] \in sessionRecord
  BY RecordShape DEF MInv, Rotate, Valid
<1>2. u # t /\ u \notin issued
  BY <1>1 DEF MInv, FoundIsIssued, Rotate
<1>3. NewRecord(m) # NoSession
  BY <1>1, NewRecordShape DEF MInv
<1>4. ASSUME NEW s \in Tokens
      PROVE  sessions'[s] = IF s = u THEN NewRecord(m) ELSE IF s = t THEN NoSession ELSE sessions[s]
  BY DEF Rotate, MInv, TypeOK
<1>5. clock' = clock
  BY DEF Rotate
<1>6. ASSUME NEW s \in Tokens
      PROVE  Live'[s] = IF s = u THEN Contract!NewSession(m, clock)
                        ELSE IF s = t THEN NoSession ELSE Live[s]
  BY <1>1, <1>3, <1>4, <1>5, NewIsLive DEF Live, Valid, Found, isExpired, LiveOf
<1>7. Live[t] # NoSession /\ Live[t].member = m
  BY <1>1, LiveAt, LiveOfShape
<1> QED  BY <1>2, <1>6, <1>7 DEF Rotate, Contract!Renew, Live

LEMMA RefinesTimePasses ==
  ASSUME MInv, TimePasses
  PROVE  Contract!Tick
<1>1. clock \in Nat /\ clock' = clock + 1 /\ sessions' = sessions
  BY DEF MInv, TypeOK, TimePasses
<1>2. ASSUME NEW s \in Tokens
      PROVE  Live'[s] = IF Live[s] # NoSession /\ Contract!Expired(Live[s], clock + 1)
                        THEN NoSession ELSE Live[s]
  <2>1. CASE ~Found(s)
    BY <1>1, <2>1 DEF Live, Valid, Found
  <2>2. CASE Found(s)
    <3>1. sessions[s] \in sessionRecord
      BY <2>2, RecordShape DEF MInv
    <3>2. LiveOf(sessions[s]) # NoSession
      BY <3>1, LiveOfShape
    <3>3. isExpired(sessions[s])' <=> Contract!Expired(LiveOf(sessions[s]), clock + 1)
      <4>1. sessions[s].createdAt \in Nat /\ sessions[s].lastActivityAt \in Nat
        BY <3>1 DEF sessionRecord
      <4>2. isExpired(sessions[s])' <=>
              \/ AbsoluteTTL > 0 /\ sessions[s].createdAt + AbsoluteTTL <= clock + 1
              \/ IdleTimeout > 0 /\ sessions[s].lastActivityAt + IdleTimeout <= clock + 1
        BY <1>1 DEF isExpired
      <4> QED
        BY <1>1, <4>1, <4>2, StoreAssumption
        DEF LiveOf, expiryBound, Contract!Expired, Contract!Passed
    <3>4. isExpired(sessions[s]) => isExpired(sessions[s])'
      BY <1>1, <3>1, StoreAssumption DEF isExpired, sessionRecord
    <3>5. Live'[s] = IF isExpired(sessions[s])' THEN NoSession ELSE LiveOf(sessions[s])
      BY <1>1, <2>2 DEF Live, Valid, Found, LiveOf
    <3>6. Live[s] = IF isExpired(sessions[s]) THEN NoSession ELSE LiveOf(sessions[s])
      BY <2>2, LiveAt DEF Valid
    <3> QED  BY <3>2, <3>3, <3>4, <3>5, <3>6
  <2> QED  BY <2>1, <2>2
<1> QED  BY <1>1, <1>2 DEF TimePasses, Contract!Tick, Live

LEMMA RefinesStep == MInv /\ [Next]_vars => [Contract!CNext]_(Contract!cvars)
<1> SUFFICES ASSUME MInv, [Next]_vars PROVE [Contract!CNext]_(Contract!cvars)
  OBVIOUS
<1>1. ASSUME NEW t \in Tokens, NEW m \in Members, Create(t, m) PROVE Contract!CNext
  BY <1>1, RefinesCreate DEF Contract!CNext
<1>2. ASSUME NEW t \in Tokens, Get(t) PROVE Contract!CNext
  BY <1>2, RefinesGet DEF Contract!CNext
<1>3. ASSUME NEW t \in Tokens, Discard(t) \/ Delete(t) PROVE Contract!CNext
  BY <1>3, RefinesDelete DEF Contract!CNext, Discard, Delete
<1>4. ASSUME NEW m \in Members, RevokeAllForMember(m) PROVE Contract!CNext
  BY <1>4, RefinesRevoke DEF Contract!CNext
<1>5. ASSUME NEW t \in Tokens, NEW u \in Tokens, Rotate(t, u) PROVE Contract!CNext
  BY <1>5, RefinesRotate DEF Contract!CNext
<1>6. CASE TimePasses
  BY <1>6, RefinesTimePasses DEF Contract!CNext
<1>7. CASE UNCHANGED vars
  BY <1>7 DEF vars, Contract!cvars, Live, Valid, Found, isExpired
<1> QED  BY <1>1, <1>2, <1>3, <1>4, <1>5, <1>6, <1>7 DEF Next

(* SessionManager keeps the contract of a store of sessions. *)
THEOREM MemoryIsASessionStore == Spec => MemoryImplementsContract
BY RefinesInit, RefinesStep, MemoryInvariant, PTL
DEF Spec, MemoryImplementsContract, Contract!CSpec

-----------------------------------------------------------------------------
(***************************************************************************)
(* THE ROWS OF member_sessions.                                            *)
(***************************************************************************)

(* Token ids are used once; a rotation still finds what it has locked; what *)
(* a DELETE of a member's sessions saw belongs to one member for good.      *)
RowsAreStored == \A t \in Tokens : Stored(t) => t \in stored /\ row[t].login \in stored
LocksHold ==
  \A c \in Callers :
    IF call[c].op = "rotate"
    THEN /\ call[c].token \in Tokens /\ Current(call[c].token)
         /\ call[c].read = row[call[c].token]
    ELSE call[c].token = NoToken
OneMemberSeen ==
  \A c \in Callers : call[c].op = "revoke" =>
    /\ call[c].seen \subseteq stored
    /\ \E m \in Members : \A t \in call[c].seen : Stored(t) => row[t].member = m

PInv == PTypeOK /\ RotationNeverForks /\ RowsAreStored /\ LocksHold /\ OneMemberSeen

LEMMA RowShape ==
  ASSUME PTypeOK, NEW t \in Tokens, Stored(t)
  PROVE  /\ row[t] \in Row /\ row[t].member \in Members /\ row[t].login \in Tokens
         /\ row[t].absolute \in Nat /\ row[t].idle \in Nat
BY DEF PTypeOK, Stored, Row

LEMMA ExpiryBoundNat ==
  ASSUME clock \in Nat, NEW ttl \in Nat
  PROVE  expiryBound(clock, ttl) \in Nat /\ ~Past(expiryBound(clock, ttl))
BY DEF expiryBound, Past

LEMMA NewRowShape ==
  ASSUME PTypeOK, NEW m \in Members, NEW l \in Tokens
  PROVE  /\ NewRow(m, l) \in Row /\ NewRow(m, l) # NoSession
         /\ NewRow(m, l).member = m /\ NewRow(m, l).login = l
         /\ ~Past(NewRow(m, l).absolute) /\ ~Past(NewRow(m, l).idle)
BY StoreAssumption, RowAssumption, ExpiryBoundNat DEF PTypeOK, NewRow, Row

LEMMA UsedRow ==
  ASSUME NEW r \in Row, NEW i \in Nat
  PROVE  /\ [r EXCEPT !.idle = i] \in Row /\ [r EXCEPT !.idle = i] # NoSession
         /\ [r EXCEPT !.idle = i].login = r.login /\ [r EXCEPT !.idle = i].member = r.member
         /\ [r EXCEPT !.idle = i].absolute = r.absolute /\ [r EXCEPT !.idle = i].idle = i
BY RowAssumption DEF Row

LEMMA CallShape ==
  ASSUME PTypeOK, NEW c \in Callers
  PROVE  /\ call[c] \in Calling
         /\ call[c].op \in {"none", "rotate", "revoke"}
         /\ call[c].token \in Tokens \cup {NoToken}
         /\ call[c].read \in Row \cup {NoSession}
         /\ call[c].seen \subseteq Tokens
BY DEF PTypeOK, Calling

LEMMA PInitInv == PInit /\ clock = 0 => PInv
BY DEF PInit, PInv, PTypeOK, RotationNeverForks, RowsAreStored, LocksHold, OneMemberSeen,
       Stored, Ready, Calling

-----------------------------------------------------------------------------

(* Rows nobody has locked go, and one caller may be done with it. *)
LEMMA RemovalKeeps ==
  ASSUME PInv, NEW gone \in SUBSET Tokens,
         row' = [t \in Tokens |-> IF t \in gone THEN NoSession ELSE row[t]],
         \A t \in gone : Unlocked(t),
         call' = call \/ \E c \in Callers : call' = [call EXCEPT ![c] = Ready],
         UNCHANGED <<clock, stored>>
  PROVE  PInv'
<1>1. ASSUME NEW c \in Callers
      PROVE  call'[c] = call[c] \/ call'[c] = Ready
  BY DEF PInv, PTypeOK
<1>2. ASSUME NEW t \in Tokens
      PROVE  /\ row'[t] = IF t \in gone THEN NoSession ELSE row[t]
             /\ Stored(t)' => Stored(t) /\ t \notin gone /\ row'[t] = row[t]
  BY DEF Stored
<1>3. PTypeOK'
  <2>1. row' \in [Tokens -> Row \cup {NoSession}]
    BY DEF PInv, PTypeOK
  <2>2. Ready \in Calling
    BY DEF Ready, Calling
  <2>3. call' \in [Callers -> Calling]
    BY <2>2 DEF PInv, PTypeOK
  <2>4. ASSUME NEW c \in Callers, NEW d \in Callers, c # d, call'[c].token # NoToken
        PROVE  call'[c].token # call'[d].token
    BY <1>1, <2>4 DEF PInv, PTypeOK, Ready
  <2> QED  BY <2>1, <2>3, <2>4 DEF PInv, PTypeOK
<1>4. RotationNeverForks'
  BY <1>2 DEF PInv, RotationNeverForks
<1>5. RowsAreStored'
  BY <1>2 DEF PInv, RowsAreStored
<1>6. LocksHold'
  <2> SUFFICES ASSUME NEW c \in Callers
               PROVE  IF call'[c].op = "rotate"
                      THEN /\ call'[c].token \in Tokens /\ Current(call[c].token)'
                           /\ call'[c].read = row'[call'[c].token]
                      ELSE call'[c].token = NoToken
    BY DEF LocksHold
  <2>1. CASE call'[c] = Ready
    BY <2>1 DEF Ready
  <2>2. CASE call'[c] = call[c] /\ call[c].op = "rotate"
    <3>1. /\ call[c].token \in Tokens /\ Current(call[c].token)
          /\ call[c].read = row[call[c].token]
      BY <2>2 DEF PInv, LocksHold
    <3>2. call[c].token \notin gone
      BY <3>1 DEF Unlocked
    <3>3. row'[call[c].token] = row[call[c].token]
      BY <1>2, <3>1, <3>2
    <3> QED  BY <2>2, <3>1, <3>3 DEF Current, Overdue, Stored, Past
  <2>3. CASE call'[c] = call[c] /\ call[c].op # "rotate"
    BY <2>3 DEF PInv, LocksHold
  <2> QED  BY <1>1, <2>1, <2>2, <2>3
<1>7. OneMemberSeen'
  <2> SUFFICES ASSUME NEW c \in Callers, call'[c].op = "revoke"
               PROVE  /\ call'[c].seen \subseteq stored
                      /\ \E m \in Members :
                           \A t \in call'[c].seen : Stored(t)' => row'[t].member = m
    BY DEF OneMemberSeen
  <2>1. call'[c] = call[c]
    BY <1>1 DEF Ready
  <2>2. call[c].seen \subseteq Tokens
    BY CallShape DEF PInv
  <2> QED  BY <1>2, <2>1, <2>2 DEF PInv, OneMemberSeen
<1> QED  BY <1>3, <1>4, <1>5, <1>6, <1>7 DEF PInv

LEMMA InsertKeeps ==
  ASSUME PInv, NEW t \in Tokens, NEW m \in Members, Insert(t, m)
  PROVE  PInv'
<1>1. /\ NewRow(m, t) \in Row /\ NewRow(m, t).member = m /\ NewRow(m, t).login = t
  BY NewRowShape DEF PInv
<1>2. ASSUME NEW s \in Tokens
      PROVE  row'[s] = IF s = t THEN NewRow(m, t) ELSE row[s]
  BY DEF Insert, PInv, PTypeOK
<1>3. t \notin stored /\ ~Stored(t) /\ stored' = stored \cup {t} /\ call' = call /\ clock' = clock
  BY DEF Insert, PInv, RowsAreStored
<1>4. PTypeOK'
  BY <1>1, <1>3 DEF Insert, PInv, PTypeOK
<1>5. RotationNeverForks'
  <2> SUFFICES ASSUME NEW s \in Tokens, NEW u \in Tokens, Stored(s)', Stored(u)',
                      row'[s].login = row'[u].login
               PROVE  s = u
    BY DEF RotationNeverForks
  <2>1. CASE s # t /\ u # t
    BY <1>2, <2>1 DEF PInv, RotationNeverForks, Stored
  <2>2. CASE s = t /\ u # t
    BY <1>1, <1>2, <1>3, <2>2 DEF PInv, RowsAreStored, Stored
  <2>3. CASE s # t /\ u = t
    BY <1>1, <1>2, <1>3, <2>3 DEF PInv, RowsAreStored, Stored
  <2> QED  BY <2>1, <2>2, <2>3
<1>6. RowsAreStored'
  BY <1>1, <1>2, <1>3 DEF PInv, RowsAreStored, Stored
<1>7. LocksHold'
  BY <1>2, <1>3 DEF PInv, LocksHold, Current, Overdue, Stored, Past
<1>8. OneMemberSeen'
  BY <1>2, <1>3, CallShape DEF PInv, OneMemberSeen, Stored
<1> QED  BY <1>4, <1>5, <1>6, <1>7, <1>8 DEF PInv

LEMMA TouchKeeps ==
  ASSUME PInv, NEW t \in Tokens, Touch(t)
  PROVE  PInv'
<1> DEFINE new == [row[t] EXCEPT !.idle = expiryBound(clock, IdleTimeout)]
<1>1. Stored(t) /\ row[t] \in Row /\ clock \in Nat
  BY RowShape DEF PInv, PTypeOK, Touch, Current
<1>2. /\ new \in Row /\ new # NoSession
      /\ new.login = row[t].login /\ new.member = row[t].member
  BY <1>1, StoreAssumption, ExpiryBoundNat, UsedRow
<1>3. ASSUME NEW s \in Tokens
      PROVE  row'[s] = IF s = t THEN new ELSE row[s]
  BY DEF Touch, PInv, PTypeOK
<1>4. call' = call /\ clock' = clock /\ stored' = stored
  BY DEF Touch
<1>5. PTypeOK'
  BY <1>2, <1>4 DEF Touch, PInv, PTypeOK
<1>6. ASSUME NEW s \in Tokens
      PROVE  /\ Stored(s)' <=> Stored(s)
             /\ row'[s].login = row[s].login /\ row'[s].member = row[s].member
  BY <1>1, <1>2, <1>3 DEF Stored
<1>7. RotationNeverForks'
  BY <1>6 DEF PInv, RotationNeverForks
<1>8. RowsAreStored'
  BY <1>4, <1>6 DEF PInv, RowsAreStored
<1>9. LocksHold'
  <2>1. ASSUME NEW c \in Callers PROVE call[c].token # t
    BY DEF Touch, Unlocked
  <2> QED  BY <1>3, <1>4, <2>1 DEF PInv, LocksHold, Current, Overdue, Stored, Past
<1>10. OneMemberSeen'
  BY <1>4, <1>6, CallShape DEF PInv, OneMemberSeen
<1> QED  BY <1>5, <1>7, <1>8, <1>9, <1>10 DEF PInv

LEMMA BeginRevokeAllKeeps ==
  ASSUME PInv, NEW c \in Callers, NEW m \in Members, BeginRevokeAll(c, m)
  PROVE  PInv'
<1>1. PICK new \in Calling :
        /\ call' = [call EXCEPT ![c] = new]
        /\ new.op = "revoke" /\ new.token = NoToken /\ new.seen = RowsOf(m)
  <2>1. RowsOf(m) \subseteq Tokens
    BY DEF RowsOf
  <2>2. /\ Revoking(m) \in Calling /\ Revoking(m).op = "revoke"
        /\ Revoking(m).token = NoToken /\ Revoking(m).seen = RowsOf(m)
    BY <2>1 DEF Revoking, Calling
  <2> QED  BY <2>2 DEF BeginRevokeAll
<1>2. ASSUME NEW d \in Callers
      PROVE  call'[d] = IF d = c THEN new ELSE call[d]
  BY <1>1 DEF PInv, PTypeOK
<1>3. row' = row /\ clock' = clock /\ stored' = stored
  BY DEF BeginRevokeAll
<1>4. PTypeOK'
  <2>1. call' \in [Callers -> Calling]
    BY <1>1 DEF PInv, PTypeOK
  <2> QED  BY <1>1, <1>2, <1>3, <2>1 DEF PInv, PTypeOK
<1>5. RotationNeverForks' /\ RowsAreStored'
  BY <1>3 DEF PInv, RotationNeverForks, RowsAreStored, Stored
<1>6. LocksHold'
  BY <1>1, <1>2, <1>3 DEF PInv, LocksHold, Current, Overdue, Stored, Past
<1>7. OneMemberSeen'
  BY <1>1, <1>2, <1>3 DEF PInv, OneMemberSeen, RowsAreStored, RowsOf, Stored
<1> QED  BY <1>4, <1>5, <1>6, <1>7 DEF PInv

LEMMA BeginRotateKeeps ==
  ASSUME PInv, NEW c \in Callers, NEW t \in Tokens, BeginRotate(c, t)
  PROVE  PInv'
<1>0. row[t] \in Row
  BY RowShape DEF PInv, BeginRotate, Current
<1>1. PICK new \in Calling :
        /\ call' = [call EXCEPT ![c] = new]
        /\ new.op = "rotate" /\ new.token = t /\ new.read = row[t]
  <2>1. /\ Rotating(t) \in Calling /\ Rotating(t).op = "rotate"
        /\ Rotating(t).token = t /\ Rotating(t).read = row[t]
    BY <1>0 DEF Rotating, Calling
  <2> QED  BY <2>1 DEF BeginRotate
<1>2. ASSUME NEW d \in Callers
      PROVE  call'[d] = IF d = c THEN new ELSE call[d]
  BY <1>1 DEF PInv, PTypeOK
<1>3. row' = row /\ clock' = clock /\ stored' = stored
  BY DEF BeginRotate
<1>4. PTypeOK'
  <2>1. call' \in [Callers -> Calling]
    BY <1>1 DEF PInv, PTypeOK
  <2>2. ASSUME NEW d \in Callers PROVE call[d].token # t
    BY DEF BeginRotate, Unlocked
  <2> QED  BY <1>1, <1>2, <1>3, <2>1, <2>2 DEF PInv, PTypeOK
<1>5. RotationNeverForks' /\ RowsAreStored'
  BY <1>3 DEF PInv, RotationNeverForks, RowsAreStored, Stored
<1>6. LocksHold'
  <2>1. Current(t)' <=> Current(t)
    BY <1>3 DEF Current, Overdue, Stored, Past
  <2> QED
    BY <1>1, <1>2, <1>3, <2>1 DEF PInv, LocksHold, BeginRotate, Current, Overdue, Stored, Past
<1>7. OneMemberSeen'
  BY <1>1, <1>2, <1>3 DEF PInv, OneMemberSeen, Stored
<1> QED  BY <1>4, <1>5, <1>6, <1>7 DEF PInv

LEMMA CommitRotateKeeps ==
  ASSUME PInv, NEW c \in Callers, NEW u \in Tokens, CommitRotate(c, u)
  PROVE  PInv'
<1>1. PICK t \in Tokens :
        t = call[c].token /\ Current(t) /\ Stored(t) /\ call[c].read = row[t]
  BY DEF CommitRotate, PInv, LocksHold, Current
<1>2. PICK new \in Row :
        /\ new = NewRow(row[t].member, row[t].login) /\ new # NoSession
        /\ new.member = row[t].member /\ new.login = row[t].login
  BY <1>1, RowShape, NewRowShape DEF PInv
<1>3. u \notin stored /\ ~Stored(u) /\ u # t
  BY <1>1 DEF CommitRotate, PInv, RowsAreStored
<1>4. row' = [row EXCEPT ![t] = NoSession, ![u] = new]
  BY <1>1, <1>2 DEF CommitRotate
<1>5. ASSUME NEW s \in Tokens
      PROVE  row'[s] = IF s = u THEN new ELSE IF s = t THEN NoSession ELSE row[s]
  BY <1>4 DEF PInv, PTypeOK
<1>6. ASSUME NEW d \in Callers
      PROVE  call'[d] = IF d = c THEN Ready ELSE call[d]
  BY DEF CommitRotate, PInv, PTypeOK
<1>7. clock' = clock /\ stored' = stored \cup {u}
  BY DEF CommitRotate
<1>8. PTypeOK'
  <2>1. row' \in [Tokens -> Row \cup {NoSession}]
    BY <1>2, <1>4 DEF PInv, PTypeOK
  <2>2. Ready \in Calling
    BY DEF Ready, Calling
  <2>3. call' \in [Callers -> Calling]
    BY <2>2 DEF CommitRotate, PInv, PTypeOK
  <2> QED  BY <1>6, <1>7, <2>1, <2>3 DEF PInv, PTypeOK, Ready
<1>9. RotationNeverForks'
  <2> SUFFICES ASSUME NEW s \in Tokens, NEW v \in Tokens, Stored(s)', Stored(v)',
                      row'[s].login = row'[v].login
               PROVE  s = v
    BY DEF RotationNeverForks
  <2>1. CASE s # u /\ v # u
    BY <1>5, <2>1 DEF PInv, RotationNeverForks, Stored
  <2>2. CASE s = u /\ v # u
    BY <1>1, <1>2, <1>5, <2>2 DEF PInv, RotationNeverForks, Stored
  <2>3. CASE s # u /\ v = u
    BY <1>1, <1>2, <1>5, <2>3 DEF PInv, RotationNeverForks, Stored
  <2> QED  BY <2>1, <2>2, <2>3
<1>10. RowsAreStored'
  BY <1>1, <1>2, <1>5, <1>7 DEF PInv, RowsAreStored, Stored
<1>11. LocksHold'
  <2> SUFFICES ASSUME NEW d \in Callers
               PROVE  IF call'[d].op = "rotate"
                      THEN /\ call'[d].token \in Tokens /\ Current(call[d].token)'
                           /\ call'[d].read = row'[call'[d].token]
                      ELSE call'[d].token = NoToken
    BY DEF LocksHold
  <2>1. CASE d = c
    BY <1>6, <2>1 DEF Ready
  <2>2. CASE d # c /\ call[d].op = "rotate"
    <3>1. /\ call[d].token \in Tokens /\ Current(call[d].token)
          /\ call[d].read = row[call[d].token]
      BY <2>2 DEF PInv, LocksHold
    <3>2. call[d].token # t
      BY <1>1, <2>2, <3>1, RowAssumption DEF PInv, PTypeOK
    <3>3. call[d].token # u
      BY <1>3, <3>1 DEF Current
    <3>4. row'[call[d].token] = row[call[d].token]
      BY <1>5, <3>1, <3>2, <3>3
    <3>5. call'[d] = call[d]
      BY <1>6, <2>2
    <3> QED  BY <1>7, <2>2, <3>1, <3>4, <3>5 DEF Current, Overdue, Stored, Past
  <2>3. CASE d # c /\ call[d].op # "rotate"
    BY <1>6, <2>3 DEF PInv, LocksHold
  <2> QED  BY <2>1, <2>2, <2>3
<1>12. OneMemberSeen'
  <2> SUFFICES ASSUME NEW d \in Callers, call'[d].op = "revoke"
               PROVE  /\ call'[d].seen \subseteq stored'
                      /\ \E m \in Members :
                           \A s \in call'[d].seen : Stored(s)' => row'[s].member = m
    BY DEF OneMemberSeen
  <2>1. call'[d] = call[d] /\ call[d].seen \subseteq Tokens
    BY <1>6, CallShape DEF Ready, PInv
  <2>2. u \notin call[d].seen
    BY <1>3, <2>1 DEF PInv, OneMemberSeen
  <2> QED  BY <1>5, <1>7, <2>1, <2>2 DEF PInv, OneMemberSeen, Stored
<1> QED  BY <1>8, <1>9, <1>10, <1>11, <1>12 DEF PInv

LEMMA ClockKeeps ==
  ASSUME PInv, ClockAdvances
  PROVE  PInv'
<1>1. /\ clock' = clock + 1 /\ row' = row /\ call' = call /\ stored' = stored
      /\ \A c \in Callers : call[c].op # "rotate"
  BY DEF ClockAdvances
<1>2. PTypeOK'
  BY <1>1 DEF PInv, PTypeOK
<1> QED
  BY <1>1, <1>2 DEF PInv, RotationNeverForks, RowsAreStored, LocksHold, OneMemberSeen, Stored

-----------------------------------------------------------------------------

LEMMA Overdues ==
  ASSUME PInv
  PROVE  \A t \in Tokens : Overdue(t) => Unlocked(t)
BY RowAssumption DEF PInv, LocksHold, Unlocked, Current

LEMMA PNextInv == PInv /\ [PNext]_pvars => PInv'
<1> SUFFICES ASSUME PInv, [PNext]_pvars PROVE PInv'
  OBVIOUS
<1>1. ASSUME NEW t \in Tokens, NEW m \in Members, Insert(t, m) PROVE PInv'
  BY <1>1, InsertKeeps
<1>2. ASSUME NEW t \in Tokens, Touch(t) PROVE PInv'
  BY <1>2, TouchKeeps
<1>3. ASSUME NEW t \in Tokens, Clean(t) \/ Erase(t) PROVE PInv'
  <2>1. row' = [s \in Tokens |-> IF s \in {t} THEN NoSession ELSE row[s]]
    BY <1>3 DEF Clean, Erase, PInv, PTypeOK
  <2>2. Unlocked(t) /\ call' = call /\ UNCHANGED <<clock, stored>>
    BY <1>3 DEF Clean, Erase
  <2>3. {t} \in SUBSET Tokens /\ \A s \in {t} : Unlocked(s)
    BY <2>2
  <2> QED  BY <2>1, <2>2, <2>3, RemovalKeeps
<1>4. ASSUME NEW c \in Callers, NEW m \in Members, BeginRevokeAll(c, m) PROVE PInv'
  BY <1>4, BeginRevokeAllKeeps
<1>5. ASSUME NEW c \in Callers, EndRevokeAll(c) PROVE PInv'
  <2>1. call[c].seen \subseteq Tokens
    BY CallShape DEF PInv
  <2> QED  BY <1>5, <2>1, RemovalKeeps DEF EndRevokeAll
<1>6. ASSUME NEW c \in Callers, NEW t \in Tokens, BeginRotate(c, t) PROVE PInv'
  BY <1>6, BeginRotateKeeps
<1>7. ASSUME NEW c \in Callers, NEW u \in Tokens, CommitRotate(c, u) PROVE PInv'
  BY <1>7, CommitRotateKeeps
<1>8. ASSUME NEW c \in Callers, Abort(c) PROVE PInv'
  <2>1. row' = [s \in Tokens |-> IF s \in {} THEN NoSession ELSE row[s]]
    BY <1>8 DEF Abort, PInv, PTypeOK
  <2>2. {} \in SUBSET Tokens /\ \A s \in {} : Unlocked(s)
    OBVIOUS
  <2>3. call' = [call EXCEPT ![c] = Ready] /\ UNCHANGED <<clock, stored>>
    BY <1>8 DEF Abort
  <2> QED  BY <2>1, <2>2, <2>3, RemovalKeeps
<1>9. CASE DeleteExpiredSessions
  <2> DEFINE gone == {t \in Tokens : Overdue(t)}
  <2>1. row' = [t \in Tokens |-> IF t \in gone THEN NoSession ELSE row[t]]
    BY <1>9 DEF DeleteExpiredSessions
  <2>2. \A t \in gone : Unlocked(t)
    BY Overdues
  <2>3. call' = call /\ UNCHANGED <<clock, stored>>
    BY <1>9 DEF DeleteExpiredSessions
  <2> HIDE DEF gone
  <2>4. gone \subseteq Tokens
    BY DEF gone
  <2> QED  BY <2>1, <2>2, <2>3, <2>4, RemovalKeeps
<1>10. CASE ClockAdvances
  BY <1>10, ClockKeeps
<1>11. CASE UNCHANGED pvars
  BY <1>11
  DEF pvars, PInv, PTypeOK, RotationNeverForks, RowsAreStored, LocksHold, OneMemberSeen,
      Current, Overdue, Stored, Past
<1> QED
  BY <1>1, <1>2, <1>3, <1>4, <1>5, <1>6, <1>7, <1>8, <1>9, <1>10, <1>11 DEF PNext

(* The invariant behind all that follows. *)
THEOREM PostgresInvariant == PSpec => []PInv
BY PInitInv, PNextInv, PTL DEF PSpec

(* Types, and the lock of a rotation: Rotate's SELECT ... FOR UPDATE. *)
THEOREM PostgresTypeCorrect == PSpec => []PTypeOK
<1>1. PInv => PTypeOK  BY DEF PInv
<1> QED  BY <1>1, PostgresInvariant, PTL

(* However many rotations of one cookie are under way, one of them wins. *)
THEOREM OneSessionPerLogin == PSpec => []RotationNeverForks
<1>1. PInv => RotationNeverForks  BY DEF PInv
<1> QED  BY <1>1, PostgresInvariant, PTL

-----------------------------------------------------------------------------
(* The refinement: what the contract sees of a step.                        *)

RowOf(r) == [member |-> r.member, absolute |-> r.absolute, idle |-> r.idle]

LEMMA RowOfShape ==
  ASSUME NEW r \in Row
  PROVE  /\ RowOf(r) # NoSession /\ RowOf(r).member = r.member
         /\ RowOf(r).absolute = r.absolute /\ RowOf(r).idle = r.idle
BY StoreAssumption DEF RowOf, Row

LEMMA LiveRowAt ==
  ASSUME NEW t \in Tokens
  PROVE  LiveRows[t] = IF Current(t) THEN RowOf(row[t]) ELSE NoSession
BY DEF LiveRows, RowOf

LEMMA NewRowIsNewSession ==
  ASSUME PInv, NEW m \in Members, NEW l \in Tokens
  PROVE  RowOf(NewRow(m, l)) = Promise!NewSession(m, clock)
BY DEF NewRow, RowOf, Promise!NewSession, Promise!Deadline, expiryBound

LEMMA PostgresInit == PInit /\ clock = 0 => Promise!CInit
BY DEF PInit, Promise!CInit, LiveRows, Current, Stored

LEMMA RefinesInsert ==
  ASSUME PInv, NEW t \in Tokens, NEW m \in Members, Insert(t, m)
  PROVE  Promise!Open(t, m)
<1>1. /\ NewRow(m, t) # NoSession
      /\ ~Past(NewRow(m, t).absolute) /\ ~Past(NewRow(m, t).idle)
  BY NewRowShape DEF PInv
<1>2. ASSUME NEW s \in Tokens
      PROVE  row'[s] = IF s = t THEN NewRow(m, t) ELSE row[s]
  BY DEF Insert, PInv, PTypeOK
<1>3. clock' = clock
  BY DEF Insert
<1>4. ASSUME NEW s \in Tokens
      PROVE  LiveRows'[s] = IF s = t THEN Promise!NewSession(m, clock) ELSE LiveRows[s]
  BY <1>1, <1>2, <1>3, NewRowIsNewSession DEF LiveRows, Current, Overdue, Stored, Past, RowOf
<1> QED  BY <1>4 DEF Insert, Promise!Open, LiveRows

LEMMA RefinesTouch ==
  ASSUME PInv, NEW t \in Tokens, Touch(t)
  PROVE  Promise!Use(t)
<1>1. Current(t) /\ row[t] \in Row /\ clock \in Nat
  BY RowShape DEF PInv, PTypeOK, Touch, Current
<1>2. PICK i \in Nat : i = expiryBound(clock, IdleTimeout) /\ ~Past(i)
  BY <1>1, StoreAssumption, ExpiryBoundNat
<1>3. PICK new \in Row :
        /\ new = [row[t] EXCEPT !.idle = i] /\ new # NoSession
        /\ new.member = row[t].member /\ new.absolute = row[t].absolute /\ new.idle = i
  BY <1>1, UsedRow
<1>4. ASSUME NEW s \in Tokens
      PROVE  row'[s] = IF s = t THEN new ELSE row[s]
  BY <1>2, <1>3 DEF Touch, PInv, PTypeOK
<1>5. clock' = clock
  BY DEF Touch
<1>6. ASSUME NEW s \in Tokens
      PROVE  LiveRows'[s] = IF s = t THEN RowOf(new) ELSE LiveRows[s]
  BY <1>1, <1>2, <1>3, <1>4, <1>5 DEF LiveRows, Current, Overdue, Stored, Past, RowOf
<1>7. LiveRows[t] = RowOf(row[t]) /\ LiveRows[t] # NoSession
  BY <1>1, LiveRowAt, RowOfShape
<1>8. RowOf(new) = [LiveRows[t] EXCEPT !.idle = Promise!Deadline(clock, IdleTimeout)]
  BY <1>2, <1>3, <1>7 DEF RowOf, expiryBound, Promise!Deadline
<1> QED  BY <1>6, <1>7, <1>8 DEF Touch, Promise!Use, LiveRows

(* Rows of one member go, among them some that were live. *)
LEMMA RefinesRemoval ==
  ASSUME PInv, NEW gone \in SUBSET Tokens, NEW m \in Members,
         row' = [t \in Tokens |-> IF t \in gone THEN NoSession ELSE row[t]],
         \A t \in gone : Current(t) => row[t].member = m,
         UNCHANGED <<clock, stored>>
  PROVE  \E closed \in SUBSET Tokens : Promise!Close(m, closed)
<1> DEFINE closed == {t \in gone : Current(t)}
<1>1. ASSUME NEW s \in Tokens
      PROVE  LiveRows'[s] = IF s \in closed THEN NoSession ELSE LiveRows[s]
  BY DEF LiveRows, Current, Overdue, Stored, Past
<1>2. ASSUME NEW s \in closed PROVE s \in Promise!Sessions(m)
  <2>1. s \in Tokens /\ Current(s) /\ row[s] \in Row /\ row[s].member = m
    BY RowShape DEF PInv, Current
  <2> QED  BY <2>1, LiveRowAt, RowOfShape DEF Promise!Sessions
<1>3. Promise!Close(m, closed)
  BY <1>1, <1>2 DEF Promise!Close, LiveRows
<1> QED  BY <1>3

(* Rows that are overdue go: nothing happens. *)
LEMMA OverdueRemoval ==
  ASSUME PInv, NEW gone \in SUBSET Tokens,
         row' = [t \in Tokens |-> IF t \in gone THEN NoSession ELSE row[t]],
         \A t \in gone : Overdue(t),
         UNCHANGED <<clock, stored>>
  PROVE  UNCHANGED (Promise!cvars)
<1>1. ASSUME NEW s \in Tokens PROVE LiveRows'[s] = LiveRows[s]
  BY DEF LiveRows, Current, Overdue, Stored, Past
<1>2. LiveRows' = LiveRows
  BY <1>1 DEF LiveRows
<1> QED  BY <1>2 DEF Promise!cvars

LEMMA RefinesCommit ==
  ASSUME PInv, NEW c \in Callers, NEW u \in Tokens, CommitRotate(c, u)
  PROVE  \E t \in Tokens : Promise!Renew(t, u)
<1>1. PICK t \in Tokens :
        /\ t = call[c].token /\ Current(t) /\ Stored(t) /\ call[c].read = row[t]
        /\ row[t] \in Row /\ row[t].member \in Members /\ row[t].login \in Tokens
  BY RowShape DEF CommitRotate, PInv, LocksHold, Current
<1>2. PICK new \in Row :
        /\ new = NewRow(row[t].member, row[t].login) /\ new # NoSession
        /\ ~Past(new.absolute) /\ ~Past(new.idle)
  BY <1>1, NewRowShape DEF PInv
<1>3. u \notin stored /\ u # t
  BY <1>1 DEF CommitRotate, PInv, RowsAreStored
<1>4. ASSUME NEW s \in Tokens
      PROVE  row'[s] = IF s = u THEN new ELSE IF s = t THEN NoSession ELSE row[s]
  BY <1>1, <1>2 DEF CommitRotate, PInv, PTypeOK
<1>5. clock' = clock
  BY DEF CommitRotate
<1>6. RowOf(new) = Promise!NewSession(row[t].member, clock)
  BY <1>1, <1>2, NewRowIsNewSession
<1>7. ASSUME NEW s \in Tokens
      PROVE  LiveRows'[s] = IF s = u THEN RowOf(new)
                            ELSE IF s = t THEN NoSession ELSE LiveRows[s]
  BY <1>2, <1>4, <1>5 DEF LiveRows, Current, Overdue, Stored, Past, RowOf
<1>8. LiveRows[t] # NoSession /\ LiveRows[t].member = row[t].member
  BY <1>1, LiveRowAt, RowOfShape
<1> QED  BY <1>3, <1>6, <1>7, <1>8 DEF CommitRotate, Promise!Renew, LiveRows

LEMMA RefinesClock ==
  ASSUME PInv, ClockAdvances
  PROVE  Promise!Tick
<1>1. clock \in Nat /\ clock' = clock + 1 /\ row' = row
  BY DEF PInv, PTypeOK, ClockAdvances
<1>2. ASSUME NEW s \in Tokens
      PROVE  LiveRows'[s] = IF LiveRows[s] # NoSession /\ Promise!Expired(LiveRows[s], clock + 1)
                            THEN NoSession ELSE LiveRows[s]
  <2>1. CASE ~Stored(s)
    BY <1>1, <2>1 DEF LiveRows, Current, Stored
  <2>2. CASE Stored(s)
    <3>1. row[s] \in Row /\ row[s].absolute \in Nat /\ row[s].idle \in Nat
      BY <2>2, RowShape DEF PInv
    <3>2. Overdue(s)' <=> Promise!Expired(RowOf(row[s]), clock + 1)
      BY <1>1, <2>2, <3>1, RowOfShape DEF Overdue, Stored, Past, Promise!Expired, Promise!Passed
    <3>3. Overdue(s) => Overdue(s)'
      BY <1>1, <3>1 DEF Overdue, Stored, Past
    <3>4. LiveRows'[s] = IF Overdue(s)' THEN NoSession ELSE RowOf(row[s])
      BY <1>1, <2>2 DEF LiveRows, Current, Stored, RowOf
    <3>5. LiveRows[s] = IF Overdue(s) THEN NoSession ELSE RowOf(row[s])
      BY <2>2, LiveRowAt DEF Current
    <3> QED  BY <3>1, <3>2, <3>3, <3>4, <3>5, RowOfShape
  <2> QED  BY <2>1, <2>2
<1> QED  BY <1>1, <1>2 DEF ClockAdvances, Promise!Tick, LiveRows

LEMMA PostgresStep == PInv /\ [PNext]_pvars => [Promise!CNext]_(Promise!cvars)
<1> SUFFICES ASSUME PInv, [PNext]_pvars PROVE [Promise!CNext]_(Promise!cvars)
  OBVIOUS
<1>1. ASSUME NEW t \in Tokens, NEW m \in Members, Insert(t, m) PROVE Promise!CNext
  BY <1>1, RefinesInsert DEF Promise!CNext
<1>2. ASSUME NEW t \in Tokens, Touch(t) PROVE Promise!CNext
  BY <1>2, RefinesTouch DEF Promise!CNext
<1>3. ASSUME NEW t \in Tokens, Clean(t) PROVE UNCHANGED (Promise!cvars)
  <2>1. row' = [s \in Tokens |-> IF s \in {t} THEN NoSession ELSE row[s]]
    BY <1>3 DEF Clean, PInv, PTypeOK
  <2>2. {t} \in SUBSET Tokens /\ (\A s \in {t} : Overdue(s)) /\ UNCHANGED <<clock, stored>>
    BY <1>3 DEF Clean
  <2> QED  BY <2>1, <2>2, OverdueRemoval
<1>4. ASSUME NEW t \in Tokens, Erase(t) PROVE Promise!CNext
  <2>1. row' = [s \in Tokens |-> IF s \in {t} THEN NoSession ELSE row[s]]
    BY <1>4 DEF Erase, PInv, PTypeOK
  <2>2. row[t].member \in Members
    BY <1>4, RowShape DEF Erase, PInv
  <2>3. /\ {t} \in SUBSET Tokens /\ UNCHANGED <<clock, stored>>
        /\ \A s \in {t} : Current(s) => row[s].member = row[t].member
    BY <1>4 DEF Erase
  <2> QED  BY <2>1, <2>2, <2>3, RefinesRemoval DEF Promise!CNext
<1>5. ASSUME NEW c \in Callers, EndRevokeAll(c) PROVE Promise!CNext
  <2>1. call[c].seen \in SUBSET Tokens
    BY CallShape DEF PInv
  <2>2. PICK m \in Members : \A t \in call[c].seen : Stored(t) => row[t].member = m
    BY <1>5 DEF EndRevokeAll, PInv, OneMemberSeen
  <2>3. \A t \in call[c].seen : Current(t) => row[t].member = m
    BY <2>2 DEF Current
  <2>4. /\ row' = [t \in Tokens |-> IF t \in call[c].seen THEN NoSession ELSE row[t]]
        /\ UNCHANGED <<clock, stored>>
    BY <1>5 DEF EndRevokeAll
  <2> QED  BY <2>1, <2>3, <2>4, RefinesRemoval DEF Promise!CNext
<1>6. ASSUME NEW c \in Callers, NEW u \in Tokens, CommitRotate(c, u) PROVE Promise!CNext
  BY <1>6, RefinesCommit DEF Promise!CNext
<1>7. CASE DeleteExpiredSessions
  <2> DEFINE gone == {t \in Tokens : Overdue(t)}
  <2>1. row' = [t \in Tokens |-> IF t \in gone THEN NoSession ELSE row[t]]
    BY <1>7 DEF DeleteExpiredSessions
  <2>2. (\A t \in gone : Overdue(t)) /\ gone \in SUBSET Tokens /\ UNCHANGED <<clock, stored>>
    BY <1>7 DEF DeleteExpiredSessions
  <2> HIDE DEF gone
  <2>3. UNCHANGED (Promise!cvars)
    BY <2>1, <2>2, OverdueRemoval
  <2> QED  BY <2>3
<1>8. CASE ClockAdvances
  BY <1>8, RefinesClock DEF Promise!CNext
<1>9. CASE /\ UNCHANGED <<clock, stored, row>>
  BY <1>9 DEF Promise!cvars, LiveRows, Current, Overdue, Stored, Past
<1> QED
  BY <1>1, <1>2, <1>3, <1>4, <1>5, <1>6, <1>7, <1>8, <1>9
  DEF PNext, BeginRevokeAll, BeginRotate, Abort, pvars

(* PostgresSessionManager keeps the contract of a store of sessions. *)
THEOREM PostgresIsASessionStore == PSpec => PostgresImplementsContract
BY PostgresInit, PostgresStep, PostgresInvariant, PTL
DEF PSpec, PostgresImplementsContract, Promise!CSpec
=============================================================================
