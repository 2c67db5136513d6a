--------------------------- MODULE Platform_proofs ---------------------------
(***************************************************************************)
(* Theorems about accounts, organizations and the audit log, for any       *)
(* number of members, requests and rows.                                   *)
(* Each part has an inductive invariant of its own; the last theorem is    *)
(* about the three of them that one run checks together.                   *)
(***************************************************************************)
EXTENDS MCPlatform, FiniteSetTheorems, TLAPS

(***************************************************************************)
(* ACCOUNTS.  A handler writes by what it read: Relies says what of that   *)
(* is still true, Admits what is true of a session.                        *)
(***************************************************************************)

Sure(m) == account[m].verified \/ account[m].deleted
UsedUp(l) == link[l] # None /\ link[l].state \in {"used", "deleted"}

LinkSteps == {"setVerified", "setPassword"}
LoginSteps ==
  {"login", "autoVerify", "setProfile", "changePassword", "rotate", "closeAccount"}

AccountsTypes ==
  /\ featureEmail \in BOOLEAN
  /\ account \in [Members -> Account \cup {None}]
  /\ link \in [Links -> Link \cup {None}] /\ login \in [Logins -> Login \cup {None}]
  /\ request \in [Callers -> Request]
  /\ uses \in [Links -> Nat] /\ flushed \in [Members -> Nat]

OneAddressEach ==
  \A m, n \in Members :
    Exists(m) /\ Exists(n) /\ account[m].email = account[n].email /\ account[m].email \in Emails
      => m = n

(* A reset that signed the member out set this password or an earlier one.  *)
MemberInv(m) == flushed[m] <= IF Exists(m) THEN account[m].password ELSE 0

LinkInv(l) ==
  /\ link[l] # None => Exists(link[l].member)
  /\ uses[l] <= 1 /\ (uses[l] > 0 => UsedUp(l))

Admits(s) ==
  /\ Exists(s.member)
  /\ featureEmail => Sure(s.member)
  /\ s.password < flushed[s.member] => s.late

Relies(r) ==
  /\ r.step # "none" => r.member \in Members /\ Exists(r.member)
  /\ r.step = "consume" \/ r.step \in LinkSteps => r.link \in Links /\ link[r.link] # None
  /\ r.step \in LinkSteps => uses[r.link] = 0 /\ UsedUp(r.link)
  /\ r.step \in LoginSteps =>
       /\ featureEmail => Sure(r.member)
       /\ r.password < flushed[r.member] => r.late
  /\ r.step = "flush" => r.password <= account[r.member].password
  /\ r.step = "autoVerify" => ~featureEmail

(* A link is consumed by one request. *)
OneConsumesEach ==
  \A c, d \in Callers :
    request[c].step \in LinkSteps /\ request[d].step \in LinkSteps
      /\ request[c].link = request[d].link => c = d

AInv ==
  /\ AccountsTypes /\ OneAddressEach /\ OneConsumesEach
  /\ \A m \in Members : MemberInv(m)
  /\ \A l \in Links : LinkInv(l)
  /\ \A t \in Logins : login[t] # None => Admits(login[t])
  /\ \A c \in Callers : Relies(request[c])

(* What a step of the requests S leaves to the others. *)
AFrame(S) ==
  /\ featureEmail' = featureEmail /\ flushed' = flushed
  /\ \A m \in Members : Exists(m) =>
       /\ Exists(m)' /\ \A p \in Nat : p <= account[m].password => p <= account'[m].password
       /\ Sure(m) => Sure(m)'
  /\ \A l \in Links :
       /\ link[l] # None => link'[l] # None
       /\ UsedUp(l) => UsedUp(l)'
       /\ uses'[l] = uses[l] \/ \E c \in S : request[c].step \in LinkSteps /\ request[c].link = l
  /\ \A d \in Callers \ S : request'[d] = request[d]

-----------------------------------------------------------------------------

LEMMA RequestFields ==
  ASSUME AInv, NEW c \in Callers
  PROVE  /\ request[c] \in Request
         /\ request[c].step \in Steps /\ request[c].member \in Members \cup {Nobody}
         /\ request[c].login \in Logins \cup {None} /\ request[c].link \in Links \cup {None}
         /\ request[c].password \in Nat /\ request[c].late \in BOOLEAN
         /\ request[c].email \in Emails \cup {Anonymous}
<1>1. request[c] \in Request
  BY DEF AInv, AccountsTypes
<1> QED
  BY <1>1 DEF Request

LEMMA AccountFields ==
  ASSUME AInv, NEW m \in Members, Exists(m)
  PROVE  /\ account[m] \in Account
         /\ account[m].email \in Emails \cup {Anonymous} /\ account[m].password \in Nat
         /\ account[m].known \in BOOLEAN /\ account[m].enabled \in BOOLEAN
         /\ account[m].verified \in BOOLEAN /\ account[m].deleted \in BOOLEAN
<1>1. account[m] \in Account
  BY DEF AInv, AccountsTypes, Exists
<1> QED
  BY <1>1 DEF Account

LEMMA LinkFields ==
  ASSUME AInv, NEW l \in Links, link[l] # None
  PROVE  /\ link[l] \in Link /\ link[l].member \in Members
         /\ link[l].purpose \in {"reset", "verify"}
         /\ link[l].state \in {"fresh", "used", "expired", "deleted"}
<1>1. link[l] \in Link
  BY DEF AInv, AccountsTypes
<1> QED
  BY <1>1 DEF Link

LEMMA LoginFields ==
  ASSUME AInv, NEW t \in Logins, login[t] # None
  PROVE  /\ login[t] \in Login /\ login[t].member \in Members
         /\ login[t].password \in Nat /\ login[t].late \in BOOLEAN
         /\ Admits(login[t])
<1>1. login[t] \in Login
  BY DEF AInv, AccountsTypes
<1> QED
  BY <1>1 DEF Login, AInv

LEMMA AboutIsRequest ==
  /\ Idle \in Request /\ Idle.step = "none"
  /\ \A m \in Members, step \in Steps :
       /\ About(m, step) \in Request
       /\ About(m, step).step = step /\ About(m, step).member = m
       /\ About(m, step).login = None /\ About(m, step).link = None
       /\ About(m, step).password = 0 /\ About(m, step).late = FALSE
<1>1. Idle \in Request /\ Idle.step = "none"
  BY DEF Idle, Request, Steps
<1>2. ASSUME NEW m \in Members, NEW step \in Steps
      PROVE  /\ About(m, step) \in Request
             /\ About(m, step).step = step /\ About(m, step).member = m
             /\ About(m, step).login = None /\ About(m, step).link = None
             /\ About(m, step).password = 0 /\ About(m, step).late = FALSE
  BY DEF About, Idle, Request
<1> QED
  BY <1>1, <1>2

(* No step of another request undoes what a request relies on. *)
LEMMA OtherRequests ==
  ASSUME AInv, NEW S \in SUBSET Callers, AFrame(S), NEW d \in Callers \ S
  PROVE  Relies(request[d])'
<1> PICK r \in Request : request[d] = r /\ request'[d] = r
  BY RequestFields DEF AFrame
<1>1. Relies(r)
  BY DEF AInv
<1>2. r.step \in LinkSteps => uses'[r.link] = 0
  BY <1>1 DEF AFrame, AInv, OneConsumesEach, Relies
<1>3. r.step # "none" => Exists(r.member)' /\ (Sure(r.member) => Sure(r.member)')
  BY <1>1 DEF AFrame, Relies
<1>4. r.step = "flush" => r.password <= account'[r.member].password
  BY <1>1 DEF AFrame, Relies, Request
<1>5. r.step = "consume" \/ r.step \in LinkSteps => r.link \in Links /\ link'[r.link] # None
  BY <1>1 DEF AFrame, Relies
<1>6. r.step \in LinkSteps => UsedUp(r.link)'
  BY <1>1 DEF AFrame, Relies
<1>7. featureEmail' = featureEmail /\ flushed' = flushed
  BY DEF AFrame
<1>8. Relies(r)'
  BY <1>1, <1>2, <1>3, <1>4, <1>5, <1>6, <1>7 DEF Relies, LinkSteps, LoginSteps
<1> QED
  BY <1>8

LEMMA AStepKeeps ==
  ASSUME AInv, NEW S \in SUBSET Callers, AFrame(S), AccountsTypes', OneAddressEach',
         OneConsumesEach', \A m \in Members : MemberInv(m)', \A l \in Links : LinkInv(l)',
         \A t \in Logins : login'[t] # None => Admits(login[t])',
         \A c \in S : Relies(request[c])'
  PROVE  AInv'
<1>1. \A d \in Callers \ S : Relies(request[d])'
  BY OtherRequests
<1> QED
  BY <1>1 DEF AInv

-----------------------------------------------------------------------------
(* Steps by what they write.                                               *)

LEMMA RequestGoes ==
  ASSUME AInv, NEW c \in Callers, NEW r \in Request, r.step \notin LinkSteps,
         request' = [request EXCEPT ![c] = r]
  PROVE  /\ request' \in [Callers -> Request] /\ request'[c] = r
         /\ \A d \in Callers \ {c} : request'[d] = request[d]
         /\ OneConsumesEach'
<1>1. /\ request' \in [Callers -> Request] /\ request'[c] = r
      /\ \A d \in Callers \ {c} : request'[d] = request[d]
  BY DEF AInv, AccountsTypes
<1>2. OneConsumesEach'
  BY <1>1 DEF AInv, OneConsumesEach
<1> QED
  BY <1>1, <1>2

(* A request that only reads. *)
LEMMA RequestMoves ==
  ASSUME AInv, NEW c \in Callers, NEW r \in Request, r.step \notin LinkSteps, Relies(r),
         request' = [request EXCEPT ![c] = r],
         UNCHANGED <<featureEmail, account, link, login, uses, flushed>>
  PROVE  AInv'
<1>1. /\ request' \in [Callers -> Request] /\ request'[c] = r
      /\ \A d \in Callers \ {c} : request'[d] = request[d]
      /\ OneConsumesEach'
  BY RequestGoes
<1>2. AccountsTypes' /\ OneAddressEach'
  BY <1>1 DEF AInv, AccountsTypes, OneAddressEach, Exists
<1>3. /\ \A m \in Members : MemberInv(m)'
      /\ \A l \in Links : LinkInv(l)'
  BY DEF AInv, MemberInv, LinkInv, Exists, UsedUp
<1>4. \A t \in Logins : login'[t] # None => Admits(login[t])'
  BY DEF AInv, Admits, Exists, Sure
<1>5. Relies(request[c])'
  <2>1. Relies(r)'
    BY DEF Relies, Exists, Sure, UsedUp
  <2> QED
    BY <1>1, <2>1
<1>6. AFrame({c})
  BY <1>1 DEF AFrame, Exists, Sure, UsedUp
<1> QED
  BY <1>1, <1>2, <1>3, <1>4, <1>5, <1>6, AStepKeeps

(* A request that is over, or one whose next step writes by no reading. *)
LEMMA RequestEnds ==
  ASSUME AInv, NEW c \in Callers, Done(c),
         UNCHANGED <<featureEmail, account, link, login, uses, flushed>>
  PROVE  AInv'
<1>1. Idle.step \notin LinkSteps /\ Relies(Idle)
  BY AboutIsRequest DEF Relies, LinkSteps, LoginSteps
<1> QED
  BY <1>1, AboutIsRequest, RequestMoves DEF Done

(* A request that writes an account: it stays, its password is no earlier   *)
(* one, and what was verified stays so.                                     *)
LEMMA AccountMoves ==
  ASSUME AInv, NEW c \in Callers, NEW r \in Request, r.step \notin LinkSteps,
         request' = [request EXCEPT ![c] = r],
         NEW m \in Members, NEW a \in Account, account' = [account EXCEPT ![m] = a],
         Exists(m) => account[m].password <= a.password /\ (Sure(m) => a.verified \/ a.deleted),
         \A n \in Members \ {m} : Exists(n) /\ account[n].email = a.email => a.email \notin Emails,
         \/ uses' = uses
         \/ /\ request[c].step \in LinkSteps
            /\ uses' = [uses EXCEPT ![request[c].link] = uses[request[c].link] + 1],
         UNCHANGED <<featureEmail, link, login, flushed>>,
         account'[m] = a => Relies(r)'
  PROVE  AInv'
<1>1. /\ request' \in [Callers -> Request] /\ request'[c] = r
      /\ \A d \in Callers \ {c} : request'[d] = request[d]
      /\ OneConsumesEach'
  BY RequestGoes
<1>2. /\ account'[m] = a /\ a # None /\ a.password \in Nat
      /\ \A n \in Members \ {m} : account'[n] = account[n]
  BY AccountsAssumption DEF AInv, AccountsTypes, Account
<1>3. /\ uses' \in [Links -> Nat]
      /\ \A l \in Links :
           \/ uses'[l] = uses[l]
           \/ /\ request[c].step \in LinkSteps /\ request[c].link = l
              /\ uses'[l] = 1 /\ UsedUp(l)
  <2>1. CASE uses' = uses
    BY <2>1 DEF AInv, AccountsTypes
  <2>2. CASE /\ request[c].step \in LinkSteps
             /\ uses' = [uses EXCEPT ![request[c].link] = uses[request[c].link] + 1]
    <3> PICK l : l = request[c].link
      OBVIOUS
    <3>1. l \in Links /\ uses[l] = 0 /\ UsedUp(l)
      BY <2>2 DEF AInv, Relies
    <3>2. uses' = [uses EXCEPT ![l] = 1]
      BY <2>2, <3>1
    <3> QED
      BY <2>2, <3>1, <3>2 DEF AInv, AccountsTypes
  <2> QED
    BY <2>1, <2>2
<1>4. AccountsTypes'
  BY <1>1, <1>3 DEF AInv, AccountsTypes
<1>5. OneAddressEach'
  BY <1>2 DEF AInv, OneAddressEach, Exists
<1>6. ASSUME NEW n \in Members, Exists(n)
      PROVE  /\ Exists(n)' /\ \A p \in Nat : p <= account[n].password => p <= account'[n].password
             /\ Sure(n) => Sure(n)'
  BY <1>2, <1>6, AccountFields DEF Exists, Sure
<1>7. ASSUME NEW n \in Members
      PROVE  MemberInv(n)'
  <2>1. MemberInv(n) /\ flushed[n] \in Nat /\ flushed'[n] = flushed[n]
    BY DEF AInv, AccountsTypes
  <2>2. CASE n = m
    BY <1>2, <2>1, <2>2, AccountFields DEF MemberInv, Exists
  <2>3. CASE n # m
    BY <1>2, <2>1, <2>3 DEF MemberInv, Exists
  <2> QED
    BY <2>2, <2>3
<1>8. ASSUME NEW l \in Links
      PROVE  LinkInv(l)'
  <2>1. LinkInv(l)
    BY DEF AInv
  <2>2. link[l] # None => Exists(link[l].member)'
    BY <1>6, <2>1, LinkFields DEF LinkInv
  <2>3. uses'[l] <= 1 /\ (uses'[l] > 0 => UsedUp(l)')
    BY <1>3, <2>1 DEF LinkInv, UsedUp
  <2> QED
    BY <2>2, <2>3 DEF LinkInv
<1>9. ASSUME NEW t \in Logins, login'[t] # None
      PROVE  Admits(login[t])'
  BY <1>6, <1>9, LoginFields DEF Admits
<1>10. Relies(request[c])'
  BY <1>1, <1>2
<1>11. AFrame({c})
  BY <1>1, <1>3, <1>6 DEF AFrame, UsedUp
<1> QED
  BY <1>1, <1>4, <1>5, <1>7, <1>8, <1>9, <1>10, <1>11, AStepKeeps

(* A request that writes sessions. *)
LEMMA LoginMoves ==
  ASSUME AInv, NEW S \in SUBSET Callers, \A c \in S : request'[c] = Idle,
         \A d \in Callers \ S : request'[d] = request[d],
         request' \in [Callers -> Request],
         login' \in [Logins -> Login \cup {None}],
         \A t \in Logins : login'[t] # None => Admits(login'[t]),
         UNCHANGED <<featureEmail, account, link, uses, flushed>>
  PROVE  AInv'
<1>1. AccountsTypes' /\ OneAddressEach'
  BY DEF AInv, AccountsTypes, OneAddressEach, Exists
<1>2. OneConsumesEach'
  BY AboutIsRequest DEF AInv, OneConsumesEach, LinkSteps
<1>3. /\ \A m \in Members : MemberInv(m)'
      /\ \A l \in Links : LinkInv(l)'
  BY DEF AInv, MemberInv, LinkInv, Exists, UsedUp
<1>4. \A t \in Logins : login'[t] # None => Admits(login[t])'
  BY DEF Admits, Exists, Sure
<1>5. \A c \in S : Relies(request[c])'
  BY AboutIsRequest DEF Relies, LinkSteps, LoginSteps
<1>6. AFrame(S)
  BY DEF AFrame, Exists, Sure, UsedUp
<1> QED
  BY <1>1, <1>2, <1>3, <1>4, <1>5, <1>6, AStepKeeps

-----------------------------------------------------------------------------
(* Signing up and in.                                                      *)

LEMMA ServeKeeps ==
  ASSUME AInv, NEW c \in Callers, NEW r \in Request, r.step \notin LinkSteps, Relies(r),
         Serve(c, r), UNCHANGED <<featureEmail, account, link, login, uses, flushed>>
  PROVE  AInv'
  BY RequestMoves DEF Serve

(* A request about an account that is there, and no session. *)
LEMMA AboutRelies ==
  ASSUME NEW m \in Members, Exists(m), NEW step \in Steps,
         step \notin LinkSteps \cup LoginSteps \cup {"consume"}, step # "flush"
  PROVE  Relies(About(m, step)) /\ About(m, step).step \notin LinkSteps
  BY AboutIsRequest DEF Relies, LinkSteps, LoginSteps

LEMMA SignupKeeps ==
  ASSUME AInv, NEW c \in Callers, NEW m \in Members, NEW e \in Emails, handleSignup(c, m, e)
  PROVE  AInv'
<1>1. PICK a \in Account :
        /\ a.email = e
        /\ account' = [account EXCEPT ![m] = a]
  <2> DEFINE a == [email |-> e, password |-> 0, known |-> TRUE, enabled |-> TRUE,
                   verified |-> ~featureEmail, deleted |-> FALSE]
  <2>1. a \in Account /\ a.email = e
    BY DEF Account, AInv, AccountsTypes
  <2> QED
    BY <2>1 DEF handleSignup, Store
<1>2. PICK r \in Request :
        /\ r.step \in {"none", "mailVerify"} /\ (r.step = "none" \/ r.member = m)
        /\ request' = [request EXCEPT ![c] = r]
  <2>1. "mailVerify" \in Steps
    BY DEF Steps
  <2>2. CASE featureEmail
    BY <2>1, <2>2, AboutIsRequest DEF handleSignup, Serve
  <2>3. CASE ~featureEmail
    BY <2>3, AboutIsRequest DEF handleSignup, AInv, AccountsTypes
  <2> QED
    BY <2>2, <2>3
<1>3. /\ ~Exists(m) /\ HeldBy(e) = {}
      /\ UNCHANGED <<featureEmail, link, login, uses, flushed>>
  BY DEF handleSignup
<1>4. \A n \in Members \ {m} : Exists(n) /\ account[n].email = a.email => a.email \notin Emails
  BY <1>1, <1>3 DEF HeldBy
<1>5. account'[m] = a => Relies(r)'
  <2>1. a # None
    BY AccountsAssumption
  <2>2. account'[m] = a /\ r.step # "none" => r.member \in Members /\ Exists(r.member)'
    BY <1>2, <2>1 DEF Exists
  <2> QED
    BY <1>2, <2>2 DEF Relies, LinkSteps, LoginSteps
<1>6. r.step \notin LinkSteps
  BY <1>2 DEF LinkSteps
<1> QED
  BY <1>1, <1>2, <1>3, <1>4, <1>5, <1>6, AccountMoves

(* Whoever begins to sign in has the latest password. *)
LEMMA AuthenticateKeeps ==
  ASSUME AInv, NEW c \in Callers, NEW m \in Members, AuthenticateMemberByEmail(c, m)
  PROVE  AInv'
<1>1. /\ Exists(m) /\ UNCHANGED <<featureEmail, account, link, login, uses, flushed>>
      /\ \/ /\ account[m].verified
            /\ Serve(c, [About(m, "login") EXCEPT !.password = account[m].password])
         \/ /\ ~featureEmail
            /\ Serve(c, [About(m, "autoVerify") EXCEPT !.password = account[m].password,
                                                       !.email = account[m].email])
  BY DEF AuthenticateMemberByEmail, Live
<1> PICK p \in Nat : p = account[m].password
  BY <1>1, AccountFields
<1> PICK e \in Emails \cup {Anonymous} : e = account[m].email
  BY <1>1, AccountFields
<1>2. flushed[m] <= p /\ flushed[m] \in Nat
  BY <1>1 DEF AInv, MemberInv, AccountsTypes
<1>3. PICK r \in Request :
        /\ Serve(c, r) /\ r.member = m /\ r.password = p
        /\ \/ r.step = "login" /\ account[m].verified
           \/ r.step = "autoVerify" /\ ~featureEmail
  <2>1. "login" \in Steps /\ "autoVerify" \in Steps
    BY DEF Steps
  <2> PICK q1 \in Request : q1 = About(m, "login") /\ q1.step = "login" /\ q1.member = m
    BY <2>1, AboutIsRequest
  <2> PICK q2 \in Request : q2 = About(m, "autoVerify") /\ q2.step = "autoVerify" /\ q2.member = m
    BY <2>1, AboutIsRequest
  <2>2. /\ [q1 EXCEPT !.password = p] \in Request /\ [q1 EXCEPT !.password = p].step = "login"
        /\ [q1 EXCEPT !.password = p].member = m /\ [q1 EXCEPT !.password = p].password = p
    BY DEF Request
  <2> PICK s : s = [q2 EXCEPT !.password = p, !.email = e]
    OBVIOUS
  <2>3. s \in Request /\ s.step = "autoVerify" /\ s.member = m /\ s.password = p
    BY DEF Request
  <2>4. CASE account[m].verified /\ Serve(c, [About(m, "login") EXCEPT !.password = account[m].password])
    BY <2>2, <2>4
  <2>5. CASE ~featureEmail /\ Serve(c, s)
    BY <2>3, <2>5
  <2> QED
    BY <1>1, <2>4, <2>5
<1>4. Relies(r) /\ r.step \notin LinkSteps
  BY <1>1, <1>2, <1>3 DEF Relies, LinkSteps, LoginSteps, Sure
<1> QED
  BY <1>1, <1>3, <1>4, ServeKeeps

LEMMA StepChanges ==
  ASSUME NEW r \in Request, NEW step \in Steps
  PROVE  /\ [r EXCEPT !.step = step] \in Request
         /\ [r EXCEPT !.step = step].step = step
         /\ [r EXCEPT !.step = step].member = r.member
         /\ [r EXCEPT !.step = step].password = r.password
         /\ [r EXCEPT !.step = step].late = r.late
         /\ [r EXCEPT !.step = step].link = r.link
         /\ [r EXCEPT !.step = step].login = r.login
  BY DEF Request

(* An account as it was, but for what says nothing about its owner.         *)
LEMMA AccountKept ==
  ASSUME AInv, NEW m \in Members, Exists(m), NEW a \in Account, a.email = account[m].email
  PROVE  \A n \in Members \ {m} : Exists(n) /\ account[n].email = a.email => a.email \notin Emails
  BY DEF AInv, OneAddressEach

(* Whoever holds the address is verified and signed in: with the password   *)
(* that was checked, or with another's as it is now.                        *)
LEMMA AutoVerifyKeeps ==
  ASSUME AInv, NEW c \in Callers, AutoVerify(c)
  PROVE  AInv'
<1> PICK q \in Request : q = request[c]
  BY RequestFields
<1>1. /\ q.step = "autoVerify" /\ UNCHANGED <<featureEmail, link, login, uses, flushed>>
      /\ \E n \in Members :
           /\ Exists(n)
           /\ \/ account' = [account EXCEPT ![n] = [account[n] EXCEPT !.verified = TRUE]]
              \/ UNCHANGED account
           /\ request' = [request EXCEPT ![c] =
                IF n = q.member THEN [q EXCEPT !.step = "login", !.email = Anonymous]
                ELSE [About(n, "login") EXCEPT !.password = account[n].password]]
  BY DEF AutoVerify, At, Live, Store, HeldBy
<1> PICK m \in Members :
      /\ Exists(m)
      /\ \/ account' = [account EXCEPT ![m] = [account[m] EXCEPT !.verified = TRUE]]
         \/ UNCHANGED account
      /\ request' = [request EXCEPT ![c] =
           IF m = q.member THEN [q EXCEPT !.step = "login", !.email = Anonymous]
           ELSE [About(m, "login") EXCEPT !.password = account[m].password]]
  BY <1>1
<1>2. ~featureEmail /\ (q.password < flushed[q.member] => q.late)
  BY <1>1 DEF AInv, Relies, LoginSteps
<1> PICK p \in Nat : p = account[m].password /\ flushed[m] <= p /\ flushed[m] \in Nat
  BY AccountFields DEF AInv, MemberInv, AccountsTypes
<1>3. PICK r \in Request :
        /\ request' = [request EXCEPT ![c] = r] /\ r.step = "login" /\ r.member = m
        /\ r.password < flushed[m] => r.late
  <2>1. "login" \in Steps
    BY DEF Steps
  <2>2. CASE m = q.member
    <3> PICK r : r = [q EXCEPT !.step = "login", !.email = Anonymous]
      OBVIOUS
    <3>1. /\ r \in Request /\ r.step = "login" /\ r.member = q.member
          /\ r.password = q.password /\ r.late = q.late
      BY <2>1 DEF Request
    <3>2. request' = [request EXCEPT ![c] = r]
      BY <2>2
    <3> QED
      BY <1>2, <2>2, <3>1, <3>2
  <2>3. CASE m # q.member
    <3> PICK b \in Request : b = About(m, "login") /\ b.step = "login" /\ b.member = m
      BY <2>1, AboutIsRequest
    <3> PICK r : r = [b EXCEPT !.password = p]
      OBVIOUS
    <3>1. r \in Request /\ r.step = "login" /\ r.member = m /\ r.password = p
      BY DEF Request
    <3>2. request' = [request EXCEPT ![c] = r]
      BY <2>3
    <3>3. ~(p < flushed[m])
      OBVIOUS
    <3> QED
      BY <3>1, <3>2, <3>3
  <2> QED
    BY <2>2, <2>3
<1>4. r.step \notin LinkSteps
  BY <1>3 DEF LinkSteps
<1>5. CASE UNCHANGED account
  <2>1. Relies(r)
    BY <1>1, <1>2, <1>3 DEF Relies, LinkSteps, LoginSteps
  <2> QED
    BY <1>1, <1>3, <1>4, <1>5, <2>1, RequestMoves
<1>6. CASE account' = [account EXCEPT ![m] = [account[m] EXCEPT !.verified = TRUE]]
  <2>1. PICK a \in Account :
          /\ account' = [account EXCEPT ![m] = a]
          /\ a.email = account[m].email /\ a.password = account[m].password /\ a.verified = TRUE
    <3> PICK b \in Account : b = account[m]
      BY <1>1, <1>2, AccountFields
    <3>1. /\ [b EXCEPT !.verified = TRUE] \in Account
          /\ [b EXCEPT !.verified = TRUE].email = b.email
          /\ [b EXCEPT !.verified = TRUE].password = b.password
          /\ [b EXCEPT !.verified = TRUE].verified = TRUE
      BY DEF Account
    <3> QED
      BY <1>6, <3>1
  <2>2. account[m].password <= a.password /\ a.verified
    BY <2>1, AccountFields
  <2>3. \A n \in Members \ {m} : Exists(n) /\ account[n].email = a.email => a.email \notin Emails
    BY <2>1, AccountKept
  <2>4. account'[m] = a => Relies(r)'
    BY <1>1, <1>2, <1>3, <2>1, AccountsAssumption
    DEF Relies, LinkSteps, LoginSteps, Exists
  <2> QED
    <3>1. account' = [account EXCEPT ![m] = a] /\ a \in Account
      BY <2>1
    <3>2. request' = [request EXCEPT ![c] = r] /\ uses' = uses
      BY <1>1, <1>3
    <3>3. UNCHANGED <<featureEmail, link, login, flushed>>
      BY <1>1
    <3> HIDE DEF Relies, Exists
    <3> QED
      BY <1>4, <2>2, <2>3, <2>4, <3>1, <3>2, <3>3, AccountMoves
<1> QED
  BY <1>1, <1>5, <1>6

(* A session is opened by a request whose reading still admits it. *)
LEMMA OpenLoginKeeps ==
  ASSUME AInv, NEW c \in Callers, NEW t \in Logins, request[c].step \in LoginSteps,
         NEW s \in Login, s.member = request[c].member, s.password = request[c].password,
         s.late = request[c].late, login' = [login EXCEPT ![t] = s], Done(c),
         UNCHANGED <<featureEmail, account, link, uses, flushed>>
  PROVE  AInv'
<1>1. Admits(s)
  BY DEF AInv, Relies, Admits, LoginSteps
<1>2. /\ login' \in [Logins -> Login \cup {None}]
      /\ \A u \in Logins : login'[u] # None => Admits(login'[u])
  BY <1>1 DEF AInv, AccountsTypes
<1>3. /\ request'[c] = Idle /\ \A d \in Callers \ {c} : request'[d] = request[d]
      /\ request' \in [Callers -> Request]
  BY AboutIsRequest DEF Done, AInv, AccountsTypes
<1>4. {c} \in SUBSET Callers
  OBVIOUS
<1> QED
  BY <1>2, <1>3, <1>4, LoginMoves

LEMMA CreateSessionKeeps ==
  ASSUME AInv, NEW c \in Callers, NEW t \in Logins, CreateSession(c, t)
  PROVE  AInv'
<1> DEFINE s == [member |-> request[c].member, password |-> request[c].password,
                 late |-> request[c].late]
<1>1. /\ request[c].step = "login" /\ login' = [login EXCEPT ![t] = s] /\ Done(c)
      /\ UNCHANGED <<featureEmail, account, link, uses, flushed>>
  BY DEF CreateSession, OpenLogin, At
<1>2. request[c].member \in Members
  BY <1>1 DEF AInv, Relies
<1>3. s \in Login
  BY <1>2, RequestFields DEF Login
<1> QED
  BY <1>1, <1>3, OpenLoginKeeps DEF LoginSteps

LEMMA LogoutKeeps ==
  ASSUME AInv, NEW t \in Logins, handleLogout(t)
  PROVE  AInv'
<1>1. /\ login' = [login EXCEPT ![t] = None]
      /\ UNCHANGED <<featureEmail, account, link, request, uses, flushed>>
  BY DEF handleLogout
<1>2. /\ login' \in [Logins -> Login \cup {None}]
      /\ \A u \in Logins : login'[u] # None => Admits(login'[u])
  BY <1>1 DEF AInv, AccountsTypes
<1>3. request' \in [Callers -> Request]
  BY <1>1 DEF AInv, AccountsTypes
<1>4. {} \in SUBSET Callers
  OBVIOUS
<1> QED
  BY <1>1, <1>2, <1>3, <1>4, LoginMoves

-----------------------------------------------------------------------------
(* The links.                                                              *)

LEMMA MailKeeps ==
  ASSUME AInv, NEW c \in Callers, NEW m \in Members,
         handleForgotPassword(c, m) \/ handleVerifyEmailResend(c, m)
  PROVE  AInv'
<1>1. PICK step \in {"mailReset", "mailVerify"} :
        /\ Exists(m) /\ Serve(c, About(m, step))
        /\ UNCHANGED <<featureEmail, account, link, login, uses, flushed>>
  BY DEF handleForgotPassword, handleVerifyEmailResend, Live
<1>2. step \in Steps /\ step \notin LinkSteps \cup LoginSteps \cup {"consume"} /\ step # "flush"
  BY DEF Steps, LinkSteps, LoginSteps
<1>3. About(m, step) \in Request
  BY <1>2, AboutIsRequest
<1> QED
  BY <1>1, <1>2, <1>3, AboutRelies, ServeKeeps

(* A request that writes a link: what was used up stays so. *)
LEMMA LinkMoves ==
  ASSUME AInv, NEW S \in SUBSET Callers, \A d \in Callers \ S : request'[d] = request[d],
         request' \in [Callers -> Request], OneConsumesEach',
         NEW l \in Links, NEW k \in Link, link' = [link EXCEPT ![l] = k],
         Exists(k.member), UsedUp(l) => k.state \in {"used", "deleted"},
         UNCHANGED <<featureEmail, account, login, uses, flushed>>,
         link'[l] = k => \A c \in S : Relies(request[c])'
  PROVE  AInv'
<1>1. /\ link' \in [Links -> Link \cup {None}] /\ link'[l] = k /\ k # None
      /\ \A n \in Links \ {l} : link'[n] = link[n]
  BY AccountsAssumption DEF AInv, AccountsTypes
<1>2. AccountsTypes' /\ OneAddressEach'
  BY <1>1 DEF AInv, AccountsTypes, OneAddressEach, Exists
<1>3. \A m \in Members : MemberInv(m)'
  BY DEF AInv, MemberInv, Exists
<1>4. ASSUME NEW n \in Links
      PROVE  LinkInv(n)'
  <2>1. LinkInv(n)
    BY DEF AInv
  <2>2. CASE n = l
    BY <1>1, <2>1, <2>2 DEF LinkInv, UsedUp, Exists
  <2>3. CASE n # l
    BY <1>1, <2>1, <2>3 DEF LinkInv, UsedUp, Exists
  <2> QED
    BY <2>2, <2>3
<1>5. \A t \in Logins : login'[t] # None => Admits(login[t])'
  BY DEF AInv, Admits, Exists, Sure
<1>6. AFrame(S)
  BY <1>1 DEF AFrame, Exists, Sure, UsedUp
<1> QED
  BY <1>1, <1>2, <1>3, <1>4, <1>5, <1>6, AStepKeeps

LEMMA IssueTokenKeeps ==
  ASSUME AInv, NEW c \in Callers, NEW l \in Links, IssueMemberToken(c, l)
  PROVE  AInv'
<1>1. PICK k \in Link :
        /\ k.member = request[c].member /\ Exists(k.member)
        /\ link' = [link EXCEPT ![l] = k]
  <2> DEFINE purpose == IF At(c, "mailReset") THEN "reset" ELSE "verify"
             k == [member |-> request[c].member, state |-> "fresh", purpose |-> purpose]
  <2>1. request[c].member \in Members /\ Exists(request[c].member)
    BY DEF IssueMemberToken, AInv, Relies
  <2>2. k \in Link /\ k.member = request[c].member
    BY <2>1 DEF Link
  <2>3. link' = [link EXCEPT ![l] = k]
    BY DEF IssueMemberToken
  <2> QED
    BY <2>1, <2>2, <2>3
<1>2. /\ link[l] = None /\ request' = [request EXCEPT ![c] = Idle]
      /\ UNCHANGED <<featureEmail, account, login, uses, flushed>>
  BY DEF IssueMemberToken, Done
<1>3. /\ request' \in [Callers -> Request] /\ request'[c] = Idle
      /\ \A d \in Callers \ {c} : request'[d] = request[d]
      /\ OneConsumesEach'
  BY <1>2, AboutIsRequest, RequestGoes DEF LinkSteps
<1>4. Relies(request[c])'
  BY <1>3, AboutIsRequest DEF Relies, LinkSteps, LoginSteps
<1>5. ~UsedUp(l) /\ {c} \in SUBSET Callers
  BY <1>2 DEF UsedUp
<1> QED
  BY <1>1, <1>2, <1>3, <1>4, <1>5, LinkMoves

LEMMA LinkStates ==
  ASSUME AInv, NEW l \in Links, link[l] # None, NEW state \in {"used", "expired", "deleted"}
  PROVE  \E k \in Link : /\ k = [link[l] EXCEPT !.state = state]
                         /\ k.member = link[l].member /\ k.state = state
<1> PICK k \in Link : k = link[l]
  BY LinkFields
<1>1. /\ [k EXCEPT !.state = state] \in Link
      /\ [k EXCEPT !.state = state].member = k.member
      /\ [k EXCEPT !.state = state].state = state
  BY DEF Link
<1> QED
  BY <1>1

LEMMA LinkExpiresKeeps ==
  ASSUME AInv, NEW l \in Links, LinkExpires(l)
  PROVE  AInv'
<1>1. /\ link[l] # None /\ link[l].state = "fresh"
      /\ link' = [link EXCEPT ![l] = [link[l] EXCEPT !.state = "expired"]]
      /\ UNCHANGED <<featureEmail, account, login, request, uses, flushed>>
  BY DEF LinkExpires
<1>2. PICK k \in Link : /\ k = [link[l] EXCEPT !.state = "expired"]
                        /\ k.member = link[l].member
  BY <1>1, LinkStates
<1>3. Exists(k.member) /\ ~UsedUp(l)
  BY <1>1, <1>2 DEF AInv, LinkInv, UsedUp
<1>4. request' \in [Callers -> Request] /\ OneConsumesEach'
  BY <1>1 DEF AInv, AccountsTypes, OneConsumesEach
<1>5. {} \in SUBSET Callers
  OBVIOUS
<1> QED
  BY <1>1, <1>2, <1>3, <1>4, <1>5, LinkMoves

LEMMA LockTokenKeeps ==
  ASSUME AInv, NEW c \in Callers, NEW l \in Links, LockToken(c, l)
  PROVE  AInv'
<1> PICK m : m = link[l].member
  OBVIOUS
<1>1. /\ link[l] # None /\ Serve(c, [About(m, "consume") EXCEPT !.link = l])
      /\ UNCHANGED <<featureEmail, account, link, login, uses, flushed>>
  BY DEF LockToken
<1>2. m \in Members /\ Exists(m)
  BY <1>1, LinkFields DEF AInv, LinkInv
<1>3. PICK r \in Request : /\ r = [About(m, "consume") EXCEPT !.link = l]
                           /\ r.step = "consume" /\ r.member = m /\ r.link = l
  <2>1. "consume" \in Steps
    BY DEF Steps
  <2> PICK q \in Request : q = About(m, "consume") /\ q.step = "consume" /\ q.member = m
    BY <1>2, <2>1, AboutIsRequest
  <2>2. [q EXCEPT !.link = l] \in Request
    BY DEF Request
  <2>3. /\ [q EXCEPT !.link = l].step = "consume"
        /\ [q EXCEPT !.link = l].member = m /\ [q EXCEPT !.link = l].link = l
    BY DEF Request
  <2> QED
    BY <2>2, <2>3
<1>4. Relies(r) /\ r.step \notin LinkSteps
  BY <1>1, <1>2, <1>3 DEF Relies, LinkSteps, LoginSteps
<1> QED
  BY <1>1, <1>3, <1>4, ServeKeeps

(* Whoever marks a link as used is the first to. *)
LEMMA ConsumeKeeps ==
  ASSUME AInv, NEW c \in Callers, ConsumeMemberToken(c)
  PROVE  AInv'
<1> PICK q \in Request : q = request[c]
  BY RequestFields
<1> PICK l : l = q.link
  OBVIOUS
<1>1. q.step = "consume"
  BY DEF ConsumeMemberToken, At
<1>2. /\ l \in Links /\ link[l] # None
      /\ q.member \in Members /\ Exists(q.member)
  BY <1>1 DEF AInv, Relies
<1>3. /\ link[l].state \notin {"used", "deleted"}
      /\ link' = [link EXCEPT ![l] = [link[l] EXCEPT !.state = "used"]]
      /\ UNCHANGED <<featureEmail, account, login, uses, flushed>>
  BY DEF ConsumeMemberToken
<1>4. PICK k \in Link : /\ k = [link[l] EXCEPT !.state = "used"]
                        /\ k.member = link[l].member /\ k.state = "used"
  BY <1>2, LinkStates
<1>5. PICK r \in Request :
        /\ request' = [request EXCEPT ![c] = r]
        /\ r.step \in LinkSteps /\ r.member = q.member /\ r.link = l
  <2>1. PICK step : /\ step = IF link[l].purpose = "reset" THEN "setPassword" ELSE "setVerified"
                    /\ request' = [request EXCEPT ![c] = [q EXCEPT !.step = step]]
    BY DEF ConsumeMemberToken, Goto
  <2>2. step \in Steps /\ step \in LinkSteps
    BY <2>1 DEF Steps, LinkSteps
  <2>3. /\ [q EXCEPT !.step = step] \in Request
        /\ [q EXCEPT !.step = step].step = step
        /\ [q EXCEPT !.step = step].member = q.member
        /\ [q EXCEPT !.step = step].link = q.link
    BY <2>2, StepChanges
  <2> QED
    BY <2>1, <2>2, <2>3
<1>6. /\ request' \in [Callers -> Request] /\ request'[c] = r
      /\ \A d \in Callers \ {c} : request'[d] = request[d]
  BY <1>5 DEF AInv, AccountsTypes
<1>7. uses[l] = 0 /\ ~UsedUp(l) /\ Exists(k.member)
  <2>1. uses[l] \in Nat
    BY <1>2 DEF AInv, AccountsTypes
  <2>2. LinkInv(l)
    BY <1>2 DEF AInv
  <2> QED
    BY <1>2, <1>3, <1>4, <2>1, <2>2 DEF LinkInv, UsedUp
<1>8. OneConsumesEach'
  <2>1. \A d \in Callers \ {c} : request[d].step \in LinkSteps => request[d].link # l
    BY <1>7 DEF AInv, Relies
  <2> QED
    BY <1>5, <1>6, <2>1 DEF AInv, OneConsumesEach
<1>9. link'[l] = k => Relies(request[c])'
  <2>1. k # None
    BY AccountsAssumption
  <2>2. link'[l] = k => link'[r.link] # None /\ UsedUp(r.link)' /\ uses'[r.link] = 0
    BY <1>3, <1>4, <1>5, <1>7, <2>1 DEF UsedUp
  <2>3. Exists(r.member)'
    BY <1>2, <1>3, <1>5 DEF Exists
  <2>4. link'[l] = k => Relies(r)'
    BY <1>2, <1>5, <2>2, <2>3 DEF Relies, LinkSteps, LoginSteps
  <2> QED
    BY <1>6, <2>4
<1>10. link' = [link EXCEPT ![l] = k] /\ link'[l] = k
  BY <1>2, <1>3, <1>4 DEF AInv, AccountsTypes
<1>11. link'[l] = k => \A d \in {c} : Relies(request[d])'
  BY <1>9
<1>12. /\ l \in Links /\ {c} \in SUBSET Callers
       /\ UNCHANGED <<featureEmail, account, login, uses, flushed>>
       /\ UsedUp(l) => k.state \in {"used", "deleted"}
  BY <1>2, <1>3, <1>7
<1> QED
  BY <1>6, <1>7, <1>8, <1>10, <1>11, <1>12, LinkMoves

-----------------------------------------------------------------------------
(* What follows the use of a link, the profile page and the administrator's *)
(* actions.                                                                 *)

(* What a link is for is written into an account that keeps its address.    *)
LEMMA AccountWrites ==
  ASSUME NEW b \in Account
  PROVE  /\ \E a \in Account :
              /\ a = [b EXCEPT !.verified = TRUE]
              /\ a.email = b.email /\ a.password = b.password /\ a.verified
         /\ \A v \in BOOLEAN : \E a \in Account :
              /\ a = [b EXCEPT !.password = b.password + 1, !.known = v]
              /\ a.email = b.email /\ a.password = b.password + 1
              /\ a.verified = b.verified /\ a.deleted = b.deleted
<1>1. \E a \in Account : /\ a = [b EXCEPT !.verified = TRUE]
                         /\ a.email = b.email /\ a.password = b.password /\ a.verified
  <2>1. [b EXCEPT !.verified = TRUE] \in Account
    BY DEF Account
  <2> QED
    BY <2>1 DEF Account
<1>2. ASSUME NEW v \in BOOLEAN
      PROVE  \E a \in Account : /\ a = [b EXCEPT !.password = b.password + 1, !.known = v]
                                /\ a.email = b.email /\ a.password = b.password + 1
                                /\ a.verified = b.verified /\ a.deleted = b.deleted
  <2> PICK p \in Nat : p = b.password + 1
    BY DEF Account
  <2>1. [b EXCEPT !.password = p, !.known = v] \in Account
    BY DEF Account
  <2>2. [b EXCEPT !.password = b.password + 1, !.known = v] = [b EXCEPT !.password = p, !.known = v]
    OBVIOUS
  <2> QED
    BY <2>1, <2>2 DEF Account
<1> QED
  BY <1>1, <1>2

(* A request that writes an account, gives it neither somebody else's       *)
(* address nor an earlier password, and is then over or goes on with a step *)
(* that relies on no link.                                                  *)
LEMMA StoreKeeps ==
  ASSUME AInv, NEW c \in Callers, NEW m \in Members, Exists(m),
         NEW a \in Account, account' = [account EXCEPT ![m] = a],
         account[m].password <= a.password, Sure(m) => a.verified \/ a.deleted,
         \A n \in Members \ {m} : Exists(n) /\ account[n].email = a.email => a.email \notin Emails,
         \/ uses' = uses
         \/ /\ request[c].step \in LinkSteps
            /\ uses' = [uses EXCEPT ![request[c].link] = uses[request[c].link] + 1],
         UNCHANGED <<featureEmail, link, login, flushed>>,
         NEW r \in Request, request' = [request EXCEPT ![c] = r],
         r.step \in {"none", "flush", "rotate", "signOut"}, r.step # "none" => r.member = m,
         r.step = "flush" => r.password <= a.password,
         r.step = "rotate" => /\ featureEmail => Sure(m)
                              /\ r.password < flushed[m] => r.late
  PROVE  AInv'
<1>1. r.step \notin LinkSteps
  BY DEF LinkSteps
<1>2. account'[m] = a => Relies(r)'
  <2>1. account'[m] = a => Exists(m)' /\ (Sure(m) => Sure(m)')
    BY AccountsAssumption DEF Exists, Sure
  <2> QED
    BY <2>1 DEF Relies, LinkSteps, LoginSteps
<1>3. Exists(m) => account[m].password <= a.password /\ (Sure(m) => a.verified \/ a.deleted)
  OBVIOUS
<1> QED
  BY <1>1, <1>2, <1>3, AccountMoves

LEMMA VerifyEmailKeeps ==
  ASSUME AInv, NEW c \in Callers, handleVerifyEmail(c)
  PROVE  AInv'
<1> PICK m : m = request[c].member
  OBVIOUS
<1>1. /\ request[c].step = "setVerified"
      /\ account' = [account EXCEPT ![m] = [account[m] EXCEPT !.verified = TRUE]]
      /\ uses' = [uses EXCEPT ![request[c].link] = uses[request[c].link] + 1]
      /\ request' = [request EXCEPT ![c] = Idle]
      /\ UNCHANGED <<featureEmail, link, login, flushed>>
  BY DEF handleVerifyEmail, At, Store, Used, Done
<1>2. m \in Members /\ Exists(m)
  BY <1>1 DEF AInv, Relies
<1>3. account[m] \in Account /\ account[m].password \in Nat
  BY <1>2, AccountFields
<1>4. PICK a \in Account :
        /\ account' = [account EXCEPT ![m] = a]
        /\ a.email = account[m].email /\ a.password = account[m].password /\ a.verified
  BY <1>1, <1>3, AccountWrites
<1>5. account[m].password <= a.password
  BY <1>3, <1>4
<1>6. \A n \in Members \ {m} : Exists(n) /\ account[n].email = a.email => a.email \notin Emails
  BY <1>2, <1>4, AccountKept
<1> QED
  BY <1>1, <1>2, <1>4, <1>5, <1>6, AboutIsRequest, StoreKeeps DEF LinkSteps

(* The next password, of a member whose account is there. *)
LEMMA PasswordIsNext ==
  ASSUME AInv, NEW m \in Members, Exists(m), NEW known \in BOOLEAN, NewPassword(m, known)
  PROVE  \E a \in Account :
           /\ account' = [account EXCEPT ![m] = a]
           /\ a.password = account[m].password + 1 /\ account[m].password <= a.password
           /\ Sure(m) => a.verified \/ a.deleted
           /\ \A n \in Members \ {m} : Exists(n) /\ account[n].email = a.email => a.email \notin Emails
<1>1. account[m] \in Account /\ account[m].password \in Nat
  BY AccountFields
<1>2. account' = [account EXCEPT ![m] =
        [account[m] EXCEPT !.password = account[m].password + 1, !.known = known]]
  BY DEF NewPassword, Store
<1>3. PICK a \in Account :
        /\ a = [account[m] EXCEPT !.password = account[m].password + 1, !.known = known]
        /\ a.email = account[m].email /\ a.password = account[m].password + 1
        /\ a.verified = account[m].verified /\ a.deleted = account[m].deleted
  BY <1>1, AccountWrites
<1>4. \A n \in Members \ {m} : Exists(n) /\ account[n].email = a.email => a.email \notin Emails
  BY <1>3, AccountKept
<1>5. Sure(m) => a.verified \/ a.deleted
  BY <1>3 DEF Sure
<1>6. account[m].password <= a.password
  BY <1>1, <1>3
<1> QED
  BY <1>2, <1>3, <1>4, <1>5, <1>6

LEMMA ResetKeeps ==
  ASSUME AInv, NEW c \in Callers, handleResetPassword(c)
  PROVE  AInv'
<1> PICK m : m = request[c].member
  OBVIOUS
<1> PICK p : p = account[m].password + 1
  OBVIOUS
<1>1. /\ request[c].step = "setPassword" /\ NewPassword(m, TRUE)
      /\ uses' = [uses EXCEPT ![request[c].link] = uses[request[c].link] + 1]
      /\ request' = [request EXCEPT ![c] = [request[c] EXCEPT !.step = "flush", !.password = p]]
      /\ UNCHANGED <<featureEmail, link, login, flushed>>
  BY RequestFields DEF handleResetPassword, At, Used, AInv, AccountsTypes, Request
<1>2. m \in Members /\ Exists(m)
  BY <1>1 DEF AInv, Relies
<1>3. PICK a \in Account :
        /\ account' = [account EXCEPT ![m] = a]
        /\ a.password = account[m].password + 1 /\ account[m].password <= a.password
        /\ Sure(m) => a.verified \/ a.deleted
        /\ \A n \in Members \ {m} : Exists(n) /\ account[n].email = a.email => a.email \notin Emails
  BY <1>1, <1>2, PasswordIsNext
<1>4. p \in Nat
  BY <1>2, AccountFields
<1>5. PICK r \in Request :
        /\ request' = [request EXCEPT ![c] = r]
        /\ r.step = "flush" /\ r.password = p /\ r.member = m
  <2> PICK b \in Request : b = request[c]
    BY RequestFields
  <2>1. "flush" \in Steps
    BY DEF Steps
  <2>2. /\ [b EXCEPT !.step = "flush", !.password = p] \in Request
        /\ [b EXCEPT !.step = "flush", !.password = p].step = "flush"
        /\ [b EXCEPT !.step = "flush", !.password = p].password = p
        /\ [b EXCEPT !.step = "flush", !.password = p].member = b.member
    BY <1>4, <2>1 DEF Request
  <2> QED
    BY <1>1, <2>2
<1>6. r.password <= a.password
  BY <1>3, <1>4, <1>5
<1> QED
  BY <1>1, <1>2, <1>3, <1>5, <1>6, StoreKeeps DEF LinkSteps

(* After a reset nobody of the member's sessions is left, and requests that *)
(* were begun before are late.                                              *)
LEMMA RevokeKeeps ==
  ASSUME AInv, NEW c \in Callers, RevokeAfterReset(c)
  PROVE  AInv'
<1> PICK m, p : m = request[c].member /\ p = request[c].password
  OBVIOUS
<1>1. /\ request[c].step = "flush"
      /\ login' = [t \in Logins |-> IF t \in LoginsOf(m) THEN None ELSE login[t]]
      /\ flushed' = [flushed EXCEPT ![m] = IF p > flushed[m] THEN p ELSE flushed[m]]
      /\ request' = [d \in Callers |->
           IF d = c THEN Idle
           ELSE [request[d] EXCEPT !.late = request[d].late \/ request[d].member = m]]
      /\ UNCHANGED <<featureEmail, account, link, uses>>
  BY DEF RevokeAfterReset, At, SignOut
<1>2. /\ m \in Members /\ Exists(m) /\ p \in Nat /\ p <= account[m].password
      /\ account[m].password \in Nat
  BY <1>1, AccountFields, RequestFields DEF AInv, Relies
<1>3. /\ flushed' \in [Members -> Nat] /\ flushed'[m] <= account[m].password
      /\ \A n \in Members \ {m} : flushed'[n] = flushed[n]
  <2>1. flushed[m] \in Nat /\ flushed[m] <= account[m].password
    BY <1>2 DEF AInv, AccountsTypes, MemberInv
  <2> PICK f : f = IF p > flushed[m] THEN p ELSE flushed[m]
    OBVIOUS
  <2>2. f \in Nat /\ f <= account[m].password
    BY <1>2, <2>1
  <2>3. flushed' = [flushed EXCEPT ![m] = f]
    BY <1>1
  <2> QED
    BY <1>2, <2>2, <2>3 DEF AInv, AccountsTypes
<1>4. ASSUME NEW t \in Logins, login'[t] # None
      PROVE  login'[t] = login[t] /\ login[t] # None /\ login[t].member # m
  BY <1>1, <1>4 DEF LoginsOf
<1>5. login' \in [Logins -> Login \cup {None}]
  BY <1>1 DEF AInv, AccountsTypes
<1>6. ASSUME NEW d \in Callers
      PROVE  \E q \in Request :
               /\ request'[d] = q
               /\ q.step = request[d].step \/ q.step = "none"
               /\ q.member = request[d].member \/ q.step = "none"
               /\ q.link = request[d].link \/ q.step = "none"
               /\ q.password = request[d].password \/ q.step = "none"
               /\ request[d].late \/ request[d].member = m => q.late \/ q.step = "none"
  <2>1. CASE d = c
    BY <1>1, <2>1, AboutIsRequest
  <2>2. CASE d # c
    <3> PICK late : late = (request[d].late \/ request[d].member = m)
      OBVIOUS
    <3>1. late \in BOOLEAN /\ request'[d] = [request[d] EXCEPT !.late = late]
      BY <1>1, <2>2
    <3> PICK b \in Request : b = request[d]
      BY RequestFields
    <3>2. /\ [b EXCEPT !.late = late] \in Request
          /\ [b EXCEPT !.late = late].step = b.step /\ [b EXCEPT !.late = late].member = b.member
          /\ [b EXCEPT !.late = late].link = b.link
          /\ [b EXCEPT !.late = late].password = b.password
          /\ [b EXCEPT !.late = late].late = late
      BY <3>1 DEF Request
    <3> QED
      BY <3>1, <3>2
  <2> QED
    BY <2>1, <2>2
<1>7. AccountsTypes'
  <2>1. request' \in [Callers -> Request]
    <3>1. \A d \in Callers : request'[d] \in Request
      BY <1>6
    <3>2. request' = [d \in Callers |-> request'[d]]
      BY <1>1
    <3> QED
      BY <3>1, <3>2
  <2> QED
    BY <1>1, <1>3, <1>5, <2>1 DEF AInv, AccountsTypes
<1>8. OneAddressEach'
  BY <1>1 DEF AInv, OneAddressEach, Exists
<1>9. OneConsumesEach'
  <2>1. \A d \in Callers : request'[d].step \in LinkSteps =>
          request'[d].step = request[d].step /\ request'[d].link = request[d].link
    BY <1>6 DEF LinkSteps
  <2> QED
    BY <2>1 DEF AInv, OneConsumesEach
<1>10. \A n \in Members : MemberInv(n)'
  BY <1>1, <1>2, <1>3 DEF AInv, MemberInv, Exists
<1>11. \A l \in Links : LinkInv(l)'
  BY <1>1 DEF AInv, LinkInv, Exists, UsedUp
<1>12. ASSUME NEW t \in Logins, login'[t] # None
       PROVE  Admits(login[t])'
  <2>1. Admits(login[t]) /\ login[t].member \in Members
    BY <1>4, <1>12, LoginFields
  <2>2. flushed'[login[t].member] = flushed[login[t].member]
    BY <1>3, <1>4, <1>12, <2>1
  <2> QED
    BY <1>1, <1>4, <1>12, <2>1, <2>2 DEF Admits, Exists, Sure
<1>13. ASSUME NEW d \in Callers
       PROVE  Relies(request[d])'
  <2> PICK q \in Request :
               /\ request'[d] = q
               /\ q.step = request[d].step \/ q.step = "none"
               /\ q.member = request[d].member \/ q.step = "none"
               /\ q.link = request[d].link \/ q.step = "none"
               /\ q.password = request[d].password \/ q.step = "none"
               /\ request[d].late \/ request[d].member = m => q.late \/ q.step = "none"
    BY <1>6
  <2>1. Relies(request[d])
    BY DEF AInv
  <2>2. CASE q.step = "none"
    <3>1. Relies(q)'
      BY <2>2 DEF Relies, LinkSteps, LoginSteps
    <3> QED
      BY <3>1
  <2>3. CASE q.step # "none"
    <3>1. q.step \in LoginSteps /\ q.password < flushed'[q.member] => q.late
      BY <1>3, <2>1, <2>3 DEF Relies, LoginSteps
    <3>2. Relies(q)'
      BY <1>1, <2>1, <2>3, <3>1 DEF Relies, LinkSteps, LoginSteps, Exists, Sure, UsedUp
    <3> QED
      BY <3>2
  <2> QED
    BY <2>2, <2>3
<1> QED
  BY <1>7, <1>8, <1>9, <1>10, <1>11, <1>12, <1>13 DEF AInv

(* The profile page, and what is done to it by who is signed in. *)
LEMMA WithUserKeeps ==
  ASSUME AInv, NEW c \in Callers, NEW t \in Logins,
         NEW step \in {"setProfile", "changePassword", "closeAccount"}, withUser(c, t, step),
         UNCHANGED <<featureEmail, account, link, login, uses, flushed>>
  PROVE  AInv'
<1> PICK s : s = login[t]
  OBVIOUS
<1>1. /\ s # None
      /\ Serve(c, [About(s.member, step) EXCEPT !.login = t, !.password = s.password, !.late = s.late])
  BY DEF withUser
<1>2. /\ s.member \in Members /\ s.password \in Nat /\ s.late \in BOOLEAN
      /\ Admits(s)
  BY <1>1, LoginFields
<1>3. step \in Steps
  BY DEF Steps
<1>4. PICK r \in Request :
        /\ Serve(c, r)
        /\ r.step = step /\ r.member = s.member /\ r.password = s.password /\ r.late = s.late
  <2> PICK b \in Request : b = About(s.member, step) /\ b.step = step /\ b.member = s.member
    BY <1>2, <1>3, AboutIsRequest
  <2> PICK r : r = [b EXCEPT !.login = t, !.password = s.password, !.late = s.late]
    OBVIOUS
  <2>1. r \in Request /\ r.step = step /\ r.member = s.member /\ r.password = s.password /\ r.late = s.late
    BY <1>2 DEF Request
  <2> QED
    BY <1>1, <2>1
<1>5. Relies(r) /\ r.step \notin LinkSteps
  BY <1>2, <1>4 DEF Relies, Admits, LinkSteps, LoginSteps
<1> QED
  BY <1>4, <1>5, ServeKeeps

LEMMA ProfileKeeps ==
  ASSUME AInv, NEW c \in Callers, NEW t \in Logins, handleProfile(c, t)
  PROVE  AInv'
  BY WithUserKeeps DEF handleProfile

LEMMA UpdateProfileKeeps ==
  ASSUME AInv, NEW c \in Callers, NEW e \in Emails, UpdateMemberProfile(c, e)
  PROVE  AInv'
<1> PICK m : m = request[c].member
  OBVIOUS
<1>1. /\ request[c].step = "setProfile" /\ HeldBy(e) \subseteq {m}
      /\ account' = [account EXCEPT ![m] = [account[m] EXCEPT !.email = e]]
      /\ request' = [request EXCEPT ![c] = Idle]
      /\ UNCHANGED <<featureEmail, link, login, uses, flushed>>
  BY DEF UpdateMemberProfile, At, Store, Done
<1>2. m \in Members /\ Exists(m)
  BY <1>1 DEF AInv, Relies
<1>3. account[m] \in Account /\ account[m].password \in Nat
  BY <1>2, AccountFields
<1>4. PICK a \in Account :
        /\ account' = [account EXCEPT ![m] = a]
        /\ a.email = e /\ a.password = account[m].password
        /\ a.verified = account[m].verified /\ a.deleted = account[m].deleted
  <2> PICK b \in Account : b = account[m]
    BY <1>3
  <2> PICK a : a = [b EXCEPT !.email = e]
    OBVIOUS
  <2>1. /\ a \in Account /\ a.email = e /\ a.password = b.password
        /\ a.verified = b.verified /\ a.deleted = b.deleted
    BY DEF Account
  <2> QED
    BY <1>1, <2>1
<1>5. account[m].password <= a.password /\ (Sure(m) => a.verified \/ a.deleted)
  BY <1>3, <1>4 DEF Sure
<1>6. \A n \in Members \ {m} : Exists(n) /\ account[n].email = a.email => a.email \notin Emails
  BY <1>1, <1>4 DEF HeldBy
<1>7. /\ Idle \in Request /\ Idle.step = "none" /\ request' = [request EXCEPT ![c] = Idle]
      /\ UNCHANGED <<featureEmail, link, login, flushed>> /\ uses' = uses
      /\ account' = [account EXCEPT ![m] = a]
  BY <1>1, <1>4, AboutIsRequest
<1> QED
  BY <1>2, <1>5, <1>6, <1>7, StoreKeeps

(* The password that was just set is not older than that of a reset. *)
LEMMA UpdatePasswordKeeps ==
  ASSUME AInv, NEW c \in Callers, UpdateMemberPassword(c)
  PROVE  AInv'
<1> PICK m : m = request[c].member
  OBVIOUS
<1> PICK p : p = account[m].password + 1
  OBVIOUS
<1>1. /\ request[c].step = "changePassword" /\ NewPassword(m, TRUE)
      /\ request' = [request EXCEPT ![c] = [request[c] EXCEPT !.step = "rotate", !.password = p]]
      /\ UNCHANGED <<featureEmail, link, login, uses, flushed>>
  BY RequestFields DEF UpdateMemberPassword, At, AInv, AccountsTypes, Request
<1>2. m \in Members /\ Exists(m) /\ (featureEmail => Sure(m))
  BY <1>1 DEF AInv, Relies, LoginSteps
<1>3. PICK a \in Account :
        /\ account' = [account EXCEPT ![m] = a]
        /\ a.password = account[m].password + 1 /\ account[m].password <= a.password
        /\ Sure(m) => a.verified \/ a.deleted
        /\ \A n \in Members \ {m} : Exists(n) /\ account[n].email = a.email => a.email \notin Emails
  BY <1>1, <1>2, PasswordIsNext
<1>4. p \in Nat /\ account[m].password \in Nat
  BY <1>2, AccountFields
<1>5. flushed[m] \in Nat /\ flushed[m] <= account[m].password
  BY <1>2 DEF AInv, AccountsTypes, MemberInv
<1>6. PICK r \in Request :
        /\ request' = [request EXCEPT ![c] = r]
        /\ r.step = "rotate" /\ r.password = p /\ r.member = m
  <2> PICK b \in Request : b = request[c]
    BY RequestFields
  <2>1. "rotate" \in Steps
    BY DEF Steps
  <2>2. /\ [b EXCEPT !.step = "rotate", !.password = p] \in Request
        /\ [b EXCEPT !.step = "rotate", !.password = p].step = "rotate"
        /\ [b EXCEPT !.step = "rotate", !.password = p].password = p
        /\ [b EXCEPT !.step = "rotate", !.password = p].member = b.member
    BY <1>4, <2>1 DEF Request
  <2> QED
    BY <1>1, <2>2
<1>7. ~(r.password < flushed[m])
  BY <1>4, <1>5, <1>6
<1> QED
  BY <1>1, <1>2, <1>3, <1>6, <1>7, StoreKeeps

LEMMA RotateKeeps ==
  ASSUME AInv, NEW c \in Callers, NEW u \in Logins, RotateSession(c, u)
  PROVE  AInv'
<1> DEFINE s == [member |-> request[c].member, password |-> request[c].password,
                 late |-> request[c].late]
<1>1. /\ request[c].step = "rotate" /\ Done(c)
      /\ UNCHANGED <<featureEmail, account, link, uses, flushed>>
      /\ login' = [login EXCEPT ![u] = s]
  BY DEF RotateSession, OpenLogin, At
<1>2. request[c].member \in Members
  BY <1>1 DEF AInv, Relies
<1>3. s \in Login
  BY <1>2, RequestFields DEF Login
<1> QED
  BY <1>1, <1>3, OpenLoginKeeps DEF LoginSteps

(* A request that writes an account and goes on to sign its member out. *)
LEMMA CloseAccountKeeps ==
  ASSUME AInv, NEW c \in Callers, CloseAccount(c)
  PROVE  AInv'
<1> PICK m : m = request[c].member
  OBVIOUS
<1>1. /\ request[c].step = "closeAccount"
      /\ account' = [account EXCEPT ![m] = [account[m] EXCEPT !.enabled = FALSE]]
      /\ request' = [request EXCEPT ![c] = [request[c] EXCEPT !.step = "signOut"]]
      /\ UNCHANGED <<featureEmail, link, login, uses, flushed>>
  BY DEF CloseAccount, At, Store, Goto
<1>2. m \in Members /\ Exists(m)
  BY <1>1 DEF AInv, Relies
<1>3. account[m] \in Account /\ account[m].password \in Nat
  BY <1>2, AccountFields
<1>4. PICK a \in Account :
        /\ account' = [account EXCEPT ![m] = a]
        /\ a.email = account[m].email /\ a.password = account[m].password
        /\ a.verified = account[m].verified /\ a.deleted = account[m].deleted
  <2> PICK b \in Account : b = account[m]
    BY <1>3
  <2> PICK a : a = [b EXCEPT !.enabled = FALSE]
    OBVIOUS
  <2>1. /\ a \in Account /\ a.email = b.email /\ a.password = b.password
        /\ a.verified = b.verified /\ a.deleted = b.deleted
    BY DEF Account
  <2> QED
    BY <1>1, <2>1
<1>5. account[m].password <= a.password /\ (Sure(m) => a.verified \/ a.deleted)
  BY <1>3, <1>4 DEF Sure
<1>6. \A n \in Members \ {m} : Exists(n) /\ account[n].email = a.email => a.email \notin Emails
  BY <1>2, <1>4, AccountKept
<1>7. PICK r \in Request :
        /\ request' = [request EXCEPT ![c] = r] /\ r.step = "signOut" /\ r.member = m
  <2> PICK b \in Request : b = request[c]
    BY RequestFields
  <2>1. "signOut" \in Steps
    BY DEF Steps
  <2>2. /\ [b EXCEPT !.step = "signOut"] \in Request
        /\ [b EXCEPT !.step = "signOut"].step = "signOut"
        /\ [b EXCEPT !.step = "signOut"].member = b.member
    BY <2>1, StepChanges
  <2> QED
    BY <1>1, <2>2
<1>8. UNCHANGED <<featureEmail, link, login, flushed>> /\ uses' = uses
  BY <1>1
<1> QED
  BY <1>2, <1>4, <1>5, <1>6, <1>7, <1>8, StoreKeeps

LEMMA SignOutKeeps ==
  ASSUME AInv, NEW c \in Callers, RevokeAllForMember(c)
  PROVE  AInv'
<1>1. /\ SignOut(request[c].member) /\ request' = [request EXCEPT ![c] = Idle]
      /\ UNCHANGED <<featureEmail, account, link, uses, flushed>>
  BY DEF RevokeAllForMember, Done
<1>2. /\ login' \in [Logins -> Login \cup {None}]
      /\ \A u \in Logins : login'[u] # None => Admits(login'[u])
  BY <1>1 DEF AInv, AccountsTypes, SignOut
<1>3. /\ request'[c] = Idle /\ \A d \in Callers \ {c} : request'[d] = request[d]
      /\ request' \in [Callers -> Request]
  BY <1>1, AboutIsRequest DEF AInv, AccountsTypes
<1>4. {c} \in SUBSET Callers
  OBVIOUS
<1> QED
  BY <1>1, <1>2, <1>3, <1>4, LoginMoves

LEMMA AdminActionKeeps ==
  ASSUME AInv, NEW c \in Callers, NEW m \in Members, handleAdminUserAction(c, m)
  PROVE  AInv'
<1>1. PICK step \in {"disable", "enable", "erase", "force", "signOut", "mailVerify"} :
        /\ Exists(m) /\ Serve(c, About(m, step))
        /\ UNCHANGED <<featureEmail, account, link, login, uses, flushed>>
  BY DEF handleAdminUserAction, Live
<1>2. step \in Steps /\ step \notin LinkSteps \cup LoginSteps \cup {"consume"} /\ step # "flush"
  BY DEF Steps, LinkSteps, LoginSteps
<1>3. About(m, step) \in Request
  BY <1>2, AboutIsRequest
<1> QED
  BY <1>1, <1>2, <1>3, AboutRelies, ServeKeeps

LEMMA EnableKeeps ==
  ASSUME AInv, NEW c \in Callers, SetMemberEnabled(c)
  PROVE  AInv'
<1> PICK m : m = request[c].member
  OBVIOUS
<1>1. PICK v \in BOOLEAN :
        /\ request[c].step \in {"enable", "disable"}
        /\ account' = [account EXCEPT ![m] = [account[m] EXCEPT !.enabled = v]]
        /\ request' = [request EXCEPT ![c] = Idle]
        /\ UNCHANGED <<featureEmail, link, login, uses, flushed>>
  BY DEF SetMemberEnabled, At, Store, Done
<1>2. m \in Members /\ Exists(m)
  BY <1>1 DEF AInv, Relies
<1>3. account[m] \in Account /\ account[m].password \in Nat
  BY <1>2, AccountFields
<1>4. PICK a \in Account :
        /\ account' = [account EXCEPT ![m] = a]
        /\ a.email = account[m].email /\ a.password = account[m].password
        /\ a.verified = account[m].verified /\ a.deleted = account[m].deleted
  <2> PICK b \in Account : b = account[m]
    BY <1>3
  <2> PICK a : a = [b EXCEPT !.enabled = v]
    OBVIOUS
  <2>1. /\ a \in Account /\ a.email = b.email /\ a.password = b.password
        /\ a.verified = b.verified /\ a.deleted = b.deleted
    BY DEF Account
  <2> QED
    BY <1>1, <2>1
<1>5. account[m].password <= a.password /\ (Sure(m) => a.verified \/ a.deleted)
  BY <1>3, <1>4 DEF Sure
<1>6. \A n \in Members \ {m} : Exists(n) /\ account[n].email = a.email => a.email \notin Emails
  BY <1>2, <1>4, AccountKept
<1> QED
  BY <1>1, <1>2, <1>4, <1>5, <1>6, AboutIsRequest, StoreKeeps

LEMMA ForceKeeps ==
  ASSUME AInv, NEW c \in Callers, AdminForcePasswordReset(c)
  PROVE  AInv'
<1> PICK m : m = request[c].member
  OBVIOUS
<1>1. /\ request[c].step = "force" /\ NewPassword(m, FALSE)
      /\ request' = [request EXCEPT ![c] = Idle]
      /\ UNCHANGED <<featureEmail, link, login, uses, flushed>>
  BY DEF AdminForcePasswordReset, At, Done
<1>2. m \in Members /\ Exists(m)
  BY <1>1 DEF AInv, Relies
<1>3. PICK a \in Account :
        /\ account' = [account EXCEPT ![m] = a]
        /\ a.password = account[m].password + 1 /\ account[m].password <= a.password
        /\ Sure(m) => a.verified \/ a.deleted
        /\ \A n \in Members \ {m} : Exists(n) /\ account[n].email = a.email => a.email \notin Emails
  BY <1>1, <1>2, PasswordIsNext
<1> QED
  BY <1>1, <1>2, <1>3, AboutIsRequest, StoreKeeps

(* An erased account stays, with the password it had and an address nobody  *)
(* is held to; its links are used up.                                       *)
LEMMA EraseKeeps ==
  ASSUME AInv, NEW c \in Callers, AdminDeleteMember(c)
  PROVE  AInv'
<1> PICK m : m = request[c].member
  OBVIOUS
<1>1. /\ request[c].step = "erase" /\ SignOut(m)
      /\ account' = [account EXCEPT ![m] =
           [email |-> Anonymous, password |-> account[m].password, known |-> FALSE,
            enabled |-> FALSE, verified |-> FALSE, deleted |-> TRUE]]
      /\ link' = [l \in Links |->
           IF link[l] # None /\ link[l].member = m THEN [link[l] EXCEPT !.state = "deleted"] ELSE link[l]]
      /\ request' = [request EXCEPT ![c] = [request[c] EXCEPT !.step = "signOut"]]
      /\ UNCHANGED <<featureEmail, uses, flushed>>
  BY DEF AdminDeleteMember, At, Store, Goto
<1>2. m \in Members /\ Exists(m)
  BY <1>1 DEF AInv, Relies
<1>3. PICK a \in Account :
        /\ account' = [account EXCEPT ![m] = a]
        /\ a.email = Anonymous /\ a.password = account[m].password /\ a.deleted
  <2> DEFINE a == [email |-> Anonymous, password |-> account[m].password, known |-> FALSE,
                   enabled |-> FALSE, verified |-> FALSE, deleted |-> TRUE]
  <2>1. a \in Account
    BY <1>2, AccountFields DEF Account
  <2> QED
    BY <1>1, <2>1
<1>4. PICK r \in Request :
        /\ request' = [request EXCEPT ![c] = r] /\ r.step = "signOut" /\ r.member = m
  <2> PICK b \in Request : b = request[c]
    BY RequestFields
  <2>1. "signOut" \in Steps
    BY DEF Steps
  <2>2. /\ [b EXCEPT !.step = "signOut"] \in Request
        /\ [b EXCEPT !.step = "signOut"].step = "signOut"
        /\ [b EXCEPT !.step = "signOut"].member = b.member
    BY <2>1, StepChanges
  <2> QED
    BY <1>1, <2>2
<1>5. /\ request' \in [Callers -> Request] /\ request'[c] = r
      /\ \A d \in Callers \ {c} : request'[d] = request[d]
      /\ OneConsumesEach'
  BY <1>4, RequestGoes DEF LinkSteps
<1>6. /\ account' \in [Members -> Account \cup {None}] /\ account'[m] = a /\ a # None
      /\ \A n \in Members \ {m} : account'[n] = account[n]
  BY <1>2, <1>3, AccountsAssumption DEF AInv, AccountsTypes
<1>7. ASSUME NEW l \in Links
      PROVE  /\ link'[l] \in Link \cup {None}
             /\ link[l] = None => link'[l] = None
             /\ link[l] # None => /\ link'[l] # None /\ link'[l].member = link[l].member
                                  /\ UsedUp(l) => UsedUp(l)'
  <2>1. CASE link[l] # None /\ link[l].member = m
    <3> PICK k \in Link : /\ k = [link[l] EXCEPT !.state = "deleted"]
                          /\ k.member = link[l].member /\ k.state = "deleted"
      BY <2>1, LinkStates
    <3>1. link'[l] = k /\ k # None
      BY <1>1, <2>1, AccountsAssumption
    <3> QED
      BY <2>1, <3>1 DEF UsedUp
  <2>2. CASE ~(link[l] # None /\ link[l].member = m)
    <3>1. link'[l] = link[l]
      BY <1>1, <2>2
    <3> QED
      BY <3>1 DEF UsedUp, AInv, AccountsTypes
  <2> QED
    BY <2>1, <2>2
<1>8. ASSUME NEW n \in Members, Exists(n)
      PROVE  /\ Exists(n)' /\ account'[n].password = account[n].password
             /\ Sure(n) => Sure(n)'
  BY <1>3, <1>6, <1>8 DEF Exists, Sure
<1>9. AccountsTypes'
  <2>1. link' \in [Links -> Link \cup {None}]
    BY <1>1, <1>7
  <2>2. login' \in [Logins -> Login \cup {None}]
    BY <1>1 DEF AInv, AccountsTypes, SignOut
  <2> QED
    BY <1>1, <1>5, <1>6, <2>1, <2>2 DEF AInv, AccountsTypes
<1>10. OneAddressEach'
  BY <1>3, <1>6, AccountsAssumption DEF AInv, OneAddressEach, Exists
<1>11. ASSUME NEW n \in Members
       PROVE  MemberInv(n)'
  <2>1. MemberInv(n) /\ flushed'[n] = flushed[n]
    BY <1>1 DEF AInv
  <2>2. Exists(n)' <=> Exists(n)
    BY <1>2, <1>6, <1>8 DEF Exists
  <2> QED
    BY <1>8, <2>1, <2>2 DEF MemberInv
<1>12. ASSUME NEW l \in Links
       PROVE  LinkInv(l)'
  <2>1. LinkInv(l) /\ uses'[l] = uses[l]
    BY <1>1 DEF AInv
  <2>2. ASSUME link[l] # None
        PROVE  Exists(link[l].member)'
    <3> PICK n \in Members : n = link[l].member /\ Exists(n)
      BY <2>1, <2>2, LinkFields DEF LinkInv
    <3>1. link'[l].member = n /\ Exists(n)'
      BY <1>7, <1>8, <2>2
    <3> QED
      BY <3>1
  <2> QED
    BY <1>7, <2>1, <2>2 DEF LinkInv, UsedUp
<1>13. ASSUME NEW t \in Logins, login'[t] # None
       PROVE  Admits(login[t])'
  <2>1. login'[t] = login[t] /\ login[t] # None
    BY <1>1, <1>13 DEF SignOut
  <2> PICK s \in Login : s = login[t] /\ s.member \in Members /\ Admits(s)
    BY <2>1, LoginFields
  <2>2. Admits(s)'
    BY <1>1, <1>8 DEF Admits
  <2> QED
    BY <2>1, <2>2
<1>14. Relies(request[c])'
  <2>1. Exists(m)'
    BY <1>2, <1>8
  <2>2. Relies(r)'
    BY <1>2, <1>4, <2>1 DEF Relies, LinkSteps, LoginSteps
  <2> QED
    BY <1>5, <2>2
<1>15. AFrame({c})
  <2>1. \A n \in Members : Exists(n) =>
          /\ Exists(n)' /\ \A p \in Nat : p <= account[n].password => p <= account'[n].password
          /\ Sure(n) => Sure(n)'
    BY <1>8
  <2>2. \A l \in Links : /\ link[l] # None => link'[l] # None
                         /\ UsedUp(l) => UsedUp(l)'
                         /\ uses'[l] = uses[l]
    BY <1>1, <1>7 DEF UsedUp
  <2> QED
    BY <1>1, <1>5, <2>1, <2>2 DEF AFrame
<1>16. {c} \in SUBSET Callers
  OBVIOUS
<1> QED
  BY <1>5, <1>9, <1>10, <1>11, <1>12, <1>13, <1>14, <1>15, <1>16, AStepKeeps

-----------------------------------------------------------------------------

LEMMA InitAInv == AInit => AInv
<1> SUFFICES ASSUME AInit PROVE AInv
  OBVIOUS
<1>1. PICK v \in BOOLEAN :
        account = [m \in Members |->
          IF m \in DOMAIN Registered
          THEN [email |-> Registered[m], password |-> 0, known |-> TRUE,
                enabled |-> TRUE, verified |-> v, deleted |-> FALSE]
          ELSE None]
  BY DEF AInit
<1>2. \A m \in Members :
        /\ account[m] \in Account \cup {None}
        /\ Exists(m) <=> m \in DOMAIN Registered
        /\ Exists(m) => account[m].email = Registered[m] /\ account[m].password = 0
  <2> TAKE m \in Members
  <2>1. CASE m \in DOMAIN Registered
    <3> DEFINE a == [email |-> Registered[m], password |-> 0, known |-> TRUE,
                     enabled |-> TRUE, verified |-> v, deleted |-> FALSE]
    <3>1. Registered[m] \in Emails /\ account[m] = a
      BY <1>1, <2>1, AccountsAssumption
    <3>2. a \in Account
      BY <3>1 DEF Account
    <3>3. a # None
      BY <3>2, AccountsAssumption
    <3> QED
      BY <2>1, <3>1, <3>2, <3>3 DEF Exists
  <2>2. CASE m \notin DOMAIN Registered
    BY <1>1, <2>2 DEF Exists
  <2> QED
    BY <2>1, <2>2
<1>3. account \in [Members -> Account \cup {None}]
  BY <1>1, <1>2
<1>4. AccountsTypes
  BY <1>3, AboutIsRequest DEF AInit, AccountsTypes
<1>5. OneAddressEach
  BY <1>2, AccountsAssumption DEF OneAddressEach
<1>6. OneConsumesEach /\ \A c \in Callers : Relies(request[c])
  BY AboutIsRequest DEF AInit, OneConsumesEach, Relies, LinkSteps, LoginSteps
<1>7. \A m \in Members : MemberInv(m)
  <2>1. ASSUME NEW m \in Members
        PROVE  flushed[m] = 0 /\ (Exists(m) => account[m].password = 0)
    BY <1>2 DEF AInit
  <2> QED
    BY <2>1 DEF MemberInv
<1>8. \A l \in Links : LinkInv(l)
  BY DEF AInit, LinkInv
<1>9. \A t \in Logins : login[t] = None
  BY DEF AInit
<1> QED
  BY <1>4, <1>5, <1>6, <1>7, <1>8, <1>9 DEF AInv

LEMMA StutterKeepsAInv == AInv /\ UNCHANGED avars => AInv'
<1> SUFFICES ASSUME AInv, UNCHANGED avars PROVE AInv'
  OBVIOUS
<1>1. UNCHANGED <<featureEmail, account, link, login, request, uses, flushed>>
  BY DEF avars
<1>2. AccountsTypes' /\ OneAddressEach' /\ OneConsumesEach'
  BY <1>1 DEF AInv, AccountsTypes, OneAddressEach, OneConsumesEach, Exists
<1>3. AFrame({})
  BY <1>1 DEF AFrame, Exists, Sure, UsedUp
<1>4. /\ \A m \in Members : MemberInv(m)'
      /\ \A l \in Links : LinkInv(l)'
      /\ \A t \in Logins : login'[t] # None => Admits(login[t])'
  BY <1>1 DEF AInv, MemberInv, LinkInv, Admits, Exists, Sure, UsedUp
<1>5. {} \in SUBSET Callers
  OBVIOUS
<1> QED
  BY <1>2, <1>3, <1>4, <1>5, AStepKeeps

LEMMA NextAInv == AInv /\ [ANext]_avars => AInv'
<1> SUFFICES ASSUME AInv, [ANext]_avars PROVE AInv'
  OBVIOUS
<1>1. ASSUME NEW c \in Callers, NEW m \in Members, NEW e \in Emails, handleSignup(c, m, e)
      PROVE  AInv'
  BY <1>1, SignupKeeps
<1>2. ASSUME NEW c \in Callers, NEW m \in Members,
             \/ AuthenticateMemberByEmail(c, m)
             \/ handleForgotPassword(c, m) \/ handleVerifyEmailResend(c, m)
             \/ handleAdminUserAction(c, m)
      PROVE  AInv'
  BY <1>2, AuthenticateKeeps, MailKeeps, AdminActionKeeps
<1>3. ASSUME NEW c \in Callers, NEW t \in Logins,
             CreateSession(c, t) \/ handleProfile(c, t) \/ RotateSession(c, t)
      PROVE  AInv'
  BY <1>3, CreateSessionKeeps, ProfileKeeps, RotateKeeps
<1>4. ASSUME NEW c \in Callers, NEW l \in Links, IssueMemberToken(c, l) \/ LockToken(c, l)
      PROVE  AInv'
  BY <1>4, IssueTokenKeeps, LockTokenKeeps
<1>5. ASSUME NEW c \in Callers, NEW e \in Emails, UpdateMemberProfile(c, e)
      PROVE  AInv'
  BY <1>5, UpdateProfileKeeps
<1>6. ASSUME NEW c \in Callers,
             \/ AutoVerify(c) \/ ConsumeMemberToken(c) \/ handleVerifyEmail(c)
             \/ handleResetPassword(c) \/ RevokeAfterReset(c) \/ UpdateMemberPassword(c)
      PROVE  AInv'
  BY <1>6, AutoVerifyKeeps, ConsumeKeeps, VerifyEmailKeeps, ResetKeeps, RevokeKeeps,
     UpdatePasswordKeeps
<1>7. ASSUME NEW c \in Callers,
             \/ CloseAccount(c) \/ RevokeAllForMember(c) \/ SetMemberEnabled(c)
             \/ AdminForcePasswordReset(c) \/ AdminDeleteMember(c) \/ GiveUp(c)
      PROVE  AInv'
  BY <1>7, CloseAccountKeeps, SignOutKeeps, EnableKeeps, ForceKeeps, EraseKeeps, RequestEnds
  DEF GiveUp
<1>8. ASSUME NEW t \in Logins, handleLogout(t)
      PROVE  AInv'
  BY <1>8, LogoutKeeps
<1>9. ASSUME NEW l \in Links, LinkExpires(l)
      PROVE  AInv'
  BY <1>9, LinkExpiresKeeps
<1>10. CASE UNCHANGED avars
  BY <1>10, StutterKeepsAInv
<1> QED
  BY <1>1, <1>2, <1>3, <1>4, <1>5, <1>6, <1>7, <1>8, <1>9, <1>10 DEF ANext

(* What every request relies on, whatever the others do between its         *)
(* reading and its writing: the account is there, its password no older     *)
(* than a reset it does not know of, the link its own alone.                *)
THEOREM RequestsRely == ASpec => []AInv
<1> QED
  BY InitAInv, NextAInv, PTL DEF ASpec

(* The types of accounts, and the unique index on the address.              *)
THEOREM AccountsTypeCorrect == ASpec => []AccountsTypeOK
<1>1. ASSUME AInv
      PROVE  AccountsTypeOK
  <2>1. ASSUME NEW e \in Emails
        PROVE  Cardinality(HeldBy(e)) <= 1
    <3>1. CASE HeldBy(e) = {}
      <4>1. Cardinality({}) = 0
        BY FS_EmptySet
      <4> QED
        BY <3>1, <4>1
    <3>2. CASE HeldBy(e) # {}
      <4> PICK m : m \in HeldBy(e)
        BY <3>2
      <4>1. HeldBy(e) = {m}
        BY <1>1 DEF AInv, OneAddressEach, HeldBy
      <4>2. Cardinality({m}) = 1
        BY FS_Singleton
      <4> QED
        BY <4>1, <4>2
    <3> QED
      BY <3>1, <3>2
  <2> QED
    BY <1>1, <2>1 DEF AInv, AccountsTypes, AccountsTypeOK
<1> QED
  BY <1>1, RequestsRely, PTL

(* With FEATURE_EMAIL nobody is signed in to an account whose address was   *)
(* not verified, whatever came between the password check and the session.  *)
THEOREM SignInNeedsVerification == ASpec => []OnlyVerifiedSignIn
<1>1. AInv => OnlyVerifiedSignIn
  BY DEF AInv, OnlyVerifiedSignIn, Admits, Sure
<1> QED
  BY <1>1, RequestsRely, PTL

(* A mailed link does what it is for once, however many requests bring it. *)
THEOREM LinksAreSpent == ASpec => []LinksWorkOnce
<1>1. AInv => LinksWorkOnce
  BY DEF AInv, LinksWorkOnce, LinkInv
<1> QED
  BY <1>1, RequestsRely, PTL

(* After a reset the only sessions with an older password are those of     *)
(* requests that it overtook.                                               *)
THEOREM ResetsEndSessions == ASpec => []ResetEndsOldSessions
<1>1. AInv => ResetEndsOldSessions
  BY DEF AInv, ResetEndsOldSessions, Admits
<1> QED
  BY <1>1, RequestsRely, PTL

-----------------------------------------------------------------------------
(***************************************************************************)
(* ORGANIZATIONS.  A page that is made relies on the memberships it has    *)
(* listed, a creation on its address being free.                           *)
(***************************************************************************)

UnderWay == {"name", "insert", "commit"}
Underway(m) == {q \in Creations : creation[q].by = m /\ creation[q].step \in UnderWay}

CreationInv(d) ==
  /\ d.step # "idle" => d.by \in People /\ d.name \in OrgNames
  /\ d.step \in {"insert", "commit"} => d.url \in URLs
  /\ d.step = "commit" => ~AddressTaken(d.url)

(* The INSERT of an address waits for another one of it. *)
OneCommitEach ==
  \A p, q \in Creations :
    creation[p].step = "commit" /\ creation[q].step = "commit"
      /\ creation[p].url = creation[q].url => p = q

(* An organization that was listed is still the member's, or the page has   *)
(* been told.                                                               *)
PageInv(g, m) ==
  /\ g.step \in {"resolve", "stats"} /\ ~g.moved => \A o \in g.listed : ActiveMember(m, o)
  /\ g.step = "stats" => g.listed = {} \/ g.org \in g.listed
  /\ g.step = "error" => g.listed = {} \/ g.moved
  /\ g.step = "dashboard" => g.org \in g.listed

(* Whoever has passed the check has an organization to come. *)
Allowed(m) == Cardinality(CreatedBy(m)) + Cardinality(Underway(m)) <= Cardinality(Creations)

OInv ==
  /\ OrganizationsTypeOK /\ OneCommitEach
  /\ \A q \in Creations : CreationInv(creation[q])
  /\ \A m \in Viewers : PageInv(page[m], m)
  /\ \A m \in People : Allowed(m)

LEMMA CreationFields ==
  ASSUME OInv, NEW q \in Creations
  PROVE  /\ creation[q] \in Creation
         /\ creation[q].step \in {"idle", "check", "name", "insert", "commit"}
         /\ creation[q].by \in People \cup {NoOne}
         /\ creation[q].name \in OrgNames \cup {<<>>} /\ creation[q].url \in URLs \cup {<<>>}
<1>1. creation[q] \in Creation
  BY DEF OInv, OrganizationsTypeOK
<1> QED
  BY <1>1 DEF Creation

LEMMA PageFields ==
  ASSUME OInv, NEW m \in Viewers
  PROVE  /\ page[m] \in Page /\ page[m].org \in Orgs \cup {NoOrg}
         /\ page[m].listed \subseteq Orgs /\ page[m].moved \in BOOLEAN
<1>1. page[m] \in Page
  BY DEF OInv, OrganizationsTypeOK
<1> QED
  BY <1>1 DEF Page

LEMMA OrganizationFields ==
  ASSUME OInv, NEW o \in Existing
  PROVE  /\ o \in Orgs /\ org[o] \in Organization
         /\ org[o].url \in URLs /\ org[o].enabled \in BOOLEAN
         /\ org[o].creator \in People /\ org[o].members \subseteq People
<1>1. o \in Orgs /\ org[o] \in Organization
  BY DEF OInv, OrganizationsTypeOK, Existing
<1> QED
  BY <1>1 DEF Organization

LEMMA Rests ==
  /\ Closed \in Page /\ Closed.step = "closed" /\ ~Closed.moved
  /\ NotCreating \in Creation /\ NotCreating.step = "idle"
<1>1. Closed \in Page /\ Closed.step = "closed" /\ ~Closed.moved
  BY DEF Closed, Page
<1>2. NotCreating \in Creation /\ NotCreating.step = "idle"
  BY DEF NotCreating, Creation
<1> QED
  BY <1>1, <1>2

LEMMA CreatedAreFinite ==
  ASSUME NEW m \in People
  PROVE  /\ IsFiniteSet(CreatedBy(m)) /\ Cardinality(CreatedBy(m)) \in Nat
         /\ IsFiniteSet(Underway(m)) /\ Cardinality(Underway(m)) \in Nat
         /\ Cardinality(Underway(m)) <= Cardinality(Creations)
<1>1. CreatedBy(m) \subseteq Orgs
  BY DEF CreatedBy, Existing
<1>2. Underway(m) \subseteq Creations
  BY DEF Underway
<1>3. IsFiniteSet(Orgs) /\ IsFiniteSet(Creations)
  BY OrganizationsAssumption
<1>4. IsFiniteSet(CreatedBy(m))
  BY <1>1, <1>3, FS_Subset
<1>5. IsFiniteSet(Underway(m)) /\ Cardinality(Underway(m)) <= Cardinality(Creations)
  BY <1>2, <1>3, FS_Subset
<1>6. Cardinality(CreatedBy(m)) \in Nat
  BY <1>4, FS_CardinalityType
<1>7. Cardinality(Underway(m)) \in Nat
  BY <1>5, FS_CardinalityType
<1> QED
  BY <1>4, <1>5, <1>6, <1>7

(* A step of one creation: it is held to its address, and passes the check  *)
(* only if its member has created nothing.                                  *)
LEMMA CreationMoves ==
  ASSUME OInv, NEW q \in Creations, NEW d \in Creation, creation' = [creation EXCEPT ![q] = d],
         CreationInv(d),
         d.step = "commit" =>
           \A p \in Creations \ {q} : ~(creation[p].step = "commit" /\ creation[p].url = d.url),
         d.step \in UnderWay =>
           \/ creation[q].step \in UnderWay /\ creation[q].by = d.by
           \/ CreatedBy(d.by) = {},
         UNCHANGED <<org, gone, current, page>>
  PROVE  OInv'
<1>1. /\ creation' \in [Creations -> Creation] /\ creation'[q] = d
      /\ \A p \in Creations \ {q} : creation'[p] = creation[p]
  BY DEF OInv, OrganizationsTypeOK
<1>2. OrganizationsTypeOK'
  BY <1>1 DEF OInv, OrganizationsTypeOK, Existing
<1>3. OneCommitEach'
  BY <1>1 DEF OInv, OneCommitEach
<1>4. ASSUME NEW p \in Creations
      PROVE  CreationInv(creation[p])'
  <2> PICK e \in Creation : creation'[p] = e /\ CreationInv(e)
    BY <1>1 DEF OInv
  <2>1. CreationInv(e)'
    BY DEF CreationInv, AddressTaken, Existing
  <2> QED
    BY <2>1
<1>5. ASSUME NEW m \in Viewers
      PROVE  PageInv(page[m], m)'
  <2> PICK g : g = page[m] /\ PageInv(g, m)
    BY DEF OInv
  <2>1. PageInv(g, m)'
    BY DEF PageInv, ActiveMember, Enabled, Existing
  <2> QED
    BY <2>1
<1>6. ASSUME NEW m \in People
      PROVE  Allowed(m)'
  <2>1. CreatedBy(m)' = CreatedBy(m)
    BY DEF CreatedBy, Existing
  <2> PICK C, U, V : C = CreatedBy(m) /\ U = Underway(m) /\ V = Underway(m)'
    OBVIOUS
  <2>2. V \subseteq Creations /\ IsFiniteSet(Creations)
    BY OrganizationsAssumption DEF Underway
  <2>3. IsFiniteSet(V) /\ Cardinality(V) <= Cardinality(Creations)
    BY <2>2, FS_Subset
  <2>4. Cardinality(V) \in Nat
    BY <2>3, FS_CardinalityType
  <2>5. CASE C = {}
    <3>1. Cardinality(C) = 0
      BY <2>5, FS_EmptySet
    <3>2. Cardinality(C) + Cardinality(V) <= Cardinality(Creations)
      BY <2>3, <2>4, <3>1
    <3> QED
      BY <2>1, <3>2 DEF Allowed
  <2>6. CASE C # {}
    <3>1. V \subseteq U
      BY <1>1, <2>6 DEF Underway
    <3>2. IsFiniteSet(U) /\ Cardinality(U) \in Nat /\ Cardinality(C) \in Nat
      BY CreatedAreFinite
    <3>3. Cardinality(V) <= Cardinality(U)
      BY <3>1, <3>2, FS_Subset
    <3>4. Cardinality(C) + Cardinality(U) <= Cardinality(Creations)
      BY DEF OInv, Allowed
    <3>5. Cardinality(Creations) \in Nat
      BY <2>2, FS_CardinalityType
    <3>6. Cardinality(C) + Cardinality(V) <= Cardinality(Creations)
      BY <2>4, <3>2, <3>3, <3>4, <3>5
    <3> QED
      BY <2>1, <3>6 DEF Allowed
  <2> QED
    BY <2>5, <2>6
<1> QED
  BY <1>2, <1>3, <1>4, <1>5, <1>6 DEF OInv

LEMMA NotCreatedKeeps ==
  ASSUME OInv, NEW q \in Creations, NotCreated(q), UNCHANGED <<org, gone, current, page>>
  PROVE  OInv'
<1>1. CreationInv(NotCreating) /\ NotCreating.step \notin UnderWay
  BY Rests DEF CreationInv, UnderWay
<1> QED
  BY <1>1, Rests, CreationMoves DEF NotCreated, UnderWay

LEMMA CreationStepKeeps ==
  ASSUME OInv, NEW q \in Creations,
         \/ \E m \in Founders, n \in OrgNames : handleCreateOrganization(q, m, n)
         \/ CheckAgain(q) \/ ensureUniqueOrganizationURLName(q) \/ InsertOrganization(q)
         \/ CreationGivesUp(q)
  PROVE  OInv'
<1> PICK b \in Creation : b = creation[q] /\ CreationInv(b)
  BY CreationFields DEF OInv
<1>1. ASSUME NEW m \in Founders, NEW n \in OrgNames, handleCreateOrganization(q, m, n)
      PROVE  OInv'
  <2>1. m \in People
    BY OrganizationsAssumption
  <2> PICK d : d = [NotCreating EXCEPT !.step = "check", !.by = m, !.name = n]
    OBVIOUS
  <2>2. d \in Creation /\ d.step = "check" /\ d.by = m /\ d.name = n
    BY <2>1 DEF NotCreating, Creation
  <2>3. CreationInv(d) /\ d.step \notin UnderWay
    BY <2>1, <2>2 DEF CreationInv, UnderWay
  <2>4. creation' = [creation EXCEPT ![q] = d] /\ UNCHANGED <<org, gone, current, page>>
    BY <1>1 DEF handleCreateOrganization
  <2> QED
    BY <2>2, <2>3, <2>4, CreationMoves
<1>2. CASE CheckAgain(q)
  <2>1. CASE MemberCreatedOrganization(creation[q].by)
    BY <1>2, <2>1, NotCreatedKeeps DEF CheckAgain
  <2>2. CASE ~MemberCreatedOrganization(creation[q].by)
    <3> PICK d : d = [b EXCEPT !.step = "name"]
      OBVIOUS
    <3>1. d \in Creation /\ d.step = "name" /\ d.by = b.by /\ d.name = b.name
      BY DEF Creation
    <3>2. b.step = "check" /\ CreatedBy(d.by) = {}
      BY <1>2, <2>2, <3>1 DEF CheckAgain, Creating, MemberCreatedOrganization
    <3>3. CreationInv(d)
      BY <3>1, <3>2 DEF CreationInv
    <3>4. creation' = [creation EXCEPT ![q] = d] /\ UNCHANGED <<org, gone, current, page>>
      BY <1>2, <2>2 DEF CheckAgain
    <3> QED
      BY <3>1, <3>2, <3>3, <3>4, CreationMoves
  <2> QED
    BY <2>1, <2>2
<1>3. CASE ensureUniqueOrganizationURLName(q)
  <2>1. b.step = "name" /\ UNCHANGED <<org, gone, current, page>>
    BY <1>3 DEF ensureUniqueOrganizationURLName, Creating
  <2>2. PICK i \in 1..MaxOrdinal :
        creation' = [creation EXCEPT ![q] =
          [b EXCEPT !.step = "insert", !.url = organizationURLNameWithOrdinal(b.name, i)]]
    BY <1>3 DEF ensureUniqueOrganizationURLName, OInv, OrganizationsTypeOK, Creation
  <2>3. PICK url :
        /\ url = organizationURLNameWithOrdinal(b.name, i)
        /\ creation' = [creation EXCEPT ![q] = [b EXCEPT !.step = "insert", !.url = url]]
    BY <2>2
  <2>4. b.name \in OrgNames /\ b.by \in People
    BY <2>1 DEF CreationInv
  <2>5. url \in URLs
    <3>1. CASE i <= 1
      BY <2>3, <2>4, <3>1 DEF organizationURLNameWithOrdinal, URLs
    <3>2. CASE ~(i <= 1)
      <4>1. i \in 2..MaxOrdinal
        BY <3>2
      <4>2. url = Append(b.name, i)
        BY <2>3, <3>2 DEF organizationURLNameWithOrdinal
      <4> QED
        BY <2>4, <4>1, <4>2 DEF URLs
    <3> QED
      BY <3>1, <3>2
  <2> PICK d : d = [b EXCEPT !.step = "insert", !.url = url]
    OBVIOUS
  <2>6. d \in Creation /\ d.step = "insert" /\ d.by = b.by /\ d.name = b.name /\ d.url = url
    BY <2>5 DEF Creation
  <2>7. CreationInv(d) /\ creation[q].step \in UnderWay /\ creation[q].by = d.by
    BY <2>1, <2>4, <2>5, <2>6 DEF CreationInv, UnderWay
  <2> QED
    BY <2>1, <2>3, <2>6, <2>7, CreationMoves
<1>4. CASE InsertOrganization(q)
  <2>1. CASE AddressTaken(creation[q].url)
    BY <1>4, <2>1, NotCreatedKeeps DEF InsertOrganization
  <2>2. CASE ~AddressTaken(creation[q].url)
    <3> PICK d : d = [b EXCEPT !.step = "commit"]
      OBVIOUS
    <3>1. d \in Creation /\ d.step = "commit" /\ d.by = b.by /\ d.name = b.name /\ d.url = b.url
      BY DEF Creation
    <3>2. /\ b.step = "insert"
          /\ \A p \in Creations : ~(creation[p].step = "commit" /\ creation[p].url = b.url)
          /\ creation' = [creation EXCEPT ![q] = d] /\ UNCHANGED <<org, gone, current, page>>
      BY <1>4, <2>2 DEF InsertOrganization, Creating
    <3>3. CreationInv(d) /\ creation[q].step \in UnderWay /\ creation[q].by = d.by
      BY <2>2, <3>1, <3>2 DEF CreationInv, UnderWay
    <3>4. \A p \in Creations \ {q} : ~(creation[p].step = "commit" /\ creation[p].url = d.url)
      BY <3>1, <3>2
    <3>5. creation' = [creation EXCEPT ![q] = d] /\ UNCHANGED <<org, gone, current, page>>
      BY <3>2
    <3> QED
      BY <3>1, <3>3, <3>4, <3>5, CreationMoves
  <2> QED
    BY <2>1, <2>2
<1>5. CASE CreationGivesUp(q)
  BY <1>5, NotCreatedKeeps DEF CreationGivesUp
<1> QED
  BY <1>1, <1>2, <1>3, <1>4, <1>5

(* A step of a page, which may also set what its member looks at. *)
LEMMA PageMoves ==
  ASSUME OInv, NEW m \in Viewers, NEW g \in Page, page' = [page EXCEPT ![m] = g], PageInv(g, m),
         current' \in [Viewers -> Orgs \cup {NoOrg}], UNCHANGED <<org, gone, creation>>
  PROVE  OInv'
<1>1. /\ page' \in [Viewers -> Page] /\ page'[m] = g
      /\ \A n \in Viewers \ {m} : page'[n] = page[n]
  BY DEF OInv, OrganizationsTypeOK
<1>2. OrganizationsTypeOK' /\ OneCommitEach'
  BY <1>1 DEF OInv, OrganizationsTypeOK, OneCommitEach, Existing
<1>3. ASSUME NEW q \in Creations
      PROVE  CreationInv(creation[q])'
  BY DEF OInv, CreationInv, AddressTaken, Existing
<1>4. ASSUME NEW n \in Viewers
      PROVE  PageInv(page[n], n)'
  <2> PICK h : page'[n] = h /\ PageInv(h, n)
    BY <1>1 DEF OInv
  <2>1. PageInv(h, n)'
    BY DEF PageInv, ActiveMember, Enabled, Existing
  <2> QED
    BY <2>1
<1>5. ASSUME NEW n \in People
      PROVE  Allowed(n)'
  <2>1. CreatedBy(n)' = CreatedBy(n) /\ Underway(n)' = Underway(n)
    BY DEF CreatedBy, Underway, Existing
  <2>2. Allowed(n)
    BY DEF OInv
  <2> QED
    BY <2>1, <2>2 DEF Allowed
<1> QED
  BY <1>2, <1>3, <1>4, <1>5 DEF OInv

(* Pages that were told are as they were, and know. *)
LEMMA MoveTells ==
  ASSUME OInv, NEW S, Move(S)
  PROVE  /\ page' \in [Viewers -> Page]
         /\ \A m \in Viewers :
              /\ page'[m].step = page[m].step /\ page'[m].org = page[m].org
              /\ page'[m].listed = page[m].listed /\ (page[m].moved => page'[m].moved)
              /\ m \in S => page'[m].moved \/ page'[m].step = "closed"
<1>1. ASSUME NEW m \in Viewers
      PROVE  /\ page'[m] \in Page
             /\ page'[m].step = page[m].step /\ page'[m].org = page[m].org
             /\ page'[m].listed = page[m].listed /\ (page[m].moved => page'[m].moved)
             /\ m \in S => page'[m].moved \/ page'[m].step = "closed"
  <2> PICK g \in Page : g = page[m]
    BY PageFields
  <2>1. CASE m \in S /\ g # Closed
    <3> PICK h : h = [g EXCEPT !.moved = TRUE]
      OBVIOUS
    <3>1. h \in Page /\ h.step = g.step /\ h.org = g.org /\ h.listed = g.listed /\ h.moved
      BY DEF Page
    <3>2. page'[m] = h
      BY <2>1 DEF Move
    <3> QED
      BY <3>1, <3>2
  <2>2. CASE ~(m \in S /\ g # Closed)
    <3>1. page'[m] = g
      BY <2>2 DEF Move
    <3> QED
      BY <2>2, <3>1, Rests
  <2> QED
    BY <2>1, <2>2
<1>2. page' = [m \in Viewers |-> page'[m]]
  BY DEF Move
<1> QED
  BY <1>1, <1>2

LEMMA PagesTold ==
  ASSUME OInv, NEW S, Move(S),
         \A m \in Viewers, o \in Orgs : m \notin S /\ ActiveMember(m, o) => ActiveMember(m, o)'
  PROVE  \A m \in Viewers : PageInv(page[m], m)'
<1> TAKE m \in Viewers
<1> PICK g, h :
      /\ page[m] = g /\ page'[m] = h /\ PageInv(g, m) /\ g.listed \subseteq Orgs
      /\ h.step = g.step /\ h.org = g.org
      /\ h.listed = g.listed /\ (g.moved => h.moved)
      /\ m \in S => h.moved \/ h.step = "closed"
  BY MoveTells, PageFields DEF OInv
<1>1. h.step \in {"resolve", "stats"} /\ ~h.moved => \A o \in h.listed : ActiveMember(m, o)'
  BY DEF PageInv
<1>2. PageInv(h, m)'
  BY <1>1 DEF PageInv
<1> QED
  BY <1>2

(* Organizations keep their address and their creator while they exist.     *)
LEMMA OrganizationsMove ==
  ASSUME OInv, org' \in [Orgs -> Organization \cup {NoOrg}],
         \A o \in Existing' : o \in Existing /\ org'[o].url = org[o].url /\ org'[o].creator = org[o].creator,
         gone' \subseteq Orgs \ Existing', current' \in [Viewers -> Orgs \cup {NoOrg}],
         NEW S, Move(S),
         \A m \in Viewers, o \in Orgs : m \notin S /\ ActiveMember(m, o) => ActiveMember(m, o)',
         UNCHANGED creation
  PROVE  OInv'
<1>1. page' \in [Viewers -> Page]
  BY MoveTells
<1>2. OrganizationsTypeOK' /\ OneCommitEach'
  BY <1>1 DEF OInv, OrganizationsTypeOK, OneCommitEach
<1>3. ASSUME NEW q \in Creations
      PROVE  CreationInv(creation[q])'
  BY DEF OInv, CreationInv, AddressTaken
<1>4. \A m \in Viewers : PageInv(page[m], m)'
  BY PagesTold
<1>5. ASSUME NEW n \in People
      PROVE  Allowed(n)'
  <2> PICK C, D, U : C = CreatedBy(n) /\ D = CreatedBy(n)' /\ U = Underway(n) /\ U = Underway(n)'
    BY DEF Underway
  <2>1. D \subseteq C
    BY DEF CreatedBy
  <2>2. IsFiniteSet(C) /\ Cardinality(C) \in Nat /\ Cardinality(U) \in Nat
    BY CreatedAreFinite
  <2>3. IsFiniteSet(D) /\ Cardinality(D) <= Cardinality(C)
    BY <2>1, <2>2, FS_Subset
  <2>4. Cardinality(D) \in Nat
    BY <2>3, FS_CardinalityType
  <2>5. Cardinality(Creations) \in Nat
    BY OrganizationsAssumption, FS_CardinalityType
  <2>6. Cardinality(C) + Cardinality(U) <= Cardinality(Creations)
    BY DEF OInv, Allowed
  <2>7. Cardinality(D) + Cardinality(U) <= Cardinality(Creations)
    BY <2>2, <2>3, <2>4, <2>5, <2>6
  <2> QED
    BY <2>7 DEF Allowed
<1> QED
  BY <1>2, <1>3, <1>4, <1>5 DEF OInv

LEMMA OrganizationWrites ==
  ASSUME OInv, NEW o \in Existing, NEW k \in Organization, org' = [org EXCEPT ![o] = k],
         k.url = org[o].url, k.creator = org[o].creator,
         gone' = gone, current' \in [Viewers -> Orgs \cup {NoOrg}],
         NEW S, Move(S),
         \A m \in Viewers : m \notin S /\ ActiveMember(m, o) => k.enabled /\ m \in k.members,
         UNCHANGED creation
  PROVE  OInv'
<1>1. /\ org' \in [Orgs -> Organization \cup {NoOrg}] /\ org'[o] = k /\ k # NoOrg
      /\ \A p \in Orgs \ {o} : org'[p] = org[p]
  BY NoOrgAssumption DEF OInv, OrganizationsTypeOK, Existing
<1>2. Existing' = Existing
  BY <1>1 DEF Existing
<1>3. \A p \in Existing' : p \in Existing /\ org'[p].url = org[p].url /\ org'[p].creator = org[p].creator
  BY <1>1, <1>2 DEF Existing
<1>4. gone' \subseteq Orgs \ Existing'
  BY <1>2 DEF OInv, OrganizationsTypeOK
<1>5. \A m \in Viewers, p \in Orgs : m \notin S /\ ActiveMember(m, p) => ActiveMember(m, p)'
  BY <1>1, <1>2 DEF ActiveMember, Enabled
<1> QED
  BY <1>1, <1>3, <1>4, <1>5, OrganizationsMove

LEMMA JoinKeeps ==
  ASSUME OInv, NEW m \in People, NEW o \in Orgs, JoinOrganization(m, o)
  PROVE  OInv'
<1>1. o \in Existing
  BY DEF JoinOrganization, Enabled
<1> PICK b \in Organization : b = org[o]
  BY <1>1, OrganizationFields
<1> PICK k : k = [b EXCEPT !.members = b.members \cup {m}]
  OBVIOUS
<1>2. /\ k \in Organization /\ k.url = b.url /\ k.creator = b.creator
      /\ k.enabled = b.enabled /\ k.members = b.members \cup {m}
  BY DEF Organization
<1>3. /\ org' = [org EXCEPT ![o] = k] /\ Move({m}) /\ gone' = gone /\ UNCHANGED creation
      /\ current' \in [Viewers -> Orgs \cup {NoOrg}]
  BY DEF JoinOrganization, OInv, OrganizationsTypeOK
<1>4. \A n \in Viewers : n \notin {m} /\ ActiveMember(n, o) => k.enabled /\ n \in k.members
  BY <1>2 DEF ActiveMember, Enabled
<1>5. k.url = org[o].url /\ k.creator = org[o].creator
  BY <1>2
<1> QED
  BY <1>1, <1>2, <1>3, <1>4, <1>5, OrganizationWrites

LEMMA DepartureKeeps ==
  ASSUME OInv, NEW m \in People, NEW o \in Existing, WithoutMember(m, o), Move({m}),
         current' \in [Viewers -> Orgs \cup {NoOrg}], UNCHANGED <<gone, creation>>
  PROVE  OInv'
<1> PICK b \in Organization : b = org[o]
  BY OrganizationFields
<1> PICK k : k = [b EXCEPT !.members = b.members \ {m}]
  OBVIOUS
<1>1. /\ k \in Organization /\ k.url = b.url /\ k.creator = b.creator
      /\ k.enabled = b.enabled /\ k.members = b.members \ {m}
  BY DEF Organization
<1>2. org' = [org EXCEPT ![o] = k]
  BY DEF WithoutMember
<1>3. \A n \in Viewers : n \notin {m} /\ ActiveMember(n, o) => k.enabled /\ n \in k.members
  BY <1>1 DEF ActiveMember, Enabled
<1>4. k.url = org[o].url /\ k.creator = org[o].creator
  BY <1>1
<1>5. k \in Organization /\ Move({m}) /\ gone' = gone /\ UNCHANGED creation
  BY <1>1
<1> QED
  BY <1>2, <1>3, <1>4, <1>5, OrganizationWrites

LEMMA LeaveOrganizationKeeps ==
  ASSUME OInv, NEW m \in People, NEW o \in Orgs,
         LeaveOrganization(m, o) \/ RemoveOrganizationMember(m, o)
  PROVE  OInv'
<1>1. /\ o \in Existing /\ WithoutMember(m, o) /\ Move({m}) /\ UNCHANGED <<gone, creation>>
  BY DEF LeaveOrganization, RemoveOrganizationMember, Enabled
<1>2. current' \in [Viewers -> Orgs \cup {NoOrg}]
  <2>1. current \in [Viewers -> Orgs \cup {NoOrg}]
    BY DEF OInv, OrganizationsTypeOK
  <2>2. \/ current' = current
        \/ \E n \in Orgs \cup {NoOrg} : current' = [current EXCEPT ![m] = n]
    BY DEF LeaveOrganization, RemoveOrganizationMember, ActiveOrganizationsForMember
  <2> QED
    BY <2>1, <2>2
<1> QED
  BY <1>1, <1>2, DepartureKeeps

LEMMA OrganizationEnabledKeeps ==
  ASSUME OInv, NEW o \in Orgs, NEW on \in BOOLEAN, SetOrganizationEnabled(o, on)
  PROVE  OInv'
<1>1. o \in Existing
  BY DEF SetOrganizationEnabled
<1> PICK b \in Organization : b = org[o]
  BY <1>1, OrganizationFields
<1> PICK k : k = [b EXCEPT !.enabled = on]
  OBVIOUS
<1>2. /\ k \in Organization /\ k.url = b.url /\ k.creator = b.creator
      /\ k.enabled = on /\ k.members = b.members
  BY DEF Organization
<1>3. /\ org' = [org EXCEPT ![o] = k] /\ Move(b.members) /\ gone' = gone /\ UNCHANGED creation
      /\ current' \in [Viewers -> Orgs \cup {NoOrg}]
  BY DEF SetOrganizationEnabled, OInv, OrganizationsTypeOK
<1>4. \A n \in Viewers : n \notin b.members /\ ActiveMember(n, o) => k.enabled /\ n \in k.members
  BY <1>2 DEF ActiveMember, Enabled
<1>5. k.url = org[o].url /\ k.creator = org[o].creator
  BY <1>2
<1> QED
  BY <1>1, <1>2, <1>3, <1>4, <1>5, OrganizationWrites

LEMMA DeleteOrganizationKeeps ==
  ASSUME OInv, NEW o \in Orgs, DeleteOrganization(o)
  PROVE  OInv'
<1> PICK S : S = org[o].members
  OBVIOUS
<1>1. /\ o \in Existing /\ org' = [org EXCEPT ![o] = NoOrg] /\ gone' = gone \cup {o}
      /\ Move(S) /\ UNCHANGED creation
      /\ current' = [m \in Viewers |-> IF current[m] = o THEN NoOrg ELSE current[m]]
  BY DEF DeleteOrganization, Enabled
<1>2. /\ org' \in [Orgs -> Organization \cup {NoOrg}] /\ org'[o] = NoOrg
      /\ \A p \in Orgs \ {o} : org'[p] = org[p]
  BY <1>1 DEF OInv, OrganizationsTypeOK
<1>3. Existing' = Existing \ {o}
  BY <1>2 DEF Existing
<1>4. \A p \in Existing' : p \in Existing /\ org'[p].url = org[p].url /\ org'[p].creator = org[p].creator
  BY <1>2, <1>3 DEF Existing
<1>5. gone' \subseteq Orgs \ Existing'
  BY <1>1, <1>3 DEF OInv, OrganizationsTypeOK
<1>6. current' \in [Viewers -> Orgs \cup {NoOrg}]
  BY <1>1 DEF OInv, OrganizationsTypeOK
<1>7. \A m \in Viewers, p \in Orgs : m \notin S /\ ActiveMember(m, p) => ActiveMember(m, p)'
  BY <1>2, <1>3 DEF ActiveMember, Enabled
<1> QED
  BY <1>1, <1>2, <1>4, <1>5, <1>6, <1>7, OrganizationsMove

(* A creation that commits counts as created from then on; its address was  *)
(* free and is nobody else's to commit.                                     *)
LEMMA CommitKeeps ==
  ASSUME OInv, NEW q \in Creations, NEW o \in Orgs, CommitOrganization(q, o)
  PROVE  OInv'
<1> PICK d \in Creation : d = creation[q] /\ CreationInv(d)
  BY CreationFields DEF OInv
<1> PICK k : k = [url |-> d.url, enabled |-> TRUE, creator |-> d.by, members |-> {d.by}]
  OBVIOUS
<1>1. /\ d.step = "commit" /\ o \notin Existing \cup gone
      /\ org' = [org EXCEPT ![o] = k] /\ creation' = [creation EXCEPT ![q] = NotCreating]
      /\ Move({d.by}) /\ UNCHANGED <<gone, current>>
  BY DEF CommitOrganization, Creating, NotCreated
<1>2. d.by \in People /\ d.url \in URLs /\ ~AddressTaken(d.url)
  BY <1>1 DEF CreationInv
<1>3. k \in Organization /\ k # NoOrg /\ k.url = d.url /\ k.creator = d.by
  <2>1. k \in Organization /\ k.url = d.url /\ k.creator = d.by
    BY <1>2 DEF Organization
  <2> QED
    BY <2>1, NoOrgAssumption
<1>4. /\ org' \in [Orgs -> Organization \cup {NoOrg}] /\ org'[o] = k
      /\ \A p \in Orgs \ {o} : org'[p] = org[p]
  BY <1>1, <1>3 DEF OInv, OrganizationsTypeOK
<1>5. Existing' = Existing \cup {o}
  BY <1>3, <1>4 DEF Existing
<1>6. /\ creation' \in [Creations -> Creation] /\ creation'[q] = NotCreating
      /\ \A p \in Creations \ {q} : creation'[p] = creation[p]
  BY <1>1, Rests DEF OInv, OrganizationsTypeOK
<1>7. \A p \in Existing : p # o /\ org'[p] = org[p] /\ org[p].url # d.url
  BY <1>1, <1>2, <1>4 DEF AddressTaken, Existing
<1>8. OrganizationsTypeOK'
  <2>1. page' \in [Viewers -> Page]
    BY <1>1, MoveTells
  <2>2. gone' \subseteq Orgs \ Existing'
    BY <1>1, <1>5 DEF OInv, OrganizationsTypeOK
  <2>3. \A r, p \in Existing' : org'[r].url = org'[p].url => r = p
    BY <1>3, <1>4, <1>5, <1>7 DEF OInv, OrganizationsTypeOK
  <2> QED
    BY <1>1, <1>4, <1>6, <2>1, <2>2, <2>3 DEF OInv, OrganizationsTypeOK
<1>9. OneCommitEach'
  BY <1>6, Rests DEF OInv, OneCommitEach
<1>10. ASSUME NEW p \in Creations
       PROVE  CreationInv(creation[p])'
  <2>1. CASE p = q
    BY <1>6, <2>1, Rests DEF CreationInv
  <2>2. CASE p # q
    <3> PICK e : e = creation[p] /\ e = creation'[p] /\ CreationInv(e)
      BY <1>6, <2>2 DEF OInv
    <3>1. e.step = "commit" => e.url # d.url
      BY <1>1, <2>2 DEF OInv, OneCommitEach
    <3>2. e.step = "commit" => ~AddressTaken(e.url)'
      BY <1>3, <1>4, <1>5, <1>7, <3>1 DEF CreationInv, AddressTaken
    <3>3. CreationInv(e)'
      BY <3>2 DEF CreationInv
    <3> QED
      BY <3>3
  <2> QED
    BY <2>1, <2>2
<1>11. \A m \in Viewers : PageInv(page[m], m)'
  <2>1. \A m \in Viewers, p \in Orgs : m \notin {d.by} /\ ActiveMember(m, p) => ActiveMember(m, p)'
    BY <1>5, <1>7 DEF ActiveMember, Enabled
  <2> QED
    BY <1>1, <2>1, PagesTold
<1>12. ASSUME NEW m \in People
       PROVE  Allowed(m)'
  <2> PICK C, D, U, V : /\ C = CreatedBy(m) /\ D = CreatedBy(m)'
                        /\ U = Underway(m) /\ V = Underway(m)'
    OBVIOUS
  <2>1. /\ IsFiniteSet(C) /\ IsFiniteSet(U) /\ Cardinality(C) \in Nat /\ Cardinality(U) \in Nat
        /\ Cardinality(C) + Cardinality(U) <= Cardinality(Creations)
    BY CreatedAreFinite DEF OInv, Allowed
  <2>2. V = U \ {q}
    BY <1>6, Rests DEF Underway, UnderWay
  <2>3. CASE m = d.by
    <3>1. D = C \cup {o} /\ o \notin C
      BY <1>1, <1>3, <1>4, <1>5, <1>7, <2>3 DEF CreatedBy
    <3>2. q \in U
      BY <1>1, <2>3 DEF Underway, UnderWay
    <3>3. Cardinality(D) = Cardinality(C) + 1
      BY <2>1, <3>1, FS_AddElement
    <3>4. Cardinality(V) = Cardinality(U) - 1
      <4>1. Cardinality(U \ {q}) = Cardinality(U) - 1
        BY <2>1, <3>2, FS_RemoveElement
      <4> QED
        BY <2>2, <4>1
    <3>5. Cardinality(D) + Cardinality(V) <= Cardinality(Creations)
      BY <2>1, <3>3, <3>4
    <3> QED
      BY <3>5 DEF Allowed
  <2>4. CASE m # d.by
    <3>1. D = C
      BY <1>3, <1>4, <1>5, <1>7, <2>4 DEF CreatedBy
    <3>2. V = U
      BY <2>2, <2>4 DEF Underway
    <3> QED
      BY <2>1, <3>1, <3>2 DEF Allowed
  <2> QED
    BY <2>3, <2>4
<1> QED
  BY <1>8, <1>9, <1>10, <1>11, <1>12 DEF OInv

LEMMA PageStepKeeps ==
  ASSUME OInv, NEW m \in Viewers, PageStep(m)
  PROVE  OInv'
<1> PICK b \in Page : b = page[m] /\ PageInv(b, m) /\ b.listed \subseteq Orgs
  BY PageFields DEF OInv
<1>0. current \in [Viewers -> Orgs \cup {NoOrg}]
  BY DEF OInv, OrganizationsTypeOK
<1>1. CASE OpenHomePage(m)
  <2> PICK at \in Orgs \cup {NoOrg} : at = current[m]
    BY <1>0
  <2> PICK g : g = [Closed EXCEPT !.step = "list", !.org = at]
    OBVIOUS
  <2>1. g \in Page /\ g.step = "list"
    BY DEF Page, Closed
  <2>2. PageInv(g, m)
    BY <2>1 DEF PageInv
  <2>3. page' = [page EXCEPT ![m] = g] /\ UNCHANGED <<org, gone, current, creation>>
    BY <1>1 DEF OpenHomePage
  <2> QED
    BY <1>0, <2>1, <2>2, <2>3, PageMoves
<1>2. CASE ListOwnOrganizations(m)
  <2> PICK own : own = ActiveOrganizationsForMember(m)
    OBVIOUS
  <2>1. own \subseteq Orgs /\ \A o \in own : ActiveMember(m, o)
    BY DEF ActiveOrganizationsForMember
  <2> PICK g : g = [b EXCEPT !.step = "resolve", !.listed = own]
    OBVIOUS
  <2>2. g \in Page /\ g.step = "resolve" /\ g.listed = own
    BY <2>1 DEF Page
  <2>3. PageInv(g, m)
    BY <2>1, <2>2 DEF PageInv
  <2>4. page' = [page EXCEPT ![m] = g] /\ UNCHANGED <<org, gone, current, creation>>
    BY <1>2 DEF ListOwnOrganizations, OInv, OrganizationsTypeOK
  <2> QED
    BY <1>0, <2>2, <2>3, <2>4, PageMoves
<1>3. ASSUME NEW asked \in Orgs \cup {NoOrg}, resolveCurrentOrganization(m, asked)
      PROVE  OInv'
  <2>1. PICK o \in Resolved(asked, b.org, b.listed) :
          /\ page' = [page EXCEPT ![m] = [b EXCEPT !.step = "stats", !.org = o]]
          /\ IF o \in Existing /\ (asked # NoOrg \/ b.org # o)
             THEN current' = [current EXCEPT ![m] = o] ELSE UNCHANGED current
    BY <1>3 DEF resolveCurrentOrganization, OInv, OrganizationsTypeOK
  <2>2. b.step = "resolve" /\ UNCHANGED <<org, gone, creation>>
    BY <1>3 DEF resolveCurrentOrganization
  <2>3. o \in Orgs \cup {NoOrg} /\ (b.listed = {} \/ o \in b.listed)
    <3>1. b.org \in Orgs \cup {NoOrg}
      BY PageFields
    <3> QED
      BY <2>1, <3>1 DEF Resolved
  <2> PICK g : g = [b EXCEPT !.step = "stats", !.org = o]
    OBVIOUS
  <2>4. g \in Page /\ g.step = "stats" /\ g.org = o /\ g.listed = b.listed /\ g.moved = b.moved
    BY <2>3 DEF Page
  <2>5. PageInv(g, m)
    BY <2>2, <2>3, <2>4 DEF PageInv
  <2>6. current' \in [Viewers -> Orgs \cup {NoOrg}]
    BY <1>0, <2>1, <2>3
  <2>7. page' = [page EXCEPT ![m] = g]
    BY <2>1
  <2> QED
    BY <2>2, <2>4, <2>5, <2>6, <2>7, PageMoves
<1>4. CASE LoadStats(m)
  <2> PICK step : step = IF b.org # NoOrg /\ ~ActiveMember(m, b.org) THEN "error"
                         ELSE MyhopShareBody(b.org, b.listed)
    OBVIOUS
  <2>1. /\ b.step = "stats" /\ page' = [page EXCEPT ![m] = [b EXCEPT !.step = step]]
        /\ UNCHANGED <<org, gone, current, creation>>
    BY <1>4 DEF LoadStats, OInv, OrganizationsTypeOK
  <2>2. /\ step \in {"error", "none to show", "dashboard"}
        /\ step = "dashboard" => b.listed # {}
        /\ step = "error" => ~ActiveMember(m, b.org)
    BY DEF MyhopShareBody
  <2> PICK g : g = [b EXCEPT !.step = step]
    OBVIOUS
  <2>3. g \in Page /\ g.step = step /\ g.org = b.org /\ g.listed = b.listed /\ g.moved = b.moved
    BY <2>2 DEF Page
  <2>4. PageInv(g, m)
    BY <2>1, <2>2, <2>3 DEF PageInv
  <2>5. page' = [page EXCEPT ![m] = g]
    BY <2>1
  <2> QED
    BY <1>0, <2>1, <2>3, <2>4, <2>5, PageMoves
<1>5. CASE CloseHomePage(m)
  <2>1. page' = [page EXCEPT ![m] = Closed] /\ UNCHANGED <<org, gone, current, creation>>
    BY <1>5 DEF CloseHomePage
  <2>2. PageInv(Closed, m)
    BY Rests DEF PageInv
  <2> QED
    BY <1>0, <2>1, <2>2, Rests, PageMoves
<1> QED
  BY <1>1, <1>2, <1>3, <1>4, <1>5, OrganizationsAssumption DEF PageStep

LEMMA InitOInv == OInit => OInv
<1> SUFFICES ASSUME OInit PROVE OInv
  OBVIOUS
<1>1. Existing = {} /\ gone = {}
  BY DEF OInit, Existing
<1>2. OrganizationsTypeOK
  BY <1>1, Rests DEF OInit, OrganizationsTypeOK
<1>3. OneCommitEach /\ \A q \in Creations : CreationInv(creation[q])
  BY Rests DEF OInit, OneCommitEach, CreationInv
<1>4. \A m \in Viewers : PageInv(page[m], m)
  BY Rests DEF OInit, PageInv
<1>5. ASSUME NEW m \in People
      PROVE  Allowed(m)
  <2>1. CreatedBy(m) = {} /\ Underway(m) = {}
    BY <1>1, Rests DEF OInit, CreatedBy, Underway, UnderWay
  <2>2. Cardinality({}) = 0
    BY FS_EmptySet
  <2>3. Cardinality(Creations) \in Nat
    BY OrganizationsAssumption, FS_CardinalityType
  <2>4. 0 + 0 <= Cardinality(Creations)
    BY <2>3
  <2> QED
    BY <2>1, <2>2, <2>4 DEF Allowed
<1> QED
  BY <1>2, <1>3, <1>4, <1>5 DEF OInv

LEMMA NextOInv == OInv /\ [ONext]_ovars => OInv'
<1> SUFFICES ASSUME OInv, [ONext]_ovars PROVE OInv'
  OBVIOUS
<1>1. ASSUME NEW q \in Creations, CreationStep(q)
      PROVE  OInv'
  BY <1>1, CreationStepKeeps, CommitKeeps DEF CreationStep
<1>2. ASSUME NEW o \in Orgs, OrganizationStep(o)
      PROVE  OInv'
  BY <1>2, JoinKeeps, LeaveOrganizationKeeps, OrganizationEnabledKeeps, DeleteOrganizationKeeps
  DEF OrganizationStep
<1>3. ASSUME NEW m \in Viewers, PageStep(m)
      PROVE  OInv'
  BY <1>3, PageStepKeeps
<1>4. CASE UNCHANGED ovars
  <2>1. UNCHANGED <<org, gone, current, page, creation>>
    BY <1>4 DEF ovars
  <2>2. OrganizationsTypeOK' /\ OneCommitEach'
    BY <2>1 DEF OInv, OrganizationsTypeOK, OneCommitEach, Existing
  <2>3. \A q \in Creations : CreationInv(creation[q])'
    BY <2>1 DEF OInv, CreationInv, AddressTaken, Existing
  <2>4. \A m \in Viewers : PageInv(page[m], m)'
    BY <2>1 DEF OInv, PageInv, ActiveMember, Enabled, Existing
  <2>5. \A m \in People : Allowed(m)'
    BY <2>1 DEF OInv, Allowed, CreatedBy, Underway, Existing
  <2> QED
    BY <2>2, <2>3, <2>4, <2>5 DEF OInv
<1> QED
  BY <1>1, <1>2, <1>3, <1>4 DEF ONext

(* Creations and pages rely on what the other requests leave them: the      *)
(* address that is about to be committed is free, and what a page listed is *)
(* still the member's, or the page was told.                                *)
THEOREM OrganizationsRely == OSpec => []OInv
<1> QED
  BY InitOInv, NextOInv, PTL DEF OSpec

(* The types of the organizations, and an address leads to one of them,     *)
(* whatever creations overlap.                                              *)
THEOREM AddressesAreUnique == OSpec => []OrganizationsTypeOK
<1>1. OInv => OrganizationsTypeOK
  BY DEF OInv
<1> QED
  BY <1>1, OrganizationsRely, PTL

(* The home page of a member with an organization is of one that was the    *)
(* member's when it was begun, and fails only if memberships changed        *)
(* meanwhile.                                                               *)
THEOREM HomePagesLoad == OSpec => []HomePageLoads
<1>1. OInv => HomePageLoads
  BY DEF OInv, HomePageLoads, PageInv
<1> QED
  BY <1>1, OrganizationsRely, PTL

(* A member creates no more organizations than there are creations at a     *)
(* time: the check and the INSERT are apart, but each creation has one.     *)
THEOREM CreationsAreBounded == OSpec => []OneEachPerRequest
<1>1. ASSUME OInv, NEW m \in People
      PROVE  Cardinality(CreatedBy(m)) <= Cardinality(Creations)
  <2>1. Cardinality(CreatedBy(m)) \in Nat /\ Cardinality(Underway(m)) \in Nat
    BY CreatedAreFinite
  <2>2. Cardinality(Creations) \in Nat
    BY OrganizationsAssumption, FS_CardinalityType
  <2>3. Cardinality(CreatedBy(m)) + Cardinality(Underway(m)) <= Cardinality(Creations)
    BY <1>1 DEF OInv, Allowed
  <2> QED
    BY <2>1, <2>2, <2>3
<1>2. OInv => OneEachPerRequest
  BY <1>1 DEF OneEachPerRequest
<1> QED
  BY <1>2, OrganizationsRely, PTL

-----------------------------------------------------------------------------
(***************************************************************************)
(* ADMINISTRATION.  An entry that is due is on an administrator's desk, so *)
(* that the log is counted together with the desks.                        *)
(***************************************************************************)

DoneTo(x) == events[x] + unlogged[x]
Handled(x) ==
  {a \in Admins : desk[a].action = x /\ desk[a].step \in {"load", "act", "audit"}}
Due(x) == {a \in Admins : desk[a].step = "audit" /\ desk[a].action = x}
Delivering == {a \in Admins : desk[a].step = "deliver"}

DeskInv(d) ==
  /\ d.step = "act" => d.action \notin Exports
  /\ d.step \in {"load", "deliver"} => d.action \in Exports

UserStates == {"enabled", "disabled", "deleted"}
HopStates == {"open", "accepted", "canceled", "completed", "expired", "deleted"}
(* A hop does not outlive its organization. *)
SubjectsInv ==
  /\ subject[OrganizationOf] \in {"enabled", "disabled", "deleted"}
  /\ subject[HopOf] \in HopStates
  /\ subject[OrganizationOf] = "deleted" => subject[HopOf] = "deleted"
  /\ subject[ReportOf] \in {"reported", "resolved", "deleted"}
  /\ \A u \in Users : subject[u] \in UserStates

AdmInv ==
  /\ AdministrationTypeOK /\ SubjectsInv
  /\ \A a \in Admins : DeskInv(desk[a])
  /\ \A x \in Actions : DoneTo(x) + Cardinality(Handled(x)) <= begun
  /\ AuditAgrees

(* An action is of one kind, and on what that kind is about. *)
LEMMA ActionKinds ==
  ASSUME NEW x \in Actions
  PROVE  \E verb, on :
           /\ x = <<verb, on>> /\ x[1] = verb /\ x[2] = on
           /\ \/ verb \in {"organization.disable", "organization.enable"} /\ on = OrganizationOf
              \/ verb \in {"hop.expire", "hop.delete"} /\ on = HopOf
              \/ verb \in {"moderation.dismiss", "moderation.delete"} /\ on = ReportOf
              \/ verb \in {"user.disable", "user.enable", "user.delete"} \cup Recoveries /\ on \in Users
              \/ x \in Exports /\ verb = "audit.export" /\ on = Log
  BY DEF Actions, OrganizationActions, ModerationActions, UserActions, Exports

LEMMA DeskFields ==
  ASSUME AdmInv, NEW a \in Admins
  PROVE  /\ desk[a] \in Desk /\ desk[a].action \in Actions
         /\ desk[a].step \in {"idle", "load", "act", "audit", "deliver"}
         /\ DeskInv(desk[a])
<1>1. desk[a] \in Desk
  BY DEF AdmInv, AdministrationTypeOK
<1> QED
  BY <1>1 DEF Desk, AdmInv

LEMMA AtRestIsDesk == AtRest \in Desk /\ AtRest.step = "idle"
<1>1. <<"audit.export", Log>> \in Exports
  BY DEF Exports
<1>2. (CHOOSE e \in Exports : TRUE) \in Exports
  BY <1>1
<1>3. Exports \subseteq Actions
  BY DEF Actions
<1> QED
  BY <1>2, <1>3 DEF AtRest, Desk

LEMMA Bounds ==
  ASSUME AdmInv, NEW x \in Actions
  PROVE  /\ events[x] \in Nat /\ unlogged[x] \in Nat /\ files \in Nat /\ begun \in Nat
         /\ events[x] <= MaxEntries /\ unlogged[x] <= MaxEntries
         /\ files <= MaxEntries /\ begun <= MaxEntries /\ MaxEntries \in Nat
         /\ DoneTo(x) \in Nat
  BY AdministrationAssumption DEF AdmInv, AdministrationTypeOK, DoneTo

(* Two sets that differ by one element at most. *)
LEMMA OneDiffers ==
  ASSUME NEW S, IsFiniteSet(S), NEW T, NEW a, S \ {a} = T \ {a}
  PROVE  /\ IsFiniteSet(T) /\ Cardinality(S) \in Nat /\ Cardinality(T) \in Nat
         /\ (a \in S <=> a \in T) => Cardinality(T) = Cardinality(S)
         /\ a \in S /\ a \notin T => Cardinality(T) + 1 = Cardinality(S)
         /\ a \notin S /\ a \in T => Cardinality(T) = Cardinality(S) + 1
<1>1. Cardinality(S) \in Nat
  BY FS_CardinalityType
<1>2. CASE a \in S /\ a \in T
  <2>1. T = S
    BY <1>2
  <2> QED
    BY <1>1, <1>2, <2>1
<1>3. CASE a \notin S /\ a \notin T
  <2>1. T = S
    BY <1>3
  <2> QED
    BY <1>1, <1>3, <2>1
<1>4. CASE a \in S /\ a \notin T
  <2>1. T = S \ {a}
    BY <1>4
  <2>2. IsFiniteSet(S \ {a}) /\ Cardinality(S \ {a}) = Cardinality(S) - 1
    BY <1>4, FS_RemoveElement
  <2>3. Cardinality(T) \in Nat
    BY <2>1, <2>2, FS_CardinalityType
  <2> QED
    BY <1>1, <1>4, <2>1, <2>2, <2>3
<1>5. CASE a \notin S /\ a \in T
  <2>1. T = S \cup {a}
    BY <1>5
  <2>2. IsFiniteSet(S \cup {a}) /\ Cardinality(S \cup {a}) = Cardinality(S) + 1
    BY <1>5, FS_AddElement
  <2>3. Cardinality(T) \in Nat
    BY <2>1, <2>2, FS_CardinalityType
  <2> QED
    BY <1>1, <1>5, <2>1, <2>2, <2>3
<1> QED
  BY <1>2, <1>3, <1>4, <1>5

(* What an administrator's next step changes in the counts. *)
LEMMA DueMoves ==
  ASSUME AdmInv, NEW a \in Admins, NEW d \in Desk, desk' = [desk EXCEPT ![a] = d], NEW x \in Actions
  PROVE  /\ Cardinality(Due(x)) \in Nat /\ Cardinality(Due(x))' \in Nat
         /\ (a \in Due(x) <=> d.step = "audit" /\ d.action = x)
              => Cardinality(Due(x))' = Cardinality(Due(x))
         /\ a \in Due(x) /\ ~(d.step = "audit" /\ d.action = x)
              => Cardinality(Due(x))' + 1 = Cardinality(Due(x))
         /\ a \notin Due(x) /\ d.step = "audit" /\ d.action = x
              => Cardinality(Due(x))' = Cardinality(Due(x)) + 1
<1>1. desk'[a] = d /\ \A b \in Admins \ {a} : desk'[b] = desk[b]
  BY DEF AdmInv, AdministrationTypeOK
<1> PICK S, T : S = Due(x) /\ T = Due(x)'
  OBVIOUS
<1>2. S \ {a} = T \ {a} /\ (a \in T <=> d.step = "audit" /\ d.action = x)
  BY <1>1 DEF Due
<1>3. S \subseteq Admins /\ IsFiniteSet(Admins)
  BY AdministrationAssumption DEF Due
<1>4. IsFiniteSet(S)
  BY <1>3, FS_Subset
<1>5. /\ Cardinality(S) \in Nat /\ Cardinality(T) \in Nat
      /\ (a \in S <=> a \in T) => Cardinality(T) = Cardinality(S)
      /\ a \in S /\ a \notin T => Cardinality(T) + 1 = Cardinality(S)
      /\ a \notin S /\ a \in T => Cardinality(T) = Cardinality(S) + 1
  BY <1>2, <1>4, OneDiffers
<1> QED
  BY <1>2, <1>5

LEMMA HandledMoves ==
  ASSUME AdmInv, NEW a \in Admins, NEW d \in Desk, desk' = [desk EXCEPT ![a] = d], NEW x \in Actions
  PROVE  /\ Cardinality(Handled(x)) \in Nat /\ Cardinality(Handled(x))' \in Nat
         /\ (a \in Handled(x) <=> d.action = x /\ d.step \in {"load", "act", "audit"})
              => Cardinality(Handled(x))' = Cardinality(Handled(x))
         /\ a \in Handled(x) /\ ~(d.action = x /\ d.step \in {"load", "act", "audit"})
              => Cardinality(Handled(x))' + 1 = Cardinality(Handled(x))
         /\ a \notin Handled(x) /\ d.action = x /\ d.step \in {"load", "act", "audit"}
              => Cardinality(Handled(x))' = Cardinality(Handled(x)) + 1
<1>1. desk'[a] = d /\ \A b \in Admins \ {a} : desk'[b] = desk[b]
  BY DEF AdmInv, AdministrationTypeOK
<1> PICK S, T : S = Handled(x) /\ T = Handled(x)'
  OBVIOUS
<1>2. S \ {a} = T \ {a} /\ (a \in T <=> d.action = x /\ d.step \in {"load", "act", "audit"})
  BY <1>1 DEF Handled
<1>3. S \subseteq Admins /\ IsFiniteSet(Admins)
  BY AdministrationAssumption DEF Handled
<1>4. IsFiniteSet(S)
  BY <1>3, FS_Subset
<1>5. /\ Cardinality(S) \in Nat /\ Cardinality(T) \in Nat
      /\ (a \in S <=> a \in T) => Cardinality(T) = Cardinality(S)
      /\ a \in S /\ a \notin T => Cardinality(T) + 1 = Cardinality(S)
      /\ a \notin S /\ a \in T => Cardinality(T) = Cardinality(S) + 1
  BY <1>2, <1>4, OneDiffers
<1> QED
  BY <1>2, <1>5

LEMMA DeliveringMoves ==
  ASSUME AdmInv, NEW a \in Admins, NEW d \in Desk, desk' = [desk EXCEPT ![a] = d]
  PROVE  /\ Cardinality(Delivering) \in Nat /\ Cardinality(Delivering)' \in Nat
         /\ (a \in Delivering <=> d.step = "deliver")
              => Cardinality(Delivering)' = Cardinality(Delivering)
         /\ a \in Delivering /\ ~(d.step = "deliver")
              => Cardinality(Delivering)' + 1 = Cardinality(Delivering)
         /\ a \notin Delivering /\ d.step = "deliver"
              => Cardinality(Delivering)' = Cardinality(Delivering) + 1
<1>1. desk'[a] = d /\ \A b \in Admins \ {a} : desk'[b] = desk[b]
  BY DEF AdmInv, AdministrationTypeOK
<1> PICK S, T : S = Delivering /\ T = Delivering'
  OBVIOUS
<1>2. S \ {a} = T \ {a} /\ (a \in T <=> d.step = "deliver")
  BY <1>1 DEF Delivering
<1>3. S \subseteq Admins /\ IsFiniteSet(Admins)
  BY AdministrationAssumption DEF Delivering
<1>4. IsFiniteSet(S)
  BY <1>3, FS_Subset
<1>5. /\ Cardinality(S) \in Nat /\ Cardinality(T) \in Nat
      /\ (a \in S <=> a \in T) => Cardinality(T) = Cardinality(S)
      /\ a \in S /\ a \notin T => Cardinality(T) + 1 = Cardinality(S)
      /\ a \notin S /\ a \in T => Cardinality(T) = Cardinality(S) + 1
  BY <1>2, <1>4, OneDiffers
<1> QED
  BY <1>2, <1>5

EndingAgrees(x) ==
  /\ Accounted(x) <= 1 /\ (Accounted(x) = 1 => HasEnded(x))
  /\ HasEnded(x) => Accounted(x) = 1 \/ EndedOtherwise(x)
EndingsAgree ==
  (\A x \in Ending : EndingAgrees(x)) /\ (\E x \in HopEndings : Accounted(x) = 0)
ReportsAgree ==
  /\ Decisions <= 1
  /\ subject[ReportOf] # "deleted" => (Decisions = 1 <=> subject[ReportOf] = "resolved")
UserAgrees(m) ==
  /\ subject[m] = "disabled" => m \in closed \/ Accounted(<<"user.disable", m>>) > 0
  /\ subject[m] = "enabled" /\ m \in closed => Accounted(<<"user.enable", m>>) > 0
DisablingsAgree ==
  /\ subject[OrganizationOf] = "disabled" => Accounted(<<"organization.disable", OrganizationOf>>) > 0
  /\ \A m \in Users : UserAgrees(m)
ExportsAgree == \A e \in Exports : files + Cardinality(Delivering) <= events[e]

LEMMA AgreeParts ==
  AuditAgrees <=> EndingsAgree /\ ReportsAgree /\ DisablingsAgree /\ ExportsAgree
  BY DEF AuditAgrees, EndingsAgree, EndingAgrees, ReportsAgree, UserAgrees, DisablingsAgree,
         ExportsAgree, Delivering

LEMMA Kinds ==
  /\ Ending \subseteq Actions \ Exports /\ HopEndings \subseteq Ending
  /\ <<"moderation.dismiss", ReportOf>> \in Actions \ Exports
  /\ <<"moderation.delete", ReportOf>> \in Actions \ Exports
  /\ <<"organization.disable", OrganizationOf>> \in Actions \ Exports
  /\ \A m \in Users :
       <<"user.disable", m>> \in Actions \ Exports /\ <<"user.enable", m>> \in Actions \ Exports
  /\ Exports \subseteq Actions
  BY DEF Ending, HopEndings, Actions, OrganizationActions, ModerationActions, UserActions, Exports

(* An ending is of the hop, or of a user. *)
LEMMA EndingKinds ==
  ASSUME NEW x \in Ending
  PROVE  \E v, z :
           /\ x = <<v, z>> /\ x[1] = v /\ x[2] = z
           /\ \/ v \in {"hop.expire", "hop.delete"} /\ z = HopOf /\ x \in HopEndings
              \/ v = "user.delete" /\ z \in Users /\ x \notin HopEndings
           /\ HasEnded(x) <=> \/ subject[z] = IF v = "hop.expire" THEN "expired" ELSE "deleted"
                              \/ x \in HopEndings /\ subject[OrganizationOf] = "deleted"
           /\ EndedOtherwise(x) <=> \/ v = "hop.expire" /\ due
                                    \/ x \in HopEndings /\ subject[OrganizationOf] = "deleted"
<1>1. PICK v, z :
        /\ x = <<v, z>> /\ x[1] = v /\ x[2] = z
        /\ \/ v \in {"hop.expire", "hop.delete"} /\ z = HopOf /\ x \in HopEndings
           \/ v = "user.delete" /\ z \in Users /\ x \notin HopEndings
  BY DEF Ending, HopEndings
<1>2. HasEnded(x) <=> \/ subject[z] = IF v = "hop.expire" THEN "expired" ELSE "deleted"
                      \/ x \in HopEndings /\ subject[OrganizationOf] = "deleted"
  BY <1>1 DEF HasEnded, WithOrganization
<1>3. EndedOtherwise(x) <=> \/ v = "hop.expire" /\ due
                            \/ x \in HopEndings /\ subject[OrganizationOf] = "deleted"
  BY <1>1 DEF EndedOtherwise, WithOrganization
<1> QED
  BY <1>1, <1>2, <1>3

(* Steps that leave the subjects alone and account for what they did before. *)
LEMMA AuditKeeps ==
  ASSUME AdmInv, AdministrationTypeOK', UNCHANGED <<subject, due, closed>>,
         NEW a \in Admins, NEW d \in Desk, desk' = [desk EXCEPT ![a] = d], DeskInv(d),
         \A x \in Actions : DoneTo(x)' + Cardinality(Handled(x))' <= begun',
         \A x \in Actions \ Exports : Accounted(x)' = Accounted(x),
         \A e \in Exports : files' + Cardinality(Delivering)' <= events'[e]
  PROVE  AdmInv'
<1>1. SubjectsInv'
  BY DEF AdmInv, SubjectsInv
<1>2. \A b \in Admins : DeskInv(desk[b])'
  <2>1. \A b \in Admins : desk'[b] = d \/ desk'[b] = desk[b]
    BY DEF AdmInv, AdministrationTypeOK
  <2>2. \A b \in Admins : DeskInv(desk'[b])
    BY <2>1 DEF AdmInv
  <2> QED
    BY <2>2 DEF DeskInv
<1>3. EndingsAgree' /\ ReportsAgree' /\ DisablingsAgree'
  <2>1. EndingsAgree /\ ReportsAgree /\ DisablingsAgree
    BY AgreeParts DEF AdmInv
  <2>2. EndingsAgree'
    <3>1. ASSUME NEW x \in Ending PROVE EndingAgrees(x)'
      <4>1. EndingAgrees(x) /\ Accounted(x)' = Accounted(x)
        BY <2>1, Kinds DEF EndingsAgree
      <4>2. (HasEnded(x)' <=> HasEnded(x)) /\ (EndedOtherwise(x)' <=> EndedOtherwise(x))
        BY DEF HasEnded, EndedOtherwise, WithOrganization
      <4> QED
        BY <4>1, <4>2 DEF EndingAgrees
    <3>2. (\E x \in HopEndings : Accounted(x) = 0)'
      <4> PICK x \in HopEndings : Accounted(x) = 0
        BY <2>1 DEF EndingsAgree
      <4>1. Accounted(x)' = 0
        BY Kinds
      <4> QED
        BY <4>1 DEF HopEndings
    <3> QED
      BY <3>1, <3>2 DEF EndingsAgree, Ending, HopEndings
  <2>3. ReportsAgree'
    BY <2>1, Kinds DEF ReportsAgree, Decisions
  <2>4. DisablingsAgree'
    BY <2>1, Kinds DEF DisablingsAgree, UserAgrees
  <2> QED
    BY <2>2, <2>3, <2>4
<1>4. ExportsAgree'
  BY DEF ExportsAgree
<1>5. AuditAgrees'
  BY <1>3, <1>4, AgreeParts, PTL
<1> QED
  BY <1>1, <1>2, <1>5 DEF AdmInv

LEMMA BeginKeeps ==
  ASSUME AdmInv, NEW a \in Admins, NEW x \in Actions, NEW step \in {"load", "act"},
         step = "load" <=> x \in Exports, Begin(a, x, step)
  PROVE  AdmInv'
<1> PICK d : d = [AtRest EXCEPT !.step = step, !.action = x]
  OBVIOUS
<1>1. d \in Desk /\ d.step = step /\ d.action = x
  BY AtRestIsDesk DEF Desk
<1>2. /\ desk[a].step = "idle" /\ begun < MaxEntries /\ begun' = begun + 1
      /\ desk' = [desk EXCEPT ![a] = d] /\ UNCHANGED <<subject, due, closed, events, unlogged, files>>
  BY DEF Begin, AtDesk, others
<1>3. DeskInv(d)
  BY <1>1 DEF DeskInv
<1>4. ASSUME NEW y \in Actions
      PROVE  /\ Cardinality(Due(y))' = Cardinality(Due(y))
             /\ Cardinality(Delivering)' = Cardinality(Delivering)
             /\ Cardinality(Handled(y)) \in Nat /\ Cardinality(Handled(y))' \in Nat
             /\ Cardinality(Handled(y))' <= Cardinality(Handled(y)) + 1
  <2>1. a \notin Due(y) /\ a \notin Handled(y) /\ a \notin Delivering
    BY <1>2 DEF Due, Handled, Delivering
  <2>2. d.step # "audit" /\ d.step # "deliver" /\ desk' = [desk EXCEPT ![a] = d]
    BY <1>1, <1>2
  <2>3. Cardinality(Due(y))' = Cardinality(Due(y))
    BY <1>1, <2>1, <2>2, DueMoves
  <2>4. Cardinality(Delivering)' = Cardinality(Delivering)
    BY <1>1, <2>1, <2>2, DeliveringMoves
  <2>5. /\ Cardinality(Handled(y)) \in Nat /\ Cardinality(Handled(y))' \in Nat
        /\ \/ Cardinality(Handled(y))' = Cardinality(Handled(y))
           \/ Cardinality(Handled(y))' = Cardinality(Handled(y)) + 1
    <3>1. d.step \in {"load", "act", "audit"}
      BY <1>1
    <3>2. CASE d.action = y
      BY <1>1, <2>1, <2>2, <3>1, <3>2, HandledMoves
    <3>3. CASE d.action # y
      BY <1>1, <2>1, <2>2, <3>3, HandledMoves
    <3> QED
      BY <3>2, <3>3
  <2> QED
    BY <2>3, <2>4, <2>5
<1>5. \A y \in Actions : DoneTo(y)' + Cardinality(Handled(y))' <= begun'
  <2> TAKE y \in Actions
  <2>1. DoneTo(y)' = DoneTo(y) /\ DoneTo(y) \in Nat /\ begun \in Nat
    BY <1>2, Bounds DEF DoneTo
  <2>2. DoneTo(y) + Cardinality(Handled(y)) <= begun
    BY DEF AdmInv
  <2> QED
    BY <1>2, <1>4, <2>1, <2>2
<1>6. \A y \in Actions \ Exports : Accounted(y)' = Accounted(y)
  BY <1>2, <1>4 DEF Accounted, Waiting, Due
<1>7. \A e \in Exports : files' + Cardinality(Delivering)' <= events'[e]
  <2>1. \A e \in Exports : files + Cardinality(Delivering) <= events[e]
    BY AgreeParts DEF AdmInv, ExportsAgree
  <2> QED
    BY <1>2, <1>4, <2>1, Kinds
<1>8. AdministrationTypeOK'
  <2>1. begun + 1 \in 0..MaxEntries
    BY <1>2, AdministrationAssumption DEF AdmInv, AdministrationTypeOK
  <2> QED
    BY <1>1, <1>2, <2>1 DEF AdmInv, AdministrationTypeOK
<1> QED
  BY <1>1, <1>2, <1>3, <1>5, <1>6, <1>7, <1>8, AuditKeeps

LEMMA BeginningsKeep ==
  ASSUME AdmInv, NEW a \in Admins,
         \/ BeginOrganizationAction(a) \/ BeginModerationAction(a)
         \/ BeginUserAction(a) \/ BeginAuditExport(a)
  PROVE  AdmInv'
<1>1. OrganizationActions \cup ModerationActions \cup UserActions \subseteq Actions \ Exports
  <2>1. OrganizationActions \cup ModerationActions \cup UserActions \subseteq Actions
    BY DEF Actions
  <2>2. \A x \in OrganizationActions \cup ModerationActions : x \notin Exports
    BY DEF OrganizationActions, ModerationActions, Exports
  <2>3. \A x \in UserActions : x \notin Exports
    BY AdministrationAssumption DEF UserActions, Exports, Verbs
  <2> QED
    BY <2>1, <2>2, <2>3
<1>2. \/ \E x \in OrganizationActions \cup ModerationActions \cup UserActions : Begin(a, x, "act")
      \/ \E x \in Exports : Begin(a, x, "load")
  BY DEF BeginOrganizationAction, BeginModerationAction, BeginUserAction, BeginAuditExport
<1> QED
  BY <1>1, <1>2, Kinds, BeginKeeps

(* The listing of an export is made before its entry. *)
LEMMA ListingKeeps ==
  ASSUME AdmInv, NEW a \in Admins, ListAdminAuditEvents(a)
  PROVE  AdmInv'
<1> PICK b \in Desk : b = desk[a] /\ b.action \in Actions /\ DeskInv(b)
  BY DeskFields
<1> PICK d : d = [b EXCEPT !.step = "audit"]
  OBVIOUS
<1>1. d \in Desk /\ d.step = "audit" /\ d.action = b.action
  BY DEF Desk
<1>2. /\ b.step = "load" /\ desk' = [desk EXCEPT ![a] = d]
      /\ UNCHANGED <<subject, due, closed, events, unlogged, files, begun>>
  BY DEF ListAdminAuditEvents, AtDesk, others, log
<1>3. DeskInv(d) /\ b.action \in Exports
  BY <1>1, <1>2 DEF DeskInv
<1>4. ASSUME NEW y \in Actions
      PROVE  /\ y # b.action => Cardinality(Due(y))' = Cardinality(Due(y))
             /\ Cardinality(Delivering)' = Cardinality(Delivering)
             /\ Cardinality(Handled(y))' = Cardinality(Handled(y))
  <2>1. /\ a \notin Due(y) /\ a \notin Delivering
        /\ a \in Handled(y) <=> y = b.action
    BY <1>2 DEF Due, Handled, Delivering
  <2> QED
    BY <1>1, <1>2, <2>1, DueMoves, HandledMoves, DeliveringMoves
<1>5. \A y \in Actions : DoneTo(y)' + Cardinality(Handled(y))' <= begun'
  BY <1>2, <1>4 DEF AdmInv, DoneTo
<1>6. \A y \in Actions \ Exports : Accounted(y)' = Accounted(y)
  BY <1>2, <1>3, <1>4 DEF Accounted, Waiting, Due
<1>7. \A e \in Exports : files' + Cardinality(Delivering)' <= events'[e]
  <2>1. \A e \in Exports : files + Cardinality(Delivering) <= events[e]
    BY AgreeParts DEF AdmInv, ExportsAgree
  <2> QED
    BY <1>2, <1>4, <2>1, Kinds
<1>8. AdministrationTypeOK'
  BY <1>1, <1>2 DEF AdmInv, AdministrationTypeOK
<1> QED
  BY <1>1, <1>2, <1>3, <1>5, <1>6, <1>7, <1>8, AuditKeeps

(* An entry that is written is no longer due; the file of an export comes   *)
(* after it.                                                                *)
LEMMA EntryKeeps ==
  ASSUME AdmInv, NEW a \in Admins, WriteAdminAuditEvent(a)
  PROVE  AdmInv'
<1> PICK b \in Desk : b = desk[a] /\ b.action \in Actions /\ DeskInv(b)
  BY DeskFields
<1> PICK x \in Actions : x = b.action
  OBVIOUS
<1>1. /\ b.step = "audit" /\ events' = [events EXCEPT ![x] = events[x] + 1]
      /\ desk' = [desk EXCEPT ![a] = IF x \in Exports THEN [b EXCEPT !.step = "deliver"] ELSE AtRest]
      /\ UNCHANGED <<subject, due, closed, unlogged, files, begun>>
  BY DEF WriteAdminAuditEvent, AtDesk, Rest, others
<1> PICK d : d = IF x \in Exports THEN [b EXCEPT !.step = "deliver"] ELSE AtRest
  OBVIOUS
<1>2. /\ d \in Desk /\ d.step \notin {"load", "act", "audit"}
      /\ d.step = "deliver" <=> x \in Exports
      /\ d.step = "deliver" => d.action = x
  <2>1. CASE x \in Exports
    BY <2>1 DEF Desk
  <2>2. CASE x \notin Exports
    BY <2>2, AtRestIsDesk
  <2> QED
    BY <2>1, <2>2
<1>3. DeskInv(d) /\ desk' = [desk EXCEPT ![a] = d]
  BY <1>1, <1>2 DEF DeskInv
<1>4. /\ a \in Due(x) /\ a \in Handled(x) /\ a \notin Delivering
      /\ \A y \in Actions \ {x} : a \notin Due(y) /\ a \notin Handled(y)
  BY <1>1 DEF Due, Handled, Delivering
<1>5. /\ Cardinality(Due(x)) \in Nat /\ Cardinality(Due(x))' \in Nat
      /\ Cardinality(Due(x))' + 1 = Cardinality(Due(x))
      /\ \A y \in Actions \ {x} : Cardinality(Due(y))' = Cardinality(Due(y))
  BY <1>2, <1>3, <1>4, DueMoves
<1>6. /\ Cardinality(Handled(x)) \in Nat /\ Cardinality(Handled(x))' \in Nat
      /\ Cardinality(Handled(x))' + 1 = Cardinality(Handled(x))
      /\ \A y \in Actions \ {x} : Cardinality(Handled(y))' = Cardinality(Handled(y))
  BY <1>2, <1>3, <1>4, HandledMoves
<1>7. /\ Cardinality(Delivering) \in Nat /\ Cardinality(Delivering)' \in Nat
      /\ x \in Exports => Cardinality(Delivering)' = Cardinality(Delivering) + 1
      /\ x \notin Exports => Cardinality(Delivering)' = Cardinality(Delivering)
  BY <1>2, <1>3, <1>4, DeliveringMoves
<1>8. events'[x] = events[x] + 1 /\ \A y \in Actions \ {x} : events'[y] = events[y]
  BY <1>1 DEF AdmInv, AdministrationTypeOK
<1>9. events[x] \in Nat /\ unlogged[x] \in Nat /\ begun \in Nat /\ begun <= MaxEntries /\ MaxEntries \in Nat
  BY Bounds
<1>10. events[x] + unlogged[x] + Cardinality(Handled(x)) <= begun
  BY DEF AdmInv, DoneTo
<1>11. \A y \in Actions : DoneTo(y)' + Cardinality(Handled(y))' <= begun'
  <2> TAKE y \in Actions
  <2>1. CASE y = x
    BY <1>1, <1>6, <1>8, <1>9, <1>10, <2>1 DEF DoneTo
  <2>2. CASE y # x
    BY <1>1, <1>6, <1>8, <2>2 DEF AdmInv, DoneTo
  <2> QED
    BY <2>1, <2>2
<1>12. \A y \in Actions \ Exports : Accounted(y)' = Accounted(y)
  <2> TAKE y \in Actions \ Exports
  <2>1. Accounted(y) = events[y] + unlogged[y] + Cardinality(Due(y))
    BY DEF Accounted, Waiting, Due
  <2>2. Accounted(y)' = events'[y] + unlogged[y] + Cardinality(Due(y))'
    BY <1>1 DEF Accounted, Waiting, Due
  <2>3. CASE y = x
    BY <1>5, <1>8, <1>9, <2>1, <2>2, <2>3
  <2>4. CASE y # x
    BY <1>5, <1>8, <2>1, <2>2, <2>4
  <2> QED
    BY <2>3, <2>4
<1>13. \A e \in Exports : files' + Cardinality(Delivering)' <= events'[e]
  <2> TAKE e \in Exports
  <2>1. files + Cardinality(Delivering) <= events[e] /\ files \in Nat
    BY AgreeParts, Bounds DEF AdmInv, ExportsAgree
  <2>2. x \in Exports <=> e = x
    BY DEF Exports
  <2>3. e \in Actions
    BY Kinds
  <2>4. CASE e = x
    BY <1>1, <1>7, <1>8, <1>9, <2>1, <2>2, <2>4
  <2>5. CASE e # x
    BY <1>1, <1>7, <1>8, <2>1, <2>2, <2>3, <2>5
  <2> QED
    BY <2>4, <2>5
<1>14. AdministrationTypeOK'
  <2>1. events[x] + 1 \in 0..MaxEntries
    BY <1>6, <1>9, <1>10
  <2>2. events' \in [Actions -> 0..MaxEntries]
    BY <1>1, <2>1 DEF AdmInv, AdministrationTypeOK
  <2> QED
    BY <1>1, <1>2, <1>3, <2>2 DEF AdmInv, AdministrationTypeOK
<1> QED
  BY <1>1, <1>2, <1>3, <1>11, <1>12, <1>13, <1>14, AuditKeeps

(* An entry that fails is accounted for as such. *)
LEMMA NotLoggedKeeps ==
  ASSUME AdmInv, NEW a \in Admins, NotLogged(a)
  PROVE  AdmInv'
<1> PICK b \in Desk : b = desk[a] /\ b.action \in Actions /\ DeskInv(b)
  BY DeskFields
<1> PICK x \in Actions : x = b.action
  OBVIOUS
<1>1. /\ b.step = "audit" /\ unlogged' = [unlogged EXCEPT ![x] = unlogged[x] + 1]
      /\ desk' = [desk EXCEPT ![a] = AtRest] /\ UNCHANGED <<subject, due, closed, events, files, begun>>
  BY DEF NotLogged, AtDesk, Rest, others
<1> PICK d : d = AtRest
  OBVIOUS
<1>2. d \in Desk /\ d.step = "idle" /\ DeskInv(d) /\ desk' = [desk EXCEPT ![a] = d]
  BY <1>1, AtRestIsDesk DEF DeskInv
<1>4. /\ a \in Due(x) /\ a \in Handled(x) /\ a \notin Delivering
      /\ \A y \in Actions \ {x} : a \notin Due(y) /\ a \notin Handled(y)
  BY <1>1 DEF Due, Handled, Delivering
<1>5. /\ Cardinality(Due(x)) \in Nat /\ Cardinality(Due(x))' \in Nat
      /\ Cardinality(Due(x))' + 1 = Cardinality(Due(x))
      /\ \A y \in Actions \ {x} : Cardinality(Due(y))' = Cardinality(Due(y))
  BY <1>2, <1>4, DueMoves
<1>6. /\ Cardinality(Handled(x)) \in Nat /\ Cardinality(Handled(x))' \in Nat
      /\ Cardinality(Handled(x))' + 1 = Cardinality(Handled(x))
      /\ \A y \in Actions \ {x} : Cardinality(Handled(y))' = Cardinality(Handled(y))
  BY <1>2, <1>4, HandledMoves
<1>7. Cardinality(Delivering)' = Cardinality(Delivering)
  BY <1>2, <1>4, DeliveringMoves
<1>8. unlogged'[x] = unlogged[x] + 1 /\ \A y \in Actions \ {x} : unlogged'[y] = unlogged[y]
  BY <1>1 DEF AdmInv, AdministrationTypeOK
<1>9. events[x] \in Nat /\ unlogged[x] \in Nat /\ begun \in Nat /\ begun <= MaxEntries /\ MaxEntries \in Nat
  BY Bounds
<1>10. events[x] + unlogged[x] + Cardinality(Handled(x)) <= begun
  BY DEF AdmInv, DoneTo
<1>11. \A y \in Actions : DoneTo(y)' + Cardinality(Handled(y))' <= begun'
  <2> TAKE y \in Actions
  <2>1. CASE y = x
    BY <1>1, <1>6, <1>8, <1>9, <1>10, <2>1 DEF DoneTo
  <2>2. CASE y # x
    BY <1>1, <1>6, <1>8, <2>2 DEF AdmInv, DoneTo
  <2> QED
    BY <2>1, <2>2
<1>12. \A y \in Actions \ Exports : Accounted(y)' = Accounted(y)
  <2> TAKE y \in Actions \ Exports
  <2>1. Accounted(y) = events[y] + unlogged[y] + Cardinality(Due(y))
    BY DEF Accounted, Waiting, Due
  <2>2. Accounted(y)' = events[y] + unlogged'[y] + Cardinality(Due(y))'
    BY <1>1 DEF Accounted, Waiting, Due
  <2>3. CASE y = x
    BY <1>5, <1>8, <1>9, <2>1, <2>2, <2>3
  <2>4. CASE y # x
    BY <1>5, <1>8, <2>1, <2>2, <2>4
  <2> QED
    BY <2>3, <2>4
<1>13. \A e \in Exports : files' + Cardinality(Delivering)' <= events'[e]
  BY <1>1, <1>7, AgreeParts DEF AdmInv, ExportsAgree
<1>14. AdministrationTypeOK'
  <2>1. unlogged[x] + 1 \in 0..MaxEntries
    BY <1>6, <1>9, <1>10
  <2>2. unlogged' \in [Actions -> 0..MaxEntries]
    BY <1>1, <2>1 DEF AdmInv, AdministrationTypeOK
  <2> QED
    BY <1>1, <1>2, <2>2 DEF AdmInv, AdministrationTypeOK
<1> QED
  BY <1>1, <1>2, <1>11, <1>12, <1>13, <1>14, AuditKeeps

(* The end of a request with no entry due: a delivery, or a request that is *)
(* refused or abandoned.                                                    *)
LEMMA RestKeeps ==
  ASSUME AdmInv, NEW a \in Admins, Rest(a), desk[a].step \in {"load", "act", "deliver"},
         \/ files' = files
         \/ desk[a].step = "deliver" /\ files' = files + 1,
         UNCHANGED <<subject, due, closed, events, unlogged, begun>>
  PROVE  AdmInv'
<1> PICK b \in Desk : b = desk[a] /\ b.action \in Actions /\ DeskInv(b)
  BY DeskFields
<1> PICK x \in Actions : x = b.action
  OBVIOUS
<1> PICK d : d = AtRest
  OBVIOUS
<1>2. d \in Desk /\ d.step = "idle" /\ DeskInv(d) /\ desk' = [desk EXCEPT ![a] = d]
  BY AtRestIsDesk DEF DeskInv, Rest
<1>3. ASSUME NEW y \in Actions
      PROVE  /\ Cardinality(Due(y))' = Cardinality(Due(y))
             /\ Cardinality(Handled(y)) \in Nat /\ Cardinality(Handled(y))' \in Nat
             /\ Cardinality(Handled(y))' <= Cardinality(Handled(y))
  <2>1. a \notin Due(y)
    BY DEF Due
  <2>2. Cardinality(Due(y))' = Cardinality(Due(y))
    BY <1>2, <2>1, DueMoves
  <2>3. /\ Cardinality(Handled(y)) \in Nat /\ Cardinality(Handled(y))' \in Nat
        /\ \/ Cardinality(Handled(y))' = Cardinality(Handled(y))
           \/ Cardinality(Handled(y))' + 1 = Cardinality(Handled(y))
    BY <1>2, HandledMoves
  <2> QED
    BY <2>2, <2>3
<1>4. /\ Cardinality(Delivering) \in Nat /\ Cardinality(Delivering)' \in Nat
      /\ b.step = "deliver" => Cardinality(Delivering)' + 1 = Cardinality(Delivering)
      /\ b.step # "deliver" => Cardinality(Delivering)' = Cardinality(Delivering)
  <2>1. a \in Delivering <=> b.step = "deliver"
    BY DEF Delivering
  <2> QED
    BY <1>2, <2>1, DeliveringMoves
<1>5. \A y \in Actions : DoneTo(y)' + Cardinality(Handled(y))' <= begun'
  <2> TAKE y \in Actions
  <2>1. DoneTo(y)' = DoneTo(y) /\ DoneTo(y) \in Nat /\ begun \in Nat
    BY Bounds DEF DoneTo
  <2>2. DoneTo(y) + Cardinality(Handled(y)) <= begun
    BY DEF AdmInv
  <2> QED
    BY <1>3, <2>1, <2>2
<1>6. \A y \in Actions \ Exports : Accounted(y)' = Accounted(y)
  BY <1>3 DEF Accounted, Waiting, Due
<1>7. files' \in Nat /\ \A e \in Exports : files' + Cardinality(Delivering)' <= events'[e]
  <2>1. <<"audit.export", Log>> \in Exports
    BY DEF Exports
  <2>2. files \in Nat
    BY <2>1, Bounds, Kinds
  <2>3. \A e \in Exports : files + Cardinality(Delivering) <= events[e] /\ events[e] \in Nat
    BY AgreeParts, Bounds, Kinds DEF AdmInv, ExportsAgree
  <2> QED
    BY <1>4, <2>2, <2>3
<1>8. AdministrationTypeOK'
  <2>1. <<"audit.export", Log>> \in Exports /\ <<"audit.export", Log>> \in Actions
    BY Kinds DEF Exports
  <2> PICK e \in Exports : e \in Actions
    BY <2>1
  <2>2. events[e] \in Nat /\ events[e] <= MaxEntries /\ MaxEntries \in Nat
    BY Bounds
  <2>3. files' + Cardinality(Delivering)' <= events[e]
    BY <1>7
  <2>4. files' \in 0..MaxEntries
    BY <1>4, <1>7, <2>2, <2>3
  <2> QED
    BY <1>2, <2>4 DEF AdmInv, AdministrationTypeOK
<1>9. UNCHANGED <<subject, due, closed>>
  OBVIOUS
<1> QED
  BY <1>2, <1>5, <1>6, <1>7, <1>8, <1>9, AuditKeeps

LEMMA OtherEndsKeep ==
  ASSUME AdmInv, NEW a \in Admins, DeliverExport(a) \/ Abandon(a)
  PROVE  AdmInv'
  BY RestKeeps DEF DeliverExport, Abandon, AtDesk, others, log

(* What an action makes of what it is about, if it is accepted.             *)
LEMMA Effects ==
  ASSUME NEW x \in Actions \ Exports, NEW verb, NEW on, x = <<verb, on>>, NEW was, Accepted(verb, was),
         on = OrganizationOf => was \in {"enabled", "disabled", "deleted"},
         on = HopOf => was \in HopStates,
         on = ReportOf => was \in {"reported", "resolved", "deleted"},
         on \in Users => was \in UserStates,
         NEW n, n = Becomes(verb, was)
  PROVE  /\ on = OrganizationOf =>
              /\ was # "deleted" /\ n \in {"enabled", "disabled"}
              /\ n = "disabled" => verb = "organization.disable"
         /\ on = HopOf =>
              /\ was \notin {"expired", "deleted"}
              /\ \/ verb = "hop.expire" /\ n = "expired"
                 \/ verb = "hop.delete" /\ n = "deleted"
         /\ on = ReportOf =>
              /\ verb \in {"moderation.dismiss", "moderation.delete"}
              /\ was = "reported" /\ n = "resolved"
         /\ on \in Users =>
              /\ n \in UserStates
              /\ n = "disabled" => was = "disabled" \/ verb = "user.disable"
              /\ n = "enabled" => was = "enabled" \/ verb = "user.enable"
              /\ IF verb = "user.delete" THEN was # "deleted" /\ n = "deleted"
                 ELSE n = "deleted" <=> was = "deleted"
         /\ on # HopOf => verb # "hop.delete"
         /\ on \in {OrganizationOf, HopOf, ReportOf} \cup Users
<1>1. PICK verb2, on2 :
           /\ x = <<verb2, on2>>
           /\ \/ verb2 \in {"organization.disable", "organization.enable"} /\ on2 = OrganizationOf
              \/ verb2 \in {"hop.expire", "hop.delete"} /\ on2 = HopOf
              \/ verb2 \in {"moderation.dismiss", "moderation.delete"} /\ on2 = ReportOf
              \/ verb2 \in {"user.disable", "user.enable", "user.delete"} \cup Recoveries /\ on2 \in Users
  BY ActionKinds
<1>2. verb2 = verb /\ on2 = on
  BY <1>1
<1>3. on \notin {OrganizationOf, HopOf, ReportOf} \/ on \notin Users
  BY AdministrationAssumption
<1>4. CASE verb \in {"organization.disable", "organization.enable"} /\ on = OrganizationOf
  <2>1. verb \notin Recoveries /\ on \notin Users
    BY <1>3, <1>4, AdministrationAssumption DEF Verbs
  <2>2. was # "deleted"
    BY <1>4 DEF Accepted
  <2> QED
    BY <1>4, <2>1, <2>2 DEF Becomes, OrganizationOf, HopOf, ReportOf
<1>5. CASE verb \in {"hop.expire", "hop.delete"} /\ on = HopOf
  <2>1. verb \notin Recoveries /\ on \notin Users
    BY <1>3, <1>5, AdministrationAssumption DEF Verbs
  <2>2. was \notin {"expired", "deleted"}
    BY <1>5 DEF Accepted
  <2> QED
    BY <1>5, <2>1, <2>2 DEF Becomes, OrganizationOf, HopOf, ReportOf
<1>6. CASE verb \in {"moderation.dismiss", "moderation.delete"} /\ on = ReportOf
  <2>1. verb \notin Recoveries /\ on \notin Users
    BY <1>3, <1>6, AdministrationAssumption DEF Verbs
  <2>2. was = "reported"
    BY <1>6 DEF Accepted
  <2> QED
    BY <1>6, <2>1, <2>2 DEF Becomes, OrganizationOf, HopOf, ReportOf
<1>7. CASE verb \in {"user.disable", "user.enable", "user.delete"} \cup Recoveries /\ on \in Users
  <2>1. /\ verb \in Recoveries => verb \notin Verbs
        /\ on \notin {OrganizationOf, HopOf, ReportOf} /\ was \in UserStates
    BY <1>3, <1>7, AdministrationAssumption
  <2>2. verb = "user.delete" => was # "deleted"
    BY DEF Accepted
  <2>3. n \in UserStates
    BY <1>7, <2>1, <2>2 DEF Becomes, UserStates, Verbs
  <2>4. /\ n = "disabled" => was = "disabled" \/ verb = "user.disable"
        /\ n = "enabled" => was = "enabled" \/ verb = "user.enable"
    BY <1>7, <2>1, <2>2 DEF Becomes, Verbs
  <2>5. IF verb = "user.delete" THEN was # "deleted" /\ n = "deleted" ELSE n = "deleted" <=> was = "deleted"
    BY <1>7, <2>1, <2>2 DEF Becomes, Verbs
  <2>6. verb # "hop.delete"
    BY <1>7, <2>1 DEF Verbs
  <2> QED
    BY <1>7, <2>1, <2>3, <2>4, <2>5, <2>6
<1> QED
  BY <1>1, <1>2, <1>4, <1>5, <1>6, <1>7

(* An action that takes effect is due to be logged, once. *)
LEMMA EffectKeeps ==
  ASSUME AdmInv, NEW a \in Admins, TakeEffect(a)
  PROVE  AdmInv'
<1> PICK b \in Desk : b = desk[a] /\ b.action \in Actions /\ DeskInv(b)
  BY DeskFields
<1> PICK x \in Actions : x = b.action
  OBVIOUS
<1> PICK verb, on : x = <<verb, on>> /\ x[1] = verb /\ x[2] = on
  BY ActionKinds
<1> PICK was : was = subject[on]
  OBVIOUS
<1>1. b.step = "act" /\ x \notin Exports /\ UNCHANGED <<due, closed, events, unlogged, files, begun>>
  BY DEF TakeEffect, AtDesk, DeskInv, others, log
<1>2. CASE ~Accepted(verb, was)
  <2>1. Rest(a) /\ subject' = subject
    BY <1>2 DEF TakeEffect
  <2> QED
    BY <1>1, <2>1, RestKeeps
<1>3. CASE Accepted(verb, was)
  <2> PICK n : n = Becomes(verb, was)
    OBVIOUS
  <2> PICK d : d = [b EXCEPT !.step = "audit"]
    OBVIOUS
  <2>1. d \in Desk /\ d.step = "audit" /\ d.action = x
    BY DEF Desk
  <2> PICK h \in HopAfter(verb, subject[HopOf]) :
        subject' = [subject EXCEPT
          ![HopOf] = h,
          ![ReportOf] = IF verb = "hop.delete" THEN "deleted" ELSE @,
          ![on] = n]
    BY <1>3 DEF TakeEffect
  <2>2. desk' = [desk EXCEPT ![a] = d]
    BY <1>3 DEF TakeEffect
  <2>3. /\ on = OrganizationOf =>
             /\ was # "deleted" /\ n \in {"enabled", "disabled"}
             /\ n = "disabled" => verb = "organization.disable"
        /\ on = HopOf =>
             /\ was \notin {"expired", "deleted"}
             /\ \/ verb = "hop.expire" /\ n = "expired"
                \/ verb = "hop.delete" /\ n = "deleted"
        /\ on = ReportOf =>
             /\ verb \in {"moderation.dismiss", "moderation.delete"}
             /\ was = "reported" /\ n = "resolved"
        /\ on \in Users =>
             /\ n \in UserStates
             /\ n = "disabled" => was = "disabled" \/ verb = "user.disable"
             /\ n = "enabled" => was = "enabled" \/ verb = "user.enable"
             /\ IF verb = "user.delete" THEN was # "deleted" /\ n = "deleted"
                ELSE n = "deleted" <=> was = "deleted"
        /\ on # HopOf => verb # "hop.delete"
        /\ on \in {OrganizationOf, HopOf, ReportOf} \cup Users
    <3>1. /\ on = OrganizationOf => was \in {"enabled", "disabled", "deleted"}
          /\ on = HopOf => was \in HopStates
          /\ on = ReportOf => was \in {"reported", "resolved", "deleted"}
          /\ on \in Users => was \in UserStates
      BY DEF AdmInv, SubjectsInv
    <3> QED
      BY <1>1, <1>3, <3>1, Effects
  <2>4. /\ h \in HopStates /\ (h = "deleted" <=> subject[HopOf] = "deleted")
        /\ h = "expired" <=> subject[HopOf] = "expired"
    BY DEF AdmInv, SubjectsInv, HopAfter, HopStates
  <2>5. n \in States /\ h \in States
    BY <2>3, <2>4 DEF UserStates, HopStates, States
  <2>6. /\ HopOf # ReportOf /\ HopOf # OrganizationOf /\ ReportOf # OrganizationOf
        /\ \A u \in Users : u \notin {HopOf, ReportOf, OrganizationOf}
    BY AdministrationAssumption DEF HopOf, ReportOf, OrganizationOf
  <2>7. /\ subject'[on] = n
        /\ on # HopOf => subject'[HopOf] = h
        /\ on # ReportOf => subject'[ReportOf] = IF verb = "hop.delete" THEN "deleted" ELSE subject[ReportOf]
        /\ \A z \in {OrganizationOf} \cup Users : z # on => subject'[z] = subject[z]
        /\ subject' \in [{OrganizationOf, HopOf, ReportOf} \cup Users -> States]
    <3>1. subject \in [{OrganizationOf, HopOf, ReportOf} \cup Users -> States]
      BY DEF AdmInv, AdministrationTypeOK
    <3> PICK r \in States : r = IF verb = "hop.delete" THEN "deleted" ELSE subject[ReportOf]
      BY <3>1 DEF States
    <3>2. subject' = [[[subject EXCEPT ![HopOf] = h] EXCEPT ![ReportOf] = r] EXCEPT ![on] = n]
      BY <2>6, <3>1
    <3> PICK f : f = [subject EXCEPT ![HopOf] = h]
      OBVIOUS
    <3>3. /\ f \in [{OrganizationOf, HopOf, ReportOf} \cup Users -> States] /\ f[HopOf] = h
          /\ \A z \in {OrganizationOf, HopOf, ReportOf} \cup Users : z # HopOf => f[z] = subject[z]
      BY <2>5, <3>1
    <3> PICK g : g = [f EXCEPT ![ReportOf] = r]
      OBVIOUS
    <3>4. /\ g \in [{OrganizationOf, HopOf, ReportOf} \cup Users -> States] /\ g[ReportOf] = r
          /\ \A z \in {OrganizationOf, HopOf, ReportOf} \cup Users : z # ReportOf => g[z] = f[z]
      BY <3>3
    <3>5. /\ subject' \in [{OrganizationOf, HopOf, ReportOf} \cup Users -> States]
          /\ subject'[on] = n
          /\ \A z \in {OrganizationOf, HopOf, ReportOf} \cup Users : z # on => subject'[z] = g[z]
      BY <2>3, <2>5, <3>2, <3>4
    <3> QED
      BY <2>6, <3>3, <3>4, <3>5
  <2>8. SubjectsInv'
    <3>1. SubjectsInv
      BY DEF AdmInv
    <3>2. /\ subject'[OrganizationOf] \in {"enabled", "disabled", "deleted"}
          /\ subject'[OrganizationOf] = "deleted" => subject[OrganizationOf] = "deleted" /\ on # OrganizationOf
      BY <2>3, <2>7, <3>1 DEF SubjectsInv
    <3>3. /\ subject'[HopOf] \in HopStates
          /\ subject[HopOf] = "deleted" => subject'[HopOf] = "deleted"
      BY <2>3, <2>4, <2>7, <3>1 DEF SubjectsInv, HopStates
    <3>4. subject'[ReportOf] \in {"reported", "resolved", "deleted"}
      BY <2>3, <2>7, <3>1 DEF SubjectsInv
    <3>5. \A u \in Users : subject'[u] \in UserStates
      BY <2>3, <2>7, <3>1 DEF SubjectsInv
    <3> QED
      BY <3>1, <3>2, <3>3, <3>4, <3>5 DEF SubjectsInv
  <2>9. DeskInv(d)
    BY <2>1 DEF DeskInv
  <2>10. \A y \in Actions : Cardinality(Handled(y))' = Cardinality(Handled(y))
    <3>1. \A y \in Actions : a \in Handled(y) <=> y = x
      BY <1>1 DEF Handled
    <3>2. \A y \in Actions : d.action = y /\ d.step \in {"load", "act", "audit"} <=> y = x
      BY <2>1
    <3> QED
      BY <2>1, <2>2, <3>1, <3>2, HandledMoves
  <2>11. Cardinality(Delivering)' = Cardinality(Delivering)
    <3>1. a \notin Delivering /\ d.step # "deliver"
      BY <1>1, <2>1 DEF Delivering
    <3> QED
      BY <2>1, <2>2, <3>1, DeliveringMoves
  <2>12. ASSUME NEW y \in Actions
         PROVE  /\ Accounted(y) \in Nat
                /\ Accounted(y)' = IF y = x THEN Accounted(y) + 1 ELSE Accounted(y)
    <3>1. /\ Accounted(y) = events[y] + unlogged[y] + Cardinality(Due(y))
          /\ Accounted(y)' = events[y] + unlogged[y] + Cardinality(Due(y))'
      BY <1>1 DEF Accounted, Waiting, Due
    <3>2. a \notin Due(y)
      BY <1>1 DEF Due
    <3>3. /\ Cardinality(Due(y)) \in Nat
          /\ y = x => Cardinality(Due(y))' = Cardinality(Due(y)) + 1
          /\ y # x => Cardinality(Due(y))' = Cardinality(Due(y))
      <4>1. CASE y = x
        BY <2>1, <2>2, <3>2, <4>1, DueMoves
      <4>2. CASE y # x
        BY <2>1, <2>2, <3>2, <4>2, DueMoves
      <4> QED
        BY <4>1, <4>2
    <3>4. events[y] \in Nat /\ unlogged[y] \in Nat
      BY Bounds
    <3> QED
      BY <3>1, <3>3, <3>4
  <2>13. EndingsAgree /\ ReportsAgree /\ DisablingsAgree /\ ExportsAgree
    BY AgreeParts DEF AdmInv
  <2>14. subject'[OrganizationOf] = "deleted" <=> subject[OrganizationOf] = "deleted"
    BY <2>3, <2>7
  <2>15. ASSUME NEW y \in Ending
         PROVE  /\ y = x => ~HasEnded(y) /\ HasEnded(y)'
                /\ y # x => (HasEnded(y)' <=> HasEnded(y))
                /\ EndedOtherwise(y)' <=> EndedOtherwise(y)
    <3> PICK v, z :
          /\ y = <<v, z>> /\ y[1] = v /\ y[2] = z
          /\ \/ v \in {"hop.expire", "hop.delete"} /\ z = HopOf /\ y \in HopEndings
             \/ v = "user.delete" /\ z \in Users /\ y \notin HopEndings
      BY EndingKinds
    <3>1. /\ y = x <=> v = verb /\ z = on
          /\ y \in HopEndings => z = HopOf
      BY <2>6
    <3>2. /\ HasEnded(y) <=> \/ subject[z] = IF v = "hop.expire" THEN "expired" ELSE "deleted"
                             \/ y \in HopEndings /\ subject[OrganizationOf] = "deleted"
          /\ HasEnded(y)' <=> \/ subject'[z] = IF v = "hop.expire" THEN "expired" ELSE "deleted"
                              \/ y \in HopEndings /\ subject'[OrganizationOf] = "deleted"
      BY DEF HasEnded, WithOrganization, HopEndings
    <3>3. EndedOtherwise(y)' <=> EndedOtherwise(y)
      BY <1>1, <2>14 DEF EndedOtherwise, WithOrganization, HopEndings
    <3>4. CASE z = HopOf
      <4>1. CASE on = HopOf
        <5>1. subject[OrganizationOf] # "deleted"
          BY <2>3, <4>1 DEF AdmInv, SubjectsInv
        <5> QED
          BY <2>3, <2>6, <2>7, <2>14, <3>1, <3>2, <3>3, <3>4, <4>1, <5>1
      <4>2. CASE on # HopOf
        BY <2>4, <2>6, <2>7, <2>14, <3>1, <3>2, <3>3, <3>4, <4>2
      <4> QED
        BY <4>1, <4>2
    <3>5. CASE z \in Users
      <4>1. y \notin HopEndings /\ v = "user.delete"
        BY <2>6, <3>5
      <4>2. CASE on = z
        BY <2>3, <2>6, <2>7, <3>1, <3>2, <3>3, <3>5, <4>1, <4>2
      <4>3. CASE on # z
        BY <2>6, <2>7, <3>1, <3>2, <3>3, <3>5, <4>1, <4>3
      <4> QED
        BY <4>2, <4>3
    <3> QED
      BY <3>4, <3>5
  <2>16. ASSUME NEW y \in Ending
         PROVE  EndingAgrees(y)'
    <3>1. EndingAgrees(y) /\ y \in Actions
      BY <2>13, Kinds DEF EndingsAgree
    <3>2. CASE y = x
      <4>1. Accounted(y) = 0
        BY <2>12, <2>15, <3>1, <3>2 DEF EndingAgrees
      <4>2. Accounted(y)' = 1 /\ HasEnded(y)'
        BY <2>12, <2>15, <3>1, <3>2, <4>1
      <4> QED
        BY <4>2 DEF EndingAgrees
    <3>3. CASE y # x
      BY <2>12, <2>15, <3>1, <3>3 DEF EndingAgrees
    <3> QED
      BY <3>2, <3>3
  <2>17. (\E y \in HopEndings : Accounted(y) = 0)'
    <3> PICK y1, y2 : y1 = <<"hop.expire", HopOf>> /\ y2 = <<"hop.delete", HopOf>>
      OBVIOUS
    <3>1. y1 \in HopEndings /\ y2 \in HopEndings /\ y1 # y2
      BY DEF HopEndings
    <3>2. y1 \in Ending /\ y2 \in Ending /\ y1 \in Actions /\ y2 \in Actions
      BY <3>1, Kinds
    <3>3. CASE on = HopOf
      <4>1. subject[OrganizationOf] # "deleted" /\ subject[HopOf] \notin {"expired", "deleted"}
        BY <2>3, <3>3 DEF AdmInv, SubjectsInv
      <4>2. ~HasEnded(y1) /\ ~HasEnded(y2)
        BY <4>1 DEF HasEnded, WithOrganization
      <4>3. Accounted(y1) = 0 /\ Accounted(y2) = 0
        <5>1. EndingAgrees(y1) /\ EndingAgrees(y2)
          BY <2>13, <3>2 DEF EndingsAgree
        <5> QED
          BY <2>12, <3>2, <4>2, <5>1 DEF EndingAgrees
      <4>4. Accounted(y1)' = 0 \/ Accounted(y2)' = 0
        BY <2>12, <3>1, <3>2, <4>3
      <4> QED
        BY <4>4 DEF HopEndings
    <3>4. CASE on # HopOf
      <4>1. y1 # x /\ y2 # x
        BY <3>4
      <4>2. Accounted(y1) = 0 \/ Accounted(y2) = 0
        BY <2>13 DEF EndingsAgree, HopEndings
      <4>3. Accounted(y1)' = 0 \/ Accounted(y2)' = 0
        BY <2>12, <3>2, <4>1, <4>2
      <4> QED
        BY <4>3 DEF HopEndings
    <3> QED
      BY <3>3, <3>4
  <2>18. ReportsAgree'
    <3> PICK v, w : /\ v = Accounted(<<"moderation.dismiss", ReportOf>>)
                    /\ w = Accounted(<<"moderation.delete", ReportOf>>)
      OBVIOUS
    <3>1. /\ v \in Nat /\ w \in Nat /\ v + w <= 1
          /\ subject[ReportOf] # "deleted" => (v + w = 1 <=> subject[ReportOf] = "resolved")
      BY <2>12, <2>13, Kinds DEF ReportsAgree, Decisions
    <3>2. /\ Accounted(<<"moderation.dismiss", ReportOf>>)' =
               IF verb = "moderation.dismiss" /\ on = ReportOf THEN v + 1 ELSE v
          /\ Accounted(<<"moderation.delete", ReportOf>>)' =
               IF verb = "moderation.delete" /\ on = ReportOf THEN w + 1 ELSE w
      BY <2>12, Kinds
    <3>3. Decisions' = Accounted(<<"moderation.dismiss", ReportOf>>)'
                         + Accounted(<<"moderation.delete", ReportOf>>)'
      BY DEF Decisions
    <3>4. CASE on = ReportOf
      <4>1. subject[ReportOf] = "reported" /\ subject'[ReportOf] = "resolved"
        BY <2>3, <2>7, <3>4
      <4>2. Decisions' = 1
        BY <2>3, <3>1, <3>2, <3>3, <3>4, <4>1
      <4> QED
        BY <4>1, <4>2 DEF ReportsAgree
    <3>5. CASE on # ReportOf
      <4>1. subject'[ReportOf] = "deleted" \/ subject'[ReportOf] = subject[ReportOf]
        BY <2>7, <3>5
      <4>2. Decisions' = v + w
        BY <3>2, <3>3, <3>5
      <4> QED
        BY <3>1, <4>1, <4>2 DEF ReportsAgree
    <3> QED
      BY <3>4, <3>5
  <2>19. ASSUME NEW m \in Users
         PROVE  UserAgrees(m)'
    <3> PICK y1, y2 : y1 = <<"user.disable", m>> /\ y2 = <<"user.enable", m>>
      OBVIOUS
    <3>1. y1 \in Actions /\ y2 \in Actions
      BY Kinds
    <3>2. /\ subject[m] = "disabled" => m \in closed \/ Accounted(y1) > 0
          /\ subject[m] = "enabled" /\ m \in closed => Accounted(y2) > 0
      BY <2>13 DEF DisablingsAgree, UserAgrees
    <3>3. /\ Accounted(y1) \in Nat /\ Accounted(y2) \in Nat
          /\ Accounted(y1)' = IF y1 = x THEN Accounted(y1) + 1 ELSE Accounted(y1)
          /\ Accounted(y2)' = IF y2 = x THEN Accounted(y2) + 1 ELSE Accounted(y2)
      BY <2>12, <3>1
    <3>4. /\ m # on => subject'[m] = subject[m]
          /\ m = on => /\ subject'[m] = "disabled" => subject[m] = "disabled" \/ y1 = x
                       /\ subject'[m] = "enabled" => subject[m] = "enabled" \/ y2 = x
      BY <2>3, <2>7
    <3>5. /\ subject'[m] = "disabled" => m \in closed' \/ Accounted(y1)' > 0
          /\ subject'[m] = "enabled" /\ m \in closed' => Accounted(y2)' > 0
      BY <1>1, <3>2, <3>3, <3>4
    <3> QED
      BY <3>5 DEF UserAgrees
  <2>20. subject'[OrganizationOf] = "disabled" =>
           Accounted(<<"organization.disable", OrganizationOf>>)' > 0
    <3> PICK y \in Actions : y = <<"organization.disable", OrganizationOf>>
      BY Kinds
    <3>1. subject[OrganizationOf] = "disabled" => Accounted(y) > 0
      BY <2>13 DEF DisablingsAgree
    <3>2. /\ Accounted(y) \in Nat
          /\ Accounted(y)' = IF y = x THEN Accounted(y) + 1 ELSE Accounted(y)
      BY <2>12
    <3>3. subject'[OrganizationOf] = "disabled" => subject[OrganizationOf] = "disabled" \/ y = x
      BY <2>3, <2>7
    <3>4. subject'[OrganizationOf] = "disabled" => Accounted(y)' > 0
      BY <3>1, <3>2, <3>3
    <3> QED
      BY <3>4
  <2>21. AuditAgrees'
    <3>1. EndingsAgree'
      BY <2>16, <2>17 DEF EndingsAgree, Ending, HopEndings
    <3>2. DisablingsAgree'
      BY <2>19, <2>20 DEF DisablingsAgree
    <3>3. ExportsAgree'
      BY <1>1, <2>11, <2>13 DEF ExportsAgree
    <3> QED
      BY <2>18, <3>1, <3>2, <3>3, AgreeParts, PTL
  <2>22. \A c \in Admins : DeskInv(desk[c])'
    <3>1. \A c \in Admins : desk'[c] = d \/ desk'[c] = desk[c]
      BY <2>2 DEF AdmInv, AdministrationTypeOK
    <3>2. \A c \in Admins : DeskInv(desk'[c])
      BY <2>9, <3>1 DEF AdmInv
    <3> QED
      BY <3>2 DEF DeskInv
  <2>23. AdministrationTypeOK'
    BY <1>1, <2>1, <2>2, <2>7 DEF AdmInv, AdministrationTypeOK
  <2>24. \A y \in Actions : DoneTo(y)' + Cardinality(Handled(y))' <= begun'
    BY <1>1, <2>10 DEF AdmInv, DoneTo
  <2> QED
    BY <2>8, <2>21, <2>22, <2>23, <2>24 DEF AdmInv
<1> QED
  BY <1>2, <1>3

-----------------------------------------------------------------------------
(* What is done without an entry: it ends nothing in a way that only an     *)
(* administrator could, and disables what was enabled in nobody's name but  *)
(* the user's own.                                                          *)
LEMMA UnloggedKeeps ==
  ASSUME AdmInv, Unlogged, SubjectsInv',
         subject' \in [{OrganizationOf, HopOf, ReportOf} \cup Users -> States],
         due' \in BOOLEAN, due => due', closed' \in SUBSET Users,
         \A x \in Ending : /\ HasEnded(x) => HasEnded(x)'
                           /\ HasEnded(x)' => HasEnded(x) \/ EndedOtherwise(x)'
                           /\ EndedOtherwise(x) => EndedOtherwise(x)',
         subject'[ReportOf] \in {subject[ReportOf], "deleted"},
         subject'[OrganizationOf] \in {subject[OrganizationOf], "deleted"},
         \A m \in Users :
           \/ subject'[m] = subject[m] /\ (m \in closed' <=> m \in closed)
           \/ subject'[m] = "disabled" /\ m \in closed'
  PROVE  AdmInv'
<1>1. UNCHANGED <<desk, events, unlogged, files, begun>>
  BY DEF Unlogged, log
<1>2. \A x \in Actions : Accounted(x)' = Accounted(x)
  BY <1>1 DEF Accounted, Waiting
<1>3. EndingsAgree /\ ReportsAgree /\ DisablingsAgree /\ ExportsAgree
  BY AgreeParts DEF AdmInv
<1>4. EndingsAgree'
  <2>1. ASSUME NEW x \in Ending PROVE EndingAgrees(x)'
    <3>1. EndingAgrees(x) /\ Accounted(x)' = Accounted(x)
      BY <1>2, <1>3, Kinds DEF EndingsAgree
    <3> QED
      BY <3>1 DEF EndingAgrees
  <2>2. (\E x \in HopEndings : Accounted(x) = 0)'
    <3> PICK x \in HopEndings : Accounted(x) = 0
      BY <1>3 DEF EndingsAgree
    <3>1. Accounted(x)' = 0
      BY <1>2, Kinds
    <3> QED
      BY <3>1 DEF HopEndings
  <2> QED
    BY <2>1, <2>2 DEF EndingsAgree, Ending, HopEndings
<1>5. ReportsAgree'
  <2>1. Decisions' = Decisions
    BY <1>2, Kinds DEF Decisions
  <2> QED
    BY <1>3, <2>1 DEF ReportsAgree
<1>6. DisablingsAgree'
  <2>1. ASSUME NEW m \in Users PROVE UserAgrees(m)'
    <3>1. UserAgrees(m)
      BY <1>3 DEF DisablingsAgree
    <3>2. /\ Accounted(<<"user.disable", m>>)' = Accounted(<<"user.disable", m>>)
          /\ Accounted(<<"user.enable", m>>)' = Accounted(<<"user.enable", m>>)
      BY <1>2, Kinds
    <3>3. CASE subject'[m] = subject[m] /\ (m \in closed' <=> m \in closed)
      BY <3>1, <3>2, <3>3 DEF UserAgrees
    <3>4. CASE subject'[m] = "disabled" /\ m \in closed'
      BY <3>4 DEF UserAgrees
    <3> QED
      BY <3>3, <3>4
  <2>2. Accounted(<<"organization.disable", OrganizationOf>>)'
          = Accounted(<<"organization.disable", OrganizationOf>>)
    BY <1>2, Kinds
  <2>3. subject'[OrganizationOf] = "disabled" => subject[OrganizationOf] = "disabled"
    OBVIOUS
  <2> QED
    BY <1>3, <2>1, <2>2, <2>3 DEF DisablingsAgree
<1>7. ExportsAgree'
  BY <1>1, <1>3 DEF ExportsAgree, Delivering
<1>8. AuditAgrees'
  BY <1>4, <1>5, <1>6, <1>7, AgreeParts, PTL
<1>9. AdministrationTypeOK'
  BY <1>1 DEF AdmInv, AdministrationTypeOK
<1>10. /\ \A a \in Admins : DeskInv(desk[a])'
       /\ \A x \in Actions : DoneTo(x)' + Cardinality(Handled(x))' <= begun'
  BY <1>1 DEF AdmInv, DeskInv, DoneTo, Handled
<1> QED
  BY <1>8, <1>9, <1>10 DEF AdmInv

(* A hop that is used or falls due was not ended by an administrator. *)
LEMMA HopStepKeeps ==
  ASSUME AdmInv, Unlogged, UNCHANGED closed, due' \in BOOLEAN, due => due',
         NEW h \in HopStates, subject' = [subject EXCEPT ![HopOf] = h],
         \/ h = subject[HopOf]
         \/ subject[HopOf] \in {"open", "accepted"} /\ h \in {"accepted", "canceled", "completed"}
         \/ subject[HopOf] \in {"open", "accepted"} /\ h = "expired" /\ due'
  PROVE  AdmInv'
<1>1. /\ HopOf # ReportOf /\ HopOf # OrganizationOf /\ ReportOf # OrganizationOf
      /\ \A u \in Users : u \notin {HopOf, ReportOf, OrganizationOf}
  BY AdministrationAssumption DEF HopOf, ReportOf, OrganizationOf
<1>2. /\ subject'[HopOf] = h
      /\ \A z \in {OrganizationOf, HopOf, ReportOf} \cup Users : z # HopOf => subject'[z] = subject[z]
      /\ subject' \in [{OrganizationOf, HopOf, ReportOf} \cup Users -> States]
  BY DEF AdmInv, AdministrationTypeOK, States, HopStates
<1>3. SubjectsInv'
  <2>1. SubjectsInv
    BY DEF AdmInv
  <2> QED
    BY <1>1, <1>2, <2>1 DEF SubjectsInv
<1>4. ASSUME NEW x \in Ending
      PROVE  /\ HasEnded(x) => HasEnded(x)'
             /\ HasEnded(x)' => HasEnded(x) \/ EndedOtherwise(x)'
             /\ EndedOtherwise(x) => EndedOtherwise(x)'
  <2> PICK v, z :
        /\ x = <<v, z>> /\ x[1] = v /\ x[2] = z
        /\ \/ v \in {"hop.expire", "hop.delete"} /\ z = HopOf /\ x \in HopEndings
           \/ v = "user.delete" /\ z \in Users /\ x \notin HopEndings
    BY EndingKinds
  <2>1. /\ HasEnded(x) <=> \/ subject[z] = IF v = "hop.expire" THEN "expired" ELSE "deleted"
                           \/ x \in HopEndings /\ subject[OrganizationOf] = "deleted"
        /\ HasEnded(x)' <=> \/ subject'[z] = IF v = "hop.expire" THEN "expired" ELSE "deleted"
                            \/ x \in HopEndings /\ subject'[OrganizationOf] = "deleted"
        /\ EndedOtherwise(x) <=> \/ x \in HopEndings /\ subject[OrganizationOf] = "deleted"
                                 \/ v = "hop.expire" /\ due
        /\ EndedOtherwise(x)' <=> \/ x \in HopEndings /\ subject'[OrganizationOf] = "deleted"
                                  \/ v = "hop.expire" /\ due'
    BY DEF HasEnded, EndedOtherwise, WithOrganization, HopEndings
  <2>2. subject'[OrganizationOf] = subject[OrganizationOf]
    BY <1>1, <1>2
  <2>3. CASE z = HopOf
    BY <1>1, <1>2, <2>1, <2>2, <2>3
  <2>4. CASE z \in Users
    BY <1>1, <1>2, <2>1, <2>2, <2>4
  <2> QED
    BY <2>3, <2>4
<1>5. closed' \in SUBSET Users
  BY DEF AdmInv, AdministrationTypeOK
<1>6. /\ subject'[ReportOf] \in {subject[ReportOf], "deleted"}
      /\ subject'[OrganizationOf] \in {subject[OrganizationOf], "deleted"}
      /\ \A m \in Users :
           \/ subject'[m] = subject[m] /\ (m \in closed' <=> m \in closed)
           \/ subject'[m] = "disabled" /\ m \in closed'
  BY <1>1, <1>2
<1> QED
  BY <1>2, <1>3, <1>4, <1>5, <1>6, UnloggedKeeps

(* Members, time and the worker. *)
LEMMA HopStepsKeep ==
  ASSUME AdmInv, MembersUseHop \/ HopFallsDue \/ ExpireDueHops
  PROVE  AdmInv'
<1>1. /\ subject \in [{OrganizationOf, HopOf, ReportOf} \cup Users -> States]
      /\ subject[HopOf] \in HopStates /\ due \in BOOLEAN
  BY DEF AdmInv, AdministrationTypeOK, SubjectsInv
<1>2. CASE MembersUseHop
  <2>1. PICK h \in {"accepted", "canceled", "completed"} :
          /\ subject[HopOf] \in {"open", "accepted"} /\ subject' = [subject EXCEPT ![HopOf] = h]
          /\ UNCHANGED <<due, closed>> /\ Unlogged
    BY <1>1, <1>2 DEF MembersUseHop, others, HopStates
  <2>2. h \in HopStates
    BY DEF HopStates
  <2> QED
    BY <1>1, <2>1, <2>2, HopStepKeeps
<1>3. CASE HopFallsDue
  <2>1. due' = TRUE /\ closed' = closed /\ Unlogged /\ subject' = [subject EXCEPT ![HopOf] = subject[HopOf]]
    BY <1>1, <1>3 DEF HopFallsDue
  <2> QED
    BY <1>1, <2>1, HopStepKeeps
<1>4. CASE ExpireDueHops
  <2>1. /\ due /\ subject[HopOf] \in {"open", "accepted"} /\ subject' = [subject EXCEPT ![HopOf] = "expired"]
        /\ UNCHANGED <<due, closed>> /\ Unlogged
    BY <1>4 DEF ExpireDueHops, others
  <2>2. "expired" \in HopStates
    BY DEF HopStates
  <2> QED
    BY <1>1, <2>1, <2>2, HopStepKeeps
<1> QED
  BY <1>2, <1>3, <1>4

(* A user who closes the account is one who did, and ends nothing. *)
LEMMA CloseOwnAccountKeeps ==
  ASSUME AdmInv, NEW m \in Users, CloseOwnAccount(m)
  PROVE  AdmInv'
<1>1. /\ subject[m] # "deleted" /\ subject' = [subject EXCEPT ![m] = "disabled"]
      /\ closed' = closed \cup {m} /\ due' = due /\ Unlogged
  BY DEF CloseOwnAccount
<1>2. m \notin {HopOf, ReportOf, OrganizationOf}
  BY AdministrationAssumption
<1>3. /\ subject'[m] = "disabled"
      /\ \A z \in {OrganizationOf, HopOf, ReportOf} \cup Users : z # m => subject'[z] = subject[z]
      /\ subject' \in [{OrganizationOf, HopOf, ReportOf} \cup Users -> States]
      /\ closed' \in SUBSET Users /\ due' \in BOOLEAN
  BY <1>1 DEF AdmInv, AdministrationTypeOK, States
<1>4. SubjectsInv'
  <2>1. SubjectsInv
    BY DEF AdmInv
  <2>2. \A u \in Users : subject'[u] \in UserStates
    BY <1>3, <2>1 DEF SubjectsInv, UserStates
  <2> QED
    BY <1>2, <1>3, <2>1, <2>2 DEF SubjectsInv
<1>5. ASSUME NEW x \in Ending
      PROVE  (HasEnded(x)' <=> HasEnded(x)) /\ (EndedOtherwise(x)' <=> EndedOtherwise(x))
  <2> PICK v, z :
        /\ x = <<v, z>> /\ x[1] = v /\ x[2] = z
        /\ \/ v \in {"hop.expire", "hop.delete"} /\ z = HopOf /\ x \in HopEndings
           \/ v = "user.delete" /\ z \in Users /\ x \notin HopEndings
    BY EndingKinds
  <2>1. /\ HasEnded(x) <=> \/ subject[z] = IF v = "hop.expire" THEN "expired" ELSE "deleted"
                           \/ x \in HopEndings /\ subject[OrganizationOf] = "deleted"
        /\ HasEnded(x)' <=> \/ subject'[z] = IF v = "hop.expire" THEN "expired" ELSE "deleted"
                            \/ x \in HopEndings /\ subject'[OrganizationOf] = "deleted"
    BY DEF HasEnded, WithOrganization, HopEndings
  <2>2. subject'[OrganizationOf] = subject[OrganizationOf]
    BY <1>2, <1>3
  <2>3. EndedOtherwise(x)' <=> EndedOtherwise(x)
    BY <1>1, <2>2 DEF EndedOtherwise, WithOrganization, HopEndings
  <2>4. CASE z = HopOf
    BY <1>2, <1>3, <2>1, <2>2, <2>3, <2>4
  <2>5. CASE z \in Users
    <3>1. v = "user.delete"
      BY <2>5, AdministrationAssumption
    <3> QED
      BY <1>1, <1>3, <2>1, <2>2, <2>3, <2>5, <3>1
  <2> QED
    BY <2>4, <2>5
<1>6. /\ subject'[ReportOf] \in {subject[ReportOf], "deleted"}
      /\ subject'[OrganizationOf] \in {subject[OrganizationOf], "deleted"}
      /\ \A u \in Users :
           \/ subject'[u] = subject[u] /\ (u \in closed' <=> u \in closed)
           \/ subject'[u] = "disabled" /\ u \in closed'
  BY <1>1, <1>2, <1>3
<1> QED
  BY <1>1, <1>3, <1>4, <1>5, <1>6, UnloggedKeeps

(* An organization takes its hops and reports along. *)
LEMMA DeleteOwnOrganizationKeeps ==
  ASSUME AdmInv, DeleteOwnOrganization
  PROVE  AdmInv'
<1>1. /\ UNCHANGED <<due, closed>> /\ Unlogged
      /\ subject' = [x \in DOMAIN subject |->
                      IF x \in {OrganizationOf, HopOf, ReportOf} THEN "deleted" ELSE subject[x]]
  BY DEF DeleteOwnOrganization, others
<1>2. \A u \in Users : u \notin {HopOf, ReportOf, OrganizationOf}
  BY AdministrationAssumption
<1>3. /\ \A x \in {OrganizationOf, HopOf, ReportOf} : subject'[x] = "deleted"
      /\ \A u \in Users : subject'[u] = subject[u]
      /\ subject' \in [{OrganizationOf, HopOf, ReportOf} \cup Users -> States]
      /\ closed' \in SUBSET Users /\ due' \in BOOLEAN
  BY <1>1, <1>2 DEF AdmInv, AdministrationTypeOK, States
<1>4. SubjectsInv'
  BY <1>3 DEF AdmInv, SubjectsInv, HopStates
<1>5. ASSUME NEW x \in Ending
      PROVE  /\ HasEnded(x) => HasEnded(x)'
             /\ HasEnded(x)' => HasEnded(x) \/ EndedOtherwise(x)'
             /\ EndedOtherwise(x) => EndedOtherwise(x)'
  <2> PICK v, z :
        /\ x = <<v, z>> /\ x[1] = v /\ x[2] = z
        /\ \/ v \in {"hop.expire", "hop.delete"} /\ z = HopOf /\ x \in HopEndings
           \/ v = "user.delete" /\ z \in Users /\ x \notin HopEndings
    BY EndingKinds
  <2>1. CASE x \in HopEndings
    BY <1>3, <2>1 DEF HasEnded, EndedOtherwise, WithOrganization, HopEndings
  <2>2. CASE x \notin HopEndings
    <3>1. v = "user.delete" /\ z \in Users
      BY <2>2
    <3>2. HasEnded(x)' <=> HasEnded(x)
      BY <1>3, <2>2, <3>1 DEF HasEnded, WithOrganization, HopEndings
    <3>3. ~EndedOtherwise(x)
      BY <2>2, <3>1 DEF EndedOtherwise, WithOrganization
    <3> QED
      BY <3>2, <3>3
  <2> QED
    BY <2>1, <2>2
<1>6. /\ subject'[ReportOf] \in {subject[ReportOf], "deleted"}
      /\ subject'[OrganizationOf] \in {subject[OrganizationOf], "deleted"}
      /\ \A u \in Users :
           \/ subject'[u] = subject[u] /\ (u \in closed' <=> u \in closed)
           \/ subject'[u] = "disabled" /\ u \in closed'
  BY <1>1, <1>3
<1> QED
  BY <1>1, <1>3, <1>4, <1>5, <1>6, UnloggedKeeps

LEMMA InitAdmInv == AdmInit => AdmInv
<1> SUFFICES ASSUME AdmInit PROVE AdmInv
  OBVIOUS
<1>1. /\ \A a \in Admins : desk[a] = AtRest
      /\ \A x \in Actions : events[x] = 0 /\ unlogged[x] = 0
      /\ files = 0 /\ begun = 0 /\ due = FALSE /\ closed = {}
  BY DEF AdmInit
<1>2. /\ HopOf # ReportOf /\ HopOf # OrganizationOf /\ ReportOf # OrganizationOf
      /\ \A u \in Users : u \notin {HopOf, ReportOf, OrganizationOf}
  BY AdministrationAssumption DEF HopOf, ReportOf, OrganizationOf
<1>3. /\ subject[HopOf] = "open" /\ subject[ReportOf] = "reported"
      /\ subject[OrganizationOf] = "enabled" /\ \A u \in Users : subject[u] = "enabled"
      /\ subject \in [{OrganizationOf, HopOf, ReportOf} \cup Users -> States]
  BY <1>2 DEF AdmInit, States
<1>4. AdministrationTypeOK
  <2>1. desk \in [Admins -> Desk]
    BY AtRestIsDesk DEF AdmInit
  <2>2. 0 \in 0..MaxEntries
    BY AdministrationAssumption
  <2>3. events \in [Actions -> 0..MaxEntries] /\ unlogged \in [Actions -> 0..MaxEntries]
    BY <2>2 DEF AdmInit
  <2> QED
    BY <1>1, <1>3, <2>1, <2>2, <2>3 DEF AdministrationTypeOK
<1>5. SubjectsInv
  BY <1>3 DEF SubjectsInv, HopStates, UserStates
<1>6. \A a \in Admins : DeskInv(desk[a])
  BY <1>1, AtRestIsDesk DEF DeskInv
<1>7. Cardinality({}) = 0
  BY FS_EmptySet
<1>8. \A x \in Actions : DoneTo(x) = 0 /\ Handled(x) = {} /\ Due(x) = {}
  BY <1>1, AtRestIsDesk DEF DoneTo, Handled, Due
<1>9. \A x \in Actions : DoneTo(x) + Cardinality(Handled(x)) <= begun
  BY <1>1, <1>7, <1>8
<1>10. \A x \in Actions : Accounted(x) = 0
  <2> TAKE x \in Actions
  <2>1. Waiting(x) = Cardinality(Due(x))
    BY DEF Waiting, Due
  <2>2. Waiting(x) = 0
    BY <1>7, <1>8, <2>1
  <2> QED
    BY <1>1, <2>2 DEF Accounted
<1>11. EndingsAgree
  <2>1. \A x \in Ending : ~HasEnded(x)
    <3> TAKE x \in Ending
    <3>1. x[2] = HopOf \/ x[2] \in Users
      BY DEF Ending, HopEndings
    <3> QED
      BY <1>3, <3>1 DEF HasEnded, WithOrganization
  <2>2. \A x \in Ending : EndingAgrees(x)
    BY <1>10, <2>1, Kinds DEF EndingAgrees
  <2>3. <<"hop.expire", HopOf>> \in HopEndings
    BY DEF HopEndings
  <2> QED
    BY <1>10, <2>2, <2>3, Kinds DEF EndingsAgree
<1>12. ReportsAgree
  <2>1. Decisions = 0
    BY <1>10, Kinds DEF Decisions
  <2> QED
    BY <1>3, <2>1 DEF ReportsAgree
<1>13. DisablingsAgree
  BY <1>1, <1>3 DEF DisablingsAgree, UserAgrees
<1>14. ExportsAgree
  <2>1. Delivering = {}
    BY <1>1, AtRestIsDesk DEF Delivering
  <2> QED
    BY <1>1, <1>7, <2>1, Kinds DEF ExportsAgree
<1> QED
  BY <1>4, <1>5, <1>6, <1>9, <1>11, <1>12, <1>13, <1>14, AgreeParts DEF AdmInv

LEMMA NextAdmInv == AdmInv /\ [AdmNext]_adminVars => AdmInv'
<1> SUFFICES ASSUME AdmInv, [AdmNext]_adminVars PROVE AdmInv'
  OBVIOUS
<1>1. ASSUME NEW a \in Admins,
             \/ BeginOrganizationAction(a) \/ BeginModerationAction(a)
             \/ BeginUserAction(a) \/ BeginAuditExport(a)
      PROVE  AdmInv'
  BY <1>1, BeginningsKeep
<1>2. ASSUME NEW a \in Admins,
             \/ TakeEffect(a) \/ ListAdminAuditEvents(a) \/ WriteAdminAuditEvent(a)
             \/ DeliverExport(a) \/ NotLogged(a) \/ Abandon(a)
      PROVE  AdmInv'
  BY <1>2, EffectKeeps, ListingKeeps, EntryKeeps, NotLoggedKeeps, OtherEndsKeep
<1>3. CASE OthersStep
  BY <1>3, HopStepsKeep, CloseOwnAccountKeeps, DeleteOwnOrganizationKeeps DEF OthersStep
<1>4. CASE UNCHANGED adminVars
  <2>1. UNCHANGED <<subject, due, closed, desk, events, unlogged, files, begun>>
    BY <1>4 DEF adminVars
  <2>2. AdministrationTypeOK' /\ SubjectsInv'
    BY <2>1 DEF AdmInv, AdministrationTypeOK, SubjectsInv
  <2>3. /\ \A a \in Admins : DeskInv(desk[a])'
        /\ \A x \in Actions : DoneTo(x)' + Cardinality(Handled(x))' <= begun'
    BY <2>1 DEF AdmInv, DeskInv, DoneTo, Handled
  <2>4. AuditAgrees'
    BY <2>1 DEF AdmInv, AuditAgrees, Accounted, Waiting, Decisions,
                HasEnded, EndedOtherwise, WithOrganization
  <2> QED
    BY <2>2, <2>3, <2>4 DEF AdmInv
<1> QED
  BY <1>1, <1>2, <1>3, <1>4 DEF AdmNext

(* The log counted together with the desks, beside the members, the owner   *)
(* and the worker that log nothing: no entry is due of what was refused,    *)
(* nothing is done more often than it was begun, and no hop outlives its    *)
(* organization.                                                            *)
THEOREM DesksRely == AdmSpec => []AdmInv
<1> QED
  BY InitAdmInv, NextAdmInv, PTL DEF AdmSpec

(* The types of the log, of the desks and of what they are about.           *)
THEOREM AdministrationTypes == AdmSpec => []AdministrationTypeOK
<1>1. AdmInv => AdministrationTypeOK
  BY DEF AdmInv
<1> QED
  BY <1>1, DesksRely, PTL

(* The log agrees with what was done, however many administrators do the    *)
(* same at once, and whatever members, the owner and the worker do without  *)
(* an entry: an ending is accounted for once, or came about without an      *)
(* administrator; a report by one decision; a file by an entry.             *)
THEOREM TheLogAgrees == AdmSpec => []AuditAgrees
<1>1. AdmInv => AuditAgrees
  BY DEF AdmInv
<1> QED
  BY <1>1, DesksRely, PTL

-----------------------------------------------------------------------------
(***************************************************************************)
(* ACCOUNTS, ORGANIZATIONS and ADMINISTRATION beside each other.           *)
(***************************************************************************)

(* The parts share no variable: what happens in one is no step of another.  *)
LEMMA PartsAreApart == PlatformSpec => ASpec /\ OSpec /\ AdmSpec
<1>1. PlatformInit => AInit /\ OInit /\ AdmInit
  BY DEF PlatformInit
<1>2. ASSUME [PlatformNext]_<<avars, ovars, adminVars, part>>
      PROVE  [ANext]_avars /\ [ONext]_ovars /\ [AdmNext]_adminVars
  BY <1>2 DEF PlatformNext
<1> QED
  BY <1>1, <1>2, PTL DEF PlatformSpec, ASpec, OSpec, AdmSpec

(* Accounts, links, sessions, requests, organizations, pages, the log and   *)
(* the desks keep their types, and an address belongs to one account or     *)
(* organization, in every behaviour of the three parts together.            *)
THEOREM PlatformTypes == PlatformSpec => []PlatformTypeOK
<1>1. ASpec /\ OSpec /\ AdmSpec
        => []AccountsTypeOK /\ []OrganizationsTypeOK /\ []AdministrationTypeOK
  BY AccountsTypeCorrect, AddressesAreUnique, AdministrationTypes
<1>2. AccountsTypeOK /\ OrganizationsTypeOK /\ AdministrationTypeOK => PlatformTypeOK
  BY DEF PlatformTypeOK
<1> QED
  BY <1>1, <1>2, PartsAreApart, PTL
=============================================================================
