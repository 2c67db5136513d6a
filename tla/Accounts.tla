------------------------------ MODULE Accounts ------------------------------
(***************************************************************************)
(* Accounts as the HTTP handlers use them: signing up and in, the links    *)
(* that are mailed to a member (member_tokens), the profile page and the   *)
(* administrator's actions on users.  A handler reads the account, works   *)
(* (a password is hashed, a mail composed) and writes without looking      *)
(* again, so it is modelled as a request that a caller is in the middle    *)
(* of; each UPDATE, INSERT or transaction is one step.  A password is the  *)
(* number of times the member's password was set before it.                *)
(***************************************************************************)
EXTENDS Naturals, FiniteSets

CONSTANTS
  Members, Emails,
  Links,        \* the rows of member_tokens
  Logins,       \* the sessions
  Callers,      \* the requests served at a time
  Registered,   \* who has an account at first, and its address
  MaxPassword,  \* bound: how often a password is set
  Anonymous, Nobody, None

Account ==
  [email : Emails \cup {Anonymous}, password : Nat, known : BOOLEAN,
   enabled : BOOLEAN, verified : BOOLEAN, deleted : BOOLEAN]
Link == [member : Members, purpose : {"reset", "verify"}, state : {"fresh", "used", "expired", "deleted"}]
Login == [member : Members, password : Nat, late : BOOLEAN]

ASSUME AccountsAssumption ==
  /\ DOMAIN Registered \subseteq Members
  /\ \A m, n \in DOMAIN Registered :
       Registered[m] \in Emails /\ (Registered[m] = Registered[n] => m = n)
  /\ Anonymous \notin Emails /\ Nobody \notin Members
  /\ None \notin Account \cup Link \cup Login

VARIABLES
  featureEmail,  \* FEATURE_EMAIL
  account,       \* members
  link,          \* member_tokens
  login,         \* member_sessions
  request,       \* what each caller is in the middle of
  uses,          \* how often a link did what it is for
  flushed        \* the last password with which a reset signed the member out

avars == <<featureEmail, account, link, login, request, uses, flushed>>

Steps ==
  {"none", "login", "autoVerify", "mailReset", "mailVerify", "consume", "setVerified",
   "setPassword", "signOut", "flush", "setProfile", "changePassword", "rotate", "closeAccount",
   "disable", "enable", "erase", "force"}
Request ==
  [step : Steps, member : Members \cup {Nobody}, login : Logins \cup {None},
   link : Links \cup {None}, password : Nat, late : BOOLEAN, email : Emails \cup {Anonymous}]

Idle ==
  [step |-> "none", member |-> Nobody, login |-> None, link |-> None, password |-> 0,
   late |-> FALSE, email |-> Anonymous]
About(m, step) == [Idle EXCEPT !.member = m, !.step = step]

Exists(m) == account[m] # None
Live(m) == Exists(m) /\ ~account[m].deleted
HeldBy(e) == {m \in Members : Exists(m) /\ account[m].email = e}
Locked(l) == \E c \in Callers : request[c].step = "consume" /\ request[c].link = l
LoginsOf(m) == {t \in Logins : login[t] # None /\ login[t].member = m}

(* Types, and the unique index on the address. *)
AccountsTypeOK ==
  /\ featureEmail \in BOOLEAN
  /\ account \in [Members -> Account \cup {None}]
  /\ link \in [Links -> Link \cup {None}] /\ login \in [Logins -> Login \cup {None}]
  /\ request \in [Callers -> Request]
  /\ uses \in [Links -> Nat] /\ flushed \in [Members -> Nat]
  /\ \A e \in Emails : Cardinality(HeldBy(e)) <= 1

(* Addresses that are not verified are older than FEATURE_EMAIL's value. *)
AInit ==
  /\ featureEmail \in BOOLEAN
  /\ \E v \in BOOLEAN :
       account = [m \in Members |->
         IF m \in DOMAIN Registered
         THEN [email |-> Registered[m], password |-> 0, known |-> TRUE,
               enabled |-> TRUE, verified |-> v, deleted |-> FALSE]
         ELSE None]
  /\ link = [l \in Links |-> None] /\ login = [t \in Logins |-> None]
  /\ request = [c \in Callers |-> Idle]
  /\ uses = [l \in Links |-> 0] /\ flushed = [m \in Members |-> 0]

Serve(c, r) == request[c] = Idle /\ request' = [request EXCEPT ![c] = r]
At(c, step) == request[c].step = step
Goto(c, step) == request' = [request EXCEPT ![c].step = step]
Done(c) == request' = [request EXCEPT ![c] = Idle]
Store(m, a) == account' = [account EXCEPT ![m] = a]

-----------------------------------------------------------------------------
(* Signing up and in. *)

SignupTwice(c, m, e) ==   \* mutant: the address is not unique
  /\ ~Exists(m)
  /\ Store(m, [email |-> e, password |-> 0, known |-> TRUE,
               enabled |-> TRUE, verified |-> ~featureEmail, deleted |-> FALSE])
  /\ IF featureEmail THEN Serve(c, About(m, "mailVerify"))
                     ELSE request[c] = Idle /\ UNCHANGED request
  /\ UNCHANGED <<featureEmail, link, login, uses, flushed>>
handleSignup(c, m, e) ==
  /\ ~Exists(m) /\ HeldBy(e) = {}
  /\ Store(m, [email |-> e, password |-> 0, known |-> TRUE,
               enabled |-> TRUE, verified |-> ~featureEmail, deleted |-> FALSE])
  /\ IF featureEmail THEN Serve(c, About(m, "mailVerify"))
                     ELSE request[c] = Idle /\ UNCHANGED request
  /\ UNCHANGED <<featureEmail, link, login, uses, flushed>>

(* Who knows the password is let in, verified or not without FEATURE_EMAIL. *)
AuthenticateUnverified(c, m) ==   \* mutant: nobody has to be verified
  /\ Live(m) /\ account[m].known /\ account[m].enabled
  /\ Serve(c, [About(m, "login") EXCEPT !.password = account[m].password])
  /\ UNCHANGED <<featureEmail, account, link, login, uses, flushed>>
AuthenticateMemberByEmail(c, m) ==
  /\ Live(m) /\ account[m].known /\ account[m].enabled
  /\ \/ account[m].verified
        /\ Serve(c, [About(m, "login") EXCEPT !.password = account[m].password])
     \/ ~account[m].verified /\ ~featureEmail
        /\ Serve(c, [About(m, "autoVerify") EXCEPT !.password = account[m].password,
                                                   !.email = account[m].email])
  /\ UNCHANGED <<featureEmail, account, link, login, uses, flushed>>

(* The account is looked up again by its address, which may be another's by  *)
(* now, who is then signed in; an UPDATE that fails is only logged.          *)
AutoVerify(c) ==
  LET r == request[c] IN
  /\ At(c, "autoVerify")
  /\ \E n \in HeldBy(r.email) :
       /\ Live(n) /\ account[n].enabled
       /\ Store(n, [account[n] EXCEPT !.verified = TRUE]) \/ UNCHANGED account
       /\ request' = [request EXCEPT ![c] =
            IF n = r.member THEN [r EXCEPT !.step = "login", !.email = Anonymous]
            ELSE [About(n, "login") EXCEPT !.password = account[n].password]]
  /\ UNCHANGED <<featureEmail, link, login, uses, flushed>>

OpenLogin(c, t) ==
  LET r == request[c] IN
  /\ login[t] = None
  /\ login' = [login EXCEPT ![t] = [member |-> r.member, password |-> r.password, late |-> r.late]]

CreateSession(c, t) ==
  /\ At(c, "login") /\ OpenLogin(c, t) /\ Done(c)
  /\ UNCHANGED <<featureEmail, account, link, uses, flushed>>

handleLogout(t) ==
  /\ login[t] # None /\ login' = [login EXCEPT ![t] = None]
  /\ UNCHANGED <<featureEmail, account, link, request, uses, flushed>>

-----------------------------------------------------------------------------
(* The links. *)

handleForgotPassword(c, m) ==
  /\ featureEmail /\ Live(m) /\ Serve(c, About(m, "mailReset"))
  /\ UNCHANGED <<featureEmail, account, link, login, uses, flushed>>

handleVerifyEmailResend(c, m) ==
  /\ featureEmail /\ Live(m) /\ ~account[m].verified /\ Serve(c, About(m, "mailVerify"))
  /\ UNCHANGED <<featureEmail, account, link, login, uses, flushed>>

IssueMemberToken(c, l) ==
  /\ request[c].step \in {"mailReset", "mailVerify"} /\ link[l] = None
  /\ link' = [link EXCEPT ![l] =
       [member |-> request[c].member, state |-> "fresh",
        purpose |-> IF At(c, "mailReset") THEN "reset" ELSE "verify"]]
  /\ Done(c)
  /\ UNCHANGED <<featureEmail, account, login, uses, flushed>>

LinkExpires(l) ==
  /\ link[l] # None /\ link[l].state = "fresh"
  /\ link' = [link EXCEPT ![l].state = "expired"]
  /\ UNCHANGED <<featureEmail, account, login, request, uses, flushed>>

(* ConsumeMemberToken, from SELECT ... FOR UPDATE to the commit.  The UPDATE *)
(* looks once more for a use in between.                                    *)
LockToken(c, l) ==
  /\ link[l] # None /\ link[l].state = "fresh" /\ ~Locked(l)
  /\ featureEmail \/ link[l].purpose = "reset"
  /\ Serve(c, [About(link[l].member, "consume") EXCEPT !.link = l])
  /\ UNCHANGED <<featureEmail, account, link, login, uses, flushed>>

ConsumeNothing(c) ==   \* mutant: the token is not marked as used
  LET l == request[c].link IN
  /\ At(c, "consume")
  /\ Goto(c, IF link[l].purpose = "reset" THEN "setPassword" ELSE "setVerified")
  /\ UNCHANGED <<featureEmail, account, link, login, uses, flushed>>
ConsumeMemberToken(c) ==
  LET l == request[c].link IN
  /\ At(c, "consume") /\ link[l].state \notin {"used", "deleted"}
  /\ link' = [link EXCEPT ![l].state = "used"]
  /\ Goto(c, IF link[l].purpose = "reset" THEN "setPassword" ELSE "setVerified")
  /\ UNCHANGED <<featureEmail, account, login, uses, flushed>>

Used(c) == uses' = [uses EXCEPT ![request[c].link] = @ + 1]

handleVerifyEmail(c) ==
  LET m == request[c].member IN
  /\ At(c, "setVerified")
  /\ Store(m, [account[m] EXCEPT !.verified = TRUE])
  /\ Used(c) /\ Done(c)
  /\ UNCHANGED <<featureEmail, link, login, flushed>>

NewPassword(m, known) ==
  /\ account[m].password < MaxPassword
  /\ Store(m, [account[m] EXCEPT !.password = @ + 1, !.known = known])

handleResetPassword(c) ==
  LET m == request[c].member IN
  /\ At(c, "setPassword")
  /\ NewPassword(m, TRUE) /\ Used(c)
  /\ request' = [request EXCEPT ![c].step = "flush", ![c].password = account[m].password + 1]
  /\ UNCHANGED <<featureEmail, link, login, flushed>>

SignOut(m) == login' = [t \in Logins |-> IF t \in LoginsOf(m) THEN None ELSE login[t]]

(* The end of a reset: the member's sessions are revoked.  Requests that    *)
(* have read the account before are late from here on.                      *)
RevokeNothing(c) ==   \* mutant: the sessions stay
  LET m == request[c].member  p == request[c].password IN
  /\ At(c, "flush")
  /\ flushed' = [flushed EXCEPT ![m] = IF p > @ THEN p ELSE @]
  /\ request' = [d \in Callers |->
       IF d = c THEN Idle ELSE [request[d] EXCEPT !.late = @ \/ request[d].member = m]]
  /\ UNCHANGED <<featureEmail, account, link, login, uses>>
RevokeAfterReset(c) ==
  LET m == request[c].member  p == request[c].password IN
  /\ At(c, "flush") /\ SignOut(m)
  /\ flushed' = [flushed EXCEPT ![m] = IF p > @ THEN p ELSE @]
  /\ request' = [d \in Callers |->
       IF d = c THEN Idle ELSE [request[d] EXCEPT !.late = @ \/ request[d].member = m]]
  /\ UNCHANGED <<featureEmail, account, link, uses>>

-----------------------------------------------------------------------------
(* The profile page.  withUser loads the account of a valid session.        *)

withUser(c, t, step) ==
  /\ login[t] # None /\ Live(login[t].member) /\ account[login[t].member].enabled
  /\ Serve(c, [About(login[t].member, step) EXCEPT
                 !.login = t, !.password = login[t].password, !.late = login[t].late])

handleProfile(c, t) ==
  /\ \/ withUser(c, t, "setProfile") \/ withUser(c, t, "closeAccount")
     \/ login[t] # None /\ account[login[t].member].known /\ withUser(c, t, "changePassword")
  /\ UNCHANGED <<featureEmail, account, link, login, uses, flushed>>

(* The address is changed as well, and nothing is asked to verify it. *)
UpdateMemberProfile(c, e) ==
  LET m == request[c].member IN
  /\ At(c, "setProfile") /\ HeldBy(e) \subseteq {m}
  /\ Store(m, [account[m] EXCEPT !.email = e]) /\ Done(c)
  /\ UNCHANGED <<featureEmail, link, login, uses, flushed>>

UpdateMemberPassword(c) ==
  LET m == request[c].member IN
  /\ At(c, "changePassword") /\ NewPassword(m, TRUE)
  /\ request' = [request EXCEPT ![c].step = "rotate", ![c].password = account[m].password + 1]
  /\ UNCHANGED <<featureEmail, link, login, uses, flushed>>

(* Rotate, or a new session if the old one has gone. *)
RotateSession(c, u) ==
  LET t == request[c].login  m == request[c].member  r == request[c] IN
  /\ At(c, "rotate")
  /\ IF login[t] # None /\ login[t].member = m
     THEN u = t /\ login' = [login EXCEPT ![t] = [member |-> m, password |-> r.password, late |-> r.late]]
     ELSE OpenLogin(c, u)
  /\ Done(c)
  /\ UNCHANGED <<featureEmail, account, link, uses, flushed>>

(* SetMemberEnabled; the sole-owner check comes before. *)
CloseAccount(c) ==
  LET m == request[c].member IN
  /\ At(c, "closeAccount")
  /\ Store(m, [account[m] EXCEPT !.enabled = FALSE]) /\ Goto(c, "signOut")
  /\ UNCHANGED <<featureEmail, link, login, uses, flushed>>

RevokeAllForMember(c) ==
  /\ At(c, "signOut") /\ SignOut(request[c].member) /\ Done(c)
  /\ UNCHANGED <<featureEmail, account, link, uses, flushed>>

-----------------------------------------------------------------------------
(* The administrator's actions on an account that was live when read.       *)

handleAdminUserAction(c, m) ==
  /\ Live(m)
  /\ \E step \in {"disable", "enable", "erase", "force", "signOut", "mailVerify"} :
       /\ step = "mailVerify" => ~account[m].verified
       /\ Serve(c, About(m, step))
  /\ UNCHANGED <<featureEmail, account, link, login, uses, flushed>>

SetMemberEnabled(c) ==
  LET m == request[c].member IN
  /\ request[c].step \in {"enable", "disable"}
  /\ Store(m, [account[m] EXCEPT !.enabled = At(c, "enable")]) /\ Done(c)
  /\ UNCHANGED <<featureEmail, link, login, uses, flushed>>

AdminForcePasswordReset(c) ==
  /\ At(c, "force") /\ NewPassword(request[c].member, FALSE) /\ Done(c)
  /\ UNCHANGED <<featureEmail, link, login, uses, flushed>>

AdminDeleteMember(c) ==
  LET m == request[c].member IN
  /\ At(c, "erase") /\ Live(m)
  /\ \A l \in Links : link[l] # None /\ link[l].member = m => ~Locked(l)
  /\ Store(m, [email |-> Anonymous, password |-> account[m].password, known |-> FALSE,
               enabled |-> FALSE, verified |-> FALSE, deleted |-> TRUE])
  /\ link' = [l \in Links |->
       IF link[l] # None /\ link[l].member = m THEN [link[l] EXCEPT !.state = "deleted"] ELSE link[l]]
  /\ SignOut(m) /\ Goto(c, "signOut")
  /\ UNCHANGED <<featureEmail, uses, flushed>>

-----------------------------------------------------------------------------

(* A request ends early: a refused statement, an error, a cancelled client. *)
GiveUp(c) ==
  /\ request[c] # Idle /\ Done(c)
  /\ UNCHANGED <<featureEmail, account, link, login, uses, flushed>>

ANext ==
  \/ \E c \in Callers, m \in Members :
       \/ \E e \in Emails : handleSignup(c, m, e)
       \/ AuthenticateMemberByEmail(c, m)
       \/ handleForgotPassword(c, m) \/ handleVerifyEmailResend(c, m)
       \/ handleAdminUserAction(c, m)
  \/ \E c \in Callers, t \in Logins :
       CreateSession(c, t) \/ handleProfile(c, t) \/ RotateSession(c, t)
  \/ \E c \in Callers, l \in Links : IssueMemberToken(c, l) \/ LockToken(c, l)
  \/ \E c \in Callers, e \in Emails : UpdateMemberProfile(c, e)
  \/ \E c \in Callers :
       \/ AutoVerify(c) \/ ConsumeMemberToken(c) \/ handleVerifyEmail(c)
       \/ handleResetPassword(c) \/ RevokeAfterReset(c)
       \/ UpdateMemberPassword(c) \/ CloseAccount(c) \/ RevokeAllForMember(c)
       \/ SetMemberEnabled(c) \/ AdminForcePasswordReset(c) \/ AdminDeleteMember(c)
       \/ GiveUp(c)
  \/ \E t \in Logins : handleLogout(t)
  \/ \E l \in Links : LinkExpires(l)

ASpec == AInit /\ [][ANext]_avars

-----------------------------------------------------------------------------

(* With FEATURE_EMAIL nobody is signed in to an account whose address was   *)
(* not verified, whatever happened between the password check and the       *)
(* session.                                                                 *)
OnlyVerifiedSignIn ==
  featureEmail =>
    \A t \in Logins :
      login[t] # None /\ ~account[login[t].member].deleted => account[login[t].member].verified

(* A mailed link does what it is for once, however many requests bring it. *)
LinksWorkOnce == \A l \in Links : uses[l] <= 1

(* After a reset the only sessions left that were not opened with its       *)
(* password or a later one are those of requests it overtook.               *)
ResetEndsOldSessions ==
  \A t \in Logins :
    login[t] # None /\ login[t].password < flushed[login[t].member] => login[t].late

(* "Reset-password revokes active sessions for the member": none is left.  *)
ResetSignsOut ==
  \A t \in Logins : login[t] # None => login[t].password >= flushed[login[t].member]
=============================================================================
