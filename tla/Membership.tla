----------------------------- MODULE Membership -----------------------------
(***************************************************************************)
(* Who belongs to an organization, in what role, and the two ways in: a    *)
(* request that an owner decides and an invitation sent by e-mail.         *)
(*                                                                         *)
(* Requests are handled concurrently, each by a goroutine of its own.  A   *)
(* handler first reads what it needs to authorise the call, outside of any *)
(* transaction; then the service locks rows, reads, writes and commits.    *)
(* What is written is visible to others at the commit, so a transaction's  *)
(* writes are its last step.  A lock and the reads that follow it are one  *)
(* step where nothing that happens between them could be told from its     *)
(* happening before.  Waits of foreign keys only delay, and are left out.  *)
(***************************************************************************)
EXTENDS Naturals, FiniteSets

CONSTANTS
  People,      \* the accounts; an e-mail address stands for its account
  Owners,      \* those who own the organization at first
  Requests,    \* the ids of membership_requests
  Invites,     \* the ids of organization_invitations
  Handlers,    \* the goroutines that serve a request
  DailyLimit,  \* OrganizationInviteDailyLimit
  Served,      \* the operations that are asked for
  Nobody, None \* no person; no request or invitation

ASSUME MembershipAssumption ==
  /\ Owners \subseteq People /\ Owners # {}
  /\ IsFiniteSet(People) /\ IsFiniteSet(Invites) /\ IsFiniteSet(Handlers)
  /\ DailyLimit \in Nat
  /\ Nobody \notin People /\ None \notin Requests \cup Invites

VARIABLES
  org,         \* the organization is "enabled", "disabled" or "gone"
  membership,  \* the latest row of each person, "left" once left_at is set
  grants,      \* the starting balances booked for each person
  request,     \* membership_requests
  invite,      \* organization_invitations
  mailed,      \* the invitations whose link has reached its addressee
  overdue,     \* the invitations whose expires_at has passed
  deleted,     \* the accounts with deleted_at
  handler      \* what each handler is doing

tables == <<org, membership, grants, request, invite, mailed, overdue, deleted>>
mvars == <<tables, handler>>

Active == {"member", "owner"}
MembershipRows == {"membership"} \X People
RequestRows == {"request"} \X Requests
InviteRows == {"invite"} \X Invites
AccountRows == {"account"} \X People
OrgRow == <<"organization", "organization">>
Rows == MembershipRows \cup RequestRows \cup InviteRows \cup AccountRows \cup {OrgRow}

Operations ==
  {"idle", "ask", "approve", "deny", "accept", "leave", "remove", "promote",
   "demote", "delete", "issue"}

(* whom is the member concerned or the addressee; count the owners counted, *)
(* or the invitations still allowed; had and exists what was read of the    *)
(* member's rows; held the rows locked; todo the addresses still to invite. *)
Handling ==
  [op : Operations, step : 0..3, by : People \cup {Nobody}, whom : People \cup {Nobody},
   id : Requests \cup Invites \cup {None}, count : Nat, had : BOOLEAN, exists : BOOLEAN,
   held : SUBSET Rows, todo : SUBSET People]

Idle ==
  [op |-> "idle", step |-> 0, by |-> Nobody, whom |-> Nobody, id |-> None, count |-> 0,
   had |-> FALSE, exists |-> FALSE, held |-> {}, todo |-> {}]

(* Types, and no row is locked twice. *)
TypeOK ==
  /\ org \in {"enabled", "disabled", "gone"}
  /\ membership \in [People -> {"none", "left"} \cup Active]
  /\ grants \in [People -> Nat]
  /\ request \in [Requests -> [status : {"none", "pending", "approved", "rejected"},
                               member : People \cup {Nobody}]]
  /\ invite \in [Invites -> [status : {"none", "pending", "accepted", "expired"},
                             email : People \cup {Nobody}, sent : BOOLEAN]]
  /\ mailed \subseteq Invites /\ overdue \subseteq Invites /\ deleted \subseteq People
  /\ handler \in [Handlers -> Handling]
  /\ \A g, h \in Handlers : g # h => handler[g].held \cap handler[h].held = {}

Init ==
  /\ org = "enabled"
  /\ membership = [p \in People |-> IF p \in Owners THEN "owner" ELSE "none"]
  /\ grants = [p \in People |-> IF p \in Owners THEN 1 ELSE 0]
  /\ request = [r \in Requests |-> [status |-> "none", member |-> Nobody]]
  /\ invite = [i \in Invites |-> [status |-> "none", email |-> Nobody, sent |-> FALSE]]
  /\ mailed = {} /\ overdue = {} /\ deleted = {}
  /\ handler = [h \in Handlers |-> Idle]

-----------------------------------------------------------------------------
(* What handlers and services read.                                        *)

IsActive(p) == membership[p] \in Active
ActiveOwners == {p \in People : membership[p] = "owner"}
MemberOwnsOrganization(p) == p \notin deleted /\ membership[p] = "owner"
OrganizationForOwner(p) == MemberOwnsOrganization(p) /\ org = "enabled"
Pending(p) == \E r \in Requests : request[r] = [status |-> "pending", member |-> p]
PendingInvites(p) == {i \in Invites : invite[i].status = "pending" /\ invite[i].email = p}

CountSuccessfulInvites == Cardinality({i \in Invites : invite[i].sent})
RemainingInviteSlots ==
  IF CountSuccessfulInvites > DailyLimit THEN 0 ELSE DailyLimit - CountSuccessfulInvites

Free(h, rows) == \A g \in Handlers \ {h} : handler[g].held \cap rows = {}
At(h, ops, n) == handler[h].op \in ops /\ handler[h].step = n

Start(h, t) ==
  /\ handler[h] = Idle /\ t.op \in Served
  /\ handler' = [handler EXCEPT ![h] = t]
  /\ UNCHANGED tables

(* The next statement of h, which carries on with t. *)
Go(h, t) == handler' = [handler EXCEPT ![h] = [t EXCEPT !.step = @ + 1]]
End(h) == handler' = [handler EXCEPT ![h] = Idle]

(* The request is over without (another) commit: a check failed, the        *)
(* context was cancelled, a deadlock was broken, the process died.          *)
GiveUp(h) == handler[h] # Idle /\ End(h) /\ UNCHANGED tables

-----------------------------------------------------------------------------
(* Roles and departures.                                                   *)

LosesOwner(t) == t.op # "promote" /\ membership[t.whom] = "owner"

Change(h, op, by, whom) ==
  /\ IsActive(whom)
  /\ Start(h, [Idle EXCEPT !.op = op, !.by = by, !.whom = whom])

BeginLeave(h, p) == p \notin deleted /\ Change(h, "leave", p, p)

BeginRemove(h, by, whom) == OrganizationForOwner(by) /\ Change(h, "remove", by, whom)

BeginRoleChange(h, op, by, whom) ==
  /\ op \in {"promote", "demote"} /\ OrganizationForOwner(by)
  /\ Change(h, op, by, whom)

Departures == {"leave", "remove", "demote"}

CountNobody(h) ==   \* mutant: the owners are not counted
  LET t == handler[h]  row == {<<"membership", t.whom>>} IN
  /\ At(h, Departures \cup {"promote"}, 0)
  /\ IsActive(t.whom) /\ Free(h, row)
  /\ Go(h, [t EXCEPT !.held = row, !.count = Cardinality(ActiveOwners),
                     !.had = membership[t.whom] = "owner"])
  /\ UNCHANGED tables
LockAndCount(h) ==
  LET t == handler[h]  row == {<<"membership", t.whom>>} IN
  /\ At(h, Departures \cup {"promote"}, 0)
  /\ IsActive(t.whom) /\ Free(h, row)
  /\ LosesOwner(t) => Cardinality(ActiveOwners) > 1
  /\ Go(h, [t EXCEPT !.held = row, !.count = Cardinality(ActiveOwners),
                     !.had = membership[t.whom] = "owner"])
  /\ UNCHANGED tables

NewRole(op) == IF op = "promote" THEN "owner" ELSE IF op = "demote" THEN "member" ELSE "left"

WriteChange(h) ==
  LET t == handler[h] IN
  /\ At(h, Departures \cup {"promote"}, 1)
  /\ membership' = [membership EXCEPT ![t.whom] = NewRole(t.op)]
  /\ End(h)
  /\ UNCHANGED <<org, grants, request, invite, mailed, overdue, deleted>>

(* AdminDeleteMember locks the account and looks for another owner; its     *)
(* UPDATE of the memberships then waits for whoever has the row.            *)
BeginDelete(h, whom) ==
  LET row == {<<"account", whom>>} IN
  /\ whom \notin deleted /\ Free(h, row)
  /\ membership[whom] = "owner" => ActiveOwners # {whom}
  /\ Start(h, [Idle EXCEPT !.op = "delete", !.step = 1, !.whom = whom, !.held = row,
                           !.count = Cardinality(ActiveOwners),
                           !.had = membership[whom] = "owner"])

WriteDelete(h) ==
  LET whom == handler[h].whom IN
  /\ At(h, {"delete"}, 1)
  /\ Free(h, {<<"membership", whom>>})
  /\ membership' = [membership EXCEPT ![whom] = IF IsActive(whom) THEN "left" ELSE @]
  /\ deleted' = deleted \cup {whom}
  /\ End(h)
  /\ UNCHANGED <<org, grants, request, invite, mailed, overdue>>

-----------------------------------------------------------------------------
(* Requests.                                                               *)

BeginRequest(h, p) ==
  /\ org = "enabled" /\ p \notin deleted /\ ~Pending(p)
  /\ Start(h, [Idle EXCEPT !.op = "ask", !.by = p])

(* The unique index of pending requests waits for an UPDATE in progress. *)
InsertRequest(h, r) ==
  LET p == handler[h].by IN
  /\ At(h, {"ask"}, 0) /\ org # "gone"
  /\ request[r].status = "none" /\ ~Pending(p)
  /\ request' = [request EXCEPT ![r] = [status |-> "pending", member |-> p]]
  /\ End(h)
  /\ UNCHANGED <<org, membership, grants, invite, mailed, overdue, deleted>>

BeginDecision(h, op, by, r) ==
  /\ MemberOwnsOrganization(by) /\ request[r].status = "pending"
  /\ Start(h, [Idle EXCEPT !.op = op, !.by = by, !.whom = request[r].member, !.id = r])

WriteDenial(h) ==
  LET r == handler[h].id IN
  /\ At(h, {"deny"}, 0)
  /\ request[r].status = "pending" /\ Free(h, {<<"request", r>>})
  /\ request' = [request EXCEPT ![r].status = "rejected"]
  /\ End(h)
  /\ UNCHANGED <<org, membership, grants, invite, mailed, overdue, deleted>>

(* The UPDATE of the request, and the first read of                         *)
(* ensureActiveMembershipAndStartingBalance.                                *)
LockRequest(h) ==
  LET t == handler[h]  row == {<<"request", t.id>>} IN
  /\ At(h, {"approve"}, 0)
  /\ request[t.id].status = "pending" /\ Free(h, row)
  /\ Go(h, [t EXCEPT !.held = row, !.had = membership[t.whom] # "none"])
  /\ UNCHANGED tables

(* The second read: a statement of its own, with a snapshot of its own. *)
ReadActive(h) ==
  LET t == handler[h] IN
  /\ At(h, {"approve", "accept"}, 1)
  /\ Go(h, [t EXCEPT !.exists = IsActive(t.whom)])
  /\ UNCHANGED tables

(* The INSERT of the membership waits for whoever has changed or inserted   *)
(* one of the same person, and fails if that left an active one.            *)
Ensure(h) ==
  LET t == handler[h] IN
  /\ t.exists \/ (~IsActive(t.whom) /\ Free(h, {<<"membership", t.whom>>}))
  /\ membership' = [membership EXCEPT ![t.whom] = IF t.exists THEN @ ELSE "member"]
  /\ grants' = [grants EXCEPT ![t.whom] = IF t.had THEN @ ELSE @ + 1]

WriteApproval(h) ==
  /\ At(h, {"approve"}, 2)
  /\ Ensure(h)
  /\ request' = [request EXCEPT ![handler[h].id].status = "approved"]
  /\ End(h)
  /\ UNCHANGED <<org, invite, mailed, overdue, deleted>>

-----------------------------------------------------------------------------
(* Invitations: an owner invites a list of addresses.                      *)

(* The invitations left for the day are computed once, with the page. *)
BeginIssue(h, by, emails) ==
  /\ OrganizationForOwner(by)
  /\ Start(h, [Idle EXCEPT !.op = "issue", !.by = by, !.todo = emails,
                           !.count = RemainingInviteSlots])

(* Members are passed over; of anybody else pending invitations expire. *)
ExpirePending(h, p) ==
  LET t == handler[h] IN
  /\ At(h, {"issue"}, 0) /\ t.count > 0 /\ p \in t.todo
  /\ ~IsActive(p)
  /\ Free(h, {"invite"} \X PendingInvites(p))
  /\ invite' = [i \in Invites |->
       IF i \in PendingInvites(p) THEN [invite[i] EXCEPT !.status = "expired"] ELSE invite[i]]
  /\ Go(h, [t EXCEPT !.whom = p, !.todo = @ \ {p}])
  /\ UNCHANGED <<org, membership, grants, request, mailed, overdue, deleted>>

CreateInvitation(h, i) ==
  LET t == handler[h] IN
  /\ At(h, {"issue"}, 1) /\ org # "gone"
  /\ invite[i].status = "none" /\ PendingInvites(t.whom) = {}
  /\ invite' = [invite EXCEPT
       ![i] = [status |-> "pending", email |-> t.whom, sent |-> FALSE]]
  /\ Go(h, [t EXCEPT !.id = i])
  /\ UNCHANGED <<org, membership, grants, request, mailed, overdue, deleted>>

Send(h) ==
  LET t == handler[h] IN
  /\ At(h, {"issue"}, 2)
  /\ mailed' = mailed \cup {t.id}
  /\ Go(h, t)
  /\ UNCHANGED <<org, membership, grants, request, invite, overdue, deleted>>

NextAddress(h, left) ==
  handler' = [handler EXCEPT ![h] = [@ EXCEPT !.step = 0, !.whom = Nobody, !.id = None,
                                              !.count = left]]

(* The mail server reports an error, though the mail may have gone out, or  *)
(* the invitation cannot be marked: it expires if it is still pending.      *)
ExpireAnyway(h) ==   \* mutant: the invitation expires whatever became of it
  LET t == handler[h] IN
  /\ \E n \in {2, 3} : At(h, {"issue"}, n)
  /\ Free(h, {<<"invite", t.id>>})
  /\ invite' = [invite EXCEPT ![t.id].status = "expired"]
  /\ mailed' \in {mailed, mailed \cup {t.id}}
  /\ NextAddress(h, t.count)
  /\ UNCHANGED <<org, membership, grants, request, overdue, deleted>>
SendFails(h) ==
  LET t == handler[h] IN
  /\ \E n \in {2, 3} : At(h, {"issue"}, n)
  /\ Free(h, {<<"invite", t.id>>})
  /\ invite' = [invite EXCEPT ![t.id].status = IF @ = "pending" THEN "expired" ELSE @]
  /\ mailed' \in {mailed, mailed \cup {t.id}}
  /\ NextAddress(h, t.count)
  /\ UNCHANGED <<org, membership, grants, request, overdue, deleted>>

(* An invitation that is no longer pending, because its addressee was       *)
(* quicker, counts as a failure and not towards the day's limit.            *)
MarkUncounted(h) ==   \* mutant: the limit is not counted down
  LET t == handler[h]  pending == invite[t.id].status = "pending" IN
  /\ At(h, {"issue"}, 3)
  /\ Free(h, {<<"invite", t.id>>})
  /\ invite' = [invite EXCEPT ![t.id].sent = pending]
  /\ NextAddress(h, t.count)
  /\ UNCHANGED <<org, membership, grants, request, mailed, overdue, deleted>>
MarkSent(h) ==
  LET t == handler[h]  pending == invite[t.id].status = "pending" IN
  /\ At(h, {"issue"}, 3)
  /\ Free(h, {<<"invite", t.id>>})
  /\ invite' = [invite EXCEPT ![t.id].sent = pending]
  /\ NextAddress(h, IF pending THEN t.count - 1 ELSE t.count)
  /\ UNCHANGED <<org, membership, grants, request, mailed, overdue, deleted>>

InviteFallsDue(i) ==
  /\ invite[i].status # "none" /\ i \notin overdue
  /\ overdue' = overdue \cup {i}
  /\ UNCHANGED <<org, membership, grants, request, invite, mailed, deleted, handler>>

-----------------------------------------------------------------------------
(* Invitations: the addressee follows the link.                            *)

Resolves(i) ==
  /\ org = "enabled"
  /\ \/ invite[i].status = "pending" /\ i \notin overdue
     \/ invite[i].status = "accepted"

BeginAccept(h, i) ==
  LET p == invite[i].email IN
  /\ i \in mailed /\ Resolves(i) /\ p \in People \ deleted
  /\ Start(h, [Idle EXCEPT !.op = "accept", !.by = p, !.whom = p, !.id = i])

(* The SELECT locks the invitation and the organization.  Of an invitation  *)
(* that has fallen due since, the UPDATE to "expired" is not committed; for *)
(* one that is accepted already nothing is left to do.                      *)
LockNoWait(h) ==   \* mutant: the SELECT takes no lock others wait for
  LET t == handler[h]  rows == {<<"invite", t.id>>, OrgRow} IN
  /\ At(h, {"accept"}, 0)
  /\ org = "enabled" /\ invite[t.id].status = "pending"
  /\ Go(h, [t EXCEPT !.held = rows, !.had = membership[t.whom] # "none"])
  /\ UNCHANGED tables
AcceptAgain(h) ==   \* mutant: an accepted invitation is as good as a pending one
  LET t == handler[h]  rows == {<<"invite", t.id>>, OrgRow} IN
  /\ At(h, {"accept"}, 0)
  /\ Free(h, rows) /\ org = "enabled"
  /\ invite[t.id].status \in {"pending", "accepted"}
  /\ Go(h, [t EXCEPT !.held = rows, !.had = membership[t.whom] # "none"])
  /\ UNCHANGED tables
LockInvitation(h) ==
  LET t == handler[h]  rows == {<<"invite", t.id>>, OrgRow} IN
  /\ At(h, {"accept"}, 0)
  /\ Free(h, rows) /\ org = "enabled"
  /\ invite[t.id].status = "pending"
  /\ Go(h, [t EXCEPT !.held = rows, !.had = membership[t.whom] # "none"])
  /\ UNCHANGED tables

WriteAcceptance(h) ==
  /\ At(h, {"accept"}, 2)
  /\ Ensure(h)
  /\ invite' = [invite EXCEPT ![handler[h].id].status = "accepted"]
  /\ End(h)
  /\ UNCHANGED <<org, request, mailed, overdue, deleted>>

-----------------------------------------------------------------------------
(* The organization, by an administrator and by an owner.                  *)

SetOrganizationEnabled(state) ==
  /\ org \in {"enabled", "disabled"} \ {state}
  /\ Free(Nobody, {OrgRow})
  /\ org' = state
  /\ UNCHANGED <<membership, grants, request, invite, mailed, overdue, deleted, handler>>

(* The DELETE cascades to every row, and waits for each. *)
DeleteOrganization(by) ==
  /\ OrganizationForOwner(by)
  /\ \A h \in Handlers : handler[h].held \subseteq AccountRows
  /\ org' = "gone"
  /\ membership' = [p \in People |-> "none"]
  /\ grants' = [p \in People |-> 0]
  /\ request' = [r \in Requests |-> [status |-> "none", member |-> Nobody]]
  /\ invite' = [i \in Invites |-> [status |-> "none", email |-> Nobody, sent |-> FALSE]]
  /\ overdue' = {}
  /\ UNCHANGED <<mailed, deleted, handler>>

Roles(h) ==
  \/ \E p \in People : BeginLeave(h, p)
  \/ \E by, whom \in People : BeginRemove(h, by, whom)
  \/ \E op \in Operations, by, whom \in People : BeginRoleChange(h, op, by, whom)
  \/ LockAndCount(h) \/ WriteChange(h)
  \/ \E whom \in People : BeginDelete(h, whom)
  \/ WriteDelete(h)

Asking(h) ==
  \/ \E p \in People : BeginRequest(h, p)
  \/ \E r \in Requests : InsertRequest(h, r)
  \/ \E op \in {"approve", "deny"}, by \in People, r \in Requests : BeginDecision(h, op, by, r)
  \/ WriteDenial(h) \/ LockRequest(h) \/ ReadActive(h) \/ WriteApproval(h)

Inviting(h) ==
  \/ \E by \in People : \E emails \in SUBSET (People \ {by}) \ {{}} : BeginIssue(h, by, emails)
  \/ \E p \in People : ExpirePending(h, p)
  \/ \E i \in Invites : CreateInvitation(h, i)
  \/ Send(h) \/ SendFails(h) \/ MarkSent(h)
  \/ \E i \in Invites : BeginAccept(h, i)
  \/ LockInvitation(h) \/ WriteAcceptance(h)

Next ==
  \/ \E h \in Handlers : Roles(h) \/ Asking(h) \/ Inviting(h) \/ GiveUp(h)
  \/ \E i \in Invites : InviteFallsDue(i)
  \/ \E state \in {"enabled", "disabled"} : SetOrganizationEnabled(state)
  \/ \E by \in People : DeleteOrganization(by)

Spec == Init /\ [][Next]_mvars

-----------------------------------------------------------------------------
(* Properties.                                                             *)

(* A request and an invitation are decided once: no second owner's click,   *)
(* no second use of a link and no late mark of the issuer changes what was  *)
(* decided, until the organization itself is deleted.                       *)
DecisionsAreFinal ==
  [][/\ \A r \in Requests :
          request[r].status \in {"approved", "rejected"} => request'[r] = request[r] \/ org' = "gone"
     /\ \A i \in Invites :
          invite[i].status \in {"accepted", "expired"}
            => invite'[i].status = invite[i].status \/ org' = "gone"]_mvars

(* Nobody becomes a member but by a decision taken in that same step: a     *)
(* link used before does not bring back who has been removed.               *)
NobodyJoinsUninvited ==
  [][\A p \in People : membership[p] \notin Active /\ membership'[p] \in Active =>
       \/ \E r \in Requests :
            request[r] = [status |-> "pending", member |-> p] /\ request'[r].status = "approved"
       \/ \E i \in PendingInvites(p) : invite'[i].status = "accepted"]_mvars

(* Departures, demotions and deletions check that another owner is left.    *)
(* The last owner goes only where that check was overtaken: whoever takes   *)
(* him away had counted more owners than there are by then, or deletes the  *)
(* account of somebody who was no owner at the time of the check.           *)
LastOwnerGoesByStaleCheck ==
  [][ActiveOwners # {} /\ org' # "gone" /\ {p \in People : membership'[p] = "owner"} = {} =>
       \E h \in Handlers :
         /\ handler[h] # handler'[h]
         /\ handler[h].count > Cardinality(ActiveOwners) \/ ~handler[h].had]_mvars

(* Each request counts down what was left of the day's limit when it began, *)
(* so requests that overlap exceed it; but never by more than a limit for   *)
(* each request that can be under way besides the first.                    *)
LimitHoldsPerHandler ==
  CountSuccessfulInvites <= DailyLimit * Cardinality(Handlers)
=============================================================================
