---------------------------- MODULE HopLifecycle ----------------------------
(***************************************************************************)
(* The hops of one organization, at the granularity of committed database  *)
(* transactions: every action below is one service operation that ran to   *)
(* its commit.  An operation that returns an error commits nothing and is  *)
(* a stuttering step.  HopTransactions splits the operations that run      *)
(* concurrently on hops into their statements.                             *)
(*                                                                         *)
(* A hop is posted by its creator, collects offers of help, is matched     *)
(* with one offerer, and ends completed (which moves hours between the     *)
(* two), canceled or expired.  An account can be disabled or deleted, and  *)
(* a membership can end, at any moment in between.                         *)
(***************************************************************************)
EXTENDS Integers, FiniteSets

CONSTANTS
  Members,      \* accounts that take part in the organization
  Owner,        \* the organization's only owner, who stays one
  Newcomers,    \* the members without a membership at first
  NoMember,     \* SQL NULL in a column that refers to a member
  Hops,         \* ids the hops table can hand out
  Estimates,    \* estimated_hours a creator may enter
  FinalHours,   \* completed_hours a paying member may enter
  Policies,     \* time-bank policies an owner may set
  Deltas,       \* hour adjustments an administrator may enter
  MaxEvents,    \* bound on the account, membership and policy events of a behaviour
  DirectAccept  \* whether AcceptHop is called: the tests do, no handler does

Kinds == {"ask", "offer"}
Statuses == {"none", "open", "accepted", "canceled", "expired", "completed", "deleted"}
LiveStatuses == {"open", "accepted"}
OfferStatuses == {"none", "pending", "accepted", "denied"}

PolicyRecords == [min : Int, max : Int, start : Int]

(* validateTimebankPolicy: what an owner's settings must satisfy. *)
ValidPolicy(p) ==
  /\ p.min > -10 /\ p.min < 0
  /\ p.max > 0   /\ p.max < 20
  /\ p.start > 0 /\ p.start < 10
  /\ p.start <= p.max

ASSUME MembersAssumption ==
  Owner \in Members /\ NoMember \notin Members /\ Newcomers \subseteq Members \ {Owner}
ASSUME HoursAssumption ==
  /\ Estimates \subseteq 1..8 /\ FinalHours \subseteq Nat \ {0}
  /\ Deltas \subseteq Int \ {0}
ASSUME PoliciesAssumption ==
  Policies \subseteq PolicyRecords /\ \A p \in Policies : ValidPolicy(p)
ASSUME BoundsAssumption == MaxEvents \in Nat /\ DirectAccept \in BOOLEAN

VARIABLES
  status,     \* hops.status; "none" is an id not handed out, "deleted" a row gone
  kind,       \* hops.hop_kind
  creator,    \* hops.created_user
  estimate,   \* hops.estimated_hours
  matched,    \* hops.matched_user
  awarded,    \* hops.completed_hours, 0 until the hop is completed
  due,        \* the hops whose expires_at has passed
  offer,      \* hop_help_offers.status of every hop and member; NULL is "pending"
  transfers,  \* the rows of hop_transactions
  adjusted,   \* each member's sum of hour_balance_adjustments
  policy,     \* organizations.timebank_*
  orgEnabled, \* organizations.enabled
  active,     \* the members with a membership whose left_at is NULL
  joined,     \* the members that ever had a membership
  enabled,    \* members.enabled
  deleted,    \* the members with deleted_at set
  events      \* account, membership and policy events so far

hopVars == <<status, kind, creator, estimate, matched, awarded>>
bankVars == <<transfers, adjusted>>
orgVars == <<policy, orgEnabled>>
memberVars == <<active, joined, enabled, deleted>>
vars == <<hopVars, due, offer, bankVars, orgVars, memberVars, events>>

Transfers == [hop : Hops, from : Members, to : Members, hours : Nat]

TypeOK ==
  /\ status \in [Hops -> Statuses]
  /\ kind \in [Hops -> Kinds]
  /\ creator \in [Hops -> Members \cup {NoMember}]
  /\ estimate \in [Hops -> 0..8]
  /\ matched \in [Hops -> Members \cup {NoMember}]
  /\ awarded \in [Hops -> Nat]
  /\ due \subseteq Hops
  /\ offer \in [Hops -> [Members -> OfferStatuses]]
  /\ transfers \subseteq Transfers
  /\ adjusted \in [Members -> Int]
  /\ policy \in PolicyRecords
  /\ orgEnabled \in BOOLEAN
  /\ active \subseteq Members /\ joined \subseteq Members
  /\ enabled \subseteq Members /\ deleted \subseteq Members
  /\ events \in Nat

-----------------------------------------------------------------------------
(* Queries and checks the operations share.                                *)

(* requireActiveMembership: a current membership of an enabled organization. *)
ActiveMembership(m) == m \in active /\ orgEnabled

(* withUser: only an enabled account that is not deleted acts on a session. *)
SignedIn(m) == m \in enabled /\ m \notin deleted

(* SUM(hours), counted hour by hour. *)
HourUnits(rows) == UNION {{t} \X (1..t.hours) : t \in rows}
HoursOf(rows) == Cardinality(HourUnits(rows))

(* loadMemberBalanceHours: there is no stored balance, it is summed from    *)
(* the two ledgers whenever it is needed.                                   *)
Balance(m) ==
  HoursOf({t \in transfers : t.to = m}) - HoursOf({t \in transfers : t.from = m})
    + adjusted[m]

(* validateCreateHopBalance *)
MayCreate(k, m) ==
  /\ k = "ask"   => Balance(m) > policy.min
  /\ k = "offer" => Balance(m) < policy.max

(* validateInterestBalance: taking up an Offer is what the taker pays for. *)
MayTakeUp(h, m) == kind[h] = "offer" => Balance(m) - estimate[h] >= policy.min

(* hopTransferParticipants *)
Payer(h) == IF kind[h] = "ask" THEN creator[h] ELSE matched[h]
Earner(h) == IF kind[h] = "ask" THEN matched[h] ELSE creator[h]

Least(a, b) == IF a <= b THEN a ELSE b

NonNegative(hours) == IF hours \in Nat THEN hours ELSE 0

\* mutant: only the earner's balance is looked at
CutForEarner(requested, payerBalance, earnerBalance, p) ==
  NonNegative(Least(requested, p.max - earnerBalance))

(* The hours a completion moves: what was asked for, cut to what the payer *)
(* has above the minimum and to what the earner lacks below the maximum.   *)
Allowed(requested, payerBalance, earnerBalance, p) ==
  NonNegative(Least(requested, Least(payerBalance - p.min, p.max - earnerBalance)))

(* What two statements of several operations do to the offers f on a hop:   *)
(* deny the pending ones of the members S; deny all, then accept m's.       *)
DenyPending(f, S) ==
  [m \in Members |-> IF m \in S /\ f[m] = "pending" THEN "denied" ELSE f[m]]

AcceptOffer(f, m) == [DenyPending(f, Members) EXCEPT ![m] = "accepted"]

Init ==
  /\ status = [h \in Hops |-> "none"]
  /\ kind = [h \in Hops |-> "ask"]
  /\ creator = [h \in Hops |-> NoMember]
  /\ estimate = [h \in Hops |-> 0]
  /\ matched = [h \in Hops |-> NoMember]
  /\ awarded = [h \in Hops |-> 0]
  /\ due = {}
  /\ offer = [h \in Hops |-> [m \in Members |-> "none"]]
  /\ transfers = {}
  /\ policy \in Policies
  /\ active = Members \ Newcomers /\ joined = active
  /\ adjusted = [m \in Members |-> IF m \in joined THEN policy.start ELSE 0]
  /\ orgEnabled = TRUE
  /\ enabled = Members /\ deleted = {}
  /\ events = 0

-----------------------------------------------------------------------------
(* What members do with hops.                                              *)

CreateHop(h, m, k, hours) ==
  /\ SignedIn(m) /\ ActiveMembership(m)
  /\ MayCreate(k, m)
  /\ status[h] = "none"
  /\ status' = [status EXCEPT ![h] = "open"]
  /\ kind' = [kind EXCEPT ![h] = k]
  /\ creator' = [creator EXCEPT ![h] = m]
  /\ estimate' = [estimate EXCEPT ![h] = hours]
  /\ UNCHANGED <<matched, awarded, due, offer, bankVars, orgVars, memberVars, events>>

(* An offer is new, or takes the place of one that was denied. *)
OfferHopHelp(h, m) ==
  /\ SignedIn(m) /\ ActiveMembership(m)
  /\ status[h] = "open" /\ creator[h] # m
  /\ MayTakeUp(h, m)
  /\ offer[h][m] \in {"none", "denied"}
  /\ offer' = [offer EXCEPT ![h][m] = "pending"]
  /\ UNCHANGED <<hopVars, due, bankVars, orgVars, memberVars, events>>

(* The creator picks one pending offer; the others are denied with it. *)
AcceptPendingHopOffer(h, requester, m) ==
  /\ SignedIn(requester)
  /\ requester # m
  /\ creator[h] = requester /\ status[h] = "open"
  /\ ActiveMembership(requester) /\ ActiveMembership(m)
  /\ MayTakeUp(h, m)
  /\ offer[h][m] = "pending"
  /\ status' = [status EXCEPT ![h] = "accepted"]
  /\ matched' = [matched EXCEPT ![h] = m]
  /\ offer' = [offer EXCEPT ![h] = AcceptOffer(@, m)]
  /\ UNCHANGED <<kind, creator, estimate, awarded, due, bankVars, orgVars, memberVars, events>>

DeclinePendingHopOffer(h, requester, m) ==
  /\ SignedIn(requester)
  /\ requester # m
  /\ creator[h] = requester /\ status[h] = "open"
  /\ ActiveMembership(requester)
  /\ offer[h][m] = "pending"
  /\ offer' = [offer EXCEPT ![h][m] = "denied"]
  /\ UNCHANGED <<hopVars, due, bankVars, orgVars, memberVars, events>>

(* A member takes an open hop without an offer.  No handler calls this      *)
(* operation, so its actor is not bound to a session.                       *)
AcceptHop(h, m) ==
  /\ DirectAccept
  /\ ActiveMembership(m)
  /\ status[h] = "open" /\ creator[h] # m
  /\ MayTakeUp(h, m)
  /\ status' = [status EXCEPT ![h] = "accepted"]
  /\ matched' = [matched EXCEPT ![h] = m]
  /\ UNCHANGED <<kind, creator, estimate, awarded, due, offer, bankVars, orgVars, memberVars,
                 events>>


(* The match is told but stays in matched_user, and its offer stays accepted. *)
CancelHop(h, m) ==
  /\ SignedIn(m) /\ ActiveMembership(m)
  /\ creator[h] = m /\ status[h] \in LiveStatuses
  /\ status' = [status EXCEPT ![h] = "canceled"]
  /\ offer' = [offer EXCEPT ![h] = DenyPending(@, Members)]
  /\ UNCHANGED <<kind, creator, estimate, matched, awarded, due, bankVars, orgVars, memberVars,
                 events>>

(* Either participant completes the hop; only the payer's hours count, and  *)
(* the payer may enter more hours than estimated as well as fewer.          *)
CompleteHop(h, m, entered) ==
  LET requested == IF m = Payer(h) /\ entered > 0 THEN entered ELSE estimate[h]
      hours == Allowed(requested, Balance(Payer(h)), Balance(Earner(h)), policy)
  IN
  /\ SignedIn(m) /\ ActiveMembership(m)
  /\ status[h] = "accepted" /\ matched[h] # NoMember
  /\ m \in {creator[h], matched[h]}
  /\ requested > 0
  /\ awarded' = [awarded EXCEPT ![h] = hours]
  /\ transfers' = transfers \cup
       {[hop |-> h, from |-> Payer(h), to |-> Earner(h), hours |-> hours]}
  /\ status' = [status EXCEPT ![h] = "completed"]
  /\ UNCHANGED <<kind, creator, estimate, matched, due, offer, adjusted, orgVars, memberVars,
                 events>>

-----------------------------------------------------------------------------
(* Time and the background job.                                            *)

(* A hop's date passes: 23:59:59 of the day, two days later for "around",   *)
(* 90 days after posting for "anytime".  It was in the future at posting.   *)
FallDue(h) ==
  /\ status[h] \in LiveStatuses /\ h \notin due
  /\ due' = due \cup {h}
  /\ UNCHANGED <<hopVars, offer, bankVars, orgVars, memberVars, events>>

OverdueOpen == {h \in due : status[h] = "open"}   \* mutant
Overdue == {h \in due : status[h] \in LiveStatuses}

(* One UPDATE for every overdue hop.  Offers and the match stay as they are. *)
ExpireDueHops ==
  /\ Overdue # {}
  /\ status' = [h \in Hops |-> IF h \in Overdue THEN "expired" ELSE status[h]]
  /\ UNCHANGED <<kind, creator, estimate, matched, awarded, due, offer, bankVars, orgVars,
                 memberVars, events>>

-----------------------------------------------------------------------------
(* What administrators do with hops and accounts.                          *)

AdminExpireHop(h) ==
  /\ status[h] \in LiveStatuses
  /\ status' = [status EXCEPT ![h] = "expired"]
  /\ UNCHANGED <<kind, creator, estimate, matched, awarded, due, offer, bankVars, orgVars,
                 memberVars, events>>

(* The row goes, and with it, by ON DELETE CASCADE, the offers on the hop. *)
AdminDeleteHop(h) ==
  /\ status[h] \in {"open", "canceled"}
  /\ status' = [status EXCEPT ![h] = "deleted"]
  /\ creator' = [creator EXCEPT ![h] = NoMember]
  /\ matched' = [matched EXCEPT ![h] = NoMember]
  /\ offer' = [offer EXCEPT ![h] = [m \in Members |-> "none"]]
  /\ due' = due \ {h}
  /\ UNCHANGED <<kind, estimate, awarded, bankVars, orgVars, memberVars, events>>

Event == events < MaxEvents /\ events' = events + 1

(* ReopenAcceptedHopsForMember: the accepted hops m takes part in.  Their   *)
(* match is dropped; the offer that led to it stays "accepted".             *)
AcceptedWith(m) ==
  {h \in Hops : /\ status[h] = "accepted" /\ matched[h] # NoMember
                /\ m \in {creator[h], matched[h]}}

MatchKept(m) == matched   \* mutant: only the status is reset
MatchDropped(m) == [h \in Hops |-> IF h \in AcceptedWith(m) THEN NoMember ELSE matched[h]]

AdminDisableMember(m) ==
  /\ Event /\ m \notin deleted
  /\ enabled' = enabled \ {m}
  /\ status' = [h \in Hops |-> IF h \in AcceptedWith(m) THEN "open" ELSE status[h]]
  /\ matched' = MatchDropped(m)
  /\ UNCHANGED <<kind, creator, estimate, awarded, due, offer, bankVars, orgVars, active, joined,
                 deleted>>

(* adminCancelOpenHopsForMember runs after the reopening, so it also takes  *)
(* the hops of m that were accepted a moment before.                        *)
OpenOnesOf(m) == {h \in Hops : creator[h] = m /\ status[h] = "open"}   \* mutant: runs first
CanceledWith(m) ==
  {h \in Hops : creator[h] = m /\ (status[h] = "open" \/ h \in AcceptedWith(m))}

(* The hops of the deleted account are canceled, those it was matched on    *)
(* reopened, its pending offers withdrawn and its membership ended.         *)
AdminDeleteMember(m) ==
  /\ Event /\ m \notin deleted /\ m # Owner
  /\ status' = [h \in Hops |->
       IF h \in CanceledWith(m) THEN "canceled"
       ELSE IF h \in AcceptedWith(m) THEN "open" ELSE status[h]]
  /\ matched' = MatchDropped(m)
  /\ offer' = [h \in Hops |->
       DenyPending(offer[h], IF h \in CanceledWith(m) THEN Members ELSE {m})]
  /\ active' = active \ {m}
  /\ enabled' = enabled \ {m}
  /\ deleted' = deleted \cup {m}
  /\ UNCHANGED <<kind, creator, estimate, awarded, due, bankVars, orgVars, joined>>

(* Re-enabling by an administrator, who cannot load a deleted account. *)
EnableMember(m) ==
  /\ Event /\ m \notin enabled /\ m \notin deleted
  /\ enabled' = enabled \cup {m}
  /\ UNCHANGED <<hopVars, due, offer, bankVars, orgVars, active, joined, deleted>>

(* "Delete my account" only disables it; hops and offers are left alone. *)
DisableOwnAccount(m) ==
  /\ Event /\ SignedIn(m) /\ m # Owner
  /\ enabled' = enabled \ {m}
  /\ UNCHANGED <<hopVars, due, offer, bankVars, orgVars, active, joined, deleted>>

AdjustMemberHourBalance(m, delta) ==
  /\ Event /\ m \in active
  /\ adjusted' = [adjusted EXCEPT ![m] = @ + delta]
  /\ UNCHANGED <<hopVars, due, offer, transfers, orgVars, memberVars>>

-----------------------------------------------------------------------------
(* Membership and policy, as far as hops depend on them.                   *)

EndMembership(m) ==
  /\ Event /\ m \in active /\ m # Owner
  /\ active' = active \ {m}
  /\ UNCHANGED <<hopVars, due, offer, bankVars, orgVars, joined, enabled, deleted>>

LeaveOrganization(m) == SignedIn(m) /\ EndMembership(m)

RemoveOrganizationMember(m) == SignedIn(Owner) /\ orgEnabled /\ EndMembership(m)

(* ensureActiveMembershipAndStartingBalance: the starting balance is        *)
(* granted once, to a member without membership history.                    *)
StartGrantedAgain(m) == [adjusted EXCEPT ![m] = @ + policy.start]   \* mutant
StartGranted(m) ==
  IF m \in joined THEN adjusted ELSE [adjusted EXCEPT ![m] = @ + policy.start]

EnsureActiveMembership(m) ==
  /\ Event /\ m \notin active
  /\ active' = active \cup {m}
  /\ joined' = joined \cup {m}
  /\ adjusted' = StartGranted(m)
  /\ UNCHANGED <<hopVars, due, offer, transfers, orgVars, enabled, deleted>>

(* The request itself is not modelled: it can have been filed at any        *)
(* earlier moment, also before the account was disabled or deleted.         *)
ApproveMembershipRequest(m) == SignedIn(Owner) /\ EnsureActiveMembership(m)

AcceptOrganizationInvite(m) == SignedIn(m) /\ orgEnabled /\ EnsureActiveMembership(m)

UpdateOrganizationTimebankPolicy(p) ==
  /\ Event /\ SignedIn(Owner) /\ orgEnabled /\ p # policy
  /\ policy' = p
  /\ UNCHANGED <<hopVars, due, offer, bankVars, orgEnabled, memberVars>>

SetOrganizationEnabled(b) ==
  /\ Event /\ orgEnabled # b
  /\ orgEnabled' = b
  /\ UNCHANGED <<hopVars, due, offer, bankVars, policy, memberVars>>

-----------------------------------------------------------------------------
MemberStep(m) ==
  \E h \in Hops :
    \/ \E k \in Kinds, hours \in Estimates : CreateHop(h, m, k, hours)
    \/ OfferHopHelp(h, m)
    \/ \E o \in Members : AcceptPendingHopOffer(h, m, o) \/ DeclinePendingHopOffer(h, m, o)
    \/ AcceptHop(h, m)
    \/ CancelHop(h, m)
    \/ \E entered \in FinalHours \cup {0} : CompleteHop(h, m, entered)

HopStep(h) == FallDue(h) \/ AdminExpireHop(h) \/ AdminDeleteHop(h)

AccountStep(m) ==
  \/ AdminDisableMember(m)
  \/ AdminDeleteMember(m)
  \/ EnableMember(m)
  \/ DisableOwnAccount(m)
  \/ \E delta \in Deltas : AdjustMemberHourBalance(m, delta)
  \/ LeaveOrganization(m)
  \/ RemoveOrganizationMember(m)
  \/ ApproveMembershipRequest(m)
  \/ AcceptOrganizationInvite(m)

OrganizationStep ==
  \/ \E p \in Policies : UpdateOrganizationTimebankPolicy(p)
  \/ \E b \in BOOLEAN : SetOrganizationEnabled(b)

Next ==
  \/ \E m \in Members : MemberStep(m) \/ AccountStep(m)
  \/ \E h \in Hops : HopStep(h)
  \/ ExpireDueHops
  \/ OrganizationStep

Spec == Init /\ [][Next]_vars

(* The worker polls for as long as the server runs and retries after a      *)
(* failure, so a due hop is not left behind for ever.                       *)
FairSpec == Spec /\ WF_vars(ExpireDueHops)
-----------------------------------------------------------------------------
(* Properties.                                                             *)

(* What a hop's status says about its participants: an open hop has a       *)
(* creator and no match, an accepted or completed one is matched with       *)
(* somebody else, and an id without a row has neither.  Matching, reopening *)
(* by an administrator and deletion all have to keep it.                    *)
MatchAgreesWithStatus ==
  \A h \in Hops :
    /\ status[h] \in {"none", "deleted"} <=> creator[h] = NoMember
    /\ status[h] \in {"none", "deleted", "open"} => matched[h] = NoMember
    /\ status[h] \in {"accepted", "completed"} => matched[h] # NoMember
    /\ matched[h] # NoMember => matched[h] # creator[h]

(* Hours move exactly once for a completed hop and never for another: the   *)
(* row names the participants in the direction the hop's kind asks for and  *)
(* carries the hours the hop itself records, whatever cancellations,        *)
(* expiries, reopenings and deletions surrounded the completion.            *)
LedgerMatchesHops ==
  /\ \A h \in Hops :
       status[h] = "completed" =>
         \E t \in transfers : t.hop = h
  /\ \A t \in transfers :
       /\ status[t.hop] = "completed" /\ t.hours = awarded[t.hop]
       /\ {t.from, t.to} = {creator[t.hop], matched[t.hop]}
       /\ t.from = creator[t.hop] <=> kind[t.hop] = "ask"
  /\ \A t, u \in transfers : t.hop = u.hop => t = u

(* Nobody works on or pays for a hop without having asked to: as long as    *)
(* members are matched only through their offers, the match of an accepted  *)
(* or completed hop is a member whose own offer was accepted.               *)
MatchesAreConsented ==
  ~DirectAccept =>
    \A h \in Hops :
      status[h] \in {"accepted", "completed"} => offer[h][matched[h]] = "accepted"

(* No offer waits for an answer that cannot come: once a hop is accepted,   *)
(* completed, canceled or gone, none of its offers is pending.  (Expiry     *)
(* does leave offers pending.)                                              *)
NoOfferLeftWaiting ==
  ~DirectAccept =>
    \A h \in Hops, m \in Members :
      offer[h][m] = "pending" => status[h] \in {"open", "expired"} /\ m # creator[h]

(* A deleted account takes part in nothing that is still going on: no open  *)
(* hop of its own, no accepted hop on either side, no pending offer; and it *)
(* stays so when it is made a member again or a hop is reopened.            *)
DeletedMembersHoldNothing ==
  ~DirectAccept =>
    \A h \in Hops :
      /\ status[h] \in LiveStatuses => creator[h] \notin deleted
      /\ status[h] = "accepted" => matched[h] \notin deleted
      /\ \A m \in deleted : offer[h][m] # "pending"

(* While the policy stands and no administrator adjusts hours, no sequence  *)
(* of completions takes a member outside the organization's limits, however *)
(* many hops were accepted before their hours were paid.                    *)
BalancesWithinLimits ==
  \A m \in joined : policy.min <= Balance(m) /\ Balance(m) <= policy.max

(* The starting balance is granted once per member and organization: with   *)
(* no adjustments and a standing policy, leaving and joining again, by      *)
(* request or invitation, adds nothing.                                     *)
StartingBalanceGrantedOnce ==
  \A m \in Members : adjusted[m] = IF m \in joined THEN policy.start ELSE 0

(* Outcomes are final: a completed or expired hop keeps its status, its     *)
(* participants and its hours; a canceled one can only be deleted, and an   *)
(* id is not reused.                                                        *)
OutcomesAreFinal ==
  [][\A h \in Hops :
       /\ status[h] \in {"completed", "expired", "deleted"} =>
            UNCHANGED <<status[h], creator[h], matched[h], awarded[h]>>
       /\ status[h] = "canceled" => status'[h] \in {"canceled", "deleted"}]_vars

(* Hours only move when an accepted hop is completed, and a move that is    *)
(* not empty leaves the payer at or above the minimum and the earner at or  *)
(* below the maximum of the policy in force, even when adjustments or a new *)
(* policy had left one of them outside.                                     *)
CompletionKeepsLimits ==
  [][\A t \in transfers' \ transfers :
       /\ status[t.hop] = "accepted"
       /\ t.hours > 0 => /\ Balance(t.from)' >= policy.min
                         /\ Balance(t.to)' <= policy.max]_vars

(* A hop whose date has passed does not stay open or accepted for ever,     *)
(* also when an administrator's action reopens it meanwhile.                *)
OverdueHopsSettle ==
  \A h \in Hops :
    h \in due /\ status[h] \in LiveStatuses ~> h \notin due \/ status[h] \notin LiveStatuses
=============================================================================
