--------------------------- MODULE HopTransactions ---------------------------
(***************************************************************************)
(* The operations of HopLifecycle that run concurrently on the same hops   *)
(* and members, statement by statement: what each reads before it holds a  *)
(* lock, the rows it locks, what it checks under the locks, its commit.    *)
(* Transactions are READ COMMITTED.  A plain read sees what is committed;  *)
(* a locking statement picks its rows from what is committed when it       *)
(* starts, waits for each, and then looks at the row's latest version.     *)
(* What a transaction writes is invisible to others until it commits, so   *)
(* its last step makes all its writes; the rows were locked before.  Rows  *)
(* of hop_help_offers need no locks here: whoever writes one has the hop   *)
(* locked, or is the deletion that has the offerer locked.                 *)
(*                                                                         *)
(* A write that refers to a member waits for whoever holds that member     *)
(* FOR UPDATE: the check of the foreign key wants the row in share mode.   *)
(*                                                                         *)
(* An operation begins when the pages offer it: on an open hop of somebody *)
(* else's, for a pending offer, on a live hop of one's own, and so on.  Any *)
(* other would roll back without a trace.  The policy stands.              *)
(***************************************************************************)
EXTENDS HopRefinement

CONSTANTS
  Sessions,   \* the database connections that run a transaction
  NoSession,  \* the holder of a row that nobody has locked
  NoHop       \* the hop of a transaction that is about none or several

ASSUME SessionsAssumption ==
  NoSession \notin Sessions /\ NoHop \notin Hops /\ Hops \cap Members = {}

Rows == Hops \cup Members

VARIABLES
  tx,    \* what each session is doing
  lock   \* who has locked or written a row and not ended its transaction yet

txVars == <<tx, lock>>
tvars == <<vars, txVars>>

Ops == {"idle", "create", "offer", "accept", "decline", "cancel", "complete",
        "expire", "disable", "delete"}

(* step counts the statements that are over; todo are the rows the current  *)
(* one has still to lock; hours are those entered and then those to move;   *)
(* reopened are the hops an account's end has set back to open.             *)
Transaction ==
  [op : Ops, step : 0..2, hop : Hops \cup {NoHop},
   by : Members \cup {NoMember}, whom : Members \cup {NoMember},
   kind : Kinds, hours : Nat, todo : SUBSET Rows, reopened : SUBSET Hops]

Idle ==
  [op |-> "idle", step |-> 0, hop |-> NoHop, by |-> NoMember, whom |-> NoMember,
   kind |-> "ask", hours |-> 0, todo |-> {}, reopened |-> {}]

(* Types, and no session waits for a row that it holds. *)
TTypeOK ==
  /\ TypeOK
  /\ tx \in [Sessions -> Transaction]
  /\ lock \in [Rows -> Sessions \cup {NoSession}]
  /\ \A s \in Sessions : \A r \in tx[s].todo : lock[r] # s

TInit ==
  /\ Init
  /\ tx = [s \in Sessions |-> Idle]
  /\ lock = [r \in Rows |-> NoSession]

-----------------------------------------------------------------------------
(* What all transactions do.                                               *)

Begin(s, t) ==
  /\ tx[s] = Idle
  /\ tx' = [tx EXCEPT ![s] = t]
  /\ UNCHANGED lock

(* The lock on one of the rows that the current statement waits for. *)
Acquire(s) ==
  \E r \in tx[s].todo :
    /\ lock[r] = NoSession
    /\ lock' = [lock EXCEPT ![r] = s]
    /\ tx' = [tx EXCEPT ![s].todo = @ \ {r}]
    /\ UNCHANGED vars

Mine(s) == {r \in Rows : lock[r] = s}

(* s waits for no lock, and n statements of its transaction are over. *)
At(s, op, n) == tx[s].op = op /\ tx[s].step = n /\ tx[s].todo = {}

(* On to the next statement, which locks the rows of S. *)
Go(s, t, S) ==
  /\ tx' = [tx EXCEPT ![s] = [t EXCEPT !.step = @ + 1, !.todo = S \ Mine(s)]]
  /\ UNCHANGED <<vars, lock>>

End(s) ==
  /\ tx' = [tx EXCEPT ![s] = Idle]
  /\ lock' = [r \in Rows |-> IF lock[r] = s THEN NoSession ELSE lock[r]]

(* Without a commit: a check failed, the request's context ended, or the    *)
(* database broke a cycle of waits.  A check that fails with one of the     *)
(* service's own errors leaves the transaction, and its locks, open until   *)
(* the context ends, so this may come late.                                 *)
RollBack(s) == tx[s] # Idle /\ End(s) /\ UNCHANGED vars

(* A disabled account's row is written but not locked FOR UPDATE. *)
ForUpdate(m) == lock[m] # NoSession /\ tx[lock[m]].op # "disable"

NobodyWaits(s, S) == TRUE   \* mutant: no foreign keys
ReferTo(s, S) == \A m \in S \cap Members : ForUpdate(m) => lock[m] = s

-----------------------------------------------------------------------------
(* Hops: posting and offers.                                               *)

(* CreateHop has no transaction: its checks and its INSERT are statements   *)
(* of their own.                                                            *)
BeginCreate(s, m, k, hours) ==
  /\ SignedIn(m) /\ ActiveMembership(m) /\ MayCreate(k, m)
  /\ Begin(s, [Idle EXCEPT !.op = "create", !.by = m, !.kind = k, !.hours = hours])
  /\ UNCHANGED vars

InsertHop(s, h) ==
  /\ At(s, "create", 0) /\ ReferTo(s, {tx[s].by})
  /\ status[h] = "none"
  /\ status' = [status EXCEPT ![h] = "open"]
  /\ kind' = [kind EXCEPT ![h] = tx[s].kind]
  /\ creator' = [creator EXCEPT ![h] = tx[s].by]
  /\ estimate' = [estimate EXCEPT ![h] = tx[s].hours]
  /\ End(s)
  /\ UNCHANGED <<matched, awarded, due, offer, bankVars, orgVars, memberVars, events>>

(* The membership is read before the hop is locked. *)
OfferUnlocked(s, h, m) ==   \* mutant
  /\ SignedIn(m) /\ ActiveMembership(m) /\ status[h] = "open" /\ creator[h] # m
  /\ Begin(s, [Idle EXCEPT !.op = "offer", !.hop = h, !.by = m])
  /\ UNCHANGED vars
BeginOffer(s, h, m) ==
  /\ SignedIn(m) /\ ActiveMembership(m) /\ status[h] = "open" /\ creator[h] # m
  /\ Begin(s, [Idle EXCEPT !.op = "offer", !.hop = h, !.by = m, !.todo = {h}])
  /\ UNCHANGED vars

CheckOffer(s) ==
  LET t == tx[s] IN
  /\ At(s, "offer", 0)
  /\ status[t.hop] = "open" /\ creator[t.hop] # t.by
  /\ MayTakeUp(t.hop, t.by)
  /\ offer[t.hop][t.by] \in {"none", "denied"}
  /\ Go(s, t, {})

(* An INSERT refers to the offerer, the UPDATE of a denied offer to nobody, *)
(* the notification to the creator.                                         *)
WriteOffer(s) ==
  LET t == tx[s] IN
  /\ At(s, "offer", 1)
  /\ ReferTo(s, {creator[t.hop]} \cup IF offer[t.hop][t.by] = "none" THEN {t.by} ELSE {})
  /\ offer' = [offer EXCEPT ![t.hop][t.by] = "pending"]
  /\ End(s)
  /\ UNCHANGED <<hopVars, due, bankVars, orgVars, memberVars, events>>

-----------------------------------------------------------------------------
(* Hops: the creator's answer.                                             *)

BeginAnswer(s, op, h, requester, m) ==
  /\ SignedIn(requester) /\ requester # m
  /\ creator[h] = requester /\ status[h] = "open" /\ offer[h][m] = "pending"
  /\ Begin(s, [Idle EXCEPT !.op = op, !.hop = h, !.by = requester, !.whom = m, !.todo = {h}])
  /\ UNCHANGED vars

(* loadHopForPendingOfferAction, under the lock on the hop. *)
AnswersToo(t) == creator[t.hop] = t.by   \* mutant: the status is not looked at again
MayAnswer(t) == creator[t.hop] = t.by /\ status[t.hop] = "open"

(* listOtherPendingHopOfferers joins the members, and locks their rows too. *)
LockOtherOfferers(s) ==
  LET t == tx[s] IN
  /\ At(s, "accept", 0) /\ MayAnswer(t)
  /\ Go(s, t, {m \in Members \ {t.whom} : offer[t.hop][m] = "pending"})

CheckAccept(s) ==
  LET t == tx[s] IN
  /\ At(s, "accept", 1)
  /\ ActiveMembership(t.by) /\ ActiveMembership(t.whom)
  /\ MayTakeUp(t.hop, t.whom)
  /\ Go(s, t, {})

(* The UPDATE of the hop refers to the offerer; only after it the offer is  *)
(* found to be pending still.                                               *)
AcceptUnchecked(s) ==   \* mutant: the rows affected are not counted
  LET t == tx[s] IN
  /\ At(s, "accept", 2) /\ ReferTo(s, {t.whom})
  /\ status' = [status EXCEPT ![t.hop] = "accepted"]
  /\ matched' = [matched EXCEPT ![t.hop] = t.whom]
  /\ offer' = [offer EXCEPT ![t.hop] =
       IF @[t.whom] = "pending" THEN AcceptOffer(@, t.whom) ELSE DenyPending(@, Members)]
  /\ End(s)
  /\ UNCHANGED <<kind, creator, estimate, awarded, due, bankVars, orgVars, memberVars, events>>
WriteAccept(s) ==
  LET t == tx[s] IN
  /\ At(s, "accept", 2) /\ ReferTo(s, {t.whom})
  /\ offer[t.hop][t.whom] = "pending"
  /\ status' = [status EXCEPT ![t.hop] = "accepted"]
  /\ matched' = [matched EXCEPT ![t.hop] = t.whom]
  /\ offer' = [offer EXCEPT ![t.hop] = AcceptOffer(@, t.whom)]
  /\ End(s)
  /\ UNCHANGED <<kind, creator, estimate, awarded, due, bankVars, orgVars, memberVars, events>>

WriteDecline(s) ==
  LET t == tx[s] IN
  /\ At(s, "decline", 0) /\ MayAnswer(t)
  /\ ActiveMembership(t.by)
  /\ offer[t.hop][t.whom] = "pending" /\ ReferTo(s, {t.whom})
  /\ offer' = [offer EXCEPT ![t.hop][t.whom] = "denied"]
  /\ End(s)
  /\ UNCHANGED <<hopVars, due, bankVars, orgVars, memberVars, events>>

-----------------------------------------------------------------------------
(* Hops: cancellation, completion and expiry.                              *)

(* The membership is read outside of the transaction; its first statement   *)
(* joins the creator's row, and locks it with the hop.                      *)
CancelJoinsMatch(s, h, m) ==   \* mutant: the wrong member, possibly NULL
  /\ SignedIn(m) /\ ActiveMembership(m) /\ creator[h] = m /\ status[h] \in LiveStatuses
  /\ Begin(s, [Idle EXCEPT !.op = "cancel", !.hop = h, !.by = m, !.todo = {h, matched[h]}])
  /\ UNCHANGED vars
BeginCancel(s, h, m) ==
  /\ SignedIn(m) /\ ActiveMembership(m) /\ creator[h] = m /\ status[h] \in LiveStatuses
  /\ Begin(s, [Idle EXCEPT !.op = "cancel", !.hop = h, !.by = m, !.todo = {h, creator[h]}])
  /\ UNCHANGED vars

Offerers(h) == {m \in Members : offer[h][m] = "pending"}

WriteCancel(s) ==
  LET t == tx[s] IN
  /\ At(s, "cancel", 0)
  /\ creator[t.hop] = t.by /\ status[t.hop] \in LiveStatuses
  /\ ReferTo(s, Offerers(t.hop) \cup {matched[t.hop]})
  /\ status' = [status EXCEPT ![t.hop] = "canceled"]
  /\ offer' = [offer EXCEPT ![t.hop] = DenyPending(@, Members)]
  /\ End(s)
  /\ UNCHANGED <<kind, creator, estimate, matched, awarded, due, bankVars, orgVars, memberVars,
                 events>>

CompleteUnlocked(s, h, m, entered) ==   \* mutant
  /\ SignedIn(m) /\ ActiveMembership(m)
  /\ status[h] = "accepted" /\ m \in {creator[h], matched[h]}
  /\ Begin(s, [Idle EXCEPT !.op = "complete", !.hop = h, !.by = m, !.hours = entered])
  /\ UNCHANGED vars
BeginComplete(s, h, m, entered) ==
  /\ SignedIn(m) /\ ActiveMembership(m)
  /\ status[h] = "accepted" /\ m \in {creator[h], matched[h]}
  /\ Begin(s, [Idle EXCEPT !.op = "complete", !.hop = h, !.by = m, !.hours = entered,
                           !.todo = {h}])
  /\ UNCHANGED vars

Requested(t) == IF t.by = Payer(t.hop) /\ t.hours > 0 THEN t.hours ELSE estimate[t.hop]

LeaveParticipantsFree(s) ==   \* mutant
  LET t == tx[s] IN
  /\ At(s, "complete", 0)
  /\ status[t.hop] = "accepted" /\ matched[t.hop] # NoMember
  /\ t.by \in {creator[t.hop], matched[t.hop]}
  /\ Go(s, [t EXCEPT !.hours = Requested(t)], {})
LockParticipants(s) ==
  LET t == tx[s] IN
  /\ At(s, "complete", 0)
  /\ status[t.hop] = "accepted" /\ matched[t.hop] # NoMember
  /\ t.by \in {creator[t.hop], matched[t.hop]}
  /\ Requested(t) > 0
  /\ Go(s, [t EXCEPT !.hours = Requested(t)], {creator[t.hop], matched[t.hop]})

ReadBalances(s) ==
  LET t == tx[s]
      hours == Allowed(t.hours, Balance(Payer(t.hop)), Balance(Earner(t.hop)), policy)
  IN At(s, "complete", 1) /\ Go(s, [t EXCEPT !.hours = hours], {})

(* The rows affected by the UPDATE are not counted before the INSERT. *)
WriteCompletion(s) ==
  LET t == tx[s]
      found == status[t.hop] = "accepted"
  IN
  /\ At(s, "complete", 2)
  /\ ReferTo(s, {creator[t.hop], matched[t.hop]})
  /\ status' = [status EXCEPT ![t.hop] = IF found THEN "completed" ELSE @]
  /\ awarded' = [awarded EXCEPT ![t.hop] = IF found THEN t.hours ELSE @]
  /\ transfers' = transfers \cup
       {[hop |-> t.hop, from |-> Payer(t.hop), to |-> Earner(t.hop), hours |-> t.hours]}
  /\ End(s)
  /\ UNCHANGED <<kind, creator, estimate, matched, due, offer, adjusted, orgVars, memberVars,
                 events>>

BeginExpire(s) ==
  /\ Overdue # {}
  /\ Begin(s, [Idle EXCEPT !.op = "expire", !.todo = Overdue])
  /\ UNCHANGED vars

(* Of the hops that were overdue when the UPDATE started, those that still  *)
(* are when it has them locked; their creators are notified.                *)
ExpirePicked(s, picked) ==   \* mutant: what was overdue at first is not looked at again
  status' = [h \in Hops |-> IF h \in picked THEN "expired" ELSE status[h]]
Expire(s, picked) ==
  status' = [h \in Hops |-> IF h \in picked \cap Overdue THEN "expired" ELSE status[h]]

WriteExpire(s) ==
  /\ At(s, "expire", 0)
  /\ ReferTo(s, {creator[h] : h \in Mine(s) \cap Overdue})
  /\ Expire(s, Mine(s) \cap Hops)
  /\ End(s)
  /\ UNCHANGED <<kind, creator, estimate, matched, awarded, due, offer, bankVars, orgVars,
                 memberVars, events>>

-----------------------------------------------------------------------------
(* Accounts: disabling and deletion by an administrator.                   *)

BeginAccountEnd(s, op, m) ==
  /\ Event /\ m \notin deleted /\ (op = "delete" => m # Owner)
  /\ Begin(s, [Idle EXCEPT !.op = op, !.whom = m, !.todo = {m}])
  /\ UNCHANGED <<hopVars, due, offer, bankVars, orgVars, memberVars>>

(* The SELECT of ReopenAcceptedHopsForMember; a deletion looks again        *)
(* whether the account is deleted when it has locked it.                    *)
LockAccepted(s) ==
  LET t == tx[s] IN
  \E op \in {"disable", "delete"} :
    /\ At(s, op, 0)
    /\ op = "delete" => t.whom \notin deleted
    /\ Go(s, t, AcceptedWith(t.whom))

Partners(s, m) ==
  UNION {{creator[h], matched[h]} \ {m} : h \in AcceptedWith(m) \cap Mine(s)}

(* The accepted hops it has locked go back to open, and the others involved *)
(* are notified.  A deletion then cancels the account's open hops.          *)
Reopen(s) ==
  LET t == tx[s]
      reopened == AcceptedWith(t.whom) \cap Mine(s)
      own == {h \in Hops : creator[h] = t.whom /\ (status[h] = "open" \/ h \in reopened)}
  IN
  \E op \in {"disable", "delete"} :
    /\ At(s, op, 1) /\ ReferTo(s, Partners(s, t.whom))
    /\ Go(s, [t EXCEPT !.reopened = reopened], IF op = "delete" THEN own ELSE {})

Unmatched(t) == [h \in Hops |-> IF h \in t.reopened THEN NoMember ELSE matched[h]]

WriteDisabled(s) ==
  LET t == tx[s] IN
  /\ At(s, "disable", 2)
  /\ status' = [h \in Hops |-> IF h \in t.reopened THEN "open" ELSE status[h]]
  /\ matched' = Unmatched(t)
  /\ enabled' = enabled \ {t.whom}
  /\ End(s)
  /\ UNCHANGED <<kind, creator, estimate, awarded, due, offer, bankVars, orgVars, active, joined,
                 deleted, events>>

WriteDeleted(s) ==
  LET t == tx[s]
      canceled == {h \in Mine(s) \cap Hops :
                     creator[h] = t.whom /\ (status[h] = "open" \/ h \in t.reopened)}
  IN
  /\ At(s, "delete", 2)
  /\ ReferTo(s, UNION {Offerers(h) : h \in canceled})
  /\ status' = [h \in Hops |->
       IF h \in canceled THEN "canceled" ELSE IF h \in t.reopened THEN "open" ELSE status[h]]
  /\ matched' = Unmatched(t)
  /\ offer' = [h \in Hops |->
       DenyPending(offer[h], IF h \in canceled THEN Members ELSE {t.whom})]
  /\ active' = active \ {t.whom}
  /\ enabled' = enabled \ {t.whom}
  /\ deleted' = deleted \cup {t.whom}
  /\ End(s)
  /\ UNCHANGED <<kind, creator, estimate, awarded, due, bankVars, orgVars, joined, events>>

-----------------------------------------------------------------------------
(* Operations that are one statement on a hop, or leave hops alone.        *)
OneStatement ==
  /\ UNCHANGED txVars
  /\ \/ \E h \in Hops : FallDue(h)
     \/ \E h \in Hops : lock[h] = NoSession /\ AdminExpireHop(h)
     \/ \E m \in Members : LeaveOrganization(m)

Post(s) ==
  \/ \E m \in Members, k \in Kinds, hours \in Estimates : BeginCreate(s, m, k, hours)
  \/ \E h \in Hops : InsertHop(s, h)

TakeUp(s) ==
  \/ \E h \in Hops, m \in Members : BeginOffer(s, h, m)
  \/ CheckOffer(s) \/ WriteOffer(s)

Answer(s) ==
  \/ \E op \in {"accept", "decline"}, h \in Hops, requester, m \in Members :
       BeginAnswer(s, op, h, requester, m)
  \/ LockOtherOfferers(s) \/ CheckAccept(s) \/ WriteAccept(s)
  \/ WriteDecline(s)

Settle(s) ==
  \/ \E h \in Hops, m \in Members : BeginCancel(s, h, m)
  \/ WriteCancel(s)
  \/ \E h \in Hops, m \in Members, entered \in FinalHours \cup {0} : BeginComplete(s, h, m, entered)
  \/ LockParticipants(s) \/ ReadBalances(s) \/ WriteCompletion(s)
  \/ BeginExpire(s) \/ WriteExpire(s)

EndAccount(s) ==
  \/ \E op \in {"disable", "delete"}, m \in Members : BeginAccountEnd(s, op, m)
  \/ LockAccepted(s) \/ Reopen(s)
  \/ WriteDisabled(s) \/ WriteDeleted(s)

TNext ==
  \/ OneStatement
  \/ \E s \in Sessions :
       \/ Acquire(s) \/ RollBack(s)
       \/ Post(s) \/ TakeUp(s) \/ Answer(s) \/ Settle(s) \/ EndAccount(s)

TSpec == TInit /\ [][TNext]_tvars

-----------------------------------------------------------------------------
(* The invariants of HopLifecycle hold of the statements as well, with one  *)
(* exception: DeletedMembersHoldNothing, of which this much is left.        *)

(* A deletion cannot slip in between the check of an offerer's membership   *)
(* and the match: the match waits for the deletion's lock, and then finds   *)
(* the offer withdrawn.                                                     *)
NoMatchWithDeleted ==
  \A h \in Hops : status[h] = "accepted" => matched[h] \notin deleted

(* What the test of the deletion asserts of the offers table afterwards.    *)
(* An offer that read the membership before the deletion committed can be   *)
(* written after it.                                                        *)
DeletedHaveNoPendingOffers ==
  \A h \in Hops : \A m \in deleted : offer[h][m] # "pending"
=============================================================================
