------------------------ MODULE HopLifecycle_proofs ------------------------
(***************************************************************************)
(* The safety invariants of HopLifecycle, proved for any members, hops,    *)
(* policies and adjustments.  They are inductive together: what the ledger *)
(* says needs the participants of a completed hop, who a completion may    *)
(* name needs the match of an accepted hop, and who is matched needs the   *)
(* offers.  One lemma per operation, one step per conjunct.  From the same *)
(* invariant follows that HopLifecycle implements HopContract.  There is no *)
(* stored balance in the code, so the proofs about hours first show what    *)
(* adding one row to hop_transactions does to the balances summed from it.  *)
(***************************************************************************)
EXTENDS HopRefinement, FiniteSetTheorems, TLAPS

IInv ==
  /\ TypeOK
  /\ MatchAgreesWithStatus
  /\ LedgerMatchesHops
  /\ MatchesAreConsented
  /\ NoOfferLeftWaiting
  /\ DeletedMembersHoldNothing

(* A step that adds no row and neither makes a hop completed nor touches    *)
(* one that is, keeps the ledger right.                                     *)
LEMMA LedgerUntouched ==
  ASSUME TypeOK, LedgerMatchesHops, transfers' = transfers,
         \A h \in Hops :
           IF status[h] = "completed"
           THEN /\ status'[h] = status[h] /\ kind'[h] = kind[h] /\ creator'[h] = creator[h]
                /\ matched'[h] = matched[h] /\ awarded'[h] = awarded[h]
           ELSE status'[h] # "completed"
  PROVE  LedgerMatchesHops'
<1>1. \A t \in transfers : t.hop \in Hops /\ status[t.hop] = "completed"
  BY DEF TypeOK, Transfers, LedgerMatchesHops
<1>2. \A h \in Hops : status'[h] = "completed" => \E t \in transfers' : t.hop = h
  BY DEF LedgerMatchesHops
<1>3. ASSUME NEW t \in transfers'
      PROVE  /\ status'[t.hop] = "completed" /\ t.hours = awarded'[t.hop]
             /\ {t.from, t.to} = {creator'[t.hop], matched'[t.hop]}
             /\ t.from = creator'[t.hop] <=> kind'[t.hop] = "ask"
  <2>1. t \in transfers /\ t.hop \in Hops /\ status[t.hop] = "completed"
    BY <1>1
  <2>2. /\ status'[t.hop] = status[t.hop] /\ kind'[t.hop] = kind[t.hop]
        /\ creator'[t.hop] = creator[t.hop] /\ matched'[t.hop] = matched[t.hop]
        /\ awarded'[t.hop] = awarded[t.hop]
    BY <2>1
  <2> QED
    BY <2>1, <2>2 DEF LedgerMatchesHops
<1>4. \A t, u \in transfers' : t.hop = u.hop => t = u
  BY DEF LedgerMatchesHops
<1> QED
  BY <1>2, <1>3, <1>4 DEF LedgerMatchesHops

(* A completion adds the one row that its hop asks for. *)
LEMMA LedgerGrows ==
  ASSUME TypeOK, MatchAgreesWithStatus, LedgerMatchesHops,
         NEW h \in Hops, NEW hours \in Nat, status[h] = "accepted",
         status' = [status EXCEPT ![h] = "completed"],
         awarded' = [awarded EXCEPT ![h] = hours],
         transfers' = transfers \cup
           {[hop |-> h, from |-> Payer(h), to |-> Earner(h), hours |-> hours]},
         UNCHANGED <<kind, creator, matched>>
  PROVE  LedgerMatchesHops'
<1> DEFINE row == [hop |-> h, from |-> Payer(h), to |-> Earner(h), hours |-> hours]
<1>1. /\ {Payer(h), Earner(h)} = {creator[h], matched[h]}
      /\ Payer(h) = creator[h] <=> kind[h] = "ask"
  BY DEF TypeOK, MatchAgreesWithStatus, Kinds, Payer, Earner
<1>2. \A t \in transfers : t.hop \in Hops /\ t.hop # h
  BY DEF TypeOK, Transfers, LedgerMatchesHops
<1>3. \A g \in Hops : status'[g] = "completed" => \E t \in transfers' : t.hop = g
  <2> TAKE g \in Hops
  <2>1. CASE g = h
    <3>1. row \in transfers' /\ row.hop = h
      OBVIOUS
    <3> QED
      BY <2>1, <3>1
  <2>2. CASE g # h
    BY <2>2 DEF TypeOK, LedgerMatchesHops
  <2> QED
    BY <2>1, <2>2
<1>4. ASSUME NEW t \in transfers
      PROVE  /\ status'[t.hop] = "completed" /\ t.hours = awarded'[t.hop]
             /\ {t.from, t.to} = {creator'[t.hop], matched'[t.hop]}
             /\ t.from = creator'[t.hop] <=> kind'[t.hop] = "ask"
  <2>1. status'[t.hop] = status[t.hop] /\ awarded'[t.hop] = awarded[t.hop]
    BY <1>2 DEF TypeOK
  <2> QED
    BY <2>1 DEF LedgerMatchesHops
<1>5. /\ status'[row.hop] = "completed" /\ row.hours = awarded'[row.hop]
      /\ {row.from, row.to} = {creator'[row.hop], matched'[row.hop]}
      /\ row.from = creator'[row.hop] <=> kind'[row.hop] = "ask"
  BY <1>1 DEF TypeOK
<1>6. \A t, u \in transfers' : t.hop = u.hop => t = u
  BY <1>2 DEF LedgerMatchesHops
<1> HIDE DEF row
<1>7. \A t \in transfers' : t \in transfers \/ t = row
  BY DEF row
<1> QED
  BY <1>3, <1>4, <1>5, <1>6, <1>7 DEF LedgerMatchesHops

(* Each operation keeps the invariant. *)
LEMMA CreateHopKeeps ==
  ASSUME IInv, NEW h \in Hops, NEW m \in Members, NEW k \in Kinds, NEW hours \in Estimates, CreateHop(h, m, k, hours)
  PROVE  IInv'
<1> USE DEF IInv, TypeOK, hopVars, bankVars, orgVars, memberVars
<1>1. TypeOK'
  BY MembersAssumption, HoursAssumption DEF CreateHop, SignedIn, Statuses, OfferStatuses, Transfers
<1>2. MatchAgreesWithStatus'
  BY MembersAssumption DEF CreateHop, SignedIn, MatchAgreesWithStatus
<1>3. LedgerMatchesHops'
  BY LedgerUntouched DEF CreateHop, SignedIn, MatchAgreesWithStatus
<1>4. MatchesAreConsented'
  BY MembersAssumption DEF CreateHop, SignedIn, MatchAgreesWithStatus, MatchesAreConsented
<1>5. NoOfferLeftWaiting'
  BY MembersAssumption DEF CreateHop, SignedIn, MatchAgreesWithStatus, NoOfferLeftWaiting
<1>6. DeletedMembersHoldNothing'
  BY MembersAssumption DEF CreateHop, SignedIn, MatchAgreesWithStatus, DeletedMembersHoldNothing, LiveStatuses
<1> QED
  BY <1>1, <1>2, <1>3, <1>4, <1>5, <1>6

LEMMA OfferHopHelpKeeps ==
  ASSUME IInv, NEW h \in Hops, NEW m \in Members, OfferHopHelp(h, m)
  PROVE  IInv'
<1> USE DEF IInv, TypeOK, hopVars, bankVars, orgVars, memberVars
<1>1. TypeOK'
  BY MembersAssumption, HoursAssumption DEF OfferHopHelp, SignedIn, Statuses, OfferStatuses, Transfers
<1>2. MatchAgreesWithStatus'
  BY MembersAssumption DEF OfferHopHelp, SignedIn, MatchAgreesWithStatus
<1>3. LedgerMatchesHops'
  BY LedgerUntouched DEF OfferHopHelp, SignedIn, MatchAgreesWithStatus
<1>4. MatchesAreConsented'
  BY MembersAssumption DEF OfferHopHelp, SignedIn, MatchAgreesWithStatus, MatchesAreConsented
<1>5. NoOfferLeftWaiting'
  BY MembersAssumption DEF OfferHopHelp, SignedIn, MatchAgreesWithStatus, NoOfferLeftWaiting
<1>6. DeletedMembersHoldNothing'
  BY MembersAssumption DEF OfferHopHelp, SignedIn, MatchAgreesWithStatus, DeletedMembersHoldNothing, LiveStatuses
<1> QED
  BY <1>1, <1>2, <1>3, <1>4, <1>5, <1>6

LEMMA AcceptPendingHopOfferKeeps ==
  ASSUME IInv, NEW h \in Hops, NEW m \in Members, NEW o \in Members, AcceptPendingHopOffer(h, m, o)
  PROVE  IInv'
<1> USE DEF IInv, TypeOK, hopVars, bankVars, orgVars, memberVars
<1>1. TypeOK'
  BY MembersAssumption, HoursAssumption DEF AcceptPendingHopOffer, AcceptOffer, DenyPending, Statuses, OfferStatuses, Transfers
<1>2. MatchAgreesWithStatus'
  BY MembersAssumption DEF AcceptPendingHopOffer, AcceptOffer, DenyPending, MatchAgreesWithStatus
<1>3. LedgerMatchesHops'
  BY LedgerUntouched DEF AcceptPendingHopOffer, AcceptOffer, DenyPending, MatchAgreesWithStatus
<1>4. MatchesAreConsented'
  BY MembersAssumption DEF AcceptPendingHopOffer, AcceptOffer, DenyPending, MatchAgreesWithStatus, MatchesAreConsented
<1>5. NoOfferLeftWaiting'
  BY MembersAssumption DEF AcceptPendingHopOffer, AcceptOffer, DenyPending, MatchAgreesWithStatus, NoOfferLeftWaiting
<1>6. DeletedMembersHoldNothing'
  BY MembersAssumption DEF AcceptPendingHopOffer, AcceptOffer, DenyPending, MatchAgreesWithStatus, DeletedMembersHoldNothing, LiveStatuses
<1> QED
  BY <1>1, <1>2, <1>3, <1>4, <1>5, <1>6

LEMMA DeclinePendingHopOfferKeeps ==
  ASSUME IInv, NEW h \in Hops, NEW m \in Members, NEW o \in Members, DeclinePendingHopOffer(h, m, o)
  PROVE  IInv'
<1> USE DEF IInv, TypeOK, hopVars, bankVars, orgVars, memberVars
<1>1. TypeOK'
  BY MembersAssumption, HoursAssumption DEF DeclinePendingHopOffer, Statuses, OfferStatuses, Transfers
<1>2. MatchAgreesWithStatus'
  BY MembersAssumption DEF DeclinePendingHopOffer, MatchAgreesWithStatus
<1>3. LedgerMatchesHops'
  BY LedgerUntouched DEF DeclinePendingHopOffer, MatchAgreesWithStatus
<1>4. MatchesAreConsented'
  BY MembersAssumption DEF DeclinePendingHopOffer, MatchAgreesWithStatus, MatchesAreConsented
<1>5. NoOfferLeftWaiting'
  BY MembersAssumption DEF DeclinePendingHopOffer, MatchAgreesWithStatus, NoOfferLeftWaiting
<1>6. DeletedMembersHoldNothing'
  BY MembersAssumption DEF DeclinePendingHopOffer, MatchAgreesWithStatus, DeletedMembersHoldNothing, LiveStatuses
<1> QED
  BY <1>1, <1>2, <1>3, <1>4, <1>5, <1>6

LEMMA AcceptHopKeeps ==
  ASSUME IInv, NEW h \in Hops, NEW m \in Members, AcceptHop(h, m)
  PROVE  IInv'
<1> USE DEF IInv, TypeOK, hopVars, bankVars, orgVars, memberVars
<1>1. TypeOK'
  BY MembersAssumption, HoursAssumption DEF AcceptHop, Statuses, OfferStatuses, Transfers
<1>2. MatchAgreesWithStatus'
  BY MembersAssumption DEF AcceptHop, MatchAgreesWithStatus
<1>3. LedgerMatchesHops'
  BY LedgerUntouched DEF AcceptHop, MatchAgreesWithStatus
<1>4. MatchesAreConsented'
  BY MembersAssumption DEF AcceptHop, MatchAgreesWithStatus, MatchesAreConsented
<1>5. NoOfferLeftWaiting'
  BY MembersAssumption DEF AcceptHop, MatchAgreesWithStatus, NoOfferLeftWaiting
<1>6. DeletedMembersHoldNothing'
  BY MembersAssumption DEF AcceptHop, MatchAgreesWithStatus, DeletedMembersHoldNothing, LiveStatuses
<1> QED
  BY <1>1, <1>2, <1>3, <1>4, <1>5, <1>6

LEMMA CancelHopKeeps ==
  ASSUME IInv, NEW h \in Hops, NEW m \in Members, CancelHop(h, m)
  PROVE  IInv'
<1> USE DEF IInv, TypeOK, hopVars, bankVars, orgVars, memberVars
<1>1. TypeOK'
  BY MembersAssumption, HoursAssumption DEF CancelHop, DenyPending, LiveStatuses, Statuses, OfferStatuses, Transfers
<1>2. MatchAgreesWithStatus'
  BY MembersAssumption DEF CancelHop, DenyPending, LiveStatuses, MatchAgreesWithStatus
<1>3. LedgerMatchesHops'
  BY LedgerUntouched DEF CancelHop, DenyPending, LiveStatuses, MatchAgreesWithStatus
<1>4. MatchesAreConsented'
  BY MembersAssumption DEF CancelHop, DenyPending, LiveStatuses, MatchAgreesWithStatus, MatchesAreConsented
<1>5. NoOfferLeftWaiting'
  BY MembersAssumption DEF CancelHop, DenyPending, LiveStatuses, MatchAgreesWithStatus, NoOfferLeftWaiting
<1>6. DeletedMembersHoldNothing'
  BY MembersAssumption DEF CancelHop, DenyPending, LiveStatuses, MatchAgreesWithStatus, DeletedMembersHoldNothing
<1> QED
  BY <1>1, <1>2, <1>3, <1>4, <1>5, <1>6

LEMMA AllowedIsNat ==
  \A requested, payerBalance, earnerBalance, p :
    Allowed(requested, payerBalance, earnerBalance, p) \in Nat
<1>1. \A hours : NonNegative(hours) \in Nat
  BY DEF NonNegative
<1> QED
  BY <1>1 DEF Allowed

LEMMA CompleteHopKeeps ==
  ASSUME IInv, NEW h \in Hops, NEW m \in Members, NEW entered \in FinalHours \cup {0},
         CompleteHop(h, m, entered)
  PROVE  IInv'
<1> USE DEF IInv
<1>1. PICK hours \in Nat :
        /\ awarded' = [awarded EXCEPT ![h] = hours]
        /\ transfers' = transfers \cup
             {[hop |-> h, from |-> Payer(h), to |-> Earner(h), hours |-> hours]}
  BY AllowedIsNat DEF CompleteHop
<1>2. /\ status[h] = "accepted" /\ status' = [status EXCEPT ![h] = "completed"]
      /\ UNCHANGED <<kind, creator, estimate, matched, due, offer, adjusted, orgVars, memberVars,
                     events>>
  BY DEF CompleteHop
<1>3. /\ creator[h] \in Members /\ matched[h] \in Members /\ matched[h] # creator[h]
      /\ kind[h] \in {"ask", "offer"}
  BY <1>2 DEF TypeOK, MatchAgreesWithStatus, Kinds
<1>4. /\ Payer(h) \in Members /\ Earner(h) \in Members
      /\ {Payer(h), Earner(h)} = {creator[h], matched[h]}
      /\ Payer(h) = creator[h] <=> kind[h] = "ask"
  BY <1>3 DEF Payer, Earner
<1>5. TypeOK'
  <2>1. transfers' \subseteq Transfers
    BY <1>1, <1>4 DEF TypeOK, Transfers
  <2>2. awarded' \in [Hops -> Nat] /\ status' \in [Hops -> Statuses]
    BY <1>1, <1>2 DEF TypeOK, Statuses
  <2> QED
    BY <1>2, <2>1, <2>2 DEF TypeOK, orgVars, memberVars
<1>6. MatchAgreesWithStatus'
  BY <1>2 DEF TypeOK, MatchAgreesWithStatus
<1>7. LedgerMatchesHops'
  BY <1>1, <1>2, LedgerGrows
<1>8. MatchesAreConsented' /\ NoOfferLeftWaiting'
  BY <1>2 DEF TypeOK, MatchesAreConsented, NoOfferLeftWaiting
<1>9. DeletedMembersHoldNothing'
  BY <1>2 DEF TypeOK, DeletedMembersHoldNothing, LiveStatuses, memberVars
<1> QED
  BY <1>5, <1>6, <1>7, <1>8, <1>9

LEMMA ExpireDueHopsKeeps ==
  ASSUME IInv, ExpireDueHops
  PROVE  IInv'
<1> USE DEF IInv, TypeOK, hopVars, bankVars, orgVars, memberVars
<1>1. TypeOK'
  BY MembersAssumption, HoursAssumption DEF ExpireDueHops, Overdue, LiveStatuses, Statuses, OfferStatuses, Transfers
<1>2. MatchAgreesWithStatus'
  BY MembersAssumption DEF ExpireDueHops, Overdue, LiveStatuses, MatchAgreesWithStatus
<1>3. LedgerMatchesHops'
  BY LedgerUntouched DEF ExpireDueHops, Overdue, LiveStatuses, MatchAgreesWithStatus
<1>4. MatchesAreConsented'
  BY MembersAssumption DEF ExpireDueHops, Overdue, LiveStatuses, MatchAgreesWithStatus, MatchesAreConsented
<1>5. NoOfferLeftWaiting'
  BY MembersAssumption DEF ExpireDueHops, Overdue, LiveStatuses, MatchAgreesWithStatus, NoOfferLeftWaiting
<1>6. DeletedMembersHoldNothing'
  BY MembersAssumption DEF ExpireDueHops, Overdue, LiveStatuses, MatchAgreesWithStatus, DeletedMembersHoldNothing
<1> QED
  BY <1>1, <1>2, <1>3, <1>4, <1>5, <1>6

LEMMA AdminExpireHopKeeps ==
  ASSUME IInv, NEW h \in Hops, AdminExpireHop(h)
  PROVE  IInv'
<1> USE DEF IInv, TypeOK, hopVars, bankVars, orgVars, memberVars
<1>1. TypeOK'
  BY MembersAssumption, HoursAssumption DEF AdminExpireHop, LiveStatuses, Statuses, OfferStatuses, Transfers
<1>2. MatchAgreesWithStatus'
  BY MembersAssumption DEF AdminExpireHop, LiveStatuses, MatchAgreesWithStatus
<1>3. LedgerMatchesHops'
  BY LedgerUntouched DEF AdminExpireHop, LiveStatuses, MatchAgreesWithStatus
<1>4. MatchesAreConsented'
  BY MembersAssumption DEF AdminExpireHop, LiveStatuses, MatchAgreesWithStatus, MatchesAreConsented
<1>5. NoOfferLeftWaiting'
  BY MembersAssumption DEF AdminExpireHop, LiveStatuses, MatchAgreesWithStatus, NoOfferLeftWaiting
<1>6. DeletedMembersHoldNothing'
  BY MembersAssumption DEF AdminExpireHop, LiveStatuses, MatchAgreesWithStatus, DeletedMembersHoldNothing
<1> QED
  BY <1>1, <1>2, <1>3, <1>4, <1>5, <1>6

LEMMA AdminDeleteHopKeeps ==
  ASSUME IInv, NEW h \in Hops, AdminDeleteHop(h)
  PROVE  IInv'
<1> USE DEF IInv, TypeOK, hopVars, bankVars, orgVars, memberVars
<1>1. TypeOK'
  BY MembersAssumption, HoursAssumption DEF AdminDeleteHop, Statuses, OfferStatuses, Transfers
<1>2. MatchAgreesWithStatus'
  BY MembersAssumption DEF AdminDeleteHop, MatchAgreesWithStatus
<1>3. LedgerMatchesHops'
  BY LedgerUntouched DEF AdminDeleteHop, MatchAgreesWithStatus
<1>4. MatchesAreConsented'
  BY MembersAssumption DEF AdminDeleteHop, MatchAgreesWithStatus, MatchesAreConsented
<1>5. NoOfferLeftWaiting'
  BY MembersAssumption DEF AdminDeleteHop, MatchAgreesWithStatus, NoOfferLeftWaiting
<1>6. DeletedMembersHoldNothing'
  BY MembersAssumption DEF AdminDeleteHop, MatchAgreesWithStatus, DeletedMembersHoldNothing, LiveStatuses
<1> QED
  BY <1>1, <1>2, <1>3, <1>4, <1>5, <1>6

LEMMA AdminDisableMemberKeeps ==
  ASSUME IInv, NEW m \in Members, AdminDisableMember(m)
  PROVE  IInv'
<1> USE DEF IInv, TypeOK, hopVars, bankVars, orgVars, memberVars
<1>1. TypeOK'
  BY MembersAssumption, HoursAssumption DEF AdminDisableMember, Event, AcceptedWith, MatchDropped, Statuses, OfferStatuses, Transfers
<1>2. MatchAgreesWithStatus'
  BY MembersAssumption DEF AdminDisableMember, Event, AcceptedWith, MatchDropped, MatchAgreesWithStatus
<1>3. LedgerMatchesHops'
  BY LedgerUntouched DEF AdminDisableMember, Event, AcceptedWith, MatchDropped, MatchAgreesWithStatus
<1>4. MatchesAreConsented'
  BY MembersAssumption DEF AdminDisableMember, Event, AcceptedWith, MatchDropped, MatchAgreesWithStatus, MatchesAreConsented
<1>5. NoOfferLeftWaiting'
  BY MembersAssumption DEF AdminDisableMember, Event, AcceptedWith, MatchDropped, MatchAgreesWithStatus, NoOfferLeftWaiting
<1>6. DeletedMembersHoldNothing'
  BY MembersAssumption DEF AdminDisableMember, Event, AcceptedWith, MatchDropped, MatchAgreesWithStatus, DeletedMembersHoldNothing, LiveStatuses
<1> QED
  BY <1>1, <1>2, <1>3, <1>4, <1>5, <1>6

LEMMA AdminDeleteMemberKeeps ==
  ASSUME IInv, NEW m \in Members, AdminDeleteMember(m)
  PROVE  IInv'
<1> USE DEF IInv, TypeOK, hopVars, bankVars, orgVars, memberVars
<1>1. TypeOK'
  BY MembersAssumption, HoursAssumption DEF AdminDeleteMember, Event, AcceptedWith, CanceledWith, MatchDropped, DenyPending, Statuses, OfferStatuses, Transfers
<1>2. MatchAgreesWithStatus'
  BY MembersAssumption DEF AdminDeleteMember, Event, AcceptedWith, CanceledWith, MatchDropped, DenyPending, MatchAgreesWithStatus
<1>3. LedgerMatchesHops'
  BY LedgerUntouched DEF AdminDeleteMember, Event, AcceptedWith, CanceledWith, MatchDropped, DenyPending, MatchAgreesWithStatus
<1>4. MatchesAreConsented'
  BY MembersAssumption DEF AdminDeleteMember, Event, AcceptedWith, CanceledWith, MatchDropped, DenyPending, MatchAgreesWithStatus, MatchesAreConsented
<1>5. NoOfferLeftWaiting'
  BY MembersAssumption DEF AdminDeleteMember, Event, AcceptedWith, CanceledWith, MatchDropped, DenyPending, MatchAgreesWithStatus, NoOfferLeftWaiting
<1>6. DeletedMembersHoldNothing'
  BY MembersAssumption DEF AdminDeleteMember, Event, AcceptedWith, CanceledWith, MatchDropped, DenyPending, MatchAgreesWithStatus, DeletedMembersHoldNothing, LiveStatuses
<1> QED
  BY <1>1, <1>2, <1>3, <1>4, <1>5, <1>6

LEMMA HopsUntouched ==
  ASSUME IInv, TypeOK', UNCHANGED <<hopVars, offer, transfers, deleted>>
  PROVE  IInv'
<1> USE DEF IInv, hopVars
<1>1. MatchAgreesWithStatus' /\ MatchesAreConsented' /\ NoOfferLeftWaiting'
  BY DEF MatchAgreesWithStatus, MatchesAreConsented, NoOfferLeftWaiting
<1>2. LedgerMatchesHops'
  BY DEF LedgerMatchesHops
<1>3. DeletedMembersHoldNothing'
  BY DEF DeletedMembersHoldNothing
<1> QED
  BY <1>1, <1>2, <1>3

LEMMA FallDueKeeps ==
  ASSUME IInv, NEW h \in Hops, FallDue(h)
  PROVE  IInv'
<1>1. TypeOK'
  BY DEF IInv, TypeOK, FallDue, hopVars, bankVars, orgVars, memberVars
<1> QED
  BY <1>1, HopsUntouched DEF FallDue, bankVars, memberVars

(* The steps of accounts and memberships that no hop takes part in. *)
LEMMA AccountStepsKeep ==
  ASSUME IInv, NEW m \in Members,
         \/ EnableMember(m) \/ DisableOwnAccount(m)
         \/ \E delta \in Deltas : AdjustMemberHourBalance(m, delta)
         \/ LeaveOrganization(m) \/ RemoveOrganizationMember(m)
         \/ ApproveMembershipRequest(m) \/ AcceptOrganizationInvite(m)
  PROVE  IInv'
<1> USE DEF IInv, TypeOK, Event, hopVars, bankVars, orgVars, memberVars
<1>1. CASE EnableMember(m) \/ DisableOwnAccount(m)
  <2>1. TypeOK' /\ UNCHANGED <<hopVars, offer, transfers, deleted>>
    BY <1>1 DEF EnableMember, DisableOwnAccount
  <2> QED
    BY <2>1, HopsUntouched
<1>2. ASSUME NEW delta \in Deltas, AdjustMemberHourBalance(m, delta)
      PROVE  IInv'
  <2>1. TypeOK' /\ UNCHANGED <<hopVars, offer, transfers, deleted>>
    BY <1>2, HoursAssumption DEF AdjustMemberHourBalance
  <2> QED
    BY <2>1, HopsUntouched
<1>3. CASE LeaveOrganization(m) \/ RemoveOrganizationMember(m)
  <2>1. TypeOK' /\ UNCHANGED <<hopVars, offer, transfers, deleted>>
    BY <1>3 DEF LeaveOrganization, RemoveOrganizationMember, EndMembership
  <2> QED
    BY <2>1, HopsUntouched
<1>4. CASE ApproveMembershipRequest(m) \/ AcceptOrganizationInvite(m)
  <2>1. EnsureActiveMembership(m)
    BY <1>4 DEF ApproveMembershipRequest, AcceptOrganizationInvite
  <2>2. adjusted' \in [Members -> Int]
    BY <2>1 DEF EnsureActiveMembership, StartGranted, PolicyRecords
  <2>3. TypeOK' /\ UNCHANGED <<hopVars, offer, transfers, deleted>>
    BY <2>1, <2>2 DEF EnsureActiveMembership
  <2> QED
    BY <2>3, HopsUntouched
<1> QED
  BY <1>1, <1>2, <1>3, <1>4

LEMMA OrganizationStepKeeps ==
  ASSUME IInv, OrganizationStep
  PROVE  IInv'
<1>1. TypeOK' /\ UNCHANGED <<hopVars, offer, transfers, deleted>>
  BY PoliciesAssumption
     DEF IInv, TypeOK, OrganizationStep, UpdateOrganizationTimebankPolicy,
         SetOrganizationEnabled, Event, hopVars, bankVars, orgVars, memberVars
<1> QED
  BY <1>1, HopsUntouched

-----------------------------------------------------------------------------
(* The invariant holds at first and is kept by every step. *)

LEMMA InitIInv == Init => IInv
<1> SUFFICES ASSUME Init PROVE IInv
  OBVIOUS
<1>1. TypeOK
  BY MembersAssumption, PoliciesAssumption
     DEF Init, TypeOK, Statuses, Kinds, OfferStatuses, PolicyRecords, Transfers
<1>2. MatchAgreesWithStatus /\ MatchesAreConsented
  BY DEF Init, MatchAgreesWithStatus, MatchesAreConsented
<1>3. LedgerMatchesHops
  BY DEF Init, LedgerMatchesHops
<1>4. NoOfferLeftWaiting /\ DeletedMembersHoldNothing
  BY DEF Init, NoOfferLeftWaiting, DeletedMembersHoldNothing, LiveStatuses
<1> QED
  BY <1>1, <1>2, <1>3, <1>4 DEF IInv

LEMMA NextIInv == IInv /\ [Next]_vars => IInv'
<1> SUFFICES ASSUME IInv, [Next]_vars PROVE IInv'
  OBVIOUS
<1>1. CASE UNCHANGED vars
  <2>1. TypeOK' /\ UNCHANGED <<hopVars, offer, transfers, deleted>>
    BY <1>1 DEF IInv, TypeOK, vars, hopVars, bankVars, orgVars, memberVars
  <2> QED
    BY <2>1, HopsUntouched
<1>2. ASSUME NEW m \in Members, MemberStep(m)
      PROVE  IInv'
  <2> PICK h \in Hops :
        \/ \E k \in Kinds, hours \in Estimates : CreateHop(h, m, k, hours)
        \/ OfferHopHelp(h, m)
        \/ \E o \in Members : AcceptPendingHopOffer(h, m, o) \/ DeclinePendingHopOffer(h, m, o)
        \/ AcceptHop(h, m)
        \/ CancelHop(h, m)
        \/ \E entered \in FinalHours \cup {0} : CompleteHop(h, m, entered)
    BY <1>2 DEF MemberStep
  <2> QED
    BY CreateHopKeeps, OfferHopHelpKeeps, AcceptPendingHopOfferKeeps,
       DeclinePendingHopOfferKeeps, AcceptHopKeeps, CancelHopKeeps, CompleteHopKeeps
<1>3. ASSUME NEW m \in Members, AccountStep(m)
      PROVE  IInv'
  BY <1>3, AdminDisableMemberKeeps, AdminDeleteMemberKeeps, AccountStepsKeep DEF AccountStep
<1>4. ASSUME NEW h \in Hops, HopStep(h)
      PROVE  IInv'
  BY <1>4, FallDueKeeps, AdminExpireHopKeeps, AdminDeleteHopKeeps DEF HopStep
<1>5. CASE ExpireDueHops
  BY <1>5, ExpireDueHopsKeeps
<1>6. CASE OrganizationStep
  BY <1>6, OrganizationStepKeeps
<1> QED
  BY <1>1, <1>2, <1>3, <1>4, <1>5, <1>6 DEF Next

(* The invariant holds in every reachable state; what follows is part of it. *)
THEOREM Invariance == Spec => []IInv
  BY InitIInv, NextIInv, PTL DEF Spec

(* Every column keeps to the values the schema and the service allow it. *)
THEOREM TypeCorrect == Spec => []TypeOK
  BY Invariance, PTL DEF IInv

(* A hop's status and its participants agree, also across reopening. *)
THEOREM StatusAgrees == Spec => []MatchAgreesWithStatus
  BY Invariance, PTL DEF IInv

(* hop_transactions holds exactly one row, the right one, for each completed *)
(* hop and none for another.                                                 *)
THEOREM LedgerIsRight == Spec => []LedgerMatchesHops
  BY Invariance, PTL DEF IInv

(* Whoever is matched had offered and was accepted. *)
THEOREM Consent == Spec => []MatchesAreConsented
  BY Invariance, PTL DEF IInv

(* Acceptance, completion, cancellation and deletion leave no offer pending. *)
THEOREM OffersAnswered == Spec => []NoOfferLeftWaiting
  BY Invariance, PTL DEF IInv

(* A deleted account takes part in nothing that is still going on. *)
THEOREM DeletionIsComplete == Spec => []DeletedMembersHoldNothing
  BY Invariance, PTL DEF IInv

(* No operation changes a completed, expired or deleted hop, or revives a    *)
(* canceled one.                                                             *)
THEOREM FinalOutcomes == Spec => OutcomesAreFinal
<1> DEFINE Final(h) ==
      /\ status[h] \in {"completed", "expired", "deleted"} =>
           UNCHANGED <<status[h], creator[h], matched[h], awarded[h]>>
      /\ status[h] = "canceled" => status'[h] \in {"canceled", "deleted"}
<1>1. ASSUME IInv, [Next]_vars, NEW h \in Hops
      PROVE  Final(h)
  <2>1. CASE UNCHANGED hopVars
    BY <2>1 DEF hopVars
  <2>2. ASSUME NEW m \in Members, NEW g \in Hops,
               \/ \E k \in Kinds, hours \in Estimates : CreateHop(g, m, k, hours)
               \/ OfferHopHelp(g, m)
               \/ \E o \in Members :
                    AcceptPendingHopOffer(g, m, o) \/ DeclinePendingHopOffer(g, m, o)
               \/ AcceptHop(g, m)
               \/ CancelHop(g, m)
               \/ \E entered \in FinalHours \cup {0} : CompleteHop(g, m, entered)
        PROVE  Final(h)
    <3> USE DEF IInv, TypeOK
    <3>1. CASE \E k \in Kinds, hours \in Estimates : CreateHop(g, m, k, hours)
      BY <3>1 DEF CreateHop
    <3>2. CASE OfferHopHelp(g, m)
      BY <2>1, <3>2 DEF OfferHopHelp
    <3>3. CASE \E o \in Members : DeclinePendingHopOffer(g, m, o)
      BY <2>1, <3>3 DEF DeclinePendingHopOffer
    <3>4. CASE \E o \in Members : AcceptPendingHopOffer(g, m, o)
      BY <3>4 DEF AcceptPendingHopOffer
    <3>5. CASE AcceptHop(g, m)
      BY <3>5 DEF AcceptHop
    <3>6. CASE CancelHop(g, m)
      BY <3>6 DEF CancelHop, LiveStatuses
    <3>7. CASE \E entered \in FinalHours \cup {0} : CompleteHop(g, m, entered)
      BY <3>7 DEF CompleteHop
    <3> HIDE DEF Final
    <3> QED
      BY <2>2, <3>1, <3>2, <3>3, <3>4, <3>5, <3>6, <3>7
  <2>3. ASSUME NEW m \in Members, AccountStep(m)
        PROVE  Final(h)
    <3>1. CASE AdminDisableMember(m)
      BY <3>1 DEF AdminDisableMember, AcceptedWith, MatchDropped
    <3>2. CASE AdminDeleteMember(m)
      BY <3>2 DEF AdminDeleteMember, AcceptedWith, CanceledWith, MatchDropped
    <3>3. CASE ~AdminDisableMember(m) /\ ~AdminDeleteMember(m)
      <4>1. UNCHANGED hopVars
        BY <2>3, <3>3
        DEF AccountStep, EnableMember, DisableOwnAccount, AdjustMemberHourBalance,
            LeaveOrganization, RemoveOrganizationMember, EndMembership,
            ApproveMembershipRequest, AcceptOrganizationInvite, EnsureActiveMembership
      <4> QED
        BY <2>1, <4>1
    <3> QED
      BY <3>1, <3>2, <3>3
  <2>4. ASSUME NEW g \in Hops, HopStep(g)
        PROVE  Final(h)
    <3> USE DEF IInv, TypeOK
    <3>1. CASE FallDue(g)
      BY <2>1, <3>1 DEF FallDue
    <3>2. CASE AdminExpireHop(g)
      BY <3>2 DEF AdminExpireHop, LiveStatuses
    <3>3. CASE AdminDeleteHop(g)
      BY <3>3 DEF AdminDeleteHop
    <3> QED
      BY <2>4, <3>1, <3>2, <3>3 DEF HopStep
  <2>5. CASE ExpireDueHops
    BY <2>5 DEF ExpireDueHops, Overdue, LiveStatuses
  <2>6. CASE OrganizationStep
    BY <2>1, <2>6 DEF OrganizationStep, UpdateOrganizationTimebankPolicy, SetOrganizationEnabled
  <2>7. CASE UNCHANGED vars
    BY <2>1, <2>7 DEF vars
  <2> HIDE DEF Final
  <2> QED
    BY <1>1, <2>2, <2>3, <2>4, <2>5, <2>6, <2>7 DEF Next, MemberStep
<1>2. IInv /\ [Next]_vars => [\A h \in Hops : Final(h)]_vars
  BY <1>1
<1> QED
  BY <1>2, InitIInv, NextIInv, PTL DEF Spec, OutcomesAreFinal

-----------------------------------------------------------------------------
(* The refinement: HopLifecycle implements HopContract, for every value of  *)
(* the constants under which members are matched only through their offers. *)

LEMMA InitContract == Init => Contract!CInit
  BY DEF Init, Contract!CInit, Phase, Poster, Partner, Willing

LEMMA SameView ==
  ASSUME UNCHANGED <<hopVars, offer, transfers, deleted>>
  PROVE  UNCHANGED Contract!cvars
  BY DEF hopVars, Contract!cvars, Phase, Poster, Partner, Willing

LEMMA CreateHopPosts ==
  ASSUME IInv, NEW h \in Hops, NEW m \in Members, NEW k \in Kinds, NEW hours \in Estimates,
         CreateHop(h, m, k, hours), ~DirectAccept
  PROVE  Contract!Post(h, m, IF k = "ask" THEN "poster" ELSE "partner")
<1> USE DEF IInv, TypeOK, memberVars, bankVars
<1>1. /\ status[h] = "none" /\ m \notin deleted
      /\ status' = [status EXCEPT ![h] = "open"] /\ kind' = [kind EXCEPT ![h] = k]
      /\ creator' = [creator EXCEPT ![h] = m]
      /\ UNCHANGED <<matched, offer, transfers, deleted>>
  BY DEF CreateHop, SignedIn
<1>2. \A o \in Members : offer[h][o] # "pending"
  BY <1>1 DEF NoOfferLeftWaiting
<1> QED
  BY <1>1, <1>2 DEF Contract!Post, Phase, Poster, Partner, Willing

LEMMA OfferVolunteers ==
  ASSUME IInv, NEW h \in Hops, NEW m \in Members, OfferHopHelp(h, m), ~DirectAccept
  PROVE  Contract!Volunteer(h, m)
<1> USE DEF IInv, TypeOK, memberVars, bankVars, hopVars
<1> QED
  BY DEF OfferHopHelp, SignedIn, Contract!Volunteer, Phase, Poster, Partner, Willing

LEMMA DeclineTurnsDown ==
  ASSUME IInv, NEW h \in Hops, NEW m \in Members, NEW o \in Members,
         DeclinePendingHopOffer(h, m, o), ~DirectAccept
  PROVE  Contract!TurnDown(h, o)
<1> USE DEF IInv, TypeOK, memberVars, bankVars, hopVars
<1> QED
  BY DEF DeclinePendingHopOffer, Contract!TurnDown, Phase, Poster, Partner, Willing

LEMMA AcceptPairs ==
  ASSUME IInv, NEW h \in Hops, NEW m \in Members, NEW o \in Members,
         AcceptPendingHopOffer(h, m, o), ~DirectAccept
  PROVE  Contract!Pair(h, o)
<1> USE DEF IInv, TypeOK, memberVars, bankVars, hopVars
<1> QED
  BY DEF AcceptPendingHopOffer, Contract!Pair, Phase, Poster, Partner, Willing

LEMMA CompleteSettles ==
  ASSUME IInv, NEW h \in Hops, NEW m \in Members, NEW entered \in FinalHours \cup {0},
         CompleteHop(h, m, entered), ~DirectAccept
  PROVE  Contract!Settle(h)
<1> USE DEF IInv, TypeOK, memberVars, bankVars, hopVars
<1>1. PICK hours \in Nat :
        transfers' = transfers \cup
          {[hop |-> h, from |-> Payer(h), to |-> Earner(h), hours |-> hours]}
  BY AllowedIsNat DEF CompleteHop
<1> DEFINE move == [hop |-> h, from |-> Payer(h), to |-> Earner(h), hours |-> hours]
<1>2. /\ move.hop = h /\ move.hours \in Nat
      /\ kind[h] = "ask" => move.from = creator[h] /\ move.to = matched[h]
      /\ kind[h] # "ask" => move.from = matched[h] /\ move.to = creator[h]
      /\ move \in transfers' /\ transfers' = transfers \cup {move}
  BY <1>1 DEF Payer, Earner
<1> HIDE DEF move
<1> QED
  BY <1>2 DEF CompleteHop, Contract!Settle, Phase, Poster, Partner, Willing

LEMMA CancelCloses ==
  ASSUME IInv, NEW h \in Hops, NEW m \in Members, CancelHop(h, m), ~DirectAccept
  PROVE  Contract!Close({h})
<1> USE DEF IInv, TypeOK, memberVars, bankVars, hopVars
<1> QED
  BY DEF CancelHop, LiveStatuses, DenyPending, Contract!Close, Contract!End, Contract!Without,
         Contract!Live, Phase, Poster, Partner, Willing

LEMMA ExpiryCloses ==
  ASSUME IInv, ExpireDueHops, ~DirectAccept
  PROVE  Contract!Close(Overdue)
<1> USE DEF IInv, TypeOK, memberVars, bankVars, hopVars
<1> QED
  BY DEF ExpireDueHops, Overdue, LiveStatuses, Contract!Close, Contract!End, Contract!Without,
         Contract!Live, Phase, Poster, Partner, Willing

LEMMA AdminExpiryCloses ==
  ASSUME IInv, NEW h \in Hops, AdminExpireHop(h), ~DirectAccept
  PROVE  Contract!Close({h})
<1> USE DEF IInv, TypeOK, memberVars, bankVars, hopVars
<1> QED
  BY DEF AdminExpireHop, LiveStatuses, Contract!Close, Contract!End, Contract!Without,
         Contract!Live, Phase, Poster, Partner, Willing

(* Deleting an open hop closes it; deleting a canceled one is not seen. *)
LEMMA AdminDeleteCloses ==
  ASSUME IInv, NEW h \in Hops, AdminDeleteHop(h), ~DirectAccept
  PROVE  Contract!Close({h}) \/ UNCHANGED Contract!cvars
<1> USE DEF IInv, TypeOK, memberVars, bankVars, hopVars
<1>1. CASE status[h] = "open"
  BY <1>1 DEF AdminDeleteHop, Contract!Close, Contract!End, Contract!Without, Contract!Live,
              Phase, Poster, Partner, Willing
<1>2. CASE status[h] = "canceled"
  BY <1>2 DEF AdminDeleteHop, Contract!cvars, Phase, Poster, Partner, Willing
<1> QED
  BY <1>1, <1>2 DEF AdminDeleteHop

LEMMA DisableReleases ==
  ASSUME IInv, NEW m \in Members, AdminDisableMember(m), ~DirectAccept
  PROVE  Contract!Release(AcceptedWith(m))
<1> USE DEF IInv, TypeOK
<1> DEFINE R == AcceptedWith(m)
<1>1. /\ status' = [h \in Hops |-> IF h \in R THEN "open" ELSE status[h]]
      /\ matched' = [h \in Hops |-> IF h \in R THEN NoMember ELSE matched[h]]
      /\ UNCHANGED <<kind, creator, offer, transfers, deleted>>
  BY DEF AdminDisableMember, MatchDropped, bankVars
<1>2. R \subseteq Hops /\ \A h \in R : status[h] = "accepted"
  BY DEF AcceptedWith
<1>3. \A h \in R, o \in Members : offer[h][o] # "pending"
  BY <1>2 DEF NoOfferLeftWaiting
<1> HIDE DEF R
<1>4. \A h \in Hops :
        /\ Phase(h)' = IF h \in R THEN "open" ELSE Phase(h)
        /\ Poster(h)' = Poster(h)
        /\ Partner(h)' = IF h \in R THEN NoMember ELSE Partner(h)
        /\ Willing(h)' = Willing(h)
  BY <1>1, <1>2, <1>3 DEF Phase, Poster, Partner, Willing
<1>5. \A h \in R : Phase(h) = "paired"
  BY <1>2 DEF Phase
<1> QED
  BY <1>1, <1>2, <1>4, <1>5 DEF Contract!Release, Contract!End, Contract!Without, R

(* The hops a deletion cancels are the live ones the account posted; those  *)
(* it reopens for good are the ones it was matched on.                      *)
LEMMA DeleteDeparts ==
  ASSUME IInv, NEW m \in Members, AdminDeleteMember(m), ~DirectAccept
  PROVE  Contract!Depart(m)
<1> USE DEF IInv, TypeOK
<1> DEFINE own == CanceledWith(m)
           lost == {h \in Hops : status[h] = "accepted" /\ matched[h] = m}
<1>1. /\ own = {h \in Hops : status[h] \in {"open", "accepted"} /\ creator[h] = m}
      /\ \A h \in Hops : h \in AcceptedWith(m) /\ h \notin own <=> h \in lost
      /\ AcceptedWith(m) \subseteq own \cup lost
  BY MembersAssumption DEF CanceledWith, AcceptedWith, MatchAgreesWithStatus
<1>2. /\ status' = [h \in Hops |-> IF h \in own THEN "canceled"
                                  ELSE IF h \in lost THEN "open" ELSE status[h]]
      /\ \A h \in Hops : h \in lost => matched'[h] = NoMember
      /\ \A h \in Hops : h \notin own /\ h \notin lost => matched'[h] = matched[h]
      /\ offer' = [h \in Hops |-> DenyPending(offer[h], IF h \in own THEN Members ELSE {m})]
      /\ m \notin deleted /\ deleted' = deleted \cup {m}
      /\ UNCHANGED <<kind, creator, transfers>>
  BY <1>1 DEF AdminDeleteMember, MatchDropped, bankVars
<1>3. own \cap lost = {} /\ own \subseteq Hops /\ \A h \in lost : status[h] = "accepted"
  BY <1>1, MembersAssumption DEF MatchAgreesWithStatus
<1>4. \A h \in lost, o \in Members : offer[h][o] # "pending"
  BY DEF NoOfferLeftWaiting
<1>5. /\ own = {h \in Hops : Phase(h) \in {"open", "paired"} /\ Poster(h) = m}
      /\ lost = {h \in Hops : Phase(h) = "paired" /\ Partner(h) = m}
  BY <1>1 DEF Phase, Poster, Partner
<1> HIDE DEF own, lost
<1>6. \A h \in Hops :
        /\ Phase(h)' = IF h \in own THEN "closed" ELSE IF h \in lost THEN "open" ELSE Phase(h)
        /\ Poster(h)' = IF h \in own THEN NoMember ELSE Poster(h)
        /\ Partner(h)' = IF h \in own \cup lost THEN NoMember ELSE Partner(h)
  BY <1>2, <1>3 DEF Phase, Poster, Partner
<1>7. ASSUME NEW h \in Hops
      PROVE  Willing(h)' = IF h \in own THEN {} ELSE Willing(h) \ {m}
  <2>1. CASE h \in own
    BY <1>2, <2>1 DEF Willing
  <2>2. CASE h \in lost
    BY <1>2, <1>3, <1>4, <2>2 DEF Willing, DenyPending, lost
  <2>3. CASE h \notin own /\ h \notin lost
    BY <1>2, <2>3 DEF Willing, DenyPending
  <2> QED
    BY <2>1, <2>2, <2>3
<1>8. \A h \in own : Phase(h) \in {"open", "paired"}
  BY <1>5
<1>9. \A h \in lost : Phase(h) = "paired"
  BY <1>5
<1> DEFINE ph == [h \in Hops |-> Phase(h)]
           po == [h \in Hops |-> Poster(h)]
           pa == [h \in Hops |-> Partner(h)]
<1>10. /\ own = {h \in Hops : ph[h] \in {"open", "paired"} /\ po[h] = m}
       /\ lost = {h \in Hops : ph[h] = "paired" /\ pa[h] = m}
  BY <1>5
<1> QED
  BY <1>2, <1>3, <1>6, <1>7, <1>8, <1>9, <1>10
  DEF Contract!Depart, Contract!End, Contract!Without, Contract!Live

LEMMA StepContract ==
  ASSUME IInv, [Next]_vars, ~DirectAccept
  PROVE  [Contract!CNext]_(Contract!cvars)
<1>1. CASE UNCHANGED <<hopVars, offer, transfers, deleted>>
  BY <1>1, SameView
<1>2. CASE UNCHANGED vars
  BY <1>2, SameView DEF vars, bankVars, memberVars
<1>3. ASSUME NEW m \in Members, NEW h \in Hops,
             \/ \E k \in Kinds, hours \in Estimates : CreateHop(h, m, k, hours)
             \/ OfferHopHelp(h, m)
             \/ \E o \in Members : AcceptPendingHopOffer(h, m, o) \/ DeclinePendingHopOffer(h, m, o)
             \/ AcceptHop(h, m)
             \/ CancelHop(h, m)
             \/ \E entered \in FinalHours \cup {0} : CompleteHop(h, m, entered)
      PROVE  Contract!CNext
  <2>1. ASSUME NEW k \in Kinds, NEW hours \in Estimates, CreateHop(h, m, k, hours)
        PROVE  Contract!CNext
    BY <2>1, CreateHopPosts DEF Contract!CNext
  <2>2. CASE OfferHopHelp(h, m)
    BY <2>2, OfferVolunteers DEF Contract!CNext
  <2>3. ASSUME NEW o \in Members, AcceptPendingHopOffer(h, m, o)
        PROVE  Contract!CNext
    BY <2>3, AcceptPairs DEF Contract!CNext
  <2>4. ASSUME NEW o \in Members, DeclinePendingHopOffer(h, m, o)
        PROVE  Contract!CNext
    BY <2>4, DeclineTurnsDown DEF Contract!CNext
  <2>5. CASE CancelHop(h, m)
    BY <2>5, CancelCloses DEF Contract!CNext
  <2>6. ASSUME NEW entered \in FinalHours \cup {0}, CompleteHop(h, m, entered)
        PROVE  Contract!CNext
    BY <2>6, CompleteSettles DEF Contract!CNext
  <2>7. ~AcceptHop(h, m)
    BY DEF AcceptHop
  <2> QED
    BY <1>3, <2>1, <2>2, <2>3, <2>4, <2>5, <2>6, <2>7
<1>4. ASSUME NEW m \in Members, AccountStep(m)
      PROVE  [Contract!CNext]_(Contract!cvars)
  <2>1. CASE AdminDisableMember(m)
    <3>1. AcceptedWith(m) \in SUBSET Hops
      BY DEF AcceptedWith
    <3> QED
      BY <2>1, <3>1, DisableReleases DEF Contract!CNext
  <2>2. CASE AdminDeleteMember(m)
    BY <2>2, DeleteDeparts DEF Contract!CNext
  <2>3. CASE ~AdminDisableMember(m) /\ ~AdminDeleteMember(m)
    <3>1. UNCHANGED <<hopVars, offer, transfers, deleted>>
      BY <1>4, <2>3
      DEF AccountStep, EnableMember, DisableOwnAccount, AdjustMemberHourBalance, bankVars, memberVars,
          LeaveOrganization, RemoveOrganizationMember, EndMembership,
          ApproveMembershipRequest, AcceptOrganizationInvite, EnsureActiveMembership
    <3> QED
      BY <1>1, <3>1
  <2> QED
    BY <2>1, <2>2, <2>3
<1>5. ASSUME NEW h \in Hops, HopStep(h)
      PROVE  [Contract!CNext]_(Contract!cvars)
  <2>1. CASE FallDue(h)
    BY <1>1, <2>1 DEF FallDue, bankVars, memberVars
  <2>2. CASE AdminExpireHop(h)
    BY <2>2, AdminExpiryCloses DEF Contract!CNext
  <2>3. CASE AdminDeleteHop(h)
    BY <2>3, AdminDeleteCloses DEF Contract!CNext
  <2> QED
    BY <1>5, <2>1, <2>2, <2>3 DEF HopStep
<1>6. CASE ExpireDueHops
  <2>1. Overdue \in SUBSET Hops
    BY DEF Overdue, IInv, TypeOK
  <2> QED
    BY <1>6, <2>1, ExpiryCloses DEF Contract!CNext
<1>7. CASE OrganizationStep
  BY <1>1, <1>7
  DEF OrganizationStep, UpdateOrganizationTimebankPolicy, SetOrganizationEnabled, bankVars,
      memberVars
<1> QED
  BY <1>2, <1>3, <1>4, <1>5, <1>6, <1>7 DEF Next, MemberStep

(* As long as no handler calls AcceptHop, everything that happens to the     *)
(* hops of an organization is a step of the contract, or not seen by it.     *)
THEOREM Implements ==
  ASSUME ~DirectAccept
  PROVE  Spec => ImplementsContract
<1>1. IInv /\ [Next]_vars => [Contract!CNext]_(Contract!cvars)
  BY StepContract
<1> QED
  BY <1>1, InitContract, InitIInv, NextIInv, PTL DEF Spec, ImplementsContract, Contract!CSpec

-----------------------------------------------------------------------------
(***************************************************************************)
(* THE HOURS that completions move.                                        *)
(***************************************************************************)

FiniteLedger == IsFiniteSet(HourUnits(transfers))

LEMMA HoursOfNothing == HoursOf({}) = 0
  BY FS_EmptySet DEF HoursOf, HourUnits

LEMMA HoursOfPart ==
  ASSUME NEW rows, NEW part \in SUBSET rows, IsFiniteSet(HourUnits(rows))
  PROVE  IsFiniteSet(HourUnits(part)) /\ HoursOf(part) \in Nat
<1>1. HourUnits(part) \subseteq HourUnits(rows)
  BY DEF HourUnits
<1> QED
  BY <1>1, FS_Subset, FS_CardinalityType DEF HoursOf

LEMMA HoursOfOneMore ==
  ASSUME NEW rows, IsFiniteSet(HourUnits(rows)), NEW t, t \notin rows, t.hours \in Nat
  PROVE  /\ IsFiniteSet(HourUnits(rows \cup {t}))
         /\ HoursOf(rows \cup {t}) = HoursOf(rows) + t.hours
<1> DEFINE units == {t} \X (1..t.hours)
<1>1. HourUnits(rows \cup {t}) = HourUnits(rows) \cup units
  BY DEF HourUnits
<1>2. HourUnits(rows) \cap units = {}
  BY DEF HourUnits
<1>3. IsFiniteSet(units) /\ Cardinality(units) = t.hours
  <2>1. IsFiniteSet({t}) /\ Cardinality({t}) = 1
    BY FS_Singleton
  <2>2. IsFiniteSet(1..t.hours) /\ Cardinality(1..t.hours) = t.hours
    BY FS_Interval
  <2>3. /\ IsFiniteSet({t} \X (1..t.hours))
        /\ Cardinality({t} \X (1..t.hours)) = Cardinality({t}) * Cardinality(1..t.hours)
    BY <2>1, <2>2, FS_Product, Zenon
  <2> QED
    BY <2>1, <2>2, <2>3
<1> HIDE DEF units
<1>4. Cardinality(HourUnits(rows)) \in Nat /\ Cardinality({}) = 0
  BY FS_CardinalityType, FS_EmptySet
<1>5. /\ IsFiniteSet(HourUnits(rows) \cup units)
      /\ Cardinality(HourUnits(rows) \cup units) =
           Cardinality(HourUnits(rows)) + Cardinality(units)
             - Cardinality(HourUnits(rows) \cap units)
  BY <1>3, FS_Union, Zenon
<1>6. Cardinality(HourUnits(rows) \cap units) = 0
  BY <1>2, <1>4
<1>7. Cardinality(HourUnits(rows) \cup units) = Cardinality(HourUnits(rows)) + t.hours
  BY <1>3, <1>4, <1>5, <1>6
<1>8. /\ HoursOf(rows) = Cardinality(HourUnits(rows))
      /\ HoursOf(rows \cup {t}) = Cardinality(HourUnits(rows) \cup units)
  BY <1>1 DEF HoursOf
<1>9. IsFiniteSet(HourUnits(rows \cup {t}))
  BY <1>1, <1>5
<1> QED
  BY <1>7, <1>8, <1>9

LEMMA BalanceIsInt ==
  ASSUME TypeOK, FiniteLedger, NEW m \in Members
  PROVE  Balance(m) \in Int
<1>1. /\ HoursOf({t \in transfers : t.to = m}) \in Nat
      /\ HoursOf({t \in transfers : t.from = m}) \in Nat
  BY HoursOfPart DEF FiniteLedger
<1> QED
  BY <1>1 DEF Balance, TypeOK

(* What a move of hours adds to the balance of one of its two members, or   *)
(* takes from it; everybody else keeps theirs.                              *)
LEMMA BalanceAfterMove ==
  ASSUME TypeOK, FiniteLedger, NEW row \in Transfers, row \notin transfers,
         row.from # row.to,
         transfers' = transfers \cup {row}, adjusted' = adjusted
  PROVE  /\ FiniteLedger'
         /\ \A m \in Members :
              Balance(m)' = IF m = row.to THEN Balance(m) + row.hours
                            ELSE IF m = row.from THEN Balance(m) - row.hours
                            ELSE Balance(m)
<1> DEFINE To(rows, m) == {t \in rows : t.to = m}
           From(rows, m) == {t \in rows : t.from = m}
<1>1. row.hours \in Nat /\ row.from \in Members /\ row.to \in Members
  BY DEF Transfers
<1>2. FiniteLedger'
  BY <1>1, HoursOfOneMore DEF FiniteLedger
<1>3. ASSUME NEW m \in Members
      PROVE  Balance(m)' = IF m = row.to THEN Balance(m) + row.hours
                           ELSE IF m = row.from THEN Balance(m) - row.hours
                           ELSE Balance(m)
  <2>1. /\ To(transfers', m) = IF m = row.to THEN To(transfers, m) \cup {row}
                                             ELSE To(transfers, m)
        /\ From(transfers', m) = IF m = row.from THEN From(transfers, m) \cup {row}
                                                 ELSE From(transfers, m)
        /\ row \notin To(transfers, m) /\ row \notin From(transfers, m)
        /\ To(transfers, m) \subseteq transfers /\ From(transfers, m) \subseteq transfers
    OBVIOUS
  <2>2. /\ Balance(m) = HoursOf(To(transfers, m)) - HoursOf(From(transfers, m)) + adjusted[m]
        /\ Balance(m)' = HoursOf(To(transfers', m)) - HoursOf(From(transfers', m)) + adjusted[m]
    BY DEF Balance
  <2>3. adjusted[m] \in Int
    BY DEF TypeOK
  <2> HIDE DEF To, From
  <2>4. /\ IsFiniteSet(HourUnits(To(transfers, m))) /\ HoursOf(To(transfers, m)) \in Nat
        /\ IsFiniteSet(HourUnits(From(transfers, m))) /\ HoursOf(From(transfers, m)) \in Nat
    BY <2>1, HoursOfPart DEF FiniteLedger
  <2>5. /\ HoursOf(To(transfers, m) \cup {row}) = HoursOf(To(transfers, m)) + row.hours
        /\ HoursOf(From(transfers, m) \cup {row}) = HoursOf(From(transfers, m)) + row.hours
    BY <1>1, <2>1, <2>4, HoursOfOneMore
  <2> QED
    BY <1>1, <2>1, <2>2, <2>3, <2>4, <2>5
<1> QED
  BY <1>2, <1>3

-----------------------------------------------------------------------------
(* Only CompleteHop writes hop_transactions. *)

LEMMA MovesAreCompletions ==
  ASSUME [Next]_vars, transfers' # transfers
  PROVE  \E h \in Hops, m \in Members, entered \in FinalHours \cup {0} :
           CompleteHop(h, m, entered)
<1> USE DEF bankVars
<1>1. Next
  BY DEF vars
<1>2. ~ExpireDueHops /\ ~OrganizationStep
  BY DEF ExpireDueHops, OrganizationStep, UpdateOrganizationTimebankPolicy,
         SetOrganizationEnabled
<1>3. \A h \in Hops : ~HopStep(h)
  BY DEF HopStep, FallDue, AdminExpireHop, AdminDeleteHop
<1>4. \A m \in Members : ~AccountStep(m)
  BY DEF AccountStep, AdminDisableMember, AdminDeleteMember, EnableMember, DisableOwnAccount,
         AdjustMemberHourBalance, LeaveOrganization, RemoveOrganizationMember, EndMembership,
         ApproveMembershipRequest, AcceptOrganizationInvite, EnsureActiveMembership
<1>5. PICK m \in Members : MemberStep(m)
  BY <1>1, <1>2, <1>3, <1>4 DEF Next
<1>6. PICK h \in Hops :
        \/ \E k \in Kinds, hours \in Estimates : CreateHop(h, m, k, hours)
        \/ OfferHopHelp(h, m)
        \/ \E o \in Members : AcceptPendingHopOffer(h, m, o) \/ DeclinePendingHopOffer(h, m, o)
        \/ AcceptHop(h, m)
        \/ CancelHop(h, m)
        \/ \E entered \in FinalHours \cup {0} : CompleteHop(h, m, entered)
  BY <1>5 DEF MemberStep
<1> QED
  BY <1>6 DEF CreateHop, OfferHopHelp, AcceptPendingHopOffer, DeclinePendingHopOffer, AcceptHop,
              CancelHop

LEMMA AllowedBounds ==
  ASSUME NEW requested \in Nat, NEW payerBalance \in Int, NEW earnerBalance \in Int,
         NEW p \in PolicyRecords,
         Allowed(requested, payerBalance, earnerBalance, p) > 0
  PROVE  /\ payerBalance - Allowed(requested, payerBalance, earnerBalance, p) >= p.min
         /\ earnerBalance + Allowed(requested, payerBalance, earnerBalance, p) <= p.max
  BY DEF Allowed, NonNegative, Least, PolicyRecords

(* What a completion does: the one new row, and the balances it leaves. *)
LEMMA CompletionMoves ==
  ASSUME IInv, FiniteLedger, NEW h \in Hops, NEW m \in Members,
         NEW entered \in FinalHours \cup {0}, CompleteHop(h, m, entered)
  PROVE  \E requested \in Nat, hours \in Nat :
           LET row == [hop |-> h, from |-> Payer(h), to |-> Earner(h), hours |-> hours]
           IN  /\ hours = Allowed(requested, Balance(Payer(h)), Balance(Earner(h)), policy)
               /\ row \in Transfers /\ row \notin transfers /\ row.from # row.to
               /\ transfers' = transfers \cup {row}
               /\ adjusted' = adjusted /\ policy' = policy
               /\ status[h] = "accepted"
<1> DEFINE requested == IF m = Payer(h) /\ entered > 0 THEN entered ELSE estimate[h]
           hours == Allowed(requested, Balance(Payer(h)), Balance(Earner(h)), policy)
           row == [hop |-> h, from |-> Payer(h), to |-> Earner(h), hours |-> hours]
<1>1. requested \in Nat
  BY HoursAssumption DEF IInv, TypeOK
<1>2. hours \in Nat
  BY AllowedIsNat
<1>3. status[h] = "accepted" /\ transfers' = transfers \cup {row}
      /\ adjusted' = adjusted /\ policy' = policy
  BY DEF CompleteHop, orgVars
<1>4. Payer(h) \in Members /\ Earner(h) \in Members /\ Payer(h) # Earner(h)
  BY <1>3 DEF IInv, TypeOK, MatchAgreesWithStatus, Payer, Earner
<1>5. \A t \in transfers : t.hop # h
  BY <1>3 DEF IInv, LedgerMatchesHops
<1> HIDE DEF requested, hours
<1>6. row \in Transfers /\ row \notin transfers /\ row.from # row.to
  BY <1>2, <1>4, <1>5 DEF Transfers
<1> QED
  BY <1>1, <1>2, <1>3, <1>6 DEF hours

LEMMA InitFiniteLedger == Init => FiniteLedger
  BY FS_EmptySet DEF Init, FiniteLedger, HourUnits

LEMMA NextFiniteLedger == IInv /\ FiniteLedger /\ [Next]_vars => FiniteLedger'
<1> SUFFICES ASSUME IInv, FiniteLedger, [Next]_vars PROVE FiniteLedger'
  OBVIOUS
<1>1. CASE transfers' = transfers
  BY <1>1 DEF FiniteLedger
<1>2. CASE transfers' # transfers
  <2>1. PICK h \in Hops, m \in Members, entered \in FinalHours \cup {0} :
          CompleteHop(h, m, entered)
    BY <1>2, MovesAreCompletions
  <2>2. PICK row \in Transfers :
          /\ row \notin transfers /\ row.from # row.to
          /\ transfers' = transfers \cup {row} /\ adjusted' = adjusted
    BY <2>1, CompletionMoves
  <2> QED
    BY <2>2, BalanceAfterMove DEF IInv
<1> QED
  BY <1>1, <1>2

(* Whatever the policy and the balances are when a hop is completed, also    *)
(* after adjustments and policy changes, the hours it moves take neither     *)
(* participant across a limit: the clamp of CompleteHopWithResult is right.  *)
THEOREM CompletionsKeepLimits == Spec => CompletionKeepsLimits
<1> DEFINE Kept ==
      \A t \in transfers' \ transfers :
        /\ status[t.hop] = "accepted"
        /\ t.hours > 0 => /\ Balance(t.from)' >= policy.min
                          /\ Balance(t.to)' <= policy.max
<1>1. ASSUME IInv, FiniteLedger, [Next]_vars
      PROVE  Kept
  <2> SUFFICES ASSUME NEW t \in transfers' \ transfers
               PROVE  /\ status[t.hop] = "accepted"
                      /\ t.hours > 0 => /\ Balance(t.from)' >= policy.min
                                        /\ Balance(t.to)' <= policy.max
    OBVIOUS
  <2>1. PICK h \in Hops, m \in Members, entered \in FinalHours \cup {0} :
          CompleteHop(h, m, entered)
    BY <1>1, MovesAreCompletions
  <2>2. PICK requested \in Nat, hours \in Nat :
          LET row == [hop |-> h, from |-> Payer(h), to |-> Earner(h), hours |-> hours]
          IN  /\ hours = Allowed(requested, Balance(Payer(h)), Balance(Earner(h)), policy)
              /\ row \in Transfers /\ row \notin transfers /\ row.from # row.to
              /\ transfers' = transfers \cup {row}
              /\ adjusted' = adjusted /\ policy' = policy
              /\ status[h] = "accepted"
    BY <1>1, <2>1, CompletionMoves
  <2>3. /\ t = [hop |-> h, from |-> Payer(h), to |-> Earner(h), hours |-> hours]
        /\ transfers' = transfers \cup {t} /\ t \in Transfers /\ t \notin transfers
        /\ t.from # t.to
    BY <2>2
  <2>4. \A a \in Members :
          Balance(a)' = IF a = t.to THEN Balance(a) + t.hours
                        ELSE IF a = t.from THEN Balance(a) - t.hours
                        ELSE Balance(a)
    BY <1>1, <2>2, <2>3, BalanceAfterMove DEF IInv
  <2>5. t.from \in Members /\ t.to \in Members /\ policy \in PolicyRecords
    BY <1>1, <2>3 DEF Transfers, IInv, TypeOK
  <2>6. Balance(t.from) \in Int /\ Balance(t.to) \in Int
    BY <1>1, <2>5, BalanceIsInt DEF IInv
  <2>7. t.hours = Allowed(requested, Balance(t.from), Balance(t.to), policy)
    BY <2>2, <2>3
  <2>8. t.hours > 0 => /\ Balance(t.from) - t.hours >= policy.min
                       /\ Balance(t.to) + t.hours <= policy.max
    BY <2>5, <2>6, <2>7, AllowedBounds
  <2> QED
    BY <2>2, <2>3, <2>4, <2>5, <2>8
<1>2. IInv /\ FiniteLedger /\ [Next]_vars => [Kept]_vars
  BY <1>1
<1> QED
  BY <1>2, InitIInv, NextIInv, InitFiniteLedger, NextFiniteLedger, PTL
  DEF Spec, CompletionKeepsLimits

-----------------------------------------------------------------------------
(* With a standing policy and no adjustments, no balance leaves the limits. *)

(* Whoever takes part in a hop or a transfer has had a membership, so the   *)
(* starting balance meets an account without rows.                          *)
ParticipantsJoined ==
  /\ active \subseteq joined
  /\ \A h \in Hops : creator[h] \in joined \cup {NoMember} /\ matched[h] \in joined \cup {NoMember}
  /\ \A h \in Hops, m \in Members : offer[h][m] # "none" => m \in joined
  /\ \A t \in transfers : t.from \in joined /\ t.to \in joined

LEMMA InitParticipantsJoined == Init => ParticipantsJoined
  BY DEF Init, ParticipantsJoined

LEMMA NextParticipantsJoined == IInv /\ ParticipantsJoined /\ [Next]_vars => ParticipantsJoined'
<1> SUFFICES ASSUME IInv, ParticipantsJoined, [Next]_vars PROVE ParticipantsJoined'
  OBVIOUS
<1> USE DEF IInv, TypeOK, ParticipantsJoined, hopVars, bankVars, orgVars, memberVars
<1>1. CASE UNCHANGED vars
  BY <1>1 DEF vars
<1>2. ASSUME NEW m \in Members, NEW h \in Hops,
             \/ \E k \in Kinds, hours \in Estimates : CreateHop(h, m, k, hours)
             \/ OfferHopHelp(h, m) \/ AcceptHop(h, m) \/ CancelHop(h, m)
      PROVE  ParticipantsJoined'
  <2>1. ASSUME NEW k \in Kinds, NEW hours \in Estimates, CreateHop(h, m, k, hours)
        PROVE  ParticipantsJoined'
    BY <2>1 DEF CreateHop, ActiveMembership
  <2>2. CASE OfferHopHelp(h, m)
    BY <2>2 DEF OfferHopHelp, ActiveMembership
  <2>3. CASE AcceptHop(h, m)
    BY <2>3 DEF AcceptHop, ActiveMembership
  <2>4. CASE CancelHop(h, m)
    BY <2>4 DEF CancelHop, DenyPending
  <2> QED
    BY <1>2, <2>1, <2>2, <2>3, <2>4
<1>3. ASSUME NEW m \in Members, NEW o \in Members, NEW h \in Hops,
             AcceptPendingHopOffer(h, m, o) \/ DeclinePendingHopOffer(h, m, o)
      PROVE  ParticipantsJoined'
  <2>1. CASE AcceptPendingHopOffer(h, m, o)
    <3>1. \A q \in Members : offer'[h][q] # "none" => offer[h][q] # "none"
      BY <2>1 DEF AcceptPendingHopOffer, AcceptOffer, DenyPending
    <3>2. \A g \in Hops, q \in Members : offer'[g][q] # "none" => q \in joined'
      BY <2>1, <3>1 DEF AcceptPendingHopOffer
    <3>3. \A g \in Hops : matched'[g] \in joined' \cup {NoMember}
      BY <2>1 DEF AcceptPendingHopOffer
    <3> QED
      BY <2>1, <3>2, <3>3 DEF AcceptPendingHopOffer
  <2>2. CASE DeclinePendingHopOffer(h, m, o)
    BY <2>2 DEF DeclinePendingHopOffer
  <2> QED
    BY <1>3, <2>1, <2>2
<1>4. ASSUME NEW m \in Members, NEW h \in Hops, NEW entered \in FinalHours \cup {0},
             CompleteHop(h, m, entered)
      PROVE  ParticipantsJoined'
  <2>1. creator[h] \in joined /\ matched[h] \in joined
    BY <1>4 DEF CompleteHop, MatchAgreesWithStatus
  <2>2. Payer(h) \in joined /\ Earner(h) \in joined
    BY <2>1 DEF Payer, Earner
  <2> QED
    BY <1>4, <2>2 DEF CompleteHop
<1>5. ASSUME NEW m \in Members, AccountStep(m)
      PROVE  ParticipantsJoined'
  <2>1. CASE AdminDisableMember(m)
    BY <2>1 DEF AdminDisableMember, MatchDropped, Event
  <2>2. CASE AdminDeleteMember(m)
    BY <2>2 DEF AdminDeleteMember, MatchDropped, DenyPending, Event
  <2>3. CASE EnableMember(m) \/ DisableOwnAccount(m)
             \/ \E delta \in Deltas : AdjustMemberHourBalance(m, delta)
    BY <2>3 DEF EnableMember, DisableOwnAccount, AdjustMemberHourBalance, Event
  <2>4. CASE LeaveOrganization(m) \/ RemoveOrganizationMember(m)
    BY <2>4 DEF LeaveOrganization, RemoveOrganizationMember, EndMembership, Event
  <2>5. CASE ApproveMembershipRequest(m) \/ AcceptOrganizationInvite(m)
    BY <2>5 DEF ApproveMembershipRequest, AcceptOrganizationInvite, EnsureActiveMembership, Event
  <2> QED
    BY <1>5, <2>1, <2>2, <2>3, <2>4, <2>5 DEF AccountStep
<1>6. ASSUME NEW h \in Hops, HopStep(h)
      PROVE  ParticipantsJoined'
  BY <1>6 DEF HopStep, FallDue, AdminExpireHop, AdminDeleteHop
<1>7. CASE ExpireDueHops
  BY <1>7 DEF ExpireDueHops
<1>8. CASE OrganizationStep
  BY <1>8 DEF OrganizationStep, UpdateOrganizationTimebankPolicy, SetOrganizationEnabled, Event
<1> QED
  BY <1>1, <1>2, <1>3, <1>4, <1>5, <1>6, <1>7, <1>8 DEF Next, MemberStep

(* Without adjustments and with one policy, a step either completes a hop,  *)
(* or gives a first-time member the starting balance, or moves no hours.    *)
LEMMA HoursSteps ==
  ASSUME Deltas = {}, \A p, q \in Policies : p = q, policy \in Policies, [Next]_vars
  PROVE  /\ policy' = policy
         /\ \/ UNCHANGED <<transfers, adjusted, joined>>
            \/ /\ transfers' # transfers /\ adjusted' = adjusted /\ joined' = joined
            \/ /\ transfers' = transfers
               /\ \E m \in Members : /\ joined' = joined \cup {m}
                                     /\ adjusted' = StartGranted(m)
<1> USE DEF hopVars, bankVars, orgVars, memberVars
<1>1. CASE UNCHANGED vars
  BY <1>1 DEF vars
<1>2. CASE \E m \in Members : MemberStep(m)
  BY <1>2 DEF MemberStep, CreateHop, OfferHopHelp, AcceptPendingHopOffer, DeclinePendingHopOffer,
              AcceptHop, CancelHop, CompleteHop
<1>3. ASSUME NEW m \in Members, AccountStep(m)
      PROVE  /\ policy' = policy /\ transfers' = transfers
             /\ \/ UNCHANGED <<adjusted, joined>>
                \/ joined' = joined \cup {m} /\ adjusted' = StartGranted(m)
  BY <1>3 DEF AccountStep, AdminDisableMember, AdminDeleteMember, EnableMember, DisableOwnAccount,
              AdjustMemberHourBalance, LeaveOrganization, RemoveOrganizationMember, EndMembership,
              ApproveMembershipRequest, AcceptOrganizationInvite, EnsureActiveMembership
<1>4. CASE \E h \in Hops : HopStep(h)
  BY <1>4 DEF HopStep, FallDue, AdminExpireHop, AdminDeleteHop
<1>5. CASE ExpireDueHops
  BY <1>5 DEF ExpireDueHops
<1>6. CASE OrganizationStep
  BY <1>6 DEF OrganizationStep, UpdateOrganizationTimebankPolicy, SetOrganizationEnabled
<1> QED
  BY <1>1, <1>2, <1>3, <1>4, <1>5, <1>6 DEF Next

LimitInv ==
  /\ IInv /\ FiniteLedger /\ ParticipantsJoined
  /\ policy \in Policies
  /\ StartingBalanceGrantedOnce
  /\ BalancesWithinLimits

LEMMA InitLimitInv == Init => LimitInv
<1> SUFFICES ASSUME Init PROVE LimitInv
  OBVIOUS
<1>1. IInv /\ FiniteLedger /\ ParticipantsJoined
  BY InitIInv, InitFiniteLedger, InitParticipantsJoined
<1>2. policy \in Policies /\ StartingBalanceGrantedOnce
  BY DEF Init, StartingBalanceGrantedOnce
<1>3. ASSUME NEW m \in joined
      PROVE  policy.min <= Balance(m) /\ Balance(m) <= policy.max
  <2>1. {t \in transfers : t.to = m} = {} /\ {t \in transfers : t.from = m} = {}
    BY DEF Init
  <2>2. HoursOf({t \in transfers : t.to = m}) = 0 /\ HoursOf({t \in transfers : t.from = m}) = 0
    BY <2>1, HoursOfNothing
  <2>3. m \in Members /\ adjusted[m] = policy.start
    BY DEF Init
  <2>4. Balance(m) = policy.start
    BY <1>2, <2>2, <2>3, PoliciesAssumption DEF Balance, PolicyRecords
  <2> QED
    BY <1>2, <2>4, PoliciesAssumption DEF PolicyRecords, ValidPolicy
<1> QED
  BY <1>1, <1>2, <1>3 DEF LimitInv, BalancesWithinLimits

LEMMA NextLimitInv ==
  ASSUME Deltas = {}, \A p, q \in Policies : p = q, LimitInv, [Next]_vars
  PROVE  LimitInv'
<1> USE DEF LimitInv
<1>1. IInv' /\ FiniteLedger' /\ ParticipantsJoined'
  BY NextIInv, NextFiniteLedger, NextParticipantsJoined
<1>2. policy' = policy /\ policy \in PolicyRecords /\ ValidPolicy(policy)
  BY HoursSteps, PoliciesAssumption
<1>3. \A m \in Members : Balance(m) \in Int
  BY BalanceIsInt DEF IInv
<1>4. joined \subseteq Members
  BY DEF IInv, TypeOK
<1>5. CASE UNCHANGED <<transfers, adjusted, joined>>
  <2>1. \A m \in Members : Balance(m)' = Balance(m)
    BY <1>5 DEF Balance
  <2> QED
    BY <1>1, <1>2, <1>4, <1>5, <2>1 DEF StartingBalanceGrantedOnce, BalancesWithinLimits
<1>6. CASE transfers' # transfers /\ adjusted' = adjusted /\ joined' = joined
  <2>1. PICK h \in Hops, m \in Members, entered \in FinalHours \cup {0} :
          CompleteHop(h, m, entered)
    BY <1>6, MovesAreCompletions
  <2>2. PICK requested \in Nat, hours \in Nat :
          LET row == [hop |-> h, from |-> Payer(h), to |-> Earner(h), hours |-> hours]
          IN  /\ hours = Allowed(requested, Balance(Payer(h)), Balance(Earner(h)), policy)
              /\ row \in Transfers /\ row \notin transfers /\ row.from # row.to
              /\ transfers' = transfers \cup {row}
              /\ adjusted' = adjusted /\ policy' = policy
              /\ status[h] = "accepted"
    BY <2>1, CompletionMoves
  <2> DEFINE t == [hop |-> h, from |-> Payer(h), to |-> Earner(h), hours |-> hours]
  <2>3. /\ t \in Transfers /\ t \notin transfers /\ t.from # t.to
        /\ transfers' = transfers \cup {t}
        /\ t.hours = Allowed(requested, Balance(t.from), Balance(t.to), policy)
    BY <2>2
  <2> HIDE DEF t
  <2>4. \A a \in Members :
          Balance(a)' = IF a = t.to THEN Balance(a) + t.hours
                        ELSE IF a = t.from THEN Balance(a) - t.hours
                        ELSE Balance(a)
    BY <1>6, <2>3, BalanceAfterMove DEF IInv
  <2>5. t.from \in Members /\ t.to \in Members /\ t.hours \in Nat
    BY <2>3 DEF Transfers
  <2>6. t.hours > 0 => /\ Balance(t.from) - t.hours >= policy.min
                       /\ Balance(t.to) + t.hours <= policy.max
    BY <1>2, <1>3, <2>3, <2>5, AllowedBounds
  <2>7. ASSUME NEW a \in joined
        PROVE  policy.min <= Balance(a)' /\ Balance(a)' <= policy.max
    <3>1. policy.min <= Balance(a) /\ Balance(a) <= policy.max /\ Balance(a) \in Int
      BY <1>3, <1>4 DEF BalancesWithinLimits
    <3> QED
      BY <1>2, <1>3, <1>4, <2>4, <2>5, <2>6, <3>1 DEF PolicyRecords
  <2>8. StartingBalanceGrantedOnce'
    BY <1>2, <1>6 DEF StartingBalanceGrantedOnce
  <2> QED
    BY <1>1, <1>2, <1>6, <2>7, <2>8 DEF BalancesWithinLimits
<1>7. ASSUME NEW m \in Members, transfers' = transfers,
             joined' = joined \cup {m}, adjusted' = StartGranted(m)
      PROVE  LimitInv'
  <2>1. CASE m \in joined
    <3>1. UNCHANGED <<transfers, adjusted, joined>>
      BY <1>7, <2>1 DEF StartGranted
    <3> QED
      BY <1>5, <3>1
  <2>2. CASE m \notin joined
    <3>1. adjusted' = [adjusted EXCEPT ![m] = policy.start] /\ adjusted[m] = 0
      <4>1. adjusted[m] = 0
        BY <2>2 DEF StartingBalanceGrantedOnce
      <4>2. adjusted[m] + policy.start = policy.start
        BY <1>2, <4>1 DEF PolicyRecords
      <4>3. adjusted' = [adjusted EXCEPT ![m] = adjusted[m] + policy.start]
        BY <1>7, <2>2 DEF StartGranted
      <4> QED
        BY <4>1, <4>2, <4>3
    <3>2. StartingBalanceGrantedOnce'
      BY <1>2, <1>7, <3>1 DEF StartingBalanceGrantedOnce, IInv, TypeOK
    <3>3. \A a \in Members : a # m => Balance(a)' = Balance(a)
      BY <1>7, <3>1 DEF Balance, IInv, TypeOK
    <3>4. Balance(m)' = policy.start
      <4>1. {t \in transfers : t.to = m} = {} /\ {t \in transfers : t.from = m} = {}
        BY <2>2 DEF ParticipantsJoined
      <4>2. HoursOf({}) = 0 /\ adjusted'[m] = policy.start
        BY <3>1, HoursOfNothing DEF IInv, TypeOK
      <4>3. Balance(m)' = HoursOf({}) - HoursOf({}) + adjusted'[m]
        BY <1>7, <4>1 DEF Balance
      <4> QED
        BY <1>2, <4>2, <4>3 DEF PolicyRecords
    <3>5. policy.min <= policy.start /\ policy.start <= policy.max
      BY <1>2 DEF PolicyRecords, ValidPolicy
    <3>6. ASSUME NEW a \in joined'
          PROVE  policy.min <= Balance(a)' /\ Balance(a)' <= policy.max
      BY <1>4, <1>7, <3>3, <3>4, <3>5 DEF BalancesWithinLimits
    <3> QED
      BY <1>1, <1>2, <3>2, <3>6 DEF BalancesWithinLimits
  <2> QED
    BY <2>1, <2>2
<1> QED
  BY <1>5, <1>6, <1>7, HoursSteps

(* With a standing policy and no administrator adjusting hours, every        *)
(* balance stays within the policy's limits, for any number of members and   *)
(* hops, whatever is accepted, canceled, expired and completed in between.   *)
THEOREM LimitsHold ==
  ASSUME Deltas = {}, \A p, q \in Policies : p = q
  PROVE  Spec => []BalancesWithinLimits
<1>1. LimitInv /\ [Next]_vars => LimitInv'
  BY NextLimitInv
<1>2. LimitInv => BalancesWithinLimits
  BY DEF LimitInv
<1> QED
  BY <1>1, <1>2, InitLimitInv, PTL DEF Spec

(* The starting balance is granted once however often a member leaves and    *)
(* is approved or invited again.                                             *)
THEOREM StartGrantedOnce ==
  ASSUME Deltas = {}, \A p, q \in Policies : p = q
  PROVE  Spec => []StartingBalanceGrantedOnce
<1>1. LimitInv /\ [Next]_vars => LimitInv'
  BY NextLimitInv
<1>2. LimitInv => StartingBalanceGrantedOnce
  BY DEF LimitInv
<1> QED
  BY <1>1, <1>2, InitLimitInv, PTL DEF Spec
=============================================================================
