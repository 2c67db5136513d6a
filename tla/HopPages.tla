------------------------------ MODULE HopPages ------------------------------
(***************************************************************************)
(* What the pages show a member of the hops of HopLifecycle: which hops    *)
(* are listed where, which buttons a page offers and which numbers it      *)
(* prints.  Every operator is a query over the committed rows, as a page   *)
(* rendered at this moment would answer it; the operation behind a button  *)
(* is the action of HopLifecycle.  The LIMITs of the lists are left out,   *)
(* and so are the hops an administrator of the organization canceled with  *)
(* somebody's account, which also show up among the administrator's own.   *)
(***************************************************************************)
EXTENDS HopLifecycle, FiniteSetsExt, Functions

(* The pages count and add up rows, of which the tables hold finitely many. *)
ASSUME FiniteOrganization == IsFiniteSet(Members) /\ IsFiniteSet(Hops)

Rows == {h \in Hops : creator[h] # NoMember}
Having(s) == {h \in Rows : status[h] = s}
Kept(m) == SignedIn(m) /\ ActiveMembership(m)

-----------------------------------------------------------------------------
(* Lists.                                                                  *)

HasPendingHopOffer(h, m) == offer[h][m] = "pending"
PendingHopOfferIDs(m) == {h \in Rows : HasPendingHopOffer(h, m)}

(* An offer on a hop is only shown to the hop's creator, while it is open. *)
ListPendingHopOffers(h, m) ==
  {o \in Members : creator[h] = m /\ status[h] = "open" /\ HasPendingHopOffer(h, o)}

(* canceled_by and completed_by name the creator or the match.             *)
ListMemberHops(m) == {h \in Rows : m \in {creator[h], matched[h]}} \cup PendingHopOfferIDs(m)
ListRequestedHops(m) == {h \in Rows : creator[h] = m}
HelpedInThePast(m) == {h \in Having("completed") : matched[h] = m}   \* mutant
ListHelpedHops(m) == {h \in Having("accepted") \cup Having("completed") : matched[h] = m}
ListPendingOfferedHops(m) == Having("open") \cap PendingHopOfferIDs(m)

RecentPendingHops == Having("open")
RecentAcceptedHops == Having("accepted")
RecentCompletedHops == Having("completed")

(* The views of "my hops", and what the organization's page adds to them.  *)
handleMyHops(m) == ListRequestedHops(m) \cup ListHelpedHops(m) \cup ListPendingOfferedHops(m)
OrganizationPendingHops(m) == {h \in RecentPendingHops : creator[h] # m}
RecentOrganizationHops == RecentCompletedHops \cup RecentAcceptedHops

LeftOrganization(h) == {m \in {creator[h], matched[h]} \ {NoMember} : m \notin active}

(* The home page puts one accepted hop of the member first.                *)
ActiveAcceptedHops(m) == ListMemberHops(m) \cap Having("accepted")

-----------------------------------------------------------------------------
(* Buttons.                                                                *)

Associated(h, m) == m \in {creator[h], matched[h]}

CanCancel(h, m) == creator[h] = m /\ status[h] \in LiveStatuses
CanComplete(h, m) == status[h] = "accepted" /\ Associated(h, m)
CanSetCompletionHours(h, m) ==
  (kind[h] = "ask" /\ creator[h] = m) \/ (kind[h] = "offer" /\ matched[h] = m)

OffersUnweighed(h, m) ==   \* mutant: the balance is not looked at
  /\ status[h] = "open" /\ creator[h] # m
  /\ ~HasPendingHopOffer(h, m)
CanOfferHelp(h, m) ==
  /\ status[h] = "open" /\ creator[h] # m
  /\ kind[h] = "offer" => Balance(m) - estimate[h] >= policy.min
  /\ ~HasPendingHopOffer(h, m)

(* The form for a new hop offers a kind the balance allows, and selects    *)
(* the Ask unless the balance is at the minimum.                           *)
canCreateAsk(m) == Balance(m) > policy.min
canCreateOffer(m) == Balance(m) < policy.max
KindsOffered(m) == {k \in Kinds : IF k = "ask" THEN canCreateAsk(m) ELSE canCreateOffer(m)}
SelectedKind(m) == IF Balance(m) <= policy.min THEN "offer" ELSE "ask"

(* The page of one hop has its buttons twice: for wide screens, and in a   *)
(* bar for narrow ones.  Its creator finds the pending offers there.       *)
Showing(conditions) == {b \in DOMAIN conditions : conditions[b]}

HopDetailsBody(h, m) ==
  Showing([offer |-> CanOfferHelp(h, m), complete |-> CanComplete(h, m),
           cancel |-> CanCancel(h, m)])
HopDetailsMobileActionBar(h, m) ==
  Showing([offer |-> CanOfferHelp(h, m), complete |-> CanComplete(h, m),
           cancel |-> CanCancel(h, m)])
OfferButtons(h, m) == {"accept", "decline"} \X ListPendingHopOffers(h, m)

(* The rows of "my hops" and of the home page; the dialogs their buttons   *)
(* open are shown by conditions of their own.                              *)
CancelInList(h, m) ==
  /\ creator[h] = m
  /\ \/ status[h] = "accepted"
     \/ status[h] = "open" /\ ~HasPendingHopOffer(h, m)
MyHopActionModals(h, m) ==
  Showing([cancel |-> creator[h] = m /\ status[h] \in LiveStatuses,
           complete |-> status[h] = "accepted"])
MyHopActionButtonsMobile(h, m) ==
  Showing([cancel |-> CancelInList(h, m), complete |-> status[h] = "accepted"])
    \cap MyHopActionModals(h, m)
MyHopActionButtonsDesktop(h, m) ==
  Showing([cancel |-> CancelInList(h, m) /\ "cancel" \in MyHopActionModals(h, m),
           complete |-> status[h] = "accepted"])
MyhopShareActiveNowCard(h, m) == Showing([complete |-> h \in ActiveAcceptedHops(m)])

ButtonsOf(h, m) ==
  HopDetailsBody(h, m) \cup HopDetailsMobileActionBar(h, m) \cup MyhopShareActiveNowCard(h, m)
    \cup (IF h \in handleMyHops(m)
          THEN MyHopActionButtonsMobile(h, m) \cup MyHopActionButtonsDesktop(h, m) ELSE {})

(* The administrators' page of the organization has two buttons of its own. *)
adminCanExpireHopStatus(h) == status[h] \in {"open", "accepted"}
adminCanDeleteHopStatus(h) == status[h] \in {"open", "canceled"}
AdminOrganizationDetailView(h) ==
  Showing([expire |-> adminCanExpireHopStatus(h), delete |-> adminCanDeleteHopStatus(h)])

HoursFields(h, m) == {0} \cup (IF CanSetCompletionHours(h, m) THEN FinalHours ELSE {})

-----------------------------------------------------------------------------
(* Numbers.                                                                *)

(* The balance overview adds up the entries one by one.                    *)
BalanceEntries(m) == {t \in transfers : m \in {t.from, t.to}}
BalanceDelta(t, m) == IF t.to = m THEN t.hours ELSE 0 - t.hours
BalanceAfterAll(m) ==
  FoldSet(LAMBDA t, sum : sum + BalanceDelta(t, m), adjusted[m], BalanceEntries(m))

HopsMade(m) == Cardinality(ListRequestedHops(m))
MatchedAtAll(m) == Cardinality({h \in Rows : matched[h] = m})   \* mutant
HopsFulfilled(m) == Cardinality({h \in RecentCompletedHops : matched[h] = m})

PendingCount == Cardinality({h \in Rows : status[h] \in LiveStatuses})
CountOf(s) == Cardinality(Having(s))
CompletedCount == CountOf("completed")
TotalHoursExchanged == HoursOf(transfers)

(* What the heading of each view of "my hops" counts.                      *)
myHopsHighlightCount(view, m) ==
  CASE view = "interested" -> Cardinality(ListPendingOfferedHops(m))
    [] view = "matched" -> Cardinality(ListHelpedHops(m) \cap Having("accepted"))
    [] view = "created" ->
         Cardinality({h \in ListRequestedHops(m) :
                        status[h] \in LiveStatuses \/ HasPendingHopOffer(h, m)})
HighlightsOf(view) == MapThenSumSet(LAMBDA m : myHopsHighlightCount(view, m), Members)

(* The metrics of an organization's owners and of the administrators.      *)
CountOfKind(k) == Cardinality({h \in Rows : kind[h] = k})
Participated ==
  {m \in Members : \E h \in Rows : m \in {creator[h], matched[h]}}
NeverParticipated == active \ Participated
ParticipationCount(m) == HopsMade(m) + Cardinality({h \in Rows : matched[h] = m})
organizationTopParticipants == {m \in active : ParticipationCount(m) > 0}
OffersOn(hops) == {o \in hops \X Members : offer[o[1]][o[2]] # "none"}
averageOffersPerHopStatus(s) ==
  [offers |-> Cardinality(OffersOn(Having(s))), hops |-> Cardinality(Having(s))]
MemberCounts ==
  [total |-> Cardinality(active), enabled |-> Cardinality(active \cap enabled),
   disabled |-> Cardinality(active \ enabled)]

(* The administrators' overview and the owners' metrics, each with a query *)
(* for every field, and the rings drawn from their counts.                 *)
adminHopStatusOrder == {"open", "accepted", "completed", "canceled", "expired"}
AdminAppOverview ==
  [HopsByStatus |-> [s \in adminHopStatusOrder |-> CountOf(s)],
   HopsByKind |-> [k \in Kinds |-> CountOfKind(k)],
   TotalHoursExchanged |-> TotalHoursExchanged,
   TopOrgByHopsCreated |-> Cardinality(Rows),
   TopOrgByUsers |-> MemberCounts]
OrganizationHopMetricsDetail ==
  [HopsByStatus |-> [s \in adminHopStatusOrder |-> CountOf(s)],
   HopsByKind |-> [k \in Kinds |-> CountOfKind(k)],
   TotalHoursExchanged |-> TotalHoursExchanged,
   ParticipatedUsers |-> Cardinality(active \cap Participated),
   NeverParticipatedUsers |-> Cardinality(NeverParticipated)]
adminTotalHopCount(counts) == SumFunction(counts)
adminHopMetricTotalValueForKinds(counts) == SumFunction(counts)

(* AdminUserDetail sums both ledgers in one SELECT.                        *)
AdminBalance(m) ==
  FoldSet(LAMBDA t, sum : sum + (IF t.to = m THEN t.hours ELSE 0)
                              - (IF t.from = m THEN t.hours ELSE 0), 0, BalanceEntries(m))
    + adjusted[m]

BalanceState(balance, p) ==
  IF balance >= p.max THEN "maxed"
  ELSE IF balance >= p.start THEN "healthy"
  ELSE IF balance < 0 /\ balance <= p.min THEN "minimum"
  ELSE IF balance < 0 THEN "low"
  ELSE "neutral"

(* What the message after a completion says cut the hours.                 *)
CompletionMessage(requested, payerBalance, earnerBalance, p) ==
  LET given == Allowed(requested, payerBalance, earnerBalance, p)
      byPayer == payerBalance - p.min < requested
      byEarner == p.max - earnerBalance < requested
  IN IF given = requested THEN "completed"
     ELSE IF given = 0 THEN "nothing moved"
     ELSE IF byPayer /\ byEarner THEN "both limits"
     ELSE IF byPayer THEN "minimum"
     ELSE IF byEarner THEN "maximum"
     ELSE "completed"

-----------------------------------------------------------------------------

(* A button a page shows works when it is pressed at once: the conditions  *)
(* in the pages are those of the operations, kept apart in the code.  The  *)
(* exceptions are an offer to a hop that was reopened after the member's   *)
(* earlier one had been accepted, and the acceptance of an offer whose     *)
(* member has left or can no longer pay.                                   *)
Works(b, h, m) ==
  CASE b = "offer" -> offer[h][m] = "accepted" \/ ENABLED OfferHopHelp(h, m)
    [] b = "cancel" -> ENABLED CancelHop(h, m)
    [] b = "complete" -> \A hours \in HoursFields(h, m) : ENABLED CompleteHop(h, m, hours)
ButtonsWork ==
  /\ \A m \in Members : Kept(m) =>
       /\ \A k \in KindsOffered(m) \cup {SelectedKind(m)}, h \in Hops, hours \in Estimates :
            status[h] = "none" => ENABLED CreateHop(h, m, k, hours)
       /\ \A h \in Rows :
            /\ \A b \in ButtonsOf(h, m) : Works(b, h, m)
            /\ \A b \in OfferButtons(h, m) :
                 IF b[1] = "decline" THEN ENABLED DeclinePendingHopOffer(h, m, b[2])
                 ELSE ENABLED AcceptPendingHopOffer(h, m, b[2])
                        <=> ActiveMembership(b[2]) /\ MayTakeUp(h, b[2])
  /\ \A h \in Rows :
       AdminOrganizationDetailView(h) =
         Showing([expire |-> ENABLED AdminExpireHop(h), delete |-> ENABLED AdminDeleteHop(h)])

(* And whatever a member may do with a live hop has its button, on every   *)
(* screen, on a hop that one of the lists or the organization's page shows; *)
(* only the payer is asked for the hours, and only the payer's count.      *)
(* Whoever takes part in a hop under way and cannot complete it is shown   *)
(* as having left, or cannot sign in; unless the organization is disabled. *)
OnEveryScreen(h, m) ==
  HopDetailsBody(h, m) \cap HopDetailsMobileActionBar(h, m)
    \cap MyHopActionButtonsMobile(h, m) \cap MyHopActionButtonsDesktop(h, m)
NothingOutOfReach ==
  ~DirectAccept =>
    \A m \in Members, h \in Rows :
      /\ orgEnabled /\ status[h] = "accepted" /\ Associated(h, m) =>
           ENABLED CompleteHop(h, m, 0) \/ m \in LeftOrganization(h) \/ ~SignedIn(m)
      /\ ENABLED CancelHop(h, m) => "cancel" \in OnEveryScreen(h, m) /\ h \in handleMyHops(m)
      /\ ENABLED CompleteHop(h, m, 0) =>
           /\ "complete" \in OnEveryScreen(h, m) /\ h \in handleMyHops(m)
           /\ CanSetCompletionHours(h, m) <=> m = Payer(h)
      /\ ENABLED OfferHopHelp(h, m) =>
           /\ "offer" \in HopDetailsBody(h, m) \cap HopDetailsMobileActionBar(h, m)
           /\ h \in OrganizationPendingHops(m)
      /\ \A o \in Members :
           ENABLED DeclinePendingHopOffer(h, m, o) =>
             o \in ListPendingHopOffers(h, m) /\ h \in ListPendingOfferedHops(o) \cap handleMyHops(m)

(* The pages' numbers agree, though each is computed by a query of its own.  *)
(* The overview, the home page and the administrator see one balance; every *)
(* entry of the overview is a completed hop the member made or fulfilled;   *)
(* the badge by the balance agrees with the form for a new hop.             *)
BalancesAgree ==
  \A m \in Members :
    /\ BalanceAfterAll(m) = Balance(m) /\ AdminBalance(m) = Balance(m)
    /\ Cardinality(BalanceEntries(m)) =
         HopsFulfilled(m) + Cardinality(RecentCompletedHops \cap ListRequestedHops(m))
    /\ BalanceEntries(m) # {} => m \in Participated
    /\ BalanceState(Balance(m), policy) = "maxed" <=> "offer" \notin KindsOffered(m)
    /\ BalanceState(Balance(m), policy) = "minimum" => KindsOffered(m) = {"offer"}

(* Hops neither make nor lose hours; the hours exchanged are those the      *)
(* completed hops show.                                                     *)
HoursAgree ==
  /\ MapThenSumSet(Balance, Members) = MapThenSumSet(LAMBDA m : adjusted[m], Members)
  /\ TotalHoursExchanged = MapThenSumSet(LAMBDA h : awarded[h], RecentCompletedHops)

(* Both rings of a page show one total; hours were exchanged only where a   *)
(* hop was completed; every member either took part or never did.           *)
OverviewsAgree ==
  LET overview == AdminAppOverview
      metrics == OrganizationHopMetricsDetail
  IN /\ \A page \in {overview, metrics} :
          /\ adminTotalHopCount(page.HopsByStatus) = overview.TopOrgByHopsCreated
          /\ adminHopMetricTotalValueForKinds(page.HopsByKind) = overview.TopOrgByHopsCreated
          /\ PendingCount = page.HopsByStatus["open"] + page.HopsByStatus["accepted"]
          /\ page.TotalHoursExchanged > 0 => CompletedCount > 0
     /\ metrics.ParticipatedUsers = Cardinality(organizationTopParticipants)
     /\ metrics.ParticipatedUsers + metrics.NeverParticipatedUsers = overview.TopOrgByUsers.total

(* What the members' views of their hops call for attention adds up to the  *)
(* organization's pending hops and offers; every offer is counted with a    *)
(* hop, and every hop with its creator.                                     *)
ViewsAgree ==
  /\ HighlightsOf("created") = PendingCount
  /\ HighlightsOf("matched") = CountOf("accepted")
  /\ HighlightsOf("interested") =
       MapThenSumSet(LAMBDA h : Cardinality(ListPendingHopOffers(h, creator[h])), Rows)
  /\ MapThenSumSet(HopsMade, Members) = Cardinality(Rows)
  /\ MapThenSumSet(LAMBDA s : averageOffersPerHopStatus(s).offers, Statuses)
       = Cardinality(OffersOn(Hops))

(* The message after a completion names a limit that cut the hours, when    *)
(* one did and only then.                                                   *)
MessagesAgree ==
  \A h \in RecentAcceptedHops, hours \in FinalHours \cup Estimates :
    LET payer == Balance(Payer(h))
        earner == Balance(Earner(h))
        given == Allowed(hours, payer, earner, policy)
        said == CompletionMessage(hours, payer, earner, policy)
    IN /\ said = "completed" <=> given = hours
       /\ said = "minimum" => payer - given = policy.min
       /\ said = "maximum" => earner + given = policy.max

(* All of it together is what a member can rely on who compares two pages.  *)
NumbersAgree ==
  BalancesAgree /\ HoursAgree /\ OverviewsAgree /\ ViewsAgree /\ MessagesAgree
=============================================================================
