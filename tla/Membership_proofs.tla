-------------------------- MODULE Membership_proofs --------------------------
(***************************************************************************)
(* Theorems about who belongs to an organization, for any number of        *)
(* accounts, requests, invitations and requests served at a time.  A       *)
(* handler relies on what it read under its locks: HandlerInv says what    *)
(* that is, Frame what a step leaves to the handlers that do not take it.  *)
(***************************************************************************)
EXTENDS Membership, FiniteSetTheorems, TLAPS

RoleOps == Departures \cup {"promote"}

MembershipRow(p) == <<"membership", p>>
RequestRow(r) == <<"request", r>>
InviteRow(i) == <<"invite", i>>
AccountRow(p) == <<"account", p>>

(* Of a deleted organization no row is left, and none is added; a request   *)
(* is a member's, and an invitation somebody's.                             *)
Data ==
  /\ org = "gone" => /\ \A r \in Requests : request[r].status = "none"
                     /\ \A i \in Invites : invite[i].status = "none"
  /\ \A r \in Requests : request[r].status # "none" => request[r].member \in People
  /\ \A i \in Invites : /\ invite[i].status # "none" => invite[i].email \in People
                        /\ invite[i].status = "none" => ~invite[i].sent

(* A departure, a demotion or a deletion of an owner has counted another.   *)
(* The member whose role changes stays one until then: the row is locked.   *)
Changing(h) ==
  LET t == handler[h] IN
  /\ t.op \in RoleOps \cup {"delete"} => t.whom \in People
  /\ t.op \in RoleOps /\ t.step = 1 =>
       /\ t.held = {MembershipRow(t.whom)} /\ IsActive(t.whom)
       /\ t.op \in Departures /\ t.had => t.count > 1
  /\ t.op = "delete" => t.held = {AccountRow(t.whom)} /\ (t.had => t.count > 1)

(* The request a decision is about is that of the person it lets in, and    *)
(* is undecided as long as the approval holds it.                           *)
Deciding(h) ==
  LET t == handler[h] IN
  /\ t.op = "ask" => t.by \in People
  /\ t.op \in {"approve", "deny"} =>
       /\ t.id \in Requests /\ t.whom \in People
       /\ org # "gone" => request[t.id].status # "none" /\ request[t.id].member = t.whom
  /\ t.op = "approve" /\ t.step > 0 =>
       t.held = {RequestRow(t.id)} /\ request[t.id].status = "pending"

(* The same of an invitation and its addressee. *)
Accepting(h) ==
  LET t == handler[h] IN
  /\ t.op = "accept" =>
       /\ t.id \in Invites /\ t.whom \in People
       /\ org # "gone" => invite[t.id].status # "none" /\ invite[t.id].email = t.whom
  /\ t.op = "accept" /\ t.step > 0 =>
       t.held = {InviteRow(t.id), OrgRow} /\ invite[t.id].status = "pending"

(* An owner's list is at an address only while invitations are left.        *)
Issuing(h) ==
  LET t == handler[h] IN
  t.op = "issue" =>
    /\ t.held = {} /\ t.count <= DailyLimit
    /\ t.step > 0 => t.count > 0 /\ t.whom \in People
    /\ t.step > 1 => t.id \in Invites

HandlerInv(h) == Changing(h) /\ Deciding(h) /\ Accepting(h) /\ Issuing(h)

(* The invitations that count towards the limit, and those that the         *)
(* requests under way may still add: one pair for each.                     *)
Sent == {i \in Invites : invite[i].sent}
Slots == {u \in Handlers \X (1..DailyLimit) :
            handler[u[1]].op = "issue" /\ u[2] <= handler[u[1]].count}

SlotsSuffice == Cardinality(Sent) + Cardinality(Slots) <= DailyLimit * Cardinality(Handlers)

MInv ==
  /\ TypeOK /\ Data
  /\ \A h \in Handlers : HandlerInv(h)
  /\ SlotsSuffice

TablesOK ==
  /\ org \in {"enabled", "disabled", "gone"}
  /\ membership \in [People -> {"none", "left"} \cup Active]
  /\ grants \in [People -> Nat]
  /\ request \in [Requests -> [status : {"none", "pending", "approved", "rejected"},
                               member : People \cup {Nobody}]]
  /\ invite \in [Invites -> [status : {"none", "pending", "accepted", "expired"},
                             email : People \cup {Nobody}, sent : BOOLEAN]]
  /\ mailed \subseteq Invites /\ overdue \subseteq Invites /\ deleted \subseteq People

HandlersOK ==
  /\ handler \in [Handlers -> Handling]
  /\ \A g, h \in Handlers : g # h => handler[g].held \cap handler[h].held = {}

LEMMA TypeParts == (TypeOK <=> TablesOK /\ HandlersOK) /\ (TypeOK' <=> TablesOK' /\ HandlersOK')
  BY DEF TypeOK, TablesOK, HandlersOK

(* What a step of the handlers S leaves to the others. *)
HeldOutside(row, S) == \E d \in Handlers \ S : row \in handler[d].held

TablesFrame(S) ==
  /\ org = "gone" => org' = "gone"
  /\ \A p \in People : IsActive(p) /\ HeldOutside(MembershipRow(p), S) => IsActive(p)'
  /\ \A r \in Requests :
       /\ request[r].status = "pending" /\ HeldOutside(RequestRow(r), S) =>
            request'[r] = request[r]
       /\ org' # "gone" /\ request[r].status # "none" =>
            request'[r].status # "none" /\ request'[r].member = request[r].member
  /\ \A i \in Invites :
       /\ invite[i].status = "pending" /\ HeldOutside(InviteRow(i), S) =>
            invite'[i].status = "pending"
       /\ org' # "gone" /\ invite[i].status # "none" =>
            invite'[i].status # "none" /\ invite'[i].email = invite[i].email

Frame(S) == TablesFrame(S) /\ \A d \in Handlers \ S : handler'[d] = handler[d]

(* The action properties, of one step. *)
DecisionsKept ==
  /\ \A r \in Requests :
       request[r].status \in {"approved", "rejected"} => request'[r] = request[r] \/ org' = "gone"
  /\ \A i \in Invites :
       invite[i].status \in {"accepted", "expired"}
         => invite'[i].status = invite[i].status \/ org' = "gone"

JoinsAreDecided ==
  \A p \in People : membership[p] \notin Active /\ membership'[p] \in Active =>
    \/ \E r \in Requests :
         request[r] = [status |-> "pending", member |-> p] /\ request'[r].status = "approved"
    \/ \E i \in PendingInvites(p) : invite'[i].status = "accepted"

OwnersWereCounted ==
  ActiveOwners # {} /\ org' # "gone" /\ {p \in People : membership'[p] = "owner"} = {} =>
    \E h \in Handlers :
      /\ handler[h] # handler'[h]
      /\ handler[h].count > Cardinality(ActiveOwners) \/ ~handler[h].had

StepProps == DecisionsKept /\ JoinsAreDecided /\ OwnersWereCounted

-----------------------------------------------------------------------------
(* Handlers.                                                               *)

LEMMA Fields ==
  ASSUME TypeOK, NEW h \in Handlers
  PROVE  /\ handler[h] \in Handling
         /\ handler[h].op \in Operations /\ handler[h].step \in 0..3
         /\ handler[h].by \in People \cup {Nobody} /\ handler[h].whom \in People \cup {Nobody}
         /\ handler[h].id \in Requests \cup Invites \cup {None}
         /\ handler[h].count \in Nat /\ handler[h].had \in BOOLEAN
         /\ handler[h].held \subseteq Rows /\ handler[h].todo \subseteq People
<1>1. handler[h] \in Handling
  BY DEF TypeOK
<1> QED
  BY <1>1 DEF Handling

LEMMA IdleIsHandling ==
  /\ Idle \in Handling
  /\ Idle.op = "idle" /\ Idle.step = 0 /\ Idle.held = {} /\ Idle.todo = {} /\ Idle.count = 0
  /\ Idle.by = Nobody /\ Idle.whom = Nobody /\ Idle.id = None
  BY DEF Idle, Handling, Operations

(* What a handler has locked no other holds. *)
LEMMA NobodyElseHolds ==
  ASSUME TypeOK, NEW h \in Handlers
  PROVE  /\ Free(h, handler[h].held)
         /\ \A row \in handler[h].held : ~HeldOutside(row, {h})
  BY DEF TypeOK, Free, HeldOutside

LEMMA FreeRows ==
  ASSUME NEW h, NEW rows, Free(h, rows)
  PROVE  \A row \in rows : ~HeldOutside(row, {h})
  BY DEF Free, HeldOutside

(* A handler goes on, with rows that nobody else has locked. *)
LEMMA Moves ==
  ASSUME TypeOK, NEW h \in Handlers, NEW t \in Handling, Free(h, t.held),
         handler' = [handler EXCEPT ![h] = t]
  PROVE  /\ HandlersOK' /\ handler'[h] = t
         /\ \A d \in Handlers \ {h} : handler'[d] = handler[d]
<1>1. /\ handler'[h] = t
      /\ \A d \in Handlers \ {h} : handler'[d] = handler[d]
      /\ handler' \in [Handlers -> Handling]
  BY DEF TypeOK
<1>2. \A g, d \in Handlers : g # d => handler'[g].held \cap handler'[d].held = {}
  BY <1>1 DEF TypeOK, Free
<1> QED
  BY <1>1, <1>2 DEF HandlersOK

LEMMA Stepped ==
  ASSUME NEW t \in Handling, t.step < 3
  PROVE  /\ [t EXCEPT !.step = @ + 1] \in Handling
         /\ [t EXCEPT !.step = @ + 1].held = t.held
  BY DEF Handling

LEMMA Ends ==
  ASSUME TypeOK, NEW h \in Handlers, End(h)
  PROVE  /\ HandlersOK' /\ handler'[h] = Idle
         /\ \A d \in Handlers \ {h} : handler'[d] = handler[d]
  BY Moves, IdleIsHandling DEF End, Free

LEMMA IdleInv ==
  ASSUME NEW h, handler'[h] = Idle
  PROVE  HandlerInv(h)'
  BY IdleIsHandling
  DEF HandlerInv, Changing, Deciding, Accepting, Issuing, RoleOps, Departures

(* No step of another handler undoes what a handler relies on. *)
LEMMA Others ==
  ASSUME TypeOK, NEW S, Frame(S), NEW d \in Handlers \ S, HandlerInv(d)
  PROVE  HandlerInv(d)'
<1> PICK t \in Handling : handler[d] = t /\ handler'[d] = t
  BY Fields DEF Frame, TablesFrame
<1>1. \A row \in t.held : HeldOutside(row, S)
  BY DEF HeldOutside
<1>2. Changing(d)'
  <2>1. t.op \in RoleOps /\ t.step = 1 => IsActive(t.whom)'
    BY <1>1 DEF HandlerInv, Changing, Frame, TablesFrame
  <2> QED
    BY <2>1 DEF HandlerInv, Changing
<1>3. Deciding(d)'
  <2>1. t.op = "approve" /\ t.step > 0 => request'[t.id] = request[t.id]
    BY <1>1 DEF HandlerInv, Deciding, Frame, TablesFrame
  <2>2. t.op \in {"approve", "deny"} /\ org' # "gone" =>
          request'[t.id].status # "none" /\ request'[t.id].member = t.whom
    BY DEF HandlerInv, Deciding, Frame, TablesFrame
  <2> QED
    BY <2>1, <2>2 DEF HandlerInv, Deciding
<1>4. Accepting(d)'
  <2>1. t.op = "accept" /\ t.step > 0 => invite'[t.id].status = "pending"
    BY <1>1 DEF HandlerInv, Accepting, Frame, TablesFrame
  <2>2. t.op = "accept" /\ org' # "gone" =>
          invite'[t.id].status # "none" /\ invite'[t.id].email = t.whom
    BY DEF HandlerInv, Accepting, Frame, TablesFrame
  <2> QED
    BY <2>1, <2>2 DEF HandlerInv, Accepting
<1>5. Issuing(d)'
  BY DEF HandlerInv, Issuing
<1> QED
  BY <1>2, <1>3, <1>4, <1>5 DEF HandlerInv

LEMMA StepKeeps ==
  ASSUME MInv, NEW S \in SUBSET Handlers, Frame(S), TablesOK', HandlersOK', Data', SlotsSuffice',
         \A h \in S : HandlerInv(h)'
  PROVE  MInv'
<1>1. \A d \in Handlers \ S : HandlerInv(d)'
  BY Others DEF MInv
<1> QED
  BY <1>1, TypeParts DEF MInv

-----------------------------------------------------------------------------
(* The invitations of the day.                                             *)

LEMMA Finite ==
  /\ IsFiniteSet(Sent) /\ IsFiniteSet(Slots) /\ IsFiniteSet(Handlers \X (1..DailyLimit))
  /\ Cardinality(Sent) \in Nat /\ Cardinality(Slots) \in Nat
  /\ Cardinality(Handlers) \in Nat
  /\ Cardinality(Handlers \X (1..DailyLimit)) = Cardinality(Handlers) * DailyLimit
<1>1. IsFiniteSet(Handlers) /\ IsFiniteSet(Invites) /\ DailyLimit \in Nat
  BY MembershipAssumption
<1>2. IsFiniteSet(1..DailyLimit) /\ Cardinality(1..DailyLimit) = DailyLimit
  BY <1>1, FS_Interval
<1>3. /\ IsFiniteSet(Handlers \X (1..DailyLimit))
      /\ Cardinality(Handlers \X (1..DailyLimit)) =
           Cardinality(Handlers) * Cardinality(1..DailyLimit)
  BY <1>1, <1>2, FS_Product, Zenon
<1>4. Sent \subseteq Invites /\ Slots \subseteq Handlers \X (1..DailyLimit)
  BY DEF Sent, Slots
<1>5. IsFiniteSet(Sent) /\ IsFiniteSet(Slots)
  BY <1>1, <1>3, <1>4, FS_Subset
<1> QED
  BY <1>1, <1>2, <1>3, <1>5, FS_CardinalityType

(* A step that neither marks an invitation nor begins to issue some. *)
LEMMA NoMoreSlots ==
  ASSUME SlotsSuffice, Sent' \subseteq Sent, Slots' \subseteq Slots
  PROVE  SlotsSuffice'
<1>1. /\ Cardinality(Sent') \in Nat /\ Cardinality(Sent') <= Cardinality(Sent)
      /\ Cardinality(Slots') \in Nat /\ Cardinality(Slots') <= Cardinality(Slots)
  BY Finite, FS_Subset, FS_CardinalityType
<1>2. DailyLimit * Cardinality(Handlers) \in Nat
  BY Finite, MembershipAssumption
<1> QED
  BY <1>1, <1>2, Finite DEF SlotsSuffice

LEMMA FewerSlots ==
  ASSUME TypeOK, NEW h \in Handlers, NEW t \in Handling, handler'[h] = t,
         \A d \in Handlers \ {h} : handler'[d] = handler[d],
         t.op = "issue" => handler[h].op = "issue" /\ t.count <= handler[h].count
  PROVE  Slots' \subseteq Slots
<1>1. t.count \in Nat /\ handler[h].count \in Nat
  BY Fields DEF Handling
<1> QED
  BY <1>1 DEF Slots

LEMMA SlotsNumber ==
  /\ DailyLimit * Cardinality(Handlers) \in Nat
  /\ DailyLimit * Cardinality(Handlers) = Cardinality(Handlers \X (1..DailyLimit))
  BY Finite, MembershipAssumption

LEMMA RemainingIsLeft ==
  /\ RemainingInviteSlots \in 0..DailyLimit
  /\ RemainingInviteSlots > 0 => Cardinality(Sent) + RemainingInviteSlots = DailyLimit
<1>1. CountSuccessfulInvites = Cardinality(Sent)
  BY DEF CountSuccessfulInvites, Sent
<1> QED
  BY <1>1, Finite, MembershipAssumption DEF RemainingInviteSlots

(* A request that begins may add what the limit leaves, the others at most  *)
(* a limit each.                                                            *)
LEMMA SlotsOpened ==
  ASSUME MInv, NEW h \in Handlers, NEW t \in Handling, handler'[h] = t,
         \A d \in Handlers \ {h} : handler'[d] = handler[d],
         handler[h].op # "issue", t.op = "issue", t.count = RemainingInviteSlots,
         Sent' = Sent
  PROVE  SlotsSuffice'
<1> DEFINE All == Handlers \X (1..DailyLimit)
           Own == {h} \X (1..DailyLimit)
           New == {h} \X (1..t.count)
<1>1. t.count \in 0..DailyLimit /\ DailyLimit \in Nat
  BY RemainingIsLeft, MembershipAssumption
<1>2. CASE t.count = 0
  <2>1. Slots' \subseteq Slots
    BY <1>2 DEF Slots
  <2> QED
    BY <2>1, NoMoreSlots DEF MInv
<1>3. CASE t.count > 0
  <2>1. ASSUME NEW n \in Nat
        PROVE  IsFiniteSet({h} \X (1..n)) /\ Cardinality({h} \X (1..n)) = n
    <3>1. IsFiniteSet({h}) /\ Cardinality({h}) = 1
      BY FS_Singleton
    <3>2. IsFiniteSet(1..n) /\ Cardinality(1..n) = n
      BY FS_Interval
    <3>3. /\ IsFiniteSet({h} \X (1..n))
          /\ Cardinality({h} \X (1..n)) = Cardinality({h}) * Cardinality(1..n)
      BY <3>1, <3>2, FS_Product, Zenon
    <3> QED
      BY <3>1, <3>2, <3>3
  <2>2. IsFiniteSet(Own) /\ Cardinality(Own) = DailyLimit
    BY <1>1, <2>1
  <2>3. IsFiniteSet(New) /\ Cardinality(New) = t.count
    BY <1>1, <2>1
  <2>5. Own \subseteq All /\ New \subseteq Own
    BY <1>1
  <2>6. Slots' \subseteq (All \ Own) \cup New
    BY DEF Slots
  <2>7. IsFiniteSet(All) /\ All \cap Own = Own
    BY <2>5, Finite
  <2> HIDE DEF All, Own, New
  <2>8. IsFiniteSet(All \ Own) /\ Cardinality(All \ Own) = Cardinality(All) - Cardinality(Own)
    <3>1. /\ IsFiniteSet(All \ Own)
          /\ Cardinality(All \ Own) = Cardinality(All) - Cardinality(All \cap Own)
      BY <2>7, FS_Difference, Zenon
    <3> QED
      BY <2>7, <3>1
  <2>9. (All \ Own) \cap New = {}
    BY <2>5
  <2>10. /\ IsFiniteSet((All \ Own) \cup New)
         /\ Cardinality((All \ Own) \cup New) =
              Cardinality(All \ Own) + Cardinality(New) - Cardinality((All \ Own) \cap New)
    BY <2>3, <2>8, FS_Union
  <2>11. Cardinality((All \ Own) \cap New) = 0
    BY <2>9, FS_EmptySet
  <2>12. Cardinality(Slots') <= Cardinality((All \ Own) \cup New) /\ Cardinality(Slots') \in Nat
    BY <2>6, <2>10, FS_Subset, FS_CardinalityType
  <2>13. Cardinality(All) \in Nat
    BY <2>7, FS_CardinalityType
  <2>14. Cardinality(Slots') <= Cardinality(All) - DailyLimit + t.count
    BY <1>1, <2>2, <2>3, <2>8, <2>10, <2>11, <2>12, <2>13
  <2>15. Cardinality(Sent) + t.count = DailyLimit /\ Cardinality(Sent) \in Nat
    BY <1>3, RemainingIsLeft, Finite
  <2>16. Cardinality(All) = DailyLimit * Cardinality(Handlers)
    BY SlotsNumber DEF All
  <2> QED
    BY <1>1, <2>12, <2>13, <2>14, <2>15, <2>16, SlotsNumber DEF SlotsSuffice
<1> QED
  BY <1>1, <1>2, <1>3

(* What is marked was still to come. *)
LEMMA SlotUsed ==
  ASSUME MInv, NEW h \in Handlers, NEW t \in Handling, handler'[h] = t,
         \A d \in Handlers \ {h} : handler'[d] = handler[d],
         handler[h].op = "issue", handler[h].count \in 1..DailyLimit,
         t.count = handler[h].count - 1,
         NEW i \in Invites, Sent' \subseteq Sent \cup {i}
  PROVE  SlotsSuffice'
<1> DEFINE u == <<h, handler[h].count>>
<1>1. u \in Slots /\ Slots' \subseteq Slots \ {u}
  <2>1. u \in Slots
    BY DEF Slots
  <2>2. ASSUME NEW v \in Slots'
        PROVE  v \in Slots /\ v # u
    <3>1. /\ v \in Handlers \X (1..DailyLimit)
          /\ handler'[v[1]].op = "issue" /\ v[2] <= handler'[v[1]].count
      BY DEF Slots
    <3>2. CASE v[1] = h
      BY <3>1, <3>2 DEF Slots
    <3>3. CASE v[1] # h
      BY <3>1, <3>3 DEF Slots
    <3> QED
      BY <3>2, <3>3
  <2> QED
    BY <2>1, <2>2
<1> HIDE DEF u
<1>2. IsFiniteSet(Slots \ {u}) /\ Cardinality(Slots \ {u}) = Cardinality(Slots) - 1
  BY <1>1, Finite, FS_RemoveElement
<1>3. Cardinality(Slots') <= Cardinality(Slots) - 1 /\ Cardinality(Slots') \in Nat
  BY <1>1, <1>2, FS_Subset, FS_CardinalityType
<1>4. IsFiniteSet(Sent \cup {i}) /\ Cardinality(Sent \cup {i}) <= Cardinality(Sent) + 1
  <2>1. /\ IsFiniteSet(Sent \cup {i})
        /\ Cardinality(Sent \cup {i}) =
             IF i \in Sent THEN Cardinality(Sent) ELSE Cardinality(Sent) + 1
    BY Finite, FS_AddElement, Zenon
  <2> QED
    BY <2>1, Finite
<1>5. Cardinality(Sent') <= Cardinality(Sent) + 1 /\ Cardinality(Sent') \in Nat
  <2>1. Cardinality(Sent') <= Cardinality(Sent \cup {i})
    BY <1>4, FS_Subset
  <2>2. Cardinality(Sent') \in Nat /\ Cardinality(Sent \cup {i}) \in Nat
    BY <1>4, FS_Subset, FS_CardinalityType
  <2> QED
    BY <1>4, <2>1, <2>2, Finite
<1> QED
  BY <1>3, <1>5, Finite, SlotsNumber DEF MInv, SlotsSuffice

-----------------------------------------------------------------------------
(* Steps that write no table.                                              *)

LEMMA TablesUntouched ==
  ASSUME MInv, UNCHANGED tables, NEW S, \A d \in Handlers \ S : handler'[d] = handler[d]
  PROVE  /\ TablesOK' /\ Data' /\ Frame(S) /\ StepProps /\ Sent' = Sent
<1> USE DEF tables
<1>1. TablesOK' /\ Data'
  BY TypeParts DEF MInv, TablesOK, Data
<1>2. Frame(S)
  BY DEF Frame, TablesFrame, IsActive
<1>3. StepProps
  BY DEF StepProps, DecisionsKept, JoinsAreDecided, OwnersWereCounted, ActiveOwners
<1> QED
  BY <1>1, <1>2, <1>3 DEF Sent

(* It leaves the others alone; h itself has to be looked at. *)
LEMMA ReadKeeps ==
  ASSUME MInv, NEW h \in Handlers, NEW t \in Handling, Free(h, t.held),
         handler' = [handler EXCEPT ![h] = t], UNCHANGED tables, HandlerInv(h)',
         t.op = "issue" => handler[h].op = "issue" /\ t.count <= handler[h].count
  PROVE  MInv' /\ StepProps
<1>1. /\ HandlersOK' /\ handler'[h] = t
      /\ \A d \in Handlers \ {h} : handler'[d] = handler[d]
  BY Moves DEF MInv
<1>2. TablesOK' /\ Data' /\ Frame({h}) /\ StepProps /\ Sent' = Sent
  BY <1>1, TablesUntouched
<1>3. SlotsSuffice'
  BY <1>1, <1>2, FewerSlots, NoMoreSlots DEF MInv
<1> QED
  BY <1>1, <1>2, <1>3, StepKeeps

LEMMA GiveUpKeeps ==
  ASSUME MInv, NEW h \in Handlers, GiveUp(h)
  PROVE  MInv' /\ StepProps
<1>1. handler' = [handler EXCEPT ![h] = Idle] /\ UNCHANGED tables
  BY DEF GiveUp, End
<1>2. handler'[h] = Idle /\ Free(h, Idle.held)
  BY <1>1, IdleIsHandling DEF MInv, TypeOK, Free
<1> QED
  BY <1>1, <1>2, IdleInv, IdleIsHandling, ReadKeeps

-----------------------------------------------------------------------------
(* Handlers that begin.                                                    *)

LEMMA BeginKeeps ==
  ASSUME MInv, NEW h \in Handlers, NEW t \in Handling, Start(h, t), Free(h, t.held),
         t.op # "issue",
         handler'[h] = t /\ UNCHANGED tables => HandlerInv(h)'
  PROVE  MInv' /\ StepProps
<1>1. handler' = [handler EXCEPT ![h] = t] /\ UNCHANGED tables
  BY DEF Start
<1>2. handler'[h] = t
  BY <1>1 DEF MInv, TypeOK
<1> QED
  BY <1>1, <1>2, ReadKeeps

LEMMA NoRowsAreFree == \A h : Free(h, {})
  BY DEF Free

LEMMA RoleChangeBegins ==
  ASSUME MInv, NEW h \in Handlers, NEW op \in RoleOps, NEW by \in People, NEW whom \in People,
         Change(h, op, by, whom)
  PROVE  MInv' /\ StepProps
<1> DEFINE t == [Idle EXCEPT !.op = op, !.by = by, !.whom = whom]
<1>1. t \in Handling
  BY IdleIsHandling DEF Handling, Operations, RoleOps, Departures
<1>2. t.op = op /\ t.step = 0 /\ t.whom = whom /\ t.held = {}
  BY DEF Idle
<1>3. Start(h, t)
  BY DEF Change
<1> HIDE DEF t
<1>4. handler'[h] = t => HandlerInv(h)'
  BY <1>2 DEF HandlerInv, Changing, Deciding, Accepting, Issuing, RoleOps, Departures
<1> QED
  BY <1>1, <1>2, <1>3, <1>4, NoRowsAreFree, BeginKeeps DEF RoleOps, Departures

LEMMA DeleteBegins ==
  ASSUME MInv, NEW h \in Handlers, NEW whom \in People, BeginDelete(h, whom)
  PROVE  MInv' /\ StepProps
<1> DEFINE row == {<<"account", whom>>}
           count == Cardinality(ActiveOwners)
           had == membership[whom] = "owner"
           t == [Idle EXCEPT !.op = "delete", !.step = 1, !.whom = whom, !.held = row,
                             !.count = count, !.had = had]
<1>1. IsFiniteSet(ActiveOwners) /\ count \in Nat
  <2>1. ActiveOwners \subseteq People
    BY DEF ActiveOwners
  <2> QED
    BY <2>1, MembershipAssumption, FS_Subset, FS_CardinalityType
<1>2. had => count > 1
  <2> SUFFICES ASSUME had PROVE count > 1
    OBVIOUS
  <2>1. whom \in ActiveOwners /\ ActiveOwners # {whom}
    BY DEF BeginDelete, ActiveOwners
  <2>2. count # 0
    BY <1>1, <2>1, FS_EmptySet
  <2>3. count # 1
    BY <1>1, <2>1, FS_Singleton
  <2> QED
    BY <1>1, <2>2, <2>3
<1>3. row \subseteq Rows /\ had \in BOOLEAN
  BY DEF Rows, AccountRows
<1>4. Start(h, t) /\ Free(h, row)
  BY DEF BeginDelete
<1> HIDE DEF row, count, had
<1>5. t \in Handling
  <2>1. "delete" \in Operations /\ 1 \in 0..3
    BY DEF Operations
  <2> QED
    BY <1>1, <1>3, <2>1, IdleIsHandling DEF Handling
<1>6. t.op = "delete" /\ t.step = 1 /\ t.whom = whom /\ t.held = row /\ (t.had <=> had)
      /\ t.count = count
  BY DEF Idle
<1> HIDE DEF t
<1>7. handler'[h] = t => HandlerInv(h)'
  BY <1>2, <1>6
  DEF HandlerInv, Changing, Deciding, Accepting, Issuing, RoleOps, Departures, AccountRow, row
<1> QED
  BY <1>4, <1>5, <1>6, <1>7, BeginKeeps

LEMMA RequestBegins ==
  ASSUME MInv, NEW h \in Handlers, NEW p \in People, BeginRequest(h, p)
  PROVE  MInv' /\ StepProps
<1> DEFINE t == [Idle EXCEPT !.op = "ask", !.by = p]
<1>1. t \in Handling
  BY IdleIsHandling DEF Handling, Operations
<1>2. t.op = "ask" /\ t.by = p /\ t.held = {}
  BY DEF Idle
<1>3. Start(h, t)
  BY DEF BeginRequest
<1> HIDE DEF t
<1>4. handler'[h] = t => HandlerInv(h)'
  BY <1>2 DEF HandlerInv, Changing, Deciding, Accepting, Issuing, RoleOps, Departures
<1> QED
  BY <1>1, <1>2, <1>3, <1>4, NoRowsAreFree, BeginKeeps

LEMMA DecisionBegins ==
  ASSUME MInv, NEW h \in Handlers, NEW op \in {"approve", "deny"}, NEW by \in People,
         NEW r \in Requests, BeginDecision(h, op, by, r)
  PROVE  MInv' /\ StepProps
<1> DEFINE p == request[r].member
           t == [Idle EXCEPT !.op = op, !.by = by, !.whom = p, !.id = r]
<1>1. p \in People /\ request[r].status = "pending" /\ Start(h, t)
  BY DEF BeginDecision, MInv, Data
<1> HIDE DEF p
<1>2. t \in Handling
  BY <1>1, IdleIsHandling DEF Handling, Operations
<1>3. t.op = op /\ t.step = 0 /\ t.whom = p /\ t.id = r /\ t.held = {}
  BY DEF Idle
<1> HIDE DEF t
<1>4. handler'[h] = t /\ UNCHANGED tables => HandlerInv(h)'
  BY <1>1, <1>3
  DEF HandlerInv, Changing, Deciding, Accepting, Issuing, RoleOps, Departures, tables, p
<1> QED
  BY <1>1, <1>2, <1>3, <1>4, NoRowsAreFree, BeginKeeps

LEMMA AcceptBegins ==
  ASSUME MInv, NEW h \in Handlers, NEW i \in Invites, BeginAccept(h, i)
  PROVE  MInv' /\ StepProps
<1> DEFINE p == invite[i].email
           t == [Idle EXCEPT !.op = "accept", !.by = p, !.whom = p, !.id = i]
<1>1. p \in People /\ invite[i].status # "none" /\ Start(h, t)
  BY DEF BeginAccept, Resolves
<1> HIDE DEF p
<1>2. t \in Handling
  BY <1>1, IdleIsHandling DEF Handling, Operations
<1>3. t.op = "accept" /\ t.step = 0 /\ t.whom = p /\ t.id = i /\ t.held = {}
  BY DEF Idle
<1> HIDE DEF t
<1>4. handler'[h] = t /\ UNCHANGED tables => HandlerInv(h)'
  BY <1>1, <1>3
  DEF HandlerInv, Changing, Deciding, Accepting, Issuing, RoleOps, Departures, tables, p
<1> QED
  BY <1>1, <1>2, <1>3, <1>4, NoRowsAreFree, BeginKeeps

LEMMA IssueBegins ==
  ASSUME MInv, NEW h \in Handlers, NEW by \in People, NEW emails \in SUBSET People,
         BeginIssue(h, by, emails)
  PROVE  MInv' /\ StepProps
<1> DEFINE count == RemainingInviteSlots
           t == [Idle EXCEPT !.op = "issue", !.by = by, !.todo = emails, !.count = count]
<1>1. count \in 0..DailyLimit /\ DailyLimit \in Nat
  BY RemainingIsLeft, MembershipAssumption
<1>2. handler[h] = Idle /\ handler' = [handler EXCEPT ![h] = t] /\ UNCHANGED tables
  BY DEF BeginIssue, Start
<1> HIDE DEF count
<1>3. t \in Handling
  <2>1. "issue" \in Operations /\ count \in Nat
    BY <1>1 DEF Operations
  <2> QED
    BY <2>1, IdleIsHandling DEF Handling
<1>4. t.op = "issue" /\ t.step = 0 /\ t.count = count /\ t.held = {}
  BY DEF Idle
<1> HIDE DEF t
<1>5. /\ HandlersOK' /\ handler'[h] = t
      /\ \A d \in Handlers \ {h} : handler'[d] = handler[d]
  <2>1. Free(h, t.held) /\ TypeOK
    BY <1>4, NoRowsAreFree DEF MInv
  <2> QED
    BY <1>2, <1>3, <2>1, Moves
<1>6. HandlerInv(h)'
  BY <1>1, <1>4, <1>5
  DEF HandlerInv, Changing, Deciding, Accepting, Issuing, RoleOps, Departures
<1>7. TablesOK' /\ Data' /\ Frame({h}) /\ StepProps /\ Sent' = Sent
  BY <1>2, <1>5, TablesUntouched
<1>8. SlotsSuffice'
  BY <1>2, <1>3, <1>4, <1>5, <1>7, IdleIsHandling, SlotsOpened DEF count
<1> QED
  BY <1>5, <1>6, <1>7, <1>8, StepKeeps

-----------------------------------------------------------------------------
(* Handlers that lock and read.                                            *)

LEMMA LockAndCountKeeps ==
  ASSUME MInv, NEW h \in Handlers, LockAndCount(h)
  PROVE  MInv' /\ StepProps
<1> PICK t \in Handling : handler[h] = t
  BY Fields DEF MInv
<1> DEFINE row == {<<"membership", t.whom>>}
           count == Cardinality(ActiveOwners)
           had == membership[t.whom] = "owner"
           u == [t EXCEPT !.held = row, !.count = count, !.had = had]
           v == [u EXCEPT !.step = u.step + 1]
<1>1. /\ t.op \in RoleOps /\ t.step = 0 /\ IsActive(t.whom) /\ Free(h, row)
      /\ handler' = [handler EXCEPT ![h] = v] /\ UNCHANGED tables
      /\ LosesOwner(t) => count > 1
  BY DEF LockAndCount, At, Go, RoleOps
<1>2. t.whom \in People
  BY <1>1 DEF MInv, HandlerInv, Changing
<1>3. count \in Nat
  <2>1. ActiveOwners \subseteq People
    BY DEF ActiveOwners
  <2> QED
    BY <2>1, MembershipAssumption, FS_Subset, FS_CardinalityType
<1>4. t.op \in Departures /\ had => count > 1
  BY <1>1 DEF LosesOwner, Departures
<1>5. row \subseteq Rows /\ had \in BOOLEAN
  BY <1>2 DEF Rows, MembershipRows
<1> HIDE DEF row, count, had
<1>6. u \in Handling
  BY <1>3, <1>5 DEF Handling
<1>7. u.step = 0 /\ u.op = t.op /\ u.whom = t.whom /\ u.held = row /\ u.count = count
      /\ (u.had <=> had)
  BY <1>1 DEF Handling
<1> HIDE DEF u
<1>8. v \in Handling /\ v.step = 1 /\ v.op = t.op /\ v.whom = t.whom /\ v.held = row
      /\ v.count = count /\ (v.had <=> had)
  BY <1>6, <1>7 DEF Handling
<1> HIDE DEF v
<1>9. handler'[h] = v
  BY <1>1 DEF MInv, TypeOK
<1>10. HandlerInv(h)'
  BY <1>1, <1>2, <1>4, <1>8, <1>9
  DEF HandlerInv, Changing, Deciding, Accepting, Issuing, RoleOps, Departures, tables, IsActive,
      MembershipRow, row
<1>11. v.op # "issue"
  BY <1>1, <1>8 DEF RoleOps, Departures
<1> QED
  BY <1>1, <1>8, <1>10, <1>11, ReadKeeps

LEMMA LockRequestKeeps ==
  ASSUME MInv, NEW h \in Handlers, LockRequest(h)
  PROVE  MInv' /\ StepProps
<1> PICK t \in Handling : handler[h] = t
  BY Fields DEF MInv
<1> DEFINE row == {<<"request", t.id>>}
           had == membership[t.whom] # "none"
           u == [t EXCEPT !.held = row, !.had = had]
           v == [u EXCEPT !.step = u.step + 1]
<1>1. /\ t.op = "approve" /\ t.step = 0 /\ request[t.id].status = "pending" /\ Free(h, row)
      /\ handler' = [handler EXCEPT ![h] = v] /\ UNCHANGED tables
  BY DEF LockRequest, At, Go
<1>2. /\ t.id \in Requests /\ t.whom \in People
      /\ org # "gone" => request[t.id].status # "none" /\ request[t.id].member = t.whom
  BY <1>1 DEF MInv, HandlerInv, Deciding
<1>3. row \subseteq Rows /\ had \in BOOLEAN
  BY <1>2 DEF Rows, RequestRows
<1> HIDE DEF row, had
<1>4. u \in Handling /\ u.step = 0 /\ u.op = t.op /\ u.whom = t.whom /\ u.id = t.id /\ u.held = row
  BY <1>1, <1>3 DEF Handling
<1> HIDE DEF u
<1>5. v \in Handling /\ v.op = t.op /\ v.whom = t.whom /\ v.id = t.id /\ v.held = row
  BY <1>4 DEF Handling
<1> HIDE DEF v
<1>6. handler'[h] = v
  BY <1>1 DEF MInv, TypeOK
<1>7. HandlerInv(h)'
  BY <1>1, <1>2, <1>5, <1>6
  DEF HandlerInv, Changing, Deciding, Accepting, Issuing, RoleOps, Departures, tables, RequestRow,
      row
<1> QED
  BY <1>1, <1>5, <1>7, ReadKeeps

LEMMA LockInvitationKeeps ==
  ASSUME MInv, NEW h \in Handlers, LockInvitation(h)
  PROVE  MInv' /\ StepProps
<1> PICK t \in Handling : handler[h] = t
  BY Fields DEF MInv
<1> DEFINE rows == {<<"invite", t.id>>, OrgRow}
           had == membership[t.whom] # "none"
           u == [t EXCEPT !.held = rows, !.had = had]
           v == [u EXCEPT !.step = u.step + 1]
<1>1. /\ t.op = "accept" /\ t.step = 0 /\ invite[t.id].status = "pending" /\ Free(h, rows)
      /\ handler' = [handler EXCEPT ![h] = v] /\ UNCHANGED tables
  BY DEF LockInvitation, At, Go
<1>2. /\ t.id \in Invites /\ t.whom \in People
      /\ org # "gone" => invite[t.id].status # "none" /\ invite[t.id].email = t.whom
  BY <1>1 DEF MInv, HandlerInv, Accepting
<1>3. rows \subseteq Rows /\ had \in BOOLEAN
  BY <1>2 DEF Rows, InviteRows
<1> HIDE DEF rows, had
<1>4. u \in Handling /\ u.step = 0 /\ u.op = t.op /\ u.whom = t.whom /\ u.id = t.id
      /\ u.held = rows
  BY <1>1, <1>3 DEF Handling
<1> HIDE DEF u
<1>5. v \in Handling /\ v.op = t.op /\ v.whom = t.whom /\ v.id = t.id /\ v.held = rows
  BY <1>4 DEF Handling
<1> HIDE DEF v
<1>6. handler'[h] = v
  BY <1>1 DEF MInv, TypeOK
<1>7. HandlerInv(h)'
  BY <1>1, <1>2, <1>5, <1>6
  DEF HandlerInv, Changing, Deciding, Accepting, Issuing, RoleOps, Departures, tables, InviteRow,
      rows
<1> QED
  BY <1>1, <1>5, <1>7, ReadKeeps

LEMMA ReadActiveKeeps ==
  ASSUME MInv, NEW h \in Handlers, ReadActive(h)
  PROVE  MInv' /\ StepProps
<1> PICK t \in Handling : handler[h] = t
  BY Fields DEF MInv
<1> DEFINE exists == IsActive(t.whom)
           u == [t EXCEPT !.exists = exists]
           v == [u EXCEPT !.step = u.step + 1]
<1>1. /\ t.op \in {"approve", "accept"} /\ t.step = 1
      /\ handler' = [handler EXCEPT ![h] = v] /\ UNCHANGED tables
  BY DEF ReadActive, At, Go
<1>2. HandlerInv(h)
  BY DEF MInv
<1>3. exists \in BOOLEAN
  BY DEF IsActive
<1> HIDE DEF exists
<1>4. u \in Handling /\ u.step = 1 /\ u.op = t.op /\ u.whom = t.whom /\ u.id = t.id
      /\ u.held = t.held
  BY <1>1, <1>3 DEF Handling
<1> HIDE DEF u
<1>5. v \in Handling /\ v.op = t.op /\ v.whom = t.whom /\ v.id = t.id /\ v.held = t.held
      /\ v.step = 2
  BY <1>4 DEF Handling
<1> HIDE DEF v
<1>6. handler'[h] = v
  BY <1>1 DEF MInv, TypeOK
<1>7. HandlerInv(h)'
  BY <1>1, <1>2, <1>5, <1>6
  DEF HandlerInv, Changing, Deciding, Accepting, Issuing, RoleOps, Departures, tables
<1>8. Free(h, v.held)
  BY <1>5, NobodyElseHolds DEF MInv
<1> QED
  BY <1>1, <1>5, <1>7, <1>8, ReadKeeps

-----------------------------------------------------------------------------
(* Roles and departures: the writes.                                       *)

(* A handler that commits and is done. *)
LEMMA CommitKeeps ==
  ASSUME MInv, NEW h \in Handlers, End(h), TablesFrame({h}), TablesOK', Data', Sent' \subseteq Sent
  PROVE  MInv'
<1>1. /\ HandlersOK' /\ handler'[h] = Idle
      /\ \A d \in Handlers \ {h} : handler'[d] = handler[d]
  BY Ends DEF MInv
<1>2. Slots' \subseteq Slots
  BY <1>1, FewerSlots, IdleIsHandling DEF MInv
<1>3. SlotsSuffice' /\ HandlerInv(h)'
  BY <1>1, <1>2, NoMoreSlots, IdleInv DEF MInv
<1>4. Frame({h})
  BY <1>1 DEF Frame
<1> QED
  BY <1>1, <1>3, <1>4, StepKeeps

LEMMA ChangeKeeps ==
  ASSUME MInv, NEW h \in Handlers, WriteChange(h)
  PROVE  MInv' /\ StepProps
<1> PICK t \in Handling : handler[h] = t
  BY Fields DEF MInv
<1> DEFINE role == NewRole(t.op)
<1>1. /\ t.op \in RoleOps /\ t.step = 1 /\ End(h)
      /\ membership' = [membership EXCEPT ![t.whom] = role]
      /\ UNCHANGED <<org, grants, request, invite, mailed, overdue, deleted>>
  BY DEF WriteChange, At, RoleOps
<1>2. /\ t.whom \in People /\ t.held = {MembershipRow(t.whom)} /\ IsActive(t.whom)
      /\ t.op \in Departures /\ t.had => t.count > 1
  BY <1>1 DEF MInv, HandlerInv, Changing
<1>3. ~HeldOutside(MembershipRow(t.whom), {h})
  BY <1>2, NobodyElseHolds DEF MInv
<1>4. role \in {"owner", "member", "left"} /\ (t.op = "promote" => role = "owner")
  BY DEF NewRole
<1> HIDE DEF role
<1> USE DEF MInv, TypeOK, TablesOK
<1>5. TablesOK'
  BY <1>1, <1>2, <1>4 DEF Active
<1>6. Data' /\ Sent' = Sent
  BY <1>1 DEF Data, Sent
<1>7. TablesFrame({h})
  BY <1>1, <1>2, <1>3 DEF TablesFrame, IsActive
<1>8. DecisionsKept
  BY <1>1 DEF DecisionsKept
<1>9. JoinsAreDecided
  BY <1>1, <1>2 DEF JoinsAreDecided, IsActive
<1>10. OwnersWereCounted
  <2> SUFFICES ASSUME ActiveOwners # {}, {p \in People : membership'[p] = "owner"} = {}
               PROVE  /\ handler[h] # handler'[h]
                      /\ t.count > Cardinality(ActiveOwners) \/ ~t.had
    BY DEF OwnersWereCounted
  <2>1. t.op # "promote" /\ ActiveOwners = {t.whom}
    BY <1>1, <1>2, <1>4 DEF ActiveOwners
  <2>2. Cardinality(ActiveOwners) = 1
    BY <2>1, FS_Singleton
  <2>3. t.op \in Departures
    BY <1>1, <2>1 DEF RoleOps
  <2>4. handler[h] # handler'[h]
    BY <1>1, Ends, IdleIsHandling
  <2> QED
    BY <1>2, <2>2, <2>3, <2>4
<1>11. handler[h] # Idle
  BY <1>1, IdleIsHandling
<1> QED
  BY <1>1, <1>5, <1>6, <1>7, <1>8, <1>9, <1>10, <1>11, CommitKeeps DEF StepProps

LEMMA DeleteKeeps ==
  ASSUME MInv, NEW h \in Handlers, WriteDelete(h)
  PROVE  MInv' /\ StepProps
<1> PICK t \in Handling : handler[h] = t
  BY Fields DEF MInv
<1> DEFINE role == IF IsActive(t.whom) THEN "left" ELSE membership[t.whom]
<1>1. /\ t.op = "delete" /\ t.step = 1 /\ End(h) /\ Free(h, {MembershipRow(t.whom)})
      /\ membership' = [membership EXCEPT ![t.whom] = role]
      /\ deleted' = deleted \cup {t.whom}
      /\ UNCHANGED <<org, grants, request, invite, mailed, overdue>>
  BY DEF WriteDelete, At, MembershipRow
<1>2. t.whom \in People /\ (t.had => t.count > 1)
  BY <1>1 DEF MInv, HandlerInv, Changing
<1>3. ~HeldOutside(MembershipRow(t.whom), {h})
  BY <1>1, FreeRows
<1>4. role \in {"none", "left"}
  BY <1>2 DEF IsActive, MInv, TypeOK
<1> HIDE DEF role
<1> USE DEF MInv, TypeOK, TablesOK
<1>5. TablesOK'
  BY <1>1, <1>2, <1>4
<1>6. Data' /\ Sent' = Sent
  BY <1>1 DEF Data, Sent
<1>7. TablesFrame({h})
  BY <1>1, <1>2, <1>3 DEF TablesFrame, IsActive
<1>8. DecisionsKept
  BY <1>1 DEF DecisionsKept
<1>9. JoinsAreDecided
  BY <1>1, <1>2, <1>4 DEF JoinsAreDecided, Active
<1>10. OwnersWereCounted
  <2> SUFFICES ASSUME ActiveOwners # {}, {p \in People : membership'[p] = "owner"} = {}
               PROVE  /\ handler[h] # handler'[h]
                      /\ t.count > Cardinality(ActiveOwners) \/ ~t.had
    BY DEF OwnersWereCounted
  <2>1. ActiveOwners = {t.whom}
    BY <1>1, <1>2, <1>4 DEF ActiveOwners
  <2>2. Cardinality(ActiveOwners) = 1
    BY <2>1, FS_Singleton
  <2>3. handler[h] # handler'[h]
    BY <1>1, Ends, IdleIsHandling
  <2> QED
    BY <1>2, <2>2, <2>3
<1>11. handler[h] # Idle
  BY <1>1, IdleIsHandling
<1> QED
  BY <1>1, <1>5, <1>6, <1>7, <1>8, <1>9, <1>10, <1>11, CommitKeeps DEF StepProps

-----------------------------------------------------------------------------
(* Requests: the writes.                                                   *)

LEMMA InsertRequestKeeps ==
  ASSUME MInv, NEW h \in Handlers, NEW r \in Requests, InsertRequest(h, r)
  PROVE  MInv' /\ StepProps
<1> PICK t \in Handling : handler[h] = t
  BY Fields DEF MInv
<1>1. /\ t.op = "ask" /\ org # "gone" /\ request[r].status = "none" /\ End(h)
      /\ request' = [request EXCEPT ![r] = [status |-> "pending", member |-> t.by]]
      /\ UNCHANGED <<org, membership, grants, invite, mailed, overdue, deleted>>
  BY DEF InsertRequest, At
<1>2. t.by \in People
  BY <1>1 DEF MInv, HandlerInv, Deciding
<1> USE DEF MInv, TypeOK, TablesOK
<1>3. /\ request'[r].status = "pending" /\ request'[r].member = t.by
      /\ \A q \in Requests : q # r => request'[q] = request[q]
  BY <1>1
<1>4. TablesOK'
  BY <1>1, <1>2
<1>5. Data' /\ Sent' = Sent
  BY <1>1, <1>2, <1>3 DEF Data, Sent
<1>6. TablesFrame({h})
  BY <1>1, <1>3 DEF TablesFrame, IsActive
<1>7. StepProps
  BY <1>1, <1>3
  DEF StepProps, DecisionsKept, JoinsAreDecided, OwnersWereCounted, ActiveOwners
<1>8. handler[h] # Idle
  BY <1>1, IdleIsHandling
<1> QED
  BY <1>1, <1>4, <1>5, <1>6, <1>7, <1>8, CommitKeeps

LEMMA DenialKeeps ==
  ASSUME MInv, NEW h \in Handlers, WriteDenial(h)
  PROVE  MInv' /\ StepProps
<1> PICK t \in Handling : handler[h] = t
  BY Fields DEF MInv
<1> DEFINE r == t.id
<1>1. /\ t.op = "deny" /\ request[r].status = "pending" /\ End(h) /\ Free(h, {RequestRow(r)})
      /\ request' = [request EXCEPT ![r] = [request[r] EXCEPT !.status = "rejected"]]
      /\ UNCHANGED <<org, membership, grants, invite, mailed, overdue, deleted>>
  BY DEF WriteDenial, At, RequestRow
<1>2. r \in Requests
  BY <1>1 DEF MInv, HandlerInv, Deciding
<1>3. ~HeldOutside(RequestRow(r), {h})
  BY <1>1, FreeRows
<1> HIDE DEF r
<1> USE DEF MInv, TypeOK, TablesOK
<1>4. /\ request'[r].status = "rejected" /\ request'[r].member = request[r].member
      /\ \A q \in Requests : q # r => request'[q] = request[q]
  BY <1>1, <1>2
<1>5. TablesOK'
  BY <1>1, <1>2
<1>6. Data' /\ Sent' = Sent
  BY <1>1, <1>2, <1>4 DEF Data, Sent
<1>7. TablesFrame({h})
  BY <1>1, <1>3, <1>4 DEF TablesFrame, IsActive
<1>8. StepProps
  BY <1>1, <1>4
  DEF StepProps, DecisionsKept, JoinsAreDecided, OwnersWereCounted, ActiveOwners
<1>9. handler[h] # Idle
  BY <1>1, IdleIsHandling
<1> QED
  BY <1>1, <1>5, <1>6, <1>7, <1>8, <1>9, CommitKeeps

(* Whoever is let in was no member, and nobody's role is lost. *)
LEMMA EnsureAdds ==
  ASSUME TypeOK, NEW h \in Handlers, handler[h].whom \in People, Ensure(h)
  PROVE  /\ membership' \in [People -> {"none", "left"} \cup Active]
         /\ grants' \in [People -> Nat]
         /\ \A p \in People : IsActive(p) => membership'[p] = membership[p]
         /\ \A p \in People : membership'[p] \in Active /\ ~IsActive(p) => p = handler[h].whom
<1> PICK t \in Handling : handler[h] = t
  BY Fields
<1> DEFINE role == IF t.exists THEN membership[t.whom] ELSE "member"
           granted == IF t.had THEN grants[t.whom] ELSE grants[t.whom] + 1
<1>1. /\ t.exists \/ ~IsActive(t.whom)
      /\ membership' = [membership EXCEPT ![t.whom] = role]
      /\ grants' = [grants EXCEPT ![t.whom] = granted]
  BY DEF Ensure
<1>2. role \in {"none", "left"} \cup Active /\ granted \in Nat
  BY DEF TypeOK, Active
<1>3. IsActive(t.whom) => role = membership[t.whom]
  BY <1>1
<1> HIDE DEF role, granted
<1> QED
  BY <1>1, <1>2, <1>3 DEF TypeOK, IsActive

LEMMA NoOwnerGoes ==
  ASSUME \A p \in People : IsActive(p) => membership'[p] = membership[p]
  PROVE  OwnersWereCounted
  BY DEF OwnersWereCounted, ActiveOwners, IsActive, Active

LEMMA ApprovalKeeps ==
  ASSUME MInv, NEW h \in Handlers, WriteApproval(h)
  PROVE  MInv' /\ StepProps
<1> PICK t \in Handling : handler[h] = t
  BY Fields DEF MInv
<1> DEFINE r == t.id
<1>1. /\ t.op = "approve" /\ t.step = 2 /\ End(h) /\ Ensure(h)
      /\ request' = [request EXCEPT ![r] = [request[r] EXCEPT !.status = "approved"]]
      /\ UNCHANGED <<org, invite, mailed, overdue, deleted>>
  BY DEF WriteApproval, At
<1>2. /\ r \in Requests /\ t.whom \in People /\ t.held = {RequestRow(r)}
      /\ request[r].status = "pending" /\ (org # "gone" => request[r].member = t.whom)
  BY <1>1 DEF MInv, HandlerInv, Deciding
<1>3. ~HeldOutside(RequestRow(r), {h})
  BY <1>2, NobodyElseHolds DEF MInv
<1>4. org # "gone"
  BY <1>2 DEF MInv, Data
<1> HIDE DEF r
<1> USE DEF MInv
<1>5. /\ membership' \in [People -> {"none", "left"} \cup Active]
      /\ grants' \in [People -> Nat]
      /\ \A p \in People : IsActive(p) => membership'[p] = membership[p]
      /\ \A p \in People : membership'[p] \in Active /\ ~IsActive(p) => p = t.whom
  BY <1>1, <1>2, EnsureAdds
<1> USE DEF TypeOK, TablesOK
<1>6. /\ request'[r].status = "approved" /\ request'[r].member = request[r].member
      /\ \A q \in Requests : q # r => request'[q] = request[q]
  BY <1>1, <1>2
<1>7. TablesOK'
  BY <1>1, <1>2, <1>5
<1>8. Data' /\ Sent' = Sent
  BY <1>1, <1>2, <1>4, <1>6 DEF Data, Sent
<1>9. TablesFrame({h})
  BY <1>1, <1>3, <1>5, <1>6 DEF TablesFrame, IsActive
<1>10. DecisionsKept /\ OwnersWereCounted
  BY <1>1, <1>2, <1>5, <1>6, NoOwnerGoes DEF DecisionsKept
<1>11. JoinsAreDecided
  <2>1. request[r] = [status |-> "pending", member |-> t.whom]
    BY <1>2, <1>4
  <2> QED
    BY <1>2, <1>5, <1>6, <2>1 DEF JoinsAreDecided, IsActive
<1>12. handler[h] # Idle
  BY <1>1, IdleIsHandling
<1> QED
  BY <1>1, <1>7, <1>8, <1>9, <1>10, <1>11, <1>12, CommitKeeps DEF StepProps

LEMMA AcceptanceKeeps ==
  ASSUME MInv, NEW h \in Handlers, WriteAcceptance(h)
  PROVE  MInv' /\ StepProps
<1> PICK t \in Handling : handler[h] = t
  BY Fields DEF MInv
<1> DEFINE i == t.id
<1>1. /\ t.op = "accept" /\ t.step = 2 /\ End(h) /\ Ensure(h)
      /\ invite' = [invite EXCEPT ![i] = [invite[i] EXCEPT !.status = "accepted"]]
      /\ UNCHANGED <<org, request, mailed, overdue, deleted>>
  BY DEF WriteAcceptance, At
<1>2. /\ i \in Invites /\ t.whom \in People /\ InviteRow(i) \in t.held
      /\ invite[i].status = "pending" /\ (org # "gone" => invite[i].email = t.whom)
  BY <1>1 DEF MInv, HandlerInv, Accepting
<1>3. ~HeldOutside(InviteRow(i), {h})
  BY <1>2, NobodyElseHolds DEF MInv
<1>4. org # "gone"
  BY <1>2 DEF MInv, Data
<1> HIDE DEF i
<1> USE DEF MInv
<1>5. /\ membership' \in [People -> {"none", "left"} \cup Active]
      /\ grants' \in [People -> Nat]
      /\ \A p \in People : IsActive(p) => membership'[p] = membership[p]
      /\ \A p \in People : membership'[p] \in Active /\ ~IsActive(p) => p = t.whom
  BY <1>1, <1>2, EnsureAdds
<1> USE DEF TypeOK, TablesOK
<1>6. /\ invite'[i].status = "accepted" /\ invite'[i].email = invite[i].email
      /\ invite'[i].sent = invite[i].sent
      /\ \A j \in Invites : j # i => invite'[j] = invite[j]
  BY <1>1, <1>2
<1>7. TablesOK'
  BY <1>1, <1>2, <1>5
<1>8. Data' /\ Sent' \subseteq Sent
  BY <1>1, <1>2, <1>4, <1>6 DEF Data, Sent
<1>9. TablesFrame({h})
  BY <1>1, <1>3, <1>5, <1>6 DEF TablesFrame, IsActive
<1>10. DecisionsKept /\ OwnersWereCounted
  BY <1>1, <1>2, <1>5, <1>6, NoOwnerGoes DEF DecisionsKept
<1>11. JoinsAreDecided
  <2>1. i \in PendingInvites(t.whom)
    BY <1>2, <1>4 DEF PendingInvites
  <2> QED
    BY <1>5, <1>6, <2>1 DEF JoinsAreDecided, IsActive
<1>12. handler[h] # Idle
  BY <1>1, IdleIsHandling
<1> QED
  BY <1>1, <1>7, <1>8, <1>9, <1>10, <1>11, <1>12, CommitKeeps DEF StepProps

-----------------------------------------------------------------------------
(* Invitations: an owner's list.                                           *)

(* What h has when it works on an address. *)
LEMMA IssuingParts ==
  ASSUME MInv, NEW h \in Handlers, handler[h].op = "issue"
  PROVE  /\ handler[h].held = {} /\ handler[h].count \in 0..DailyLimit
         /\ handler[h].step > 0 => handler[h].count > 0 /\ handler[h].whom \in People
         /\ handler[h].step > 1 => handler[h].id \in Invites
<1>1. HandlerInv(h) /\ TypeOK
  BY DEF MInv
<1>2. Issuing(h) /\ handler[h].count \in Nat
  BY <1>1, Fields DEF HandlerInv
<1> QED
  BY <1>2, MembershipAssumption DEF Issuing

(* A statement of that work: the tables may change within the frame. *)
LEMMA IssueKeeps ==
  ASSUME MInv, NEW h \in Handlers, NEW t \in Handling,
         handler' = [handler EXCEPT ![h] = t],
         handler[h].op = "issue", t.op = "issue", t.held = {}, t.count <= handler[h].count,
         t.step > 0 => t.count > 0 /\ t.whom \in People,
         t.step > 1 => t.id \in Invites,
         TablesFrame({h}), TablesOK', Data',
         Sent' \subseteq Sent \/ SlotsSuffice'
  PROVE  MInv'
<1>1. Free(h, t.held) /\ TypeOK
  BY NoRowsAreFree DEF MInv
<1>2. /\ HandlersOK' /\ handler'[h] = t
      /\ \A d \in Handlers \ {h} : handler'[d] = handler[d]
  BY <1>1, Moves
<1>3. SlotsSuffice'
  BY <1>1, <1>2, FewerSlots, NoMoreSlots DEF MInv
<1>4. t.count <= DailyLimit
  BY IssuingParts, MembershipAssumption DEF Handling
<1>5. HandlerInv(h)'
  BY <1>2, <1>4 DEF HandlerInv, Changing, Deciding, Accepting, Issuing, RoleOps, Departures
<1>6. Frame({h})
  BY <1>2 DEF Frame
<1> QED
  BY <1>2, <1>3, <1>5, <1>6, StepKeeps

(* No table but the invitations changes: nobody joins and no owner goes. *)
LEMMA OnlyInvites ==
  ASSUME UNCHANGED <<membership, request>>,
         \A i \in Invites : invite[i].status \in {"accepted", "expired"}
           => invite'[i].status = invite[i].status
  PROVE  StepProps
<1>1. DecisionsKept
  BY DEF DecisionsKept
<1>2. JoinsAreDecided
  BY DEF JoinsAreDecided
<1>3. OwnersWereCounted
  BY NoOwnerGoes
<1> QED
  BY <1>1, <1>2, <1>3 DEF StepProps

LEMMA ExpirePendingKeeps ==
  ASSUME MInv, NEW h \in Handlers, NEW p \in People, ExpirePending(h, p)
  PROVE  MInv' /\ StepProps
<1> PICK t \in Handling : handler[h] = t
  BY Fields DEF MInv
<1> DEFINE rest == t.todo \ {p}
           u == [t EXCEPT !.whom = p, !.todo = rest]
           v == [u EXCEPT !.step = u.step + 1]
<1>1. /\ t.op = "issue" /\ t.step = 0 /\ t.count > 0
      /\ Free(h, {"invite"} \X PendingInvites(p))
      /\ invite' = [i \in Invites |->
           IF i \in PendingInvites(p) THEN [invite[i] EXCEPT !.status = "expired"] ELSE invite[i]]
      /\ handler' = [handler EXCEPT ![h] = v]
      /\ UNCHANGED <<org, membership, grants, request, mailed, overdue, deleted>>
  BY DEF ExpirePending, At, Go
<1>2. t.held = {} /\ t.count \in 0..DailyLimit
  BY <1>1, IssuingParts
<1>3. rest \subseteq People
  BY DEF Handling
<1> HIDE DEF rest
<1>4. u \in Handling /\ u.op = t.op /\ u.step = 0 /\ u.whom = p /\ u.held = {} /\ u.count = t.count
  BY <1>1, <1>2, <1>3 DEF Handling
<1> HIDE DEF u
<1>5. v \in Handling /\ v.op = t.op /\ v.step = 1 /\ v.whom = p /\ v.held = {} /\ v.count = t.count
  BY <1>4 DEF Handling
<1> HIDE DEF v
<1> USE DEF MInv, TypeOK, TablesOK
<1>6. ASSUME NEW i \in Invites
      PROVE  /\ i \in PendingInvites(p) =>
                  /\ invite[i].status = "pending" /\ invite'[i].status = "expired"
                  /\ ~HeldOutside(InviteRow(i), {h})
             /\ i \notin PendingInvites(p) => invite'[i] = invite[i]
             /\ invite'[i].email = invite[i].email /\ invite'[i].sent = invite[i].sent
  <2>1. i \in PendingInvites(p) =>
          invite[i].status = "pending" /\ InviteRow(i) \in {"invite"} \X PendingInvites(p)
    BY DEF PendingInvites, InviteRow
  <2>2. i \in PendingInvites(p) => ~HeldOutside(InviteRow(i), {h})
    BY <1>1, <2>1, FreeRows
  <2> QED
    BY <1>1, <2>1, <2>2
<1>7. TablesOK'
  BY <1>1
<1>8. Data' /\ Sent' \subseteq Sent
  BY <1>1, <1>6 DEF Data, Sent
<1>9. TablesFrame({h})
  BY <1>1, <1>6 DEF TablesFrame, IsActive
<1>10. \A i \in Invites : invite[i].status \in {"accepted", "expired"}
          => invite'[i].status = invite[i].status
  BY <1>6
<1>11. StepProps
  BY <1>1, <1>10, OnlyInvites
<1>12. /\ v \in Handling /\ handler' = [handler EXCEPT ![h] = v]
       /\ handler[h].op = "issue" /\ v.op = "issue" /\ v.held = {} /\ v.count <= handler[h].count
       /\ v.step > 0 => v.count > 0 /\ v.whom \in People
       /\ v.step > 1 => v.id \in Invites
  BY <1>1, <1>2, <1>5
<1> HIDE DEF MInv, TypeOK, TablesOK
<1> QED
  BY <1>12, <1>7, <1>8, <1>9, <1>11, IssueKeeps

LEMMA CreateInvitationKeeps ==
  ASSUME MInv, NEW h \in Handlers, NEW i \in Invites, CreateInvitation(h, i)
  PROVE  MInv' /\ StepProps
<1> PICK t \in Handling : handler[h] = t
  BY Fields DEF MInv
<1> DEFINE u == [t EXCEPT !.id = i]
           v == [u EXCEPT !.step = u.step + 1]
<1>1. /\ t.op = "issue" /\ t.step = 1 /\ org # "gone" /\ invite[i].status = "none"
      /\ invite' = [invite EXCEPT ![i] = [status |-> "pending", email |-> t.whom, sent |-> FALSE]]
      /\ handler' = [handler EXCEPT ![h] = v]
      /\ UNCHANGED <<org, membership, grants, request, mailed, overdue, deleted>>
  BY DEF CreateInvitation, At, Go
<1>2. t.held = {} /\ t.count \in 0..DailyLimit /\ t.count > 0 /\ t.whom \in People
  BY <1>1, IssuingParts
<1>3. /\ u \in Handling /\ u.op = t.op /\ u.step = 1 /\ u.whom = t.whom /\ u.held = {}
      /\ u.count = t.count /\ u.id = i
  BY <1>1, <1>2 DEF Handling
<1> HIDE DEF u
<1>4. /\ v \in Handling /\ v.op = t.op /\ v.step = 2 /\ v.whom = t.whom /\ v.held = {}
      /\ v.count = t.count /\ v.id = i
  BY <1>3 DEF Handling
<1> HIDE DEF v
<1> USE DEF MInv, TypeOK, TablesOK
<1>5. /\ invite'[i].status = "pending" /\ invite'[i].email = t.whom /\ ~invite'[i].sent
      /\ \A j \in Invites : j # i => invite'[j] = invite[j]
  BY <1>1
<1>6. TablesOK'
  BY <1>1, <1>2
<1>7. Data' /\ Sent' \subseteq Sent
  BY <1>1, <1>2, <1>5 DEF Data, Sent
<1>8. TablesFrame({h})
  BY <1>1, <1>5 DEF TablesFrame, IsActive
<1>9. StepProps
  BY <1>1, <1>5, OnlyInvites
<1>10. /\ v \in Handling /\ handler' = [handler EXCEPT ![h] = v]
       /\ handler[h].op = "issue" /\ v.op = "issue" /\ v.held = {} /\ v.count <= handler[h].count
       /\ v.step > 0 => v.count > 0 /\ v.whom \in People
       /\ v.step > 1 => v.id \in Invites
  BY <1>1, <1>2, <1>4
<1> HIDE DEF MInv, TypeOK, TablesOK
<1> QED
  BY <1>10, <1>6, <1>7, <1>8, <1>9, IssueKeeps

LEMMA SendKeeps ==
  ASSUME MInv, NEW h \in Handlers, Send(h)
  PROVE  MInv' /\ StepProps
<1> PICK t \in Handling : handler[h] = t
  BY Fields DEF MInv
<1> DEFINE v == [t EXCEPT !.step = t.step + 1]
<1>1. /\ t.op = "issue" /\ t.step = 2 /\ mailed' = mailed \cup {t.id}
      /\ handler' = [handler EXCEPT ![h] = v]
      /\ UNCHANGED <<org, membership, grants, request, invite, overdue, deleted>>
  BY DEF Send, At, Go
<1>2. /\ t.held = {} /\ t.count \in 0..DailyLimit /\ t.count > 0
      /\ t.whom \in People /\ t.id \in Invites
  BY <1>1, IssuingParts
<1>3. /\ v \in Handling /\ v.op = t.op /\ v.step = 3 /\ v.whom = t.whom /\ v.held = {}
      /\ v.count = t.count /\ v.id = t.id
  BY <1>1, <1>2 DEF Handling
<1> HIDE DEF v
<1> USE DEF MInv, TypeOK, TablesOK
<1>4. TablesOK'
  BY <1>1, <1>2
<1>5. Data' /\ Sent' \subseteq Sent
  BY <1>1 DEF Data, Sent
<1>6. TablesFrame({h})
  BY <1>1 DEF TablesFrame, IsActive
<1>7. StepProps
  BY <1>1, OnlyInvites
<1>8. /\ v \in Handling /\ handler' = [handler EXCEPT ![h] = v]
      /\ handler[h].op = "issue" /\ v.op = "issue" /\ v.held = {} /\ v.count <= handler[h].count
      /\ v.step > 0 => v.count > 0 /\ v.whom \in People
      /\ v.step > 1 => v.id \in Invites
  BY <1>1, <1>2, <1>3
<1> HIDE DEF MInv, TypeOK, TablesOK
<1> QED
  BY <1>8, <1>4, <1>5, <1>6, <1>7, IssueKeeps

(* The next address, with an invitation fewer at most. *)
LEMMA NextAddressIs ==
  ASSUME TypeOK, NEW h \in Handlers, NEW t \in Handling, handler[h] = t, t.held = {},
         NEW n \in Nat, NextAddress(h, n)
  PROVE  \E v \in Handling :
           /\ handler' = [handler EXCEPT ![h] = v] /\ handler'[h] = v
           /\ \A d \in Handlers \ {h} : handler'[d] = handler[d]
           /\ v.op = t.op /\ v.step = 0 /\ v.held = {} /\ v.count = n
<1> DEFINE v == [t EXCEPT !.step = 0, !.whom = Nobody, !.id = None, !.count = n]
<1>1. handler' = [handler EXCEPT ![h] = v]
  BY DEF NextAddress
<1>2. v \in Handling /\ v.op = t.op /\ v.step = 0 /\ v.held = {} /\ v.count = n
  <2>1. 0 \in 0..3 /\ Nobody \in People \cup {Nobody} /\ None \in Requests \cup Invites \cup {None}
    OBVIOUS
  <2> QED
    BY <2>1 DEF Handling
<1> HIDE DEF v
<1>3. handler'[h] = v /\ \A d \in Handlers \ {h} : handler'[d] = handler[d]
  BY <1>1 DEF TypeOK
<1> QED
  BY <1>1, <1>2, <1>3

LEMMA SendFailsKeeps ==
  ASSUME MInv, NEW h \in Handlers, SendFails(h)
  PROVE  MInv' /\ StepProps
<1> PICK t \in Handling : handler[h] = t
  BY Fields DEF MInv
<1> DEFINE i == t.id
           status == IF invite[i].status = "pending" THEN "expired" ELSE invite[i].status
<1>1. /\ t.op = "issue" /\ t.step \in {2, 3} /\ Free(h, {InviteRow(i)})
      /\ invite' = [invite EXCEPT ![i] = [invite[i] EXCEPT !.status = status]]
      /\ mailed' \in {mailed, mailed \cup {i}} /\ NextAddress(h, t.count)
      /\ UNCHANGED <<org, membership, grants, request, overdue, deleted>>
  BY DEF SendFails, At, InviteRow
<1>2. i \in Invites /\ t.held = {} /\ t.count \in 0..DailyLimit
  BY <1>1, IssuingParts
<1>3. PICK v \in Handling :
        /\ handler' = [handler EXCEPT ![h] = v]
        /\ v.op = t.op /\ v.step = 0 /\ v.held = {} /\ v.count = t.count
  <2>1. TypeOK /\ t.count \in Nat
    BY <1>2, MembershipAssumption DEF MInv
  <2> QED
    BY <1>1, <1>2, <2>1, NextAddressIs
<1>4. ~HeldOutside(InviteRow(i), {h})
  BY <1>1, FreeRows
<1> HIDE DEF i
<1> USE DEF MInv, TypeOK, TablesOK
<1>5. /\ status \in {"none", "pending", "accepted", "expired"}
      /\ invite[i].status = "pending" \/ status = invite[i].status
      /\ invite[i].status = "pending" => status = "expired"
  BY <1>2
<1> HIDE DEF status
<1>6. /\ invite'[i].status = status /\ invite'[i].email = invite[i].email
      /\ invite'[i].sent = invite[i].sent
      /\ \A j \in Invites : j # i => invite'[j] = invite[j]
  BY <1>1, <1>2
<1>7. TablesOK'
  BY <1>1, <1>2, <1>5
<1>8. Data' /\ Sent' \subseteq Sent
  BY <1>1, <1>2, <1>5, <1>6 DEF Data, Sent
<1>9. TablesFrame({h})
  BY <1>1, <1>4, <1>5, <1>6 DEF TablesFrame, IsActive
<1>10. StepProps
  BY <1>1, <1>5, <1>6, OnlyInvites
<1>11. /\ v \in Handling /\ handler' = [handler EXCEPT ![h] = v]
       /\ handler[h].op = "issue" /\ v.op = "issue" /\ v.held = {} /\ v.count <= handler[h].count
       /\ v.step > 0 => v.count > 0 /\ v.whom \in People
       /\ v.step > 1 => v.id \in Invites
  BY <1>1, <1>2, <1>3
<1> HIDE DEF MInv, TypeOK, TablesOK
<1> QED
  BY <1>11, <1>7, <1>8, <1>9, <1>10, IssueKeeps

LEMMA MarkSentKeeps ==
  ASSUME MInv, NEW h \in Handlers, MarkSent(h)
  PROVE  MInv' /\ StepProps
<1> PICK t \in Handling : handler[h] = t
  BY Fields DEF MInv
<1> DEFINE i == t.id
           pending == invite[i].status = "pending"
           left == IF pending THEN t.count - 1 ELSE t.count
<1>1. /\ t.op = "issue" /\ t.step = 3 /\ Free(h, {InviteRow(i)})
      /\ invite' = [invite EXCEPT ![i] = [invite[i] EXCEPT !.sent = pending]]
      /\ NextAddress(h, left)
      /\ UNCHANGED <<org, membership, grants, request, mailed, overdue, deleted>>
  BY DEF MarkSent, At, InviteRow
<1>2. i \in Invites /\ t.held = {} /\ t.count \in 1..DailyLimit /\ DailyLimit \in Nat
  BY <1>1, IssuingParts, MembershipAssumption
<1>3. /\ left \in Nat /\ left <= t.count
      /\ pending => left = t.count - 1
  BY <1>2
<1> HIDE DEF left
<1>4. PICK v \in Handling :
        /\ handler' = [handler EXCEPT ![h] = v] /\ handler'[h] = v
        /\ \A d \in Handlers \ {h} : handler'[d] = handler[d]
        /\ v.op = t.op /\ v.step = 0 /\ v.held = {} /\ v.count = left
  <2>1. TypeOK
    BY DEF MInv
  <2> QED
    BY <1>1, <1>2, <1>3, <2>1, NextAddressIs
<1> HIDE DEF i
<1>5. pending \in BOOLEAN
  OBVIOUS
<1>6. pending <=> invite[i].status = "pending"
  OBVIOUS
<1> HIDE DEF pending
<1>7. TypeOK /\ Data /\ TablesOK
  BY TypeParts DEF MInv
<1>8. /\ invite'[i].status = invite[i].status /\ invite'[i].email = invite[i].email
      /\ (invite'[i].sent <=> pending)
      /\ \A j \in Invites : j # i => invite'[j] = invite[j]
  BY <1>1, <1>2, <1>7 DEF TablesOK
<1>9. TablesOK'
  BY <1>1, <1>2, <1>5, <1>7 DEF TablesOK
<1>10. Data'
  BY <1>1, <1>2, <1>6, <1>7, <1>8 DEF Data
<1>11. TablesFrame({h})
  BY <1>1, <1>6, <1>8 DEF TablesFrame, IsActive
<1>12. Sent' \subseteq Sent \/ SlotsSuffice'
  <2>1. CASE pending
    <3>1. Sent' \subseteq Sent \cup {i}
      BY <1>8 DEF Sent
    <3>2. v.count = t.count - 1
      BY <1>3, <1>4, <2>1
    <3> QED
      BY <1>1, <1>2, <1>4, <3>1, <3>2, SlotUsed
  <2>2. CASE ~pending
    BY <1>2, <1>8, <2>2 DEF Sent
  <2> QED
    BY <2>1, <2>2
<1>13. StepProps
  BY <1>1, <1>8, OnlyInvites
<1>14. /\ v \in Handling /\ handler' = [handler EXCEPT ![h] = v]
       /\ handler[h].op = "issue" /\ v.op = "issue" /\ v.held = {} /\ v.count <= handler[h].count
       /\ v.step > 0 => v.count > 0 /\ v.whom \in People
       /\ v.step > 1 => v.id \in Invites
  BY <1>1, <1>3, <1>4
<1> HIDE DEF MInv, TypeOK, TablesOK
<1> QED
  BY <1>14, <1>9, <1>10, <1>11, <1>12, <1>13, IssueKeeps

-----------------------------------------------------------------------------
(* The organization and the clock.                                         *)

LEMMA NobodyMoves ==
  ASSUME MInv, handler' = handler, TablesFrame({}), TablesOK', Data', Sent' \subseteq Sent
  PROVE  MInv'
<1>1. HandlersOK' /\ Slots' \subseteq Slots
  BY DEF MInv, TypeOK, HandlersOK, Slots
<1>2. SlotsSuffice' /\ Frame({})
  BY <1>1, NoMoreSlots DEF MInv, Frame
<1> QED
  BY <1>1, <1>2, StepKeeps

LEMMA FallsDueKeeps ==
  ASSUME MInv, NEW i \in Invites, InviteFallsDue(i)
  PROVE  MInv' /\ StepProps
<1>1. /\ overdue' = overdue \cup {i}
      /\ UNCHANGED <<org, membership, grants, request, invite, mailed, deleted, handler>>
  BY DEF InviteFallsDue
<1>2. TablesOK' /\ Data' /\ Sent' = Sent
  BY <1>1, TypeParts DEF MInv, TablesOK, Data, Sent
<1>3. TablesFrame({})
  BY <1>1 DEF TablesFrame, IsActive
<1> QED
  BY <1>1, <1>2, <1>3, NobodyMoves, OnlyInvites

LEMMA EnabledKeeps ==
  ASSUME MInv, NEW state \in {"enabled", "disabled"}, SetOrganizationEnabled(state)
  PROVE  MInv' /\ StepProps
<1>1. /\ org # "gone" /\ org' = state
      /\ UNCHANGED <<membership, grants, request, invite, mailed, overdue, deleted, handler>>
  BY DEF SetOrganizationEnabled
<1>2. TablesOK' /\ Data' /\ Sent' = Sent
  BY <1>1, TypeParts DEF MInv, TablesOK, Data, Sent
<1>3. TablesFrame({})
  BY <1>1 DEF TablesFrame, IsActive
<1> QED
  BY <1>1, <1>2, <1>3, NobodyMoves, OnlyInvites

(* It waits for every row: no handler is left with a member's role, a       *)
(* request or an invitation in its hands.                                   *)
LEMMA DeleteOrganizationKeeps ==
  ASSUME MInv, NEW by \in People, DeleteOrganization(by)
  PROVE  MInv' /\ StepProps
<1>1. /\ \A h \in Handlers : handler[h].held \subseteq AccountRows
      /\ org' = "gone"
      /\ membership' = [p \in People |-> "none"]
      /\ grants' = [p \in People |-> 0]
      /\ request' = [r \in Requests |-> [status |-> "none", member |-> Nobody]]
      /\ invite' = [i \in Invites |-> [status |-> "none", email |-> Nobody, sent |-> FALSE]]
      /\ overdue' = {}
      /\ UNCHANGED <<mailed, deleted, handler>>
  BY DEF DeleteOrganization
<1>2. /\ \A p \in People : ~HeldOutside(MembershipRow(p), {})
      /\ \A r \in Requests : ~HeldOutside(RequestRow(r), {})
      /\ \A i \in Invites : ~HeldOutside(InviteRow(i), {})
  BY <1>1 DEF HeldOutside, AccountRows, MembershipRow, RequestRow, InviteRow
<1>3. TablesOK'
  BY <1>1 DEF MInv, TypeOK, TablesOK
<1>4. Data' /\ Sent' \subseteq Sent
  BY <1>1 DEF Data, Sent
<1>5. TablesFrame({})
  BY <1>1, <1>2 DEF TablesFrame
<1>6. StepProps
  BY <1>1 DEF StepProps, DecisionsKept, JoinsAreDecided, OwnersWereCounted, Active
<1> QED
  BY <1>1, <1>3, <1>4, <1>5, <1>6, NobodyMoves

-----------------------------------------------------------------------------
(* The invariant.                                                          *)

LEMMA InitMInv == Init => MInv
<1> SUFFICES ASSUME Init PROVE MInv
  OBVIOUS
<1> USE DEF Init
<1>1. TypeOK
  BY IdleIsHandling, MembershipAssumption DEF TypeOK, Active
<1>2. Data
  BY DEF Data
<1>3. \A h \in Handlers : HandlerInv(h)
  BY IdleIsHandling
  DEF HandlerInv, Changing, Deciding, Accepting, Issuing, RoleOps, Departures
<1>4. SlotsSuffice
  <2>1. Sent = {} /\ Slots = {}
    BY IdleIsHandling DEF Sent, Slots
  <2> QED
    BY <2>1, FS_EmptySet, SlotsNumber DEF SlotsSuffice
<1> QED
  BY <1>1, <1>2, <1>3, <1>4 DEF MInv

LEMMA NextMInv == MInv /\ [Next]_mvars => MInv' /\ StepProps
<1> SUFFICES ASSUME MInv, [Next]_mvars PROVE MInv' /\ StepProps
  OBVIOUS
<1>1. CASE UNCHANGED mvars
  <2>1. UNCHANGED tables /\ UNCHANGED handler
    BY <1>1 DEF mvars
  <2>2. TablesOK' /\ Data' /\ Frame({}) /\ StepProps /\ Sent' = Sent
    BY <2>1, TablesUntouched
  <2> QED
    BY <2>1, <2>2, NobodyMoves DEF Frame
<1>2. ASSUME NEW h \in Handlers, Roles(h)
      PROVE  MInv' /\ StepProps
  <2>1. ASSUME NEW p \in People, BeginLeave(h, p)
        PROVE  MInv' /\ StepProps
    BY <2>1, RoleChangeBegins DEF BeginLeave, RoleOps, Departures
  <2>2. ASSUME NEW by \in People, NEW whom \in People, BeginRemove(h, by, whom)
        PROVE  MInv' /\ StepProps
    BY <2>2, RoleChangeBegins DEF BeginRemove, RoleOps, Departures
  <2>3. ASSUME NEW op \in Operations, NEW by \in People, NEW whom \in People,
               BeginRoleChange(h, op, by, whom)
        PROVE  MInv' /\ StepProps
    <3>1. op \in RoleOps /\ Change(h, op, by, whom)
      BY <2>3 DEF BeginRoleChange, RoleOps, Departures
    <3> QED
      BY <3>1, RoleChangeBegins
  <2>4. CASE LockAndCount(h)
    BY <2>4, LockAndCountKeeps
  <2>5. CASE WriteChange(h)
    BY <2>5, ChangeKeeps
  <2>6. ASSUME NEW whom \in People, BeginDelete(h, whom)
        PROVE  MInv' /\ StepProps
    BY <2>6, DeleteBegins
  <2>7. CASE WriteDelete(h)
    BY <2>7, DeleteKeeps
  <2> QED
    BY <1>2, <2>1, <2>2, <2>3, <2>4, <2>5, <2>6, <2>7 DEF Roles
<1>3. ASSUME NEW h \in Handlers, Asking(h)
      PROVE  MInv' /\ StepProps
  BY <1>3, RequestBegins, InsertRequestKeeps, DecisionBegins, DenialKeeps, LockRequestKeeps,
     ReadActiveKeeps, ApprovalKeeps
  DEF Asking
<1>4. ASSUME NEW h \in Handlers, Inviting(h)
      PROVE  MInv' /\ StepProps
  <2>1. ASSUME NEW by \in People, NEW emails \in SUBSET (People \ {by}) \ {{}},
               BeginIssue(h, by, emails)
        PROVE  MInv' /\ StepProps
    <3>1. emails \in SUBSET People
      OBVIOUS
    <3> QED
      BY <2>1, <3>1, IssueBegins
  <2> QED
    BY <1>4, <2>1, ExpirePendingKeeps, CreateInvitationKeeps, SendKeeps, SendFailsKeeps,
       MarkSentKeeps, AcceptBegins, LockInvitationKeeps, AcceptanceKeeps
    DEF Inviting
<1>5. ASSUME NEW h \in Handlers, GiveUp(h)
      PROVE  MInv' /\ StepProps
  BY <1>5, GiveUpKeeps
<1>6. ASSUME NEW i \in Invites, InviteFallsDue(i)
      PROVE  MInv' /\ StepProps
  BY <1>6, FallsDueKeeps
<1>7. ASSUME NEW state \in {"enabled", "disabled"}, SetOrganizationEnabled(state)
      PROVE  MInv' /\ StepProps
  BY <1>7, EnabledKeeps
<1>8. ASSUME NEW by \in People, DeleteOrganization(by)
      PROVE  MInv' /\ StepProps
  BY <1>8, DeleteOrganizationKeeps
<1> QED
  BY <1>1, <1>2, <1>3, <1>4, <1>5, <1>6, <1>7, <1>8 DEF Next

-----------------------------------------------------------------------------
(* The theorems.                                                           *)

(* What a handler of a request relies on holds whenever it acts, however    *)
(* many others act in between: the rows it has locked are as it read them.  *)
THEOREM HandlersRely == Spec => []MInv
  BY InitMInv, NextMInv, PTL DEF Spec

(* The tables keep their types, and no row is locked twice. *)
THEOREM MembershipTypes == Spec => []TypeOK
<1>1. MInv => TypeOK
  BY DEF MInv
<1> QED
  BY <1>1, HandlersRely, PTL

(* The day's limit of invitations is exceeded only by requests that         *)
(* overlap, and never by more than a limit for each of them.                *)
THEOREM InvitationsAreBounded == Spec => []LimitHoldsPerHandler
<1>1. MInv => LimitHoldsPerHandler
  <2> SUFFICES ASSUME MInv PROVE LimitHoldsPerHandler
    OBVIOUS
  <2>1. CountSuccessfulInvites = Cardinality(Sent)
    BY DEF CountSuccessfulInvites, Sent
  <2>2. Cardinality(Sent) + Cardinality(Slots) <= DailyLimit * Cardinality(Handlers)
    BY DEF MInv, SlotsSuffice
  <2> QED
    BY <2>1, <2>2, Finite, SlotsNumber DEF LimitHoldsPerHandler
<1> QED
  BY <1>1, HandlersRely, PTL

(* No step undoes the decision on a request or an invitation. *)
THEOREM DecisionsStand == Spec => DecisionsAreFinal
<1>1. MInv /\ [Next]_mvars => DecisionsKept
  BY NextMInv DEF StepProps
<1> QED
  BY <1>1, HandlersRely, PTL DEF Spec, DecisionsAreFinal, DecisionsKept

(* Whoever becomes a member is let in by the step that decides on it. *)
THEOREM MembersWereLetIn == Spec => NobodyJoinsUninvited
<1>1. MInv /\ [Next]_mvars => JoinsAreDecided
  BY NextMInv DEF StepProps
<1> QED
  BY <1>1, HandlersRely, PTL DEF Spec, NobodyJoinsUninvited, JoinsAreDecided

(* The last owner goes only where the count of owners was overtaken. *)
THEOREM LastOwnerGoesOvertaken == Spec => LastOwnerGoesByStaleCheck
<1>1. MInv /\ [Next]_mvars => OwnersWereCounted
  BY NextMInv DEF StepProps
<1> QED
  BY <1>1, HandlersRely, PTL DEF Spec, LastOwnerGoesByStaleCheck, OwnersWereCounted
=============================================================================
