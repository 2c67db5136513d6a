----------------------- MODULE HopTransactions_proofs -----------------------
(***************************************************************************)
(* The invariants of HopLifecycle hold of its operations statement by      *)
(* statement, for any number of concurrent transactions.  What a           *)
(* transaction has read and checked stays true until its commit because of *)
(* the rows it has locked: SessionInv says what that is, Frame says what a *)
(* step of one transaction leaves alone, and Others that the former        *)
(* survives the latter.  What remains is each transaction's own step.      *)
(***************************************************************************)
EXTENDS HopTransactions, HopLifecycle_proofs

HopOps == {"offer", "accept", "decline", "cancel", "complete"}
EndOps == {"disable", "delete"}

HoldsOrWaits(s, r) == r \in tx[s].todo \/ lock[r] = s

(* A session without a transaction holds no row.  A transaction about one   *)
(* hop holds it or still waits for it, and locks nothing but members later. *)
Locking(s) ==
  /\ tx[s].op = "idle" => tx[s] = Idle /\ Mine(s) = {}
  /\ tx[s].op = "create" => tx[s].by \in Members /\ tx[s].hours \in Estimates
  /\ tx[s].op \in HopOps =>
       /\ tx[s].hop \in Hops /\ tx[s].by \in Members
       /\ status[tx[s].hop] # "none"
       /\ HoldsOrWaits(s, tx[s].hop)
       /\ tx[s].step > 0 => tx[s].todo \subseteq Members
  /\ tx[s].op \in {"accept", "decline"} => tx[s].whom \in Members \ {tx[s].by}
  /\ tx[s].op \in EndOps => tx[s].whom \in Members

(* An offer that passed its checks can be written. *)
Offering(s) ==
  tx[s].op = "offer" /\ tx[s].step = 1 =>
    /\ status[tx[s].hop] = "open" /\ creator[tx[s].hop] # tx[s].by
    /\ offer[tx[s].hop][tx[s].by] \in {"none", "denied"}

(* An acceptance that passed its checks is of an open hop of the requester, *)
(* and if the offerer's account was deleted since, the offer is withdrawn.  *)
Accepting(s) ==
  tx[s].op = "accept" =>
    /\ tx[s].step > 0 => status[tx[s].hop] = "open" /\ creator[tx[s].hop] = tx[s].by
    /\ tx[s].step = 2 =>
         (tx[s].whom \in deleted => offer[tx[s].hop][tx[s].whom] # "pending")

(* A completion holds both participants once it has read their balances,    *)
(* and its hours are cut to balances that have not changed since.           *)
Completing(s) ==
  tx[s].op = "complete" /\ tx[s].step > 0 =>
    /\ status[tx[s].hop] = "accepted"
    /\ \A m \in {creator[tx[s].hop], matched[tx[s].hop]} : HoldsOrWaits(s, m)
    /\ tx[s].step = 2 =>
         /\ tx[s].todo = {}
         /\ \E requested \in Nat :
              tx[s].hours = Allowed(requested, Balance(Payer(tx[s].hop)),
                                    Balance(Earner(tx[s].hop)), policy)

(* What an account's end has reopened it holds. *)
Ending(s) ==
  tx[s].op \in EndOps /\ tx[s].step = 2 =>
    \A h \in tx[s].reopened : lock[h] = s /\ h \in AcceptedWith(tx[s].whom)

(* A deletion holds the account, so that nobody new is matched with it, and *)
(* whoever was is on a hop it holds, or waits for, and then reopens.        *)
Deleting(s) ==
  tx[s].op = "delete" =>
    /\ HoldsOrWaits(s, tx[s].whom)
    /\ tx[s].step > 0 => tx[s].todo \subseteq Hops /\ tx[s].whom \notin deleted
    /\ \A h \in Hops : status[h] = "accepted" /\ matched[h] = tx[s].whom =>
         /\ tx[s].step = 1 => HoldsOrWaits(s, h)
         /\ tx[s].step = 2 => h \in tx[s].reopened

SessionInv(s) ==
  Locking(s) /\ Offering(s) /\ Accepting(s) /\ Completing(s) /\ Ending(s) /\ Deleting(s)

(* What the committed data satisfy between any two statements. *)
Data ==
  /\ TypeOK /\ FiniteLedger
  /\ MatchAgreesWithStatus
  /\ LedgerMatchesHops
  /\ MatchesAreConsented
  /\ NoOfferLeftWaiting
  /\ NoMatchWithDeleted
  /\ active \cap deleted = {}

TxTypeOK ==
  /\ tx \in [Sessions -> Transaction]
  /\ lock \in [Rows -> Sessions \cup {NoSession}]
  /\ \A s \in Sessions : \A r \in tx[s].todo : lock[r] # s

TInv ==
  /\ Data
  /\ TxTypeOK
  /\ \A s \in Sessions : SessionInv(s)

HeldByAnother(r, s) == lock[r] \in Sessions \ {s}

(* What a step of the transaction of s leaves to the others. *)
TxFrame(s) ==
  /\ \A d \in Sessions \ {s} : tx'[d] = tx[d]
  /\ \A d \in Sessions \ {s}, r \in Rows : lock'[r] = d <=> lock[r] = d

HopFrame(s) ==
  /\ \A h \in Hops :
       status[h] # "none" =>
         /\ status'[h] # "none"
         /\ kind'[h] = kind[h] /\ creator'[h] = creator[h] /\ estimate'[h] = estimate[h]
  /\ \A h \in Hops :
       status[h] # "none" /\ HeldByAnother(h, s) =>
         /\ status'[h] = status[h] /\ matched'[h] = matched[h]
         /\ \A m \in Members : \/ offer'[h][m] = offer[h][m]
                               \/ offer[h][m] = "pending" /\ offer'[h][m] = "denied"
  /\ \A h \in Hops :
       status'[h] = "accepted" =>
         \/ status[h] = "accepted" /\ matched'[h] = matched[h]
         \/ \A d \in Sessions \ {s} : tx[d].op = "delete" => lock[matched'[h]] # d

MemberFrame(s) ==
  /\ policy' = policy
  /\ \A m \in Members : HeldByAnother(m, s) => Balance(m)' = Balance(m)
  /\ \A m \in deleted' \ deleted :
       /\ ~HeldByAnother(m, s)
       /\ \A h \in Hops : offer'[h][m] # "pending"

Frame(s) == TxFrame(s) /\ HopFrame(s) /\ MemberFrame(s)

-----------------------------------------------------------------------------
(* Transactions and rows.                                                  *)

LEMMA Fields ==
  ASSUME TxTypeOK, NEW s \in Sessions
  PROVE  /\ tx[s] \in Transaction
         /\ tx[s].op \in Ops /\ tx[s].step \in 0..2
         /\ tx[s].hop \in Hops \cup {NoHop}
         /\ tx[s].by \in Members \cup {NoMember} /\ tx[s].whom \in Members \cup {NoMember}
         /\ tx[s].kind \in Kinds /\ tx[s].hours \in Nat
         /\ tx[s].todo \subseteq Rows /\ tx[s].reopened \subseteq Hops
<1>1. tx[s] \in Transaction
  BY DEF TxTypeOK
<1> QED
  BY <1>1 DEF Transaction

(* Hops and members are rows of different tables. *)
LEMMA RowKinds ==
  /\ Hops \subseteq Rows /\ Members \subseteq Rows
  /\ \A h \in Hops : h \notin Members
  /\ \A s \in Sessions : s # NoSession
  BY SessionsAssumption DEF Rows

LEMMA IdleIsATransaction ==
  /\ Idle \in Transaction
  /\ Idle.op = "idle" /\ Idle.step = 0 /\ Idle.todo = {} /\ Idle.reopened = {}
  BY DEF Idle, Transaction, Ops, Kinds

(* What a transaction past its first statement is about, it holds. *)
LEMMA HopIsHeld ==
  ASSUME TxTypeOK, NEW s \in Sessions, Locking(s), tx[s].op \in HopOps,
         tx[s].todo = {} \/ tx[s].step > 0
  PROVE  tx[s].hop \in Hops /\ lock[tx[s].hop] = s /\ tx[s].hop \in Mine(s)
<1>1. tx[s].hop \in Hops /\ lock[tx[s].hop] = s
  BY RowKinds DEF Locking, HoldsOrWaits
<1> QED
  BY <1>1, RowKinds DEF Mine

(* No step of another transaction undoes what a transaction relies on. *)
LEMMA Others ==
  ASSUME TInv, NEW s, Frame(s), NEW d \in Sessions \ {s}
  PROVE  SessionInv(d)'
<1> PICK t \in Transaction : tx[d] = t /\ tx'[d] = t
  BY Fields DEF Frame, TxFrame, TInv
<1>1. /\ tx[d] = t /\ tx'[d] = t
      /\ \A r \in Rows : lock'[r] = d <=> lock[r] = d
      /\ \A r \in Rows : lock[r] = d => HeldByAnother(r, s)
  BY Fields DEF Frame, TxFrame, TInv, HeldByAnother
<1>2. /\ t.todo \subseteq Rows /\ t.reopened \subseteq Hops /\ t.step \in 0..2
  BY <1>1, Fields DEF TInv
<1>3. \A r \in Rows : HoldsOrWaits(d, r)' <=> HoldsOrWaits(d, r)
  BY <1>1 DEF HoldsOrWaits
<1>4. Mine(d)' = Mine(d)
  BY <1>1 DEF Mine
<1>5. /\ SessionInv(d) /\ TypeOK
  BY DEF TInv, Data
<1>6. Locking(d)'
  <2>1. t.op \in HopOps => status'[t.hop] # "none"
    BY <1>1, <1>5 DEF SessionInv, Locking, Frame, HopFrame
  <2>2. t.op \in HopOps => HoldsOrWaits(d, t.hop)'
    BY <1>3, <1>1, <1>5, RowKinds DEF SessionInv, Locking
  <2> QED
    BY <1>1, <1>4, <1>1, <1>5, <2>1, <2>2 DEF SessionInv, Locking
<1>7. t.op \in HopOps /\ t.step > 0 =>
        /\ t.hop \in Hops /\ t.by \in Members /\ t.hop \in Rows
        /\ status[t.hop] # "none" /\ HeldByAnother(t.hop, s)
  BY <1>1, <1>5, HopIsHeld, RowKinds DEF SessionInv, Locking, TInv
<1>8. t.op \in HopOps /\ t.step > 0 =>
        /\ status'[t.hop] = status[t.hop] /\ matched'[t.hop] = matched[t.hop]
        /\ creator'[t.hop] = creator[t.hop] /\ kind'[t.hop] = kind[t.hop]
        /\ \A m \in Members :
             \/ offer'[t.hop][m] = offer[t.hop][m]
             \/ offer[t.hop][m] = "pending" /\ offer'[t.hop][m] = "denied"
  BY <1>7 DEF Frame, HopFrame
<1>9. Offering(d)'
  BY <1>1, <1>5, <1>7, <1>8 DEF SessionInv, Offering, HopOps
<1>10. Accepting(d)'
  <2>1. t.op = "accept" => t.op \in HopOps /\ t.whom \in Members
    BY <1>1, <1>5 DEF HopOps, SessionInv, Locking
  <2>2. ASSUME t.op = "accept", t.step = 2, t.whom \in deleted'
        PROVE  offer'[t.hop][t.whom] # "pending"
    <3>1. CASE t.whom \in deleted
      BY <1>1, <1>5, <1>8, <2>1, <2>2, <3>1 DEF SessionInv, Accepting
    <3>2. CASE t.whom \notin deleted
      BY <1>7, <2>1, <2>2, <3>2 DEF Frame, MemberFrame
    <3> QED
      BY <3>1, <3>2
  <2> QED
    BY <1>1, <1>5, <1>8, <2>1, <2>2 DEF SessionInv, Accepting
<1>11. Completing(d)'
  <2> SUFFICES ASSUME t.op = "complete", t.step > 0
               PROVE  /\ status'[t.hop] = "accepted"
                      /\ \A m \in {creator'[t.hop], matched'[t.hop]} : HoldsOrWaits(d, m)'
                      /\ t.step = 2 =>
                           /\ t.todo = {}
                           /\ \E requested \in Nat :
                                t.hours = Allowed(requested, Balance(Payer(t.hop))',
                                                  Balance(Earner(t.hop))', policy')
    BY <1>1 DEF Completing
  <2>1. /\ t.op \in HopOps /\ status[t.hop] = "accepted"
        /\ \A m \in {creator[t.hop], matched[t.hop]} : HoldsOrWaits(d, m)
    BY <1>1, <1>5 DEF HopOps, SessionInv, Completing
  <2>2. /\ creator[t.hop] \in Members /\ matched[t.hop] \in Members
    BY <1>1, <1>5, <1>7, <2>1 DEF TInv, Data, TypeOK, MatchAgreesWithStatus
  <2>3. Payer(t.hop)' = Payer(t.hop) /\ Earner(t.hop)' = Earner(t.hop)
    BY <1>8, <2>1 DEF Payer, Earner
  <2>4. Payer(t.hop) \in {creator[t.hop], matched[t.hop]}
        /\ Earner(t.hop) \in {creator[t.hop], matched[t.hop]}
    BY DEF Payer, Earner
  <2>5. ASSUME t.step = 2
        PROVE  /\ Balance(Payer(t.hop))' = Balance(Payer(t.hop))
               /\ Balance(Earner(t.hop))' = Balance(Earner(t.hop))
    <3>1. t.todo = {}
      BY <1>1, <1>5, <2>5 DEF SessionInv, Completing
    <3>2. \A m \in {creator[t.hop], matched[t.hop]} : HeldByAnother(m, s)
      BY <1>1, <2>1, <2>2, <3>1, RowKinds DEF HoldsOrWaits
    <3>3. \A m \in {creator[t.hop], matched[t.hop]} : Balance(m)' = Balance(m)
      BY <2>2, <3>2 DEF Frame, MemberFrame
    <3> QED
      BY <2>3, <2>4, <3>3 DEF Balance
  <2>6. policy' = policy
    BY DEF Frame, MemberFrame
  <2> QED
    BY <1>3, <1>1, <1>5, <1>8, <2>1, <2>2, <2>5, <2>6, RowKinds DEF SessionInv, Completing
<1>12. Ending(d)'
  <2> SUFFICES ASSUME t.op \in EndOps, t.step = 2, NEW h \in t.reopened
               PROVE  lock'[h] = d /\ h \in AcceptedWith(t.whom)'
    BY <1>1 DEF Ending
  <2>1. h \in Hops /\ lock[h] = d /\ h \in AcceptedWith(t.whom)
    BY <1>2, <1>1, <1>5 DEF SessionInv, Ending
  <2>2. status[h] # "none" /\ HeldByAnother(h, s) /\ lock'[h] = d
    BY <1>1, <2>1, RowKinds DEF AcceptedWith
  <2>3. status'[h] = status[h] /\ matched'[h] = matched[h] /\ creator'[h] = creator[h]
    BY <2>1, <2>2 DEF Frame, HopFrame
  <2> QED
    BY <2>1, <2>2, <2>3 DEF AcceptedWith
<1>13. Deleting(d)'
  <2> SUFFICES ASSUME t.op = "delete"
               PROVE  /\ HoldsOrWaits(d, t.whom)'
                      /\ t.step > 0 => t.todo \subseteq Hops /\ t.whom \notin deleted'
                      /\ \A h \in Hops : status'[h] = "accepted" /\ matched'[h] = t.whom =>
                           /\ t.step = 1 => HoldsOrWaits(d, h)'
                           /\ t.step = 2 => h \in t.reopened
    BY <1>1 DEF Deleting
  <2>1. t.whom \in Members /\ t.whom \in Rows
    BY <1>1, <1>5, RowKinds DEF SessionInv, Locking, EndOps
  <2>2. HoldsOrWaits(d, t.whom)'
    BY <1>3, <1>1, <1>5, <2>1 DEF SessionInv, Deleting
  <2>3. t.step > 0 => lock[t.whom] = d /\ HeldByAnother(t.whom, s)
    BY <1>1, <1>5, <2>1, RowKinds DEF SessionInv, Deleting, HoldsOrWaits
  <2>4. t.step > 0 => t.todo \subseteq Hops /\ t.whom \notin deleted'
    BY <1>1, <1>5, <2>3 DEF SessionInv, Deleting, Frame, MemberFrame
  <2>5. ASSUME NEW h \in Hops, status'[h] = "accepted", matched'[h] = t.whom, t.step > 0
        PROVE  status[h] = "accepted" /\ matched[h] = t.whom
    BY <2>3, <2>5 DEF Frame, HopFrame
  <2> QED
    BY <1>3, <1>1, <1>5, <2>2, <2>4, <2>5, RowKinds DEF SessionInv, Deleting
<1> QED
  BY <1>6, <1>9, <1>10, <1>11, <1>12, <1>13 DEF SessionInv

LEMMA StepKeeps ==
  ASSUME TInv, NEW s \in Sessions, Frame(s), Data', TxTypeOK', SessionInv(s)'
  PROVE  TInv'
<1>1. \A d \in Sessions \ {s} : SessionInv(d)'
  BY Others
<1> QED
  BY <1>1 DEF TInv

(* How transactions begin, go on and end. *)
LEMMA Begun ==
  ASSUME TInv, NEW s \in Sessions, NEW t \in Transaction, Begin(s, t)
  PROVE  /\ TxTypeOK' /\ TxFrame(s)
         /\ tx'[s] = t /\ lock' = lock /\ Mine(s)' = {}
<1>1. tx[s] = Idle /\ tx' = [tx EXCEPT ![s] = t] /\ lock' = lock
  BY DEF Begin
<1>2. Mine(s) = {}
  BY <1>1, IdleIsATransaction DEF TInv, SessionInv, Locking
<1>3. \A r \in t.todo : r \in Rows /\ lock[r] # s
  BY <1>2 DEF Mine, Transaction
<1>4. tx'[s] = t /\ \A d \in Sessions \ {s} : tx'[d] = tx[d]
  BY <1>1 DEF TInv, TxTypeOK
<1>5. TxTypeOK'
  BY <1>1, <1>3, <1>4 DEF TInv, TxTypeOK
<1> QED
  BY <1>1, <1>2, <1>4, <1>5 DEF TxFrame, Mine

LEMMA Gone ==
  ASSUME TInv, NEW s \in Sessions, NEW t \in Transaction, t.step < 2,
         NEW S \in SUBSET Rows, Go(s, t, S)
  PROVE  /\ TxTypeOK' /\ TxFrame(s)
         /\ tx'[s] = [t EXCEPT !.step = t.step + 1, !.todo = S \ Mine(s)]
         /\ lock' = lock /\ Mine(s)' = Mine(s)
<1> DEFINE u == [t EXCEPT !.step = t.step + 1, !.todo = S \ Mine(s)]
<1>1. tx' = [tx EXCEPT ![s] = u] /\ lock' = lock
  BY DEF Go
<1>2. u \in Transaction /\ u.todo = S \ Mine(s)
  <2>1. t.step \in 0..2 /\ t.step + 1 \in 0..2
    BY DEF Transaction
  <2>2. S \ Mine(s) \in SUBSET Rows
    OBVIOUS
  <2> QED
    BY <2>1, <2>2 DEF Transaction
<1>3. \A r \in u.todo : lock[r] # s
  BY <1>2 DEF Mine
<1>4. tx'[s] = u /\ \A d \in Sessions \ {s} : tx'[d] = tx[d]
  BY <1>1 DEF TInv, TxTypeOK
<1> HIDE DEF u
<1>5. TxTypeOK'
  BY <1>1, <1>2, <1>3, <1>4 DEF TInv, TxTypeOK
<1> QED
  BY <1>1, <1>4, <1>5 DEF TxFrame, Mine, u

LEMMA Ended ==
  ASSUME TInv, NEW s \in Sessions, End(s)
  PROVE  TxTypeOK' /\ TxFrame(s) /\ SessionInv(s)'
<1>1. /\ tx'[s] = Idle /\ \A d \in Sessions \ {s} : tx'[d] = tx[d]
      /\ tx' \in [Sessions -> Transaction]
  BY IdleIsATransaction DEF End, TInv, TxTypeOK
<1>2. /\ \A r \in Rows : lock'[r] # s
      /\ \A r \in Rows, d \in Sessions \ {s} : lock'[r] = d <=> lock[r] = d
      /\ lock' \in [Rows -> Sessions \cup {NoSession}]
  BY RowKinds DEF End, TInv, TxTypeOK
<1>3. \A d \in Sessions : \A r \in tx'[d].todo : lock'[r] # d
  <2> TAKE d \in Sessions
  <2>1. CASE d = s
    BY <1>1, <2>1, IdleIsATransaction
  <2>2. CASE d # s
    BY <1>1, <1>2, <2>2, Fields DEF TInv, TxTypeOK
  <2> QED
    BY <2>1, <2>2
<1>4. SessionInv(s)'
  BY <1>1, <1>2, IdleIsATransaction
  DEF SessionInv, Locking, Offering, Accepting, Completing, Ending, Deleting, Mine, HopOps, EndOps
<1> QED
  BY <1>1, <1>2, <1>3, <1>4 DEF TxTypeOK, TxFrame

(* A statement that writes nothing keeps the data. *)
LEMMA DataUntouched ==
  ASSUME TInv, NEW s, TxFrame(s), events' \in Nat,
         UNCHANGED <<hopVars, due, offer, bankVars, orgVars, memberVars>>
  PROVE  Data' /\ Frame(s)
<1> USE DEF hopVars, bankVars, orgVars, memberVars
<1>1. TypeOK' /\ FiniteLedger' /\ LedgerMatchesHops'
  BY DEF TInv, Data, TypeOK, FiniteLedger, LedgerMatchesHops
<1>2. MatchAgreesWithStatus' /\ MatchesAreConsented' /\ NoOfferLeftWaiting'
      /\ NoMatchWithDeleted' /\ (active \cap deleted = {})'
  BY DEF TInv, Data, MatchAgreesWithStatus, MatchesAreConsented, NoOfferLeftWaiting,
         NoMatchWithDeleted
<1>3. HopFrame(s)
  BY DEF HopFrame
<1>4. MemberFrame(s)
  BY DEF MemberFrame, Balance
<1> QED
  BY <1>1, <1>2, <1>3, <1>4 DEF Data, Frame

LEMMA BeginKeeps ==
  ASSUME TInv, NEW s \in Sessions, NEW t \in Transaction, Begin(s, t), events' \in Nat,
         UNCHANGED <<hopVars, due, offer, bankVars, orgVars, memberVars>>,
         t.op # "idle", t.step = 0,
         t.op = "create" => t.by \in Members /\ t.hours \in Estimates,
         t.op \in HopOps => /\ t.hop \in Hops /\ t.by \in Members /\ t.hop \in t.todo
                           /\ status[t.hop] # "none",
         t.op \in {"accept", "decline"} => t.whom \in Members \ {t.by},
         t.op \in EndOps => t.whom \in Members /\ t.whom \in t.todo
  PROVE  TInv'
<1>1. TxTypeOK' /\ TxFrame(s) /\ tx'[s] = t
  BY Begun
<1>2. Data' /\ Frame(s)
  BY <1>1, DataUntouched
<1>3. SessionInv(s)'
  BY <1>1
  DEF SessionInv, Locking, Offering, Accepting, Completing, Ending, Deleting, HoldsOrWaits,
      HopOps, EndOps, hopVars
<1> QED
  BY <1>1, <1>2, <1>3, StepKeeps

LEMMA GoKeeps ==
  ASSUME TInv, NEW s \in Sessions, NEW t \in Transaction, t.step < 2,
         NEW S \in SUBSET Rows, Go(s, t, S)
  PROVE  /\ SessionInv(s)' => TInv'
         /\ UNCHANGED vars /\ lock' = lock /\ Mine(s)' = Mine(s)
         /\ tx'[s].op = t.op /\ tx'[s].step = t.step + 1 /\ tx'[s].todo = S \ Mine(s)
         /\ tx'[s].hop = t.hop /\ tx'[s].by = t.by /\ tx'[s].whom = t.whom
         /\ tx'[s].hours = t.hours /\ tx'[s].reopened = t.reopened
<1>1. /\ TxTypeOK' /\ TxFrame(s) /\ lock' = lock /\ Mine(s)' = Mine(s)
      /\ tx'[s] = [t EXCEPT !.step = t.step + 1, !.todo = S \ Mine(s)]
  BY Gone
<1>2. UNCHANGED vars
  BY DEF Go
<1>3. Data' /\ Frame(s)
  BY <1>1, <1>2, DataUntouched DEF vars, TInv, Data, TypeOK
<1>4. SessionInv(s)' => TInv'
  BY <1>1, <1>3, StepKeeps
<1> QED
  BY <1>1, <1>2, <1>4 DEF Transaction

-----------------------------------------------------------------------------
(* The statements that write nothing. *)

LEMMA PostBegins ==
  ASSUME TInv, NEW s \in Sessions, NEW m \in Members, NEW k \in Kinds,
         NEW hours \in Estimates, BeginCreate(s, m, k, hours)
  PROVE  TInv'
<1> DEFINE t == [Idle EXCEPT !.op = "create", !.by = m, !.kind = k, !.hours = hours]
<1>1. /\ t \in Transaction /\ t.op = "create" /\ t.by = m /\ t.hours = hours /\ t.step = 0
  <2>1. m \in Members /\ k \in Kinds /\ hours \in Nat /\ "create" \in Ops
    BY HoursAssumption DEF Ops
  <2>2. t \in Transaction
    BY <2>1, IdleIsATransaction DEF Transaction
  <2> QED
    BY <2>2 DEF Idle
<1>2. /\ Begin(s, t) /\ UNCHANGED vars
  BY DEF BeginCreate
<1> HIDE DEF t
<1> QED
  BY <1>1, <1>2, BeginKeeps DEF vars, TInv, Data, TypeOK, HopOps, EndOps

LEMMA OfferBegins ==
  ASSUME TInv, NEW s \in Sessions, NEW h \in Hops, NEW m \in Members, BeginOffer(s, h, m)
  PROVE  TInv'
<1> DEFINE t == [Idle EXCEPT !.op = "offer", !.hop = h, !.by = m, !.todo = {h}]
<1>1. /\ t \in Transaction /\ t.op = "offer" /\ t.hop = h /\ t.by = m /\ t.todo = {h}
      /\ t.step = 0
  <2>1. {h} \subseteq Rows /\ "offer" \in Ops
    BY RowKinds DEF Ops
  <2>2. t \in Transaction
    BY <2>1, IdleIsATransaction DEF Transaction
  <2> QED
    BY <2>2 DEF Idle
<1>2. /\ Begin(s, t) /\ status[h] = "open" /\ UNCHANGED vars
  BY DEF BeginOffer
<1> HIDE DEF t
<1> QED
  BY <1>1, <1>2, BeginKeeps DEF vars, TInv, Data, TypeOK, EndOps

LEMMA AnswerBegins ==
  ASSUME TInv, NEW s \in Sessions, NEW op \in {"accept", "decline"}, NEW h \in Hops,
         NEW requester \in Members, NEW m \in Members, BeginAnswer(s, op, h, requester, m)
  PROVE  TInv'
<1> DEFINE t == [Idle EXCEPT !.op = op, !.hop = h, !.by = requester, !.whom = m, !.todo = {h}]
<1>1. /\ t \in Transaction /\ t.op = op /\ t.hop = h /\ t.by = requester /\ t.whom = m
      /\ t.todo = {h} /\ t.step = 0
  <2>1. {h} \subseteq Rows /\ op \in Ops
    BY RowKinds DEF Ops
  <2>2. t \in Transaction
    BY <2>1, IdleIsATransaction DEF Transaction
  <2> QED
    BY <2>2 DEF Idle
<1>2. /\ Begin(s, t) /\ status[h] = "open" /\ requester # m /\ UNCHANGED vars
  BY DEF BeginAnswer
<1> HIDE DEF t
<1> QED
  BY <1>1, <1>2, BeginKeeps DEF vars, TInv, Data, TypeOK, EndOps

LEMMA CancelBegins ==
  ASSUME TInv, NEW s \in Sessions, NEW h \in Hops, NEW m \in Members, BeginCancel(s, h, m)
  PROVE  TInv'
<1> DEFINE t == [Idle EXCEPT !.op = "cancel", !.hop = h, !.by = m, !.todo = {h, creator[h]}]
<1>1. /\ Begin(s, t) /\ status[h] \in LiveStatuses /\ creator[h] = m /\ UNCHANGED vars
  BY DEF BeginCancel
<1>2. /\ t \in Transaction /\ t.op = "cancel" /\ t.hop = h /\ t.by = m /\ h \in t.todo
      /\ t.step = 0
  <2>1. {h, creator[h]} \subseteq Rows /\ "cancel" \in Ops
    BY <1>1, RowKinds DEF Ops
  <2>2. t \in Transaction
    BY <2>1, IdleIsATransaction DEF Transaction
  <2> QED
    BY <2>2 DEF Idle
<1> HIDE DEF t
<1> QED
  BY <1>1, <1>2, BeginKeeps DEF vars, TInv, Data, TypeOK, EndOps, LiveStatuses

LEMMA CompleteBegins ==
  ASSUME TInv, NEW s \in Sessions, NEW h \in Hops, NEW m \in Members,
         NEW entered \in FinalHours \cup {0}, BeginComplete(s, h, m, entered)
  PROVE  TInv'
<1> DEFINE t == [Idle EXCEPT !.op = "complete", !.hop = h, !.by = m, !.hours = entered,
                             !.todo = {h}]
<1>1. /\ t \in Transaction /\ t.op = "complete" /\ t.hop = h /\ t.by = m /\ t.todo = {h}
      /\ t.step = 0
  <2>1. {h} \subseteq Rows /\ "complete" \in Ops /\ entered \in Nat
    BY RowKinds, HoursAssumption DEF Ops
  <2>2. t \in Transaction
    BY <2>1, IdleIsATransaction DEF Transaction
  <2> QED
    BY <2>2 DEF Idle
<1>2. /\ Begin(s, t) /\ status[h] = "accepted" /\ UNCHANGED vars
  BY DEF BeginComplete
<1> HIDE DEF t
<1> QED
  BY <1>1, <1>2, BeginKeeps DEF vars, TInv, Data, TypeOK, EndOps

LEMMA ExpireBegins ==
  ASSUME TInv, NEW s \in Sessions, BeginExpire(s)
  PROVE  TInv'
<1> DEFINE t == [Idle EXCEPT !.op = "expire", !.todo = Overdue]
<1>1. /\ t \in Transaction /\ t.op = "expire" /\ t.step = 0
  <2>1. Overdue \subseteq Rows /\ "expire" \in Ops
    BY RowKinds DEF Ops, Overdue, TInv, Data, TypeOK
  <2>2. t \in Transaction
    BY <2>1, IdleIsATransaction DEF Transaction
  <2> QED
    BY <2>2 DEF Idle
<1>2. /\ Begin(s, t) /\ UNCHANGED vars
  BY DEF BeginExpire
<1> HIDE DEF t
<1> QED
  BY <1>1, <1>2, BeginKeeps DEF vars, TInv, Data, TypeOK, HopOps, EndOps

LEMMA AccountEndBegins ==
  ASSUME TInv, NEW s \in Sessions, NEW op \in EndOps, NEW m \in Members,
         BeginAccountEnd(s, op, m)
  PROVE  TInv'
<1> DEFINE t == [Idle EXCEPT !.op = op, !.whom = m, !.todo = {m}]
<1>1. /\ t \in Transaction /\ t.op = op /\ t.whom = m /\ t.todo = {m} /\ t.step = 0
  <2>1. {m} \subseteq Rows /\ op \in Ops
    BY RowKinds DEF Ops, EndOps
  <2>2. t \in Transaction
    BY <2>1, IdleIsATransaction DEF Transaction
  <2> QED
    BY <2>2 DEF Idle
<1>2. /\ Begin(s, t) /\ events' \in Nat
      /\ UNCHANGED <<hopVars, due, offer, bankVars, orgVars, memberVars>>
  BY DEF BeginAccountEnd, Event, TInv, Data, TypeOK
<1> HIDE DEF t
<1> QED
  BY <1>1, <1>2, BeginKeeps DEF HopOps, EndOps

LEMMA AcquireKeeps ==
  ASSUME TInv, NEW s \in Sessions, Acquire(s)
  PROVE  TInv'
<1>1. PICK r \in tx[s].todo :
        /\ lock[r] = NoSession /\ lock' = [lock EXCEPT ![r] = s]
        /\ tx' = [tx EXCEPT ![s].todo = @ \ {r}] /\ UNCHANGED vars
  BY DEF Acquire
<1> PICK t \in Transaction : tx[s] = t
  BY Fields DEF TInv
<1>2. /\ tx[s] = t /\ r \in t.todo /\ r \in Rows /\ t.todo \subseteq Rows
      /\ tx'[s] = [t EXCEPT !.todo = t.todo \ {r}]
      /\ \A d \in Sessions \ {s} : tx'[d] = tx[d]
      /\ tx' = [tx EXCEPT ![s] = [t EXCEPT !.todo = t.todo \ {r}]]
  BY <1>1, Fields DEF TInv, TxTypeOK
<1>3. /\ tx'[s] \in Transaction /\ tx'[s].todo = t.todo \ {r}
      /\ tx'[s].op = t.op /\ tx'[s].step = t.step /\ tx'[s].hop = t.hop /\ tx'[s].by = t.by
      /\ tx'[s].whom = t.whom /\ tx'[s].hours = t.hours /\ tx'[s].reopened = t.reopened
  BY <1>2 DEF Transaction
<1>4. TxTypeOK' /\ TxFrame(s)
  <2>1. /\ tx' \in [Sessions -> Transaction] /\ lock' \in [Rows -> Sessions \cup {NoSession}]
        /\ \A q \in Rows : lock'[q] = IF q = r THEN s ELSE lock[q]
    BY <1>1, <1>2, <1>3 DEF TInv, TxTypeOK
  <2>2. \A d \in Sessions : \A q \in tx'[d].todo : lock'[q] # d
    <3> TAKE d \in Sessions
    <3>1. CASE d = s
      BY <1>2, <1>3, <2>1, <3>1 DEF TInv, TxTypeOK
    <3>2. CASE d # s
      <4>1. tx'[d] = tx[d] /\ tx[d].todo \subseteq Rows
        BY <1>2, <3>2, Fields DEF TInv
      <4> QED
        BY <2>1, <3>2, <4>1 DEF TInv, TxTypeOK
    <3> QED
      BY <3>1, <3>2
  <2> QED
    BY <1>1, <1>2, <2>1, <2>2, RowKinds DEF TxTypeOK, TxFrame
<1>5. Data' /\ Frame(s)
  BY <1>1, <1>4, DataUntouched DEF vars, TInv, Data, TypeOK
<1>6. /\ \A q \in Rows : HoldsOrWaits(s, q) => HoldsOrWaits(s, q)'
      /\ \A q \in Rows : lock[q] = s => lock'[q] = s
  BY <1>1, <1>2, <1>3 DEF HoldsOrWaits, TInv, TxTypeOK
<1>7. SessionInv(s) /\ TypeOK /\ MatchAgreesWithStatus
  BY DEF TInv, Data
<1>8. UNCHANGED <<status, creator, matched, kind, offer, deleted, policy, transfers, adjusted>>
  BY <1>1 DEF vars, hopVars, memberVars, orgVars, bankVars
<1>9. t.op # "idle"
  BY <1>2, <1>7, IdleIsATransaction DEF SessionInv, Locking
<1>10. Locking(s)'
  <2>1. t.op \in HopOps => HoldsOrWaits(s, t.hop)'
    BY <1>2, <1>6, <1>7, RowKinds DEF SessionInv, Locking
  <2> QED
    BY <1>2, <1>3, <1>7, <1>8, <1>9, <2>1 DEF SessionInv, Locking
<1>11. Offering(s)' /\ Accepting(s)'
  BY <1>2, <1>3, <1>7, <1>8 DEF SessionInv, Offering, Accepting
<1>12. Completing(s)'
  <2> SUFFICES ASSUME t.op = "complete", t.step > 0
               PROVE  Completing(s)'
    BY <1>3 DEF Completing
  <2>1. /\ t.hop \in Hops /\ status[t.hop] = "accepted"
        /\ \A m \in {creator[t.hop], matched[t.hop]} : HoldsOrWaits(s, m)
    BY <1>2, <1>7 DEF SessionInv, Locking, Completing, HopOps
  <2>2. creator[t.hop] \in Rows /\ matched[t.hop] \in Rows
    BY <1>7, <2>1, RowKinds DEF TypeOK, MatchAgreesWithStatus
  <2>3. t.step # 2
    BY <1>2, <1>7 DEF SessionInv, Completing
  <2> QED
    BY <1>3, <1>6, <1>8, <2>1, <2>2, <2>3 DEF Completing
<1>13. Ending(s)'
  <2>1. t.reopened \subseteq Rows
    BY RowKinds DEF Transaction
  <2> QED
    BY <1>2, <1>3, <1>6, <1>7, <1>8, <2>1 DEF SessionInv, Ending, AcceptedWith
<1>14. Deleting(s)'
  <2> SUFFICES ASSUME t.op = "delete"
               PROVE  Deleting(s)'
    BY <1>3 DEF Deleting
  <2>1. t.whom \in Rows
    BY <1>2, <1>7, RowKinds DEF SessionInv, Locking, EndOps
  <2>2. \A h \in Hops : h \in Rows
    BY RowKinds
  <2> QED
    BY <1>2, <1>3, <1>6, <1>7, <1>8, <2>1, <2>2 DEF SessionInv, Deleting
<1> QED
  BY <1>4, <1>5, <1>10, <1>11, <1>12, <1>13, <1>14, StepKeeps DEF SessionInv

LEMMA RollBackKeeps ==
  ASSUME TInv, NEW s \in Sessions, RollBack(s)
  PROVE  TInv'
<1>1. End(s) /\ UNCHANGED vars
  BY DEF RollBack
<1>2. TxTypeOK' /\ TxFrame(s) /\ SessionInv(s)'
  BY <1>1, Ended
<1>3. Data' /\ Frame(s)
  BY <1>1, <1>2, DataUntouched DEF vars, TInv, Data, TypeOK
<1> QED
  BY <1>2, <1>3, StepKeeps

(* The steps below go on with the transaction t of s, which has locked all  *)
(* that its statement asked for; SessionInv(s)' is what they have to show.  *)
LEMMA CheckOfferKeeps ==
  ASSUME TInv, NEW s \in Sessions, CheckOffer(s)
  PROVE  TInv'
<1> PICK t \in Transaction : tx[s] = t
  BY Fields DEF TInv
<1>1. /\ tx[s] = t /\ t.op = "offer" /\ t.step = 0 /\ t.todo = {} /\ Go(s, t, {})
      /\ status[t.hop] = "open" /\ creator[t.hop] # t.by
      /\ offer[t.hop][t.by] \in {"none", "denied"}
  BY DEF CheckOffer, At
<1>2. /\ SessionInv(s)' => TInv'
      /\ UNCHANGED vars /\ lock' = lock
      /\ tx'[s].op = "offer" /\ tx'[s].step = 1 /\ tx'[s].todo = {}
      /\ tx'[s].hop = t.hop /\ tx'[s].by = t.by
  BY <1>1, GoKeeps
<1>3. /\ t.hop \in Hops /\ t.by \in Members /\ lock[t.hop] = s
  BY <1>1, HopIsHeld DEF TInv, SessionInv, Locking, HopOps
<1> QED
  BY <1>1, <1>2, <1>3
  DEF SessionInv, Locking, Offering, Accepting, Completing, Ending, Deleting, HoldsOrWaits,
      HopOps, EndOps, vars, hopVars

LEMMA LockOtherOfferersKeeps ==
  ASSUME TInv, NEW s \in Sessions, LockOtherOfferers(s)
  PROVE  TInv'
<1> PICK t \in Transaction : tx[s] = t
  BY Fields DEF TInv
<1> DEFINE S == {m \in Members \ {t.whom} : offer[t.hop][m] = "pending"}
<1>1. /\ tx[s] = t /\ t.op = "accept" /\ t.step = 0 /\ t.todo = {} /\ Go(s, t, S)
      /\ status[t.hop] = "open" /\ creator[t.hop] = t.by
  BY DEF LockOtherOfferers, MayAnswer, At
<1>2. S \in SUBSET Rows /\ S \subseteq Members
  BY RowKinds
<1> HIDE DEF S
<1>3. /\ SessionInv(s)' => TInv'
      /\ UNCHANGED vars /\ lock' = lock
      /\ tx'[s].op = "accept" /\ tx'[s].step = 1 /\ tx'[s].todo = S \ Mine(s)
      /\ tx'[s].hop = t.hop /\ tx'[s].by = t.by /\ tx'[s].whom = t.whom
  BY <1>1, <1>2, GoKeeps
<1>4. /\ t.hop \in Hops /\ t.by \in Members /\ lock[t.hop] = s /\ t.whom \in Members \ {t.by}
  BY <1>1, HopIsHeld DEF TInv, SessionInv, Locking, HopOps
<1> QED
  BY <1>1, <1>2, <1>3, <1>4
  DEF SessionInv, Locking, Offering, Accepting, Completing, Ending, Deleting, HoldsOrWaits,
      HopOps, EndOps, vars, hopVars

LEMMA CheckAcceptKeeps ==
  ASSUME TInv, NEW s \in Sessions, CheckAccept(s)
  PROVE  TInv'
<1> PICK t \in Transaction : tx[s] = t
  BY Fields DEF TInv
<1>1. /\ tx[s] = t /\ t.op = "accept" /\ t.step = 1 /\ t.todo = {} /\ Go(s, t, {})
      /\ t.whom \in active
  BY DEF CheckAccept, ActiveMembership, At
<1>2. /\ SessionInv(s)' => TInv'
      /\ UNCHANGED vars /\ lock' = lock
      /\ tx'[s].op = "accept" /\ tx'[s].step = 2 /\ tx'[s].todo = {}
      /\ tx'[s].hop = t.hop /\ tx'[s].by = t.by /\ tx'[s].whom = t.whom
  BY <1>1, GoKeeps
<1>3. /\ t.hop \in Hops /\ t.by \in Members /\ lock[t.hop] = s /\ t.whom \in Members \ {t.by}
      /\ status[t.hop] = "open" /\ creator[t.hop] = t.by
  BY <1>1, HopIsHeld DEF TInv, SessionInv, Locking, Accepting, HopOps
<1>4. t.whom \notin deleted
  BY <1>1 DEF TInv, Data
<1> QED
  BY <1>1, <1>2, <1>3, <1>4
  DEF SessionInv, Locking, Offering, Accepting, Completing, Ending, Deleting, HoldsOrWaits,
      HopOps, EndOps, vars, hopVars, memberVars

LEMMA LockParticipantsKeeps ==
  ASSUME TInv, NEW s \in Sessions, LockParticipants(s)
  PROVE  TInv'
<1> PICK t \in Transaction : tx[s] = t
  BY Fields DEF TInv
<1> DEFINE u == [t EXCEPT !.hours = Requested(t)]
           S == {creator[t.hop], matched[t.hop]}
<1>1. /\ tx[s] = t /\ t.op = "complete" /\ t.step = 0 /\ t.todo = {} /\ Go(s, u, S)
      /\ status[t.hop] = "accepted"
  BY DEF LockParticipants, At
<1>2. /\ t.hop \in Hops /\ t.by \in Members /\ lock[t.hop] = s
  BY <1>1, HopIsHeld DEF TInv, SessionInv, Locking, HopOps
<1>3. S \in SUBSET Rows /\ S \subseteq Members
  BY <1>1, <1>2, RowKinds DEF TInv, Data, TypeOK, MatchAgreesWithStatus
<1>4. /\ u \in Transaction /\ u.op = t.op /\ u.step = t.step /\ u.hop = t.hop /\ u.by = t.by
  <2>1. Requested(t) \in Nat
    BY <1>2 DEF Requested, Transaction, TInv, Data, TypeOK
  <2> QED
    BY <2>1 DEF Transaction
<1> HIDE DEF u, S
<1>5. /\ SessionInv(s)' => TInv'
      /\ UNCHANGED vars /\ lock' = lock
      /\ tx'[s].op = "complete" /\ tx'[s].step = 1 /\ tx'[s].todo = S \ Mine(s)
      /\ tx'[s].hop = t.hop /\ tx'[s].by = t.by
  BY <1>1, <1>3, <1>4, GoKeeps
<1>6. \A r \in S : HoldsOrWaits(s, r)'
  BY <1>3, <1>5 DEF HoldsOrWaits, Mine
<1>7. Completing(s)'
  BY <1>1, <1>5, <1>6 DEF Completing, S, vars, hopVars
<1> QED
  BY <1>1, <1>2, <1>3, <1>5, <1>7
  DEF SessionInv, Locking, Offering, Accepting, Ending, Deleting, HoldsOrWaits,
      HopOps, EndOps, vars, hopVars

LEMMA ReadBalancesKeeps ==
  ASSUME TInv, NEW s \in Sessions, ReadBalances(s)
  PROVE  TInv'
<1> PICK t \in Transaction : tx[s] = t
  BY Fields DEF TInv
<1> DEFINE hours == Allowed(t.hours, Balance(Payer(t.hop)), Balance(Earner(t.hop)), policy)
           u == [t EXCEPT !.hours = hours]
<1>1. /\ tx[s] = t /\ t.op = "complete" /\ t.step = 1 /\ t.todo = {} /\ Go(s, u, {})
  BY DEF ReadBalances, At
<1>2. /\ t.hop \in Hops /\ t.by \in Members /\ lock[t.hop] = s /\ status[t.hop] = "accepted"
      /\ \A m \in {creator[t.hop], matched[t.hop]} : lock[m] = s
  BY <1>1, HopIsHeld DEF TInv, SessionInv, Locking, Completing, HoldsOrWaits, HopOps
<1>3. /\ u \in Transaction /\ u.op = t.op /\ u.step = t.step /\ u.hop = t.hop /\ u.by = t.by
      /\ u.hours = hours
  <2>1. hours \in Nat
    BY AllowedIsNat
  <2> HIDE DEF hours
  <2> QED
    BY <2>1 DEF Transaction
<1>4. hours = Allowed(t.hours, Balance(Payer(t.hop)), Balance(Earner(t.hop)), policy)
      /\ t.hours \in Nat
  BY DEF Transaction
<1> HIDE DEF u, hours
<1>5. /\ SessionInv(s)' => TInv'
      /\ UNCHANGED vars /\ lock' = lock
      /\ tx'[s].op = "complete" /\ tx'[s].step = 2 /\ tx'[s].todo = {}
      /\ tx'[s].hop = t.hop /\ tx'[s].by = t.by /\ tx'[s].hours = hours
  BY <1>1, <1>3, GoKeeps
<1>6. Completing(s)'
  <2>1. /\ Payer(t.hop)' = Payer(t.hop) /\ Earner(t.hop)' = Earner(t.hop) /\ policy' = policy
        /\ UNCHANGED <<status, creator, matched, transfers, adjusted>>
    BY <1>5 DEF Payer, Earner, vars, hopVars, orgVars, bankVars
  <2>2. /\ Payer(tx[s].hop)' = Payer(t.hop) /\ Earner(tx[s].hop)' = Earner(t.hop)
    BY <1>5 DEF Payer, Earner, vars, hopVars
  <2>3. /\ Balance(Payer(tx[s].hop))' = Balance(Payer(t.hop))
        /\ Balance(Earner(tx[s].hop))' = Balance(Earner(t.hop))
    BY <2>1, <2>2 DEF Balance
  <2>4. tx'[s].hours =
          Allowed(t.hours, Balance(Payer(tx[s].hop))', Balance(Earner(tx[s].hop))', policy')
    BY <1>4, <1>5, <2>1, <2>3
  <2>5. /\ status'[tx'[s].hop] = "accepted" /\ tx'[s].todo = {}
        /\ \A m \in {creator'[tx'[s].hop], matched'[tx'[s].hop]} : lock'[m] = s
    BY <1>2, <1>5, <2>1
  <2> QED
    BY <1>4, <2>4, <2>5 DEF Completing, HoldsOrWaits
<1> QED
  BY <1>1, <1>2, <1>5, <1>6
  DEF SessionInv, Locking, Offering, Accepting, Ending, Deleting, HoldsOrWaits,
      HopOps, EndOps, vars, hopVars

LEMMA LockAcceptedKeeps ==
  ASSUME TInv, NEW s \in Sessions, LockAccepted(s)
  PROVE  TInv'
<1> PICK t \in Transaction : tx[s] = t
  BY Fields DEF TInv
<1> DEFINE S == AcceptedWith(t.whom)
<1>1. /\ tx[s] = t /\ t.op \in EndOps /\ t.step = 0 /\ t.todo = {} /\ Go(s, t, S)
      /\ t.op = "delete" => t.whom \notin deleted
  BY DEF LockAccepted, At, EndOps
<1>2. /\ S \in SUBSET Rows /\ S \subseteq Hops
  BY RowKinds DEF AcceptedWith
<1>3. t.whom \in Members /\ (t.op = "delete" => lock[t.whom] = s)
  BY <1>1 DEF TInv, SessionInv, Locking, Deleting, HoldsOrWaits
<1>4. \A h \in Hops : status[h] = "accepted" /\ matched[h] = t.whom => h \in S
  BY <1>3, MembersAssumption DEF AcceptedWith
<1> HIDE DEF S
<1>5. /\ SessionInv(s)' => TInv'
      /\ UNCHANGED vars /\ lock' = lock
      /\ tx'[s].op = t.op /\ tx'[s].step = 1 /\ tx'[s].todo = S \ Mine(s)
      /\ tx'[s].whom = t.whom
  BY <1>1, <1>2, GoKeeps
<1>6. \A r \in S : HoldsOrWaits(s, r)'
  BY <1>2, <1>5 DEF HoldsOrWaits, Mine
<1>7. Deleting(s)'
  BY <1>1, <1>2, <1>3, <1>4, <1>5, <1>6
  DEF Deleting, HoldsOrWaits, vars, hopVars, memberVars
<1> QED
  BY <1>1, <1>3, <1>5, <1>7
  DEF SessionInv, Locking, Offering, Accepting, Completing, Ending, HopOps, EndOps

LEMMA ReopenKeeps ==
  ASSUME TInv, NEW s \in Sessions, Reopen(s)
  PROVE  TInv'
<1> PICK t \in Transaction : tx[s] = t
  BY Fields DEF TInv
<1> DEFINE reopened == AcceptedWith(t.whom) \cap Mine(s)
           own == {h \in Hops : creator[h] = t.whom /\ (status[h] = "open" \/ h \in reopened)}
           u == [t EXCEPT !.reopened = reopened]
           S == IF t.op = "delete" THEN own ELSE {}
<1>1. /\ tx[s] = t /\ t.op \in EndOps /\ t.step = 1 /\ t.todo = {} /\ Go(s, u, S)
  BY DEF Reopen, At, EndOps
<1>2. /\ S \in SUBSET Rows /\ S \subseteq Hops
  BY RowKinds
<1>3. /\ reopened \subseteq Hops
      /\ \A h \in reopened : lock[h] = s /\ h \in AcceptedWith(t.whom)
  BY DEF AcceptedWith, Mine
<1>4. /\ t.whom \in Members /\ t.whom \in Rows
      /\ t.op = "delete" => lock[t.whom] = s /\ t.whom \notin deleted
  BY <1>1, RowKinds DEF TInv, SessionInv, Locking, Deleting, HoldsOrWaits
<1>5. ASSUME t.op = "delete", NEW h \in Hops, status[h] = "accepted", matched[h] = t.whom
      PROVE  h \in reopened
  <2>1. lock[h] = s
    BY <1>1, <1>5 DEF TInv, SessionInv, Deleting, HoldsOrWaits
  <2> QED
    BY <1>4, <1>5, <2>1, RowKinds, MembersAssumption DEF AcceptedWith, Mine
<1>6. /\ u \in Transaction /\ u.op = t.op /\ u.step = t.step /\ u.whom = t.whom
      /\ u.reopened = reopened
  <2> HIDE DEF reopened
  <2> QED
    BY <1>3 DEF Transaction
<1> HIDE DEF u, S, reopened
<1>7. /\ SessionInv(s)' => TInv'
      /\ UNCHANGED vars /\ lock' = lock
      /\ tx'[s].op = t.op /\ tx'[s].step = 2 /\ tx'[s].todo = S \ Mine(s)
      /\ tx'[s].whom = t.whom /\ tx'[s].reopened = reopened
  BY <1>1, <1>2, <1>6, GoKeeps
<1>8. Ending(s)'
  <2>1. AcceptedWith(t.whom)' = AcceptedWith(t.whom)
    BY <1>7 DEF AcceptedWith, vars, hopVars
  <2> QED
    BY <1>3, <1>7, <2>1 DEF Ending, AcceptedWith, vars, hopVars
<1>9. Deleting(s)'
  BY <1>2, <1>4, <1>5, <1>7 DEF Deleting, HoldsOrWaits, vars, hopVars, memberVars
<1> QED
  BY <1>1, <1>4, <1>7, <1>8, <1>9
  DEF SessionInv, Locking, Offering, Accepting, Completing, HopOps, EndOps

-----------------------------------------------------------------------------
(* The statements that write, and commit.                                  *)

OutcomeKept(h) ==
  /\ status[h] \in {"completed", "expired", "deleted"} =>
       UNCHANGED <<status[h], creator[h], matched[h], awarded[h]>>
  /\ status[h] = "canceled" => status'[h] \in {"canceled", "deleted"}

OutcomesKept == \A h \in Hops : OutcomeKept(h)

LEMMA CommitKeeps ==
  ASSUME TInv, NEW s \in Sessions, End(s), HopFrame(s), MemberFrame(s), Data'
  PROVE  TInv'
<1>1. TxTypeOK' /\ TxFrame(s) /\ SessionInv(s)'
  BY Ended
<1> QED
  BY <1>1, StepKeeps DEF Frame

(* Most writes leave the ledger, the accounts and the policy alone. *)
LEMMA HopsOnly ==
  ASSUME TInv, NEW s,
         UNCHANGED <<transfers, adjusted, orgVars, memberVars>>
  PROVE  /\ FiniteLedger' /\ MemberFrame(s)
         /\ (active \cap deleted = {})' /\ deleted' = deleted /\ transfers' = transfers
<1>1. FiniteLedger' /\ (active \cap deleted = {})'
  BY DEF TInv, Data, FiniteLedger, memberVars
<1>2. MemberFrame(s)
  BY DEF MemberFrame, Balance, orgVars, memberVars
<1> QED
  BY <1>1, <1>2 DEF memberVars

LEMMA InsertHopKeeps ==
  ASSUME TInv, NEW s \in Sessions, NEW h \in Hops, InsertHop(s, h)
  PROVE  TInv' /\ OutcomesKept
<1> PICK t \in Transaction : tx[s] = t
  BY Fields DEF TInv
<1>1. /\ End(s) /\ status[h] = "none"
      /\ status' = [status EXCEPT ![h] = "open"]
      /\ kind' = [kind EXCEPT ![h] = t.kind]
      /\ creator' = [creator EXCEPT ![h] = t.by]
      /\ estimate' = [estimate EXCEPT ![h] = t.hours]
      /\ UNCHANGED <<matched, awarded, due, offer, transfers, adjusted, orgVars, memberVars,
                     events>>
  BY DEF InsertHop, bankVars
<1>2. /\ t.by \in Members /\ t.hours \in 1..8 /\ t.kind \in Kinds
  <2>1. t.by \in Members /\ t.hours \in Estimates
    BY DEF TInv, SessionInv, Locking, InsertHop, At
  <2> QED
    BY <2>1, HoursAssumption DEF Transaction
<1> USE DEF TInv, Data, TypeOK
<1>3. FiniteLedger' /\ MemberFrame(s) /\ (active \cap deleted = {})'
  BY <1>1, HopsOnly
<1>4. TypeOK'
  BY <1>1, <1>2 DEF Statuses, orgVars, memberVars
<1>5. MatchAgreesWithStatus'
  BY <1>1, <1>2, MembersAssumption DEF MatchAgreesWithStatus
<1>6. LedgerMatchesHops'
  BY <1>1, LedgerUntouched
<1>7. MatchesAreConsented' /\ NoMatchWithDeleted'
  BY <1>1 DEF MatchesAreConsented, NoMatchWithDeleted, memberVars
<1>8. NoOfferLeftWaiting'
  BY <1>1 DEF NoOfferLeftWaiting
<1>9. HopFrame(s)
  BY <1>1 DEF HopFrame
<1>10. OutcomesKept
  BY <1>1 DEF OutcomesKept, OutcomeKept
<1> QED
  BY <1>1, <1>3, <1>4, <1>5, <1>6, <1>7, <1>8, <1>9, <1>10, CommitKeeps

LEMMA WriteOfferKeeps ==
  ASSUME TInv, NEW s \in Sessions, WriteOffer(s)
  PROVE  TInv' /\ OutcomesKept
<1> PICK t \in Transaction : tx[s] = t
  BY Fields DEF TInv
<1>1. /\ End(s)
      /\ offer' = [offer EXCEPT ![t.hop][t.by] = "pending"]
      /\ UNCHANGED <<hopVars, due, transfers, adjusted, orgVars, memberVars, events>>
  BY DEF WriteOffer, bankVars
<1>2. /\ t.hop \in Hops /\ lock[t.hop] = s /\ t.by \in Members
      /\ status[t.hop] = "open" /\ creator[t.hop] # t.by
      /\ offer[t.hop][t.by] \in {"none", "denied"}
  BY HopIsHeld DEF TInv, SessionInv, Locking, Offering, HopOps, WriteOffer, At
<1> USE DEF TInv, Data, TypeOK, hopVars
<1>3. FiniteLedger' /\ MemberFrame(s) /\ (active \cap deleted = {})'
  BY <1>1, HopsOnly
<1>4. TypeOK'
  BY <1>1, <1>2 DEF OfferStatuses, orgVars, memberVars
<1>5. MatchAgreesWithStatus' /\ NoMatchWithDeleted'
  BY <1>1 DEF MatchAgreesWithStatus, NoMatchWithDeleted, memberVars
<1>6. LedgerMatchesHops'
  BY <1>1 DEF LedgerMatchesHops
<1>7. MatchesAreConsented'
  BY <1>1, <1>2 DEF MatchesAreConsented
<1>8. NoOfferLeftWaiting'
  BY <1>1, <1>2 DEF NoOfferLeftWaiting
<1>9. HopFrame(s)
  BY <1>1, <1>2 DEF HopFrame, HeldByAnother
<1>10. OutcomesKept
  BY <1>1 DEF OutcomesKept, OutcomeKept
<1> QED
  BY <1>1, <1>3, <1>4, <1>5, <1>6, <1>7, <1>8, <1>9, <1>10, CommitKeeps

LEMMA WriteDeclineKeeps ==
  ASSUME TInv, NEW s \in Sessions, WriteDecline(s)
  PROVE  TInv' /\ OutcomesKept
<1> PICK t \in Transaction : tx[s] = t
  BY Fields DEF TInv
<1>1. /\ End(s) /\ offer[t.hop][t.whom] = "pending"
      /\ offer' = [offer EXCEPT ![t.hop][t.whom] = "denied"]
      /\ UNCHANGED <<hopVars, due, transfers, adjusted, orgVars, memberVars, events>>
  BY DEF WriteDecline, bankVars
<1>2. t.hop \in Hops /\ t.whom \in Members
  BY DEF TInv, SessionInv, Locking, HopOps, WriteDecline, At
<1> USE DEF TInv, Data, TypeOK, hopVars
<1>3. FiniteLedger' /\ MemberFrame(s) /\ (active \cap deleted = {})'
  BY <1>1, HopsOnly
<1>4. TypeOK'
  BY <1>1, <1>2 DEF OfferStatuses, orgVars, memberVars
<1>5. MatchAgreesWithStatus' /\ NoMatchWithDeleted'
  BY <1>1 DEF MatchAgreesWithStatus, NoMatchWithDeleted, memberVars
<1>6. LedgerMatchesHops'
  BY <1>1 DEF LedgerMatchesHops
<1>7. MatchesAreConsented' /\ NoOfferLeftWaiting'
  BY <1>1, <1>2 DEF MatchesAreConsented, NoOfferLeftWaiting
<1>8. HopFrame(s)
  BY <1>1, <1>2 DEF HopFrame
<1>9. OutcomesKept
  BY <1>1 DEF OutcomesKept, OutcomeKept
<1> QED
  BY <1>1, <1>3, <1>4, <1>5, <1>6, <1>7, <1>8, <1>9, CommitKeeps

(* The match is not deleted, and no deletion of it is under way: the write  *)
(* of its id into the hop would wait for that.                              *)
LEMMA WriteAcceptKeeps ==
  ASSUME TInv, NEW s \in Sessions, WriteAccept(s)
  PROVE  TInv' /\ OutcomesKept
<1> PICK t \in Transaction : tx[s] = t
  BY Fields DEF TInv
<1>1. /\ End(s) /\ offer[t.hop][t.whom] = "pending" /\ ReferTo(s, {t.whom})
      /\ status' = [status EXCEPT ![t.hop] = "accepted"]
      /\ matched' = [matched EXCEPT ![t.hop] = t.whom]
      /\ offer' = [offer EXCEPT ![t.hop] = AcceptOffer(offer[t.hop], t.whom)]
      /\ UNCHANGED <<kind, creator, estimate, awarded, due, transfers, adjusted, orgVars,
                     memberVars, events>>
  BY DEF WriteAccept, bankVars
<1>2. /\ t.hop \in Hops /\ lock[t.hop] = s /\ t.whom \in Members \ {t.by} /\ t.by \in Members
      /\ status[t.hop] = "open" /\ creator[t.hop] = t.by /\ t.whom \notin deleted
  BY <1>1, HopIsHeld DEF TInv, SessionInv, Locking, Accepting, HopOps, WriteAccept, At
<1>3. \A m \in Members :
        offer'[t.hop][m] = IF m = t.whom THEN "accepted"
                           ELSE IF offer[t.hop][m] = "pending" THEN "denied" ELSE offer[t.hop][m]
  BY <1>1, <1>2 DEF AcceptOffer, DenyPending, TInv, Data, TypeOK
<1>4. offer'[t.hop] \in [Members -> OfferStatuses]
  BY <1>1, <1>2 DEF AcceptOffer, DenyPending, OfferStatuses, TInv, Data, TypeOK
<1> USE DEF TInv, Data, TypeOK
<1>5. FiniteLedger' /\ MemberFrame(s) /\ (active \cap deleted = {})' /\ deleted' = deleted
  BY <1>1, HopsOnly
<1>6. TypeOK'
  BY <1>1, <1>2, <1>4 DEF Statuses, orgVars, memberVars
<1>7. MatchAgreesWithStatus'
  BY <1>1, <1>2, MembersAssumption DEF MatchAgreesWithStatus
<1>8. LedgerMatchesHops'
  BY <1>1, <1>2, LedgerUntouched
<1>9. NoMatchWithDeleted'
  BY <1>1, <1>2, <1>5 DEF NoMatchWithDeleted
<1>10. MatchesAreConsented'
  BY <1>1, <1>2, <1>3 DEF MatchesAreConsented
<1>11. NoOfferLeftWaiting'
  BY <1>1, <1>2, <1>3 DEF NoOfferLeftWaiting
<1>12. HopFrame(s)
  <2>1. \A d \in Sessions \ {s} : tx[d].op = "delete" => lock[t.whom] # d
    BY <1>1, <1>2, RowKinds DEF ReferTo, ForUpdate
  <2>2. \A g \in Hops : g # t.hop => /\ status'[g] = status[g] /\ matched'[g] = matched[g]
                                    /\ offer'[g] = offer[g]
    BY <1>1, <1>2
  <2>3. ~HeldByAnother(t.hop, s) /\ status'[t.hop] = "accepted" /\ matched'[t.hop] = t.whom
    BY <1>1, <1>2 DEF HeldByAnother
  <2> QED
    BY <1>1, <1>2, <2>1, <2>2, <2>3 DEF HopFrame
<1>13. OutcomesKept
  BY <1>1, <1>2 DEF OutcomesKept, OutcomeKept
<1> QED
  BY <1>1, <1>5, <1>6, <1>7, <1>8, <1>9, <1>10, <1>11, <1>12, <1>13, CommitKeeps

LEMMA WriteCancelKeeps ==
  ASSUME TInv, NEW s \in Sessions, WriteCancel(s)
  PROVE  TInv' /\ OutcomesKept
<1> PICK t \in Transaction : tx[s] = t
  BY Fields DEF TInv
<1>1. /\ End(s) /\ status[t.hop] \in LiveStatuses
      /\ status' = [status EXCEPT ![t.hop] = "canceled"]
      /\ offer' = [offer EXCEPT ![t.hop] = DenyPending(offer[t.hop], Members)]
      /\ UNCHANGED <<kind, creator, estimate, matched, awarded, due, transfers, adjusted, orgVars,
                     memberVars, events>>
  BY DEF WriteCancel, bankVars
<1>2. t.hop \in Hops /\ lock[t.hop] = s
  BY HopIsHeld DEF TInv, SessionInv, HopOps, WriteCancel, At
<1>3. \A m \in Members :
        offer'[t.hop][m] = IF offer[t.hop][m] = "pending" THEN "denied" ELSE offer[t.hop][m]
  BY <1>1, <1>2 DEF DenyPending, TInv, Data, TypeOK
<1>4. offer'[t.hop] \in [Members -> OfferStatuses]
  BY <1>1, <1>2 DEF DenyPending, OfferStatuses, TInv, Data, TypeOK
<1> USE DEF TInv, Data, TypeOK
<1>5. FiniteLedger' /\ MemberFrame(s) /\ (active \cap deleted = {})' /\ deleted' = deleted
  BY <1>1, HopsOnly
<1>6. TypeOK'
  BY <1>1, <1>2, <1>4 DEF Statuses, orgVars, memberVars
<1>7. MatchAgreesWithStatus'
  BY <1>1, <1>2 DEF MatchAgreesWithStatus, LiveStatuses
<1>8. LedgerMatchesHops'
  BY <1>1, <1>2, LedgerUntouched DEF LiveStatuses
<1>9. NoMatchWithDeleted' /\ MatchesAreConsented'
  BY <1>1, <1>2, <1>5 DEF NoMatchWithDeleted, MatchesAreConsented
<1>10. NoOfferLeftWaiting'
  BY <1>1, <1>2, <1>3 DEF NoOfferLeftWaiting
<1>11. HopFrame(s)
  BY <1>1, <1>2 DEF HopFrame, HeldByAnother, LiveStatuses
<1>12. OutcomesKept
  BY <1>1, <1>2 DEF OutcomesKept, OutcomeKept, LiveStatuses
<1> QED
  BY <1>1, <1>5, <1>6, <1>7, <1>8, <1>9, <1>10, <1>11, <1>12, CommitKeeps

LEMMA WriteExpireKeeps ==
  ASSUME TInv, NEW s \in Sessions, WriteExpire(s)
  PROVE  TInv' /\ OutcomesKept
<1> DEFINE expired == Mine(s) \cap Hops \cap Overdue
<1>1. /\ End(s)
      /\ status' = [h \in Hops |-> IF h \in expired THEN "expired" ELSE status[h]]
      /\ UNCHANGED <<kind, creator, estimate, matched, awarded, due, offer, transfers, adjusted,
                     orgVars, memberVars, events>>
  BY DEF WriteExpire, Expire, bankVars
<1>2. \A h \in expired : h \in Hops /\ lock[h] = s /\ status[h] \in {"open", "accepted"}
  BY DEF Mine, Overdue, LiveStatuses
<1> HIDE DEF expired
<1> USE DEF TInv, Data, TypeOK
<1>3. FiniteLedger' /\ MemberFrame(s) /\ (active \cap deleted = {})' /\ deleted' = deleted
  BY <1>1, HopsOnly
<1>4. TypeOK'
  BY <1>1 DEF Statuses, orgVars, memberVars
<1>5. MatchAgreesWithStatus'
  BY <1>1, <1>2 DEF MatchAgreesWithStatus
<1>6. LedgerMatchesHops'
  BY <1>1, <1>2, LedgerUntouched
<1>7. NoMatchWithDeleted' /\ MatchesAreConsented'
  BY <1>1, <1>3 DEF NoMatchWithDeleted, MatchesAreConsented
<1>8. NoOfferLeftWaiting'
  BY <1>1 DEF NoOfferLeftWaiting
<1>9. HopFrame(s)
  BY <1>1, <1>2 DEF HopFrame, HeldByAnother
<1>10. OutcomesKept
  BY <1>1, <1>2 DEF OutcomesKept, OutcomeKept
<1> QED
  BY <1>1, <1>3, <1>4, <1>5, <1>6, <1>7, <1>8, <1>9, <1>10, CommitKeeps

(* What a completion writes: one new row, between two members it has        *)
(* locked, of hours that are cut to the balances they have now.             *)
LEMMA CompletionWrites ==
  ASSUME TInv, NEW s \in Sessions, WriteCompletion(s)
  PROVE  \E h \in Hops, requested \in Nat, hours \in Nat :
           LET row == [hop |-> h, from |-> Payer(h), to |-> Earner(h), hours |-> hours]
           IN  /\ hours = Allowed(requested, Balance(Payer(h)), Balance(Earner(h)), policy)
               /\ row \in Transfers /\ row \notin transfers /\ row.from # row.to
               /\ lock[h] = s /\ lock[row.from] = s /\ lock[row.to] = s
               /\ status[h] = "accepted" /\ status' = [status EXCEPT ![h] = "completed"]
               /\ awarded' = [awarded EXCEPT ![h] = hours]
               /\ transfers' = transfers \cup {row}
               /\ UNCHANGED <<kind, creator, estimate, matched, due, offer, adjusted, orgVars,
                              memberVars, events>>
<1> PICK t \in Transaction : tx[s] = t
  BY Fields DEF TInv
<1> DEFINE h == t.hop
           row == [hop |-> h, from |-> Payer(h), to |-> Earner(h), hours |-> t.hours]
<1>1. /\ t.op = "complete" /\ t.step = 2 /\ t.todo = {} /\ t.hours \in Nat
  BY DEF WriteCompletion, At, Transaction
<1>2. /\ h \in Hops /\ lock[h] = s
  BY <1>1, HopIsHeld DEF TInv, SessionInv, HopOps
<1>3. /\ status[h] = "accepted" /\ \A m \in {creator[h], matched[h]} : lock[m] = s
      /\ \E requested \in Nat :
           t.hours = Allowed(requested, Balance(Payer(h)), Balance(Earner(h)), policy)
  BY <1>1 DEF TInv, SessionInv, Completing, HoldsOrWaits
<1>4. /\ status' = [status EXCEPT ![h] = "completed"]
      /\ awarded' = [awarded EXCEPT ![h] = t.hours]
      /\ transfers' = transfers \cup {row}
      /\ UNCHANGED <<kind, creator, estimate, matched, due, offer, adjusted, orgVars,
                     memberVars, events>>
  BY <1>3 DEF WriteCompletion
<1>5. /\ Payer(h) \in {creator[h], matched[h]} /\ Earner(h) \in {creator[h], matched[h]}
      /\ Payer(h) # Earner(h) /\ Payer(h) \in Members /\ Earner(h) \in Members
  BY <1>2, <1>3 DEF Payer, Earner, TInv, Data, TypeOK, MatchAgreesWithStatus
<1>6. row \in Transfers /\ row \notin transfers /\ row.from # row.to
      /\ lock[row.from] = s /\ lock[row.to] = s
  <2>1. \A u \in transfers : u.hop # h
    BY <1>3 DEF TInv, Data, LedgerMatchesHops
  <2> QED
    BY <1>1, <1>2, <1>3, <1>5, <2>1 DEF Transfers
<1> QED
  BY <1>1, <1>2, <1>3, <1>4, <1>6

LEMMA WriteCompletionKeeps ==
  ASSUME TInv, NEW s \in Sessions, WriteCompletion(s)
  PROVE  TInv' /\ OutcomesKept
<1>1. PICK h \in Hops, requested \in Nat, hours \in Nat :
        LET row == [hop |-> h, from |-> Payer(h), to |-> Earner(h), hours |-> hours]
        IN  /\ hours = Allowed(requested, Balance(Payer(h)), Balance(Earner(h)), policy)
            /\ row \in Transfers /\ row \notin transfers /\ row.from # row.to
            /\ lock[h] = s /\ lock[row.from] = s /\ lock[row.to] = s
            /\ status[h] = "accepted" /\ status' = [status EXCEPT ![h] = "completed"]
            /\ awarded' = [awarded EXCEPT ![h] = hours]
            /\ transfers' = transfers \cup {row}
            /\ UNCHANGED <<kind, creator, estimate, matched, due, offer, adjusted, orgVars,
                           memberVars, events>>
  BY CompletionWrites
<1> DEFINE row == [hop |-> h, from |-> Payer(h), to |-> Earner(h), hours |-> hours]
<1>2. /\ row \in Transfers /\ row \notin transfers /\ row.from # row.to
      /\ lock[row.from] = s /\ lock[row.to] = s
      /\ transfers' = transfers \cup {row} /\ adjusted' = adjusted
  BY <1>1
<1>3. /\ lock[h] = s /\ status[h] = "accepted" /\ status' = [status EXCEPT ![h] = "completed"]
      /\ awarded' = [awarded EXCEPT ![h] = hours]
      /\ UNCHANGED <<kind, creator, estimate, matched, due, offer, orgVars, memberVars, events>>
  BY <1>1
<1>4. End(s)
  BY DEF WriteCompletion
<1>5. LedgerMatchesHops'
  BY <1>1, LedgerGrows DEF TInv, Data
<1> HIDE DEF row
<1> USE DEF TInv, Data
<1>6. /\ FiniteLedger'
      /\ \A m \in Members :
           Balance(m)' = IF m = row.to THEN Balance(m) + row.hours
                         ELSE IF m = row.from THEN Balance(m) - row.hours
                         ELSE Balance(m)
  BY <1>2, BalanceAfterMove
<1>7. MemberFrame(s)
  <2>1. ASSUME NEW m \in Members, HeldByAnother(m, s)
        PROVE  Balance(m)' = Balance(m)
    <3>1. m # row.to /\ m # row.from
      BY <1>2, <2>1 DEF HeldByAnother
    <3> QED
      BY <1>6, <3>1
  <2> QED
    BY <1>3, <2>1 DEF MemberFrame, orgVars, memberVars
<1>8. TypeOK'
  BY <1>2, <1>3 DEF TypeOK, Statuses, orgVars, memberVars
<1>9. MatchAgreesWithStatus'
  BY <1>3 DEF TypeOK, MatchAgreesWithStatus
<1>10. MatchesAreConsented' /\ NoOfferLeftWaiting'
  BY <1>3 DEF TypeOK, MatchesAreConsented, NoOfferLeftWaiting
<1>11. NoMatchWithDeleted' /\ (active \cap deleted = {})'
  BY <1>3 DEF TypeOK, NoMatchWithDeleted, memberVars
<1>12. HopFrame(s)
  BY <1>3 DEF TypeOK, HopFrame, HeldByAnother
<1>13. OutcomesKept
  BY <1>3 DEF TypeOK, OutcomesKept, OutcomeKept
<1> QED
  BY <1>4, <1>5, <1>6, <1>7, <1>8, <1>9, <1>10, <1>11, <1>12, <1>13, CommitKeeps

LEMMA WriteDisabledKeeps ==
  ASSUME TInv, NEW s \in Sessions, WriteDisabled(s)
  PROVE  TInv' /\ OutcomesKept
<1> PICK t \in Transaction : tx[s] = t
  BY Fields DEF TInv
<1>1. /\ End(s) /\ t.op = "disable" /\ t.step = 2
      /\ status' = [h \in Hops |-> IF h \in t.reopened THEN "open" ELSE status[h]]
      /\ matched' = [h \in Hops |-> IF h \in t.reopened THEN NoMember ELSE matched[h]]
      /\ enabled' = enabled \ {t.whom}
      /\ UNCHANGED <<kind, creator, estimate, awarded, due, offer, transfers, adjusted, orgVars,
                     active, joined, deleted, events>>
  BY DEF WriteDisabled, Unmatched, At, bankVars
<1>2. \A h \in t.reopened : h \in Hops /\ lock[h] = s /\ status[h] = "accepted"
  BY <1>1 DEF TInv, SessionInv, Ending, EndOps, AcceptedWith, Transaction
<1> USE DEF TInv, Data, TypeOK
<1>3. FiniteLedger' /\ (active \cap deleted = {})'
  BY <1>1 DEF FiniteLedger
<1>4. MemberFrame(s)
  BY <1>1 DEF MemberFrame, Balance, orgVars
<1>5. TypeOK'
  BY <1>1 DEF Statuses, orgVars
<1>6. MatchAgreesWithStatus'
  BY <1>1, <1>2 DEF MatchAgreesWithStatus
<1>7. LedgerMatchesHops'
  BY <1>1, <1>2, LedgerUntouched
<1>8. NoMatchWithDeleted' /\ MatchesAreConsented'
  BY <1>1, <1>2 DEF NoMatchWithDeleted, MatchesAreConsented
<1>9. NoOfferLeftWaiting'
  BY <1>1, <1>2 DEF NoOfferLeftWaiting
<1>10. HopFrame(s)
  BY <1>1, <1>2 DEF HopFrame, HeldByAnother
<1>11. OutcomesKept
  BY <1>1, <1>2 DEF OutcomesKept, OutcomeKept
<1> QED
  BY <1>1, <1>3, <1>4, <1>5, <1>6, <1>7, <1>8, <1>9, <1>10, <1>11, CommitKeeps

LEMMA WriteDeletedKeeps ==
  ASSUME TInv, NEW s \in Sessions, WriteDeleted(s)
  PROVE  TInv' /\ OutcomesKept
<1> PICK t \in Transaction : tx[s] = t
  BY Fields DEF TInv
<1> DEFINE canceled == {h \in Mine(s) \cap Hops :
                          creator[h] = t.whom /\ (status[h] = "open" \/ h \in t.reopened)}
<1>1. /\ End(s) /\ t.op = "delete" /\ t.step = 2 /\ t.todo = {}
      /\ status' = [h \in Hops |-> IF h \in canceled THEN "canceled"
                                    ELSE IF h \in t.reopened THEN "open" ELSE status[h]]
      /\ matched' = [h \in Hops |-> IF h \in t.reopened THEN NoMember ELSE matched[h]]
      /\ offer' = [h \in Hops |->
           DenyPending(offer[h], IF h \in canceled THEN Members ELSE {t.whom})]
      /\ active' = active \ {t.whom} /\ enabled' = enabled \ {t.whom}
      /\ deleted' = deleted \cup {t.whom}
      /\ UNCHANGED <<kind, creator, estimate, awarded, due, transfers, adjusted, orgVars, joined,
                     events>>
  BY DEF WriteDeleted, Unmatched, At, bankVars
<1>2. \A h \in t.reopened : h \in Hops /\ lock[h] = s /\ status[h] = "accepted"
  BY <1>1 DEF TInv, SessionInv, Ending, EndOps, AcceptedWith, Transaction
<1>3. \A h \in canceled :
        /\ h \in Hops /\ lock[h] = s /\ creator[h] = t.whom
        /\ status[h] = "open" \/ (status[h] = "accepted" /\ h \in t.reopened)
  BY <1>2, RowKinds DEF Mine
<1>4. /\ t.whom \in Members /\ lock[t.whom] = s /\ t.whom \notin deleted
      /\ \A h \in Hops : status[h] = "accepted" /\ matched[h] = t.whom => h \in t.reopened
  BY <1>1 DEF TInv, SessionInv, Locking, Deleting, HoldsOrWaits, EndOps
<1> HIDE DEF canceled
<1>5. \A h \in Hops, m \in Members :
        /\ h \in canceled \/ m = t.whom => offer'[h][m] # "pending"
        /\ \/ offer'[h][m] = offer[h][m]
           \/ offer[h][m] = "pending" /\ offer'[h][m] = "denied"
  BY <1>1 DEF DenyPending
<1>6. offer' \in [Hops -> [Members -> OfferStatuses]]
  <2>1. ASSUME NEW h \in Hops
        PROVE  offer'[h] \in [Members -> OfferStatuses]
    BY <1>1 DEF DenyPending, OfferStatuses, TInv, Data, TypeOK
  <2> QED
    BY <1>1, <2>1
<1> USE DEF TInv, Data, TypeOK
<1>7. FiniteLedger' /\ (active \cap deleted = {})'
  BY <1>1 DEF FiniteLedger
<1>8. MemberFrame(s)
  <2>1. \A m \in Members : Balance(m)' = Balance(m)
    BY <1>1 DEF Balance
  <2>2. \A h \in Hops : offer'[h][t.whom] # "pending"
    BY <1>4, <1>5
  <2> QED
    BY <1>1, <1>4, <2>1, <2>2 DEF MemberFrame, HeldByAnother, orgVars
<1>9. TypeOK'
  BY <1>1, <1>4, <1>6 DEF Statuses, orgVars
<1>10. MatchAgreesWithStatus'
  BY <1>1, <1>2, <1>3 DEF MatchAgreesWithStatus
<1>11. LedgerMatchesHops'
  BY <1>1, <1>2, <1>3, LedgerUntouched
<1>12. \A h \in Hops :
         status'[h] \in {"accepted", "completed"} =>
           /\ status'[h] = status[h] /\ matched'[h] = matched[h] /\ matched[h] \in Members
           /\ h \notin t.reopened
  BY <1>1, <1>2, <1>3 DEF MatchAgreesWithStatus
<1>13. NoMatchWithDeleted'
  BY <1>1, <1>4, <1>12 DEF NoMatchWithDeleted
<1>14. MatchesAreConsented' /\ NoOfferLeftWaiting'
  <2>1. MatchesAreConsented'
    BY <1>5, <1>12 DEF MatchesAreConsented
  <2>2. NoOfferLeftWaiting'
    <3> SUFFICES ASSUME ~DirectAccept, NEW h \in Hops, NEW m \in Members,
                        offer'[h][m] = "pending"
                 PROVE  status'[h] \in {"open", "expired"} /\ m # creator'[h]
      BY DEF NoOfferLeftWaiting
    <3>1. h \notin canceled /\ offer[h][m] = "pending"
      BY <1>5
    <3>2. status[h] \in {"open", "expired"} /\ m # creator[h]
      BY <3>1 DEF NoOfferLeftWaiting
    <3> QED
      BY <1>1, <3>1, <3>2
  <2> QED
    BY <2>1, <2>2
<1>15. HopFrame(s)
  <2>1. \A h \in Hops : HeldByAnother(h, s) => h \notin canceled /\ h \notin t.reopened
    BY <1>2, <1>3 DEF HeldByAnother
  <2>2. \A h \in Hops :
          /\ status[h] # "none" => status'[h] # "none"
          /\ HeldByAnother(h, s) => status'[h] = status[h] /\ matched'[h] = matched[h]
    BY <1>1, <2>1
  <2> QED
    BY <1>1, <1>5, <1>12, <2>2 DEF HopFrame
<1>16. OutcomesKept
  BY <1>1, <1>2, <1>3 DEF OutcomesKept, OutcomeKept
<1> QED
  BY <1>1, <1>7, <1>8, <1>9, <1>10, <1>11, <1>12, <1>13, <1>14, <1>15, <1>16, CommitKeeps

(* The operations of one statement that belong to no session. *)
LEMMA OneStatementKeeps ==
  ASSUME TInv, OneStatement
  PROVE  TInv' /\ OutcomesKept
<1>1. tx' = tx /\ lock' = lock
  BY DEF OneStatement, txVars
<1>2. TxTypeOK' /\ TxFrame(NoSession)
  BY <1>1 DEF TInv, TxTypeOK, TxFrame
<1>3. ASSUME Data', Frame(NoSession)
      PROVE  TInv'
  <2>1. \A d \in Sessions : SessionInv(d)'
    BY <1>3, Others, SessionsAssumption
  <2> QED
    BY <1>2, <1>3, <2>1 DEF TInv
<1>4. ASSUME events' \in Nat, UNCHANGED <<hopVars, offer, transfers, adjusted, orgVars, deleted>>,
             due' \subseteq Hops, active' \subseteq active, joined' = joined, enabled' = enabled
      PROVE  TInv' /\ OutcomesKept
  <2> USE <1>4 DEF TInv, Data, TypeOK, hopVars, orgVars
  <2>1. TypeOK' /\ FiniteLedger' /\ (active \cap deleted = {})'
    BY DEF FiniteLedger
  <2>2. MatchAgreesWithStatus' /\ MatchesAreConsented' /\ NoOfferLeftWaiting'
        /\ NoMatchWithDeleted'
    BY DEF MatchAgreesWithStatus, MatchesAreConsented, NoOfferLeftWaiting, NoMatchWithDeleted
  <2>3. LedgerMatchesHops'
    BY DEF LedgerMatchesHops
  <2>4. HopFrame(NoSession) /\ MemberFrame(NoSession) /\ OutcomesKept
    BY DEF HopFrame, MemberFrame, Balance, OutcomesKept, OutcomeKept
  <2> QED
    BY <1>2, <1>3, <2>1, <2>2, <2>3, <2>4 DEF Frame
<1>5. ASSUME NEW h \in Hops, FallDue(h)
      PROVE  TInv' /\ OutcomesKept
  BY <1>4, <1>5 DEF FallDue, bankVars, memberVars, TInv, Data, TypeOK
<1>6. ASSUME NEW m \in Members, LeaveOrganization(m)
      PROVE  TInv' /\ OutcomesKept
  BY <1>4, <1>6 DEF LeaveOrganization, EndMembership, Event, bankVars, TInv, Data, TypeOK
<1>7. ASSUME NEW h \in Hops, lock[h] = NoSession, AdminExpireHop(h)
      PROVE  TInv' /\ OutcomesKept
  <2>1. /\ status[h] \in {"open", "accepted"} /\ status' = [status EXCEPT ![h] = "expired"]
        /\ UNCHANGED <<kind, creator, estimate, matched, awarded, due, offer, transfers, adjusted,
                       orgVars, memberVars, events>>
    BY <1>7 DEF AdminExpireHop, LiveStatuses, bankVars
  <2> USE DEF TInv, Data, TypeOK
  <2>2. FiniteLedger' /\ MemberFrame(NoSession) /\ (active \cap deleted = {})'
    BY <2>1, HopsOnly
  <2>3. TypeOK'
    BY <2>1 DEF Statuses, orgVars, memberVars
  <2>4. MatchAgreesWithStatus'
    BY <2>1 DEF MatchAgreesWithStatus
  <2>5. LedgerMatchesHops'
    BY <2>1, LedgerUntouched
  <2>6. NoMatchWithDeleted' /\ MatchesAreConsented' /\ NoOfferLeftWaiting'
    BY <2>1 DEF NoMatchWithDeleted, MatchesAreConsented, NoOfferLeftWaiting, memberVars
  <2>7. HopFrame(NoSession)
    BY <1>7, <2>1, RowKinds DEF HopFrame, HeldByAnother
  <2>8. OutcomesKept
    BY <2>1 DEF OutcomesKept, OutcomeKept
  <2> QED
    BY <1>2, <1>3, <2>2, <2>3, <2>4, <2>5, <2>6, <2>7, <2>8 DEF Frame
<1> QED
  BY <1>5, <1>6, <1>7 DEF OneStatement

-----------------------------------------------------------------------------
(* Every step.                                                             *)

(* The statements that write nothing, and those that write and commit. *)
Reads(s) ==
  \/ \E m \in Members, k \in Kinds, hours \in Estimates : BeginCreate(s, m, k, hours)
  \/ \E h \in Hops, m \in Members : BeginOffer(s, h, m) \/ BeginCancel(s, h, m)
  \/ \E op \in {"accept", "decline"}, h \in Hops, requester, m \in Members :
       BeginAnswer(s, op, h, requester, m)
  \/ \E h \in Hops, m \in Members, entered \in FinalHours \cup {0} : BeginComplete(s, h, m, entered)
  \/ BeginExpire(s)
  \/ \E op \in EndOps, m \in Members : BeginAccountEnd(s, op, m)
  \/ Acquire(s) \/ RollBack(s)
  \/ CheckOffer(s) \/ LockOtherOfferers(s) \/ CheckAccept(s)
  \/ LockParticipants(s) \/ ReadBalances(s)
  \/ LockAccepted(s) \/ Reopen(s)

Writes(s) ==
  \/ \E h \in Hops : InsertHop(s, h)
  \/ WriteOffer(s) \/ WriteAccept(s) \/ WriteDecline(s)
  \/ WriteCancel(s) \/ WriteCompletion(s) \/ WriteExpire(s)
  \/ WriteDisabled(s) \/ WriteDeleted(s)

LEMMA StepKinds == TNext => OneStatement \/ \E s \in Sessions : Reads(s) \/ Writes(s)
  BY DEF TNext, Post, TakeUp, Answer, Settle, EndAccount, Reads, Writes, EndOps

LEMMA ReadsWriteNothing ==
  ASSUME NEW s \in Sessions, Reads(s)
  PROVE  UNCHANGED <<hopVars, due, offer, bankVars, orgVars, memberVars>>
<1>1. CASE UNCHANGED vars
  BY <1>1 DEF vars
<1>2. ASSUME NEW op \in EndOps, NEW m \in Members, BeginAccountEnd(s, op, m)
      PROVE  UNCHANGED <<hopVars, due, offer, bankVars, orgVars, memberVars>>
  BY <1>2 DEF BeginAccountEnd
<1>3. \/ UNCHANGED vars
      \/ \E op \in EndOps, m \in Members : BeginAccountEnd(s, op, m)
  BY DEF Reads, BeginCreate, BeginOffer, BeginCancel, BeginAnswer, BeginComplete, BeginExpire,
         Acquire, RollBack, CheckOffer, LockOtherOfferers, CheckAccept, LockParticipants,
         ReadBalances, LockAccepted, Reopen, Go
<1> QED
  BY <1>1, <1>2, <1>3

LEMMA ReadsKeep ==
  ASSUME TInv, NEW s \in Sessions, Reads(s)
  PROVE  TInv'
  BY PostBegins, OfferBegins, AnswerBegins, CancelBegins, CompleteBegins, ExpireBegins,
     AccountEndBegins, AcquireKeeps, RollBackKeeps, CheckOfferKeeps, LockOtherOfferersKeeps,
     CheckAcceptKeeps, LockParticipantsKeeps, ReadBalancesKeeps, LockAcceptedKeeps, ReopenKeeps
  DEF Reads

LEMMA WritesKeep ==
  ASSUME TInv, NEW s \in Sessions, Writes(s)
  PROVE  TInv' /\ OutcomesKept
  BY InsertHopKeeps, WriteOfferKeeps, WriteAcceptKeeps, WriteDeclineKeeps, WriteCancelKeeps,
     WriteCompletionKeeps, WriteExpireKeeps, WriteDisabledKeeps, WriteDeletedKeeps
  DEF Writes

LEMMA InitTInv == TInit => TInv
<1> SUFFICES ASSUME TInit PROVE TInv
  OBVIOUS
<1>1. Init /\ tx = [s \in Sessions |-> Idle] /\ lock = [r \in Rows |-> NoSession]
  BY DEF TInit
<1>2. TypeOK /\ FiniteLedger /\ MatchAgreesWithStatus /\ LedgerMatchesHops
      /\ MatchesAreConsented /\ NoOfferLeftWaiting
  BY <1>1, InitIInv, InitFiniteLedger DEF IInv
<1>3. NoMatchWithDeleted /\ active \cap deleted = {}
  BY <1>1 DEF Init, NoMatchWithDeleted
<1>4. TxTypeOK
  BY <1>1, IdleIsATransaction DEF TxTypeOK
<1>5. ASSUME NEW s \in Sessions
      PROVE  SessionInv(s)
  <2>1. tx[s] = Idle /\ Mine(s) = {}
    BY <1>1, RowKinds DEF Mine
  <2> QED
    BY <2>1, IdleIsATransaction
    DEF SessionInv, Locking, Offering, Accepting, Completing, Ending, Deleting, HopOps, EndOps
<1> QED
  BY <1>2, <1>3, <1>4, <1>5 DEF TInv, Data

LEMMA NextTInv == TInv /\ [TNext]_tvars => TInv' /\ OutcomesKept
<1> SUFFICES ASSUME TInv, [TNext]_tvars PROVE TInv' /\ OutcomesKept
  OBVIOUS
<1>1. CASE UNCHANGED tvars
  <2>1. UNCHANGED vars /\ tx' = tx /\ lock' = lock
    BY <1>1 DEF tvars, txVars
  <2>2. TxFrame(NoSession) /\ TxTypeOK'
    BY <2>1 DEF TxFrame, TInv, TxTypeOK
  <2>3. Data' /\ Frame(NoSession)
    BY <2>1, <2>2, DataUntouched DEF vars, TInv, Data, TypeOK
  <2>4. \A d \in Sessions : SessionInv(d)'
    BY <2>3, Others, SessionsAssumption
  <2> QED
    BY <2>1, <2>2, <2>3, <2>4 DEF TInv, OutcomesKept, OutcomeKept, vars, hopVars
<1>2. CASE OneStatement
  BY <1>2, OneStatementKeeps
<1>3. ASSUME NEW s \in Sessions, Reads(s)
      PROVE  TInv' /\ OutcomesKept
  BY <1>3, ReadsKeep, ReadsWriteNothing DEF OutcomesKept, OutcomeKept, hopVars
<1>4. ASSUME NEW s \in Sessions, Writes(s)
      PROVE  TInv' /\ OutcomesKept
  BY <1>4, WritesKeep
<1> QED
  BY <1>1, <1>2, <1>3, <1>4, StepKinds

(* The inductive invariant: the data agree between any two statements, and   *)
(* what a transaction has checked under its locks is true until it commits.  *)
THEOREM LockDiscipline == TSpec => []TInv
  BY InitTInv, NextTInv, PTL DEF TSpec

(* Every variable keeps its type, and no session waits for a row it holds.   *)
THEOREM TransactionTypes == TSpec => []TTypeOK
<1>1. TInv => TTypeOK
  BY DEF TInv, Data, TxTypeOK, TTypeOK
<1> QED
  BY <1>1, LockDiscipline, PTL

(* A hop's status and its participants agree between any two statements.     *)
THEOREM StatementsAgree == TSpec => []MatchAgreesWithStatus
<1>1. TInv => MatchAgreesWithStatus
  BY DEF TInv, Data
<1> QED
  BY <1>1, LockDiscipline, PTL

(* Two completions of one hop, or a completion beside a cancellation or an   *)
(* expiry, never move its hours twice or for nothing, although the rows the  *)
(* UPDATE affected are not counted before the INSERT.                        *)
THEOREM LedgerSurvivesRaces == TSpec => []LedgerMatchesHops
<1>1. TInv => LedgerMatchesHops
  BY DEF TInv, Data
<1> QED
  BY <1>1, LockDiscipline, PTL

(* However acceptances, withdrawals and deletions of accounts interleave,    *)
(* the match of a hop is a member whose own offer was accepted.              *)
THEOREM ConsentSurvivesRaces == TSpec => []MatchesAreConsented
<1>1. TInv => MatchesAreConsented
  BY DEF TInv, Data
<1> QED
  BY <1>1, LockDiscipline, PTL

(* No offer is written, or left, pending on a hop that is matched, completed *)
(* or canceled, whatever was read before the hop was locked.                 *)
THEOREM OffersSurviveRaces == TSpec => []NoOfferLeftWaiting
<1>1. TInv => NoOfferLeftWaiting
  BY DEF TInv, Data
<1> QED
  BY <1>1, LockDiscipline, PTL

(* A deletion of an account cannot slip in between the check of an           *)
(* offerer's membership and the match: the foreign key's lock waits for it.  *)
THEOREM NobodyDeletedIsMatched == TSpec => []NoMatchWithDeleted
<1>1. TInv => NoMatchWithDeleted
  BY DEF TInv, Data
<1> QED
  BY <1>1, LockDiscipline, PTL

(* No statement changes a completed, expired or deleted hop or revives a     *)
(* canceled one, whatever its transaction had read of the hop before.        *)
THEOREM OutcomesSurviveRaces == TSpec => OutcomesAreFinal
<1>1. TInv /\ [TNext]_tvars => [OutcomesKept]_vars
  BY NextTInv
<1> QED
  BY <1>1, LockDiscipline, PTL DEF TSpec, OutcomesAreFinal, OutcomesKept, OutcomeKept

-----------------------------------------------------------------------------
(* Hours.                                                                  *)

(* Only a completion's commit moves hours; nobody joins, no balance is       *)
(* adjusted and the policy stands.                                           *)
LEMMA OnlyCompletionsMoveHours ==
  ASSUME TInv, [TNext]_tvars
  PROVE  /\ policy' = policy /\ adjusted' = adjusted /\ joined' = joined
         /\ transfers' # transfers => \E s \in Sessions : WriteCompletion(s)
<1> USE DEF bankVars, orgVars, memberVars
<1>1. CASE UNCHANGED tvars
  BY <1>1 DEF tvars, vars
<1>2. CASE OneStatement
  BY <1>2 DEF OneStatement, FallDue, AdminExpireHop, LeaveOrganization, EndMembership
<1>3. ASSUME NEW s \in Sessions, Reads(s)
      PROVE  UNCHANGED <<bankVars, orgVars, memberVars>>
  BY <1>3, ReadsWriteNothing
<1>4. ASSUME NEW s \in Sessions, Writes(s), ~WriteCompletion(s)
      PROVE  policy' = policy /\ adjusted' = adjusted /\ joined' = joined /\ transfers' = transfers
  BY <1>4 DEF Writes, InsertHop, WriteOffer, WriteAccept, WriteDecline, WriteCancel, WriteExpire,
              WriteDisabled, WriteDeleted
<1>5. ASSUME NEW s \in Sessions, WriteCompletion(s)
      PROVE  policy' = policy /\ adjusted' = adjusted /\ joined' = joined
  BY <1>5 DEF WriteCompletion
<1> QED
  BY <1>1, <1>2, <1>3, <1>4, <1>5, StepKinds

(* What a completion's commit leaves of the balances: the limits are those   *)
(* of the balances it read, and its locks on both members kept them.         *)
LEMMA CommitKeepsLimits ==
  ASSUME TInv, NEW s \in Sessions, WriteCompletion(s)
  PROVE  \E t \in Transfers :
           /\ transfers' = transfers \cup {t} /\ status[t.hop] = "accepted"
           /\ \A m \in Members :
                Balance(m)' = IF m = t.to THEN Balance(m) + t.hours
                              ELSE IF m = t.from THEN Balance(m) - t.hours
                              ELSE Balance(m)
           /\ t.hours > 0 => /\ Balance(t.from) - t.hours >= policy.min
                             /\ Balance(t.to) + t.hours <= policy.max
           /\ t.from # t.to
<1>1. PICK h \in Hops, requested \in Nat, hours \in Nat :
        LET row == [hop |-> h, from |-> Payer(h), to |-> Earner(h), hours |-> hours]
        IN  /\ hours = Allowed(requested, Balance(Payer(h)), Balance(Earner(h)), policy)
            /\ row \in Transfers /\ row \notin transfers /\ row.from # row.to
            /\ lock[h] = s /\ lock[row.from] = s /\ lock[row.to] = s
            /\ status[h] = "accepted" /\ status' = [status EXCEPT ![h] = "completed"]
            /\ awarded' = [awarded EXCEPT ![h] = hours]
            /\ transfers' = transfers \cup {row}
            /\ UNCHANGED <<kind, creator, estimate, matched, due, offer, adjusted, orgVars,
                           memberVars, events>>
  BY CompletionWrites
<1> DEFINE t == [hop |-> h, from |-> Payer(h), to |-> Earner(h), hours |-> hours]
<1>2. /\ t \in Transfers /\ t \notin transfers /\ t.from # t.to
      /\ transfers' = transfers \cup {t} /\ adjusted' = adjusted
      /\ t.hop = h /\ status[t.hop] = "accepted"
      /\ t.hours = Allowed(requested, Balance(t.from), Balance(t.to), policy)
  BY <1>1
<1> HIDE DEF t
<1> USE DEF TInv, Data
<1>3. \A m \in Members :
        Balance(m)' = IF m = t.to THEN Balance(m) + t.hours
                      ELSE IF m = t.from THEN Balance(m) - t.hours
                      ELSE Balance(m)
  BY <1>2, BalanceAfterMove
<1>4. t.from \in Members /\ t.to \in Members /\ policy \in PolicyRecords
  BY <1>2 DEF Transfers, TypeOK
<1>5. Balance(t.from) \in Int /\ Balance(t.to) \in Int
  BY <1>4, BalanceIsInt
<1>6. t.hours > 0 => /\ Balance(t.from) - t.hours >= policy.min
                     /\ Balance(t.to) + t.hours <= policy.max
  BY <1>2, <1>4, <1>5, AllowedBounds
<1> QED
  BY <1>2, <1>3, <1>6

(* The hours of a completion are cut to balances that were read some         *)
(* statements before; however many completions of the same members run       *)
(* beside it, it takes neither of them across a limit.                       *)
THEOREM CompletionsRace == TSpec => CompletionKeepsLimits
<1> DEFINE Kept ==
      \A t \in transfers' \ transfers :
        /\ status[t.hop] = "accepted"
        /\ t.hours > 0 => /\ Balance(t.from)' >= policy.min
                          /\ Balance(t.to)' <= policy.max
<1>1. ASSUME TInv, [TNext]_tvars
      PROVE  Kept
  <2> SUFFICES ASSUME NEW u \in transfers' \ transfers
               PROVE  /\ status[u.hop] = "accepted"
                      /\ u.hours > 0 => /\ Balance(u.from)' >= policy.min
                                        /\ Balance(u.to)' <= policy.max
    OBVIOUS
  <2>1. PICK s \in Sessions : WriteCompletion(s)
    BY <1>1, OnlyCompletionsMoveHours
  <2>2. PICK t \in Transfers :
          /\ transfers' = transfers \cup {t} /\ status[t.hop] = "accepted"
          /\ \A m \in Members :
               Balance(m)' = IF m = t.to THEN Balance(m) + t.hours
                             ELSE IF m = t.from THEN Balance(m) - t.hours
                             ELSE Balance(m)
          /\ t.hours > 0 => /\ Balance(t.from) - t.hours >= policy.min
                            /\ Balance(t.to) + t.hours <= policy.max
          /\ t.from # t.to
    BY <1>1, <2>1, CommitKeepsLimits
  <2>3. u = t /\ t.from \in Members /\ t.to \in Members
    BY <2>2 DEF Transfers
  <2> QED
    BY <2>2, <2>3
<1>2. TInv /\ [TNext]_tvars => [Kept]_vars
  BY <1>1
<1> QED
  BY <1>2, LockDiscipline, PTL DEF TSpec, CompletionKeepsLimits

(* No balance leaves the organization's limits, for any number of            *)
(* completions, acceptances, cancellations and account ends at once.         *)
THEOREM LimitsSurviveRaces == TSpec => []BalancesWithinLimits
<1> DEFINE Limits == policy \in Policies /\ BalancesWithinLimits
<1>1. TInit => Limits
  <2> SUFFICES ASSUME Init PROVE Limits
    BY DEF TInit
  <2> QED
    BY InitLimitInv DEF LimitInv
<1>2. ASSUME TInv, Limits, [TNext]_tvars
      PROVE  Limits'
  <2> USE DEF TInv, Data
  <2>1. policy' = policy /\ policy \in PolicyRecords /\ adjusted' = adjusted /\ joined' = joined
        /\ joined \subseteq Members
    BY <1>2, OnlyCompletionsMoveHours DEF TypeOK
  <2>2. CASE transfers' = transfers
    <3>1. \A m \in Members : Balance(m)' = Balance(m)
      BY <2>1, <2>2 DEF Balance
    <3> QED
      BY <1>2, <2>1, <3>1 DEF BalancesWithinLimits
  <2>3. CASE transfers' # transfers
    <3>1. PICK s \in Sessions : WriteCompletion(s)
      BY <1>2, <2>3, OnlyCompletionsMoveHours
    <3>2. PICK t \in Transfers :
            /\ transfers' = transfers \cup {t} /\ status[t.hop] = "accepted"
            /\ \A m \in Members :
                 Balance(m)' = IF m = t.to THEN Balance(m) + t.hours
                               ELSE IF m = t.from THEN Balance(m) - t.hours
                               ELSE Balance(m)
            /\ t.hours > 0 => /\ Balance(t.from) - t.hours >= policy.min
                              /\ Balance(t.to) + t.hours <= policy.max
            /\ t.from # t.to
      BY <1>2, <3>1, CommitKeepsLimits
    <3>3. t.from \in Members /\ t.to \in Members /\ t.hours \in Nat
      BY <3>2 DEF Transfers
    <3>4. \A m \in Members : Balance(m) \in Int
      BY <1>2, BalanceIsInt
    <3>5. ASSUME NEW m \in joined
          PROVE  policy.min <= Balance(m)' /\ Balance(m)' <= policy.max
      <4>1. policy.min <= Balance(m) /\ Balance(m) <= policy.max
            /\ policy.min \in Int /\ policy.max \in Int
        BY <1>2, <2>1 DEF BalancesWithinLimits, PolicyRecords
      <4> QED
        BY <2>1, <3>2, <3>3, <3>4, <4>1
    <3> QED
      BY <1>2, <2>1, <3>5 DEF BalancesWithinLimits
  <2> QED
    BY <2>2, <2>3
<1>3. Limits => BalancesWithinLimits
  OBVIOUS
<1> HIDE DEF Limits
<1> QED
  BY <1>1, <1>2, <1>3, LockDiscipline, PTL DEF TSpec

-----------------------------------------------------------------------------
(* The statements implement the contract as well, up to what HopGhosts finds: *)
(* as long as no write comes too late for a deletion it did not wait for.    *)

Undisturbed == TInv /\ DeletedMembersHoldNothing

LEMMA AsCommitted == Undisturbed => IInv
  BY DEF Undisturbed, TInv, Data, IInv

LEMMA InsertHopPosts ==
  ASSUME Undisturbed, Undisturbed', ~DirectAccept,
         NEW s \in Sessions, NEW h \in Hops, InsertHop(s, h)
  PROVE  \E m \in Members, side \in {"poster", "partner"} : Contract!Post(h, m, side)
<1> PICK t \in Transaction : tx[s] = t
  BY Fields DEF Undisturbed, TInv
<1> USE AsCommitted DEF IInv, TypeOK
<1>1. /\ status[h] = "none" /\ t.by \in Members /\ t.kind \in Kinds
      /\ status' = [status EXCEPT ![h] = "open"] /\ kind' = [kind EXCEPT ![h] = t.kind]
      /\ creator' = [creator EXCEPT ![h] = t.by]
      /\ UNCHANGED <<matched, offer, transfers, deleted>>
  BY DEF InsertHop, At, Undisturbed, TInv, SessionInv, Locking, Transaction, bankVars, memberVars
<1>2. t.by \notin deleted
  BY <1>1 DEF Undisturbed, DeletedMembersHoldNothing, LiveStatuses
<1>3. \A o \in Members : offer[h][o] # "pending"
  BY <1>1 DEF NoOfferLeftWaiting
<1>4. Contract!Post(h, t.by, IF t.kind = "ask" THEN "poster" ELSE "partner")
  BY <1>1, <1>2, <1>3 DEF Contract!Post, Phase, Poster, Partner, Willing
<1> QED
  BY <1>1, <1>4

LEMMA WriteOfferVolunteers ==
  ASSUME Undisturbed, Undisturbed', ~DirectAccept, NEW s \in Sessions, WriteOffer(s)
  PROVE  \E h \in Hops, m \in Members : Contract!Volunteer(h, m)
<1> PICK t \in Transaction : tx[s] = t
  BY Fields DEF Undisturbed, TInv
<1> USE AsCommitted DEF IInv, TypeOK
<1>1. /\ offer' = [offer EXCEPT ![t.hop][t.by] = "pending"]
      /\ UNCHANGED <<status, kind, creator, matched, transfers, deleted>>
  BY DEF WriteOffer, hopVars, bankVars, memberVars
<1>2. /\ t.hop \in Hops /\ t.by \in Members
      /\ status[t.hop] = "open" /\ creator[t.hop] # t.by
  BY DEF Undisturbed, TInv, SessionInv, Locking, Offering, HopOps, WriteOffer, At
<1>3. t.by \notin deleted
  BY <1>1, <1>2 DEF Undisturbed, DeletedMembersHoldNothing
<1>4. \A h \in Hops :
        /\ Phase(h)' = Phase(h) /\ Poster(h)' = Poster(h) /\ Partner(h)' = Partner(h)
        /\ Willing(h)' = IF h = t.hop THEN Willing(h) \cup {t.by} ELSE Willing(h)
  BY <1>1, <1>2 DEF Phase, Poster, Partner, Willing
<1>5. Phase(t.hop) = "open" /\ Poster(t.hop) = creator[t.hop]
  BY <1>2 DEF Phase, Poster
<1>6. Contract!Volunteer(t.hop, t.by)
  BY <1>1, <1>2, <1>3, <1>4, <1>5 DEF Contract!Volunteer
<1> QED
  BY <1>2, <1>6

LEMMA WriteDeclineTurnsDown ==
  ASSUME Undisturbed, ~DirectAccept, NEW s \in Sessions, WriteDecline(s)
  PROVE  \E h \in Hops, m \in Members : Contract!TurnDown(h, m)
<1> PICK t \in Transaction : tx[s] = t
  BY Fields DEF Undisturbed, TInv
<1> USE AsCommitted DEF IInv, TypeOK
<1>1. /\ offer[t.hop][t.whom] = "pending" /\ status[t.hop] = "open"
      /\ offer' = [offer EXCEPT ![t.hop][t.whom] = "denied"]
      /\ UNCHANGED <<hopVars, transfers, deleted>>
  BY DEF WriteDecline, MayAnswer, bankVars, memberVars
<1>2. t.hop \in Hops /\ t.whom \in Members
  BY DEF Undisturbed, TInv, SessionInv, Locking, HopOps, WriteDecline, At
<1>3. Contract!TurnDown(t.hop, t.whom)
  BY <1>1, <1>2 DEF hopVars, Contract!TurnDown, Phase, Poster, Partner, Willing
<1> QED
  BY <1>2, <1>3

LEMMA WriteAcceptPairs ==
  ASSUME Undisturbed, ~DirectAccept, NEW s \in Sessions, WriteAccept(s)
  PROVE  \E h \in Hops, m \in Members : Contract!Pair(h, m)
<1> PICK t \in Transaction : tx[s] = t
  BY Fields DEF Undisturbed, TInv
<1> USE AsCommitted DEF IInv, TypeOK
<1>1. /\ offer[t.hop][t.whom] = "pending"
      /\ status' = [status EXCEPT ![t.hop] = "accepted"]
      /\ matched' = [matched EXCEPT ![t.hop] = t.whom]
      /\ \A h \in Hops : h # t.hop => offer'[h] = offer[h]
      /\ UNCHANGED <<kind, creator, transfers, deleted>>
  BY DEF WriteAccept, bankVars, memberVars
<1>2. t.hop \in Hops /\ t.whom \in Members /\ status[t.hop] = "open"
  BY DEF Undisturbed, TInv, SessionInv, Locking, Accepting, HopOps, WriteAccept, At
<1>3. Contract!Pair(t.hop, t.whom)
  BY <1>1, <1>2 DEF Contract!Pair, Phase, Poster, Partner, Willing
<1> QED
  BY <1>2, <1>3

LEMMA WriteCompletionSettles ==
  ASSUME Undisturbed, ~DirectAccept, NEW s \in Sessions, WriteCompletion(s)
  PROVE  \E h \in Hops : Contract!Settle(h)
<1> USE AsCommitted DEF IInv, TypeOK
<1>1. PICK h \in Hops, hours \in Nat :
        LET row == [hop |-> h, from |-> Payer(h), to |-> Earner(h), hours |-> hours]
        IN  /\ status[h] = "accepted" /\ status' = [status EXCEPT ![h] = "completed"]
            /\ transfers' = transfers \cup {row}
            /\ UNCHANGED <<kind, creator, matched, offer, deleted>>
  <2>1. \E h \in Hops, requested \in Nat, hours \in Nat :
          LET row == [hop |-> h, from |-> Payer(h), to |-> Earner(h), hours |-> hours]
          IN  /\ hours = Allowed(requested, Balance(Payer(h)), Balance(Earner(h)), policy)
              /\ row \in Transfers /\ row \notin transfers /\ row.from # row.to
              /\ lock[h] = s /\ lock[row.from] = s /\ lock[row.to] = s
              /\ status[h] = "accepted" /\ status' = [status EXCEPT ![h] = "completed"]
              /\ awarded' = [awarded EXCEPT ![h] = hours]
              /\ transfers' = transfers \cup {row}
              /\ UNCHANGED <<kind, creator, estimate, matched, due, offer, adjusted, orgVars,
                             memberVars, events>>
    BY CompletionWrites DEF Undisturbed
  <2> QED
    BY <2>1 DEF memberVars
<1> DEFINE move == [hop |-> h, from |-> Payer(h), to |-> Earner(h), hours |-> hours]
<1>2. /\ move.hop = h /\ move.hours \in Nat
      /\ kind[h] = "ask" => move.from = creator[h] /\ move.to = matched[h]
      /\ kind[h] # "ask" => move.from = matched[h] /\ move.to = creator[h]
      /\ move \in transfers' /\ transfers' = transfers \cup {move}
  BY <1>1 DEF Payer, Earner
<1>3. /\ status[h] = "accepted" /\ status' = [status EXCEPT ![h] = "completed"]
      /\ UNCHANGED <<kind, creator, matched, offer, deleted>>
  BY <1>1
<1> HIDE DEF move
<1>4. Contract!Settle(h)
  BY <1>2, <1>3 DEF Contract!Settle, Phase, Poster, Partner, Willing
<1> QED
  BY <1>4

LEMMA WriteCancelCloses ==
  ASSUME Undisturbed, ~DirectAccept, NEW s \in Sessions, WriteCancel(s)
  PROVE  \E C \in SUBSET Hops : Contract!Close(C)
<1> PICK t \in Transaction : tx[s] = t
  BY Fields DEF Undisturbed, TInv
<1> USE AsCommitted DEF IInv, TypeOK
<1>1. /\ status[t.hop] \in {"open", "accepted"}
      /\ status' = [status EXCEPT ![t.hop] = "canceled"]
      /\ \A h \in Hops : h # t.hop => offer'[h] = offer[h]
      /\ UNCHANGED <<kind, creator, matched, transfers, deleted>>
  BY DEF WriteCancel, LiveStatuses, bankVars, memberVars
<1>2. t.hop \in Hops
  BY DEF Undisturbed, TInv, SessionInv, Locking, HopOps, WriteCancel, At
<1>3. Contract!Close({t.hop})
  BY <1>1, <1>2 DEF Contract!Close, Contract!End, Contract!Without, Contract!Live,
                    Phase, Poster, Partner, Willing
<1> QED
  BY <1>2, <1>3

LEMMA WriteExpireCloses ==
  ASSUME Undisturbed, ~DirectAccept, NEW s \in Sessions, WriteExpire(s)
  PROVE  \E C \in SUBSET Hops : Contract!Close(C)
<1> USE AsCommitted DEF IInv, TypeOK
<1> DEFINE expired == Mine(s) \cap Hops \cap Overdue
<1>1. /\ status' = [h \in Hops |-> IF h \in expired THEN "expired" ELSE status[h]]
      /\ UNCHANGED <<kind, creator, matched, offer, transfers, deleted>>
  BY DEF WriteExpire, Expire, bankVars, memberVars
<1>2. expired \subseteq Hops /\ \A h \in expired : status[h] \in {"open", "accepted"}
  BY DEF Overdue, LiveStatuses
<1> HIDE DEF expired
<1>3. Contract!Close(expired)
  BY <1>1, <1>2 DEF Contract!Close, Contract!End, Contract!Without, Contract!Live,
                    Phase, Poster, Partner, Willing
<1> QED
  BY <1>2, <1>3

LEMMA WriteDisabledReleases ==
  ASSUME Undisturbed, ~DirectAccept, NEW s \in Sessions, WriteDisabled(s)
  PROVE  \E R \in SUBSET Hops : Contract!Release(R)
<1> PICK t \in Transaction : tx[s] = t
  BY Fields DEF Undisturbed, TInv
<1> USE AsCommitted DEF IInv, TypeOK
<1> DEFINE R == t.reopened
<1>1. /\ status' = [h \in Hops |-> IF h \in R THEN "open" ELSE status[h]]
      /\ matched' = [h \in Hops |-> IF h \in R THEN NoMember ELSE matched[h]]
      /\ UNCHANGED <<kind, creator, offer, transfers, deleted>>
  BY DEF WriteDisabled, Unmatched, bankVars
<1>2. R \subseteq Hops /\ \A h \in R : status[h] = "accepted"
  BY DEF Undisturbed, TInv, SessionInv, Ending, EndOps, AcceptedWith, Transaction, WriteDisabled,
         At
<1>3. \A h \in R, o \in Members : offer[h][o] # "pending"
  BY <1>2 DEF NoOfferLeftWaiting
<1> HIDE DEF R
<1>4. \A h \in Hops :
        /\ Phase(h)' = IF h \in R THEN "open" ELSE Phase(h)
        /\ Poster(h)' = Poster(h)
        /\ Partner(h)' = IF h \in R THEN NoMember ELSE Partner(h)
        /\ Willing(h)' = Willing(h)
  BY <1>1, <1>2, <1>3 DEF Phase, Poster, Partner, Willing
<1>5. \A h \in R : Phase(h) = "paired"
  BY <1>2 DEF Phase
<1>6. Contract!Release(R)
  BY <1>1, <1>2, <1>4, <1>5 DEF Contract!Release, Contract!End, Contract!Without
<1> QED
  BY <1>2, <1>6

(* Nothing live of the account has escaped the deletion, or it would be left *)
(* behind.                                                                   *)
LEMMA WriteDeletedDeparts ==
  ASSUME Undisturbed, Undisturbed', ~DirectAccept, NEW s \in Sessions, WriteDeleted(s)
  PROVE  \E m \in Members : Contract!Depart(m)
<1> PICK t \in Transaction : tx[s] = t
  BY Fields DEF Undisturbed, TInv
<1> USE AsCommitted DEF IInv, TypeOK
<1> DEFINE m == t.whom
           canceled == {h \in Mine(s) \cap Hops :
                          creator[h] = m /\ (status[h] = "open" \/ h \in t.reopened)}
           own == {h \in Hops : status[h] \in {"open", "accepted"} /\ creator[h] = m}
           lost == {h \in Hops : status[h] = "accepted" /\ matched[h] = m}
<1>1. /\ t.op = "delete" /\ t.step = 2
      /\ status' = [h \in Hops |-> IF h \in canceled THEN "canceled"
                                    ELSE IF h \in t.reopened THEN "open" ELSE status[h]]
      /\ matched' = [h \in Hops |-> IF h \in t.reopened THEN NoMember ELSE matched[h]]
      /\ offer' = [h \in Hops |->
           DenyPending(offer[h], IF h \in canceled THEN Members ELSE {m})]
      /\ deleted' = deleted \cup {m}
      /\ UNCHANGED <<kind, creator, transfers>>
  BY DEF WriteDeleted, Unmatched, At, bankVars
<1>2. \A h \in t.reopened : /\ h \in Hops /\ h \in Mine(s) /\ status[h] = "accepted"
                            /\ matched[h] # NoMember /\ m \in {creator[h], matched[h]}
  <2>1. \A h \in t.reopened : lock[h] = s /\ h \in AcceptedWith(m)
    BY <1>1 DEF Undisturbed, TInv, SessionInv, Ending, EndOps
  <2>2. t.reopened \subseteq Hops
    BY DEF Transaction
  <2> HIDE DEF m
  <2> QED
    BY <2>1, <2>2, RowKinds DEF AcceptedWith, Mine
<1>3. /\ m \in Members /\ m \notin deleted
      /\ \A h \in lost : h \in t.reopened
  BY <1>1 DEF Undisturbed, TInv, SessionInv, Locking, Deleting, EndOps
<1>4. canceled = own
  <2>1. canceled \subseteq own
    BY <1>2
  <2>2. ASSUME NEW h \in own, h \notin canceled
        PROVE  FALSE
    <3>1. h \notin t.reopened
      BY <1>2, <2>2
    <3>2. status'[h] \in {"open", "accepted"} /\ creator'[h] \in deleted'
      BY <1>1, <2>2, <3>1
    <3> QED
      BY <2>2, <3>2 DEF Undisturbed, DeletedMembersHoldNothing, LiveStatuses
  <2> QED
    BY <2>1, <2>2
<1>5. \A h \in Hops : h \in t.reopened /\ h \notin own <=> h \in lost
  BY <1>2, <1>3, MembersAssumption DEF MatchAgreesWithStatus
<1>6. own \cap lost = {} /\ own \subseteq Hops /\ \A h \in lost : status[h] = "accepted"
  BY MembersAssumption DEF MatchAgreesWithStatus
<1>7. /\ status' = [h \in Hops |-> IF h \in own THEN "canceled"
                                  ELSE IF h \in lost THEN "open" ELSE status[h]]
      /\ \A h \in Hops : h \in lost => matched'[h] = NoMember
      /\ \A h \in Hops : h \notin own /\ h \notin lost => matched'[h] = matched[h]
      /\ offer' = [h \in Hops |-> DenyPending(offer[h], IF h \in own THEN Members ELSE {m})]
  <2> HIDE DEF own, lost, canceled, m
  <2> QED
    BY <1>1, <1>4, <1>5
<1>8. \A h \in lost, o \in Members : offer[h][o] # "pending"
  BY DEF NoOfferLeftWaiting
<1>9. /\ own = {h \in Hops : Phase(h) \in {"open", "paired"} /\ Poster(h) = m}
      /\ lost = {h \in Hops : Phase(h) = "paired" /\ Partner(h) = m}
  BY DEF Phase, Poster, Partner
<1> HIDE DEF own, lost, canceled
<1>10. \A h \in Hops :
         /\ Phase(h)' = IF h \in own THEN "closed" ELSE IF h \in lost THEN "open" ELSE Phase(h)
         /\ Poster(h)' = IF h \in own THEN NoMember ELSE Poster(h)
         /\ Partner(h)' = IF h \in own \cup lost THEN NoMember ELSE Partner(h)
  BY <1>1, <1>6, <1>7 DEF Phase, Poster, Partner
<1>11. ASSUME NEW h \in Hops
       PROVE  Willing(h)' = IF h \in own THEN {} ELSE Willing(h) \ {m}
  <2>1. CASE h \in own
    BY <1>7, <2>1 DEF Willing
  <2>2. CASE h \in lost
    BY <1>6, <1>7, <1>8, <2>2 DEF Willing, DenyPending, lost
  <2>3. CASE h \notin own /\ h \notin lost
    BY <1>7, <2>3 DEF Willing, DenyPending
  <2> QED
    BY <2>1, <2>2, <2>3
<1>12. /\ \A h \in own : Phase(h) \in {"open", "paired"}
       /\ \A h \in lost : Phase(h) = "paired"
  BY <1>9
<1> DEFINE ph == [h \in Hops |-> Phase(h)]
           po == [h \in Hops |-> Poster(h)]
           pa == [h \in Hops |-> Partner(h)]
<1>13. /\ own = {h \in Hops : ph[h] \in {"open", "paired"} /\ po[h] = m}
       /\ lost = {h \in Hops : ph[h] = "paired" /\ pa[h] = m}
  BY <1>9
<1>14. Contract!Depart(m)
  BY <1>1, <1>3, <1>6, <1>10, <1>11, <1>12, <1>13
  DEF Contract!Depart, Contract!End, Contract!Without, Contract!Live
<1> QED
  BY <1>3, <1>14

LEMMA StatementContract ==
  ASSUME Undisturbed, Undisturbed', ~DirectAccept, [TNext]_tvars
  PROVE  [Contract!CNext]_(Contract!cvars)
<1>1. CASE UNCHANGED <<hopVars, offer, transfers, deleted>>
  BY <1>1, SameView
<1>2. CASE UNCHANGED tvars
  BY <1>1, <1>2 DEF tvars, vars, bankVars, memberVars
<1>3. CASE OneStatement
  <2>1. ASSUME NEW h \in Hops, AdminExpireHop(h)
        PROVE  Contract!CNext
    BY <2>1, AsCommitted, AdminExpiryCloses DEF Contract!CNext
  <2>2. \/ \E h \in Hops : AdminExpireHop(h)
        \/ UNCHANGED <<hopVars, offer, transfers, deleted>>
    BY <1>3 DEF OneStatement, FallDue, LeaveOrganization, EndMembership, bankVars, memberVars
  <2> QED
    BY <1>1, <2>1, <2>2
<1>4. ASSUME NEW s \in Sessions, Reads(s)
      PROVE  UNCHANGED <<hopVars, offer, transfers, deleted>>
  BY <1>4, ReadsWriteNothing DEF bankVars, memberVars
<1>5. ASSUME NEW s \in Sessions, Writes(s)
      PROVE  Contract!CNext
  BY <1>5, InsertHopPosts, WriteOfferVolunteers, WriteDeclineTurnsDown, WriteAcceptPairs,
     WriteCompletionSettles, WriteCancelCloses, WriteExpireCloses, WriteDisabledReleases,
     WriteDeletedDeparts
  DEF Writes, Contract!CNext
<1> QED
  BY <1>1, <1>2, <1>3, <1>4, <1>5, StepKinds

(* Statement by statement, too, what happens to the hops is a step of the    *)
(* contract, as long as no deletion has left anything of its account behind: *)
(* HopGhosts shows that it can, and what breaks then is only that.           *)
THEOREM StatementsImplement ==
  ASSUME ~DirectAccept
  PROVE  TSpec /\ []DeletedMembersHoldNothing => ImplementsContract
<1>1. Undisturbed /\ Undisturbed' /\ [TNext]_tvars => [Contract!CNext]_(Contract!cvars)
  BY StatementContract
<1>2. TInit => Contract!CInit
  BY InitContract DEF TInit
<1>3. TInv /\ DeletedMembersHoldNothing => Undisturbed
  BY DEF Undisturbed
<1> QED
  BY <1>1, <1>2, <1>3, LockDiscipline, PTL DEF TSpec, ImplementsContract, Contract!CSpec

(* Nothing becomes the end of an account that did not begin as one.         *)
LEMMA OpsAreKept ==
  ASSUME TInv, NEW s \in Sessions, tx[s].op \notin EndOps,
         Reads(s) \/ Writes(s),
         \A op \in EndOps, m \in Members : ~BeginAccountEnd(s, op, m),
         ~WriteDeleted(s), ~WriteDisabled(s)
  PROVE  /\ events' = events /\ deleted' = deleted
         /\ \A d \in Sessions : d # s => tx'[d] = tx[d]
         /\ tx'[s].op \notin EndOps
<1> PICK t \in Transaction : tx[s] = t
  BY Fields DEF TInv
<1>1. tx \in [Sessions -> Transaction]
  BY DEF TInv, TxTypeOK
<1>2. ASSUME End(s)
      PROVE  (\A d \in Sessions : d # s => tx'[d] = tx[d]) /\ tx'[s].op \notin EndOps
  BY <1>1, <1>2, IdleIsATransaction DEF End, EndOps
<1>3. ASSUME NEW u, Begin(s, u), u.op \notin EndOps
      PROVE  (\A d \in Sessions : d # s => tx'[d] = tx[d]) /\ tx'[s].op \notin EndOps
  BY <1>1, <1>3 DEF Begin
<1>4. ASSUME NEW u \in Transaction, u.op = t.op, NEW S, Go(s, u, S)
      PROVE  (\A d \in Sessions : d # s => tx'[d] = tx[d]) /\ tx'[s].op \notin EndOps
  <2>1. tx'[s] = [u EXCEPT !.step = u.step + 1, !.todo = S \ Mine(s)]
        /\ \A d \in Sessions : d # s => tx'[d] = tx[d]
    BY <1>1, <1>4 DEF Go
  <2>2. tx'[s].op = t.op
    BY <1>4, <2>1 DEF Transaction
  <2> QED
    BY <2>1, <2>2
<1>5. CASE Acquire(s)
  <2>1. PICK r : tx' = [tx EXCEPT ![s] = [t EXCEPT !.todo = t.todo \ {r}]]
    BY <1>1, <1>5 DEF Acquire
  <2>2. tx'[s].op = t.op /\ \A d \in Sessions : d # s => tx'[d] = tx[d]
    BY <1>1, <2>1 DEF Transaction
  <2> QED
    BY <1>5, <2>2 DEF Acquire, vars, memberVars
<1>6. CASE \/ \E m \in Members, k \in Kinds, hours \in Estimates : BeginCreate(s, m, k, hours)
           \/ \E h \in Hops, m \in Members : BeginOffer(s, h, m) \/ BeginCancel(s, h, m)
           \/ \E op \in {"accept", "decline"}, h \in Hops, requester, m \in Members :
                BeginAnswer(s, op, h, requester, m)
           \/ \E h \in Hops, m \in Members, entered \in FinalHours \cup {0} :
                BeginComplete(s, h, m, entered)
           \/ BeginExpire(s)
  <2>1. UNCHANGED vars
    BY <1>6 DEF BeginCreate, BeginOffer, BeginCancel, BeginAnswer, BeginComplete, BeginExpire
  <2>2. \E u : Begin(s, u) /\ u.op \notin EndOps
    <3>1. ASSUME NEW m \in Members, NEW k \in Kinds, NEW hours \in Estimates,
                 BeginCreate(s, m, k, hours)
          PROVE  \E u : Begin(s, u) /\ u.op \notin EndOps
      <4>1. [Idle EXCEPT !.op = "create", !.by = m, !.kind = k, !.hours = hours].op \notin EndOps
        BY DEF Idle, EndOps
      <4> QED
        BY <3>1, <4>1 DEF BeginCreate
    <3>2. ASSUME NEW h \in Hops, NEW m \in Members, BeginOffer(s, h, m)
          PROVE  \E u : Begin(s, u) /\ u.op \notin EndOps
      <4>1. [Idle EXCEPT !.op = "offer", !.hop = h, !.by = m, !.todo = {h}].op \notin EndOps
        BY DEF Idle, EndOps
      <4> QED
        BY <3>2, <4>1 DEF BeginOffer
    <3>3. ASSUME NEW h \in Hops, NEW m \in Members, BeginCancel(s, h, m)
          PROVE  \E u : Begin(s, u) /\ u.op \notin EndOps
      <4>1. [Idle EXCEPT !.op = "cancel", !.hop = h, !.by = m,
                         !.todo = {h, creator[h]}].op \notin EndOps
        BY DEF Idle, EndOps
      <4> QED
        BY <3>3, <4>1 DEF BeginCancel
    <3>4. ASSUME NEW op \in {"accept", "decline"}, NEW h \in Hops, NEW requester \in Members,
                 NEW m \in Members, BeginAnswer(s, op, h, requester, m)
          PROVE  \E u : Begin(s, u) /\ u.op \notin EndOps
      <4>1. [Idle EXCEPT !.op = op, !.hop = h, !.by = requester, !.whom = m,
                         !.todo = {h}].op \notin EndOps
        BY DEF Idle, EndOps
      <4> QED
        BY <3>4, <4>1 DEF BeginAnswer
    <3>5. ASSUME NEW h \in Hops, NEW m \in Members, NEW entered \in FinalHours \cup {0},
                 BeginComplete(s, h, m, entered)
          PROVE  \E u : Begin(s, u) /\ u.op \notin EndOps
      <4>1. [Idle EXCEPT !.op = "complete", !.hop = h, !.by = m, !.hours = entered,
                         !.todo = {h}].op \notin EndOps
        BY DEF Idle, EndOps
      <4> QED
        BY <3>5, <4>1 DEF BeginComplete
    <3>6. ASSUME BeginExpire(s)
          PROVE  \E u : Begin(s, u) /\ u.op \notin EndOps
      <4>1. [Idle EXCEPT !.op = "expire", !.todo = Overdue].op \notin EndOps
        BY DEF Idle, EndOps
      <4> QED
        BY <3>6, <4>1 DEF BeginExpire
    <3> QED
      BY <1>6, <3>1, <3>2, <3>3, <3>4, <3>5, <3>6
  <2> QED
    BY <1>3, <2>1, <2>2 DEF vars, memberVars
<1>7. CASE \/ CheckOffer(s) \/ LockOtherOfferers(s) \/ CheckAccept(s)
           \/ LockParticipants(s) \/ ReadBalances(s)
  <2>1. UNCHANGED vars
    BY <1>7 DEF CheckOffer, LockOtherOfferers, CheckAccept, LockParticipants, ReadBalances, Go
  <2>2. \E u \in Transaction : \E S : u.op = t.op /\ Go(s, u, S)
    <3>1. CASE CheckOffer(s) \/ LockOtherOfferers(s) \/ CheckAccept(s)
      BY <3>1 DEF CheckOffer, LockOtherOfferers, CheckAccept
    <3>2. ASSUME NEW hours \in Nat
          PROVE  [t EXCEPT !.hours = hours] \in Transaction /\ [t EXCEPT !.hours = hours].op = t.op
      BY DEF Transaction
    <3>3. CASE LockParticipants(s)
      <4> DEFINE hours == Requested(t)
      <4>1. t.hop \in Hops
        BY <3>3 DEF LockParticipants, At, TInv, SessionInv, Locking, HopOps
      <4>2. hours \in Nat
        BY <4>1 DEF Requested, TInv, Data, TypeOK, Transaction
      <4>3. \E S : Go(s, [t EXCEPT !.hours = hours], S)
        BY <3>3 DEF LockParticipants
      <4> HIDE DEF hours
      <4> QED
        BY <3>2, <4>2, <4>3
    <3>4. CASE ReadBalances(s)
      <4> DEFINE hours == Allowed(t.hours, Balance(Payer(t.hop)), Balance(Earner(t.hop)), policy)
      <4>1. hours \in Nat
        BY AllowedIsNat
      <4>2. \E S : Go(s, [t EXCEPT !.hours = hours], S)
        BY <3>4 DEF ReadBalances
      <4> HIDE DEF hours
      <4> QED
        BY <3>2, <4>1, <4>2
    <3> QED
      BY <1>7, <3>1, <3>3, <3>4
  <2> QED
    BY <1>4, <2>1, <2>2 DEF vars, memberVars
<1>8. CASE LockAccepted(s) \/ Reopen(s)
  BY <1>8 DEF LockAccepted, Reopen, At, EndOps
<1>9. CASE RollBack(s)
  BY <1>2, <1>9 DEF RollBack, vars, memberVars
<1>10. CASE Writes(s)
  <2>1. End(s) /\ events' = events /\ deleted' = deleted
    BY <1>10 DEF Writes, InsertHop, WriteOffer, WriteAccept, WriteDecline, WriteCancel, WriteExpire,
                 WriteCompletion, memberVars
  <2> QED
    BY <1>2, <2>1
<1> QED
  BY <1>5, <1>6, <1>7, <1>8, <1>9, <1>10 DEF Reads

(* Without the end of an account in between they do so unconditionally.      *)
THEOREM StatementsImplementAlone ==
  ASSUME ~DirectAccept, MaxEvents = 0
  PROVE  TSpec => ImplementsContract
<1> DEFINE Quiet == events = 0 /\ deleted = {} /\ \A s \in Sessions : tx[s].op \notin EndOps
<1>1. TInit => Quiet
  BY IdleIsATransaction DEF TInit, Init, EndOps
<1>2. ASSUME TInv, Quiet, [TNext]_tvars
      PROVE  Quiet'
  <2> USE DEF EndOps
  <2>1. CASE UNCHANGED tvars
    BY <1>2, <2>1 DEF tvars, txVars, vars, memberVars
  <2>2. ~(Event)
    BY <1>2, MaxEvents = 0 DEF Event
  <2>3. CASE OneStatement
    BY <1>2, <2>2, <2>3 DEF OneStatement, txVars, FallDue, AdminExpireHop, LeaveOrganization,
                            EndMembership, memberVars
  <2>4. ASSUME NEW s \in Sessions, Reads(s) \/ Writes(s)
        PROVE  /\ events' = events /\ deleted' = deleted
               /\ \A d \in Sessions : d # s => tx'[d] = tx[d]
               /\ tx'[s].op \notin EndOps
    <3> PICK t \in Transaction : tx[s] = t
      BY <1>2, Fields DEF TInv
    <3>1. t.op \notin EndOps /\ \A op \in EndOps, m \in Members : ~BeginAccountEnd(s, op, m)
      BY <1>2, <2>2 DEF BeginAccountEnd
    <3>2. \A n : ~At(s, "disable", n) /\ ~At(s, "delete", n)
      BY <3>1 DEF At
    <3>3. ~WriteDisabled(s) /\ ~WriteDeleted(s) /\ ~LockAccepted(s) /\ ~Reopen(s)
      BY <3>2 DEF WriteDisabled, WriteDeleted, LockAccepted, Reopen
    <3> QED
      BY <1>2, <2>4, <3>1, <3>3, OpsAreKept DEF Reads, Writes
  <2> QED
    BY <1>2, <2>1, <2>3, <2>4, StepKinds
<1>3. Quiet => DeletedMembersHoldNothing
  BY DEF DeletedMembersHoldNothing
<1> HIDE DEF Quiet
<1> QED
  BY <1>1, <1>2, <1>3, LockDiscipline, StatementsImplement, PTL DEF TSpec
=============================================================================
