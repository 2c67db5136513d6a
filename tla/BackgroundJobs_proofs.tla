------------------------ MODULE BackgroundJobs_proofs ------------------------
(***************************************************************************)
(* A job has at most one runner at a time.  The invariant: a runner's lock *)
(* is its own and runs out LeaseTTL after its poll's clock reading, and no *)
(* runner has come so far past that reading.                               *)
(***************************************************************************)
EXTENDS BackgroundJobs, TLAPS

(* How far an instance's poll has got since it read the clock. *)
Timely(i) ==
  /\ phase[i] \in {"down", "waiting"} => at[i] = 1 /\ age[i] = 0
  /\ phase[i] \in {"syncing", "claiming"} => age[i] <= ClaimBy[at[i]]
  /\ phase[i] = "running" => age[i] <= ClaimBy[at[i]] + elapsed[i]
  /\ phase[i] = "marking" => age[i] <= ClaimBy[at[i]] + Timeout + UpdateTimeout
  /\ phase[i] = "syncing" => at[i] = 1
  /\ phase[i] # "running" => elapsed[i] = 0

Held(i) ==
  phase[i] = "running" =>
    /\ lockedBy[at[i]] = i
    /\ leaseIn[at[i]] = LeaseTTL + Skew[i] - age[i]

IInv == TypeOK /\ \A i \in Instances : Timely(i) /\ Held(i)

(* The clock readings are integers, and no poll's reading is ahead of the  *)
(* present by more than the skew.                                          *)
LEMMA PollNowBound ==
  ASSUME TypeOK, NEW i \in Instances
  PROVE  PollNow(i) \in Int /\ PollNow(i) <= MaxSkew
BY TimesAssumption DEF TypeOK, PollNow

(* While a job runs, no poll finds its lease run out. *)
LEMMA RunnersLeaseIsNotFree ==
  ASSUME IInv, NEW i \in Instances, NEW k \in Instances, phase[k] = "running"
  PROVE  ~Claimable(i, at[k])
<1>1. at[k] \in Jobs /\ lockedBy[at[k]] = k /\ leaseIn[at[k]] = LeaseTTL + Skew[k] - age[k]
  BY DEF IInv, TypeOK, Held
<1>2. age[k] \in Nat /\ elapsed[k] \in 0..Timeout /\ age[k] <= ClaimBy[at[k]] + elapsed[k]
  BY DEF IInv, TypeOK, Timely
<1>3. /\ ClaimBy[at[k]] \in Nat /\ Skew[k] \in Nat /\ MaxSkew \in Nat
      /\ Timeout \in Nat /\ LeaseTTL \in Nat
  BY <1>1, TimesAssumption
<1>4. ClaimBy[at[k]] + Timeout + MaxSkew < LeaseTTL
  BY <1>1, LeaseAssumption
<1>5. leaseIn[at[k]] > MaxSkew
  BY <1>1, <1>2, <1>3, <1>4
<1>6. PollNow(i) \in Int /\ PollNow(i) <= MaxSkew
  BY PollNowBound DEF IInv
<1>7. lockedBy[at[k]] # Nobody
  BY <1>1, NamesAssumption
<1>8. ~(leaseIn[at[k]] <= PollNow(i))
  BY <1>1, <1>2, <1>3, <1>5, <1>6
<1> QED
  BY <1>7, <1>8 DEF Claimable, LeaseFree

(* Going on to the next job, or to the end of the poll, keeps to the times. *)
LEMMA AdvanceIsTimely ==
  ASSUME TypeOK, NEW i \in Instances, Advance(i),
         age[i] <= ClaimBy[at[i]] + Timeout + UpdateTimeout,
         elapsed'[i] = 0
  PROVE  Timely(i)' /\ Held(i)' /\ at'[i] \in Jobs /\ age'[i] \in Nat
         /\ phase'[i] \in {"claiming", "waiting"}
<1> USE DEF TypeOK
<1>1. at[i] \in Jobs /\ age[i] \in Nat /\ NumJobs \in Nat \ {0}
  BY TimesAssumption
<1>2. CASE at[i] < NumJobs
  <2>1. at[i] + 1 \in Jobs
    BY <1>1, <1>2 DEF Jobs
  <2>2. /\ phase'[i] = "claiming" /\ at'[i] = at[i] + 1 /\ age'[i] = age[i]
    BY <1>2 DEF Advance
  <2>3. ClaimBy[at[i]] + Timeout + UpdateTimeout <= ClaimBy[at[i] + 1]
    BY <1>1, <2>1, TimesAssumption
  <2>4. /\ ClaimBy[at[i]] \in Nat /\ ClaimBy[at[i] + 1] \in Nat
        /\ Timeout \in Nat /\ UpdateTimeout \in Nat
    BY <1>1, <2>1, TimesAssumption
  <2>5. age'[i] <= ClaimBy[at'[i]]
    BY <1>1, <2>2, <2>3, <2>4
  <2> QED
    BY <1>1, <2>1, <2>2, <2>5 DEF Timely, Held
<1>3. CASE ~(at[i] < NumJobs)
  <2>1. phase'[i] = "waiting" /\ at'[i] = 1 /\ age'[i] = 0
    BY <1>3 DEF Advance
  <2>2. 1 \in Jobs
    BY <1>1 DEF Jobs
  <2> QED
    BY <2>1, <2>2 DEF Timely, Held
<1> QED
  BY <1>2, <1>3

(* What another instance's step has to leave alone. *)
LEMMA OthersKeep ==
  ASSUME IInv, NEW k \in Instances,
         phase'[k] = phase[k], at'[k] = at[k], age'[k] = age[k], elapsed'[k] = elapsed[k],
         phase[k] = "running" =>
           lockedBy'[at[k]] = lockedBy[at[k]] /\ leaseIn'[at[k]] = leaseIn[at[k]]
  PROVE  Timely(k)' /\ Held(k)'
BY DEF IInv, Timely, Held

LEMMA InitIInv == Init => IInv
<1> SUFFICES ASSUME Init PROVE IInv
  OBVIOUS
<1>1. 1 \in Jobs
  BY TimesAssumption DEF Jobs
<1>2. TypeOK
  BY <1>1, TimesAssumption DEF Init, TypeOK, Phases
<1>3. \A i \in Instances : Timely(i) /\ Held(i)
  BY DEF Init, Timely, Held
<1> QED
  BY <1>2, <1>3 DEF IInv

(* The end of a job's turn in a poll, when rows are left alone but perhaps  *)
(* one that no other instance's run has locked.                            *)
LEMMA TurnEnds ==
  ASSUME IInv, NEW i \in Instances,
         phase[i] \in {"claiming", "marking"},
         Advance(i), elapsed' = elapsed,
         ok' \in [Instances -> BOOLEAN], faults' \in 0..MaxFaults,
         registered' \subseteq Jobs, nextIn' \in [Jobs -> Int],
         lockedBy' \in [Jobs -> Instances \cup {Nobody, Gone}], leaseIn' \in [Jobs -> Int],
         \A k \in Instances \ {i} : phase[k] = "running" =>
           lockedBy'[at[k]] = lockedBy[at[k]] /\ leaseIn'[at[k]] = leaseIn[at[k]]
  PROVE  IInv'
<1>1. TypeOK /\ Timely(i)
  BY DEF IInv
<1>2. at[i] \in Jobs /\ age[i] \in Nat /\ elapsed[i] = 0
  BY <1>1 DEF TypeOK, Timely
<1>3. ClaimBy[at[i]] \in Nat /\ Timeout \in Nat /\ UpdateTimeout \in Nat
  BY <1>2, TimesAssumption
<1>4. age[i] <= ClaimBy[at[i]] + Timeout + UpdateTimeout
  BY <1>1, <1>2, <1>3 DEF Timely
<1>5. /\ Timely(i)' /\ Held(i)' /\ at'[i] \in Jobs /\ age'[i] \in Nat
      /\ phase'[i] \in {"claiming", "waiting"}
  BY <1>1, <1>2, <1>4, AdvanceIsTimely
<1>6. TypeOK'
  BY <1>1, <1>5 DEF TypeOK, Advance, Phases
<1>7. ASSUME NEW k \in Instances, k # i
      PROVE  Timely(k)' /\ Held(k)'
  <2>1. phase'[k] = phase[k] /\ at'[k] = at[k] /\ age'[k] = age[k]
    BY <1>1, <1>7 DEF Advance, TypeOK
  <2> QED
    BY <1>7, <2>1, OthersKeep
<1> QED
  BY <1>5, <1>6, <1>7 DEF IInv

(* The start of a poll. *)
LEMMA PollKeeps ==
  ASSUME IInv, NEW i \in Instances, Poll(i)
  PROVE  IInv'
<1>1. TypeOK'
  BY DEF IInv, TypeOK, Poll, Phases, rowVars
<1>2. Timely(i)' /\ Held(i)'
  <2>1. 1 \in Jobs
    BY TimesAssumption DEF Jobs
  <2>2. ClaimBy[1] \in Nat
    BY <2>1, TimesAssumption
  <2>3. phase'[i] = "syncing" /\ at'[i] = 1 /\ age'[i] = 0 /\ elapsed'[i] = 0
    BY DEF Poll, IInv, TypeOK, Timely
  <2> QED
    BY <2>2, <2>3 DEF Timely, Held
<1>3. ASSUME NEW k \in Instances, k # i
      PROVE  Timely(k)' /\ Held(k)'
  BY <1>3, OthersKeep DEF Poll, IInv, TypeOK, rowVars
<1> QED
  BY <1>1, <1>2, <1>3 DEF IInv

(* Inserting rows leaves locks alone. *)
LEMMA InsertTypes ==
  ASSUME TypeOK, NEW i \in Instances, NEW new \in SUBSET Jobs, Insert(i, new)
  PROVE  /\ registered' \subseteq Jobs /\ nextIn' \in [Jobs -> Int]
         /\ lockedBy' = lockedBy /\ leaseIn' = leaseIn
<1>1. PollNow(i) \in Int
  BY PollNowBound
<1> QED
  BY <1>1 DEF Insert, TypeOK

LEMMA SyncKeeps ==
  ASSUME IInv, NEW i \in Instances, SyncDefinitions(i)
  PROVE  IInv'
<1>1. /\ registered' \subseteq Jobs /\ nextIn' \in [Jobs -> Int]
      /\ lockedBy' = lockedBy /\ leaseIn' = leaseIn
  <2>1. Insert(i, Jobs) /\ Jobs \in SUBSET Jobs /\ TypeOK
    BY DEF SyncDefinitions, IInv
  <2> QED
    BY <2>1, InsertTypes
<1>2. TypeOK'
  BY <1>1 DEF IInv, TypeOK, SyncDefinitions, Phases
<1>3. Timely(i)' /\ Held(i)'
  BY DEF SyncDefinitions, IInv, TypeOK, Timely, Held
<1>4. ASSUME NEW k \in Instances, k # i
      PROVE  Timely(k)' /\ Held(k)'
  BY <1>1, <1>4, OthersKeep DEF SyncDefinitions, IInv, TypeOK
<1> QED
  BY <1>2, <1>3, <1>4 DEF IInv

LEMMA SyncFailsKeeps ==
  ASSUME IInv, NEW i \in Instances, SyncFails(i)
  PROVE  IInv'
<1>1. /\ registered' \subseteq Jobs /\ nextIn' \in [Jobs -> Int]
      /\ lockedBy' = lockedBy /\ leaseIn' = leaseIn
  <2>1. PICK n \in 0..(NumJobs - 1) : Insert(i, 1..n)
    BY DEF SyncFails
  <2>2. 1..n \in SUBSET Jobs
    BY TimesAssumption DEF Jobs
  <2>3. TypeOK
    BY DEF IInv
  <2> QED
    BY <2>1, <2>2, <2>3, InsertTypes
<1>2. TypeOK'
  BY <1>1, TimesAssumption DEF IInv, TypeOK, SyncFails, Fault, Phases
<1>3. Timely(i)' /\ Held(i)'
  BY DEF SyncFails, IInv, TypeOK, Timely, Held
<1>4. ASSUME NEW k \in Instances, k # i
      PROVE  Timely(k)' /\ Held(k)'
  BY <1>1, <1>4, OthersKeep DEF SyncFails, IInv, TypeOK
<1> QED
  BY <1>2, <1>3, <1>4 DEF IInv

(* A lock is taken only on a job that nobody runs. *)
LEMMA LockSparesRunners ==
  ASSUME IInv, NEW i \in Instances, Claimable(i, at[i]), Lock(i, at[i])
  PROVE  /\ registered' = registered /\ nextIn' = nextIn
         /\ lockedBy' \in [Jobs -> Instances \cup {Nobody, Gone}]
         /\ leaseIn' \in [Jobs -> Int]
         /\ lockedBy'[at[i]] = i /\ leaseIn'[at[i]] = PollNow(i) + LeaseTTL
         /\ \A k \in Instances : phase[k] = "running" =>
              lockedBy'[at[k]] = lockedBy[at[k]] /\ leaseIn'[at[k]] = leaseIn[at[k]]
<1>1. TypeOK /\ PollNow(i) \in Int /\ LeaseTTL \in Nat
  BY PollNowBound, TimesAssumption DEF IInv
<1>2. ASSUME NEW k \in Instances, phase[k] = "running"
      PROVE  at[k] # at[i]
  BY <1>2, RunnersLeaseIsNotFree
<1> QED
  BY <1>1, <1>2 DEF Lock, TypeOK

LEMMA TryClaimKeeps ==
  ASSUME IInv, NEW i \in Instances, TryClaim(i)
  PROVE  IInv'
<1>1. Claimable(i, at[i]) /\ Lock(i, at[i])
  BY DEF TryClaim
<1>2. TypeOK'
  BY <1>1, LockSparesRunners DEF IInv, TypeOK, TryClaim, Phases
<1>3. Timely(i)' /\ Held(i)'
  <2>1. /\ phase[i] = "claiming" /\ phase'[i] = "running" /\ at' = at /\ age' = age
        /\ elapsed' = elapsed /\ age[i] \in Nat /\ at[i] \in Jobs
    BY DEF TryClaim, IInv, TypeOK
  <2>2. elapsed[i] = 0 /\ age[i] <= ClaimBy[at[i]]
    BY <2>1 DEF IInv, Timely
  <2>3. ClaimBy[at[i]] \in Nat /\ Skew[i] \in Nat /\ LeaseTTL \in Nat
    BY <2>1, TimesAssumption
  <2>4. lockedBy'[at[i]] = i /\ leaseIn'[at[i]] = PollNow(i) + LeaseTTL
    BY <1>1, LockSparesRunners
  <2>5. leaseIn'[at[i]] = LeaseTTL + Skew[i] - age[i]
    BY <2>1, <2>3, <2>4 DEF PollNow
  <2> QED
    BY <2>1, <2>2, <2>3, <2>4, <2>5 DEF Timely, Held
<1>4. ASSUME NEW k \in Instances, k # i
      PROVE  Timely(k)' /\ Held(k)'
  <2>1. phase'[k] = phase[k] /\ at' = at /\ age' = age /\ elapsed' = elapsed
    BY <1>4 DEF TryClaim, IInv, TypeOK
  <2> QED
    BY <1>1, <2>1, LockSparesRunners, OthersKeep
<1> QED
  BY <1>2, <1>3, <1>4 DEF IInv

LEMMA SkipKeeps ==
  ASSUME IInv, NEW i \in Instances, Skip(i)
  PROVE  IInv'
BY TurnEnds DEF Skip, IInv, TypeOK, rowVars

LEMMA ClaimFailsKeeps ==
  ASSUME IInv, NEW i \in Instances, ClaimFails(i)
  PROVE  IInv'
<1>1. phase[i] = "claiming" /\ Advance(i) /\ elapsed' = elapsed /\ ok' = ok /\ TypeOK
  BY DEF ClaimFails, IInv
<1>2. faults' \in 0..MaxFaults
  BY <1>1, TimesAssumption DEF ClaimFails, Fault, TypeOK
<1>3. CASE UNCHANGED rowVars
  BY <1>1, <1>2, <1>3, TurnEnds DEF TypeOK, rowVars
<1>4. CASE Claimable(i, at[i]) /\ Lock(i, at[i])
  BY <1>1, <1>2, <1>4, LockSparesRunners, TurnEnds DEF TypeOK
<1> QED
  BY <1>3, <1>4 DEF ClaimFails

LEMMA RunEndsKeeps ==
  ASSUME IInv, NEW i \in Instances, NEW success \in BOOLEAN, RunEnds(i, success),
         faults' \in 0..MaxFaults
  PROVE  IInv'
<1>1. TypeOK'
  BY TimesAssumption DEF IInv, TypeOK, RunEnds, rowVars, Phases
<1>2. Timely(i)' /\ Held(i)'
  <2>1. /\ phase[i] = "running" /\ phase'[i] = "marking" /\ at' = at /\ age' = age
        /\ elapsed'[i] = 0 /\ elapsed[i] \in 0..Timeout /\ age[i] \in Nat /\ at[i] \in Jobs
    BY DEF RunEnds, IInv, TypeOK
  <2>2. age[i] <= ClaimBy[at[i]] + elapsed[i]
    BY <2>1 DEF IInv, Timely
  <2>3. ClaimBy[at[i]] \in Nat /\ Timeout \in Nat /\ UpdateTimeout \in Nat
    BY <2>1, TimesAssumption
  <2>4. age[i] <= ClaimBy[at[i]] + Timeout + UpdateTimeout
    BY <2>1, <2>2, <2>3
  <2> QED
    BY <2>1, <2>4 DEF Timely, Held
<1>3. ASSUME NEW k \in Instances, k # i
      PROVE  Timely(k)' /\ Held(k)'
  BY <1>3, OthersKeep DEF RunEnds, IInv, TypeOK, rowVars
<1> QED
  BY <1>1, <1>2, <1>3 DEF IInv

(* An outcome recorded late does not release another instance's lock. *)
LEMMA MarkKeeps ==
  ASSUME IInv, NEW i \in Instances, Mark(i)
  PROVE  IInv'
<1> DEFINE delay == IF ok[i] THEN Interval ELSE RetryDelay
<1>1. /\ phase[i] = "marking" /\ Advance(i) /\ elapsed' = elapsed /\ TypeOK
      /\ ok' \in [Instances -> BOOLEAN] /\ faults' \in 0..MaxFaults
      /\ Release(i, at[i], delay)
  BY DEF Mark, IInv, TypeOK
<1>2. CASE lockedBy[at[i]] = i
  <2>1. \A k \in Instances \ {i} : phase[k] = "running" => at[k] # at[i]
    BY <1>2 DEF IInv, Held
  <2>2. /\ lockedBy' = [lockedBy EXCEPT ![at[i]] = Nobody]
        /\ leaseIn' = [leaseIn EXCEPT ![at[i]] = 0]
        /\ nextIn' = [nextIn EXCEPT ![at[i]] = Skew[i] + delay]
        /\ registered' = registered
    BY <1>1, <1>2 DEF Release
  <2>3. Skew[i] + delay \in Int
    BY TimesAssumption
  <2> HIDE DEF delay
  <2> QED
    BY <1>1, <2>1, <2>2, <2>3, TurnEnds DEF TypeOK
<1>3. CASE lockedBy[at[i]] # i
  <2>1. UNCHANGED rowVars
    BY <1>1, <1>3 DEF Release
  <2> QED
    BY <1>1, <2>1, TurnEnds DEF TypeOK, rowVars
<1> QED
  BY <1>2, <1>3

LEMMA MarkFailsKeeps ==
  ASSUME IInv, NEW i \in Instances, MarkFails(i)
  PROVE  IInv'
<1>1. /\ phase[i] = "marking" /\ Advance(i) /\ elapsed' = elapsed /\ TypeOK
      /\ ok' \in [Instances -> BOOLEAN] /\ UNCHANGED rowVars
  BY DEF MarkFails, IInv, TypeOK
<1>2. faults' \in 0..MaxFaults
  BY <1>1, TimesAssumption DEF MarkFails, Fault, TypeOK
<1> QED
  BY <1>1, <1>2, TurnEnds DEF TypeOK, rowVars

(* A crash takes the locks of the crashed instance only. *)
LEMMA CrashKeeps ==
  ASSUME IInv, NEW i \in Instances, Crash(i)
  PROVE  IInv'
<1>1. 1 \in Jobs
  BY TimesAssumption DEF Jobs
<1>2. TypeOK'
  BY <1>1, TimesAssumption DEF IInv, TypeOK, Crash, Fault, Phases
<1>3. Timely(i)' /\ Held(i)'
  BY DEF Crash, IInv, TypeOK, Timely, Held
<1>4. ASSUME NEW k \in Instances, k # i
      PROVE  Timely(k)' /\ Held(k)'
  <2>1. phase'[k] = phase[k] /\ at'[k] = at[k] /\ age'[k] = age[k] /\ elapsed'[k] = elapsed[k]
    BY <1>4 DEF Crash, IInv, TypeOK
  <2>2. phase[k] = "running" => at[k] \in Jobs /\ lockedBy[at[k]] = k
    BY DEF IInv, TypeOK, Held
  <2>3. leaseIn' = leaseIn /\ lockedBy' = [j \in Jobs |-> IF lockedBy[j] = i THEN Gone ELSE lockedBy[j]]
    BY DEF Crash
  <2> QED
    BY <1>4, <2>1, <2>2, <2>3, OthersKeep
<1> QED
  BY <1>2, <1>3, <1>4 DEF IInv

(* Time: a runner's lease and its poll's clock reading grow old together. *)
LEMMA TickKeeps ==
  ASSUME IInv, Tick
  PROVE  IInv'
<1>1. TypeOK'
  BY TimesAssumption DEF IInv, TypeOK, Tick, MayTakeTime, InPoll, Sooner, Phases
<1>2. ASSUME NEW i \in Instances
      PROVE  Timely(i)'
  <2>1. /\ at[i] \in Jobs /\ age[i] \in Nat /\ elapsed[i] \in Nat /\ phase[i] \in Phases
        /\ phase' = phase /\ at' = at
        /\ age'[i] = (IF InPoll(i) THEN age[i] + 1 ELSE age[i])
        /\ elapsed'[i] = (IF phase[i] = "running" THEN elapsed[i] + 1 ELSE elapsed[i])
        /\ MayTakeTime(i) /\ Timely(i)
    BY DEF IInv, TypeOK, Tick
  <2>2. ClaimBy[at[i]] \in Nat /\ Timeout \in Nat /\ UpdateTimeout \in Nat
    BY <2>1, TimesAssumption
  <2> QED
    BY <2>1, <2>2 DEF Timely, MayTakeTime, InPoll
<1>3. ASSUME NEW i \in Instances, phase[i] = "running"
      PROVE  Held(i)'
  <2>1. /\ at[i] \in Jobs /\ age[i] \in Nat /\ elapsed[i] \in 0..Timeout /\ at' = at
        /\ age'[i] = age[i] + 1 /\ lockedBy' = lockedBy /\ leaseIn[at[i]] \in Int
        /\ age[i] <= ClaimBy[at[i]] + elapsed[i]
        /\ lockedBy[at[i]] = i /\ leaseIn[at[i]] = LeaseTTL + Skew[i] - age[i]
    BY <1>3 DEF IInv, TypeOK, Tick, InPoll, Timely, Held
  <2>2. leaseIn'[at[i]] = Sooner(leaseIn[at[i]])
    BY <2>1, NamesAssumption DEF Tick
  <2>3. /\ ClaimBy[at[i]] \in Nat /\ Timeout \in Nat /\ LeaseTTL \in Nat /\ Skew[i] \in Nat
        /\ MaxSkew \in Nat
    BY <2>1, TimesAssumption
  <2>4. ClaimBy[at[i]] + Timeout + MaxSkew < LeaseTTL
    BY <2>1, LeaseAssumption
  <2>5. leaseIn[at[i]] > 0
    BY <2>1, <2>3, <2>4
  <2>6. MaxAge \in Nat
    BY TimesAssumption DEF MaxAge, Jobs
  <2>7. leaseIn'[at[i]] = leaseIn[at[i]] - 1
    BY <2>1, <2>2, <2>5, <2>6 DEF Sooner
  <2> QED
    BY <2>1, <2>3, <2>7 DEF Held
<1>4. ASSUME NEW i \in Instances, phase[i] # "running"
      PROVE  Held(i)'
  BY <1>4 DEF Held, Tick
<1> QED
  BY <1>1, <1>2, <1>3, <1>4 DEF IInv

LEMMA NextIInv == IInv /\ [Next]_vars => IInv'
<1> SUFFICES ASSUME IInv, [Next]_vars PROVE IInv'
  OBVIOUS
<1>1. CASE Tick
  BY <1>1, TickKeeps
<1>2. ASSUME NEW i \in Instances, Progress(i)
      PROVE  IInv'
  <2>1. CASE RunSucceeds(i)
    BY <2>1, RunEndsKeeps DEF RunSucceeds, IInv, TypeOK
  <2> QED
    BY <1>2, <2>1, PollKeeps, SyncKeeps, TryClaimKeeps, SkipKeeps, MarkKeeps DEF Progress
<1>3. ASSUME NEW i \in Instances, Failure(i)
      PROVE  IInv'
  <2>1. CASE RunFails(i)
    <3>1. faults' \in 0..MaxFaults
      BY <2>1, TimesAssumption DEF RunFails, Fault, IInv, TypeOK
    <3> QED
      BY <2>1, <3>1, RunEndsKeeps DEF RunFails
  <2> QED
    BY <1>3, <2>1, SyncFailsKeeps, ClaimFailsKeeps, MarkFailsKeeps, CrashKeeps DEF Failure
<1>4. CASE UNCHANGED vars
  BY <1>4 DEF vars, workerVars, rowVars, IInv, TypeOK, Timely, Held
<1> QED
  BY <1>1, <1>2, <1>3, <1>4 DEF Next

(* In every reachable state each poll keeps to its times and each runner    *)
(* holds its lock.                                                         *)
THEOREM Invariance == Spec => []IInv
  BY InitIInv, NextIInv, PTL DEF Spec

(* The columns of background_jobs and the polls' locals keep their types.   *)
THEOREM WorkerTypes == Spec => []TypeOK
<1>1. IInv => TypeOK
  BY DEF IInv
<1> QED
  BY <1>1, Invariance, PTL

(* A process that runs a job holds its lock until the run ends, whatever    *)
(* other processes claim or record meanwhile.                              *)
THEOREM LeaseIsHeld == Spec => []RunnerHoldsLease
<1>1. IInv => RunnerHoldsLease
  BY DEF IInv, Held, RunnerHoldsLease
<1> QED
  BY <1>1, Invariance, PTL

(* No two processes run the same job at once, for any number of processes   *)
(* and jobs and any times that satisfy LeaseAssumption.                     *)
THEOREM RunsAreExclusive == Spec => []OneRunner
<1>1. IInv => OneRunner
  BY DEF IInv, Held, OneRunner
<1> QED
  BY <1>1, Invariance, PTL
=============================================================================
