--------------------------- MODULE BackgroundJobs ---------------------------
(***************************************************************************)
(* The background worker: every server process polls the background_jobs   *)
(* table, claims the jobs that are due with a lease, runs each within a    *)
(* timeout and records the outcome.  Processes share nothing but the       *)
(* table; each reads its own clock, and uses one reading for a whole poll. *)
(*                                                                         *)
(* Times are kept relative to the present (a column holds "in how many     *)
(* ticks"), so that time may pass for ever in a finite model.              *)
(***************************************************************************)
EXTENDS Integers

CONSTANTS
  Instances,     \* the server processes
  Nobody,        \* SQL NULL in locked_by
  Gone,          \* the instance id of a process that ended; ids are not used again
  NumJobs,       \* the jobs, 1..NumJobs in the order a poll tries them
  Interval,      \* Job.Interval
  RetryDelay,    \* Job.RetryDelay
  LeaseTTL,      \* Job.LeaseTTL
  Timeout,       \* Job.Timeout, the deadline of a run's context
  UpdateTimeout, \* the deadline of the context that records an outcome, 5 seconds
  ClaimBy,       \* how long after a poll's start its claim of a job may be answered
  Skew,          \* how far an instance's clock is ahead of the slowest one
  MaxSkew,       \* the largest of them
  MaxFaults      \* bound on crashes, failed statements and failed runs

Jobs == 1..NumJobs

ASSUME NamesAssumption == Nobody \notin Instances /\ Gone \notin Instances /\ Nobody # Gone
ASSUME TimesAssumption ==
  /\ NumJobs \in Nat \ {0} /\ MaxFaults \in Nat /\ MaxSkew \in Nat
  /\ Interval \in Nat \ {0} /\ RetryDelay \in Nat \ {0} /\ LeaseTTL \in Nat \ {0}
  /\ Timeout \in Nat \ {0} /\ UpdateTimeout \in Nat \ {0}
  /\ Skew \in [Instances -> 0..MaxSkew]
  /\ ClaimBy \in [Jobs -> Nat \ {0}]
  /\ \A j \in Jobs : j + 1 \in Jobs => ClaimBy[j] + Timeout + UpdateTimeout <= ClaimBy[j + 1]

(* What the lease is long enough for.  The code fixes LeaseTTL at 10 and    *)
(* the timeouts at 2, 1 and 1 minutes; it bounds neither the time a claim   *)
(* takes to be answered nor the skew of the clocks.                         *)
ASSUME LeaseAssumption == \A j \in Jobs : ClaimBy[j] + Timeout + MaxSkew < LeaseTTL

MaxAge == ClaimBy[NumJobs] + Timeout + UpdateTimeout

VARIABLES
  phase,      \* what each instance is doing
  at,         \* the job it is at in its poll
  age,        \* how long ago it read the clock for its poll
  elapsed,    \* for how long the run has been going on
  ok,         \* whether its last run returned without an error
  registered, \* the jobs with a row in background_jobs
  nextIn,     \* next_run_at of each row
  lockedBy,   \* locked_by; lease_until is NULL exactly when locked_by is
  leaseIn,    \* lease_until of each locked row, 0 otherwise
  faults      \* faults so far

workerVars == <<phase, at, age, elapsed, ok>>
rowVars == <<registered, nextIn, lockedBy, leaseIn>>
vars == <<workerVars, rowVars, faults>>

Phases == {"down", "waiting", "syncing", "claiming", "running", "marking"}

TypeOK ==
  /\ phase \in [Instances -> Phases]
  /\ at \in [Instances -> Jobs]
  /\ age \in [Instances -> Nat]
  /\ elapsed \in [Instances -> 0..Timeout]
  /\ ok \in [Instances -> BOOLEAN]
  /\ registered \subseteq Jobs
  /\ nextIn \in [Jobs -> Int]
  /\ lockedBy \in [Jobs -> Instances \cup {Nobody, Gone}]
  /\ leaseIn \in [Jobs -> Int]
  /\ faults \in 0..MaxFaults

Init ==
  /\ phase = [i \in Instances |-> "down"]
  /\ at = [i \in Instances |-> 1]
  /\ age = [i \in Instances |-> 0]
  /\ elapsed = [i \in Instances |-> 0]
  /\ ok = [i \in Instances |-> FALSE]
  /\ registered = {}
  /\ nextIn = [j \in Jobs |-> 0]
  /\ lockedBy = [j \in Jobs |-> Nobody]
  /\ leaseIn = [j \in Jobs |-> 0]
  /\ faults = 0

Fault == faults < MaxFaults /\ faults' = faults + 1

-----------------------------------------------------------------------------
(* The poll of one instance.                                               *)

(* The clock reading of i's poll, in ticks from the present. *)
PollNow(i) == Skew[i] - age[i]

(* Run polls at once when the process starts and then at every tick of its  *)
(* ticker; runDueJobs reads the clock once.                                 *)
Poll(i) ==
  /\ phase[i] \in {"down", "waiting"}
  /\ phase' = [phase EXCEPT ![i] = "syncing"]
  /\ UNCHANGED <<at, age, elapsed, ok, rowVars, faults>>

(* A missing row is inserted as due at once; an existing one keeps its      *)
(* schedule and its lock.                                                   *)
Insert(i, new) ==
  /\ registered' = registered \cup new
  /\ nextIn' = [j \in Jobs |-> IF j \in new \ registered THEN PollNow(i) ELSE nextIn[j]]
  /\ UNCHANGED <<lockedBy, leaseIn>>

SyncDefinitions(i) ==
  /\ phase[i] = "syncing"
  /\ Insert(i, Jobs)
  /\ phase' = [phase EXCEPT ![i] = "claiming"]
  /\ UNCHANGED <<at, age, elapsed, ok, faults>>

(* A statement fails after some of the rows: the poll is given up. *)
SyncFails(i) ==
  /\ Fault /\ phase[i] = "syncing"
  /\ \E n \in 0..(NumJobs - 1) : Insert(i, 1..n)
  /\ phase' = [phase EXCEPT ![i] = "waiting"]
  /\ age' = [age EXCEPT ![i] = 0]
  /\ UNCHANGED <<at, elapsed, ok>>

(* Whether the row of j is free at i's clock reading. *)
LeaseIgnored(i, j) == TRUE                          \* mutant: lease_until is not looked at
LeaseReleased(i, j) == lockedBy[j] = Nobody         \* mutant: a lease does not run out
LeaseFree(i, j) == lockedBy[j] # Nobody => leaseIn[j] <= PollNow(i)

Claimable(i, j) == j \in registered /\ nextIn[j] <= PollNow(i) /\ LeaseFree(i, j)

(* On to the poll's next job, or to the wait for the next poll: what the   *)
(* poll knew is forgotten.                                                 *)
PastTheEnd(i) ==   \* mutant: off by one
  /\ phase' = [phase EXCEPT ![i] = IF at[i] <= NumJobs THEN "claiming" ELSE "waiting"]
  /\ at' = [at EXCEPT ![i] = IF @ <= NumJobs THEN @ + 1 ELSE 1]
  /\ age' = [age EXCEPT ![i] = IF at[i] <= NumJobs THEN @ ELSE 0]
Advance(i) ==
  /\ phase' = [phase EXCEPT ![i] = IF at[i] < NumJobs THEN "claiming" ELSE "waiting"]
  /\ at' = [at EXCEPT ![i] = IF @ < NumJobs THEN @ + 1 ELSE 1]
  /\ age' = [age EXCEPT ![i] = IF at[i] < NumJobs THEN @ ELSE 0]

Lock(i, j) ==
  /\ lockedBy' = [lockedBy EXCEPT ![j] = i]
  /\ leaseIn' = [leaseIn EXCEPT ![j] = PollNow(i) + LeaseTTL]
  /\ UNCHANGED <<registered, nextIn>>

TryClaim(i) ==
  /\ phase[i] = "claiming" /\ Claimable(i, at[i])
  /\ Lock(i, at[i])
  /\ phase' = [phase EXCEPT ![i] = "running"]
  /\ UNCHANGED <<at, age, elapsed, ok, faults>>

Skip(i) ==
  /\ phase[i] = "claiming" /\ ~Claimable(i, at[i])
  /\ Advance(i)
  /\ UNCHANGED <<elapsed, ok, rowVars, faults>>

(* The claim returns an error.  The UPDATE may have been committed all the  *)
(* same; then the row is locked, and nobody runs the job.                   *)
ClaimFails(i) ==
  /\ Fault /\ phase[i] = "claiming"
  /\ \/ UNCHANGED rowVars
     \/ Claimable(i, at[i]) /\ Lock(i, at[i])
  /\ Advance(i)
  /\ UNCHANGED <<elapsed, ok>>

RunEnds(i, success) ==
  /\ phase[i] = "running"
  /\ phase' = [phase EXCEPT ![i] = "marking"]
  /\ elapsed' = [elapsed EXCEPT ![i] = 0]
  /\ ok' = [ok EXCEPT ![i] = success]
  /\ UNCHANGED <<at, age, rowVars>>

RunSucceeds(i) == RunEnds(i, TRUE) /\ UNCHANGED faults

(* Also what an expired deadline and a shutdown make of a run. *)
RunFails(i) == Fault /\ RunEnds(i, FALSE)

(* MarkSuccess and MarkFailure, which leave alone a row locked by another. *)
MarkAnyones(i, j, delay) ==   \* mutant: locked_by is not looked at
  /\ lockedBy' = [lockedBy EXCEPT ![j] = Nobody]
  /\ leaseIn' = [leaseIn EXCEPT ![j] = 0]
  /\ nextIn' = [nextIn EXCEPT ![j] = Skew[i] + delay]
  /\ UNCHANGED registered
Release(i, j, delay) ==
  IF lockedBy[j] = i
  THEN /\ lockedBy' = [lockedBy EXCEPT ![j] = Nobody]
       /\ leaseIn' = [leaseIn EXCEPT ![j] = 0]
       /\ nextIn' = [nextIn EXCEPT ![j] = Skew[i] + delay]
       /\ UNCHANGED registered
  ELSE UNCHANGED rowVars

Mark(i) ==
  /\ phase[i] = "marking"
  /\ Release(i, at[i], IF ok[i] THEN Interval ELSE RetryDelay)
  /\ ok' = [ok EXCEPT ![i] = FALSE]
  /\ Advance(i)
  /\ UNCHANGED <<elapsed, faults>>

(* The outcome is not recorded, and the lease stays until it runs out. *)
MarkFails(i) ==
  /\ Fault /\ phase[i] = "marking"
  /\ ok' = [ok EXCEPT ![i] = FALSE]
  /\ Advance(i)
  /\ UNCHANGED <<elapsed, rowVars>>

-----------------------------------------------------------------------------
(* A process ends, and its id with it. *)
Crash(i) ==
  /\ Fault /\ phase[i] # "down"
  /\ phase' = [phase EXCEPT ![i] = "down"]
  /\ at' = [at EXCEPT ![i] = 1]
  /\ age' = [age EXCEPT ![i] = 0]
  /\ elapsed' = [elapsed EXCEPT ![i] = 0]
  /\ ok' = [ok EXCEPT ![i] = FALSE]
  /\ lockedBy' = [j \in Jobs |-> IF lockedBy[j] = i THEN Gone ELSE lockedBy[j]]
  /\ UNCHANGED <<registered, nextIn, leaseIn>>

(* What may still take time: a run up to its deadline, the recording of its *)
(* outcome up to its own, and the other statements as assumed by ClaimBy.   *)
MayTakeTime(i) ==
  /\ phase[i] \in {"syncing", "claiming"} => age[i] < ClaimBy[at[i]]
  /\ phase[i] = "running" => elapsed[i] < Timeout
  /\ phase[i] = "marking" => age[i] < ClaimBy[at[i]] + Timeout + UpdateTimeout

(* A column that every poll finds in the past need not fall further. *)
Sooner(t) == IF t > -MaxAge THEN t - 1 ELSE t

InPoll(i) == phase[i] \notin {"down", "waiting"}

Tick ==
  /\ \A i \in Instances : MayTakeTime(i)
  /\ age' = [i \in Instances |-> IF InPoll(i) THEN age[i] + 1 ELSE age[i]]
  /\ elapsed' = [i \in Instances |->
       IF phase[i] = "running" THEN elapsed[i] + 1 ELSE elapsed[i]]
  /\ nextIn' = [j \in Jobs |-> IF j \in registered THEN Sooner(nextIn[j]) ELSE nextIn[j]]
  /\ leaseIn' = [j \in Jobs |-> IF lockedBy[j] # Nobody THEN Sooner(leaseIn[j]) ELSE leaseIn[j]]
  /\ UNCHANGED <<phase, at, ok, registered, lockedBy, faults>>

-----------------------------------------------------------------------------
Progress(i) ==
  \/ Poll(i) \/ SyncDefinitions(i)
  \/ TryClaim(i) \/ Skip(i)
  \/ RunSucceeds(i) \/ Mark(i)

Failure(i) == SyncFails(i) \/ ClaimFails(i) \/ RunFails(i) \/ MarkFails(i) \/ Crash(i)

Next == Tick \/ \E i \in Instances : Progress(i) \/ Failure(i)

Spec == Init /\ [][Next]_vars

(* Time passes, and a process that is not stopped goes on: its loop ends    *)
(* only with the process, and a process that ended is started again.        *)
FairSpec == Spec /\ WF_vars(Tick) /\ \A i \in Instances : WF_vars(Progress(i))

-----------------------------------------------------------------------------
(* Properties.                                                             *)

(* No two processes run the same job at once, with stale clock readings,    *)
(* skewed clocks, lost replies and crashes, as long as the lease is longer  *)
(* than a run and what comes before it in a poll.                           *)
OneRunner ==
  \A i, k \in Instances :
    phase[i] = "running" /\ phase[k] = "running" /\ at[i] = at[k] => i = k

(* A process that runs a job holds its lock until the run ends: neither     *)
(* another process' claim nor a late outcome of an earlier run takes it.    *)
RunnerHoldsLease ==
  \A i \in Instances : phase[i] = "running" => lockedBy[at[i]] = i

(* Once faults stop, every job keeps completing, whatever the faults left   *)
(* in the table: this is what the expiry of overdue hops relies on.         *)
JobsKeepSucceeding ==
  \A j \in Jobs :
    []<>(\E i \in Instances : phase[i] = "marking" /\ at[i] = j /\ ok[i])
=============================================================================
