# hopShare in TLA+

hopShare is a time bank: members of an organization post *hops* ("asks" for help and
"offers" of help), others take them up, and a completed hop moves hours from one member's
balance to another's. The program is a Go HTTP server over PostgreSQL; several server
processes may run against one database, and each runs a background worker.

This directory holds TLA+ models of that program, the TLC configurations that check them on
small instances, and proofs, checked by TLAPS, of what holds for every instance.

| to do | command, in this directory |
|---|---|
| parse a module | `tlasany HopLifecycle.tla` |
| run a model | `tlc -workers 2 -config HopLimits.cfg MCHopLifecycle.tla` |
| check the proofs of a module | `tlapm HopLifecycle_proofs.tla` |

`PROJECT.json` lists the components, the runs, for every definition the lines of code it
stands for, for every property a mutation of the model that breaks it, the hazards the
properties are for, and the theorems.

## 1. The system's parts

State is in the database unless said otherwise. A request handler runs in its own goroutine
and shares nothing with another but the database; so concurrency is between transactions,
at PostgreSQL's READ COMMITTED level with explicit `FOR UPDATE` locks.

| component | state | operations | what makes it correct | model |
|---|---|---|---|---|
| Hop life cycle (`service/hop_service.go`) | `hops`, `hop_help_offers` | create, offer, accept, decline, cancel, complete, expire, reopen, delete | one outcome per hop; status, match and offers agree; matches are consented; nothing waits for ever | `HopLifecycle`, `HopTransactions`, `HopContract`, `HopRefinement` |
| Time bank (same file, `timebank_policy.go`) | `hop_transactions`, `hour_balance_adjustments`, policy columns of `organizations` | completion, adjustment, starting balance, policy change | hours move once and the right way; balances stay within the limits; the starting balance is granted once | `HopLifecycle`, `HopPages` |
| Account administration (`admin_member_service.go`) | `members.enabled`, `members.deleted_at` | disable, delete, enable, adjust hours, force a reset | a deleted account takes part in nothing | `HopLifecycle`, `HopTransactions`, `Accounts` |
| Background worker (`worker/`) | `background_jobs`; the worker's local variables | sync, claim, run, record | no two processes run a job at once; jobs keep running | `BackgroundJobs` |
| Membership and roles (`org_service.go`) | `organization_memberships`, `membership_requests` | request, approve, deny, leave, remove, change role | at most one current membership; decisions are final; an organization keeps an owner | `Membership` |
| Invitations (`org_invite_service.go`) | `organization_invitations` | issue, replace, send, mark, expire, accept | a link lets in once, whom it was sent to; the daily limit | `Membership` |
| Organizations (`org_service.go`, home page of `router.go`) | `organizations`, `members.current_organization` | create, enable, disable, delete, look at | one address each; one creation per account; the home page opens | `Organizations` |
| Sessions (`auth/`) | `member_sessions`, or two maps in memory | create, get, rotate, delete, revoke, clean up | no session past its times; rotation is atomic; revocation ends what there is | `SessionContract`, `MemorySessions`, `PostgresSessions` |
| Accounts, profiles and links (`member_service.go`, `member_token_service.go`, `router.go`) | `members`, `member_tokens` | sign up, in and out, verify, reset, change, close | a link works once; only verified accounts are signed in; a reset ends older sessions | `Accounts` |
| Discussion and moderation (`hop_service.go`, `moderation_service.go`, `notification_service.go`) | `hop_comments`, `hop_images`, `moderation_reports`, `member_notifications` | comment, upload, hide, report, dismiss, delete | private stays private; a report is resolved once, with its effect | `Discussion` |
| Skills and matching (`skill_service.go`, `skill_alias_service.go`, `hop_skill_matching_service.go`) | `skills`, `skill_aliases`, `member_skills` | replace a list, select, score, sort, filter | selections are of skills that exist and were allowed; suggestions fit | `Skills` |
| Administration (`admin_router.go`, `admin_audit_service.go`, `admin_*_service.go`) | `admin_audit_events` | act, log, export, count | the log agrees with what was done; the numbers agree | `Administration`, `HopPages` |
| Pages (`web/templates/`, handlers) | – | show lists, buttons and numbers | what is offered works, what is allowed is offered | `HopPages` |
| HTTP front (`http/`) | rate limiter in memory | authentication, authorisation | operations run for the right member | guards and first steps of the actions; limiter not modelled |
| Configuration, migrations, bulk load | – | – | – | not modelled |

How they interact: the handlers call the service functions; acceptance and completion read
memberships, balances and the policy; an administrator's disabling and deletion reach into
hops, offers, memberships, sessions and links; the worker's jobs call `ExpireDueHops` and
`DeleteExpiredSessions`; joining grants a starting balance; a match decides who reads a
comment; a membership decides which skills may be selected. All of it goes through rows other
transactions read and lock at the same time, and that is where the hard behaviours are:

* statements of two transactions in an order nobody tested (a deletion between the
  membership check and the insert of an offer; two owners who leave at once; a rotation of a
  session during its revocation; two saves of one selection);
* handlers that read, work for a while and write (a login that hashes a password while a reset
  ends; an audit entry after its action; a comment whose recipient is no longer the match);
* long sequences of legal calls (accept, disable, reopen, re-offer, accept; leave and join
  again; adjust, narrow the policy, complete);
* the worker's lease against skewed clocks, stale clock readings, lost replies and crashes; a
  mail that is reported as failed and arrives;
* conditions and numbers that are written down several times (a button's condition in a
  handler, two templates and a dialog; a balance in three queries);
* something that must happen at last (an overdue hop that keeps being reopened, a job whose
  lock belongs to a process that is gone).

`PROJECT.json` lists each hazard with its line and the properties aimed at it.

## 2. The modules and the code

**`HopLifecycle`** – one action per service operation, from its first check to its commit.
An operation that returns an error commits nothing and is a stuttering step. Columns are
functions on `Hops`: `status`, `kind`, `creator`, `estimate`, `matched`, `awarded`
(`completed_hours`); `offer[h][m]` is the status of the row of `hop_help_offers`, where SQL's
NULL is `"pending"` and no row is `"none"`; `transfers` is `hop_transactions` and
`adjusted[m]` the sum of the member's `hour_balance_adjustments`. As in the code a balance is
not stored but summed (`Balance`). The sum counts hours as a set of units (`HourUnits`)
instead of recursively, so that the proofs can reason about it. Dates are reduced to the set
`due` of the hops whose `expires_at` has passed. One organization is modelled, with one owner
who stays: hops of two organizations share no row but their members'. `AcceptHop`, which
no handler calls but the tests do, is there when `DirectAccept` is TRUE. Only an enabled
account that is not deleted acts on a session (`SignedIn`). What enables, disables or ends
accounts and memberships is counted by `events`, bounded by `MaxEvents`.

**`HopContract`** – what hops promise, in 110 lines without offers' history, dates,
administration or limits: open, paired, settled or closed; only members that wait are
paired; hours move once, from who pays to who earns, when a paired hop settles; whoever
departs leaves nothing behind.

**`HopRefinement`** – the mapping from `HopLifecycle`'s columns to the contract's view.

**`HopTransactions`** – the operations that run concurrently on hops, split into their
statements, in up to `Sessions` transactions at a time: plain reads before a lock, the rows a
locking statement picks from what is committed when it starts, the wait for each row, the
checks on the latest version, the commit. Writes become visible at the commit, so each
transaction's writes are in its last step. Waits of foreign keys for a member row that is
held FOR UPDATE are `ReferTo`. `RollBack` is any end without a commit: a failed check (which,
where the deferred `Rollback` sees a nil `err`, comes only when the request's context ends),
a cancelled context, or a deadlock the database resolves. `AdminDeleteHop`, re-enabling,
joining and policy changes are not in this module; `LeaveOrganization` and `AdminExpireHop`
are single steps.

**`BackgroundJobs`** – every process polls: it reads its clock once, syncs the definitions,
then for each job in turn claims, runs and records. `phase`, `at`, `age` (time since the
clock was read), `elapsed` and `ok` are the worker's locals; `registered`, `nextIn`,
`lockedBy`, `leaseIn` the columns of `background_jobs`, with times relative to the present so
that time can pass for ever in a finite model. Failures: a statement fails, with or without
its effect; a run fails or runs out of time; the process ends at any moment, and its random
instance id is not used again (`Gone`). The column `enabled` is never changed by the code and
left out.

**`HopPages`** – queries over `HopLifecycle`'s state, with the names of the functions that make
them: which hops each list holds, which buttons each page, row, dialog and bar shows, which
numbers are printed. `ButtonsWork` and `NothingOutOfReach` use ENABLED of the actions, so that
a button's condition is compared with the guard of the operation behind it, which the code
keeps elsewhere. `NumbersAgree` is the conjunction of `BalancesAgree`, `HoursAgree`,
`OverviewsAgree`, `ViewsAgree` and `MessagesAgree`: each compares the answers of two or more
queries. Chains of conditions whose order matters (`BalanceState`, `CompletionMessage`) are
IF ... ELSE IF as in the code.

**`Membership`** – every request is a `handler` that goes through its statements: the reads
that authorise it, then the locks (`held`), reads (`count`, `had`, `exists`) and the commit.
Columns are `membership`, `request`, `invite`, `org`, `grants` (starting balances booked);
`mailed` is what has reached its addressee, `overdue` what is past `expires_at`. `Ensure` is
`ensureActiveMembershipAndStartingBalance`, with its two reads at the times they are made.
Issuing goes through a list of addresses (`todo`) with the remainder of the day's limit in
`count`. `GiveUp` is any end without a commit.

**`SessionContract`** – what a store of sessions promises: a session ends when it is closed or
one of its deadlines passes, use moves only the idle deadline, renewal replaces it in one
step. **`SessionStore`** has the constants and the clock both stores share.
**`MemorySessions`** is `SessionManager`, one step per method under its mutex, with the index
by member beside the records; **`PostgresSessions`** is `PostgresSessionManager`, with
rotations as transactions and revocation as a DELETE that takes what it saw. Deadlines are
numbers, and 0 is none, as for a TTL that is switched off. `login` is a ghost: the login a row
goes back to through rotations.

**`Accounts`** – a request is what a caller is in the middle of (`step`), between a read of the
account and the write that follows. A password is a number, the count of earlier ones; a
session remembers the password it was opened with, and `late` whether its request had begun
before a reset revoked the sessions. `FEATURE_EMAIL` is either value for a behaviour's whole
length; accounts that are not verified exist under both. Without it a login verifies the
account as it goes, and looks it up by the address once more for that (`AutoVerify`): it may
find another account, which has taken the address since, and signs that one in.

**`Organizations`** – creation in its five steps (check, check again, name, INSERT, commit),
memberships only as far as they decide what a member sees, and `renderMyHopshare` in the order
of its reads. `moved` marks a page whose member's memberships changed while it was made.

**`Administration`** – the actions of `/admin` reduced to what decides whether they succeed,
each followed by its audit entry in a step of its own. `unlogged` counts what was lost. The same
organization, hop and accounts change without an entry too (`OthersStep`): members use the
hop, the worker expires it when it is `due`, members close their own accounts (`closed`), and an
owner deletes the organization with its hops and their reports. Disabling and deleting an
account reach into its hops; which of them the hop of the model is, is left open (`HopAfter`).

**`Discussion`** – comments, pictures, reports and notifications of one hop whose match
changes. `helpers` is everybody who was the match so far.

**`Skills`** – lists, selections and aliases with overlapping saves as the DELETE and the
INSERTs of two transactions see each other; matching as operators on sequences of words. `Stem` and
`StopWords` are data: the text normalisation in front of them is not modelled. A sorted list is
chosen by what it satisfies (`BestFirst`: scores fall, equal ones keep their order), which is
what a stable sort returns.

**`MCHopLifecycle`, `MCHopTransactions`, `MCBackgroundJobs`, `MCMembership`, `MCSessions`,
`MCCommunity`, `MCPlatform`** – constants, symmetry sets, bounds, and the property taken from a message
of the pages. `MCSessions`, `MCCommunity` and `MCPlatform` check parts that share no
state in one run: a variable (`store`, `part`) is chosen at the start and says which part
moves, while the others stay in an initial state. `MCMembership` bounds two instances in
the same way.

Definitions marked `\* mutant` are not part of the model: they are the faulty variants listed
in `PROJECT.json`, kept to show that each property can fail.

## 3. The runs

| run | instance | checks | distinct states |
|---|---|---|---|
| `HopAccounts` | 3 members (one joins later), 1 hop, 4 events | `MatchAgreesWithStatus`, `DeletedMembersHoldNothing`, `StartingBalanceGrantedOnce`, `ButtonsWork`, `NothingOutOfReach` | 131,642 |
| `HopLimits` | 2 members, 2 hops, two policies, an adjustment, 1 event, `AcceptHop` included, fair expiry | `NumbersAgree`, `CompletionKeepsLimits`, `OverdueHopsSettle` | 735,386 |
| `HopStatements` | 2 connections, 2 members, 2 hops, no events | `BalancesWithinLimits`, `LedgerMatchesHops`, `ImplementsContract`, by statements | 821,181 |
| `HopDeletion` | 2 connections, 3 members, 1 hop, 1 event | `MatchesAreConsented`, `NoOfferLeftWaiting`, `NoMatchWithDeleted`, `OutcomesAreFinal`, by statements | 1,188,989 |
| `Worker` | 2 processes with clocks a tick apart, 2 jobs, the shortest lease allowed, 1 fault | `OneRunner`, `RunnerHoldsLease`, `JobsKeepSucceeding` | 211,127 |
| `Membership` | 2 handlers; one owner, one other and 1 request and invitation with every operation, or two others and 3 invitations with only those | `TypeOK`, `LimitHoldsPerHandler`, `DecisionsAreFinal`, `NobodyJoinsUninvited`, `LastOwnerGoesByStaleCheck` | 825,147 |
| `Sessions` | 2 members, 3 tokens, 2 callers, deadlines of 3 and 2 in 4 units of time; either store | `IndexMatches`, `RevocationIsExact`, `MemoryImplementsContract`, `RotationNeverForks`, `PostgresImplementsContract` | 82,240 |
| `Community` | 3 participants, 1 comment or picture, 2 reports, 2 requests; or 1 member, 1 organization, 3 skills, 2 requests, 3 texts | `CommunityTypeOK`, `OnlyThePairSees`, `ReportsHold`, `SelectionsWereAllowed`, `SuggestionsFit` | 929,440 |
| `Platform` | 2 accounts, 1 address, 1 link, 1 session, 2 requests; or 3 organizations, 2 creations, 1 home page; or 2 administrators, 2 actions, with members, owner and worker | `PlatformTypeOK`, `OnlyVerifiedSignIn`, `LinksWorkOnce`, `ResetEndsOldSessions`, `HomePageLoads`, `OneEachPerRequest`, `AuditAgrees` | 506,302 |
| `HopGhosts` | 2 connections, 2 members, 1 hop, 1 event | violated: `DeletedHaveNoPendingOffers` | – |
| `LastOwner` | 2 handlers, 2 owners, departures only | violated: `AnOwnerRemains` | – |
| `HomePage` | 2 people, 1 creation, 1 home page, memberships change between pages only | violated: `NewcomersAreWelcome` | – |

What the passing runs show, beyond the names:

* *Limits.* The checks when a hop is posted or taken up look at today's balance only, so a
  member can be matched on more hours than it can pay. The clamp at completion is what keeps
  the limits, and at the statement level the lock on both members' rows: without it
  (`LeaveParticipantsFree`) two completions spend the same hours. The limits hold as long as
  the policy stands and nobody adjusts hours; with both, `CompletionKeepsLimits` is what is
  left, and it holds.
* *Reopening.* Disabling an account drops the match of its accepted hops but leaves the offer
  "accepted". The old match can never offer on that hop again, and its page shows the button
  all the same: the one exception `ButtonsWork` makes for a member's own buttons.
* *Expiry* leaves offers pending; `NoOfferLeftWaiting` says so and excludes expired hops.
* *Deletion.* At the granularity of committed transactions a deleted account holds nothing,
  also after an old membership request of it is approved. At the granularity of statements
  only `NoMatchWithDeleted` and the other invariants survive (section 4); see below.
* *Pages.* Conditions and numbers that are written several times agree, on wide and narrow
  screens, for the balance, the participation, the rings and the headings.
* *Worker.* One clock reading serves a whole poll, so the lease of the last job starts late.
  `LeaseAssumption` is the condition the code's constants (lease 10 minutes; timeouts 2, 1
  and 1; 5 seconds to record) meet for any clock skew and statement latency below about five
  minutes; neither is bounded by the code.
* *Membership.* An organization loses its last owner only by the write skew of `LastOwner`, or
  because an account was no owner when its deletion looked (`LastOwnerGoesByStaleCheck`). The
  day's limit of invitations is exceeded by overlapping requests, by a limit each at most.
  Marking an invitation as sent after its addressee was quicker leaves it uncounted. Two
  approvals of one person that overlap may book two starting balances.
* *Sessions.* A row is rotated once, and nobody gets two sessions of one. Revocation may miss
  the row a rotation is about to insert, which `PostgresSessions` says in
  `RevocationEndsLogins` and no run checks: `SessionContract!Close` lets a store close fewer.
* *Accounts.* After a reset the sessions left of the older password are those of logins the
  reset overtook (`ResetEndsOldSessions`); that there are none, `ResetSignsOut`, is not so.
  Changing the address needs no new verification.
* *Organizations.* Creations that overlap give one account several organizations. The retry
  after two creations of one address cannot work, since the violation has aborted their
  transaction: one fails.
* *Audit log.* The log accounts, once each, for what only an administrator can do. It cannot tell who
  expired a hop whose date has passed, or disabled an account that its member closed: the
  worker and the member log nothing. `AuditAgrees` excepts exactly these, and hops that went
  with their organization; that no entry is due for what was refused, and none twice, it says
  without exception.
* *Skills.* Two saves of one selection leave the union of both. A member keeps the selections
  of an organization left. A token in title and details counts twice for the coverage bonus.

The violations, each a disagreement between code and a document or a test (`findings`):

* `HopGhosts`: `OfferHopHelp` reads the membership before it waits for the hop, so an offer
  can be written after the offerer's account was deleted. The test of the deletion asserts
  that no pending offer is left. The same gap exists in `CreateHop`, and between the
  deletion's scan of accepted hops and its later scan of open ones.
* `LastOwner`: the owners are counted without a lock on the others' rows. The test of the last
  owner asserts that the removal is refused.
* `HomePage`: a removal leaves `members.current_organization` as it is, and the home page of a
  member without any organization fails on it, where the use cases promise the way to a new
  one. The run creates an organization, lets a member join, look at it and be removed,
  and the next page is the error. To show this and nothing else, its pages are asked for without
  `org_id` (`Asked`), and no membership changes while one is made (`Undisturbed`). A page
  asked for with the `org_id` of an organization that is not there fails in the same way.

Smaller disagreements, without a run of their own: `docs/hopshare_request_lifecycle.md:24` has
no arrow from Accepted back to Open, which disabling a participant takes;
`docs/hopshare_user_model.md:30` says that leaving deletes the time-bank account for ever,
while whoever joins again finds the old balance; `create_organization.templ:99` says an
account can create one organization only; `service_test.go:330` expects exactly one
starting balance; and `auth_integration_test.go:689` expects a reset to end every session,
which the interleavings named above refute.

**Bounds.** A hop involves its creator, a match and a competing offerer, so three members give
every role; what two hops of the same members can do to each other is do it to the same two
balances or to the same two locks. The policy is three hours wide so that one or two hops
reach both limits, and `FinalHours` holds a value above every estimate. Four
events allow delete-after-leave-after-join and an enabling after it; events, hops and members
are bounded only in the configurations, not in the theorems. `HopStatements`, `Membership`,
`Platform`, `Community` and `Sessions` have two connections, handlers or callers: every lock has one
holder, and each property is about what two requests do to the same rows. Three tokens
are a session, its successor and a rival; the clock runs past the longest deadline. One link
is enough for two requests to follow it. Three invitations and a limit of 1 let two
requests exceed the limit and a third one find it exceeded. Two administrators have at most
two actions in hand, and each part of `AuditAgrees` relates an action to the state or to one
other. `MaxPassword = 1`,
`MaxEntries = 2`, `Realiased`, `Spent` and `Founders` are bounds that the modules name.
Symmetry permutes hops, connections, handlers, ids and actors nothing tells apart; no liveness
run uses symmetry. The worker's
lease is the shortest that `LeaseAssumption` allows, and two jobs are the least for which
the clock reading is stale.

**Deadlock** is checked in `Worker`. In the hop models a state where every hop is settled and
the events are used up has no successor, and in the others one where the ids, the clock or the
bounded counters are used up, so it is not an error there; a cycle of row locks is
not a deadlock in `HopTransactions` or `Membership`, since the database breaks it by a rollback.

**Fairness.** `HopLifecycle!FairSpec` assumes weak fairness of `ExpireDueHops`: the worker polls
as long as a server runs, the job has no condition other than an overdue hop, and its next
run is scheduled after success and failure alike. `BackgroundJobs!FairSpec` justifies that in
turn: weak fairness of time and of each process' own steps, because `Run` loops until the
process is stopped, a stopped process is started again (a deployment's restart), and each
wait ends with a deadline (`MayTakeTime`). Faults are never forced, and finitely many. The
other models have no fairness: a request may always be given up, and nothing in the code tries
again for it.

## 4. The proofs

| module | theorems |
|---|---|
| `HopLifecycle_proofs` | `TypeCorrect`, `StatusAgrees`, `LedgerIsRight`, `Consent`, `OffersAnswered`, `DeletionIsComplete`, `FinalOutcomes`, `Implements` |
| the time bank, in the same module | `CompletionsKeepLimits`, `LimitsHold`, `StartGrantedOnce` |
| `HopTransactions_proofs` | `TransactionTypes`, `StatementsAgree`, `LedgerSurvivesRaces`, `ConsentSurvivesRaces`, `OffersSurviveRaces`, `NobodyDeletedIsMatched`, `OutcomesSurviveRaces`, `CompletionsRace`, `LimitsSurviveRaces`, `StatementsImplement`, `StatementsImplementAlone` |
| `HopPages_proofs` | `PagesAgree` |
| `Membership_proofs` | `MembershipTypes`, `InvitationsAreBounded`, `DecisionsStand`, `MembersWereLetIn`, `LastOwnerGoesOvertaken` |
| `BackgroundJobs_proofs` | `WorkerTypes`, `LeaseIsHeld`, `RunsAreExclusive` |
| `Sessions_proofs`, in memory | `MemoryTypeCorrect`, `IndexIsExact`, `RevokesExactly`, `MemoryIsASessionStore` |
| in the database | `PostgresTypeCorrect`, `OneSessionPerLogin`, `PostgresIsASessionStore` |
| `Platform_proofs`, accounts | `AccountsTypeCorrect`, `SignInNeedsVerification`, `LinksAreSpent`, `ResetsEndSessions` |
| organizations | `AddressesAreUnique`, `HomePagesLoad`, `CreationsAreBounded` |
| administration | `AdministrationTypes`, `TheLogAgrees` |
| the three parts of the run `Platform` | `PlatformTypes` |
| `Community_proofs`, discussion | `DiscussionTypes`, `PrivateIsPrivate`, `ReportsAreHeld` |
| skills and matching | `SelectionsAreAllowed`, `SuggestionsAlwaysFit` |
| the two parts of the run `Community` | `CommunityTypes` |

Each component's inductive invariant is a theorem too (`Invariance`, `LockDiscipline`,
`HandlersRely`, `RequestsRely`, ...). Those of `HopTransactions`, `Membership`, `Accounts`,
`Organizations`, `Administration` and `Discussion` were model-checked on the instances of the
runs before they were proved.

*Assumptions* are the named ASSUMEs of the modules, evaluated by TLC in every run. They say
that the values that stand for nobody and for NULL are none of the others, that the accounts a
run starts with have an address each, that default skills have a name each
(`SkillsConstants`), and that whatever is counted is finite: of `HopPages` the members and hops
of an organization (`FiniteOrganization`), of `Skills` the names that can be stored. Some theorems have
hypotheses of their own: `LimitsHold` and `StartGrantedOnce` assume no adjustments and a single
policy (both are false otherwise; `LimitsSurviveRaces` needs neither, since `HopTransactions`
has one policy and nobody adjusts hours there); `Implements`, `StatementsImplement` and
`StatementsImplementAlone` assume `~DirectAccept` (a direct acceptance pairs a member that did
not volunteer). `StatementsImplement` is about behaviours in which no deleted account holds
anything: the run `HopGhosts` shows the others, and `StatementsImplementAlone` assumes instead
that no account ends meanwhile (`MaxEvents = 0`, as in the run `HopStatements`).

*HopLifecycle.* The conjunction `IInv` of the type invariant and the five safety invariants is
inductive; none of them is alone. `LedgerMatchesHops` needs `MatchAgreesWithStatus` to know
that a completion finds two different participants; `MatchesAreConsented` needs
`NoOfferLeftWaiting`; and `DeletedMembersHoldNothing` needs `MatchesAreConsented` and that no
offer of a deleted account is pending, so that nobody can be matched with one after a hop
reopens. There is one lemma per operation and one step per conjunct. For the refinement, initial
states map to initial states and each operation to one step of the contract or to none: a
creation needs `IInv` (a fresh id has no pending offers), a deletion that its own hops and those
it was matched on are disjoint.

*Time bank.* Balances are cardinalities. `HoursOfOneMore` shows what one more row adds to a sum,
`BalanceAfterMove` what it does to every balance. From there `CompletionsKeepLimits` follows
from the clamp (`AllowedBounds`); `LimitsHold` needs in addition that only members that ever
joined take part in hops (`ParticipantsJoined`) and that they got the starting balance once.

*HopTransactions.* The invariant `TInv` has two halves. `Data` is what the committed rows
satisfy between any two statements. `SessionInv` is what each transaction still relies on of
what it read: an offer past its checks that the hop is open and the offerer no party to it, a
completion past `ReadBalances` that the balances are those the hours were cut to, a deletion
that nobody was matched with the account since it was locked. `Frame` says what a step of one
transaction leaves alone (rows that others hold; the balances of members that others hold), and
the lemma `Others` that every `SessionInv` survives a step that keeps the frame. So each
statement owes only its frame and its own transaction's next `SessionInv`, one lemma per
statement. `NoMatchWithDeleted` is the one that crosses rows: the acceptance waits at the
foreign key for the row the deletion holds, and finds the offer withdrawn when it goes on.
`DeletedMembersHoldNothing` is no part of `Data`, and false: that is the finding of `HopGhosts`.
The refinement reuses the steps of `Implements` at the statement that writes.

*Membership.* `MInv` is built the same way from `HandlerInv` and `Frame`. `LimitHoldsPerHandler`
is a counting argument: every request that sends invitations has as many `Slots` as it may still
send, marking one as sent gives a slot up, and a handler that begins finds at most `DailyLimit`
left, so sent ones and slots never exceed a limit per handler. The action properties follow
from `MInv` in each step: a decision is taken under the lock of the row, which is still pending.
`LastOwnerGoesByStaleCheck` is what the code keeps of the rule in the finding of `LastOwner`.

*HopPages.* Each number of a page is a query of its own: a count, a sum of an SQL aggregate or of a
loop, a percentage of two of them. `PagesAgree` says that those which mean the same thing are
equal, whatever the number of members and hops. The invariant `PagesInv` adds to `IInv` that
there are finitely many transfers, that the policy is a valid one, and `OffersHaveHops`: an offer
is of a hop that exists, and a waiting one is not its creator's. Without it the pages' join
of offers and hops could drop a row that the count of offers has. The rest is about sums.
`MapThenFoldSet` takes the elements of a set in an order CHOOSE settles, so the lemmas first
show that the function it chooses exists and is unique (`SumsExist`, `SumsAreUnique`), then
that the order does not matter (`TotalTakes`), and from there that totals add up
(`TotalOfSums`), that things counted group by group are all counted (`CountByGroup`), and that
a fold by any other choice is the same total (`FoldIsTotal`). These are inductions over
finite sets. The library's induction theorem takes an operator, so `SetInduction` is stated for
the *set* of the subsets that have a property, and proved by a least one that has not
(`LeastSet`, from the library's theorem that the subsets of a finite set are well founded).
The proof found two definitions of the pages wrong: `BalanceState` and `CompletionMessage` were
CASEs whose conditions overlapped, of which TLA+ may take any branch and TLC takes the first.

*Skills.* `SkillsInv` says that a selected skill exists and was the member's to select
(`HasBelonged`: of the shared list, or of an organization the member has been in), and the same
of the ids that a request holds between its check and its INSERTs, as far as they still exist. It
survives other requests because of `SkillsFrame`: ids are never given out twice, so an id that
was read names the same skill or none, and memberships that end are remembered.
`SuggestionsFit` compares two functions of the code, the filter with a sort and the sort alone.
A name scores above zero exactly on the texts that share a stem with it (`ScoreShares`; a
phrase that is contained has its words contained, `PhraseWords`), and the best score is above
zero when one is (`BestShares`). In a sorted list each place has as many before it as
are `Ahead` of it by score, then by place (`SortedRank`), so a list has one sorted order, and
one exists (`SortedExists`); hence those that score highest, sorted by themselves, head the
sorted list of all (`HighestHead`).

*Accounts, Organizations, Administration, Discussion.* `AInv` says what a request relies on
between its reading and its writing (`Relies`) and what is true of a session (`Admits`): the
account's password is none that a reset has replaced and ended the sessions of, or the request
was overtaken; a link that is being consumed is nobody else's. Nothing here is locked for long,
so the frame is monotonicity: accounts stay, used links stay used, passwords only get newer.
`OInv` counts a member's organizations with the creations under way that have passed the check
(`Underway`), and says of a home page that what it listed is still the member's unless it was
told. `AdmInv` counts the log together with the desks: entries, what was not logged, and what
is being handled never exceed what was begun. `AuditAgrees` says what the counts must be given
the subjects' states, and needs `SubjectsInv` beside it: a hop and its reports do not outlive
their organization, so that an ending that is accounted for stays one, whoever else
changes the hop. `DInv` rests on ids not being used twice and
comments not being rewritten: what a request or report says of an item is true, or the item is
gone for good. `PlatformTypes` and `CommunityTypes` add that the parts share no variable.

*BackgroundJobs.* The invariant `Held` ties a runner's lease to the age of its clock reading,
and `Timely` bounds that age in every phase. So a lease ends after the run does, by any other
process' clock, and neither a claim nor a late record of another process can take the lock.

*MemorySessions.* The invariant adds to the exact index that records have tokens that were issued, so
that a new token is never one in use. The refinement takes an overdue record for no session:
discarding one is a stutter, and time ends sessions exactly when their records become overdue.

*PostgresSessions.* The invariant adds to one row per login that a row somebody holds is still the row
that was read, so that a rotation replaces what it locked, and that logins are tokens that
were stored. A rotation commits in the unit of time it began in, so its row is current and
`Renew` is possible; a DELETE that saw fewer rows is still a `Close`.

*Only model-checked:* liveness (`OverdueHopsSettle`, `JobsKeepSucceeding`), and the properties of
pages that speak of ENABLED (`ButtonsWork`, `NothingOutOfReach`), neither of which the provers
reach. Every other property of a passing run is stated by a theorem.

## 5. What is not modelled

Layout and wording, which is most of the generated templates; validation of form fields;
avatars, display names, time zones, texts and pictures of organizations; mail, logging, headers
and redirects; the in-memory rate limiter; paging and filters of lists; configuration,
migrations and bulk load. They do not feed back into the state above. What an ignored failure
of a notification makes of the transaction's commit is, as far as the data goes, `RollBack`.
Text normalisation in front of the matching is data. Who may fetch a picture by its id
(`handleHopImage`: an active member of the organization, whether or not the hop is private) is
not modelled, and no property is about it; `OnlyThePairSees` is about comments. `AdminDeleteHop`, re-enabling, joining and
policy changes are not split into statements in `HopTransactions`; nor are deletions of
accounts, beyond what concerns owners, in `Membership`. `Organizations` has one owner per
organization, and `HopLifecycle` one organization.
Unbounded integers stand for the `INTEGER` columns: hours per hop are at most what the payer
has above the minimum and limits are below 20, far from any overflow.

## 6. The plan

Hours and outcomes of hops came first, then membership and invitations, sessions and accounts,
the other components, the pages over them, and the proofs, again from the hops outward, to the
pages and the matching last. What is left:

1. `LimitsHold` under changing policies: which limit a balance still keeps after a change;
2. `ButtonsWork` with the guards of the operations written out in the place of ENABLED, which
   needs that each guard is equivalent to its action's being possible;
3. the operations that `HopTransactions` takes as single steps, by statements.

Liveness of transactions would need a model of the database's deadlock detection, which is
not in the repository.
