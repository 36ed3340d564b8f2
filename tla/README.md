# AEGIS Shield: TLA+ models, model checks and proofs

AEGIS Shield is a digital-banking prototype: a TypeScript monorepo of NestJS
services over PostgreSQL and Redis, with a Next.js front end and Node scripts
that operate it. This directory keeps TLA+ modules that model the state
machines of its parts, TLC configurations that check them on small instances,
and TLAPS proofs about most of them.

Every definition is translated from the code; `PROJECT.json` ("map") names the
lines. When the code changes, that map is the list of definitions to re-read.

## 1. Inventory

| Component | State it keeps | Operations that change it | Hard behaviours | Module |
|---|---|---|---|---|
| Ledger journals and idempotency (`services/ledger/src/ledger`, `idempotency`) | journals, postings, balance projections, idempotency records | `post` inside `execute` | concurrent transactions on the same wallets, two requests with one key, crash before COMMIT, absolute totals written back from an earlier read | `Postings`, `Ledger`, `LedgerService` |
| Ledger customer transfers (`transfers`) | none of its own | `transfer` | balance checked outside the transaction | `Ledger` |
| Ledger provisioning (`accounts`) | account rows | `provisionDefault` | keys and customers race, reference collisions | `Provisioning` |
| Ledger channel operations (`channels`) | via `post` | `qrPayment`, `cashIn`, `cashOut` | unlocked funds check, retries | `ChannelOperations` |
| Ledger history (`transactions`) | none | paging | postings commit between pages, equal timestamps | `History` |
| Reconciliations (Ledger, Payments, Risk, Resilience, `reconcile-all.mjs`) | none | `run` | separate queries on a moving book, lists of issues bounded at 50 of which 16 are printed, timeouts | `Reconciliation` |
| Payments transfers (`services/payments/src/transfers`) | intents, transfers, events | `createIntent`, `authorize`, `confirm`, `settle`, `recover` | lost and late replies, retries by the user and by recovery, stale reads before the advisory lock | `Transfers` |
| Payments QR (`qr`) | codes, redemptions, events | `issue`, `preview`, `confirm`, `settle`, `revoke` | two settlements of one scan, three separate writes, no recovery job | `QrPayments` |
| Payments agent cash (`agent`) | operations | `preview`, `confirm`, `settle` | the day's limit is summed at preview only | `AgentCash` |
| Payments USSD (`ussd`) | JSON in Redis | the webhook | repeated and overlapping deliveries, a crash or Redis failure after the payment, floating point | `UssdSession` |
| Identity codes, onboarding, PIN fallback | challenges, tokens, limits, user row | request/verify, `createPin`, `login` | get-check-delete races, lost updates, dying requests | `SignIn` |
| Identity sessions and step-up | session, counter, lock | `create`, `get`, `revoke`, `verify` | write-back after expiry or revocation, parallel guesses | `Sessions` |
| Identity passkeys | challenges, credential counter, audit | options, verify | counter read and written apart, crash between records | `Passkeys` |
| SABCL (`packages/sabcl`) and its router | replay claims, rate counters, key rings | `seal`, `route`, `open`, respond | replay windows, lagging clocks, rotation, one Redis prefix for all | `Sabcl` |
| Risk rules (`assessments/risk-engine.ts`) | none | `evaluateRisk` | order of branches, capped score | `RiskEngine` |
| Risk controls, assessments, incidents | their rows | `apply`, `release`, sweep, `evaluate`, `update` | rows read and written apart, step-up exemption, a repeated `evaluationId`, a failing call to Identity | `RiskControls` |
| Risk events, velocity, retention | events, counters | `ingest`, retention | duplicate deliveries, counters after the transaction | `RiskEvents` |
| Operator sessions (Risk, Gateway, console) | Redis key, cookies | sign-in, logout, every operator call | tabs share cookies, lost answers | `OperatorSessions` |
| API Gateway | rate windows | every changing route, logout | stages may fail or be lost, SABCL fallback repeats a call | `Gateway`, `RateWindows` |
| Resilience drills | drill, evidence, events | `createDrill`, `advance`, `acknowledge`, `drill.mjs` | read-then-update state machine, calls given up on | `Drills` |
| Backup and restore scripts | sets, disposable databases | `backup.mjs`, `restore-verify.mjs` | kills half way, files and manifests damaged or exchanged, also after verification | `Backups` |
| Environment file (`env.mjs`, loaders) | `.env`, `.env.replaced`, the database's passwords | `init`, `check`, start | rules of check and loaders differ, the example and the shell overlay the file, forced init | `Configuration` |
| Launchers (`demo.mjs`, `stack.mjs`, `infra.mjs`) | processes, containers, volumes | start, stop, reset, shutdown | a signal during the start loop, a second one during shutdown, two terminals | `Launcher` |
| Web forms | form state, keys | preview, confirm, provision, plan | given-up requests that succeed | `WebForms` |
| Web lists | rows, cursors | load, refresh, filter | overlapping pages, failing filters | `WebLists` |
| Web sign-in screens | wizard state, cookies | request, verify, create PIN, sign in | buttons live during a request, refused cookies | `WebSignIn` |

How they interact: the browser calls the Gateway, which resolves the session
with Identity, asks Risk for controls and a verdict, has Identity verify the
PIN, and calls Payments or the Ledger, directly or sealed through the SABCL
router. Payments asks Risk before it opens its confirmation transaction (fail
closed) and reports to it afterwards (fail open), and posts through the Ledger
with an idempotency key per transfer. The Ledger trusts nothing but its own
transaction. Retries happen in four places: the browser repeats a request under
its key, the Gateway falls back from SABCL to the direct path, `recover` repeats
`settle`, and the Ledger's idempotency record makes each of them harmless.

`PROJECT.json` lists the hazards with their lines, the properties that would
catch each going wrong, and the status of each component.

## 2. Modules

`LedgerService` is the abstract specification of the Ledger: each key settles at
most once, atomically, and never overdraws. `Ledger` implements it (checked and
proved); `Transfers` and `ChannelOperations` are built on it. The other modules
are one component each. Neighbours of a component appear as what its code can
observe of them: an answer, a refusal, a failure, a lost answer. Every module
that needs it states what its constants must satisfy as `ConstantsOK`, which the
modules that instantiate it assume and TLC evaluates.

Three modules compose components: `Identity` (`SignIn`, `Sessions`, `Passkeys`),
`Channels` (`QrPayments` and the ten components of the other channels, reports
and screens) and `Platform` (`Gateway` and the ten components around it). Each
instantiates its components (`INSTANCE ... WITH`) or extends one of them;
`part` says which component a behaviour is about, and the variables of the
others are 0 and stay so. The components of one composition share no state and
their neighbours' answers are part of each, so the composition is a disjoint
union: it is one specification to check and to prove about, with a conjunction
of the components' assumptions (`ConstantsOK`, `ChannelsOK`, `PlatformOK`).

### Ledger, Postings

A worker is one HTTP request being served. Its `pc` follows the code:
`Submit` is everything up to the first query that matters to others (for a
customer transfer, `resolve` and the balance check, then `assertBalanced`);
`Lookup` the read of the idempotency record; `Reserve` the insert into the
unique index on (scope, key hash); `LockAccount` one row lock of
`SELECT ... ORDER BY id FOR UPDATE`; `LocksHeld` its return; `Rollback` and
`Commit` the outcome of the checks and writes that follow. `Crash` covers the
process, the connection and the interactive transaction's timer.

Three facts about PostgreSQL are modelled from how the code uses it. An insert
into a unique index waits for an uncommitted insert of the same key and fails
only if that one commits. A row lock that had to wait sees the row as it is when
the lock is granted (READ COMMITTED evaluates the row again), which is why
`LockAccount` reads `projection` in the same step. Writes become visible
together at COMMIT. `OpeningTotals` stands for the book after the funding
journals: it lets wallets hold money without spending states on them.

`Postings` holds the pure functions of `journal.service.ts` (combining, hashing
order, lock order) against reference definitions, over every list of up to four
postings.

### Provisioning, ChannelOperations, History, Reconciliation

`Provisioning` runs `provisionDefault` inside `execute`: the key's slot, the
customer's advisory lock, the search for the wallet, up to
`MaxReferenceAttempts` draws of a public reference, the insert under two unique
indexes, the stored response. `ChannelOperations` has the Ledger's QR and cash
operations: an unlocked read of balances, the funds check, then the journal as
one step of `LedgerService` with the agent float as the account that may go
negative. `History` lets postings commit between the pages a customer loads;
`Reconciliation` lets journals commit between the queries of the Ledger's run.
Each of its checks adds its rows to a list of at most `MaxIssues` (50) entries,
so a check that comes after fifty rows adds nothing (`ledgerRoom`). Payments
halves the room its later codes find; Risk and Resilience appear by their
criteria. The outer script has its timeouts and prints the first `MaxPrinted`
(16) entries of Payments' list. It prints no codes of the Ledger, whose
`reconcile.mjs` writes its JSON over many lines
(`docs/release/FINAL_VALIDATION_REPORT.md:261` accepts that), nor of Risk, whose
issues are an object.

### Transfers, QrPayments, AgentCash, UssdSession

A confirmation of `Transfers` is one `confirm` request and the transfer row it
may create. `ConfirmPreflight` is the replay check and `risk.enforce`;
`ConfirmBegin` the read of the intent that opens the transaction; `ConfirmCheck`
everything under the advisory lock; `ConfirmCommit` the visible effect. The read
of `consumedAt` happens *before* the lock is awaited, so `sawConsumed` may be
stale; the unique index on `intent_id` is what saves the code. A settle call is
a state per attempt: `sent`, `abandoned` by the client's timer (the Ledger may
still act on it), `posted` or `refused` (the reply under way), `over`. The calls
of one row may overlap: `recover` claims up to 20 rows under one 30-second lease
and settles them one after another with a 5-second timeout each, so the last
rows' lease can lapse before their call is made. `nextAttemptAt` and the lease
are therefore abstracted to "a PROCESSING row may be claimed at any moment".
Nothing in the repository schedules recovery: it runs when somebody calls
`recover.mjs` or the endpoint, so no fairness is assumed of it; `passes` counts
the recovery runs that came upon a row in PROCESSING. The
Ledger appears through `LedgerService`, plus the one behaviour of `transfer`
that goes beyond it: a retry can be refused because the balance is compared
before the stored response is looked up.

`QrPayments` and `AgentCash` have no recovery job and no lock: a confirmation
reads the row and writes it by id, so two may settle one scan or operation. The
writes after the Ledger's answer are separate steps that may fail. Settling a QR
code covers every answer the code handles, although the Ledger's command schema
of this commit refuses the QR reference format, so that at run time the refusal
is the only one. `UssdSession` reads the session's JSON, reacts and writes the
JSON back, with overlapping deliveries; `Fail` is a handler that dies or whose
Redis command fails, before or after it has paid: the session then stays as it
was, and `undeleted` counts the sessions that were paid and still ask for the
PIN, `unsent` the screens that were stored and not answered. `Float100` is the binary product of the
typed amount and 100 (1.15 becomes 114 minor units).

### SignIn, Sessions, Passkeys

A request of `SignIn` is one HTTP call; its `pc` names the Redis command or SQL
statement it will issue next, so two handlers interleave between any two of
them. Challenges and enrollment tokens are named by the request that drew them.
Whether a code or a PIN is right is a choice; a code of the other purpose is
always wrong. `bounded` records whether a key carries a TTL: INCR creates a key
without one, and SET KEEPTTL of a missing key does too. The limit per address is
shared with other phones and appears as a possible refusal.

`Sessions` has a clock, because its expiries are compared with one another: a
session lives until the key's TTL (idle) and the stored absolute expiry, which
`get` rounds up to at least a second. `Read` is the GET and the checks of
`read`; `Touch` is the SET of `get`, made from the value read before. The
step-up's counter is `CheckLock`, `CheckPin`, `Count` (INCR), `Window` (EXPIRE),
`SetLock` and `Reset`. `late` and `at` only record history for the properties.

`Passkeys` has one authenticator with a signature counter, challenges taken by
GETDEL, and the writes of a verification one by one: counter, audit row, event
to Risk, session. The WebAuthn library is what its use shows: it accepts a
response to the challenge when the counter has grown, or both are zero.

### Sabcl, Gateway, RateWindows

`Sabcl` has a sender, the router and one recipient. A delivery is an arrival of
an envelope, through the router or past it, handled by an instance whose clock
may lag; router and recipient each check freshness, then claim the message
identifier with SET NX and a life computed from the envelope's expiry. The
router's counter is INCR then EXPIRE. Key rotation changes the sender's ring and
the recipient's key in either order. `SharedPrefix` says whether all components
use one Redis prefix, as `.env.example` has it, or one each, as the document
does. Encryption, padding, signatures and route
tokens are ideal: an envelope opens for its recipient's key only.

`Gateway` has one action per awaited stage of a controller, in the controller's
order (`Stages`), each of which may answer, refuse or fail; the submission goes
directly or through SABCL in the three modes, and `compatible` falls back.
`RateWindows` is the limiter's bounded map.

### RiskEngine, RiskControls, RiskEvents, OperatorSessions

`RiskEngine` evaluates every set of up to `MaxFacts` facts, with and without a
step-up, by the code's weights, cap, bands and branches. `RiskControls` has the
rows of one customer: the expiry sweep and `release` read a row and write it
later. An evaluation returns early when its `evaluationId` is stored; otherwise
it fetches incidents and at most `MaxTaken` (20 in the code) controls, drops
step-up controls if a step-up was verified, and stores assessment, incident and
control in one transaction under the unique `evaluationId`: a HIGH or CRITICAL
band or an existing control or incident makes an incident and a hold, a MEDIUM
band only a step-up control. `SESSION_REVOKE` calls Identity after its row is stored. `RiskEvents` has
`ingest` step by step and the retention that deletes rows. `OperatorSessions`
joins Risk's key, the Gateway's cookies and the tabs of one browser.

### Drills, Backups, Configuration, Launcher

`Drills` runs the drill script against `advance`, whose read, update, evidence
and event are separate steps. `Backups` dumps one database after another while
transfers settle, publishes by rename, and restores with verification,
decryption and cleanup as separate steps; any external command may fail. A file
may at any time be damaged or exchanged for another published dump: checksums
are compared in `Verify`, but `Load` reads the file again without them, and the
cipher binds it to neither set nor service (its associated data are the magic
and the version). A manifest may be lost or re-dated; such a set is skipped or
ranked by what it says. A manifest forged with checksums that fit other files is
left out: manifests are unsigned, which the threat model records
(`docs/security/disaster-recovery-threat-model.md`, T4).
`Configuration` groups the variables of `.env`
that `env.mjs` and the seven loaders treat alike; a secret is the generation it
was drawn in. A child sees the example's value of a variable the file lacks
(`Overlaid`) and the shell's before either (`StartExported`); a service is seen
where the launcher probes, which for Identity and the Gateway is another
variable than the one they listen on. `Launcher` has the start loop, readiness probes, the shutdown that
copies the list of children (`spawned`) reversed and once, a second signal that
ends the process at once (`hurried`), and the container commands of another
terminal.

### WebForms, WebLists, WebSignIn

These model the components' React state and the requests they await: a request
may be given up by the browser while the server runs it, buttons may stay
enabled, cookies may be refused. Rendering and wording are left out, except that
an error or a notice is on screen or not. Rows of a list are made at different
times: the drill history's cursor compares `startedAt` alone and would pass over
an older row of the cursor's own millisecond.

## 3. Runs

The module of a run extends the module it checks and gives its constants their
values: `MCLedger` extends `Ledger`, `MCTransfers` `Transfers`, `MCIdentity`
`Identity`, `MCChannels` `Channels` and `MCPlatform` `Platform`, so that the runs
check the very formulas the theorems state. `MCTransfers` also says which of six
confirmations arrive in a behaviour (`Arrivals`); the two runs about documented
statements use it with one arrival each. The runs about the sealed calls and the
codes use `MCPlatform` and `MCIdentity` with the behaviours of one part alone. A property of a composition speaks of
one part, and is the conjunction of named parts that are defined and explained
in the component's module.

| Run | Parts | Question |
|---|---|---|
| `ledger` | - | Is the interleaved Ledger safe with two workers, crashes, duplicate keys, a changed payload, a reused reference, an unbalanced journal and a currency mismatch; does it implement `LedgerService`; is every request answered or rolled back (no deadlock, no starvation)? |
| `transfers` | four choices of `arriving` | Duplicate and competing confirmations under a limit only one fits; overlapping settle calls, lost replies and escalation; how many recovery runs can a transfer stay PROCESSING for? |
| `identity` | `codes`, `expiry`, `stepUp`, `passkeys` | Does one PIN win, does every session end, how many wrong PINs can precede a check, is an assertion spent once? |
| `channels` | `postings`, `qr`, `agent`, `ussd`, `wallets`, `channel`, `history`, `reconcile`, `forms`, `lists`, `browser` | Does money move once, as shown and within its limit on the other channels, and do pages, reports, forms and screens tell the truth? |
| `platform` | `sabcl`, `gateway`, `rates`, `rules`, `controls`, `events`, `operators`, `drills`, `backups`, `environment`, `launcher` | Do replay windows, verdicts, evidence, backups and start-up survive losses, crashes and races? |
| seven more | - | Documented statements the code does not keep (section 6) |

| Property | Its parts |
|---|---|
| `BooksBalance` | `NoDrift`, `TrialBalance` |
| `MoneyTraced` | `TypeOK`, `CompletedIsPosted`, `MoneyHasProvenance`, `ReplayIsConsistent`, `AttemptsAccounted` |
| `TotalsKept` | `MoneyConserved`, `DailyLimitHolds` |
| `OnePinPerPhone` | `TypeOK`, `UsableHasPin`, `TokenSpentOnce`, `IssuedWithinLimit`, `PinStep` |
| `SessionLimits` | `TypeOK`, `ExpiredServesNobody`, `KeyEnds`, `GuessStep` |
| `PasskeySpentOnce` | `TypeOK`, `AssertionSpentOnce`, `SessionsAudited`, `CounterStep` |
| `CanonicalPostings` | `NormalisedSums`, `NormalisedOrder`, `RetryHashesAlike`, `LockOrderCanonical` |
| `QrMoneyTraced` | `TypeOK`, `OnePaymentPerCode`, `CompletedIsPosted`, `FailedMoneyNeedsTwoSettlements`, `CodeFollowsMoney`, `RetryStep` |
| `AgentCashTraced` | `LimitHoldsUnlessOverlapped`, `SoleSettlementIsFinal`, `LateConfirmStep` |
| `UssdPaysAsConfirmed` | `PaidAsShown`, `ConsentPerPayment` |
| `OneWalletPerCustomer` | `TypeOK`, `CreatedOnce`, `InsertsAlone`, `ReferenceUnique` |
| `ChannelBooksHold` | `FloatBacksWallets`, `StaleCheckIsHarmless` |
| `PagesTellTheTruth` | `PagesCoverTheStart`, `ShownBalanceStands` |
| `ReportIsTrue` | `NoFalseAlarm`, `LedgerLosesOnlyWhenFull`, `AllPassIsTrue`, `EveryCodeReported`, `PrintedUnlessCrowded` |
| `FormsActOnce` | `PaysOncePerForm`, `ErrorMeansUnpaid`, `DrillsAccountedFor` |
| `ListsAreWhole` | `RowShownOnce`, `MixedRowsAreFlagged`, `NothingSkipped` |
| `ScreensUsable` | `CodeMatchesChallenge`, `AccessIsHeld`, `CodeScreenCompletable` |
| `CallsDispatchOnce` | `TypeOK`, `DispatchOnceUnlessLate`, `ReplayedWasSeen`, `AnsweredWasDispatched`, `RateCounterEnds`, `RotationSettles` |
| `RequestsGuarded` | `TwiceNeedsFallback`, `ToldOkRan`, `StoppedNeverRuns`, `MoneyNeedsStepUp`, `RevokedUnlessFailed` |
| `WindowsFair` | `MapBounded`, `BudgetUnlessEvicted`, `LimitedHasSpent` |
| `VerdictsMonotone` | `MoreFactsNeverAllow`, `ExistingStateRefuses`, `RefusalLeavesControl` |
| `ControlsBind` | `TypeOK`, `RevokeToldIsDone`, `RestrictedIsRefused`, `StepUpLifts`, `EvaluatedOnce`, `ResolutionIsCurrent`, `ControlStep` |
| `EventsCountOnce` | `TypeOK`, `AcceptedIsExact`, `NeverOvercounted`, `TwiceNeedsRetention` |
| `OperatorSessionEnds` | `LoggedOutIsOver`, `LiveIsReachable`, `AcceptStep` |
| `DrillToldTruly` | `PassedHasEvidence`, `CodeOnlyWhenFailed`, `PassIsRecorded`, `FailureIsShown` |
| `BackupsWhole` | `PublishedIsWhole`, `PassedIsAuthentic`, `NothingLeftBehind`, `LatestIsNewest` |
| `EnvironmentSound` | `CheckedStarts`, `UrlFollowsPassword`, `DatabasePasswordFound` |
| `LauncherSound` | `OrphanWasLate`, `StartedInOrder`, `StoppedInReverse`, `DataStep` |

**Bounds.** Two workers suffice for every pairwise race, and the amounts are
chosen so that the interesting refusals happen: `alice` holds 2, `send` takes 2
and `spend` takes 1, so whichever comes second is refused by the transaction's
own check; `back` runs the wallets in the opposite order, so an unsorted lock
order deadlocks; `reused` collides on the reference after `send`. In
`MCTransfers` the limit is 2 while rent costs 1 and food 2, so paying rent
twice would fit the limit and rent with food does not; with two attempts one
call of `confirm` and one of `recover` overlap; at most three of the six
confirmations arrive in one behaviour: three triples of the four payments, in
which keys repeat and intents compete, and the pair of payment and refund
between the same wallets. In `SignIn` each
request runs once: two of each onboarding step, a code by SMS and a sign-in,
with room for two codes. `Sessions` ends at `MaxTime`, beyond the absolute
expiry (the configuration refuses an idle lifetime above the absolute one,
`identity.config.ts:143`); the behaviours about the step-up have five of them
(`Burst`) and end at `BurstTime`, because a lock that comes one failure late
shows with four wrong PINs and a fifth request. `QrPayments` has two payers of one
static code and three confirmations of one scan under two keys; `AgentCash` two
operations that fit the limit alone and not together, over two days;
`UssdSession` nine messages, enough to confirm, pay and repeat; `Provisioning`
three requests of one customer under two keys and a second customer;
`ChannelOperations` retries and a changed payload under one key; `History` four
postings in two milliseconds; `Sabcl` one message delivered twice, once past the
router and by a lagging clock, and one that is not permitted; `Gateway` one
request of any kind against logouts and controls; `RiskEngine` all sets of up to
three facts, enough for the score to pass its cap; `RiskControls` three calls
for two evaluations and at most one control fetched (`MaxTaken`), so that one of
two is crowded out; `Backups` two overlapping backups and two restores, one of
them with `--latest`, and one damaged or exchanged file or manifest
(`MaxDamage`); `Configuration` three initialisations, three hand edits and one
variable that the shell may hold (`NODE_ENV`, the one every loader branches on);
`Reconciliation` the code's own lists of 50 entries and 16 printed, with faults
of none, two and fifty rows, so that a full list is met and survived (the proof
needs 32 entries). Counters are bounded by the models
themselves or by the constants named `Max...`. Requests of one handler are
interchangeable in `MCIdentity`, and so are the tabs in `MCPlatform` (symmetry;
these runs check no liveness). Only the run of the
Ledger checks for deadlock: elsewhere all requests may be done.

**Fairness.** `Ledger`: weak fairness for each worker's own steps (a Node
process that can go on does) and strong fairness for `Reserve` and
`LockAccount`, whose waits are queues in PostgreSQL. `Submit` and `Crash` have
none. It is the only fairness the project assumes: elsewhere a request may stop
for ever, and recovery runs only when somebody calls it.

**Mutants.** Each part of a property is paired with a mutated definition
(dropped unique index, unsorted locks, locks released early, a claim that ends
with the message, a code kept after a resend, ...) that TLC shows to violate it.
The mutated forms stand next to the definition they replace and nothing else
uses them.

## 4. Proofs

Seven modules hold proofs: one each for `Ledger`, `Transfers` and `Sabcl`, one
each for the compositions `Identity`, `Platform` and
`Channels`, and `Sums`, the lemmas about sums they share. For every component proved about there is one
inductive invariant (`IInv` where nothing else is said), a conjunction of named parts that TLC checked on a
small instance before it was proved; the proofs show that `Init` implies it and
that every action keeps it, and derive the properties of the runs from it. The
theorems hold for every value of the constants that satisfies the assumption:
`LedgerAssumption`, or `ConstantsOK`, `ChannelsOK` or `PlatformOK` as a
hypothesis of the theorem, which the modules of the runs assume and TLC
evaluates. Thirty-five of the passing runs' forty properties are stated by theorems.

In a composition a component's invariant is proved of its instance and then
lifted: `part` never changes, a step of the composition is a step of the
component while `part` names it, and `part = "x" => X!IInv` is the invariant of
the whole. An instance brings its own copy of the library's operators
(`X!Cardinality`, `X!Len`); short lemmas state that they are the usual ones
where the library's facts are needed.

### Sums

What balances, limits and scores add up is `SumFunctionOnSet` of the community
modules, a recursive function over the subsets of a set. The library's induction
theorems take an operator, which the provers cannot instantiate, but its
well-foundedness theorem for strict inclusion takes a set: a nonempty collection
of subsets of a finite set has a minimal member (`MinimalSubset`). From it
follow that the recursive function exists and is unique (`SumsExist`,
`SumsAgree`), and then the facts the other modules cite: any element may be
taken out first (`SumElement`), sums add pointwise (`SumPlus`), a change at one
element changes the sum by as much (`SumUpdate`), a sum of naturals grows with
its set (`SumGrows`).

### LedgerProofs

It proves, for any number of accounts, keys, requests and workers
(assuming `LedgerAssumption`):

| Theorem | Says |
|---|---|
| `TypeCorrect` | `TypeOK` is invariant |
| `KeysPostOnce` | `OncePerKey` |
| `NeverOverdrawn` | `NoOverdraft` |
| `ReadsStayFresh` | `LockedReadsFresh` |
| `LocksClimb` | `LockOrder` |
| `RepliesTruthful` | `ReplyNamesOriginal` |
| `PostsExactly` | the action property `ExactPosting` |
| `FactsStay` | the action property `AppendOnly`, which no run repeats |
| `LedgerImplementsService` | `Spec => ImplementsService` |
| `BooksAlwaysBalance` | `BooksBalance` |

`LedgerAssumption` says that ranks are distinct natural numbers, that the
constant functions have the domains their names suggest, that the opening book
does not overdraw, that accounts and requests are finitely many, and that the
two null values are not a request or a worker.

The argument rests on one inductive invariant, `IInv`. The properties alone are
not inductive: `OncePerKey` depends on a committing worker holding the key's
index slot while no record exists, and `NoOverdraft` on the totals it writes
being computed from the committed ones. Its parts say so:

- `Serving`, `Silent`: a worker past `idle` serves a request, and only one that
  has replied has a reply;
- `SlotHeld`, `SlotFresh`: a worker inside its transaction holds the slot of its
  key, and a held slot has no committed record;
- `LocksScoped`, `AllLocked`: row locks belong to transactions and to accounts
  the request touches, and at `write` all of them are held;
- `RecordExact`, `RecordKeyed`: a record exists exactly for the request posted
  once, under that request's key;
- and the properties themselves that support one another.

`ExactPosting` and the refinement then follow step by step: all steps but
`Commit` stutter, and `Commit` writes `Projected` totals that, by freshness,
are the committed ones plus the journal. `BooksBalance` needs one thing more,
`BalancedServed`: a request past the check that opens `post` is balanced, so
what a commit adds to the debits it adds to the credits (`SummedApplied`), and
its own term of the sum of journals goes from 0 to 1 (`PostedSum`).

### TransfersProofs

| Theorem | Says |
|---|---|
| `SagaInv` | the inductive invariant |
| `TransferIntentSpentOnce` | `IntentSpentOnce` |
| `TransferMoneyTraced` | `MoneyTraced` |
| `TransferRecoveryBounded` | `RecoveryBounded`: a row in PROCESSING has met fewer runs than the attempt limit |
| `TransferTotalsKept` | `TotalsKept`: the daily limit, the conserved total, no wallet below zero |
| `TransferNeverReopened` | the action property `NeverReopened` |

`ConstantsOK` types the constant functions and says that sender and recipient of
an intent differ, that amounts and the attempt limit are positive, and that
opening balances are not negative; customers and confirmations are finitely
many. The properties alone are not inductive:
whether a row may be completed depends on what a call under way was told.
`RepliesTrue` says a reply on its way tells of a journal that is there,
`PostedHasRow` and `ConsumedHasRow` that a row comes before its journal and
before its intent is spent, `OnePerIntent` and `OnePerKey` are the two unique
indexes, `Entitled` that a row's intent was authorised, `Counted` that a row
under review has used up its attempts; `PassesCounted` that every
recovery run that met a row in PROCESSING used up one of its attempts. For the daily limit, `LimitInv` says that
one confirmation of a sender holds the advisory lock (`OneHolder`) and that the
room it found is still there (`RoomKept`); rows the Ledger refused leave the sum
and, being marked (`RefusalMarked`), do not come back into it.

### SabclProofs

`SabclDispatchOnce` proves, with one Redis prefix for all services or one for
each, that a message is dispatched twice only if a claim of it ran after its
expiry. `SabclCallsDispatchOnce` proves the whole of `CallsDispatchOnce` under
the further hypothesis `SharedPrefix = FALSE`; without it the statement is
false, which the run `sabcl_prefix` shows. `PlatformProofs` carries it over to
the composition that the run checks. The invariant is about time:
`GrantOutlives` says that a claim granted before the expiry is still in the
store at the expiry (the EX includes the clock skew), so a second grant
(`GrantedOnce`) must be late; `OwnSeenGranted` says an entry of the recipient's
own store comes from its own claim; `SettledKey` and `RotationSettles` follow
the key ring.

### IdentityProofs

| Theorem | Says |
|---|---|
| `PhoneHasOnePin` | `OnePinPerPhone`, its action part `PinStep` included |
| `SessionKeepsLimits` | `SessionLimits`, its action part `GuessStep` included |
| `PasskeyCountsOnce` | `PasskeySpentOnce`, its action part `CounterStep` included |

*Onboarding.* `PinFirst` says that a row has a PIN exactly when it has left
PENDING, in the database and in every copy a request has read; `TokensDrawn`
that an enrollment token is drawn by the last step of its request and is gone
once taken; `AdmittedCounted` that every request let through to issue a code was
counted before.

*Sessions.* `KeyBound` bounds what `get` wrote last by the idle time and the
absolute expiry. The step-up's bound needs the history of the counter: wrong
PINs that still matter are split into those of the window before (`old`) and of
the current one (`cur`); each window lets `MaxAttempts - 1` of them pass before
it locks, and those in neither are a lock's length ago or covered by the lock
(`WindowsKept`). Lemmas say how the two sets move: the first failure after a
window makes the current set the old one (what was old is a lock's length ago
by then), a later failure joins the current set or goes on to set the lock, and
the lock covers all failures before it. The bound `2 * (MaxAttempts - 1)` is the sum of the two, and holds
while no correct PIN has reset the counter.

*Passkeys.* `TakenOnce` says that a request past GETDEL has its challenge to
itself, `CounterChecked` that what it stores was compared with what it read, and
`AuditFirst` that the audit row precedes the session.

### PlatformProofs

| Theorem | Says | Assumes |
|---|---|---|
| `GatewayInv`, `GatewayRequestsGuarded` | `RequestsGuarded`, of the Gateway and (`PlatformRequestsGuarded`) of the composition | nothing |
| `VerdictsStayMonotone` | `VerdictsMonotone` | nothing |
| `ControlsStayBinding` | `ControlsBind`, its action part `ControlStep` included | `PlatformOK` |
| `EventsAreCountedOnce` | `EventsCountOnce` | `PlatformOK` |
| `OperatorSessionsEnd` | `OperatorSessionEnds`, its action part `AcceptStep` included | `PlatformOK` |
| `DrillsAreToldTruly` | `DrillToldTruly` | `PlatformOK` |
| `BackupsStayWhole` | `BackupsWhole` | `PlatformOK` |
| `EnvironmentStaysSound` | `EnvironmentSound` | nothing |
| `LauncherStaysSound` | `LauncherSound`, its action part `DataStep` included | `PlatformOK` |
| `SealedCallsDispatchOnce` | `CallsDispatchOnce` | `PlatformOK`, `SharedPrefix = FALSE` |

*Gateway.* A count of runs is not inductive, since a call still in flight may
run later: `Budget` bounds what has run plus what is in flight by what the
transport in use may have sent. `AnswerTrue` ties an answer on its way to the
present stage, `Passed` and `HeldBack` read from the stage what a request has
been through. A step moves one request, so `OwnStep` reduces each action to the
request it moves.

*Rules.* More facts trigger more rules (`RulesTriggered`), weights are natural
numbers, so the capped score and the band never fall (`ScoreGrows`), and an
existing control or incident alone weighs 50 (`ExistingWeighs`). `VerdictAllows`
reads from the score which verdicts allow.

*Controls and events.* `RowsStay` says that a row the sweep or a release has
read exists and, for the sweep, is over whatever has been written since;
`Weighed` that what an evaluation read decides what it will store: `owed` notes
at the read what the rows that stood call for, and under the unique index
(`IdFree`) one call of an `evaluationId` stores its verdict while others fail. For events,
`Placed` says which deliveries created a row and which have been counted, so
that the counters are the cardinalities of two sets of deliveries.

*Operator sessions.* `Pending` says that a token made and not stored yet is
known to its own sign-in alone; `Reached` is `LiveIsReachable` without the
logout under way, which is what each step keeps.

*Drills.* `Advancing` is the script's position: the calls before it are done,
row and events are where it left them. `Failing` says that, when every call was
answered and none broke, only the report of the failure moves the row.

*Backups.* `DumpedSince` says that a set's dumps follow its start, `Chose` that
a restore works on a published set, `Entries` that it has made the databases of
the first entries of the scope and restored them all but the one being decrypted.
`AsPublished` says what a file can hold (the dump it was published with, another
published one, or bytes that do not decrypt), `Readable` that from verification
on a restore finds its own dump, broken bytes, or one exchanged under it.

*Environment and launcher.* `Kept` says that whatever changes the file or the
volume forgets the last check or start, and that the last start's outcome is what
the overlaid file leads to; `Found` where the volume's password is
after no and after one forced initialisation. `Listed` says that the list of
children is in the plan's order, `Loop` that the start loop has seen to every
service before its position, `Stopping` that the reversed copy holds every
running child that was not started late: so a second signal leaves exactly those
the shutdown had not come to.

*Sealed calls.* `SabclProofs` is instantiated with the composition's variables
and its theorem carried over, under the same hypothesis that each component has
a Redis prefix of its own.

### ChannelsProofs

| Theorem | Says | Assumes |
|---|---|---|
| `QrInv`, `QrPaysOnceAndTellsTheSame` | `QrMoneyTraced` with its action part `RetryStep`, of the QR payments and (`ChannelQrMoneyTraced`) of the composition | `ConstantsOK` |
| `UssdPaysWhatWasConfirmed` | `UssdPaysAsConfirmed` | `ChannelsOK` |
| `CustomersHaveOneWallet` | `OneWalletPerCustomer` | `ChannelsOK` |
| `ChannelBooksAlwaysHold` | `ChannelBooksHold` | `ChannelsOK` |
| `AgentCashAlwaysTraced` | `AgentCashTraced` with its action part `LateConfirmStep` | `ChannelsOK` |
| `ReportsAreTrue` | `ReportIsTrue` | `ChannelsOK` |
| `FormsActOnlyOnce` | `FormsActOnce` | nothing |
| `ScreensStayUsable` | `ScreensUsable` | nothing |

*QR payments.* `ConstantsOK` says that no client key equals the key the preview
makes up (a hash of another string). The invariant records who wrote what:
`Settled` (a status in the row was returned by the Ledger to some confirmation
of the scan), `KeyOwned` (the row's key is one of a confirmation that wrote it),
`KeyAlone` (the unique index). A confirmation that is the only one of its scan
to have written therefore owns the row (`AloneOwnsRow`), which is why a retry
finds it.

*Reconciliations.* Faults are repaired and never made while a run goes on
(`FaultsShrink`), every standing fault asked about is reported unless the list
was full (`AskedIsReported`; `RoomTaken`: a list without room holds a fault, so
the run fails all the same), and each script's PASS keeps its meaning (`PassMeans`).
That six codes all find an entry in the bounded list rests on one fact about
`add` (`OneAdd`): it leaves at least half of the room it found, so 32 entries
are enough for six (`ListHoldsEveryCode`); the code has 50.

*Forms.* A request without an answer is awaited or was given up on (`Awaited`),
a record was made by a request and is what that request was told (`MadeByCall`),
one opening of the transfer form has one key and one record under it
(`OneKeyPerMount`), and what nobody waits for or gave up on was told
(`StandingIsKnown`, `AnnouncedIsTold`; the second counts drills).

*Sign-in screens.* A request belongs to the flow on screen (`KindsOfFlow`),
`getSession` succeeds only with the cookie (`GrantedByCookie`), and a code is
asked for with phone and PIN at hand, or "back" was pressed (`AsksWithPin`).

*Ledger channels.* `ChannelInv` adds to the two properties that admission looked
at both ends of a payment (`EndsDiffer`): a settlement then moves its amount
between two different accounts (`SettleMoves`), and wallets minus float stay.

*Agent cash.* `CashCreated` and `CashPlaces` follow a row and a confirmation,
`CashWho` says that a status was written by a confirmation whose Ledger call
returned accordingly, and `CashStands` that a COMPLETED which was told stands
unless another confirmation settles too. For the day's limit, `CashRoom` says
that without overlap at most one operation is open and that the day it counts on
has room for it: the preview finds that room, midnight brings an empty day, and
no step but the operation's own completion uses it up.

*Wallets.* One wallet per customer, told "created" to exactly one key, under a
unique reference, with the identity index left nothing to refuse. The invariant
follows the two locks: `KeyAlone` and `KeyFresh` (a request past its reservation
is alone with its key, which has no record), `LockAlone` and `StillMissing` (the
advisory lock's holder is alone with its customer, who has no wallet until it
inserts), `RecordsTrue` and `OneCreator` (a record names the customer's wallet,
and one of them says created). Counting the creators is the library's
cardinality facts.

*USSD.* The proof is for any number of overlapping deliveries. The component's
`ConstantsOK` says that `Math.floor(parseFloat(x) * 100)`
is the amount typed or one minor unit less, which holds for doubles below 2^52
minor units. `AsksOnScreen` says that every copy of the session that asks for
consent or for the PIN, in Redis or in a handler, names a screen that was sent;
`ConsentUnspent` that without overlap a PIN prompt stands for a consent not yet
paid or for a paid session that could not be deleted.

**Only model-checked.** Five properties stay with TLC:

- what a sort, a filter or a fold over a sequence returns (`SetToSortSeq`,
  `SortSeq`, `SelectSeq`, `FoldLeft`): `CanonicalPostings`, `PagesTellTheTruth`,
  `ListsAreWhole`, and `WindowsFair`, whose map is pruned by a fold. Their
  definitions recurse with an operator as a parameter, for which the argument of
  `Sums` would have to be repeated for each use;
- liveness under fairness: `EveryRequestServed`.

## 5. What the checks show

The Ledger's combination of a unique idempotency index, sorted row locks and
checks inside the transaction is sound: no schedule, crash or duplicate makes a
key post twice, loses an update, overdraws or deadlocks. In Payments, one intent
never moves money twice, COMPLETED always has its journal, the limit holds
against races, and as many runs of recovery as the attempt limit allows decide a
row or hand it to review. In Identity, what one Redis command or
one SQL transaction decides (GETDEL of tokens and challenges, the conditional
activation, INCR against a limit) holds under every interleaving; what is read
in one command and written in another does not, which is where section 6 finds
code and documents apart.

Elsewhere many properties hold *unless* something happened, and the condition is
the finding a reader should take away:

- a QR redemption or agent operation is FAILED over committed money only if two
  requests settled it; a retry is told what the first was told unless another
  key took the row;
- a transfer stays PROCESSING only as long as fewer recovery runs than the
  attempt limit met it; nothing in the repository schedules them;
- an agent exceeds the day's limit only by previews that overlapped open
  operations; a USSD payment lacks a confirmation of its own only if two
  deliveries were handled at once, or if a paid session could not be deleted and
  the PIN was delivered again (one more payment for each such failure);
- the Ledger's reconciliation misses a fault only if earlier checks filled its
  list, and then fails all the same; the aggregate report leaves out a Payments
  code only behind sixteen other entries;
- an evaluation ignores a standing control only if a verified step-up clears it,
  or if more than 20 stand and it was not fetched;
- a restore that passed holds another dump than its set's only if the file was
  exchanged after its verification, and `--latest` passes over a newer set only
  if its manifest was lost or re-dated;
- a file that `env:check` accepted fails to start a service only for a value the
  check never reads, a placeholder inside a URL or the example's
  `DEMO_AUTH_ENABLED` in production, or a database made with other passwords;
  Identity and the Gateway run unseen if given ports of their own;
- a sealed message is dispatched twice only if a claim ran after its expiry, and
  refused for its key only if sealed while a rotation was under way; a Gateway call runs twice only through the compatible mode's fallback;
- a rate counter without an expiry is left only by a handler lost between INCR
  and EXPIRE, and a caller exceeds its window only if the window was evicted;
- an event counts twice only after retention removed its row;
- no child outlives the launcher except one spawned after the shutdown copied
  its list or, after a second signal, one the shutdown had not come to;
- a step-up is protected by a window that does not slide: up to twice
  `MaxAttempts - 1` wrong PINs may precede a check within one window's length.

Two observations from reading along, which no property is about: `mapHttpError`
never yields `temporarily_locked`, so the branch of `completeFallback` that
resets the screen for it is unreachable; and the Gateway sends the channel
routes under the capability `payments.transfer`, whose path list does not hold
them, so a recipient refuses them when SABCL is on (`Gateway!Listed`).

## 6. Where code and documents disagree

1. `transfers_failed_posted`: `services/ledger/README.md:139` says that the same
   key replays the original journal, and
   `docs/security/payment-idempotency-and-recovery.md:7` that a retry after a
   lost reply returns it. `transfer` compares the live balance first
   (`customer-transfer.service.ts:114`), so the retry of a settled command can
   be answered INSUFFICIENT_FUNDS and recovery then records FAILED for money
   that has moved.
2. `transfers_verdict`: `settle`'s updates are unconditional, so a late call
   moves REQUIRES_REVIEW on (`docs/security/transfer-threat-model.md:26` calls it
   terminal), and FAILED too (recovery document, line 14).
3. `signin_code_replay`: `OtpService.verify` reads and deletes in two commands,
   so two verifications of one code can both succeed
   (`docs/decisions/0004-identity-and-session-authentication.md:16` promises
   one-time consumption).
4. `sessions_revoked`: `get` can write a session back after its revocation
   (decision record 0004, line 14: immediate revocation).
5. `sabcl_prefix`: `.env.example:181` gives every component the same
   `SABCL_REDIS_PREFIX`, so the recipient finds the router's claim and refuses a
   first delivery as replayed; `docs/security/sabcl-replay-and-expiry.md:90-92`
   gives router and Ledger prefixes of their own.
6. `sabcl_rotation`: a sender addresses the highest version it is configured
   with (`keyring.ts:196`) and a recipient opens only its one own key
   (`seal.ts:207`), so between publishing a version and switching to it every
   message is refused; `docs/security/sabcl-key-management.md:112-114` says that
   nothing has changed on the wire yet.
7. `sabcl_twice`: the expiry is compared before the claim is made, in a step of
   its own, so a delivery that was in time can claim after the first claim has
   ended and is dispatched again; `docs/security/sabcl-replay-and-expiry.md:5`
   requires that an envelope be accepted at most once, and lines 108-112 argue
   that the end of a claim reopens nothing.

Two more are reached in the passing runs, whose properties state what holds
instead:

- `advance` updates the drill by its id alone, so a call that read an earlier
  state overwrites a later, even a terminal one; the comment at
  `drill.service.ts:127` says that out-of-order moves are a conflict rather than
  a silent overwrite. `DrillToldTruly` says what evidence and exit code are
  worth in spite of it.
- A service spawned after `shutdown` copied its list is never stopped, and a
  second signal finds `shuttingDown` set (`demo.mjs:489`) and exits (526) with
  children running; the header (`demo.mjs:17-18`) promises that no orphan keeps
  a port bound. `OrphanWasLate` names exactly these children.

## 7. Plan

The model covers the parts of the system that keep state, and what the prover
can reach of their properties is proved. Worth doing next: lemmas like those of
`Sums` for `SelectSeq` and for the sorted sequence of a finite set, which
`WindowsFair`, `ListsAreWhole` and `PagesTellTheTruth` wait for. When a
component changes, its inductive invariant is the first thing to check again with TLC, before the proofs.

**Not modelled, and why.** Contracts are schemas without state; the ranges they
fix are constants here. Localisation, rendering and read-only panels of the web
application, read-only routes, health endpoints and module wiring change
nothing. `evidence.mjs` formats a report of commands it runs. Cryptography is an
ideal function wherever it appears. The risk client's request and response
formats are abstracted to a refusal. Two small races are known and left out: the
daily limit's lock and sum read the clock twice, which differs only when
midnight passes between the two, and the balances stored with a transfer are
read after its commit and only displayed. In `SignIn` the PIN fallback's
`failedLoginCount` keeps its lost update, and no property states what the lock
promises.
