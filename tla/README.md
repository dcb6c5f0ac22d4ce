# Portal Parceiros backend: TLA+ models, checks and proofs

The repository is the NestJS backend of a portal where sales partners simulate
loans, turn a simulation into a proposal, fill the proposal in with a wizard of
seven steps, submit it, and collect overdue instalments. It runs in several
replicas over one PostgreSQL database (Prisma, READ COMMITTED unless a
transaction asks for more), an S3 bucket and two external providers, Celcoin
(loan conditions) and Caburé (insurance). Other programs share the database:
the back office, the client's confirmation, and the daily job that creates and
closes collection tasks.

Paths below are relative to the repository; `src/` is its application code.

## 1. Inventory

| Component | State it keeps | Operations | Talks to | What is hard |
|---|---|---|---|---|
| Proposal wizard `src/quotes` | `quotes`, `quote_draft_steps`, four JSON attachment columns | create draft, seven step saves, change of conditions, renewal prefill, upload, remove, complete, submit | simulations, parties, storage, events, configuration, Celcoin, Caburé | requests of one proposal race; data read before an `await` is used after it; a step is completed against data that later changes |
| Attachment storage `src/storage` | S3 objects | put, delete, sign | called around a database transaction | no transaction spans S3 and PostgreSQL; crash between the two; lost answer to a COMMIT; compensation |
| Domain events `src/quote-events` | `quote_events` | insert inside the caller's transaction | every use case | the event and the change commit together |
| Simulations `src/simulations` | `simulations` | simulate (new or edited) | parties, Celcoin, Caburé | conversion races an edit; three row locks in several orders |
| Parties `src/parties` | `parties` | resolve a CPF | simulations | insert race; missing birth date filled twice |
| Collection activities `src/activities` | `activity_tasks`, `activity_interactions` | register, postpone, reschedule, list, gates | follow-ups | row lock plus an unlocked read of the queue; limits under concurrency; midnight |
| Follow-ups `src/follow-up` | `installment_followups` | create, list | activities | written in the caller's transaction |
| Configuration cache `src/system-configs` | a map with a five-minute lifetime | read keys | wizard, eligibility | overlapping loads overwrite each other |
| Celcoin `src/celcoin`, Caburé `src/cabure` | one cached token each and one login in flight | token, invalidate, calls | simulations, wizard | 401 while a login is in flight; the waiters of a login that fails |
| E-mail validation `src/email-validation` | hits per user in memory | consume, validate | ZeroBounce | the sliding window; the call leaves later than it was counted |
| Authorisation scope `src/scope` | none (reads `trigo_users`) | subtree, visibility, selection | all listings | cycles, deleted managers; the screen and the write ask different predicates |
| Users and authentication `src/users`, `src/auth` | none here; tokens in the browser | login, refresh, guard | every controller | permissions travel in tokens nobody looks up again |
| Home, portfolio, contracts, collections `src/dashboard`, `src/portfolio`, `src/contracts`, `src/collections` | none (read views and tables other programs write) | cards, summary, list with filters, tabs, detail | database | one rule written several times, in SQL and in TypeScript |
| Location check `src/location-check` | none | verify | geocoder | boundaries of radius, precision and proximity; a NULL `is_primary` |
| Performance `src/performance` | none (snapshots) | filter, figures, team | scope | whom the filter offers and whom the route accepts |
| Eligibility, products, locations, bootstrap | none, or a cache of an external directory | validate, read | database, HTTP | boundaries of a pure rule |

What makes each of them correct:

- **Proposal**: a completed step is true of the proposal *now*; a submitted
  proposal had every step and every document and never changes again; no upload
  or save is lost; proposal, simulation and insurance row hold the same
  conditions; the renewal prefill happens once.
- **Storage**: what the list shows can be downloaded; an object nobody lists has
  an explanation.
- **Simulation and party**: one simulation becomes at most one proposal; a
  converted simulation changes only with its proposal; a CPF has one person; a
  stored birth date is never overwritten; requests do not deadlock.
- **Collection queue**: an executed task has exactly one interaction and one
  follow-up; deferrals are bounded; segments are executed in priority order; a
  closed task stays closed.
- **Configuration**: no answer is older than the lifetime of a cache entry.
- **Tokens**: a token is handed out only while it lives, a refused one never
  again; a refused quote is repeated once, with a newer token; every call ends.
- **Limiter**: no more calls in any window than the limit, per replica.
- **Scope and sessions**: the subtree is the transitive closure, cycles included;
  what the screen offers is what the write accepts; nothing is done on
  permissions lost longer ago than an access token lives.
- **Ações de hoje**: no task is lost between the queries of an answer; what is
  marked executable is accepted; who is blocked finds something to do.
- **Screens**: two screens that show the same contracts do not contradict each
  other, and where they show different ones the difference is the companies; a form opened again shows what was saved; a visit is confirmed only near
  a point that is trusted.

`PROJECT.json` lists every component with its status and every hazard at its line.

## 2. Modules

```
QuoteRules  <-- QuoteLifecycle  <-- QuoteTransactions  <-- MCQuoteTransactions
 data+rules     atomic use cases    SQL statements          three runs
                                          ^
                              QuoteTransactions_proofs

SimulationConversion <-- MCSimulationConversion, SimulationConversion_proofs   two runs
AttachmentStorage    <-- MCAttachmentStorage,  AttachmentStorage_proofs   two runs
SystemConfigsCache   <-- MCSystemConfigsCache, SystemConfigsCache_proofs  one run
ActivityQueue        <-- MCActivityQueue,      ActivityQueue_proofs       one run
TokenUse <-(INSTANCE)- ProviderCalls <-- MCProviderCalls, ProviderCalls_proofs   one run

Hierarchy <-- TodayQueue <-- MCTodayQueue, TodayQueue_proofs              one run
          <-- People    ----------\
          <-- Portfolio ----------+
          <-- Sessions  ----------+--> PortalRules <-- MCPortalRules, PortalRules_proofs   one run
    Interactions, WizardFields ---+
    VisitLocation, EmailLimiter --/
```

Arrows read "is extended by". A definition called *Mutant* is a plausible bug in
the definition that follows it; no specification uses it.

### QuoteRules, QuoteLifecycle, QuoteTransactions

`QuoteRules` has the data of one proposal and the two checks that look at it:
which documents are missing (`DocumentationComplete`,
`quote-draft-documentation.service.ts` 555–586) and whether the income left
covers the instalment (`CoversInstallment`, `quote-draft-financial.service.ts`
70–101). Only the fields those checks or the copies between tables depend on are
kept; the other fields of the wizard are `WizardFields`'s.

`QuoteLifecycle` is the abstract specification: each use case is one step that
changes row, steps, linked rows and events together.

`QuoteTransactions` is the code: a request is a record in `call[r]` and moves
through `pc[r]`:

| Code | Action |
|---|---|
| `tx.quotes.updateMany({where: {quote_status: DRAFT}})` or `SELECT ... FOR UPDATE` opening a READ COMMITTED transaction (step saves, prefill, submit) | `UpdateDraft` |
| `findEditableDraft`, then `await` Celcoin and Caburé, then the transaction (change of conditions) | `ReadDraft`, `UpdateConditions` |
| `runSerializableTransaction` (upload, remove, complete) | `Open`, `UpdateSnapshot`, `Retry` |
| the checks after the UPDATE | `Verify` |
| COMMIT with all other writes of the transaction | `Commit` |
| an exception, P2034 on the last attempt, a provider that fails, a timeout, a crash | `Rollback` |

A row lock is held from the first UPDATE to the end; a snapshot that another
commit overtook makes the UPDATE fail. Writes in other tables are applied at the
commit, because nobody sees them before. `limit` is the answer of the
configuration cache, which can change at any moment. `basis` is a history
variable that remembers what a completed step was checked against.

`ImplementsLifecycle == LifecycleSpec` is the refinement: a commit is one atomic
use case, every other step of a request is invisible.

### SimulationConversion

The statements of `simulate` (create and edit), `createDraftFromSimulation` and
the redraft of a proposal on one simulation and one CPF, with the three locks
they take (`clientLock`, `simulationLock`, `proposalLock`). The insert race on
`parties` and the unique key on `quotes.simulation_id` are modelled as
PostgreSQL does them: the second insert waits for the first transaction and then
fails. An UPDATE evaluates its `NOT EXISTS` in one step and gets its lock in a
later one: that gap is the finding of `simulation_edit_race`.

### AttachmentStorage

Upload is `Receive`, `Put`, `AddRecord`; removal is `ReceiveRemoval`,
`DropRecord`, `DeleteObject`. Each S3 call may fail (an upload the client saw
fail may have stored the object), each transaction may be refused, conflict
(`Conflict`, at most `MaxAttempts`), or commit without an answer
(`AddAnswerLost`, `DropAnswerLost`), and the process may crash between any two
calls. `mishaps` records what went wrong with which attachment.

### SystemConfigsCache

`getValues`: the clock is read once, the query is sent, the answer is stored
with a lifetime that counts from that first reading. `now` is a logical clock;
a value is represented by the instant its query was evaluated. Loads of
overlapping requests may be stored in any order, so two successive answers may
go back in time, but never further than a lifetime.

### ActivityQueue

`registerInteraction`, `postpone`, `reschedule` of `activities.service.ts`:
`LockTask` (`SELECT ... FOR UPDATE` and `assertActionable`), `CheckActive`
(`assertIsActiveTask`, a read without a lock), then the write. Dates are
relative to today. `CURRENT_DATE` is the day the transaction began, so a request
carries `age`, the midnights since then. `CreateTask`, `CloseTask` and `NextDay`
are the daily job and the calendar. `Visits` can be rescheduled; other tasks can
only be postponed.

### TokenUse, ProviderCalls

`ProviderCalls` is one replica's calls to Caburé (`cabure.service.ts`) and Celcoin
(`celcoin-simulation.service.ts`) with the token each client caches. An action is
what happens between two awaits: `GetToken` (take the cached token or join the
login in flight), `ForceLogin` (`getAccessToken(true)`), `LoginSucceeds` (the
token is cached and everybody who waits resumes in the same turn), `LoginFails`
(everybody who waits fails), `RefusedByCabure` (one repetition after a forced
login), `RefusedByCelcoin` (`invalidate()` drops whatever is cached by now and the
call fails). `Issue` is the provider granting a token; its answer is on the way
for at most `MaxLatency`, and `expires_in` counts from the grant at the provider
and from the arrival in the client. `TokenUse` is what callers are promised: a
call goes out with a token that was issued and, if it is asked again, once, with
a later one. `ImplementsTokenUse` is the refinement; `Uses` is its mapping.

### Hierarchy, TodayQueue

`Hierarchy` has the recursive query of `scope.service.ts` (`Subtree`: rounds of
`UNION` until none adds a row, a recursive function) and the predicates built on
it, one per method, and the rules of `people-scope.service.ts`.

`TodayQueue` is one answer of `getTodayQueue` as the six queries it is made of,
with the commands, the daily job, reassignments and midnight between any two. A
command is atomic here; `ActivityQueue` has its statements. `Leaders` is a set,
because `ORDER BY ... LIMIT 1` may return any of the tasks that tie. `steady`
remembers which tasks have been on the queue since the request, `commits` how
many commits there were. `Gates` is `getPermissions` of
`quote-activity-permissions.service.ts`.

### PortalRules and its parts

The parts share no state with the modules above nor with each other. `PortalRules`
puts them into one specification: `part` is drawn at the start, and only that part
takes steps. That keeps the run small and loses nothing: `PartsInAnyOrder`
(section 5) proves the same properties of parts that move in any order.

| Part | Code | State and actions |
|---|---|---|
| `EmailLimiter` | `email-validation-rate-limiter.service.ts`, `email-validation.service.ts` | `hits` per user; `Consume`, then `CallZeroBounce` or `NoCall` once the credential was read |
| `People` | `performance.service.ts`, `quote-read.service.ts` list and `canEdit`, the ownership check of a save, each behind the guard of its controller | managers, deleted users and the owner of a proposal change at any moment; screens and writes are operators |
| `Portfolio` | `dashboard`, `portfolio`, `contracts`, `collections` services, `vw_fato_parcela.sql` | contracts are disbursed, paid in part or in full, renegotiated in whole or in part, closed, cancelled, reassigned, from day to day; every query is an operator, over the companies it looks at (`Celcoin`, `Internal`) |
| `Interactions` | `register-interaction.dto.ts`, `activities.service.ts` 782–857, `follow-up.service.ts` 31–196 | every form of an interaction and of a direct follow-up, through both validations (`FollowUpTakes` is the second), to the stored row |
| `WizardFields` | the step services' `normalize*`, the DTOs, the renewal copy, `quote-read.service.ts` `toDetail` | the columns a step writes; `entered` remembers what the last save meant |
| `Sessions` | `auth.service.ts`, `jwt.strategy.ts`, `permissions.guard.ts`, `createDraftFromSimulation` up to its transaction | registry, token pair, requests in course: the user is read, then his permissions (`ReadKeys`), then the tokens are signed (`Issue`); `since` remembers when the registry last said what a draft relied on |
| `VisitLocation` | `location-check.service.ts` | the client's addresses in order of creation, the guarantor's, one check |

`Hierarchy.GuardPasses` is `PermissionsGuard`: the explicit permissions of the
controller's class are asked first and of everybody, `ROLE_ADMIN` included; one of
those of the route, or `ROLE_ADMIN`, is asked next. `ReadGuard` and `WriteGuard` are
its two uses on the quotes (`QUOTE_NEW_ORIGINATION_FLOW`, `quotes.controller.ts` 72),
`PerformanceGuard` its use on Performance (`PERFORMANCE_VIEW`), whose routes ask for
nothing else.

Texts are values with a canonical form (`Canon` stands for trimming, digits only,
lower case, +55); points of a visit lie on a line, which keeps every comparison of
a distance; money is counted in units, days from an arbitrary one.

## 3. Runs

| Run | Asks | Instance | Result |
|---|---|---|---|
| `quote_transactions` | Do concurrent requests on a proposal keep it consistent, and does each commit refine one use case? | 2 requests, 2 attempts, 2 conditions (one above the income-proof limit), 2 limits, 2 incomes, 2 attachments of different kinds, one plain step | 959,788 states; holds |
| `simulation_conversion` | Create, edit, convert, redraft: one proposal, one person, no deadlock? | 2 requests, 2 conditions, 2 birth dates | 95,440 states; holds |
| `attachment_storage` | Is a listed file stored, and an unlisted object explained? | 1 attachment, 2 removals, 2 attempts | 4,534 states; holds |
| `system_configs_cache` | How old can an answer be? | 2 requests, 2 keys, lifetime 2, latency 1, clock 0–3 | 870,985 states; holds |
| `activity_queue` | Limits, atomicity, segment order and the end of deferrals | 2 requests, a visit and a contact of different segments | 341,776 states; holds |
| `provider_calls` | Are tokens used while they live and repeated once, and does every call end? | 2 calls, 2 logins per provider, validities around the margin, clock 0–2 | 375,410 states; holds |
| `today_queue` | What may an answer made of six queries say? | partner, manager and observer; 3 tasks, two of them tied; 3 commits under one answer | 783,637 states; holds |
| `portal_rules` | The seven parts of `PortalRules` | see Bounds | 117,612 states; holds |
| `insurance_birth_race` | Is a stored insurance quotation one for the birth date of the proposal? | as the first, 2 birth dates | violated |
| `financial_step_stale` | Does a completed Financeiro step mean the instalment fits? | as the first, 2 commitments | violated |
| `simulation_edit_race` | Is a converted simulation immutable? | 3 requests | violated |
| `lost_commit_answer` | Is every listed file in the bucket? | as `attachment_storage` | violated |

**Bounds.** Two requests on one row meet in every order a row lock or a
snapshot allows; requests in other proposals touch other rows. Identifiers are
reused after a request ends, so a run is not limited to two requests in all, only
to two at once; the proofs of section 5 remove that limit for the proposal.
Two conditions straddle the limit, so new conditions can make a document
necessary and an instalment too large. Attempts are 2 instead of 3: one conflict
followed by a success and one that exhausts the attempts both occur. Attachments
do not interact in the bucket, hence one is enough there, with two removals that
can both be sent. In the cache the clock reaches past one lifetime, so entries
are loaded, expire and are loaded again. In the queue `RescheduleMaxDays` is 1
(5 in the code would only lengthen the wait), the two limits (1 postponement, 2
reschedules) are the real ones, and `TooMany` is where a history counter
saturates, above every legal value.

In `provider_calls` two calls of one provider share a login, and a call that
forces one meets a call that waits; two tokens per provider allow a refused, a
replaced and an expired one. In `today_queue` three commits let one task move
through due, put off and executed while an answer is read, or two tasks change
leaders. In `portal_rules`: three checks by two users with a limit of one, a
window of 3 and a clock of 5 reach both edges of the window; three users give
every hierarchy, cycles of up to three included, and seven sets of permissions
every way to pass or fail a guard, administrators without the explicit permission
among them; two contracts, one of CELCOIN with two instalments, so that one of them
may be renegotiated alone, and one of an internal company, with a drag after 1 day
(30 in the code) cross every boundary in 4 days, and both ends of the window of
renewals, one month of two days (4 months in the code); the forms of each step contain one
accepted and each refused shape, and a copied proposal has one more income than a
renewal takes (`MaxRenewed` is 1, 9 in the code); two
addresses cover every order of primary, not primary and NULL; a session has two
interchangeable requests (`MCRequests`), an access token of 2 ticks and a refresh
token of 3 with requests of at most 1, so a user is refreshed, demoted and disabled
within the life of a token, between the permissions of a consultant of the portal
and those of one who lost both the portal and the new flow.

**Deadlock** is checked except in `attachment_storage` and
`lost_commit_answer`, where every call is made once and the system stops, and in
`portal_rules`, whose parts end at their bounds (the clock, the days, one form).

**Fairness.**

- `SimulationConversion`: strong fairness of the next statement of each started
  request. PostgreSQL queues lock waiters in order, so a waiter is not
  overtaken for ever.
- `AttachmentStorage`: weak fairness: an awaited call is answered or fails. None
  is assumed for accepting requests, nor that a particular call succeeds.
- `ActivityQueue`: days pass, and a transaction does not survive to a second
  midnight (interactive transactions time out in seconds). Nothing makes a
  partner act: `DeferringEnds` says that deferring alone cannot keep a pending
  task out of today's queue for ever.
- `ProviderCalls`: weak fairness of the steps of each call and of each login: an
  HTTP request is answered or aborted by its timeout, and a settled promise
  resumes whoever awaits it. Nothing makes a provider accept.
- The other models have safety properties only.

## 4. What the violated runs show

1. **`simulation_edit_race`** – `docs/architecture/simulations.md` 31–32 says the
   preliminary check and the conditional UPDATE enforce immutability after the
   conversion. The UPDATE's `NOT EXISTS` sees what was committed when the
   statement started, and the conversion takes no lock the UPDATE waits for: an
   edit can rewrite the simulation of a proposal that has just been created.
2. **`insurance_birth_race`** – the comment at
   `quote-draft-simulation.service.ts` 51–52 says the birth date of the proposal
   counts for the insurance. It is read before two providers are awaited and not
   compared again when the quotation is stored: the request to Caburé carries no birth
   date, but whether the client is eligible was judged on the date read before.
3. **`financial_step_stale`** – the Financeiro step refuses an instalment the
   income left does not cover, but a lower income saved afterwards leaves the
   step completed, and the submission does not compare again.
4. **`lost_commit_answer`** – an upload deletes its object after any error of its
   transaction, a lost answer to a COMMIT that took effect included: the
   attachment stays listed without an object.

The passing runs state what does hold next to each of them:
`ConditionsAgree` and `OneProposal`, `FinancialAssessed` (the step was checked
against the current conditions), and `ListedFilesStoredIfAnswered`.

**Smaller observations**, met while modelling. They are not disagreements a run
refutes; the models follow the code.

- The renewal copies the declared income and its entries, but neither
  `activity_income` nor `familiar_income`: an `activity_income` saved before the
  copy still enters the comparison of the Financeiro step. It replaces the
  address and keeps an earlier geolocation. Secondary incomes that
  `renewalIncomeEntries` writes in the old form are dropped by `mapIncomeEntries`.
- The Home's cards of due-today and renewals count every company, the list they
  open fixes CELCOIN; `ViewsAgree` compares them on that company. The delinquency of
  the Home counts the contracts of the internal companies too (`vw_dim_empresa.sql`
  11–16), which `vw_fato_parcela` leaves out: `DelinquencyAgrees` says they are all
  it adds. While a payment
  is in course (`pending_amount` already zero, `total_paid` not yet changed) the
  delinquent amount of the summary may exceed the active one, and the Home's card of
  active contracts counts a contract that the summary and `onlyActive` do not. A
  cancelled contract that was renegotiated is listed by `onlyRenegotiated` and not
  in its amount. The instalments of
  a contract show every status but `paid` as overdue once past due, a
  renegotiated one included.
- `recipientType = other` passes the DTO and is always refused by the follow-up,
  which rolls the execution back; `OnlyOtherIsRefused` says it is the only one.
- An administrator without `QUOTE_NEW_ORIGINATION_FLOW` sees proposals in no list and
  saves none, although `canEdit` alone would let him: the guard of the class stops
  him before any of it.
- `email-validation.service.ts` promises never to throw, yet reads the
  configuration outside its `try`.
- A login requires access to the portal; a refresh does not ask for it again: a
  user who lost it keeps his session as long as he refreshes, with the
  permissions he still has.
- `unreliableResult` does not raise the proximity radius to the radius as
  `verify` does; both only report it.
- A task whose contract left the scope of its assignee is not shown to him but
  still decides the open segment and the gates (`OwnQueue` leaves those answers
  out). The number of locked tasks is the counter minus one, which may be −1
  when a commit lands between the two queries. A partner who also has
  `ROLE_SUPPORT` gets an empty queue until he selects himself, while the gates
  apply to him.
- The insurance age in `simulations.service.ts` uses local-time getters, the
  other age rules UTC.

## 5. Proofs

All theorems hold for every value of the constants the named assumptions allow.

**How they are laid out.** An invariant that is not inductive is strengthened by
named conjuncts, which TLC checks on the instances of section 3 before they are
proved. Each proof has one step per action and one per conjunct
it can disturb.

**Proposal, abstract** (`QuoteTransactions_proofs`, first part): the type
invariant of `QuoteLifecycle` is inductive, and each property is inductive
together with it.

**Proposal, transactions** (`QuoteTransactions_proofs`): `TypeOK` and
`PendingWritesCurrent` form the inductive invariant. The second is the heart of
the argument: a request past its first UPDATE is the only holder of the row
lock, so the version it will commit is still its change applied to the row
committed now (`image[r] = Written(call[r], quote, seen[r])`) and what it checked
still holds; a snapshot is either overtaken or still equal to the committed
state (`Current`). Hence at `Commit` the guard of the atomic use case holds
and its effect is exactly what is written, lemma by lemma for each operation
(`ColumnRewrite` shows that rewriting one JSON column adds or removes exactly one
attachment). That gives `TransactionsImplementUseCases`, and with it every
property of the abstract module carries over to any number of concurrent
requests. Assumptions: `RulesAssumption`, `RequestsAssumption`,
`AttemptsAssumption`.

**Attachment storage** (`AttachmentStorage_proofs`): `UploadProgress` and
`RemovalProgress` tie `pc` to what is stored and listed (an upload past `Put`
has its object or a mishap, a removal only deletes an object whose record it
dropped). `ListedFilesStoredIfAnswered` and `OrphansHaveACause` follow.

**Configuration cache** (`SystemConfigsCache_proofs`): an entry was read less
than a lifetime before it expires (`EntryRecent`), and while a request is in
flight the entries it found alive, or others stored in their place, are still
younger than a lifetime (`InFlight`). The assumption `MaxLatency < TTL` is
needed: if a query may take as long as a lifetime, a slow load overwrites a
newer entry with a value that is already too old, and TLC finds that
counterexample with `MaxLatency = TTL`. In the code it is seconds against five
minutes.

**Collection queue** (`ActivityQueue_proofs`): `Inv` adds `Owns` to the
properties: a transaction past `LockTask` holds the row, the task is still
pending, and what it read is still what is committed. So an UPDATE starts from
the flags that were checked, which gives `DeferralsCounted`, from a pending task
without records, which gives `RecordedOnce`, and never from a closed one
(`ClosedForGood`). `SegmentLock` needs more, since the comparison of segments
reads rows nobody holds: `InOrder` says that, from the comparison to the commit,
only arrivals that `arrived` remembers can precede the task; `Steady` is what
each step of the others keeps of it. Midnight is the interesting step: a request
goes on counting from the day it began, so the queue it sees does not grow
(`SteadyAtMidnight`).

**Simulation and proposal** (`SimulationConversion_proofs`): `ConversionInv` adds
to `OneProposal` and `PartyExists` what each statement of a request has behind it
(`Shape`), that an uncommitted proposal is inserted under its unique key while
none is committed (`Proposing`), and that a person is inserted or completed only
under the lock of its row while the committed row is missing or incomplete
(`Filling`). `Filling` makes `CanonicalBirthKept` a consequence of each commit.
Assumption: `ConversionAssumption`.

**Token caches** (`ProviderCalls_proofs`): a token becomes known to calls only when
the login that brought it is over, hence `Cached` and `Held`: while a login is
granted but not answered, every token cached, held or dropped is older than the
one under way. So `RefusedNotCached` survives a login in flight, and what is sent
again is newer than what was refused (`Refusals`), which is what the refinement
to `TokenUse` needs. `Granted` bounds the age of an answer by `MaxLatency`; with
`MaxLatency <= Margin` a token is never cached beyond its expiry. Assumptions:
`ProvidersAssumption` (the timeout of a login is not longer than the margin, and
Celcoin grants more than the margin; for a shorter one the code still caches the
token for a second) and `NoneAssumption`.

**Ações de hoje** (`TodayQueue_proofs`): `QueueInv` is `TypeOK` with three
conjuncts. `Unread`: a group not yet read is empty. `Tracked`: a task that stayed
on the queue since the request is in a group already read, or in a state that a
group still to be read will find. It is true because of the *order* of the
queries: a task moves from due to put off to completed, never back
(`CommandEffect`), and the answer reads the groups in that order; `NothingMissed`
follows at the last query. `Snapshot`: while nothing was committed under the
answer, what was read is what the query would answer now, from which
`QuietAnswerExact` follows. `GateExplained` needs the types and
`SimulationBlocking \subseteq CreationBlocking`, which the two lists of blocking
categories satisfy. Assumption: `QueueAssumption` (finitely many tasks; two of the
same rank are of the same segment).

**The parts of `PortalRules`** (`PortalRules_proofs`). Each part has a
specification and an inductive invariant of its own:

- *Limiter*: `WindowsHold` bounds the requests *accepted* in any window by
  counting those the array still holds (`Kept`); a call leaves within `ReadTime`
  of its acceptance (`Prompt`), so the calls of a window shorter by `ReadTime`
  were accepted within one window. `LimiterAssumption`.
- *Who sees whom*: the types are inductive and enough. The work is
  `SubtreeIsLeast`: the rounds of `UNION` end, and end in the least set that holds
  the root and is closed under "works for", cycles and deleted users included.
  `PeopleAssumption`.
- *Screens*: `PortfolioInv` says what payments, renegotiations and closings leave
  behind (a payment in course is one of an open instalment; `StatusesKept`: a contract with a status
  of the portfolio was disbursed, one that waits was not, and nothing of a closed one
  is open). The sums of the summary, the cards of the Home and
  the lines of the lists are then compared by splitting a sum over contracts or
  owners (`SumOfPart`, `SumByOwner`), and the months by division
  (`MonthWindow`); that the view has no instalment of an internal company is
  `NothingInternal`. `PortfolioAssumption`, `SizesAssumption`.
- *Executions*: `LastIsAccepted` says the stored row is that of a form both
  validations accepted. `InteractionsAssumption`.
- *Wizard*: `Agree` (columns are what was entered, the mirrored columns those of the
  entries) and `Whole` (nothing entered is of a kind that reading drops).
  `WizardAssumption`, `BranchAssumption` and `SourcesAssumption`, which says of a
  proposal that is copied what a save of Renda ensures.
- *Sessions*: `SessionInv` follows a permission from the registry to the draft:
  `NowHeld` (what the registry says now is `since` now), `TokenBacked`,
  `CallsBacked`, each bounding how long ago what a token or a request carries was
  true, from the reading of the permissions through the signature to the draft, and
  that what a request carries passed the guard. `SessionsAssumption`: an access token does not outlive its refresh token.
- *Visits*: `VisitCurrent` says the answer is the one a check would give now; that
  it is confirmed only near a trusted point follows from the comparisons of
  distance. `VisitAssumption`.

`PortalIsItsParts` shows that a behaviour of `PortalSpec` is one of every part, which
gives the theorems about `PortalSpec`; `PartsInAnyOrder` goes the other way
round the restriction to one part: the conjunction of the seven specifications,
with no restriction on who moves when, implies the same four properties.

*Recursive functions.* The subtree, the sums over instalments and incomes and
other folds are recursive functions. No induction theorem can be instantiated with
an operator here, so each such fact is proved without one: from the least element
of a set of naturals (`NatMin`), or the least part of a finite set, that would be
a counterexample; and, where it must be shown that such a function exists at
all, from a closed form (`RoundsExist`: the ends of chains of managers;
`SumCounts`: the number of tokens of a sum).

**Only model-checked**: the four liveness properties (`RequestsEnd`,
`UploadsAndRemovalsEnd`, `DeferringEnds`, `CallsEnd`), since fairness, hence ENABLED, is beyond the provers
installed here; and the four violated properties. Every invariant and every action
property of the passing runs is the subject of a theorem, and so are both refinements.

## 6. Not modelled

- Formatting, JSON layout, log lines, HTTP status codes. A refused request is a
  step back to idle, or no step.
- Prices, TAC, the conversion of a preview and insurance premiums: inputs of the
  simulations. The age limits of eligibility and insurance are pure rules over
  one date; their outcome is whether a request arrives.
- The confirmation code and the expiry link the client receives, which other
  programs consume.
- Paging, sorting and the wording of lists; the figures of Performance, which come
  from snapshot tables another program fills; products, postal codes,
  municipalities and the geocoder.
- The connection pool: `complete` and `submit` read the configuration on a second
  connection while their transaction holds one. The size and timeouts of the
  pool are the client library's; a transaction that times out is a `Rollback`.
- Several replicas of a token cache or a limiter: each replica has its own, and
  what is shown holds for each of them.

**Assumed of the environment.** The clock of a process does not go back. A login
or the creation of a draft does not outlast `RequestTime`, the reading of the
e-mail credential `ReadTime`. In the contracts' data an instalment is open
exactly while something of it is unpaid and it was not renegotiated, the back office
renegotiates any of the open instalments no payment is in course for and leaves the
others, a contract closes only when nothing is open, CELCOIN is no internal company, and every contract has at least one
instalment. The entries of a proposal a renewal copies were entered through a save of
Renda, there or earlier in a chain of copies. The date from which the gates apply is
part of `blocked` in `Sessions`; `Gates` in `TodayQueue` is `getPermissions` after it.

## 7. What could follow

1. A connection pool under `QuoteTransactions`, once its size and timeouts are
   part of the repository's configuration.
2. The age limits of eligibility and insurance against a calendar, in UTC and in
   the server's time zone.
3. Liveness as theorems, with a prover for ENABLED: `CallsEnd`, `UploadsAndRemovalsEnd` and `RequestsEnd`
   by a measure on `pc` and on the locks held.

## 8. Running

```
tlc -workers 2 -config MCQuoteTransactions.cfg MCQuoteTransactions.tla
tlapm QuoteTransactions_proofs.tla
```
