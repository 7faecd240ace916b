# A verification project for Recall (cppinterview)

Recall is a Next.js application (`web/`) over a Supabase/Postgres database
(`web/supabase/migrations`). This directory models the parts of it whose
correctness is a protocol: the code that decides, under retries, crashes, lost
responses, stale clocks and several tabs, whether money is spent, a budget is
charged, a result is stored or a learner's progress is overwritten.

## 1. Inventory

The server's components have one shape: security-definer SQL functions (RPCs)
that take an advisory transaction lock per account and then read and write a few
rows, and TypeScript handlers that call them over HTTP, any of which may fail
after it has committed. The browser's have another: a document in local storage
that every tab of an account shares, handlers that act on the copy a tab last
rendered, and a sync that carries it to the database and back.

| # | Component | State | Operations | What must hold | Hard behaviour |
|---|---|---|---|---|---|
| 1 | AI budget ledger (`20260730190000`, `20260729120000`) | one row per reservation UUID, daily and monthly aggregates | reserve, mark dispatched, finalize, release, expiry sweep, billing reconciliation | counters equal rows; charge once; the daily limit; late closes account to the day of admission | repeats after lost responses, sweeps of several rows, `now()` older than the lock, midnight |
| 2 | Budgeted provider call (`lib/ai/budget.ts`, `usage.ts`, `billing.ts`) | one call's progress, its RPC attempts | `withAiBudget`: reserve, application marker, budget marker, provider, finalize / release / conservative finalize | no provider call without a durable marker; a call that may have been paid is never free | crash between any two steps, RPCs that land after the caller gave up, ambiguous outcomes |
| 3 | Coach evaluation reservation (`20260730130000`, `20260828110000`, `coach-reservation.server.ts`) | one lease row per idempotency key and per request fingerprint, stored attempts | reserve, mark dispatched, complete, mark outcome unknown, release, attempt deletion | one paid evaluation per request; a terminal answer is stable; a stale holder changes nothing | lease expiry against a live holder, two keys for one request, lost completes |
| 4 | Evaluate route (`api/coach/evaluate/route.ts`, `fallback.ts`) | handler progress | reserve, budgeted call, Gemini fallback, persist, terminalize | the browser sees a paid result or is told the outcome is unknown; nothing is bought twice | the two reservations of 1 and 3 advance in two systems |
| 5 | Coach follow-up (`20260730160000`) and lesson assistant (`20260829130024`) | lease rows found by key or fingerprint | as 3, release without a second chance for what was dispatched | a request is paid once, and what a response said stays true | as 3 |
| 6 | Public AI quota (`20260805100000`, `20260831171239`, `public-ai-admission.server.ts`) | turns, and 24 h windows per account, device and address | reserve, joint marker, complete, outcome unknown, release, status | at most three turns per identity and window; one turn per request; refunds only for undispatched work | window boundaries, several identities per request, leases that expire under a lock wait |
| 7 | Public AI site budget (`20260805110000`, `public-ai-budget.server.ts`) | one row per turn, daily and monthly counters of the whole site | reserve, joint marker, finalize, release, sweep | as 1, site-wide; a turn and its money are dispatched together | as 1, and visitors' sweeps of each other's rows |
| 8 | Mock interview attempts (`20260730100000`, `20260730170000`, `history.server.ts`, `api/mock-interview/report`) | attempts with frozen submissions and reports | reserve, hidden tests, mark, complete, abort, terminate, delete | a session is paid once | leases that end, answers that are lost, deletion while a handler works |
| 9 | Mock interview session (`session-v4.ts`, `mock-interview-app.tsx`) | one session in local storage with a revision | start, answer, run, move, submit, retry, reset, every late answer | no tab undoes another; a session shows its own report | tabs with old copies, answers to former submissions |
| 10 | Practice reviews (`20260902014442`, `20260730220000`, `api/progress/sync`, `lib/practice`) | rows, schedule, history generation; browser copies | rate, sync, reset, manage | no answer is lost or rewritten; a reset is not undone by an old device; the schedule follows the latest day | offline devices, several tabs, answers read before a reset |
| 11 | Repair queue (`repair-queue.ts`) | the day's queue of failed questions, markers in the progress store | rate, enqueue, repair, recover, align, load | a failed question is repaired in the end | two stores, one of which may not be written |
| 12 | Focused sprint (`focus-session.ts`) | the day's plan with its remaining and completed questions | start, rate, reconcile, cancel | a sprint only advances | two tabs, compare-and-set |
| 13 | Coach panel (`practice-app.tsx`, `rescue-retry.ts`) | a draft, its evaluation, chat, deep dive, rescue; saved copies | edit, ask, receive, rate, leave, reload | what is shown belongs to the draft | late replies |
| 14 | Code-execution admission (`20260729100000`, `api/mock-interview/run`) | one row per run | reserve, finish, expiry | one run at a time; a result is that of its code | leases that end under a run |
| 15 | Content generation jobs (`20260726100000`, `20260730210000`, `generate-db-question-drafts.ts`) | a job per source and generator version | enqueue, claim, mark, complete, fail, retry | a source is paid again only if an administrator agrees | dead workers, two versions, rate limits after a mark |
| 16 | Mistake flashcards (`20260730110000`, `20260730140000`, `mistake-cards.server.ts`) | one candidate per mistake | record, claim, mark, complete, fail, terminate, ground, resolve, approve, reject | a card is paid and made once | expired leases, unconfirmed completions, an owner who decides meanwhile |
| 17 | WorldQuant training state (`20260801090000`, `training-state.ts`, `gap-closure.ts`) | attempts, exposures and gaps in local storage and in one cloud row with a revision | drills, exposures, gaps, merge, sync | evidence is not lost | two devices, syncs that overlap writes |
| 18 | WorldQuant mission (`mission-snapshot.ts`) | the day's plan, local and cloud | build, store, sync | the first plan stays | plans whose evidence is outdated |
| 19 | General C++ mock interview (`general-cpp-mock-app.tsx`, `session-v5.ts`, `api/mock-interview/general-report`) | a session and a list of reports in local storage, one turn of 6, one attempt of 8 | start, write, submit, retry, edit again, reset, the report's handler and its late answers | a principal is graded for money once; a report that was shown is kept, and where the page says | reloads and tabs that send one submission twice, a guest's device cookie |
| 20 | Content bank, roadmap progress, mobile usage, rate limit, pages, scripts | - | - | - | not modelled, section 5 |

Not program logic and left aside: the lesson markdown (`cpp*/`,
`dailycppinterview/`, `python/`), `.agents/` skills, generated manifests, React
markup and content YAML.

Interaction: 4, 5, 8 and 16 call their own reservation and, through 2, the ledger
1; guests and ordinary accounts go through 6 and 7 instead. 8 runs its hidden
tests through the rows of 14. 9 is graded by 8 and 13 by 4 and 5; 19 takes a turn
of 6 and 7 and is recorded in 8. (The page `/mock-interview` serves 19; 9 is the
workspace it replaced, and its route is still there.) 10 hands a
failed answer to 11, a completed one to 12, and an evaluated one to 16. A content
sync moves the source under 15 and 16 and the version under 10, 11 and 12. The
components share no table except through foreign keys; they meet in the handler,
which is where one of two commits may be missing.

## 2. How the models are built

- **One RPC, one step.** Each SQL function takes its advisory lock before it
  reads, so a transaction is atomic.
- **Time.** Where the code compares `now()` with more than one instant
  (`AiBudgetLedger`, `BudgetedCall`, `CoachEvaluation`, `PublicAiAdmission`,
  `CodeExecution`), there is a clock whose ticks are lease ends, window ends and
  days, and in the first four an RPC is served with the time its transaction
  began, up to `LockWait` ticks before. Elsewhere a lease may simply end at any
  moment, which is more than any clock allows.
- **Raised exceptions roll back.** An RPC that raises is no step; its caller
  sees a failure, which the models allow at any time.
- **The network.** In 2, 4 and 7 a request sits in `wire` until it is served or
  lost and the answer waits to be read or is lost. In the smaller models one
  action (`Breaks`) is an RPC that ran or did not run and whose answer is lost;
  what the handler does then is its own. A late request is there a handler that
  died with its RPC still to run.
- **Crashes.** A handler, worker or page may end in any place, also while its
  provider works; such a call counts as possibly paid.
- **Tabs.** A write through the storage lock is one step. What a tab does from
  the copy it last rendered is a step of its own, however late; an effect that
  compares first and writes after an `await` is two.
- **Counters over sets.** `Total(S, f, cap)` is the cardinality of a set of
  pairs, not a recursion, so TLC and TLAPS use the same definition.
- **Several instances in one run.** The `MC*` modules choose at the start which
  part of the system runs; the choice never changes and the other parts keep what
  they start with. `Parts` and `PublicInterview` put parts that share no state side
  by side, each with variables of its own, and name their properties: runs check
  and theorems state the same definitions. A variant of a part (more tabs, another
  deployment) is an instance over the same variables, so a property is of all its
  variants. The three instances of `MCCoachInstances` likewise share their tables.
- **Mutants.** Definitions introduced by `Mutant:` are wrong on purpose and used
  by no specification; each breaks one named property.

| Module | Models | Correspondence |
|---|---|---|
| `Totals` | sums of amounts over rows | - |
| `AiBudgetLedger` | 1 | `rows`, `daily`, `monthly` are the tables of one account; `Settle` is what a set of closing rows does to one aggregate; `Reconcile` takes no lock in the code either |
| `AiBudgetExpiryLoop` | the sweep's loop | `CloseOne` is one iteration; `loopRows`, `loopDaily`, `loopMonthly` are the tables as its transaction sees them |
| `BudgetedCall` | 2, over 1 | `pc` is the place in `withAiBudget`, `marked` the application's marker |
| `PaidOnce` | the abstract promise of 3, 4, 5 and 8 | an evaluation, a request or a session is open, sealed, stored or unknown, and bought by at most one payer |
| `CoachEvaluation` | 3 and the administrator path of 4 | a lease token is the handler that holds it; `Migrate` applies `20260828110000` |
| `PublicAiAdmission` | 6, 7 and the public path of 4 | a turn is the HTTP request that created its row; `Mark` writes both ledgers |
| `PracticeReviews` | 10 | `store` is a device's local storage, `page` what an open tab remembers of the cloud, now (`cloud`) and when it was loaded (`first`), `call` a request to the sync route |
| `GeneralInterview` | 19, over 6 and 8 | `tab` are the pages, `request` the fetches with their handlers; of 6 it keeps the state of a turn, of 8 whether the session's attempt is completed |
| `MockReport` | 8 | `request` are the handlers, `batch` the hidden execution of a key |
| `MockSession` | 9, over 8 | `seen` is the session a tab last rendered |
| `RecallRepair` | 11 | `jobs` are writes a tab has still to make |
| `FocusSession` | 12 | `copy` is a tab's session, `writes` compare-and-sets under way; the session's lists are sets, since `focus-session.ts:93-127` stores no question twice and keeps the plan's order |
| `CoachPanel` | 13 | `token` and `gen` are the page's request tokens and generation |
| `CodeExecution` | 14 | one account's running rows |
| `AssistantLease` | 5 | `Fallback` tells the follow-up from the lesson |
| `GenerationJobs` | 15 | a job is a source and a version |
| `MistakeCards` | 16 | one candidate, `paid` the handlers whose call may have been paid |
| `TrainingState` | 17 | `kept` is a ghost |
| `MissionSnapshot` | 18 | a plan is the evidence it was built from |
| `Parts` | 5 and 11 to 18 side by side | their variables, instances and properties |
| `PublicInterview` | 19 beside 6 and 7 | its variables, instance and properties |
| `TotalsProofs` | - | lemmas on sums |
| `AiBudgetProofs` | - | theorems of 1, its sweep loop and 2 |
| `QueueProofs` | - | theorems of 5, 14, 15 and 16 |
| `BrowserProofs` | - | theorems of 11, 12, 13, 17 and 18 |
| `PublicAiAdmissionProofs` | - | theorems of 6, 7 and 19 |
| `CoachEvaluationProofs`, `MockSessionProofs`, `PracticeReviewsProofs` | - | theorems of the module each is named for |
| `MC*` | - | small instances |

Correspondences that are not literal:

- *Ledger*: `month_start` is a function of `usage_date` by a table check and is
  `MonthOf` here. Token counters and model names are left out, as are the
  aggregate-only RPCs that an earlier migration replaced.
- *Coach*: validation, content lookup and the shape of feedback are one bit. A
  row deleted with its attempt goes back to `NoRow`; the ghost `forgiven`
  remembers whose purchase the user thereby discarded.
- *Public admission*: one price per turn, as the route passes a constant; the
  quota row's answers that keep a caller out are one answer, `taken`, because the
  route treats them alike. The ghost `late` marks turns dispatched by a marker
  that began before the lease ended and got the lock after it.
- *Practice*: the FSRS interval, derived counts, archiving and the sizes of one
  sync request are left out.
- *Mock*: the two tries to complete a report and the read-back between them are
  one step, followed by the termination. One code question stands for all, and
  the countdown submits as the learner does. Deleting a report forgives its
  payment. The renewal of a version 1 lease cannot be reached under version 2.
- *Repair queue*: the limit of fifty questions is left out.
- *General interview*: answers, their times and the choice of questions are left
  out, as are a storage that is full, a submission more than four hours after the
  start (its save fails, as a page that is left), reports of the cloud in the
  page's list, and the deletion of an attempt. What the interview needs of a turn
  is its state: windows and budgets refuse as they like.
- *Assistants*: what is free (Gemini) is not billed, though its request, too, may end
  without a certain outcome (`fallback.ts:62`); the budgeted call appears by its
  outcomes, as in 4; guests are those of 6 and 7.
- *Coach panel*: requests for clarification are left out.
- *Training state*: one competency of one role; the caps of the lists (300
  attempts, 100 exposures, 80 gaps), two events in one millisecond, repair cards,
  missions and full rounds are left out.

## 3. Runs

All runs end by themselves. `CHECK_DEADLOCK FALSE` stands where handlers, tabs
and clocks are finite and the system therefore stops; the budgeted calls are
checked for deadlock. Symmetry is used over ids, turns, calls, handlers or tabs
that nothing tells apart, in runs of safety and action properties only.

| Run | Question | Bounds | Distinct states |
|---|---|---|---|
| `ledger` | do counters equal rows, are limits kept; is the sweep's loop one `Settle` | 3 ids, 2 rows a day, two days of 2 ticks across a month end, amounts 1 and 2, a charge above every hold, `now()` up to 1 tick stale; the loop from any three rows and aggregates that contradict them | 286 421 |
| `call` | markers before money, no refund of money, everything charged in the end, two calls within a limit; a paid evaluation ends terminal | 1 call with 2 attempts per RPC; 2 calls of 2 against a limit of 3; 1 evaluation through a rollout | 318 971 |
| `coach` | is an evaluation paid once, is what is shown what is stored, is `PaidOnce` implemented | two tabs with a stale clock; attempts of other instances; two texts under one key with deletion | 1 319 266 |
| `admission` | is what may be billed consumed and charged; windows, budgets, one turn per request; is an interview graded once, its report kept | 2 turns, 3 requests over 2 devices and 1 address, limit 1, window of 1 tick, a midnight, price 2, bill 3; four instances of the interview, in `MCPublicAiAdmission` | 1 157 988 |
| `admission_retry` | violation, finding 1 | 2 turns of one device | - |
| `practice` | is no answer lost or rewritten, is a reset kept, does the schedule follow the latest day | 2 tabs on 1 or 2 devices, 2 requests under way, 2 changes of day, content or history, 4 pages and requests | 810 875 |
| `practice_marker` | violation, finding 2 | 2 tabs of one device | - |
| `mock` | is a session paid once, does it show its report, does no tab undo another | two tabs that submit, one that submits under 3 keys, two that write and run | 1 962 595 |
| `mock_recover` | violation, finding 3 | 2 tabs, 2 handlers | - |
| `queues` | do components 5 and 11 to 18 keep what they promise | fifteen instances, in `MCQueues` | 1 776 428 |
| `training_kept` | violation, finding 4 | 1 tab, 3 events | - |
| `mission_settles` | violation, finding 5 | 2 devices, 2 attempts | - |

Why the bounds are enough to meet the hard cases:

- *ledger*: with three ids and two rows a day the row cap, the limit and a third
  row on the next day are all met; leases of one and two ticks let rows of one day
  expire on the next, in the next month; a charge of 3 passes the limit.
- *call*: `LastStart` 1, `LastServe` 4 and `MaxTime` 6 leave time for the last
  request to be served and for its lease to end before the clock stops, so the
  liveness properties are not decided by the bound.
- *coach*: two handlers are what a takeover takes; with `MaxTime` 2 and leases of
  one tick a lease expires, is taken over and the second one expires too.
- *admission*: with a limit of 1 the second turn is the one too many, in the same
  window or just after its reset; a reservation expires before, while and after
  it is marked, and a hold is swept by another visitor before or after its
  finalization. The interview has two tabs throughout: one submission under a
  second key; two fetches of one submission; a guest that gets two devices; two
  interviews of which one tab shows the older. Five reports are never reached, so
  in the run the history's limit does not decide `ShownIsKept`; the theorem
  `ShownReportsAreKept` covers a history of any length, full ones included.
- *practice*: two answers of two days, offline on two devices, with an edit or a
  reset between any two steps, and requests that overlap. A page that runs its
  initial sync three times runs it beside one under way, after one that succeeded
  and after an answer that the page was not loaded with.
- *mock*: two handlers are a first submission and its retry; three keys are a
  takeover of a takeover.
- *queues*: three assistants' handlers are a holder, the one that takes over and
  the one that finds the result; two generator versions are a sibling; two
  attempts of a job and a retry reach every end of a job twice; a candidate of
  two tries fails, is claimed again and dies; three ticks of the training clock
  are a practice, an exposure and an attempt, and with a retest after two a
  repeated exposure too.

What the runs of properties that pass show, beyond single functions:

- `ReservedMatchesRunningRows`, `ChargesMatchFinalizedRows`,
  `SiteCountersMatchRows`: counters updated on the day of *admission* survive late
  closes, repeats and sweeps of several rows.
- `CommittedWithinDailyLimit`, `SiteWithinLimit` (the half of `LimitsHold` about
  money), `ProviderSpendsWithinLimit`: only an answer dearer than its reservation
  can exceed a limit of money.
- `WindowWithinLimit` (its other half): turns that are only reserved keep their place
  in every window they share. It does not speak of a turn whose marker committed
  after its lease (`late`): the code lets such a turn exceed its window.
- `ProviderNeedsBothMarkers`, `MaybePaidIsNeverReleased`, `PaidIsConsumed`: no
  release, delayed or not, refunds a call that may be billed.
- `OnePaidEvaluation`, `OneTurnPerRequest`, `GradedOnce`, `OnePaidReport`,
  `OnePaidAnswer`, `CardPaidOnce`, `PaidTwiceIsAgreed`: nothing is bought twice
  behind its owner's back, in any of the seven places that buy.
- `KeepsWhatItSaid`, `LiveLeaseIsKept`, `ShownIsGraded`, `SavedIsThere`,
  `ShownIsRecorded`, `ShownIsOfDraft`: answers are stable, belong to what they
  answer, and stale handlers change nothing.
- `RowsOfOneGeneration`, `ScheduleFollowsLatest`, `NoAnswerLost`,
  `DailyAnswerIsFinal`, `NoAnswerReverted`, `ShownIsKept`, `SprintOnlyAdvances`,
  `FailedIsRepaired`, `SavedStays`, `CloudKeeps`: a learner's work survives
  several tabs and devices.
- `KeepsPromise`: reservations and handlers of an evaluation implement `PaidOnce`,
  in all three instances, deletions and reused keys included.

### Fairness

`call` assumes that time passes (`Time`, `Tick`), that the account comes back
(`Visit(clock)`, `AskAgain(clock)`) and that the migration is applied. Nothing in
the code runs a sweep or terminalizes an expired lease on its own: both happen
inside the next RPC of the same account. No fairness is assumed of handlers,
which may die anywhere, of the network or of the provider. `mission_settles`
assumes that an open page renders and that a request is served: a browser does
both without the learner. The other runs state no liveness.

### Findings

1. `admission_retry`: a provider error that is known not to have started is
   described as "safe to retry with the same immutable request and idempotency
   key", but by then the joint marker is set, the release answers
   `transition_invalid`, and the same request is refused as in progress for good.
2. `practice_marker`: a sync answer read before a reset drops the marked review
   that another tab has made since, although the documentation says an older
   concurrent answer cannot clear the marker.
3. `mock_recover`: the late refusal of one handler takes the key from a session
   whose retry under that key has since been paid for and stored; the report can
   no longer be recovered.
4. `training_kept`: what a sync stores was merged from the document it read before
   it waited for the cloud; an attempt recorded meanwhile is lost on the device,
   and the sync it had asked for reads the overwritten document.
5. `mission_settles`: once the evidence has changed, an open page and its sync
   replace the stored plan by turns, for ever.

### Gaps met on the way

Cases that the models show or leave out and that no document promises otherwise:

- *Public quota*, from stale `now()`, left out of `LimitsHold` by the ghost `late`
  or by the window's own definition: an expired lease no longer counts for others
  while its older marker can still dispatch it, which is one turn too many in a
  window longer than a lease (`Window = 2` in `PublicAiAdmission.cfg` shows it as
  soon as `late` is not subtracted); and a reserve that waited while another
  opened the window writes a `created_at` before the window's start, so
  its row is never counted. Both need a transaction that waits for its lock:
  `PromptMarkersKeepEveryLimit` is about all others. The project's README speaks of
  a *rolling* day; windows are reset whole.
- *Mock interview*: a guest whose browser has no device cookie yet is given one
  with the first answer. When that answer is lost, the retry of the same submission
  under the same key is another device's: it is admitted, graded and paid again,
  up to the limit of the address. `GradedOnce` therefore speaks of a principal.
- *Coach*: a request of the previous application that is served after migration
  `20260828110000` opens a new lease beside the localized terminal row.
- *Practice*: an older sync answer drops an answer not yet sent after a reset or
  an edit, which is why `NoAnswerLost` speaks of generation 0 and version 1. So
  does the initial sync of a page: it runs again on every return of the network
  (`practice-app.tsx:961-971`), always from the state the page was loaded with. If
  the history was reset since, it filters the storage by the former generation,
  and an answer given offline in the new one is dropped without having been sent,
  even if the page has learnt of the reset from a sync in between. The
  first management of a schedule mints a generation, so another device's offline
  first review is discarded, although `20260730220000:163` says only a reset
  rotates it.
- *Repair queue*: a tab with an older manifest drops the items of the newer one
  (as `DEVELOPMENT.md` says); a delayed recovery queues a repaired question again;
  a failing rating adopted from the cloud carries no marker until it is aligned.
- *Sprint*: the reconciling effect may run between a review's record and the
  sprint's write and drop the question just rated, so its completion is not
  counted and the notice blames another tab.
- *Coach panel*: a follow-up's reply that is late for an edited draft leaves the
  loading flag set.
- *Generation jobs*: a job closed for a stale source is not opened again when the
  lesson reverts; under a new generator version it is, and is paid again.
- *Mistake cards*: a second observation rewrites the evidence of a candidate that
  is generating; a stale "use the existing question" unlinks a generated card and
  leaves its draft queued; an approval validated before a dismissal marks an
  archived card approved.
- *Training state*: two devices without a connection both open a checkpoint as
  unseen.

## 4. Proofs

For every value of the constants that satisfies the named assumptions TLAPS
checks these theorems; where a run names the formula, TLC checks it on that
instance too.

**Ledger** (`AiBudgetProofs`, from `LedgerAssumption`: finitely many ids,
amounts at least 1 and bounded, charges bounded by the same cap, calendars that
are total functions). The properties are not inductive one by one: that a close
frees exactly the hold needs the counter to contain it, and that the limit
holds after a close needs the charge and the hold of the same row to be on the
same day. `LedgerInv` therefore says of every day (`SoundDay`) and month
(`SoundMonth`) that reserved, actual, count and floor are what the rows give,
that the day's commitment is within the limit and its rows within the cap, and
of every row that a charge was dispatched. The steps go through three
movements of rows: *closing* (`CloseSound`: a set of running rows becomes
terminal, `Settle` moves exactly their sums), *marking* (`DispatchSound`) and
*inserting* (`AdmitSound`); every RPC is a composition of them
(`SweepSound` first). Theorems: `LedgerTypes`, `ReservedIsExact`,
`ChargesAreExact`, `DailyLimitHolds`, `RowCapHolds`, `WebQuotaIsolated`,
`ChargeNeedsDispatch`, and the action properties `TerminalIsFinal` and
`FloorKeepsCharges`: a step of a month's aggregate, whatever total the provider
reports, absorbs its charges in the floor (`Absorbs`), and two settlements in one
transaction absorb as one (`AbsorbsTwice`).

**Sweep loop** (`AiBudgetProofs`, from `LoopAssumption`: the rows and aggregates it
starts from are ones that the table's checks admit). The ledger's sweep is one
`Settle` of all expired rows; the code closes them one by one and recomputes the
aggregate each time. `LoopInv` says that at any moment the aggregates are what
`Settle` makes of those the loop found with the rows closed so far; a further
iteration is a `Settle` of one row (`RewriteIsSettle`), and two settlements one
after the other are one of the union (`SettleTwice`). Theorem: `LoopIsSettle`,
from any rows and aggregates, inconsistent ones included, so that the
ledger's proofs do not rest on a sweep that was assumed.

**Sums** (`TotalsProofs`): `Total` is a natural number, additive over disjoint
sets, congruent and monotone; no induction is needed because it is a
cardinality.

**Budgeted call** (`AiBudgetProofs`, from `CallAssumption` in addition).
`MaybePaidIsNeverReleased` alone is not inductive: a release of the same call
might be under way. `CallInv` adds to `LedgerInv` and typing, for each call,
`CallSafe`: where the process stands, whether it or a request in `wire` may
still release, what the provider knows and whether the row is secure belong
together. `ProviderSpendsWithinLimit` is about a sum over calls where the ledger
bounds sums over rows; `SpendSafe` ties them, call by call: a row asks for what
its call asked, a finalization is under way only once the cost is reported, and a
row is charged its reservation or that cost, which no step changes afterwards.
What may have been paid on a day is then at most what the ledger holds for it plus
the covered part of its charges, which `SoundDay` keeps within the limit.
Theorems: `CallTypes`, `BothMarkersFirst`, `NeverReleasesPaid`, `RetryIsSafe`,
`PaidStaysWithinLimit`, with no bound on calls, attempts, days, clock or lock wait.

**Assistant leases** (`QueueProofs`, from `WordsAssumption`: an answer is
told apart from a word). `OnePaidAnswer` is not inductive: that two calls are of
one request must be excluded when they are marked. `LeaseInv` adds that a request
has one row (`OneRow`), that a lease is held by the handler that asked for it
(`Held`), that the row of a sent call is marked and its handler's while it runs
(`Secure`), and that a handler past its call neither marks nor releases
(`HandlersOK`). For what responses say, `SaidInv` adds that only a handler that
is done has said anything; the argument is that no RPC changes a row that has
ended (`EndedStay`). Theorems: `LeaseTypes`, `PaidAnswerIsOne`,
`ResponsesStayTrue`, for the follow-up and the lesson alike. The reservations also
implement `PaidOnce` (`LeasesImplementPaidOnce`), which no run checks: an RPC
changes the verdict of one request at most, and only as `PaidOnce` allows
(`Advances`, `GoesFrom`), since one row is a request's; a release finds a row that
was not marked or a handler that did not call; and a call is of a request that is
sealed or ended and that nobody has bought (`CallIsPromised`).

**Coach evaluation** (`CoachEvaluationProofs`, from `CoachAssumption`: the identity
of a fingerprint is a function, injective on the localized ones, each being the
digest of its identity, locale included, and lease and clocks are natural). All
its theorems have the hypothesis
`Localized`: the migration is there from the start and browsers send localized
fingerprints. Without it they are false, as section 3 says of a request of the
previous application; such a handler in flight at the start is within the
theorems, and what it asked for is part of every conclusion. `CoachInv` says that
an identity has one row and an attempt answers one (`RowsInv`); that a token is
of the request that took the lease, that a message is its handler's, and that a
release is on its way only from a handler that owes nothing (`HandlersInv`); and
that a handler which has heard that its lease is marked finds the row of its
request marked and its own, or ended, and is the only one of its identity
(`EntitledIsSealed`, `OneEntitled`): this is what makes `OnePaidEvaluation`
inductive, since whether the provider was called can be known by a dead handler
only. `HeardIsStored` and `ShownIsStored` carry an answer from the row to the
response. Theorems: `CoachTypes`, `EvaluationPaidOnce`, `AnswersStayTrue`, the
action property `LiveLeaseIsHolders`, and the refinement: the initial states are
`PaidOnce`'s, and every step of the RPCs, the handlers, the network, the other
instance, the deletion and the clock is a step of `PaidOnce` under `Promise`'s
mapping or changes none of its variables (`CoachImplementsPaidOnce`, and
`CoachImplementsSpec` in the words of `Promise!Spec`).

**Public admission** (`PublicAiAdmissionProofs`, from `AdmissionAssumption`:
finitely many turns, a principal among its own subjects, a price of at least 1, a
window that is not empty). Of the four properties none is inductive.
`AdmissionInv` adds where a turn stands between its handler, its messages and its
two rows (`TurnsInStep`: one that may call the provider is *sealed*, its turn
consumed and its money dispatched); that a principal's live rows differ in key
and fingerprint (`LiveRowsDiffer`), from which `OneTurnPerRequest` follows because
a paid turn is live; which rows hold a place in a window although they are only
reserved (`PlacesWithinLimit`), since admission counts those, and that no row was
created after its windows (`RowsInWindows`), so that a new window starts empty;
and that the site's counters are the sums of their rows with what they commit
within the limit (`Books`), along the ledger's closing, marking and inserting.
Theorems: `AdmissionTypes`, `PaidStaysConsumed`, `RequestPaidOnce`,
`SiteCountersExact`, `LimitsHoldButForLateMarkers`, and, from `LockWait = 0`,
`PromptMarkersKeepEveryLimit`. The budget's half of `LimitsHold` has no exception;
the window's half leaves out the turns of `late`, where the code does exceed the
limit. The second theorem says that nothing else does: where no transaction waits
for its lock a marker reads the clock, so `late` stays empty (`PromptMarkers`) and
every dispatched turn of a window is within the limit.

**Mock interview** (`MockSessionProofs`, from `ReportAssumption`: finitely many
keys). `ServerInv` is about `MockReport`: a session has one row, ended rows have
no holder and keep the report of their own answers; a handler that asks the
provider holds its dispatched row or has lost it to a sweep, alone, and nobody
has paid for the session (`AskingHoldsRow`, `AskingIsUnpaid`); a session that was
paid for keeps a dispatched row which nobody at work can give back
(`PaidHasRow`). `BrowserInv` is about the tabs: what a tab has rendered is behind
the storage or is the storage (`SeenIsBehind`), so a compare-and-set that
succeeds writes on the present session; a session that is evaluated froze its own
answers under its own key (`StoreSound`); and a submission under the storage's
session and key is of the storage's answers (`SubmittedAsStored`). Theorems:
`MockTypes`, `SessionPaidOnce`, `ShownGradesItsAnswers`, `AnswersAreNotReverted`.
The attempts implement `PaidOnce` too (`ReportsImplementPaidOnce`, checked by no
run), with sessions for evaluations and payments for payers: a session stands as
its one row does (`RowStands`), a lease is given back only where `PaidHasRow` says
that nobody paid (`GivenBackIsUnpaid`), and a deleted report is forgotten with its
payment. The invariant needed one part more, that a handler which has paid finds
its row, if it is still there, marked (`PaidRowIsMarked`), or a failure could end
a session that was never sealed. The proof also corrected the promise: a sweep may
end the leases of several sessions in one step, so `GiveUp` takes a set.

**Practice reviews** (`PracticeReviewsProofs`, from `PracticeAssumption`: a tab is
on a device). `PracticeInv` adds that no day has two rows, that a question without
a schedule has none, that no copy of a review, on whatever device or in whatever
request, is of a day, version or generation still to come (part of the types),
and that until the first edit or reset no request has anything to discard. That
suffices however old the copy is from which a page syncs, and however many such
syncs are under way: none takes a day away that a storage has.
Theorems: `PracticeTypes`, `ResetIsNotUndone`, `ScheduleIsOfLatest`,
`AnswersAreKept`, and the action property `FirstAnswerIsFinal`.

**Sample runs** (`QueueProofs`, from `RunAssumption`: a handler does not outlive
its lease, as `api/mock-interview/run/route.ts:50` ends it first). Whether a row
runs depends on the clock, so
the invariant keeps the time: a handler that has not answered is younger than
`Duration` (`Arrived`), and one that executes has a running row whose lease ends
no sooner than `Lease` after it arrived (`RowOfHandler`). A sweep then never fails
the row under a handler at work, nor is a second one admitted (`OneHolder`).
Theorems: `RunsOneAtATime`, `RunsShowTheRecord`.

**Generation jobs** (`QueueProofs`, from `JobsAssumption`: finitely many workers).
`PaidTwiceIsAgreed` is a count. The invariant counts, beside the calls made, the
workers that may still make one (`Payers`): together they are at most what was
agreed to, and one more where a call is owed (`Balanced`). A worker begins to
count when it marks a job, which no source that is owed a call allows
(`UnsentIsUnowed`, `QueuedIsUnsent`), and the versions of a source do not run side
by side (`OneRunning`). Theorem: `JobsArePaidOnce`.

**Mistake cards** (`QueueProofs`). Whoever calls a provider holds the row's lease
with its mark, or the row has ended; neither from an ended row nor from a marked
lease does a claim begin again (`CardSafe`). Theorem: `CardsArePaidOnce`, for any
number of handlers, tries and revisions.

**Repair queue** (`BrowserProofs`, from `RepairAssumption`: a rating from elsewhere
is one of the ratings or none). Each write between marker and queue was made from what another
tab may have changed since. The invariant says what a write still to come may
count on (`JobFits`): what takes a marker away finds the question in the queue,
and a sync that takes a question out of the queue has taken it off the failed
ones. An item nobody has repaired is due within the distance of its rating
(`DueSoon`), or a change of rating could put it off too far. Theorem:
`FailedStaysInRepair`.

**Sprint** (`BrowserProofs`, from `SprintAssumption`: the plan is a sequence of
questions). A write takes effect on the session it was made from or not at all, so
`SprintSafe` is about the writes still to come: what is about to be stored moves
on from the session that was read (`MovesOn`). Theorem: the action property
`TheSprintAdvances`.

**Training state** (`BrowserProofs`, from `TrainingAssumption`: a tab is on a
device). A sync writes twice what it read a while ago; its document still has what
the device kept (`SyncHasKept`), and while the revision it read is the cloud's, all
that the cloud has (`PutHasCloud`). Theorems: `DevicesKeepWhatTheySaved`, which is
of attempts saved while no tab of their device was syncing (finding 4 shows what
happens to the others), and, of the evidence, the action property
`CloudKeepsWhatItTook`.

**Missions** (`BrowserProofs`): the cloud keeps the first plan, and what a device is
told was saved is that. Theorem: the action property `TheFirstPlanStays`, and with
the evidence `CloudKeepsWhatItTook`.

**Coach panel** (`BrowserProofs`, from `PanelAssumption`: a draft may be blank).
Answers come in any order; one that would still be taken is about what its card
shows (`RequestMatches`), because whatever changes a draft takes the token of its
evaluation away and begins another generation of chats and deep dives. Theorem:
`WordsAreOfTheirDraft`.

**General interview** (`PublicAiAdmissionProofs`, from `InterviewAssumption`: the states of a
turn are told apart, the history holds at least one report). A fetch that asks the
provider is alone with its turn, still unpaid (`AsksOnce`), a turn that was paid
for is never free again (`PaidIsOver`), and an answer on its way back that says its
report was saved is of one in the cloud (`AnswerIsThere`). For the local history,
`HistorySafe` adds that it names a session once and never shrinks once it is full,
since a tab's report is compared with a list that other tabs have changed.
Theorems: `SubmissionsAreGradedOnce`, `SavedReportsAreThere`,
`ShownReportsAreKept`.

What the proofs showed about the models: a lost case distinction in `CASE` with
arms that overlap leaves the result open for the prover, where TLC takes the
first; the arms of the models are therefore exclusive, as the code's `if`s in
order are. The proof of the coach's promise asked for two facts that the small
instances had by accident and the code has by construction: that localized
fingerprints differ where the evaluations do, and that browsers send something.
Two definitions were put into words the provers know, with the same behaviours in
every run: the interview's filtered history is given by its ranks (`Others`)
instead of `SelectSeq`, and the sprint's lists are sets of the plan's questions.

Every safety invariant and action property that a passing run checks is thus stated
by a theorem. Only model-checked:

- every liveness property (`BilledIsCharged`, `EveryHoldEnds`, `PaidIsSettled`, and
  what the other runs under fairness refute), which the prover does not handle;
- what happens to the coach's evaluation during a rollout, as its theorems have the
  hypothesis `Localized`; of the runs only `call` goes through a migration.

## 5. Not modelled

The `note` of each component in `PROJECT.json` says why. The content bank has one
administrator and syncs that one lock serialises; what it changes under other
parts is an action of theirs. Roadmap progress, mobile usage and the password
capability are single-row upserts under row policies, the rate limit a counter of
one process. Pages are markup and forms apart from the handlers modelled above,
and most of the source's lines are that, the text of lessons and prompts, or pure
functions of one input (readiness scores, curricula, scheduling intervals, tick
replay), which unit tests reach. Also left out: the grants and row policies of the
tables, validation of inputs, lists that are shown before the server has confirmed
them (roadmap nodes, the administrator's dashboard), the page that talks to the
lesson assistant (one request at a time, the same key for its retry), timed full
rounds of the drills, prompt construction and feedback parsing, the purge
of the public quota (no code of the repository calls it) and the counters shown
to browsers. In the models: one account, since neither lock nor row is shared
between accounts except the site budget; no clock that runs backwards; no row
edited by hand.

## 6. Plan

Done, in this order: sums, ledger, sweep loop, ledger proofs, budgeted call and
its proofs, abstract promise, coach evaluation, public admission, practice
reviews, mock reports and sessions, the public interview, repair queue, sprint,
sample runs, assistant leases, coach panel, generation jobs, mistake cards,
training state, missions; then the proofs of the assistants' responses, the public
admission, the mock interview, the practice reviews and the coach evaluation with
its refinement; then those of the sweep loop, the sample runs, the jobs, the cards,
the repair queue, the sprint, the training state, the missions, the coach panel and
the public interview; then `PaidOnce` for the assistants and the mock interview. The
mistake cards do not implement it: a draft that was paid for is taken back when its
owner rejects it, and the candidate opens again when its source was replaced.

Next, most important first:

1. The merge of training states as an operator of its own: commutative,
   associative and idempotent where no list is full.
2. The content bank's rejection and the question it must not bring back, with a
   sync that started before.
