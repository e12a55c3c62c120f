# A TLA+ model of the EUDR traceability service

This directory specifies the service in `src/eudr`: a FastAPI application and a Celery worker
over one PostgreSQL database, which trace lots of coffee, rubber and wood back to plots of
land and file Due Diligence Statements (DDS) with the EU system TRACES NT. The modules are
translated from the code, model-checked with TLC on small instances, and in part proved with
TLAPS for all values of their constants. Paths below are relative to the repository.

Contents: [the system](#the-system) · [how the code is abstracted](#how-the-code-is-abstracted) ·
[modules](#modules) · [runs](#runs) · [fairness](#fairness) · [proofs](#proofs) ·
[disagreements](#where-the-code-and-its-own-words-disagree) · [not modelled](#what-is-not-modelled) ·
[plan](#plan)

## The system

Two kinds of process share the database: API workers, which run one transaction per request
(`db.get_session` commits when the handler returns and rolls back when it raises), and Celery
workers, which open a session of their own for each task. No query takes a row lock, nothing
raises the isolation level above READ COMMITTED, and there is no version column. What two
transactions may do to each other is therefore decided by the order of their reads and
commits alone; that order is what these modules explore.

| Component | State it keeps | Operations | What makes it correct |
|---|---|---|---|
| DDS submission (`api/routes/dds.py`, `workers/`, `services/traces_nt.py`) | status, reference number and rejection reason of each statement; the broker's queue; running tasks; TRACES NT's register | `create_dds`, `submit_dds`, the task `submit_dds_task` with two retry layers | a recorded number is one TRACES NT gave to this statement; retries are bounded and end; a verdict is kept; nothing registered is lost unless an answer was |
| Lots and harvests (`api/routes/lots.py`, `harvests.py`) | harvested quantities, lots and their compositions, a status per lot | `create_harvest`, `create_lot`, `seal_lot` | lots never hold more than was harvested; the columns of a lot agree; a lot's status never runs ahead of the evidence |
| Chain of custody (`services/chain_of_custody.py`) | hash-linked events per lot, the lot's current holder | `record_event`, `verify_chain` | an untouched chain verifies if and only if it was recorded in order; what an auditor has verified cannot be changed under the hash noted; the holder follows the events |
| Plots and checks (`api/routes/plots.py`, `services/deforestation.py`) | the `cutoff_compliant` flag of each plot, its dated checks | `create_plot`, `run_deforestation_check`, the weekly `recheck_all_plots` | the flag says what the evidence says |
| DDS builder (`services/dds_builder.py`) | nothing of its own; reads flags and checks, writes the statement and the lot's status | `build_payload`, `build_risk_assessment`, `create_dds` | no statement about a failing plot; no unmitigated risk; negligible means compliant |
| Geometry (`services/geo.py`) | none | validation, area, the 4 ha rule | no holding above 4 ha is a point; the rules agree with the database's constraints; an area is stored as it was registered |
| Authentication (`security.py`, `deps.py`, `api/routes/auth.py`) | users; tokens are stateless | `login`, `refresh`, the dependencies of every route | a right that was withdrawn is not used for long; a token says what was true of its user; it lives as long as the client is told |
| Organizations, audit log, shell, migration, seed script | see [not modelled](#what-is-not-modelled) | | |

Interactions: the builder reads what plots and checks commit; `create_dds`, `seal_lot` and the
submission task all write a lot's status; `submit_dds` hands over to the worker through the
broker only; the worker and TRACES NT exchange a token request and one POST per attempt;
custody events move a lot's holder, and nothing else of the lot.

Hard behaviours, each at its line in `PROJECT.json` under `hazards`: a worker's transaction
that stays open during minutes of retries and then writes from the row it loaded; two nested
retry layers with different ideas of what is transient; at-least-once delivery with late
acknowledgement; answers lost after TRACES NT stored the statement; read-compare-insert
without a lock (quantities, hash links, flags); SQLAlchemy leaving out of the UPDATE any
column whose new value equals the one loaded; events ordered by a time the client chooses;
quantities rounded by the database after they were compared; rights that are read from a token
issued from a row that has changed since, and refreshed for ever.

## How the code is abstracted

* **Transactions.** A read step stores what the code loaded in a request, job or build record;
  a commit step uses the record, not the table. A rollback removes the record. Steps of other
  transactions come in between wherever the code runs a further statement or awaits something.
* **Unit of work.** `Flushed(current, loaded, new)` in `DdsSubmission`, and the same condition
  in `CustodyChain.CommitEvent` and `PlotGate.Flagged`: assigning the value that was loaded
  changes nothing, even if the row has changed since.
* **Data.** Documents, locations and payloads are one model value; sha256 is taken to be injective, so
  a hash is the pair of what it covers; TRACES NT's numbers are model values, never handed out
  twice. How a client writes an instant and a payload is kept (`Styles`), because the hash
  covers the text: PostgreSQL gives an instant back in UTC, and JSONB rewrites some numbers
  (1e16 comes back as an integer, -0.0 without its sign).
* **Numbers.** What a check finds is, in `PlotGate`, one of four classes, by whether it fails the
  plot (0.05 ha) and whether it scores a risk (0.01), with no relation between the two assumed.
  How the numbers come about is `PlotEvidence`: integers, with a float as a multiple of a unit
  finer than the column's (`Fine`), a column as the rounded quotient, and ratios kept as the
  code has them. With the units of the code as it is only the class "none" occurs (see
  [disagreements](#where-the-code-and-its-own-words-disagree)); `PlotGate` keeps all four, and so
  holds for those units and for the intended ones.
* **Time.** Only `AccessTokens` has a clock, in ticks, several to a second: the claims of a token
  are whole seconds and what they are compared with is not. A request stays at most `MaxHold`
  ticks between two of its steps.
* **Outside the repository** (marked `external` in `PROJECT.json`): Celery's broker and retry
  (a message carries its task id and retry count; redelivery is possible while a job runs),
  TRACES NT (stores, refuses, fails, or stores and loses the answer, and gives each statement
  the next unused number), the raster (may show anything at any time), the clock, and rows
  changed behind the service: custody events, and users, whom no route changes.

## Modules

**`DdsSubmission`**: `dds` (the statement rows), `lot` (the status column), `requests` (open API
transactions), `tasks`, `queue`, `jobs`, `results` (Celery), `filed` (TRACES NT's register).
`SealLotRead/Commit` is `seal_lot`; `CreateDdsRead/Commit` is `create_dds`; `SubmitDds` is the
endpoint, which enqueues and leaves the row as it is; `AbortRequest` any rollback. `Deliver` and
`LoadFails` start `_submit`; `GetToken`, `TokenRefused`, `TokenFails` are `_token`;
`PostAccepted`, `PostRefused`, `PostFails`, `PostAnswerLost`, `PostGarbled` the answers to
`submit`'s POST; `AttemptFails` is tenacity (`stop_after_attempt`) around Celery's
`autoretry_for`; `RecordSubmitted`, `RecordRejected`, `CommitFails` end the transaction and
`Acknowledge` the task; `WorkerLost` and `DeliverAgain` are `task_reject_on_worker_lost`,
`task_acks_late` and a broker that redelivers.

**`DdsLifecycle`**: the abstract specification, what an exporter may rely on: a statement is
built, registered at most once and given one final verdict that agrees with the register, unless
a second submit call contests it, after which nothing is promised of it. `DdsSubmission`
implements it under `CalmWeather` (no lost answer, no disruption), for any number of calls, by the
refinement mapping `stage` = status or "contested", `number` = reference number, `register` =
`filed`, the last two without contested statements.

**`LotLedger`**: `harvests`, `lots` (a sequence of rows, in the order of their commits, each with
its compositions), `requests`. `Drawn` is the allocation query, a sum over those rows.
`CreateHarvest`, `CreateLotRead` (the comparisons of `create_lot`, in fine units),
`CreateLotCommit` (rounding to Numeric(14,3), constraints, inserts), `AbortLot`. Nothing in the
shape of `lots` keeps a code from occurring twice: the unique constraint does (`CodeFree`).
`Rounded` is PostgreSQL's rounding, half away from zero, of nonnegative numbers.

**`LotStock`**: the abstract specification, what an auditor may rely on: harvests are stocks, and a lot
is created whole, in one step and once, from registered harvests whose stock holds what it takes.
`LotLedger` implements it (`FollowsStock`) with a credit: a stock is as many times the harvest as there
are sessions, as each of them may have read it as available. Open requests, rollbacks and
rounding are hidden; what is left of a harvest maps to its credit less what lots drew.

**`CustodyChain`**: `events`, `holder`, `requests`, `clock` (the database's `now()` at the start of
a transaction, from which `created_at` is taken), `audited` (the rows an auditor noted when they
last had the lot verified), and three variables that only record: `changes` (how often rows of a
lot were changed by hand), `written` (the rows as inserted) and `seen` (the rows each was linked
among). `Begin`, `LoadLot`, `Link`, `CommitEvent`, `AbortEvent` are the steps of `record_event`;
`Verify` is `verify_chain`, `Audit` a call of it that says yes. `Put` and `Erase` are what may be done
to the table behind the service: a row is put in, in place of another or beside it, with any
fields, linked to anything, with any hash the table has held or the very one `verify_chain` will
compute, as sha256 takes no key; or a row is removed.

**`PlotGate`**: `flag`, `checks`, `clock` (`checked_at`), `jobs` (transactions that check one plot or
all), `builds` (open `create_dds` transactions) and `statements` (what each was built from).
`StartCheck`/`StartRecheck`, `CheckPlot` per plot, `CommitChecks`; `StartDds`, `ReadCheck` per turn of
`build_payload`'s loop, `CommitDds`; the two aborts.

**`PlotOvertaking`** extends `PlotGate` with three history variables: which checks met another of
their plot (`met`), which plots' last check had (`unsettled`), and which builds a check of their
plots overtook (`overtaken`). It states what the gate promises of everything else. That the variables
only watch is by the form of `Watch`, and no theorem: it gives each of them one next value as a
function of the step, so it holds no step of `PlotGate` back, and no step of `PlotGate` reads them.

**`PlotEvidence`**: `plots` (rows, with the area they were registered for), `lost` (pixels of loss),
`checks`, `flag`. `CreatePlot` is `create_plot` with `validate_for_eudr` (`Holding`) before and the
constraints of the table (`Admissible`) after the rounding; `CheckPlot` is
`run_deforestation_check` with `_compute_real_overlap` (`Counted`, `PerUnit`), the score (`Size`,
`Risk`) and the verdict, `CheckFails` the same for a polygon that covers no pixel's centre, where the
sum over the mask is no number and `int()` raises. One step each: the interleavings are `PlotGate`'s.
An area of NaN, which coordinates out of range project to, passes `area <= 0` and the table's
constraints, but no answer can be rendered with it (Starlette's `JSONResponse` refuses NaN), and
FastAPI 0.115 renders the answer while `get_session` is still open: the request is rolled back.

**`AccessTokens`**: `users` (role, organization, enabled), `clock`, `tokens` (all ever issued),
`requests`, and the history `past` of what users were. `Login`, `StartRefresh`, `LoadUser` and
`IssuePair` are `login` and `refresh`; `Admit` is `_principal_from_header` with `require_role`; `LookUp`
is `get_current_user` with `create_plot`'s own rule (`OwnOrg`); `End` any answer. `RolesAllowed` and
`LooksUp` are the dependencies the routes declare.

**`MC…`** modules extend these for TLC with symmetry sets. **`…_proofs`** modules hold theorems.
**`SetInduction`** holds what several proofs need of minima (`ORDER BY … LIMIT 1`), of induction over
finite sets and of sums. Operators marked
`BUG VARIANT` are plausible mistakes: each property is shown to fail when the definition of
the same name is replaced by its variant, so no property holds by the shape of the model.

## Runs

Every run terminates with the whole state space explored; deadlock is checked in each
(`Quiescent` is the service with nothing open, waiting for a request).

| Run | Question | Bounds, and why they are enough |
|---|---|---|
| `dds_calls` | With every fault and one disruption, is what a submit call records always what TRACES NT answered (`ReceiptsAreReal`), never two verdicts by its retries alone (`OneCallOneVerdict`), and at most `(MaxRetries+1)·MaxAttempts` copies per delivery (`FilingBudget`)? Does every call end (`TasksTerminate`), and in a verdict or a task that is seen to fail (`SubmissionDecided`)? | 2 attempts × 2 runs reach every combination of layers (the code: 5 × 7); 5 numbers are one more than the budget of an undisturbed call; the disruption gives two jobs for one message; no symmetry, as liveness is checked |
| `dds_two_statements` | Seals, builds and submissions of one lot in every order: does the status of the lot follow evidence (`LotFollowsEvidence`), is a registered statement left without its number and without a task that says so (`NothingOrphaned`), is a verdict taken back (`VerdictsKept`), and does it implement `DdsLifecycle` (`FollowsLifecycle`)? | 2 statements, 3 submit calls, 2 workers, a retry of each task: the least with two tasks on one row beside another statement of the lot; no answer is lost, since the two last properties speak of calm weather |
| `ledger` | By how much can concurrent requests overdraw a harvest (`OverdrawBounded`), do the rounded columns agree (`TotalNearParts`), and is a lot created as if at once, and only once if its request is repeated (`FollowsStock`)? | 2 sessions, 2 harvests, 3 lots; 4 fine units per stored unit and amounts that round to nothing (1), up (2, 6) and exactly (8) |
| `custody` | When exactly does an untouched chain verify? `OrderlyVerifies`: if it was recorded in order and written as it is read back; `VerifiedIsOrderly`: only if so. Once an auditor has verified a lot, can what they saw be changed under the latest hash they saw (`AuditHolds`)? Does the holder follow (`HolderFollows`)? | 3 steps that record an event or change a row by hand, in any mixture, 2 overlapping sessions, 2 organizations, 2 instants, merges and transfers, three styles of writing: two events make a fork, three a predecessor that is not the last one created, and two events with one forged row the least forgery of an audited chain |
| `plots` | In every interleaving: is a flag ever without a check that justifies it (`FlagHasEvidence`), does a statement rest on an unmitigated risk (`RiskIsMitigated`)? For what nothing overtook: does the flag say what the latest check says (`LossBlocks`), does no statement pass a failing plot or check (`GateHolds`), is negligible risk compliant (`NegligibleIsCompliant`)? | 2 sessions, 2 plots, 2 checks, one statement: two checks that meet, and a recheck of two plots beside a build; that a later check repairs what two that met left behind takes a third, which the proof covers |
| `tokens` | How long can a withdrawn right be used (`StaleRightsEnd`), by routes that look the user up (`LookedUpIsFresh`) too, do refreshes carry old roles on (`IssuedFromRows`), is a token accepted as long as promised (`AdvertisedLife`)? | 1 user with 2 roles and organizations, 2 changes, 2 ticks to the second, lifetimes of 1 and 2 seconds, 6 ticks: long enough for a pair, its refresh after the access token has expired, and a call at the very end of what `StaleRightsEnd` allows |
| `evidence` | Is a holding above 4 ha ever a point, an area ever stored as something else than was registered (`HoldingsAreHonest`), a plot failed on a row that does not show it (`FailureIsDocumented`)? | areas on both sides of the limit, and of the rounding at the limit and at nothing, and NaN; up to 9 pixels, of which 8 make the threshold, under masks with and without a pixel |
| `bug_overdraw`, `bug_unverifiable`, `bug_tampered`, `bug_rejected_by_us`, `bug_degrees` | see [disagreements](#where-the-code-and-its-own-words-disagree) | the least that shows it |

`MaxSubmits`, `MaxDisruptions`, `MaxRequests`, `MaxTime`, `MaxEvents`, `MaxChecks`,
`MaxStatements`, `MaxChanges`, `MaxTokens`, `MaxLoss`, and the finite sets `Refs`, `Tasks`,
`Codes`, `Bodies`, `Declared`, `Computed`, `Roles` and `Routes` are bounds of the model: in the
service these are unbounded. A task that has used up `Refs` can still be refused or fail, so the
bound never blocks a job. `MaxAttempts` and `MaxRetries` are settings of the code (5 and 6), made
smaller, as are the lifetimes of tokens and the units of `PlotEvidence`, whose comments give the
code's values.

## Fairness

Only `dds_calls` uses it. `FairSpec` assumes weak fairness of (1) some worker taking some
message while the queue is not empty and a worker is idle, and (2) the steps of the job each
worker holds. The code justifies (1) by Celery consumers that poll for ever, with
`worker_prefetch_multiplier=1` so that no worker hoards messages, and (2) by the awaits of
`_submit`, each of which ends: the HTTP client has a timeout of 30 s, tenacity and Celery wait a
bounded time, a commit returns or raises. No fairness is assumed of the API (nobody must
submit anything), of disruptions, or of which answer TRACES NT gives: in particular none that
it ever accepts.

## Proofs

Assumptions are the named `ASSUME`s of the modules: counters are naturals, `None` is not a value
it stands beside, units are positive, and the sets a sum or a count runs over (`Tasks`, `Sessions`,
`Harvests`, `Codes`) are finite, of any size. TLC evaluates them. Nothing else is assumed; each
theorem is about the same `Spec` and the same property the runs check.

* **`SetInduction`**: the library's induction theorems take an operator and cannot be used, so
  induction is stated with sets: the naturals, or the subsets of a finite set, for which a claim
  holds form a set that contains the least one and is closed under the step (`NatInduct`,
  `FiniteInduct`). From it follow the facts about `SumFunction` that the sums below need: a sum grows
  by the value that is added, falls by the value that is dropped, and is that of another function
  which agrees.
* **`DdsSubmission_proofs`** proves all seven safety properties of `DdsSubmission`, for any number of
  statements, lots, tasks, workers, retries, disruptions and for every set of faults. None is
  inductive: a job writes an answer it got earlier to a row it loaded earlier.
  * `TypeOK`, `ReceiptsAreReal`, `LotFollowsEvidence` and `VerdictsKept` follow from `Inv`: only one
    request builds a statement (`OneBuilder`), a job's copy of a row is about the same lot and has no
    reason that vanished (`JobsOfRows`), a job about to record a number got it from TRACES NT for this
    statement (`AnswersReal`), and rows are absent or complete (`RowsComplete`). `JobsOfRows` is what
    the unit-of-work rule demands: a rejection whose reason equals the loaded one writes nothing,
    so the loaded one must still be there.
  * `NothingOrphaned` speaks of statements with nothing in flight, and breaks one step after a job
    forgets an answer. `OrphanFree` says of every registered statement, at every moment, who answers
    for it: its row has a number, a job is about to write one, or a task has failed on the answer.
  * `OneCallOneVerdict` follows from `VInv`: until something is disrupted, a submit call is carried by
    one message or job at most (`Exclusive`), and while a statement's only call is being carried and has
    not been answered for good its row has no verdict (`FirstVerdict`).
  * `FilingBudget` counts: copies filed, plus what every message and every running job of the statement
    may still file (`MessageCost`, `JobCost`, from the retries and attempts they have left), stay within
    what submit calls and disruptions granted (`WithinBudget`). Each action only moves cost from
    one of the sums to another; a redelivery is paid for by its disruption.
* **`DdsLifecycle_proofs`** proves that `DdsSubmission` implements `DdsLifecycle` under
  `CalmWeather`. Beside `Exclusive`, a job which has not yet an answer works on a statement that is
  still `ready` and not registered (`Timely`), and a used task's statement exists (`UsedStatus`).
* **`LotLedger_proofs`** proves every property of `LotLedger`, for every rounding unit and all
  quantities.
  * `TypeOK` is inductive. A commit adds one row to the end of `lots` (`CommitFacts`), and with it one
    share to what was drawn from each of its harvests (`CommitDraws`).
  * `TotalNearParts` is arithmetic on one lot: by induction over its parts, the sum of the rounded
    amounts is within half a unit for each from the unrounded sum (`RoundedSums`).
  * `OverdrawBounded` needs that a session has one open request and that each request was granted no
    more than the harvest (`OneRequestEach`, `EachWithin`). Requests that draw on one harvest are then no
    more than the sessions (an injection), and at a read all but the reader's share is bounded
    that way.
  * `FollowsStock` is proved step by step: a registration and a commit are steps of `LotStock`, all else
    stutters. A commit takes no more than the stock holds because its own grant is one of the
    sum that `OverdrawBounded` bounds, and leaves every other lot as it was because no two rows have
    one code (`CodesOnce`), which the unique constraint keeps up.
  * With one session no harvest is overdrawn (`SerialNoOverdraw`): what an open request was granted
    still fits (`Granted`), and a number of fine units within a whole number of stored units does not
    exceed it by rounding (`RoundedWithin`).
* **`CustodyChain_proofs`** proves every property of `CustodyChain` that holds, for any number of lots,
  events, sessions, styles of writing and changes by hand.
  * `CInv`: creation times are unique and within the clock (`Stamped`), the table holds what was
    written of a lot that no hand has touched (`Kept`), the hash of a written row covers its fields
    (`Sealed`), and an event's link is to the latest row it saw (`Linked`). `OrderlyVerifies` and
    `HolderFollows` follow, and half of `VerifiedIsOrderly`: a hash that fits was taken of what is
    read back.
  * `AuditHolds` is about two sets of rows that may have nothing to do with each other, the table then
    and the table now: both verify (`Chained`), and one hash is in both. A hash covers its row and the
    hash before it, so by induction down the chain the two agree to the first event
    (`ChainPrefix`). Nothing is assumed of how the rows got there.
  * The rest of `VerifiedIsOrderly` needs `SInv`, about what each event was linked among: rows of
    recorded events, none twice, never the event itself, and closed: who sees an event sees all that
    it saw. In a chain that verifies no two events share a hash (`ChainHashes`), so each saw the one
    before it; of the events that did not see all that precede them the first cannot exist
    (`SeesPreceding`), and an event that saw a later one would have seen itself.
* **`PlotGate_proofs`** proves `TypeOK`, `FlagHasEvidence` and `RiskIsMitigated` of `PlotGate`, and
  `LossBlocks`, `NegligibleIsCompliant` and `GateHolds` of `PlotOvertaking`. `LoadedSet` is the point of
  the first: a commit leaves the flag alone only if the loaded flag was set, and then the flag is
  set still. For the others, `Dated` says that `checked_at` tells the checks of a plot apart and
  that a check which met no other is later than every committed one, `LoadedIsCurrent` and
  `BuiltIsCurrent` that what was loaded is out of date only if it was overtaken: so a check that
  met none commits the latest row and its verdict together.
* **`PlotEvidence_proofs`** proves `TypeOK`, `HoldingsAreHonest` and `FailureIsDocumented` for all
  quantities, units and limits, from two lemmas about rounding (`QuotientNear`,
  `QuotientAtLeast`); the invariant (`Rounding`) says from which float each stored number came.
* **`AccessTokens_proofs`** proves all five invariants of `AccessTokens`, for any number of users,
  tokens and changes, any lifetimes and any length of the second. The invariant keeps, of each
  token and each request, what its user was when the row was read, and that no request is older
  than `MaxHold`; `StaleRightsEnd` then adds up the ages of the two or three steps between a row
  and its last use.

Model-checked only: the two liveness properties (`TasksTerminate`, `SubmissionDecided`), as fairness
and `ENABLED` are out of the prover's reach, and the violations. Every invariant and every other
temporal property that a passing run checks is stated by a theorem.

## Where the code and its own words disagree

Shown by a run, with a finding in `PROJECT.json`:

* `bug_overdraw`: two `create_lot` requests both read the whole harvest as available; the lots hold
  more than was harvested. `OverdrawBounded` says how bad it gets, one further harvest per
  further session; `SerialNoOverdraw` that concurrency is the only cause.
* `bug_unverifiable`: an event whose `occurred_at` has another offset than UTC is hashed as written
  and verified as read back, and fails. `VerifiedIsOrderly` adds that a chain recorded by
  overlapping requests (a fork), or with an event reported after a later one, or with a number
  that JSONB rewrites in its payload, never verifies either.
* `bug_tampered`: `models/custody.py:3-6` calls the chain tamper-evident, and its events immutable.
  `verify_chain` compares rows with hashes kept in the same rows, made without a key: a recorded
  event rewritten together with its hash verifies, and so does a chain whose newest events were
  removed. What the chain does give is `AuditHolds`: who noted the latest hash when the lot was
  verified finds it missing, or the events up to it as they were. The service keeps no such note.
* `bug_rejected_by_us`: a token endpoint that is down, or missing credentials, rejects the
  statement for good.
* `bug_degrees`: a plot that lost more than 0.05 ha, in a pixel the check has counted, is compliant.
  Geometries are stored in degrees and passed to the raster as they are, so the raster is in
  degrees too, and `abs(a * e)`, taken for square metres, is square degrees: a pixel of 900 m²
  counts as 6·10⁻⁸ m², and no plot ever fails.

Met while modelling, visible in the modules but without a run of their own:

* `client.submit` re-raises `httpx.TransportError`, which `autoretry_for` does not match, so Celery
  does not retry it (`AutoRetried`) although `errors.py:62` calls it safe to retry.
* A second submit call files a statement that is already submitted and replaces its number
  (`Deliver` does not look at the status).
* `create_dds` sets a lot back from `dds_submitted` to `dds_pending` (`CreateDdsCommit`).
* The exceptions in `LossBlocks`, `GateHolds` and `NegligibleIsCompliant` (`unsettled`, `overtaken`)
  are needed: flags follow the order of commits while checks are ordered by `checked_at`, and
  `create_dds` decides on flags it loaded at its start. A plot without any check passes the gate
  if mitigation measures are given, and a check of any age counts as the "recent" one that
  `build_risk_assessment` speaks of.
* A plot whose polygon covers no pixel's centre can never be checked (`CheckFails`), and its exception
  rolls back the weekly recheck of every other plot with it.
* Even in square metres one pixel (900 m²) exceeds the threshold (500 m²), which is meant for
  "pixel-edge noise". `risk_score` divides hectares by square degrees times 100, so that what score
  0.01 stands for has nothing to do with the "0.5% of plot area" of its comment.
* `Principal.organization_id` is read by no route: only `create_plot` compares organizations, on the
  row of the user. Where the token says "producer" and the row says otherwise by now, it does not.
* The token and the row answer for different things in `create_plot`: the role that admits is the
  token's, the role that restricts is the row's.
* The exception in `HolderFollows` (`Overtaken`): a transfer back to the organization that held the
  lot when it was loaded does not take it back from a transfer committed meanwhile.
* `create_lot` does not compare commodities (`lots.py:87` says it does); SPLIT and MERGE events
  change no quantity (`models/lot.py:73-74` says they do).
* The token is fetched for every attempt and never cached, which `traces_nt.py:7-8` says it is. A
  rejected statement cannot be submitted again, although `tasks.py:79-81` tells the operator to.

## What is not modelled

* Statuses no code sets: `accepted` and `withdrawn` of statements, `shipped` and `rejected` of lots.
  They are in the enumerations and unreachable. The `signature` column of custody events is
  never computed.
* The `not_found` return of `_submit`: nothing deletes a statement.
* The projection that gives a polygon its area, the validity of geometries, and which pixels a
  plot covers are inputs of `PlotEvidence`; its `risk_score` takes `geom.area` to be proportional to
  the ground (in degrees it shrinks with latitude).
* The event loop and connection pool a worker process reuses between tasks: only the effect, a
  task that fails to load its statement (`LoadFails`). An exception at the end of `seal_lot`, after
  its update and before the commit, is an `AbortRequest`.
* Passwords and signatures: they verify or the request is refused, and a refused request changes
  nothing. Users are created and changed by hand only; no route registers one.
* Organizations, which one insert creates and nothing changes: no property of theirs could fail.
  The audit log, a table nothing writes to or reads. Wiring, settings, logging and health checks;
  running the migration; the seed script, which calls the services once, in order; read-only
  lists.
* Of a custody event, the columns no hash covers (`recorded_by_user_id`, and `created_at`, which
  `AuditHolds` leaves out); of a lot, changes of its holder by hand.
* Which of two transfers, the one recorded last or the one that occurred last, should decide the
  holder of a lot, and whether a transfer must start at the holder: no text of the repository
  says so, and the code checks neither.

## Plan

Done, in this order: `DdsSubmission` with `DdsLifecycle`, `LotLedger` with `LotStock`,
`CustodyChain`, `PlotGate`, `AccessTokens`, `PlotEvidence`, `PlotOvertaking`, and proofs about each;
`CustodyChain` again, with rows put in and removed by hand. Next:

1. `DdsGate`, a composition of `PlotGate`'s builds with `DdsSubmission`: how stale the evidence of a
   filed statement can be.
2. `CustodyLog`, an abstract append-only log that `CustodyChain` implements for one session writing
   in order.
