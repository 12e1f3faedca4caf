# Verification of construction-ops

TLA+ models of the parts of construction-ops whose correctness depends on what several requests do
at the same time, and of the algorithms that compute a schedule, with the runs of TLC that check them on small instances and the theorems that
TLAPS proves about them for every instance. `PROJECT.json` is the index: components, runs, mutants,
hazards, findings, theorems, and for every definition the lines of the source it stands for.

    tlc -workers 2 -config EvEdit.cfg MCEstimateVersions.tla      # check one run
    tlapm PriceReviewProofs.tla                                   # check the proofs of a module

## 1. The system

construction-ops is a Next.js monolith (`apps/web`) over Supabase: PostgreSQL with row-level
security (RLS). Server actions and routes call services (`apps/web/server`), which call PostgREST
or, in the price monitor, PostgreSQL directly. There is no shared memory between requests and no
transaction that spans two calls: **every call is a transaction of its own**, so whatever a service
has read may be stale when it writes. What protects the data is in the migrations: unique indexes,
foreign keys, RLS predicates, and a few PL/pgSQL functions that lock rows. That boundary, a check in
TypeScript and an effect in SQL, is where the hard behaviours are.

### Inventory

| Component | State | Operations | Meets | Hard behaviour | What makes it correct |
|---|---|---|---|---|---|
| Estimate versions (`server/estimates`) | versions, chapters, items, AIU rules | create, edit, archive, restore rows; import; issue; clone | import and clone lock rows that edits refer to | read, check and write are separate calls; RLS sees a snapshot; a clone reads at several instants | an issued version never changes; rows keep their chapter; versions are numbered and derived soundly; a clone is a copy |
| Price observations and review (`server/pricing`, `review/`) | observations, bulk actions | create, approve, reject, bulk review | monitor and imports create what is reviewed here | double confirmation, partial chunks, dead requests, reviewers at once | a key executes once; no row is claimed by two actions; the audit row is exact; only a single review revises a decision |
| Price monitor (`server/pricing/monitor`) | targets, runs, results, an advisory lock, a connection pool | cron run, manual runs, stale recovery, check of a target, pause, cadence | proposes pending observations, reads approved ones as baseline | cron and manual runs overlap, instances are killed, the lock uses up the pool | no price is proposed twice; no listed target is forgotten; the lock is given back; a live run is not declared dead |
| Access: invitations and roles (`server/access`) | profiles, invitations | invite, resend, revoke, accept, change role | every RLS policy reads the role | accept, resend and revoke race on one row, most of them without a lock; two administrators demote each other | only the latest link of a pending invitation admits, once; the last administrator is not lost but to a race |
| Access: project grants | grants | grant, withdraw | RLS of the role consulta | none beyond the last write | idempotent by the statement |
| Quantity workspace (`server/quantity-workspace`) | groups, lines, link to BOQ items | preview and confirm into the estimate | calls the RPCs of estimates and of the APU library | the RPC commits and the link is stamped in another call; pages, retries and other users | one BOQ item per line; a line is linked to its own item; a confirmation that says so has done every row |
| Planning: dates (`modules/planning/recalc.ts`) | none: a function of rows and dependencies | recalculate, look for a cycle | called after every edit | order of the queue, four types, lags, inclusive ends | every dependency is respected, nothing is pushed too far, cycles are reported exactly |
| Planning: critical path (`cpm.ts`, `graph.ts`) | none | forward and backward pass, floats | reads what the recalculation stored | a second day axis, negative lags, float bounds | both passes are schedules, the critical tasks are a path, the free float is exact |
| Planning: schedules (`generator.ts`, `server/planning`) | schedules, tasks, dependencies | create from the BOQ, edit a task, add a dependency | reads an estimate version | five calls without a lock per edit, lost writes, deaths, overlapping edits | a recalculation left alone repairs everything; a cycle takes two overlapping insertions |
| APU library and builder | templates, keyed actions | archive, add to the BOQ; create, overrides | BOQ items cite an APU | keys of manual actions, archive against use | an archived APU gets no new item but by a race |
| APU import, reconciliation, quantity import | batches, links | import, link | templates, resources | keys, stale previews | a batch is imported once |
| Catalog and onboarding | resources, prices | edit, import in chunks | APUs and observations cite resources | partial imports | a row is imported once |
| Projects, scopes, quick notes | one table each | one statement per call | estimates hang from scopes | none beyond the last write | RLS |
| Read models, exports, comparison, APU and steel calculators | none | pure functions of one read | | decimal arithmetic | golden-master tests |
| Authentication, email, user interface, scripts | sessions of Supabase, none | adapters and I/O | the interface repeats requests | | |

`PROJECT.json` lists the same components with their files and says which are modelled.

## 2. Modules and plan

| Module | Part | Checked by | Proved in |
|---|---|---|---|
| `EstimateVersions`, abstract `VersionLifecycle` | edits, import, issue, clone | `ev_edit`, `ev_lifecycle` | `EstimateVersionsProofs` |
| `PriceReview`, abstract `ReviewDecisions` | individual and bulk review | `pr_mixed` | `PriceReviewProofs` |
| `PriceMonitor` | the background runs | `mon_cron`, `mon_live`, `mon_quiet`, `mon_pool` | `PriceMonitorProofs` |
| `ScheduleNetwork` (operators), `ScheduleRecalc` | the recalculation of dates | `plan_network` | `ScheduleNetworkProofs`, `CriticalPathProofs` |
| `CriticalPath`, which extends `ScheduleRecalc` | the CPM over the same network | `plan_network` | `CriticalPathProofs` |
| `ScheduleGenerator` (operators), `PlanningSchedule` | creation and edits of a schedule, composed with both | `plan_service` | `PlanningScheduleProofs` |
| `QuantitySync` | a group of lines sent to the BOQ, with the two RPCs | `qty_sync`, `qty_replay` | `QuantitySyncProofs` |
| `AccessInvitations` | invitations and roles | `access` | `AccessInvitationsProofs` |

Left in the plan, in this order: `ApuImport` (one RPC per batch under the digest of the file) and
the chunks of the onboarding; `PricePipeline`, the composition of PriceMonitor and PriceReview
through the observations, which today are `pending` and `baseline` of the one and `obs` of the other.

Every module has a type invariant, which is a theorem, so no run repeats it. A module of proofs
EXTENDS the module it is about; `CriticalPathProofs` and `PlanningScheduleProofs` also extend
`ScheduleNetworkProofs`, the facts about networks that both need.

## 3. Estimates and prices

### 3.1 EstimateVersions

One estimate, its versions, and the sessions that work on it.

*State.* `status`, `source`, `issuer` and `book` are the tables: `book[v]` holds the chapters, items
and AIU rules of version `v`, which is named by its number since `(estimate_id, version_number)` is
unique. `pc`, `req`, `ver`, `reply` are the requests under way (an error is
kept as "error", whichever class it is). `estLock`, `verLock` are the row locks of `FOR UPDATE`;
`number`, `copy` are what a clone has read and not committed; `calm` is a
history variable. A row's key is the same in the clone (the function's old-to-new map is the
identity on what it has copied), and amounts, names and settings are values of one small set.

*Actions.* A method of `db-repository.ts` is the sequence of its calls:

| Step | Code |
|---|---|
| `AssertEditableActiveVersion` | first read: the highest version, refused if locked |
| `CreateEstimateChapter` … `UpdateEstimateVersionAiu` | second read: the chapter or item must be in the version |
| `Admit` | the statement starts: RLS evaluates `app.estimate_version_locked` on its snapshot; a filtered UPDATE is silent, a filtered INSERT an error |
| `Commit` | its effect becomes visible; an INSERT waits for the version row through its foreign key |
| `AssertImportableVersion`, `ImportLock`, `ImportCommit` | the server's check, then `import_boq_into_version` under `FOR UPDATE` |
| `IssueRead`, `IssueUpdate` | the read, then one UPDATE whose USING clause is evaluated on the current row |
| `CloneRead`, `CloneLock`, `CloneChapters`, `CloneItems`, `CloneCommit` | the read, then the statements of `clone_issued_estimate_version`, each with its own snapshot |
| `Abort` | the request dies or its transaction rolls back, at any point |

Two things the code does that its comments do not say: `SELECT … FOR UPDATE` also applies the UPDATE
policy, so an import of a version issued meanwhile answers `EstimateNotFoundError` (the branch
`version_locked` is dead), and the unique index on chapter codes can only end a statement, which is
`Abort`.

*Abstract specification.* `VersionLifecycle` knows no sessions: a version is free, open, closing (a
late write may still land) or frozen. `LifecycleSpec` is the refinement.

*Runs.*

| Run | Instance | Shows |
|---|---|---|
| `ev_edit` | 2 sessions, 2 chapters, 1 item, 2 versions; rows created, edited, moved, archived, restored, imported; issue and clone | `ItemsHangFromChapters`, `FrozenForever`, `ImportIntoEmpty`, `CloneKeepsContent` |
| `ev_lifecycle` | 2 sessions, 1 chapter, 1 item, 3 versions, late rows and AIU rules, fairness, no symmetry | `ClonesSerialised`, `Lineage`, `CloneNeverUnmapped`, `IssuerKept`, `LifecycleSpec`, `RequestsEnd` |

Bounds: an edit against an issue, an import or a clone takes two sessions, and so do two clones; two
chapters are needed to move an item, three versions for two clones of one source. A clone that meets
an insertion of a chapter and one of its item by two others takes three sessions, which only the
theorem `ClonesMapAll` covers. The number of versions is bounded in the guard of `CloneRead`, which
counts the clones under way. Amounts are `{0}`, since no guard depends on them. The theorems hold
without these bounds.

*Fairness.* `SF_vars(Continue(s))`: a started request goes on. Strong fairness stands for the lock
queue of PostgreSQL, which grants a row lock in arrival order; with weak fairness others could take
the lock over and over. No fairness is assumed of `Begin` and `Abort`.

*Proofs* (`EstimateVersionsProofs`, for any sessions, rows, workload and number of versions). The
inductive invariant `IInv` is the conjunction of what every step needs: `Numbered` (versions have no
gaps, and each clone under way has room), `Located` and `Checked` (rows are never deleted, so what a
check saw is still there), `CloneLocked` and `ImportLocked` (who is past a lock owns it, and what it
read under it is still so), `Mapped` (every chapter that an item, *or an admitted write*, refers to is
in the copy: this is why a clone does not fail although it reads chapters and items at two instants),
and `CalmCopy`. `TypeOK` and the invariants follow; `FrozenForever`, `IssuerKept`, `ImportIntoEmpty`,
`CloneKeepsContent` and the refinement `Refinement` are step properties under it.
Only checked by TLC: `RequestsEnd` (liveness).

### 3.2 PriceReview

Observations of one resource, their review one by one, and bulk review.

*State.* `obs` is `resource_price_observations`; `action[k]` the row of
`price_observation_bulk_actions` whose key is `k`; `modal[k]` what the browser sends whenever it
confirms with that key; `work` the local variables of `executeBulkReview`; `ledger` a history
variable: the rows really changed under a key.

*Actions.* `ReadStatus` and `WriteStatus` are the two calls of an individual review. `Classify`
(read the statuses), `CreateBulkAction` (the INSERT, where the unique index is the barrier),
`FindBulkActionByKey` (a duplicate), `UpdateChunk` (one statement with `status = 'pending'` in its
filter) and `CompleteBulkAction` are those of a bulk review. `Classify` may happen again with a key
already used, which is the resubmitted confirmation, and `Fail` ends a request between any two calls.

*Abstract specification.* `ReviewDecisions`: an observation is submitted once and waits. A reviewer may
decide several at a time, all of them waiting at that moment (`Decide`), or take one in hand while it
waits (`Take`) and judge it later without looking again (`Judge`). A decision is final except for
whoever had the observation in hand then, so it is final outright for the rows that nobody reviews one
by one (`OneByOne`). The whole of PriceReview implements it (`DecisionsSpec`): what a chunk changes is
one decision of rows that wait, although the request checked the statuses calls before, died, or met
another. `BulkKeepsReviewed` says less: it lets an individual write overwrite anything, also a row that
was already decided when the reviewer looked. Without `status = 'pending'` in the UPDATE of a chunk
(`AnyRow`) TLC finds both violated; without the check of the status in the individual read
(`AnyStatus`), only `DecisionsSpec`.

| Run | Instance | Shows |
|---|---|---|
| `pr_mixed` | 2 requests, 3 observations in chunks of 2, 2 keys; all reviewed in bulk, one of them also rejected individually | `KeyRunsOnce`, `AuditTruth`, `RepliesTruthful`, `BulkKeepsReviewed`, `DecisionsSpec` |

Bounds: a chunk of two is the least that decides rows together, and three observations the least that
fill two chunks, between which a request dies half-way; one row is reviewed both ways, and two only in
bulk, where a decision is final. Two keys the least for two actions
on one row, two requests the least for a double confirmation. There is no fairness and no liveness: a
request that dies is never resumed.

*Proofs* (`PriceReviewProofs`, any requests, observations, keys and chunk size). The invariant's core
is `Barrier`: whoever executes a key owns its open action and has counted in `updated` exactly the rows
of the ledger. With it `KeyRunsOnce` is immediate; `ClaimsReviewed` (a claimed row never becomes
pending again) gives `NoDoubleClaim`; `CompleteBulkAction` copies `updated`, hence `AuditTruth`.
`ReviewImplementsDecisions` is the refinement, for every workload: the read of an individual review is a
`Take`, its write a `Judge` and its failure a `PutBack`; a chunk is a `Decide` of the rows it changed, which
were pending in that statement; every other step leaves rows and hands alone.

### 3.3 PriceMonitor

Targets, runs and the two ways they start.

*State.* `target`, `runs`, `pending`, `baseline` are tables (`baseline[t]` is what `findBaseline`
returns); `lock` the advisory lock; `work[w]` the local variables of the run of instance `w`, in which
`here` is one iteration of `processOrgTargets`, listed values included, because the code writes
counters computed from the row *as it was listed*. `streak` is a history variable. Time advances in
ticks: a day, the window of the manual limit, the age of a stale run and the platform's limit on a
request are constants in ticks, with `MaxLife <= StaleAfter` (300 s against 30 minutes).

*Actions.* One per database call, in the code's order, from `TryAcquireRunLock` to
`ReleaseRunLock`; `CreateRun` is the INSERT under the unique key; `CheckTarget` is the fetch, reduced
to a price or a failure; `Unwind` is an error on its way to the `finally`; `CallFails`, the lost
answers in `Answered`, and `Die` are what can go wrong. `PoolHasFree` is the guard of every call: the
lock occupies one connection of the same pool. `SetTargetEnabled`, `UpdateTargetCadence` and `Review`
are the users.

| Run | Instance | Shows |
|---|---|---|
| `mon_cron` | 2 instances, 1 target, 2 prices, days of 2 ticks, errors, kills, reviews, pauses | `NoDuplicatePending`; `DueWhenChecked`: the rows a scheduled run has in hand are as it listed them, due and with the same counter |
| `mon_live` | 2 instances, scheduled and manual runs, kills, recovery | `LiveRunIsRunning` |
| `mon_quiet` | 1 instance, 2 organisations, scheduled and manual runs, fairness, no errors; one target is paused, resumed and given other cadences at any moment (`Edited`) | `ListedAreChecked`, `FailuresCounted`, `LockReleased` |
| `mon_pool` | 1 instance, a pool of one | a disagreement (section 6) |

Bounds: two instances for overlaps, a clock of two to four ticks so that a run crosses midnight, a
second due date comes and a run becomes stale; in `mon_quiet`, a day of two ticks with the cron call on
the second, so that manual runs come before and after it, and one edited target next to one that is
not. `MaxTime` stops the clock, so the runs do not look for
deadlocks (`CHECK_DEADLOCK FALSE`). The pool has two connections except in `mon_pool`, which takes
the code's default of one. Which property holds in which workload is part of the result:
`NoDuplicatePending` holds of scheduled runs and fails with manual ones, and `FailuresCounted` is
shown of one run at a time because two that overlap lose a count.

*Fairness.* `WF_vars(Step(w))`: an instance goes on with its run when the pool gives it a connection.
Nothing is assumed of the clock, of users or of failures.

*Proved* (`PriceMonitorProofs`), for any number of instances, targets, organisations and prices and
any schedule: all five invariants the runs check. The assumptions on the constants are those of the
platform and of the table: `MaxLife <= StaleAfter` (300 s, 30 minutes), `MaxLife < DayLength`, a
cadence of at least one day, finitely many targets.

- `LiveRunsRunning`. `LiveRunIsRunning` is not inductive: that a row of the right key is running says
  nothing of its age. `LiveInv` adds three facts: a run is at most `MaxLife` old (`LifeInv`, which
  `Tick` keeps), its row is no older than the run (`RowInv`), and two live runs have different keys
  (`KeysInv`, from the unique index), so that no run ends the row of another.
- `LockIsHeldByItsRun`: the lock is held by `w` exactly while `w` runs a scheduled invocation. It is
  the safety half of `LockReleased`; that the run gets there is liveness and stays with TLC.
- `DueTargetsOnly`, `NoDuplicates`, `FailuresAreCounted` assume `OneRunAtATime`: there are no manual
  runs, so the lock separates all runs, or there is one instance. It is where the code keeps these
  promises (section 7 says what manual runs do to them), and it holds in the runs that check them.
  `ApartInv` says that the targets of a run are in its plan, in its queue or in hand, each once, so
  that the update of one spares the rest. `ScheduledDue` extends `DueWhenChecked` to the plan. It
  says that no *other* run has touched a row in hand; a run that dies or fails before
  `UpdateTargetAfterCheck` has not rescheduled its row, the next day's invocation lists it again for
  the same due date, and the invariant allows it, as section 5.6 of the contract announces.
  `PendingInv` says that at the insertion the look of an earlier transaction is still right (only a
  review can have come between, and a review removes); `CountInv` says that what a run holds of the
  counters is what the table says, except between a result and its update. `FailuresAreCounted` also
  assumes `NoErrors`: an error between the two loses a count, in the code too.
- `ListedChecked` has no such hypothesis. `DueInv` says of every target listed that it is rescheduled
  past the listing or still in the run. The hard step is a manual run that writes a date computed
  from an older reading: `UpdateIsLater` shows that a date written is later than *now*, because the
  cadence is at least a day and the run that writes it lives less than a day (`LifeInv`).

`LockReleased` is liveness and is only model-checked.

## 4. Planning

### 4.1 ScheduleNetwork, ScheduleRecalc, CriticalPath

A network is at most one typed dependency (FS, SS, FF, SF) with a lag, positive or negative, between
two tasks; `ScheduleNetwork` has what both calculations and the service need: `MinStart` (the bound a
dependency puts on a start), `Respected`, `Tight`, `HasCycle`, the topological order and the cycle check
of an insertion.

*ScheduleRecalc* is `recalculateScheduleDates` as a machine: `InsertDependency` builds any network the
database accepts, then one step per task that leaves the queue of Kahn's algorithm. The queue is a set,
so every order is tried. *CriticalPath* starts from the rows as they are, recalculated or not
(`planned` is then any start), and runs the forward and the backward pass one task at a time, on a
*continuous* axis, where the recalculation counts whole inclusive days.

| Run | Instance | Shows |
|---|---|---|
| `plan_network` | all networks of 3 tasks with up to 3 dependencies, the four types, lags -1 and 2, durations 0 and 2, starts 0 and 1 | `DependenciesRespected`, `NothingPushedTooFar`, `CycleReportedExactly`, `CycleChecksExact`, `EarlyAndLateDatesAreSchedules`, `CriticalTasksFormPaths`, `FreeFloatExact`, `RecalculatedDatesAreEarly` |

Bounds: three tasks and three dependencies give a triangle, a diamond's half, a chain and a cycle of
each length; a lag below and one above a duration turn each bound around; a duration of 0 is a
milestone. The calculations end, so the run does not look for deadlocks. The reference definitions the
algorithms are checked against do not follow an order of the tasks: `Respected` and `Tight` are the
least solution of the constraints, `HasCycle` is the existence of a set of tasks each with a predecessor
in it, and `Pushes` is what the comment of the free float says in words.

*Proofs* (any finite set of tasks, any lags, durations and number of dependencies).
`ScheduleNetworkProofs` is about the operators. What they compute is a recursive function over the
number of turns, and no induction theorem of the library can be used (it takes an operator), so the
induction is done on a set: `UpTo` says that a set of numbers with 0 and every successor has all of
them, from the well-foundedness of `<`, and `IterationExists` that a function defined by its
predecessor exists. With them `TopologicalOrderIsExact` (a layer that adds nothing is a circular set,
and there are at most as many layers as tasks), `SearchIsExact` (the search has all it can reach after
as many turns as tasks; a cycle of the enlarged network must use the new dependency) and
`RecalculatedIsRight` (the loop invariant through the whole calculation, which is what
`recalcAndPersist` calls).

`CriticalPathProofs` is about the machines. `LoopInvariant`: a task is in the
queue exactly when all its predecessors are processed, so its start is final when it leaves, and a
circular set is never touched; from it `DependenciesRespected`, `NothingPushedTooFar` and
`CycleReportedExactly`. `PassInvariant` of the CPM: what a timed task depends on was timed before, its
early start is the greatest bound, its late finish the least, and, over recalculated dates,
it is where the recalculation put it; from it the four properties of the report. `Room` relates two
ends of a dependency: the float of the predecessor is at most that of the successor plus the slack
between them, and equal when the successor gives it its late finish. `CriticalTasksAreChains` uses the
first half backwards (what pushes a critical task is critical) and the second forwards (a critical task
that does not end the project pushes a critical one); `FreeFloatIsExact` uses the second where the free
float is the whole float. `CycleChecksExact` is
`TopologicalOrderIsExact` and `SearchIsExact` in every state. The proof of `FreeFloatExact` shows that every
bound of a free float is a natural number, so that the least one exists (`LeastExists`).

### 4.2 ScheduleGenerator, PlanningSchedule

*State.* `schedule`, `task`, `chapter`, `dep` are the rows of one schedule; `view[s]` what a request has
read and computed, `todo[s]` the rows it has still to write. `alone` and `settled` are history: which
recalculation nothing has disturbed, and whether such a one was the last to write.

*Actions.* `CreateScheduleFromBoq` is the preview of the generator and the RPC, which is a transaction.
`UpdateScheduleTask` and `ReadDependencies`, `InsertDependency` are the two edits; each ends in
`recalcAndPersist`, which is `ListTasks`, `ListDependencies` (where the dates are computed, and a cycle
ends it), `WriteTask` per row that differs from what was read, `WriteChapter`, `SetScheduleEndDate`.
`WriteFails` is an UPDATE whose error is dropped; `Die` ends a request between any two calls.

| Run | Instance | Shows |
|---|---|---|
| `plan_service` | 2 requests, 2 activities and a closing milestone, 1 chapter, all BOQs and forms of two items, 2 edits | `UndisturbedRecalcRepairs`, `FreshIsConsistent`, `CycleNeedsOverlap` |

Bounds: two edits are the least that overlap, and the least for a cycle; more add no kind of disturbance,
since a recalculation knows only what it read. `UndisturbedRecalcRepairs` is convergence said as safety:
nothing in the code guarantees that another request ever comes, so no fairness is assumed.

*Proofs* (`PlanningScheduleProofs`, any requests, tasks, chapters, BOQs, forms and number of edits). The
inductive invariant has four parts.
- `TypeInv`: types, and what a request holds between two calls: dates in order, milestones without
  duration (otherwise the rows it read are not rows a calculation accepts), a dependency that passed
  its checks, chapters that have children (otherwise their span has no least date). `CyclesNeedOverlap`
  needs no more: if the dependencies are those that were checked, `SearchIsExact` says that the insertion
  closes no cycle.
- `RowInv`: rows appear only with the schedule, dependencies join rows of it, a chapter has a task.
- `RepairInv`: while nothing disturbs a recalculation, the dates it holds are the ones
  `RecalculatedIsRight` promises for the rows and dependencies *as they are now*, and every row that it
  need not write any more has them. A row that is skipped because it did not differ counts as written,
  which is the point of the property. `Repaired` is the end of it.
- `FreshInv`: before the first edit no recalculation runs. `CreatedIsConsistent` compares the formulas of
  the generator with those of the recalculation; `GeneratorAssumption` says that the limit of a duration
  is positive, which it is (`generator.ts:28`).

## 5. Quantities and access

### 5.1 QuantitySync

*State.* `boq`, `actions`, `link`, `status`, `archived` are the tables `boq_items`,
`apu_manual_actions`, `quantity_workspace_lines.boq_item_id`, versions and APUs; `ver[s]`, `seen[s]` what
the page `s` was loaded with, `row[s]` the row its confirmation is at, `found[s]` the item a call works
on. `calm` is history: whether anything else was written since the confirmation, and whether its keys
were new.

*Actions.* `OpenPage`, `Confirm`, then per row `LookUp` (the key), `Check` (the guards of the RPC),
`Write` (RLS evaluated by the statement), `Commit` (the effect and the key in one transaction) and
`Stamp`, a call of its own whose error is dropped (`LoseStamp`). `Die` ends a confirmation at any point;
a second confirmation starts with the old preview. `EditQuantity`, `Issue`, `ArchiveCheck` and
`ArchiveWrite` are other users.

| Run | Instance | Shows |
|---|---|---|
| `qty_sync` | 2 pages, 2 versions of which one may be issued, 2 lines with the same quantity and APU, 1 fault | `OneItemPerLine`, `LinksOwnItem`, `ArchivedStaysUnused`, `LockedStays`, `FreshConfirmIsDone`, `RetryAdopts` |
| `qty_replay` | 1 page, 1 version, nobody else but the BOQ editor | a disagreement (section 6) |

Bounds: two pages for every race on a line, two lines so that an action fails after its first row, two
versions so that a page is open on the wrong one, one fault for every retry after a death or a lost
stamp. Only safety is claimed: whether a user tries again is up to them.

*Proofs* (`QuantitySyncProofs`, any pages, versions, lines and faults). The invariant `IInv` says that the
items, the keyed actions and the stamps under way tell the same story: every item has the action with
the key of its line, keys are unique, and a stamp on its way carries the item of its own line. With it
`OneItemPerLine` and `LinksOwnItem` hold whatever dies; `ArchivedStaysUnused` and `LockedStays` are step
properties. `FreshConfirmIsDone` and `RetryAdopts` are about the last step of a confirmation and need what
the earlier ones have left. `DoneInv` adds it: `SeenInv`, that a link a page was loaded with is still a
link and its item is the line's; and `CalmOk`, that the rows before the one in hand are linked and, when
the keys were new, every recorded row is carried out and the version about to be written is still open.
The steps that end a row (`ReplayDone`, `UpdateDone`, `StampDone`) extend it by one row; a step of anybody
else either writes nothing or ends the calm. `AnswerDone` reads it off at the last row.

### 5.2 AccessInvitations

*State.* `role` is `profiles`, `invs` is `organization_invitations` in order of creation, `holder` the row
lock of `FOR UPDATE`, `now` a clock for the expiry. A link is the number of the INSERT or UPDATE that
stored the hash of its token, so an older link is one that was replaced.

*Actions.* Each RPC is a transaction under READ COMMITTED, so its statements are the steps:
`CheckMember`, `CheckPending`, `InsertInvitation`; `ReadInvitation`, without a lock, and
`UpdateInvitation`, by id, for resend and revoke; `LockInvitation` and `Join` for accept; `ReadTarget` and
`ChangeRole`. A resend that would make a second pending invitation of an address fails on the partial
unique index. `Die` rolls the open transaction back.

| Run | Instance | Shows |
|---|---|---|
| `access` | 2 calls at a time, 2 administrators and a stranger, 2 invitations with 2 links each, a clock of two instants | `OnlyOpenLinksAdmit`, `LastAdminNeedsOverlap` |

Bounds: every race here is of two calls on one row; two invitations let one be open while another
is revived; two administrators are the least who demote each other; the role offered is the one that
manages access and is not admin, and the other four behave as no manager at all. `MaxTime`,
`MaxInvitations` and `MaxLinks` stop the growth, so the run does not look for deadlocks.

*Proofs* (`AccessInvitationsProofs`, any people, roles, calls and bounds). `JoinersHold` is the core: a call
about to insert the profile has the lock, and therefore the row is still as it was checked; a writer
without the lock waits for it. `OnePendingPerEmail` follows the index through creations and revivals.
`LastAdminNeedsOverlapHolds` needs only that nobody changes their own role. `ClosedSettlesHolds` says what
remains of "a closed invitation is closed": it changes only by calls that had found it pending.

## 6. Disagreements the runs show

| Run | Code | Says |
|---|---|---|
| `mon_pool` | the lock reserves the only connection of the default pool; the next call waits for ever | the lock is always given back (`PRICE_MONITORING_AGENT_V1_CONTRACT.md`, 5.6) |
| `qty_replay` | the key of an update is a line and a quantity: after somebody has typed another quantity in the BOQ editor, a new confirmation finds its key used, changes nothing and answers that the row was updated (`actions.ts:139`) | each row the user approved is created or updated (`quantities/workspace/actions.ts:111`) |

`FreshConfirmIsDone` is the strongest version of the second promise that the code keeps.

## 7. Disagreements without a run

Met while modelling and visible by reading, or stated in a module and left without a run so that the runs
ask different questions.

Estimates and prices.
- A write that RLS admitted before the issue commits after it, although an issued version is immutable
  (`ESTIMATE_ISSUE_CLONE_CONTRACT.md`, rule 2); `FrozenForever` is what holds.
- The second of two concurrent clones supersedes the first one's draft, which no operation can reach
  afterwards; an archive of a row answers success when the version was issued between its check and
  its UPDATE.
- An individual review updates by id, without `status = 'pending'`, and overwrites a concurrent one,
  although history is not overwritten (`PRICE_INTELLIGENCE_FOUNDATION_CONTRACT.md`, rule 2);
  `BulkKeepsReviewed` and `DecisionsSpec` are what holds.
- What a bulk action changed is recorded only after the last chunk: a request that dies leaves rows that
  no audit row names (`PRICE_OBSERVATION_REVIEW_CENTER_V1_CONTRACT.md`, rule 9). `alreadyExecuted` is
  answered while the first execution still runs.
- Several approved observations of a resource are current at once; the "latest approved price" is the
  first row of a SELECT without ORDER BY.
- A manual and a scheduled monitor run of one target both find no identical pending price and both
  propose it; two overlapping runs count one failure; the manual limit of five minutes is a fixed window;
  a target paused during a run is still checked; one with a cadence of a day is not due at the next day's
  listing, since its next check counts from the moment of the last; a run killed after `createRun` has
  used the key of its day.
- createBoqItem and createEstimateChapter have no idempotency key, and `sort_order` may repeat.

Planning.
- A closing milestone is created on the last day of its chapter (`generator.ts:456`), and the first
  recalculation moves it to the first day of the schedule: no dependency ties it and no caller passes
  `manualStart` (`service.ts:355`, `recalc.ts:91`). `MilestonesClose` states it.
- A chapter's duration is the span of its tasks, not the sum of its children
  (`docs/SCHEDULE_FROM_BOQ_V1_CONTRACT.md:126`).
- The comment that a cycle should not happen (`service.ts:370`) is false for two overlapping insertions;
  from then on no recalculation writes.
- A milestone that must finish with a task of some days is a day later on the axis of the CPM than on that
  of the recalculation: the exception in `RecalculatedDatesAreEarly`.
- A dependency on a chapter is ignored by the recalculation; an archived schedule accepts edits; a form
  submitted twice makes two schedules.

Quantities.
- The key of a creation does not name the version: after a lost stamp, a creation for another version
  answers with the old item.
- The contract stamps `boq_item_id` after an update too (§4.3); the code does not.
- A line linked to an item of an issued version blocks the rows after it for ever.
- An APU archived between the checks of add_apu_to_boq and its INSERT gets its item (`Adding`).
- An update answers "updated" with no row changed when the version was issued between the check and the
  UPDATE; the version of the item is not compared with the one selected.
- A group and its lines are inserted in two calls: a failure leaves an empty group that keeps the code.

Access.
- `accept_invitation` is called idempotent (`docs/design-references/V5_6_1E_INVITE_MEMBERSHIP_FINAL_FIX.md:28`);
  a repetition after a lost answer raises `invitation_used`, and the link is forgotten.
- An address that is already a member may be invited by a race (`OPERATIONAL_ACCESS_AND_SMTP_V1_CONTRACT.md`,
  2): the check of members precedes the acceptance, that of pending invitations follows it; and a late
  resend revives an accepted invitation.
- A late revocation marks as revoked an invitation that was accepted, and the member stays.
- Two administrators who demote each other at once leave none; gerencia may demote somebody promoted
  after its call read the target.
- A project grant survives a change of role to one that sees every project.

## 8. What is not modelled

Inside the modelled files: reads that feed screens, `sort_order`, codes, descriptions and units,
currency conversion, the comparison of prices, texts of errors, lost answers *after* a commit in
EstimateVersions (the state is right, only the answer is not), creation and deletion of monitor
targets, progress and crews of tasks, formulas of quantities, mails. RLS by role is reduced to the
condition that depends on changing state: a user who may not see a row does not name it.

The repository has about 108,000 lines, most of them React components, the steel takeoff (extraction of
drawings in the browser, behind a flag), parsers of workbooks, read models and scripts. They keep no
state that two actors share and make no decision over several steps; their behaviour is layout, text or
decimal arithmetic, which tests reach better than a model. That is why the map covers a small share of
the lines although it covers most of the code that writes under a race. The components left whole are in
section 1 and, with the reason, in `PROJECT.json`; `ApuImport` and the onboarding are the ones that
deserve a module.

Liveness is model-checked only; the theorems are about safety.
