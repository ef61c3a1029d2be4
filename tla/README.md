# White Bird site management: models and proofs

TLA+ specifications of the backend in `apps/` (Django, PostgreSQL, Celery), the
TLC runs that model-check them on small instances, and TLAPS proofs of what
matters most for every instance. `PROJECT.json` lists the runs, the source lines
behind every definition, the mutants that show a property can fail, the hazards
and the theorems.

## 1. The system

One Django process per worker serves the Ninja API (`apps/site_management/api.py`)
from a PostgreSQL database; Celery workers and a Beat scheduler run the tasks in
`apps/*/tasks.py`; Redis holds the cache. Processes share nothing but the
database and the cache, so everything that is hard in this code happens between
two statements of two of them.

**How a request runs.** Nearly every write has the same shape, and its weak
point: the endpoint loads a row, without a transaction and without a lock
(`_load_..._or_404`); it checks permissions; the service opens
`transaction.atomic()`, checks the status *of the object it was handed*, writes
and commits. Between load and write another request may have changed the row.
What happens then depends on how the service writes: `save(update_fields=[...])`
overwrites the named columns, `save()` overwrites all of them, an `F` expression
adds to the current value, and an insert meets the table's unique constraints.
Only `store_services.py` ever locks a row (`select_for_update`). The isolation
level is PostgreSQL's default, READ COMMITTED. Domain events and some
notifications are written by `transaction.on_commit` callbacks, after the
commit.

| Component | State | Operations | What is hard | Correct when |
|---|---|---|---|---|
| Inventory ledger (`store_services.py` 190-597) | store items with `current_stock`, movements, transfers, monthly openings, low-stock alerts | add and edit an item, movement, transfer, opening, `check_low_stock` task | races on one row, lock order of transfers, crash between the legs, stale edits | stock is never negative and equals its ledger; transfers have both legs; one opening a month; alerts coalesce |
| Stock requests (605-904) | request status, lines, approval rows | create, update, submit, review, approve, pack, assemble, reject, complete | each acts on a stale status; repeated calls | every handoff has its accountability row; quantities only shrink and are final |
| Distribution network (85-147, `SiteStore.clean`) | store type and parent | create and edit a store | edits of related rows at once | every link joins compatible stores; no circle |
| Issues and jobs (`issues_services.py`) | issue status, escalation level, job status | create, review, escalate, assign, start, complete, verify, close, reopen | the issue's status is a function of its jobs' and both are written from stale objects | a closed issue has no open job, an issue whose jobs are closed is closed |
| Report delivery (`report_delivery.py`, `tasks.py`) | one delivery row per report, period and recipient; the mail service | scheduled task, retries | crash after sending, two tasks at once, timeout with a late success | a report reaches each recipient, once |
| Domain event outbox (`core/services.py`, `core/tasks.py`) | event rows, pending or published | emit after commit, publish | crash between commit and callback | nothing announced that was not committed |
| Attendance (`attendance_services.py`) | daily records per cleaner, shift and date, review status | generate, record, submit, return, review, lock | bulk updates against single records | locked records do not change |
| Reporting chain (`reporting_services.py`) | site, zone, assistant and general reports with snapshots | generate, submit, review, return, recalculate | stale full saves against snapshots | a submitted report's numbers are final |
| Inspections (`inspection_services.py`) | inspection, results, score | start, add result, submit, return, review | results added while submitting | the score is that of the results |
| Cleaners, trainees, assignments (`cleaner_`, `trainee_`, `assignment_services.py`) | cleaner status and documents, programmes, assignments, schedules | register, verify, activate, assign, pass, fail | checks before the transaction; overlap check then insert | only active cleaners are assigned, schedules do not overlap |
| Supervisors, sites, zones, areas, roles (`services.py`) | organisation rows and the supervisor of each site and zone | create, edit, archive, assign, end | caps checked by counting, uses checked before a deactivation | a site has no more supervisors than its cap and one primary; what is in use stays active |
| Rosters and checklists (`supervisor_roster_services.py`) | timetable, checklist rows | save, submit, review | stale status | submitted checklists do not change |
| Remuneration (`remuneration_services.py`) | monthly submission and lines | prepare, decide, submit, review | lines edited while the form is submitted | what HR reviews is what was submitted |
| Messaging (`messaging_services.py`) | conversations, messages, read marks | create, send, mark read | two users opening a conversation at once | one direct conversation a pair |
| Accounts and tokens (`apps/accounts`) | users, API tokens (the refresh credential), audit | log in and out, issue and revoke a token, create, update, disable, reset, delete a user | two administrators acting on accounts the other is changing | tokens of a disabled account stay dead; an active administrator remains |
| Throttling, cache (`core/throttling.py`, `core/cache.py`) | counters and cached values in Redis | count, get, set, invalidate | read-then-write; set after invalidate | limits hold; no stale value outlives its timeout |
| HR import and transfer (`hr_services.py`) | none of its own | import a workbook row, transfer people between sites | what other requests save between its load and its commit | nothing is left behind |
| Exports, dashboards, optimisation, integrations, web pages, admin site, React frontend | none of their own, or files | read-only views, one-shot imports, external calls | | |

## 2. The modules

Every detailed module follows the request shape: a call *loads* (a snapshot is
kept in the call's record), then its transaction *checks* the snapshot, and then
*commits* or is refused, or aborts and leaves nothing. The steps of different
calls interleave freely.

### StockLedger: the inventory ledger

| State | Code |
|---|---|
| `present`, `row` | `StoreItem` rows: `current_stock`, product, minimum level, `is_active` |
| `movements`, `transfers`, `openings` | `StockMovement`, `StockTransfer`, `StoreMonthlyOpening` rows |
| `lock` | the row locks of `select_for_update` |
| `unread`, `alerting` | unread `Notification` rows of a dedup key, and the ones the periodic task is about to insert |
| `events` | `StockLow` rows of the outbox |
| `pc`, `call` | how far each API call has come, and what it has loaded or computed |

`BeginMovement`, `BeginTransfer`, `BeginOpening`, `BeginUpdate` are the endpoint
and the checks before the transaction; `CheckOpening`, `LockSource`,
`LockDestination`, `Write`, `Refuse`, `Commit` are the transaction of
`record_stock_movement`, which `transfer_stock` and `record_monthly_opening`
call inside their own; `SaveItem` is `update_store_item`'s full save; `Announce`
runs the on_commit callbacks; `AbortVictim` and `Crash` are the database and the
operating system; `TaskLooks` and `TaskNotifies` are `check_low_stock`.
`LocksNullableJoin` says whether the database accepts `FOR UPDATE` over the
outer join of `transfer_stock`: SQLite, which ignores it, does; PostgreSQL does
not. Quantities are integers (`Decimal` with two places in the code), dates and
costs are left out.

`StockBook` is what the inventory promises without requests, locks and
transactions: one balance per item, changed by whole postings, openings and
transfers.

### StockRequests: the monthly stock request

One request (requests share no rows) with its lines and approval rows. `Load`
is the endpoint; `Check` and `Refuse` the service's checks; `Commit` the writes
of whichever operation the call performs, described by `From`, `To`,
`DecisionOf`, `Cap` and `LinesAfter`; `Conflict` what the database refuses.
`Load` only takes operations whose status check passes on the loaded object,
because the check is made on that same object: the others change nothing.

### StoreHierarchy: the distribution network

`BeginCreate` and `BeginUpdate` load the rows, `Save` is `full_clean` with
`SiteStore.clean` and the full save. A parent sent with the call is loaded with
its type; a parent that is kept is fetched by `clean` itself.

### IssueJobs: an issue and its jobs

| State | Code |
|---|---|
| `present`, `row` | `Job` rows: status and which stamps are set |
| `issue`, `escalations` | the `Issue` row, and the audit rows of its escalations |
| `pc`, `call` | each worker's call with the job and the issue it loaded |
| `overtaken`, `raced` | which calls hold an object older than a commit, and whether one has committed: ghost state, read by properties only |

`LoadJob`, `LoadIssue`, `LoadSpawn` are the endpoints; `ReadSiblings` is the
query of `_close_issue_if_all_jobs_closed`, made by `close_job` after its own
save; `Commit` the writes (`Saved` what is saved on the job, `IssueAfter` on the
issue). A close holds the row it has saved until it commits, so a second writer
of that job waits (`Locked`). The two rows of the statement "a closed issue has
no open job" are written by different transactions from stale objects; where
that goes wrong is exactly where a call commits over a change it has not seen,
and the properties say so with `raced`.

### ReportDelivery: scheduled reports by mail

`Queue` is Beat; `Begin` the task taken by a worker, which works out its period
from the day it *runs* and gets or creates the `ReportDelivery` row;
`SendAccepted`, `AnswerLost`, `SendFails` the three outcomes of `_send_resend`;
`SaveSent`, `SaveSentFails`, `Fail` the two saves and the `except` clause that
covers both the mail and the first save; `Die` a worker that is killed. `doubts`
and `abandoned` are ghost state: they count the events that may cost a duplicate
or a delivery. Recipients are independent of each other, so there is one.

### Attendance: the records of a day

| State | Code |
|---|---|
| `present`, `row` | `AttendanceRecord` rows of one site and day: status, review status, whether `submitted_at` is set |
| `due` | whether `ATTENDANCE_LOCK_AFTER_DAYS` have passed |
| `call` | the rows a call has read and will write (`on`), those it will insert (`new`), and for a single entry the whole row it will save back (`old`) |
| `overtaken`, `raced` | as in IssueJobs |

Each service is one reading action with its checks (`Generate`, `BulkEntry`,
`SingleEntry`, `Submit`, `ReturnRecord`, `ReturnGroup`, `ReviewGroup`) followed
by `Commit`. `Written` says which columns each call writes: one column, or the
whole row. A review goes on to `Lock` in a transaction of its own, which may find
other records than those reviewed, and which the review of any other day of the
site performs too (`ReviewAnotherDay`). `review_attendance_record` and
`save_attendance_draft` are not called by any endpoint and are left out.

### ReportChain: the reports of one day

`report` holds the rows of the four levels, the body of a row what it says: for a
site report the gathered data and its challenges, for a report above the sites
whose urgent issues it has taken up. `LoadsDraft` and `LoadsExisting` are the
endpoints' loads; `GenerateSite`, `Recalculate`, `SubmitSite`, `ReturnSite`,
`ReviewSite` and their counterparts for a zone, the assistant and the management
report begin a call; `Gather` is the service reading the level below
(`site_data_snapshot`, `ZoneIssues`, `AssistantProblems`, `KeyIssues`); `Save`
writes all columns of the row that was loaded; `Note` is
`site_report_challenges_endpoint`, which saves two columns. `sent` is ghost state:
what each report held when it was submitted. A behaviour works on the reports of
one set of `Handled`.

### Inspections

`template` holds the items an edit of the template replaces (`UpdateTemplate`
deletes the old ones, and the answers given to them); `inspection` and `answers`
the rows. `CheckRequired` and `Calculate` are the two queries a submission makes
before `SaveInspection` writes the row whole; `AddResult`, `UpdateResult` and
`UploadPhoto` check that the inspection is editable (`CheckEditable`) before
`SaveResult`. `Score` is `calculate_inspection_score`: the average, rounded to
hundredths, and the verdict.

### Workforce and AreaSchedules: people and where they work

| State | Code |
|---|---|
| `cleaner`, `document` | status of each `Cleaner`, review state of its identity document |
| `program`, `certified` | `TraineeProgram` rows, and those with a final evaluation |
| `post` | `CleanerSiteAssignment` rows |
| `call` | the operation, what it has loaded (status, row, the rows a transfer takes down) and its arguments |
| `stale` | the calls whose loaded rows have been written since: ghost state |

A call begins with one of the loads (`UpdateCleaner` to `ImportAgain`), passes
`CheckIdentity` where the service asks for a verified document, and ends with one
of the saves. `OneTraining` and `OnePostPerSite` are the two partial unique
indexes; a save that would break them does not happen. Registration
(`cleaner_create`) is three transactions: `Register`, `SaveAssign`, `SaveStart`.

`AreaSchedules` is the dated schedules of one cleaner: the comparison with the
active schedules of the date (`SpansOverlap`, minutes modulo 1440) and the insert
or full save, in one transaction that other transactions may overlap.

### Organisation and Supervision: the configuration of a site

`Organisation`: the work mode, shifts, areas and roles with the records that refer
to them (`uses`); `HasOperationalUsage` is the guard with the relation names it
asks for, `CountedRelations` those of them that exist. `Supervision`: the
supervisors of a site with the cap and the primary flag, and the zones of an
assistant; `AssignSite` and `AssignAssistant` are `full_clean` and the look at the
others, `Insert` the commit.

### Rosters, Remuneration, Messaging, Accounts

`Rosters`: a timetable entry and its checklists; `Remuneration`: one site's form of
one month with its lines, contacts and the payment profiles a review writes;
`Messaging`: a direct conversation, the ids its messages take at the insert against
the order they commit in, events, and a client that polls by id; `Accounts`: users,
tokens, the guard on the last administrator, and the revocation inside
`deactivate_user`, which other transactions do not see until it commits.

### Caches and Outbox

`Caches`: `cached_or` as a look, a computation and a store, with `invalidate` inside
the writer's transaction; and `ApiThrottleMiddleware`, which reads the counter and
then sets it. `Outbox`: `emit_event` after the commit, and
`publish_pending_events`, which publishes a batch it has read.

`Office` composes the parts that share no state with each other: the distribution
network, schedules, the configuration and supervision of a site, remuneration,
rosters, messaging, accounts, caches, the outbox and inspections. A behaviour chooses
a part (`part`) and stays with it, so that one specification is checked by one run
and proved about by one module. Its properties are those of its parts, and each is the
inductive invariant of its part, which has the properties that matter as conjuncts
and states beside them what the requests under way hold. `MCOffice` gives the
constants their values.

## 3. The runs

| Run | Question | Instance and why it is enough |
|---|---|---|
| `movements` | stock non-negative and equal to its ledger, transfers paired, one opening a month, alerts coalesce, announcements true, and StockBook implemented | 3 calls over 2 items at 2 stores, stock 2, quantities 1 and 2: three movements drain an item exactly to zero, or one too many; two transfers cross while a third call watches |
| `calls` | the inductive invariant with every operation, and that calls end | 2 calls, a third item to add, signed and zero quantities; a deadlock needs two calls |
| `stages` | accountability trail and quantities of a stock request | 2 workers with any number of calls, 1 line per draft, quantities 0, 1, 2, two payloads (`MaxBatches`), so that one update races every decision |
| `lifecycle` | stamps and status of jobs, an issue and its jobs, under any interleaving of stale saves | 2 jobs, so that one is closed while the other is open or closing; 2 workers; 2 escalations, since one lost escalation needs two |
| `deliveries` | what is recorded as sent was sent, duplicates have a cause, nothing is forgotten, and what was started ends | 3 tasks, 2 at once, of both report types over 3 days with weeks of 2 days, so that a week ends and a day changes in mid-retry; 1 retry, so that it succeeds or runs out |
| `sheet` | attendance is marked when submitted, frozen after, and locked in order | 2 records in 2 shifts, so that groups overlap without being equal; 2 workers (with 3 workers the same properties hold in 7.9 million states) |
| `reports` | a snapshot says what its report says, only what was submitted is taken up above, a submitted report moves only onward | 2 sites of one zone, data with and without alarms, one note, 2 workers with any number of calls; a behaviour works on a site with its zone, or on the levels above the sites, since a level reads only the one below |
| `workforce` | statuses of people, posts and programmes are earned when they change, transfers are whole | 1 cleaner (cleaners share no rows), 2 sites, 2 programmes and 2 posts, so that a second one meets the indexes; 2 workers; `Desks` divides the operations into five sets by what interacts |
| `office` | the invariants of eleven further parts, one at a time, the distribution network among them | each part has 2 workers and what its property needs to go wrong: 3 stores make the longest chain of compatible links, a cap of 2 has 3 supervisors, a page of 2 has 4 messages, an overnight span meets one that starts where it ends, and so on |
| `lost_update`, `postgres_transfer`, `in_use` | a statement of the documentation that the code breaks | the smallest instance that shows it |

Symmetry is declared over identities and workers, where no liveness property is
checked. `CHECK_DEADLOCK FALSE` is given where the system may really
stop: nobody has to call again, and at the bounds (`MaxDay`, used up calls) there
is nothing left to do.

The bounds are `MaxEscalations`, `MaxDay`, `MaxRetries` (the code's 3), the number
of calls or tasks, `MaxBatches`, `Handled`, `Desks`, `MaxSchedules`, `MaxMessages`,
`MaxVersion`, `MaxRequests`, `MaxDays` and the sets of identities. The proofs have
none of them except where a bound is a constant of the code.

`office` is followed only until a call saves on a check that another one has
outdated (`UntilRaced`), in the parts whose properties claim nothing after that.

## 4. Fairness

Two runs check liveness.

`calls`: `FairSpec` assumes weak fairness of `Step(c)`: a
worker that has begun a call keeps executing it, and PostgreSQL looks for
deadlocks (`deadlock_timeout`) and aborts a victim. No call has to begin, none
has to crash, and nobody has to read a notification. A lock wait ends because
its holder, itself fair, ends.

`deliveries`: `FairSpec` assumes that a Celery worker is running: it takes a
queued task when it has a free slot (weak fairness of `Begin`) and carries a task
it took to an end (weak fairness of `Send \/ Save`). Beat need not queue
anything, days need not pass, and workers may die at any point; which outcome a
send or a save has is left open, so `StartedIsSent` does not rest on the mail
service ever answering.

## 5. What is proved

`StockLedgerProofs` proves, for every set of items, stores, calls, months and
quantities allowed by `ConstantsAssumption`:

* `Invariant`: `Spec => []IInv`. The properties alone are not inductive: that
  stock is not negative after `Commit` rests on what `Write` checked, and that
  what it checked is still true rests on the lock being held since. `IInv` adds
  `LocksHeld` (past a lock statement a call holds the lock), `ArgumentsChecked`,
  `ChecksHoldAtCommit`, `LoadedNotNegative` (an edit that writes stale stock back
  at least writes one that was not negative) and `RowsAreCommitted` (rows carry
  the name of a call that is past its commit, so a new row is never confused
  with an old one). There is one lemma per action.
* From it: `TypeCorrect`, `StockNeverNegative`, `TransfersPaired`, `LedgerKept`
  (with the monthly openings) and `AlertsKept` (with the announcements).
* `LedgerMissesEdits`: a step that changes an item's stock without the one movement
  that says by how much is an edit, and puts back the stock that edit had loaded. So
  among movements, transfers, openings and additions no update is ever lost.
* Under the assumption that no call edits an item's metadata
  (`"update" \notin Operations`; the run `lost_update` shows what such an edit
  does): `LedgerExplainsStock` and `LedgerImplementsBook`, the refinement of
  `StockBook`; and `LedgerBalances`, that the stock of an item is the sum of its
  movement rows. That sum is a fold over a set, defined by recursion on a chosen
  order: `SumExists` and `SumUnique` show by way of minimal counterexamples (finite
  sets are well founded under inclusion) that the recursion defines one function,
  `TotalWithout` that the order does not matter, and `TotalWith` that an inserted row
  adds its effect. The initial items are finitely many (`ConstantsAssumption`), as
  rows of a table are.

`StockRequestsProofs` proves all the properties of `stages`, for any number of
workers, items and payloads. No call holds a lock between its checks and its
commit, so the invariant says what nevertheless stays true of what it checked:
`LoadedInOrder` (accountability rows are never deleted, so the decisions before
the status it loaded are still there), `PayloadsHold` and `PrefetchedHold` (the
quantities that cap its own cannot have changed, because the unique constraint
on a stage refuses the only commits that would change them), `KeysAreUnique`
(a replaced line is not mistaken for a new one). At the commit, the constraint
also says that its own stage and the later ones are undecided (`Undecided`).

`IssueJobsProofs` proves all the properties of `lifecycle` for any number of
jobs and workers, and `AttendanceProofs` those of `sheet`. Both rest on one idea.
What a call has loaded or read is a snapshot, and a snapshot says nothing of the
rows once somebody else has committed; so the invariant cannot say that what was
checked still holds. It says that it holds *unless the call is in `overtaken`*
(`UpToDate`, `SnapshotsHold`), which each commit maintains by adding the calls
whose snapshots it outdates. `LoadedInOrder` and `CallsInOrder` say what was true
of every snapshot when it was taken, whatever has happened since. A property of
the form "P, unless a call committed over a change" then follows at the commit of
a call that is not overtaken from the two together; `StampsMatchStatus`, which has
no such exception, follows from `LoadedInOrder` alone, because a full save writes
status and stamps from the same snapshot.

`ReportDeliveryProofs` proves `DeliveriesHold` and `NothingForgotten` for any number
of tasks, days and retries. That no mail is sent without a cause is a sum, and the
invariant `DoubtsCover` bounds it: the mails of a period, and the attempts that may
still add one, are at most its doubts, and one more while somebody has it in hand
or the row says sent.

`ReportChainProofs` proves `SnapshotsAreReported`, `OnlyWhatWasSubmitted` and
`SubmittedReportsStand` for any sites, zones, data and workers. Rows that were
loaded are as good as rows that are there, because what was submitted once stays in
`sent` (`RowHolds`); and a row that nobody has written since it was loaded is the
row itself (`CallHolds`), which is what a full save needs to leave the other columns
alone.

`WorkforceProofs` proves `OneAtATime`, `Changes` and `WholeTransfers` for any number
of cleaners, sites, programmes, posts and workers. The invariant says that the rows
a call goes by belong to its cleaner, who stays registered (`RowsBelong`), and that
they are still what it loaded unless it is in `stale` (`Fresh`); `OtherCalls` shows
once, for every write (`Touches`), that the calls of others keep both.

`OfficeProofs` proves all the properties of `office`, for any number of workers and
of whatever each part keeps. A step of `OfficeNext` is one of the part that was picked, so
each theorem needs an invariant of its part and nothing of the others; the `ASSUME`
of each part in `Office` names what is assumed of its constants: a table is finite
where rows of it are counted, a bound is a number, and a blank is not a value.

| Theorem | The invariant, and why the property is not inductive without it |
|---|---|
| `LinksStayCompatible`, `NetworkIsAcyclic` | only under `~TypesMayChange` (section 6 says what happens otherwise): a parent once loaded still exists with that type; compatible links make chains of at most two |
| `SchedulesStaySound` | `NoneOverlap`, what the service's comparison says of two saved spans, with `ComparedFit` for the rows of a request between its comparison and its save. `CommonMinute` shows that the comparison, which goes by differences modulo 1440, finds every pair with a common minute, spans past midnight included |
| `ConfigurationStaysFit` | `ChecksHold`: what a request loaded is there, and what it checked is still allowed, unless it was overtaken |
| `SupervisionStaysFit` | `ChecksHold`: there is still room, and no other primary but those it will demote, unless another was inserted since; an assignment that ends outdates nothing |
| `PaidAsSubmittedAlways` | `LinesAreKept`: a line that was shown once is never deleted, so a form loaded earlier shows lines that exist; `LoadedWasAccepted`: the status checks are made on the loaded form |
| `ChecklistsAlwaysStand` | `CallsFit`: what a request knows of the entry and checklist it loaded, which outlives every save because entries are never reset |
| `MessagesAlwaysArrive` | `MessagesExist`: what is announced, fetched or committed has been inserted, and the last id of the client is that of a message it can see |
| `AccountsStaySound` | `LoadedIsCurrent`: a request nobody overtook goes by the row as it is, and its actor is an active administrator; `RevokedAreAll`: what a deactivation under way has revoked are all live tokens, but the late ones |
| `CachesStaySound` | `CallsHold`: what a worker computed is current unless it is outdated, and what it invalidated stays empty unless it is crossed; `ServedAreCounted` |
| `EventsFollow` | `HeldIsCommitted`: what a callback or a batch holds has been committed |
| `InspectionsStaySound`, `FailuresAreAnnounced`, `AnswersOfSubmittedStand` | `LoadedIsCurrent`: a request that is not stale goes by the row, the required answers and the score as they are; `StandingIsAnnounced` covers every failed answer and not just those of a failed verdict. `VerdictFails`: whatever the average, the verdict is failed if and only if an item is |

Two properties that runs check are not proved, and both are liveness under
fairness (`BegunCallsFinish`, `StartedIsSent`), which is out of reach of the
prover. Every other invariant, action property and refinement of a passing run is
the statement of a theorem.

## 6. Where code and documentation disagree

Shown by runs: `lost_update` (an edit of an item writes stale stock back),
`postgres_transfer` (every transfer fails on PostgreSQL) and `in_use` (the guards
that keep an area or a role in use ask for relations that do not exist:
`schedules`, `role_assignments`, `task_assignments`; the tests replace the guard).

Seen while modelling, without a run of their own:

* A submit on a stale draft moves a verified stock request back to submitted
  ("Only draft requests can be submitted").
* `docs/ASSUMPTIONS.md` says that an issue becomes closed when every linked job is;
  two closes at once each see the other's job open, and the issue stays open.
* The README says that a successful period is never sent twice to the same
  recipient; two tasks queued for one period, which both look before either has
  saved, send it twice (`DuplicatesAccounted` counts them).
* "At least one active System Administrator account must remain"
  (`accounts/api.py:236-239`): two administrators who deactivate each other at the
  same time leave none. An update to inactive (`PATCH`) keeps the account's tokens,
  which work again when it is activated, and so does a changed password.
* "Only ACTIVE cleaners hold ACTIVE assignments" (`models.py:1125`) holds when an
  assignment becomes active; deactivating a cleaner leaves his active ones.
* `invalidate_prefix` (`core/cache.py`) looks for raw keys that start with the
  namespace and finds none, as the backend prefixes them: report status, and the
  zone's name in the detail of a site, are served until their timeout.
* Area schedules are compared per date, so one past midnight is not compared with
  those of the next day.
* An update that loaded a shift before it was deactivated saves it active again.
* A returned zone or assistant summary is stuck: generating wants a draft, and so
  does submitting. `missing_site_reports` does not count drafts.
* A remuneration line for a new cleaner is added to a form that has been submitted;
  a roster entry saved after its deletion is inserted again.
* `update_store` (`store_services.py:143`) validates the link from the edited
  store to its parent, not those from the stores it supplies: a super store made
  a site store under its own child closes a circle, which
  `docs/store-management-workflow.md:5` rules out. TLC finds it in
  `office` as soon as `TypesMayChange` is TRUE.
* `docs/ASSUMPTIONS.md:258` says that only draft and returned attendance is
  editable and that it goes from draft to submitted, reviewed and locked;
  `submit_daily_attendance` takes the records of the day in whatever state they
  are, so a second submission moves reviewed and locked records back to submitted
  (`LockHolds` names that exception). A returned group includes drafts that were
  never submitted.
* The weekly and monthly report schedules (`signals.py:85-86`) combine a day of the
  month with a weekday, and with January: Celery requires both.
* A daily report task that waits past midnight reports the new day's period; its own
  day is never sent unless another task runs for it.
* `StockMovement`'s docstring (`models.py:1673-1675`) says issued, damaged and
  lost quantities are negative; `record_stock_movement` stores `abs(delta)`.
* `notify()` says repeated alerts coalesce (`services.py:466-467`); it looks and
  then inserts, so the periodic task and a movement may each insert one.
  `FewUnreadAlerts` states what does hold: never a third.
* `update_stock_request` on a stale draft replaces the lines of a submitted
  request, and two concurrent updates leave the lines of both.
* `StockRequest`'s docstring (`models.py:1749-1751`) and the summary of the
  complete endpoint say that completion issues stock; `complete_stock_request`
  only sets the status.
* `DomainEvent` is documented as written inside the producing transaction
  (`core/models.py:130-132`); it is written after it, and lost if the process
  dies in between.

## 7. Not modelled, and the plan

Left out of parts that are modelled, and why:

* zone supervisors (`services.py:694-736`), which differ from site supervisors by
  having no cap and one unique index; the shift bindings of an assignment
  (`assignment_services.py:199-246`), which a unique index keeps; departments,
  assets, staff and the archive of a site, which are edits of single rows;
* group conversations and `mark_read`; the bulk actions of the Django admin site on
  accounts (`accounts/admin.py:63-105`), which bypass the services' rules; the other
  cached lists, which have the code of those modelled; the monthly report task and
  the briefs of `tasks.py`;
* `review_attendance_record`, `save_attendance_draft` and
  `generate_weekly_site_report`, which no endpoint calls or which only read.

Next: the retirement of a site through its archive with all that refers to it; the
composition of attendance with remuneration and of issues with reports, which today
meet through a set of inputs; of the proofs, what remains true of the network when
types change, and abstract specifications of other parts, the
accountability trail of a stock request first.

Not modelled at all: exports, dashboards, selectors and pages (read-only), the React
frontend, the admin site beyond the actions that call services, PDF rendering,
external integrations and the optimisation heuristics (calls to a model), file
storage, validation of formats, and access policies, which are predicates over one
user and one row and appear as who may take a step.
