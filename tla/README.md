# TaskFlow in TLA+

A verification development for TaskFlow, the FastAPI / PostgreSQL / Redis / Celery
task manager of this repository: TLA+ modules of its parts, TLC configurations that
check them on small instances, and theorems that TLAPS proves for every instance.

## 1. The system and its parts

| Part | Code | State it keeps | Operations |
|---|---|---|---|
| Task API | `app/api/v1/tasks.py`, `app/services/task_service.py` | rows of `tasks` | create, list, get, PATCH, delete |
| Projects | `app/api/v1/projects.py`, `app/services/project_service.py` | rows of `projects` | create, list, get, PATCH, delete (cascades to tasks) |
| Listing cache | `app/services/cache_service.py` | Redis keys `taskflow:cache:user:<id>:tasks:<hash>` | get, set with TTL, purge by SCAN + DEL |
| Database session | `app/core/database.py` `get_db` | one transaction per request | commit after the handler, rollback on an error |
| Redis client | `app/core/redis.py` | connection pool, in-process fallback | PING, fall back, close |
| Notification worker | `app/workers/tasks.py` 21-138 | rows of `notifications` | one job per reassignment and status change, 3 retries |
| Overdue scan | `app/workers/tasks.py` 141-221 | rows of `notifications` | periodic scan, one notification per overdue task and recipient |
| Inbox | `app/api/v1/notifications.py` | rows of `notifications` | list, mark one read, mark all read |
| Accounts | `app/api/v1/auth.py`, `app/services/auth_service.py`, `app/api/deps.py` | rows of `users` | signup, login, profile, authentication of a request |
| Health, metrics | `app/api/v1/health.py`, `app/core/metrics.py` | Prometheus counters, gauge of requests in progress | probe, count |
| Schemas, settings, deployment | `app/schemas`, `app/core/config.py`, `docker-compose.yml` | none | |

How they meet:

- Handlers are coroutines of one event loop (and of several processes): everything
  between two awaits is atomic, everything else interleaves.
- `get_db` is a dependency with a `yield`: the handler runs, its response is built,
  and only then does the session commit. Hence the cache is purged and `.delay()` is
  called *before* the commit.
- The session runs under READ COMMITTED: each statement sees what was committed when
  it started, so the row loaded, the row refreshed, the count and the page of one
  request may come from four different states.
- UPDATE and DELETE lock their rows, an INSERT of a task locks its project by its
  foreign key; locks last until the commit, across all awaits on Redis. PostgreSQL
  aborts one of the transactions that wait for each other.
- The API hands jobs to Celery through Redis, by a synchronous call on the event loop:
  while `.delay()` waits for an answer the whole process stands still. Workers write `notifications` in
  transactions of their own, with foreign keys to `users` and `tasks`. Celery Beat
  enqueues a scan every minute and `docker-compose.yml` runs workers with two
  processes.

What is hard, and so what the properties are about: the order of purge, commit and
cache fill; what a handler knows of a row after it has awaited; locks held across
awaits; failures of Redis or of the broker that are swallowed; jobs before commits.
Each hazard is listed in `PROJECT.json` at the line where it bites.

Correctness, part by part:

- Task API: a row changes only as a request of its project's owner asked; a write
  never outlives its project; requests wait for each other in a circle only if two of
  them delete one project, and every one is answered; from outside, the table changes
  one whole write at a time.
- Listing cache: never somebody else's tasks; stale only for reasons one can name.
- Jobs: every change that is committed was announced to the right user, unless the
  broker refused the job.
- Workers: a job leaves a bounded number of notifications; a task gets one overdue
  notification per recipient.
- Accounts: one account per mailbox; a PATCH has its effect and undoes no other; projects
  are their owner's.
- Inbox: a notification is read exactly when its recipient's request to read it was
  answered; pages lose and repeat nothing but for reasons one can name; which requests
  and jobs may be the victim of a deadlock.
- Redis client: with the fallback installed an outage fails no listing and no write, a
  Redis that hangs keeps only those whom one can name, nothing leaks, no copy of a
  listing is old without a reason, and answers mean what they say.

## 2. The modules

| Module | What it models | Built on |
|---|---|---|
| `TaskData` | rows of `tasks`, PATCH bodies, what the ORM writes of one | |
| `TaskTable` | abstract: what the committed table promises | `TaskData` |
| `TaskApi` | create, PATCH, delete and list of tasks, deletion of projects; transaction, cache, broker | `TaskData`, `TaskTable` |
| `Notices` | abstract: what the jobs promise who sees only committed rows, deliveries and ends of jobs | |
| `NotifyWorker` | `notify_task_reassigned`, `notify_task_status_changed` | `Notices` |
| `OverdueScan` | `check_overdue_tasks` | |
| `Paging` | the page of a listing, and its frame | |
| `Mailbox` | abstract: what the inbox promises who sees only committed rows and answers | |
| `Inbox` | the three endpoints for notifications, insertions of the workers, deletions of tasks and projects | `Paging`, `Mailbox` |
| `Directory` | abstract: accounts and projects, one step for each request | |
| `Accounts` | signup, login, profile, and the five endpoints for projects | `Paging`, `Directory` |
| `ApiProcess` | one process: event loop, middleware, both connection pools, row locks, Redis and its fallback, health probe | |
| `MCTaskApi`, `MCNotifyWorker`, `MCOverdueScan`, `MCInbox`, `MCAccounts`, `MCApiProcess` | the instances that TLC checks | |
| `TaskApi_proofs`, `TaskApiCache_proofs`, `TaskApiCommit_proofs`, `NotifyWorker_proofs`, `OverdueScan_proofs`, `Inbox_proofs`, `Accounts_proofs`, `ApiProcess_proofs` | theorems and their proofs | |

The line of the source that each definition stands for is in `PROJECT.json`, "map".

### TaskApi

One request is one element of `Req`; `pc[r]` is where its coroutine is suspended, `call[r]`
what the client sent. A step runs from one await to the next:

| Handler | Steps |
|---|---|
| POST /tasks | `BeginCreate` (project owned, assignee active), `CreateFlush` (sequence, foreign key, refresh), purges, `Dispatch`, `Commit` |
| PATCH /tasks/{id} | `BeginUpdate` (row loaded, ownership, assignee), `UpdateFlush` (UPDATE of the columns that differ), `UpdateRefresh`, purges, `Dispatch`, `Commit` |
| DELETE /tasks/{id} | `BeginDelete`, `DeleteFlush`, purge, `Commit` |
| DELETE /projects/{id} | `BeginDrop`, `DropLoad` (the tasks), `DeleteRow` for each of them, `DropProject` (the row of the project), `CascadeRow` for each task committed since, `Commit` |
| GET /tasks | `BeginList` (cache), `Count`, `Select`, `Fill` or `FillFails` |
| purge of one user | `Scan`, `Del`, or `PurgeFails` |
| `get_db`, the end of the process | `Commit`, `Rollback` |
| PostgreSQL | `BreakDeadlock` (the victim of a deadlock) |
| Redis | `Expire` |

State and code: `projects`, `tasks`, `issued` are the committed rows and the sequence of
ids; `pend[r]` is what the session of `r` has flushed (its kind says which rows it locks,
`Locks`, `Drops`, `Extended`); `left[r]` is what the deletion of a project has still to
delete; `loaded[r]` and `seen[r]` are the ORM object before `setattr` and after `refresh`;
`purge[r]`, `scan[r]` are the loop over users and the keys between SCAN and DEL; `page[r]`
is the listing under construction; `cache` is Redis; `queue` and `refused` are the calls of
`.delay()` that went through or raised.

The checks at the head of a handler are several SELECTs in the code and one step here:
projects are only ever removed, never change hands, and nobody is deactivated by an
endpoint, so a later SELECT can only find the project or the row gone, which the flush
or the refresh notices as well.

The deletion of a project takes its locks one by one: `db.delete` loads the tasks, the
flush deletes these by their ids and then the project, and the foreign key deletes what
was committed in between. `WaitsFor` says who waits for whom, `Victim` whom PostgreSQL
may abort.

`raced`, `unpurged` and `excused` are history variables. They name the three reasons
for which a cached listing may be stale, so that `StaleOnlyIfExcused` can say that
there is no fourth; no guard reads them.

### NotifyWorker

A job is taken off the broker (`Take`, acknowledged at once), inserts its notification
(`Insert`; the foreign key waits for a pending DELETE of the task and sees committed
rows only), commits, refreshes, delivers (`Send`). Any error goes to `Retry`: the same
job with one more retry, or its end after `max_retries`. `FailBefore` and `FailAfter`
tell apart errors before and after the commit took effect, a lost answer to the COMMIT
being one of the latter. `Crash` loses the job. The API is here only as far as a job
can see it: `Create` is a flushed and uncommitted INSERT, `Delay` is `.delay()`, which
`create_task` calls before its commit (`CommitCreate` waits for it), `update_task` at a
time when the row may meanwhile have been deleted. `outcome`, `sent` record what became
of a job and its delivery; `faulty` and `failed` are history: errors after a commit, and
attempts that failed although the task was on record.

`Notices` has no processes, messages, locks or uncommitted rows. An open job may leave a
notification when its task is on record and its count of retries allows one more (`Note`),
fail before or after one, or be delivered (`Deliver`). `IsNotices` maps `row` to the
committed rows and `retries` to the count in the one message of an open job, which waits
with the broker or is in the hands of a process.

### OverdueScan

`Begin` is the query for overdue tasks, `Visit` the look-up of a task's project (in the
session's identity map, which keeps only what is still referenced: `last`), `Check` the
query for an earlier notification and the delivery, `Commit` the commit of them all.
The session has autoflush off, so a scan does not see its own additions; it visits each
task once, so that does no harm. `overdue` stands for due date and status together, and
the passing of time is one of the things `Change` does. `notes` counts committed
notifications for each task, user and writing process. `owed` (delivered, not on
record) and `raced` (committed by others during a scan) are history.

### Inbox

| Endpoint | Steps |
|---|---|
| PATCH /notifications/{id}/read, POST /notifications/read-all | `BeginMark` (SELECT; 404), then for each row that was unread `Aim` and `Write`, `Commit` |
| DELETE /tasks/{id}, DELETE /projects/{id} | `BeginDelete` (tasks loaded; 404), then for each task `DeleteRow` and, for each notification of it, `Aim` and `Write`, `Commit` |
| GET /notifications | `BeginList`, then for each page that the client turns `Count` and `Select` |
| a notify job, a scan | `BeginInsert`, then for each notification `Aim` and `InsertRow`, `Commit` |
| `get_db`, the worker's `except`, PostgreSQL | `Rollback` in `Fail` (an error), `InsertRow` (the task is gone) and `BreakDeadlock` (the victim of a deadlock) |

`there` and `row` are the committed notifications, `gone` the deleted tasks. `holder` and
`draft` are who has a row locked and what he has made of it, `grip` the lock on a task under
deletion, `todo` and `doomed` what a flush has still to do, `want` the row it waits for.
`Aim` chooses the next row: the unit of work of SQLAlchemy sorts UPDATEs by primary key, and
the DELETEs of tasks too, while the foreign key updates the notifications of one task in
whatever order it comes upon them. `Write` changes one column of the newest version of the
row, as an UPDATE that has waited does. The rows of a worker are inserted at its commit,
since its session has autoflush off; each takes a lock on its task by the foreign key
(`Shares`) and keeps it while the next one waits for a task under deletion, as a deletion
waits for it. A scan finds its tasks when it begins, whatever becomes of them then; which
tasks it looks for and why is in `OverdueScan`, and the retry of a notify job in
`NotifyWorker`. Two requests may delete one project. A project is known by its tasks here;
those created while it is deleted are in `TaskApi`, where they are what makes two deletions
deadlock. `start`, `missed`, `twice` and `moved` are history, kept for clients that turn
pages.

`Mailbox` has neither locks nor places: a marking is its SELECT (`FindAll`, `FindOne`) and
one step `Mark`, the one in which it is answered; an insertion is what it has found
(`FindTasks`) and one step `Insert`, of all of it or nothing; a deletion is one step
`Delete`; who fails (`Refuse`) has changed nothing. `IsMailbox` maps `found` to what a
marking or an insertion has loaded and `answer` to the answers of all but listings.

### Accounts

A step is a SELECT, or a flush with its refresh and the commit after it. That is
justified by the locks: from the flush on nobody sees what was written before the commit,
and whoever updates that row or inserts that email waits. So `Check` and `InsertAccount`
are apart, as are `GetProject` and the UPDATE or DELETE that follows it, and everybody
else may come in between. `Authenticate` is `get_current_user`; it loads the row (`user`)
that `UpdateMe` is compared with. An attribute is part of the UPDATE only if it was set to
something other than what was loaded, a new Argon2 hash always differs. `tokens` are the
accounts that have logged in: any of them may be sent by any client, `BadToken` stands for
one that does not verify. `Deactivate` is an operator; no endpoint writes `is_active`.
`met` is history: which fields of a PATCH had the value it asked for while it ran.

In `Directory` a request is two steps, its arrival (`Ask`) and its answer. An answer that
grants something acts on the rows as they are at that moment; a refusal must have its
reason at that moment (`Rightly`), only an error of the database needs none. `Edit` and
`SetProfile` leave one choice, since the ORM does not send an attribute that is set to
what was loaded. `IsDirectory` maps `asked` to the call of a request that has arrived.

### ApiProcess

Where `TaskApi` has rows and filters, this module has one listing whose copy is current or
old, the rows of one project as things to lock, and what lies below a command to Redis. A
request is a listing, a create, a change (PATCH or deletion of a task), a drop (deletion of
a project) or a health check. `req[r]` is the request: its place, the client that
`get_redis_client` gave it, the listing it has read, the rows it has still to write and
those it has locked. `Query` writes a row once nobody else has it locked (`WaitsFor`) and
keeps the lock until `Commit`, across its SCAN and DEL. A drop uses no Redis: its `Commit`
makes the copies old and purges none, which is a reason of its own in `excused`. After the
purge a write may be in `.delay()` (place `delay`): Redis is the broker too, so `Deliver`
needs a Redis that does not hang, and until then the event loop stands (`LoopStands`): no
other request takes a step. A command on the pool is `Send` (a connection is taken) and
`Reply` or `Break`; with no connection left it is `Full`, which raises at once. No socket
timeout is set, so a request that has sent something to a Redis that hangs stays where it
is, with its connections. `Raises` is what each caller makes of the exception:
`get_redis_client` falls back to the in-memory client, if the `fakeredis` package is there
to import (`installed`, one of `Images`; it is listed in `requirements-dev.txt` only) and
otherwise fails the request; the cache service goes on without; the probe reports it.
`Local` is a command to the fallback. `RedisTurns` is Redis going down, hanging and coming
back, with whatever its snapshot held. `busy` and `others` (requests that neither use Redis
nor write tasks, `Elsewhere`) are connections to the database: `pool_size` and
`max_overflow` are one number, `DbConnections`, and who waits 30 seconds fails (`TimesOut`).
`Becomes` ends a request: session closed, gauge down. `Restart` loses everything that is in
memory, and one command that was under way may have been executed. `excused`, `trouble` and
`raced` are history.

## 3. What is checked

| Run | Shows |
|---|---|
| `safety` | Three requests of two users, any interleaving, Redis, broker and database failing anywhere: `TypeOK`, `TenantIsolation`, `StaleOnlyIfExcused`, `ReferentialIntegrity`, `OnlyAsAsked`, `ChangesAreAnnounced`, `IsTaskTable` |
| `live` | writers that wait for each other's rows, two deletions of one project among them: `DeadlocksAreDeletions`, `RequestsFinish` |
| `stale`, `phantom` | counterexamples to promises of the repository's README, see 5 |
| `notify` | two jobs, two processes, every fault: `TypeOK`, `BoundedNotes`, `JobsEnd`, `EventuallyNotified`, `IsNotices` |
| `overdue` | two processes, two tasks, faults: `TypeOK`, `OncePerProcess`, `RepeatsOnlyRaces` |
| `overdue_live` | the same with one user, once errors cease: `EventuallyNotified`, `AlertsAreRecorded` |
| `overdue_twice` | counterexample, see 5 |
| `inbox` | markings, deletions, a client turning pages, a job or a scan that inserts, errors: `TypeOK`, `OnlyBulkDeadlocks`, `ReadIffToldSo`, `MissedOnlyIfMoved`, `TwiceOnlyIfAdded`, `RequestsEnd`, `IsMailbox` |
| `accounts` | three requests, every SELECT a step: `TypeOK`, `OneAccountPerMailbox`, `SignupsDecided`, `PatchTookEffect`, `ChangedAsAsked`, `OwnersOnly`, `IsDirectory` |
| `apiprocess` | listings, health checks and writers of the same rows over pools at their limit, Redis and process failing, with the fallback and without: `TypeOK`, `NothingLeaks`, `GaugeIsExact`, `StaleNeedsCause`, `AnswersMean`, `OnlyHungRedisBlocks` |
| `no_fallback` | counterexample, see 5 |

`IsTaskTable`, `IsNotices`, `IsMailbox` and `IsDirectory` are refinements: under the mapping
`unused <- Unused` the committed rows of `TaskApi` take exactly the steps of `TaskTable`,
one whole write at a time; those of `Inbox` and `Accounts`, with their answers, the steps
of `Mailbox` and `Directory`; those of `NotifyWorker`, with deliveries and ends of jobs,
the steps of `Notices`. `NoDanglingNote` of `NotifyWorker`, `NoDanglingLinks` of `Inbox` and
`DeletedForGood` of `Accounts`, which the abstract specifications contain, have no run of
their own; all three are proved. Every passing property has a mutant in `PROJECT.json`, a
plausible bug of the code that breaks it under the same configuration.

What the runs say of the code where one would not guess it, in words:

- Of all writers of tasks and projects only two deletions of one project can deadlock, by a
  task that was created between their loads. `mark_all_notifications_read` and a scan
  that reports several tasks can deadlock with a deletion, never with each other, nor can
  deletions that find the same tasks. PostgreSQL lets one of them fail as a whole, and
  that is never who marks or inserts a single notification.
- A client that turns pages misses a notification only if another one left its listing or
  one arrived between the COUNT and the SELECT of a page.
- Of two racing signups the loser is answered 500 and not 400, but always for a reason.
- A PATCH of a profile that sends what is there already writes nothing, and yet while it
  ran its value was there.
- An outage of Redis fails no listing and no write while the fallback can be imported. A
  Redis that hangs keeps who has sent it a command; whoever wants a row that such a
  request has locked; and, from the first `.delay()` on, everybody in the process, the
  health probe included. Nobody else.

### Bounds

- **Three requests**, each sent once, of any of the calls in `MCCalls`. A race needs a
  writer and a reader or two writers; the third is there to have filled the cache
  before, or to delete the row or project under both.
- **Users**: the owner, another active user with a project of his own, one who is
  inactive. `MCCalls` has calls that fail each check (a foreign task, an inactive
  assignee, a null status) next to ones that pass.
- **Task ids**: two rows and one id to draw in `safety`. When ids run out a create
  waits, which costs safety nothing; `live` has an id for every request, so that no
  request waits for an id for ever, and starts with a task in the project or without: the
  DELETEs go by id and a new task has the last one, so with three requests it takes an
  empty project for two deletions to deadlock over a create (the second finds the task
  that the first did not, and each then needs what the other has).
- **Two queries**, all tasks and those to do, so that a change of status moves a task
  between listings and a purge has several keys. Details are two, and requests of TLC
  leave them alone: only a theorem covers those.
- **Two jobs** about one task, one from each handler, and `MaxRetries = 3` as in the
  code. Jobs meet only at the row of their task.
- **Two tasks** of one project and two processes in `overdue`, as `docker-compose.yml`
  starts; `Rows` says what each task may become, so that one is put off or done and the
  other reassigned. `overdue_live` has a single user, as its property speaks of one
  recipient at a time.
- **`inbox`**: four notifications about two tasks, two of them to be inserted, ids so
  chosen that the order of notifications and the order of their tasks disagree, as a
  deadlock of a marking with a deletion needs. Each request has calls of its own: markings;
  markings or deletions; a deletion of both tasks or a client with pages of one row; a job
  or a scan of both tasks. Two requests may so delete one project. `MaxId` bounds ids.
- **`accounts`**: three requests, two mailboxes, one of them spelled in two ways, an account
  with a project, and ids of two more accounts and one more project to be drawn; a second
  POST of a project then waits, which costs safety nothing. `Calls` has a
  PATCH that sets what is there, one that sets a null name, calls with a foreign and
  with a bad token.
- **`apiprocess`**: one connection to Redis and two to the database, so that both pools can
  be full with two requests; the second may be taken by `others`. One request is a
  listing or a change of a task, the other a write of any kind or a health check; they
  come again after their answer, for ever. One task in one project is all there is to
  lock; three writers, each waiting for the next, are beyond these bounds.
- Requests and processes are interchangeable, so the safety runs of `TaskApi`,
  `OverdueScan` and `Accounts` use symmetry; runs with liveness do not.
- `CHECK_DEADLOCK FALSE` where requests and jobs are finitely many and the system
  rightly stops when the last is done. `OverdueScan` never stops and is checked.

### Fairness

- `TaskApi`: weak fairness of `Proceed(r)`, of a request that has arrived: the event
  loop resumes every coroutine that is ready, PostgreSQL grants a lock that is free. And
  of some victim being chosen while there is a deadlock (PostgreSQL looks for one after
  `deadlock_timeout`). None of clients, of failures, or of a time to live being over.
- `NotifyWorker`: weak fairness of `Work(w)`, processes run; strong fairness of
  `Insert(w)`, since PostgreSQL serves those who wait for a row in turn and a new DELETE
  does not overtake; and weak fairness of `CommitDelete(t) \/ RollbackDelete(t)`, which is
  what `RequestsFinish` says of the request that deletes. None of `CommitCreate` or of
  clients.
- `OverdueScan`: weak fairness of some process beginning a scan, as Beat sends the job
  every minute, and of each process's steps.
- `Inbox`: weak fairness of somebody going on or, if there is nothing but a deadlock, of a
  victim being chosen. That is less than fairness to each, and enough, as requests are
  finitely many and each has finitely many steps.
- `ApiProcess`: strong fairness of the steps of a request and of its getting a connection
  to the database or the timeout of waiting for one, and weak fairness of `Deliver` while
  Redis does not hang. Strong, because other requests come in between again and again, with a lock, a connection or a
  `.delay()` of their own: asyncio runs what is ready first come, first served, and so do
  PostgreSQL's locks. None of Redis ever answering, of `Elsewhere` returning a connection,
  of copies expiring, or of clients.

`live` has faults switched off: a request that fails owes nothing but its answer. All
other liveness is checked with faults. What cannot hold through them says so itself:
`EventuallyNotified` of a job excepts an error of that very job and the loss of its
process, and the two properties of `overdue_live` are under `ErrorsCease`, for a scan whose
every batch fails notifies nobody. A batch that fails because a task was deleted is no
such error and goes on.

## 4. What is proved

TLAPS proves, for every value of the constants that satisfies the named assumptions:

| Theorem | Statement |
|---|---|
| `TaskApi_proofs!TypeCorrect` | `Spec => []TypeOK` |
| `TaskApi_proofs!NoOrphans` | `Spec => []ReferentialIntegrity` |
| `TaskApi_proofs!WritesAsAsked` | `Spec => OnlyAsAsked` |
| `TaskApi_proofs!OnlyDeletionsDeadlock` | `[]DeadlocksAreDeletions` |
| `TaskApi_proofs!NobodyIsStuck` | `[]SomebodyGoesOn`: of requests that wait only for each other one goes on, or a deadlock is broken |
| `TaskApiCommit_proofs!ImplementsTable` | `Spec => IsTaskTable` (refinement of `TaskTable`) |
| `TaskApiCommit_proofs!CommitsAreAnnounced` | `Spec => ChangesAreAnnounced` |
| `TaskApiCache_proofs!CacheIsTenantSafe` | `Spec => []TenantIsolation` |
| `TaskApiCache_proofs!CacheIsExactUnlessExcused` | `Spec => []StaleOnlyIfExcused` |
| `NotifyWorker_proofs!TypeCorrect`, `NotesAreBounded`, `NotesHaveTasks` | `[]TypeOK`, `[]BoundedNotes`, `[]NoDanglingNote` |
| `NotifyWorker_proofs!OpenJobsHaveMessages` | `[]OpenInv` |
| `NotifyWorker_proofs!ImplementsNotices` | `Spec => IsNotices` (refinement of `Notices`) |
| `OverdueScan_proofs!TypeCorrect`, `NoRepeatByOneProcess`, `RepeatsAreRaces` | `[]TypeOK`, `[]OncePerProcess`, `[]RepeatsOnlyRaces` |
| `Inbox_proofs!TypeCorrect`, `BulkDeadlocks`, `ReadFaithfully`, `LinksHold` | `[]TypeOK`, `[]OnlyBulkDeadlocks`, `[]ReadIffToldSo`, `[]NoDanglingLinks` |
| `Inbox_proofs!PagesAreCut` | the pages of any finite listing, their frame included |
| `Inbox_proofs!PagesMissNothing`, `PagesRepeatNothing` | `[]MissedOnlyIfMoved`, `[]TwiceOnlyIfAdded` |
| `Inbox_proofs!NobodyIsStuck` | `[]SomebodyGoesOn`: a lock has a holder that goes on, or a deadlock is broken |
| `Inbox_proofs!ImplementsMailbox` | `Spec => IsMailbox` (refinement of `Mailbox`) |
| `Accounts_proofs!TypeCorrect`, `OneAccount`, `SignupsAreDecided`, `PatchesTakeEffect`, `DeletionsStay`, `AccountsChangeAsAsked`, `ProjectsAreTheOwners` | `[]TypeOK`, `[]OneAccountPerMailbox`, `[]SignupsDecided`, `[]PatchTookEffect`, `[]DeletedForGood`, `ChangedAsAsked`, `OwnersOnly` |
| `Accounts_proofs!ImplementsDirectory` | `Spec => IsDirectory` (refinement of `Directory`) |
| `ApiProcess_proofs!TypeCorrect`, `NothingIsLeaked`, `GaugeCounts`, `StaleHasCause`, `AnswersAreTrue` | `[]TypeOK`, `[]NothingLeaks`, `[]GaugeIsExact`, `[]StaleNeedsCause`, `[]AnswersMean` |

**Transactions.** None of the properties is inductive: that a row belongs to the
caller at the commit follows from a check made several awaits earlier. `Ind` of
`TaskApi_proofs` says what carries it there. `PlaceInv` and `PendInv`: the place of a
request determines its call and what it has flushed. `LockInv`: row locks exclude each
other, and a row with a pending UPDATE is there. `IdInv`: an id is drawn once, so the
task a request has found is never another one later. `ProjectInv`: the foreign key,
and the lock that keeps the project of a pending INSERT. `CheckInv`: the ownership and
assignee checks, still true as long as the row exists. `NoOrphans` and `WritesAsAsked`
are consequences.

**Refinement.** `ImplementsTable` maps every step to one of `TaskTable` or to a
stutter. An id that is drawn and not committed still counts as unused (`Drawn`), so a
flush is a stutter, a commit the write that `PendInv` says was asked for, and the
rollback of an INSERT `Waste`. Deleting a row or a project that another request has
deleted first is a stutter too: for the project, because `ReferentialIntegrity` leaves
it no tasks.

**Jobs.** For `ChangesAreAnnounced` the row that `refresh` read back must still be the
one the commit writes, awaits later (`SeenOK`: the row lock), and all jobs worked out
from it must have been sent by then (`SentOK`). A column is part of the UPDATE only if
it differs from the row as loaded, which is what the jobs compare with.

**Cache.** `TenantIsolation` needs only that the page under construction belongs to its
reader (`PageInv`). `StaleOnlyIfExcused` needs two facts about time windows:
`UnracedInv`, a GET that is not in `raced` holds a count and items that are those of
now; and `PurgedInv`, once a writer is exposed the entries of its user are gone, on
their way out, or excused. From these a commit can spoil no entry that is not excused.

**Workers.** `PlaceInv` says that an open job is in one place at a time, as a message
or in the hands of a process (`HeldInv`). `CountInv` ties its notifications to the
retries it has used: with k retries behind it, it has left at most k. `LinkInv`: a pending
INSERT of a notification keeps its task.

**Notices.** With `PlaceInv` the messages of open jobs are a function of the job
(`OneMessage`), and with `OpenInv` a total one, so that `Retries` reads a count that is
there (`Counted`). `Stays`, `Begins`, `Repeats` and `Ends` say what the four things that can
happen to a message do to `Retries` and `OpenInv`; every action is one of them. `LinkInv`
then makes a commit a `Recorded` of `Notices`, as the task is on record, and `CountInv`
says that its count allows it.

**Scan.** `NewInv`: what a process has added to its session it has not committed before,
which rests on its own earlier commits being visible to its check; deletion only
hides notifications of tasks that never come back.

**Inbox.** That markings cannot deadlock among themselves is an argument about order. A
marking holds only rows smaller than the one it waits for, so a set of markings that wait
for each other would have a row that is waited for and larger than all others, whose holder
waits for a larger one still (`NoEndlessRise`). Deletions alone cannot for the same reason,
with the tasks, which they delete in the order of their ids (`OrderInv`): they never wait
for each other's notifications, as a notification refers to one task and its holder among
the deletions is the one that has that task (`MineInv`). An insertion waits for deletions
only and holds nothing but its share of tasks (`ShareInv`); so in a cycle it holds a task
other than the one it waits for, and a job with one notification is in none. The invariant
ties locks to what was loaded and to what is still to be done; `ReadFaithfully` and
`LinksHold` follow from the same, since a draft differs from the committed row only in the
one column its holder may write.

**Waiting.** Liveness is checked by TLC, and rests on facts about single states that are
proved. In `TaskApi` every handler but one flushes once and waits in nothing but its flush,
before it has any lock (`PendInv`). So whoever is waited for and waits himself deletes a
project (`HoldersDrop`), and two such deletions meet only in the same one, as a row that one
has deleted and the other still looks for is of the project of both (`DropInv`,
`DropsMeet`): the second and the third request of any path in a deadlock are two such
deletions (`OnlyDeletionsDeadlock`). In `Inbox` a flush locks one row after another. In both
modules who is not free waits for another request, which has not ended (`FreeOrWaits`); so
finitely many requests that wait only for each other, none of them free, are `Deadlocked`,
and the smallest deadlock among them has a `Victim` (`SmallestDeadlock`, `NobodyIsStuck`).
`Free` repeats the guards of the actions, as ENABLED is out of the prover's reach.

**Pages.** `PagesAreCut` is arithmetic: a row's `Rank` says how many rows come before it,
so the ranks of a listing of k rows are 0 to k - 1 (`RankGrows`, `RankBelow`, and for the
pages `RankCounts`), and a page is what lies between two multiples of its size. Over time
(`PagesInv`): while nothing was added to the listing, what the client has seen has ranks
below those of its next page, so the next page repeats nothing; while nothing left it and
nothing came between COUNT and SELECT, whatever was there at the start and has a rank
below the next page was seen, and the total is the true one, so the last page is the last.
`ToldKeeps` says why this survives the steps of others: a row that leaves can only lower
ranks, one that arrives can only raise them, and the history tells of both.

**Mailbox.** A marking writes what it loaded: by `MarkInv` each row in `loaded` is read
already, perhaps by somebody else's marking, or in its hands and drafted as read, and by
`DraftInv` a draft differs from its row in nothing else. So the commit is `Mark`. For
a deletion `DoomInv` adds that every task of its call is still to be deleted, gone, or in
its hands; at the commit none is left to do, and all notifications of a task in its hands
are drafted without their link. An insertion commits what `BeginInsertFinds` shows it to
have found; that all of its tasks are still there is `ShareInv` (`CommitInserts`).

**Accounts.** `Ind` adds to the properties themselves `LowerInv` (what is stored is lower
case, so the unique index is as good as a check of mailboxes), `PlaceInv` (the place of a
request determines its operation, and that it was authenticated by a token in `tokens`)
and `MetInv`: the profile that a PATCH has loaded has been met, so that what it does not
send was there.

**Directory.** Each action is mapped on its own (`SignUpActs` and so on, `Refusing` for
the refusals). What a request relies on at its answer was read earlier: that its caller
has an account (accounts are never deleted), that the project is the caller's (projects
do not change hands), that the name it loaded is not null. `Ind` carries these; a project
that is gone meanwhile makes the answer `stale`, with its reason, or is deleted again.

**Process.** `ReqInv` says of one request what its answer rests on: its place fits its kind,
a failure of the database leaves no other status than 503, and whoever runs while Redis is
not up, or on the fallback, remembers trouble with Redis. `StaleNeedsCause` rests on what
two stores mean for a purge: a write purges one of them, so when it commits the copy in the
other must be excused already, and in its own gone or excused (`CoverInv`); who is in
`.delay()` or at its commit has purged, or tried to. A deletion of a project purges none, so
its commit excuses every copy. The fallback is filled without an excuse only by a listing
that began after Redis went down, and Redis' return excuses that copy (`ExcuseInv`): a write
that uses Redis again may leave it old. `RacedInv`, that a listing beside a write is marked,
covers the GET that stores after the purge.

**Assumptions used.** The named ASSUMEs of `TaskData`, `TaskApi`, `NotifyWorker`,
`OverdueScan`, `Inbox`, `Accounts` and `ApiProcess`: owners are active users, task ids are
finitely many, markers such as `None` are none of the values they stand beside, constants
have their types. TLC evaluates all of them.

**Only model-checked**: all liveness properties (out of the prover's reach, like ENABLED),
beyond what "Waiting" says of single states, and the counterexamples of section 5. Every
invariant, action property and refinement of a passing run is proved.

## 5. Where the code and its documents disagree

Each is a run that ends in a counterexample; `PROJECT.json` quotes the lines.

- `stale`: "Zero stale reads", "guaranteed to fetch fresh data" (README of the
  repository). `update_task` purges the cache, then `get_db` commits; a GET in between
  reads the old rows and stores them for the whole time to live.
- `phantom`: a notification is said to follow the commit of its change. `.delay()` comes
  before it, and a rollback leaves the job.
- `no_fallback`: "falls back to direct database querying without failing client requests"
  (README of the repository). The fallback is `fakeredis`, which only
  `requirements-dev.txt` installs and the image does not; without it the dependency raises
  and the request is a 500. `AnswersMean` says what does hold.
- `overdue_twice`: a scan is said to verify that no duplicate was sent. Two overlapping
  scans write one each; `OncePerProcess` and `RepeatsOnlyRaces` are what does hold.

Three more, for which there is no run of their own. `delete_project` never purges, so a
listing that was cached before it shows the deleted tasks for its whole time to live, with
one request after the other and no race: the promise that `stale` refutes for a PATCH.
`StaleOnlyIfExcused` and `StaleNeedsCause` both name this as a reason of its own. A notify
job is said to create one record (`workers/tasks.py:32`); an error after its commit makes
the retry insert another, and `BoundedNotes` says how many there can be. `/health` is said
to return 200 "if all dependencies are responsive, or 503" (`health.py:28`); in an outage
of Redis it probes the fallback and returns 200, and without `fakeredis` the dependency
fails before the handler and it is a 500.

## 6. What the models leave out

- SCAN is one step, at its start: Redis promises the keys that are present throughout,
  and those written later may or may not be seen.
- The order in which a foreign key comes upon rows is left open.
- `Rollback` is an error of the database or the end of the process, before the commit
  has taken effect. The lost answer of a COMMIT is in `NotifyWorker` (where it leads to
  a retry), not in `TaskApi` (where nothing follows but the response).
- Titles, descriptions and due dates are one value, and the due window of a query the
  set of values inside it. A null title fails as a null status does, and is folded into
  it. The pages of tasks are left out of `TaskApi`: a listing is a set.
- `TaskApi` has no creation and renaming of projects (`Accounts` has), no `get_task` and
  no login. Owners never change, and no endpoint deletes or deactivates a user: users
  outside `Active` stand for missing and inactive accounts alike.
- `TaskApi` has one Redis, whose commands may fail; the fallback is in `ApiProcess`, for
  one process. Several processes have a fallback each: between them what `RedisTurns`
  excuses is all there is to say, as they share nothing but Redis.
- Ties: `Paging` orders rows by distinct keys. Tasks may have equal or no due dates, and
  then PostgreSQL may order a page differently each time.
- A client that goes away: Starlette may cancel its handler at any await. That is the
  `Rollback` of `TaskApi`, and not modelled in `ApiProcess`, as is an error of the
  database that takes the whole pool.
- `/metrics`, which bypasses the middleware, and the counter and histogram, which nothing
  reads.
- The countdown of a retry, the period of Beat, the length of a time to live: any time
  may pass, including none.
- Token formats and expiry, Argon2, lengths and formats of fields: libraries' work. A
  stored hash is the password it verifies.
- Bodies and titles of notifications, logging, settings.

- A message whose acknowledgement fails, and which the broker delivers again: the
  notification may then be repeated without a retry.

Termination of an interrupted worker is `Crash` with early acknowledgement, Celery's
default, as `celery_app.py` sets nothing else.

## 7. Plan

Done: tasks, cache, transactions, jobs, inbox, accounts and projects, the process with its
pools and the fallback. Left, in this order:

1. An abstract specification of `OverdueScan`: a batch of notifications is committed at
   once or not at all, each for a task as the scan found it.
2. `TaskFlow`: `TaskApi` and `NotifyWorker` together, jobs of a request against its own
   commit, instead of each one's abstraction of the other.
3. Pages of tasks with ties, over all small tables.
