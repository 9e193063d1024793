# A verification development for the personal AI assistant

TLA+ modules of the parts of this Flask application that keep state several
requests, threads or processes touch, the TLC instances that check them, and
theorems about all of the models that TLAPS checks for every value of the
constants. Every definition is translated from the source; `PROJECT.json` maps
each one to the lines it models and lists runs, mutants, hazards and theorems.

    tlc -workers 2 -config AgentRunsConcurrent.cfg AgentRunsMC
    tlapm AgentRunsProofs.tla

## 1. Inventory

The server runs under gunicorn (`gunicorn.conf.py`): several worker processes of
several threads, a PostgreSQL database behind one connection pool per process
(`db/pool.py`), and a kill of any worker that exceeds its timeout. A request is
served by one thread; nearly every service function opens a connection of its
own, runs one statement or a short transaction at READ COMMITTED, commits and
gives the connection back. So requests interleave between any two helper calls
of a handler, and a process may die between any two. Several services fall back
to a dictionary of the process when a call raises.

| Component | State | Operations | What is hard | What makes it correct |
| --- | --- | --- | --- | --- |
| Agentic execution (`services/agentic_execution.py`, `routes/agent_routes.py`) | table `agent_runs`, dictionary `_runs_store` of each process, what executors wrote | execute, approve, cancel, retry | check and record in different transactions, two reads of one run, fallback per process, death while executing | an `action_id` takes effect once; completed means done; every effect is recorded; the right executor runs |
| Background jobs (`services/background_jobs.py`) | table `jobs` | enqueue, process_next, complete, fail or retry | SELECT then UPDATE by id; SELECT then INSERT; death while running; a statement that raises; a commit whose answer is lost | no job lost; retries counted; finished is final; duplicates found |
| Sessions (`routes/user_routes.py`, `services/auth_service.py`) | two token slots of a `users` row | signup, login, logout, authenticate | overlapping logins and logouts on two slots; expiry | a revoked token stays out; the newest login works; other devices are left alone |
| Billing (`services/billing_service.py`, `routes/api_v1.py`) | `subscriptions`, `billing_events`, a dictionary per process | webhook, set plan | helpers commit before the outer transaction does; redelivery; fallback chosen anew in each helper | an event is applied once and recorded; plan and status agree |
| AI quota and pool (`services/usage_service.py`, `db/pool.py`) | `ai_usage_events`, cached availability, free connections | check_and_increment | processes counting at once, midnight, connections lost, a wrong answer cached | the quota holds; refusals have a cause; connections come back |
| Automations (`services/automation.py`) | `automations`, `automation_runs` | execute, pause, resume, delete | count and runs in different transactions; deletion meanwhile; statistics fail | limit, counter and history agree |
| Tenants (`services/tenant_service.py`) | `tenants`, `tenant_memberships`, dictionaries per process | create, invite, change a role, read | an upsert that overwrites any role; access, role and write in different transactions, each with its own fallback | members come from inside, a plan from a member or a webhook; the creator stays |
| Files (`services/file_service.py`) | disk, `user_files`, a dictionary per process, cached look for the table | upload, remove | two stores, two steps | no row without a file; a file without a row has a cause |
| Workspaces (`services/workspace.py`) | `workspaces`, `projects` | create, delete | ownership check and write apart | a project belongs to a workspace of its owner |
| Memory engine (`services/memory_engine.py`) | `memories`, a dictionary per process | set, delete, list, clear | a fallback that later reads no longer see | what was set last is somewhere |
| Privacy (`services/privacy.py`) | every table of a user, the audit list | export, delete account | several transactions while the user works on; files are not touched | an export is complete; a deleted account is forgotten |
| AI routes (`routes/ai_routes.py`, `services/ai_service.py`, `services/voice_to_task.py`, `services/llm_provider.py`) | quota, temporary files, tasks | chat, ai-to-task, smart-ai, transcribe, voice-to-task, confirm | retries and second completions, a file that outlives its request, a commit whose answer is lost | calls are paid for; recordings are removed; answers are true; everyone is answered |
| Tasks, calendar, reminders (`routes/task_routes.py`, `routes/calendar_routes.py`, `routes/reminder_routes.py` and their services) | `tasks`, `appointments` | create, change, delete, list what is due | a change reads, fills in and writes back; two queries make one list | nothing is lost or revived but by an overlap; the list is true |
| Tool gateway (`services/tool_gateway.py`, `services/mcp_tools.py`) | registry, audit list in memory | call_tool | | |
| Cost accounting (`services/cost_intelligence.py`) | response cache, records in memory | record, look up | | |

The last two, retrieval, evaluation, the control center, notifications and the
one external GET keep nothing that two requests share; the rate limiter
configures a third-party library; `main.py`, `db/models.py` and the migrations
are wiring and schema; the browser client is presentation (section 6).

Interaction: agent handlers call the agentic service, whose executors write
tasks and appointments; the AI routes ask the entitlement gate, then the quota,
before their calls; webhooks and members write the subscription the gate reads;
account deletion removes rows of every table under requests that go on;
everything takes its connections from the pool of its process.

## 2. Modules

| Module | Models | Extended or used by |
| --- | --- | --- |
| `AgentRuns` | the four agent handlers and the service behind them | `AgentRunsMC`, `AgentRunsProofs` |
| `ActionOnce` | the documented promise of an `action_id`, apart from any mechanism | refined by `AgentRuns` in `AgentRunsMC`, proved in `AgentRunsProofs` |
| `JobQueue` | the database job queue | `JobQueueMC`, `JobQueueProofs` |
| `JobLife` | the documented life of one job, apart from workers, rows and races | refined by `JobQueue` in `JobQueueMC`, proved in `JobQueueProofs` |
| `Sessions` | the two token slots of one user | `SessionsMC`, `AccountProofs` |
| `Billing` | webhooks and the subscription of one tenant | `BillingMC`, `BillingProofs` |
| `EventOnce` | the documented promise of a webhook event: applied once, recorded, answered | refined by `Billing` in `BillingMC`, proved in `BillingProofs` |
| `Automations` | executing, pausing and deleting one automation | `LimitsProofs` |
| `Quota` | the daily quota over the pools of several processes | `QuotaMC`, `LimitsProofs` |
| `Ledger` | the promise of the quota check: one step counts a unit and grants it while one is left | refined by `Quota` and by `AIRequests` |
| `UserData` | files, workspaces, projects, memories, export, account deletion | `UserDataMC`, `UserDataProofs` |
| `Tenants` | tenants, members, plans and the entitlement gate | `TenantsMC`, `TenantsProofs` |
| `AIRequests` | the six AI routes over quota, provider, recordings and tasks | `AIRequestsMC`, `AIRequestsProofs` |
| `Tasks` | tasks, appointments and reminders under concurrent changes | `TasksMC`, `AccountProofs` |

`UserData` composes four services and `Tenants` two, because what can go wrong
lies between them: an account is deleted while its user uploads, a plan is read
after the tenant it belongs to. The names that `Tasks` and `Automations` share with
the other specification of their proof module carry a prefix (`TasksInit`,
`AutomationSpec`), so that the module can extend both.

A step of a model is what lies between two points where another request can
come between: one round trip (`AgentRuns`, `Automations`, `Billing`) or, where a
transaction reads a row without locking it and then writes it, one statement
(`JobQueue`, `Sessions`). `pc` of a request names the round trip that comes next.
Data the properties do not tell apart is a model value: payloads, results,
messages and timestamps are left out, a token is the number of its generation,
a status is the string the code stores.

What can go wrong is part of each model and bounded: `MaxFaults` counts round
trips or statements that raise, `MaxCrashes` processes that die, `MaxFallbacks`
availability checks that fail. A process that dies loses its dictionary and its
requests; what was committed stays.

**AgentRuns.** `runs` is the table; `mem[w]` is `_runs_store` of process `w`;
`effects` is what executors committed. `Execute`, `Resume` (approve and retry) and `Cancel`
start requests; `PickExecutor` is the handler's read, `LookUp` the service's
read with its decision, `CheckCompleted` the idempotency check and the approval
gate, `Defer` the run that waits, `Begin` the record "executing", `RunExecutor`
and `ExecutorRaises` the call, `LeavePending` a live route without an executor,
`Finish` the outcome. `Persist` is `_persist_run`: an upsert that keeps owner and
name, or after a failure an entry of the dictionary. Assumed: a round trip that
raises has not landed. `Names` are registered names, since the route refuses
others. The entitlement gate in front of execute is `CheckPlan` of `Tenants`;
here it would only remove behaviours.

**JobQueue.** `Ask` and `Insert` are the two statements of `_enqueue_db`; `Select`
and `MarkRunning` those of `_process_next_db`, which commit before the handler
is called; `Complete` and `FailOrRetry` end the attempt. Each of the transactions
may raise before its commit (`...Raises`) or after it, the answer being lost
(`...Unheard`): a completed job whose worker did not hear of it goes on to
`_fail_or_retry_db` like a failed one. `scheduled_at` is kept, because the SELECT
orders by it; ids, which nothing compares, are taken in order. One user owns all
jobs.

**Sessions.** `LoginRead` is the SELECT of a login and the choice of a slot,
`LoginWrite` its UPDATE and commit; `Logout` one transaction; `Authenticates`
is `get_current_user`. Expiry is a clock in ticks.

**Billing.** A webhook holds an outer transaction from `Insert` to `Commit`;
`UpdateStatus`, `Create` and `UpdateNewStatus` commit on connections of their
own; `UpdatePlan` locks the row in the outer one, so helpers of others wait
(`RowLocked`). `InsertedOnce` rests on the unique `event_id`, on which a second
insert waits. Each availability check may fail on its own
(`DeliverToMemory`, `ReadFromMemory`, `StatusToMemory`, `CreateInMemory`,
`RequestPlanInMemory`).

**Automations.** One row per outcome: "executing" is added before the executor
is called, "completed" or "failed" afterwards; `count` is `execution_count`. The
foreign key refuses rows of a deleted automation.

**Quota.** `UpsertReturns` counts and decides in one statement. `UpsertRaises` may have
counted the call before the upsert or its commit raised; the caller is refused
either way. `cache` is the
first answer of `_is_db_available`, kept for the life of the process; `free` the
connections of its pool, where getconn does not wait.

**UserData.** `rows` are `user_files`, `workspaces`, `projects` and `memories`,
`disk` the storage directory, `store[w]` and `kept[w]` the dictionaries of the
memory and the file service, `cached[w]` the first answer of the file service's
look for its table. A request authenticates (`Ask`), and each later step is a
round trip of its handler, by which time the account may be gone (`KeysHold`:
the foreign keys then refuse the row). Upload: `SaveFile`, `ProbeTable` or
`CheckTable`, `Insert` or `UseDictionary`. Removal: `SelectFile`, `Delete`,
`Unlink`. A project looks at its workspace in `CheckHome` and is inserted
later. A memory is written by `Upsert` or, when that raises,
`RememberInProcess`. Export is `Collect` and `Recall`; deletion `ClearMemory`
and `DeleteUser`, with the cascades of the schema. A user has one memory key.
The memory functions that write have no route today; the export and the
deletion do, and the model lets requests call all of them, as the tests do.

**Tenants.** `Looks` is what every call of the two services begins with: a look
for the tables which, when it fails, sends that one call to the dictionaries of
its process. `TrySlug` and `InsertTenant` are `create_tenant`; `CheckAccess` the
handler's test, `CheckRole` and `Invite` those of `add_member`, each a
transaction of its own; `Subscribe` and `Read` what members do; `FirstTenant`
and `CheckPlan` the gate. The billing webhook, which `Billing` has in detail for one
subscription, is here for what it does to the plan of whatever tenant it names:
`Receive` asks for no user, `RecordEvent` inserts the event and so holds the tenant
against deletion (`Locked`), `FindPlan` is `get_subscription`, `ChangePlan` the update
and commit, `Subscribe` the `create_subscription` of a tenant without a plan,
`EventInMemory` all of it in a dictionary. A tenant is numbered alike in table and dictionary,
which is why a call that falls back may mistake one tenant for another.

**AIRequests.** A request passes `Gate` and takes its unit in `Count`, all of `Quota`
in one step: granted, refused, or refused although it was counted (`UpsertRaises`).
Then it calls: `Audio`, `Write`, `Whisper`, `Remove` for a recording, `Call` for each
attempt of a completion, `ShortCircuit` where none is needed, `Insert` for the
task. `Call` chooses freely what the model answers; `Outcomes` and `Fallback`
say what the services make of it. `log` keeps, for each request, whether it was
counted, its calls and its answer. Retries inside the OpenAI library are outside
this repository; a call here is one call of that library.

**Tasks.** A change is `Select`, which reads the row and fills in what the request
does not name (`Filled`), and `Update`, which writes all of it; between the two
anything may happen. A reminder list is `ReadTasks` and `ReadAppointments` under
a window computed before both. The title stands for every text field; its value
is the number of the request that asked for it. Tasks and appointments differ in
their time, which only appointments must have (`Timed`).

## 3. Runs

The MC modules add a **history variable** to a specification: which action_ids
were contended for (`shared`), which jobs two workers had in hand (`raced`),
which logins or events overlapped (`overlapped`). It restricts nothing. It lets
a property say exactly when the code gives up a promise, for instance "at most
one effect per failure, for every action_id that requests did not use at the
same time", and check it over all interleavings in one run.

| Run | Instance | Shows |
| --- | --- | --- |
| `AgentRunsConcurrent` | 2 processes, 2 users, 1 id, 3 requests, 1 fault, 1 crash, fair | completed is real; effects are recorded; the executor fits; an id used one request at a time: completed is final and `ActionOnce` is implemented; nothing stays executing unless something failed |
| `AgentRunsDuplicate` | 2 overlapping requests, no failure | **violated**: both execute |
| `JobQueueWorkers` | 2 workers, 2 clients, 2 jobs, 1 retry, 1 tick, 1 fault or crash, fair | no orphan without failure; attempts counted; every job lives the life of `JobLife`; fresh twins only of clients that crossed; the queue drains |
| `SessionsConcurrent` | 3 devices, 4 tokens, lifetime 2 in 3 ticks | revoked stays out; newest works; primary slot undisturbed |
| `BillingConcurrent` | upgrade, downgrade and an unlisted status, 2 webhooks, 1 fault, fallback or crash, fair | webhooks implement `EventOnce`; plan and status from one event or two that overlapped; everything is recorded |
| `AutomationsConcurrent` | 3 requests, limit 1, 4 runs, 2 days, 1 fault, 1 crash | overshoot bounded; counter and history agree; one outcome each |
| `QuotaConcurrent` | 2 processes of 2 and 3 threads, pools of 2, 4 calls, 2 days, 1 fault | quota holds; refusals have a cause; all checks are those of one `Ledger` |
| `QuotaLeak` | 1 thread, 1 fault | **violated**: the pool is not full again |
| `UserDataConcurrent` | 2 processes, 2 users, 3 requests of any kind, 2 faults, 1 crash | rows have files and homes; leftovers have a cause; the gone are forgotten; the latest memory is somewhere; exports are complete |
| `TenantsConcurrent` | a tenant, 2 processes, 2 users, 3 more requests or webhooks, 2 faults, 1 crash | creators stay members; memberships come from inside, a plan from a member or a webhook, to a tenant that is there; granted was paid |
| `AIRequestsConcurrent` | 2 processes, 2 users, quota 1, 2 attempts, 2 requests, 2 crashes, fair | calls are paid for; recordings removed; answers true; everyone answered |
| `TasksConcurrent` | 2 threads, 2 users, 3 requests, 7 changes, 2 ticks | an id names one row of a user who exists (`RowsSound`); titles kept; reminders true; gone stays gone |

**Bounds.** Two of each actor show every race here, since each is between two
requests on one row; the third request, device or thread shows what happens
after the race or to a bystander. One fault and one crash each show the failure
and, with requests left, the recovery; where a second failure hides more than the
first (a call that falls back after another did, in `Tenants`, and a file that
is left behind by two steps, in `UserData`) there are two. Runs,
calls, tokens and requests exceed the limit they meet (`MaxDaily` 1 with 4 runs,
quota 2 with 4 calls, two slots with 4 tokens). The clock passes a token's
expiry; the day changes once while requests are under way. In `JobQueueWorkers`
no client asks that could find no id left to insert with (`IdsSuffice`), two
clients and two ids being enough for twins. Deadlock is checked
in every run; a `Quiet` step stands for a server that nobody calls, enabled
only where an instance has used its bounds up and nothing is under way, or
where stopping is legitimate.

**Fairness.** Weak fairness of `Serve(s)` and `ProcessNext(w)`: a thread that
serves a request keeps running until it answers or dies, and a worker's loop
goes on (`run_worker`). Nobody is made to send a request, to fail or to die. In
`BillingConcurrent` a webhook under way keeps running (weak), and the provider
goes on sending an event until it is acknowledged: strong fairness of
`Deliver`, because other deliveries may occupy the slots in between. In
`AIRequestsConcurrent` each call of the provider ends, since it has a timeout
(`AI_REQUEST_TIMEOUT`), and gunicorn kills a process that is stuck beyond its own.

**Refinement.** `ActionOnce` says that attempts of an action follow one another
and at most one of those takes effect. `AgentRunsMC` maps an attempt to a
request whose executor was called, the effect count to `effects`, and the
`excused` set to action_ids that requests or users contended for, and to all of
them once something failed: outside that set the code keeps its promise. TLC
checks it on the instance, and the theorem `ImplementsOnce` proves it.

`Ledger` is what the AI routes rely on when they ask `check_and_increment`: units
counted, units granted, failures. `Quota` maps them to `calls`, `allowed` and
`faults`, by user and day; every step around the upsert, in pools, caches and
threads, is a stutter or a failure that counts nothing. `AIRequests` maps them to
`used`, to the requests let through (`Granted`) and to those refused although they
were counted (`Faulty`). Both are proved, `Quota`'s is checked in its run too. That
the two implement one specification is why `AIRequests` may take its unit in
one step.

`JobLife` gives each job the life the docstring names, "enqueue -> queued ->
running -> completed/failed": it counts attempts, retries while some are left,
completes only out of an attempt whose handler returned, and knows three things the
docstring does not name: doubted (completed, but to its worker a failed attempt,
hence completed, queued again or failed in the end), lost (nobody works on the
running job any more) and raced (two workers took it at once, after which nothing
is promised). Only a failure makes a job doubted or lost, and one failure one
job. `JobQueueMC` maps the phase to the status of the row and to what its worker is
about to do, and failures to `faults + crashes`; the copies of rows that workers
carry, the clock, the order of selection and the second read of a job are stutters.
Where a failure leaves a job, the mapping says: lost, doubted, or back where it
was if it was only selected.

`EventOnce` is "dedup by event_id" as a life of events: one transaction holds an
event, applies it, records it, and the provider is told; only a failure lets an
applied event be applied again, only a bypass answers what is not recorded.
`BillingMC` maps the stage to the table of events and to the open transaction,
failures to faults and crashes, bypasses to failed availability checks. The
unique key, on which deliveries wait, the helpers that commit on connections of
their own and the two writes of a new subscription are behind it. TLC checks both
refinements on their runs; `JobsLiveAsPromised` and `WebhooksAreIdempotent` prove them,
and what the two abstract specifications promise is proved of them as well.

## 4. Proofs

Every safety invariant and every action property that a passing run checks is
also a theorem, and so is the type invariant of each model, which the runs leave to
the proofs. They hold
for any value of the constants that satisfies the named assumption of the module:
any sets of users, threads and processes, any limits,
any number of requests, faults and crashes. A stated property is seldom
inductive: some step breaks it from a state that satisfies it and is never
reached (a request that finishes without having run). The conjuncts named below
rule those states out. Each proof has an `Init` lemma, step lemmas with a case
per action, and a temporal conclusion that combines them. Properties over a
history variable are proved of `HSpec`, and their module extends the MC module
that defines it.

**`AgentRunsProofs`**, from `ConstantsOK`:

| Theorem | Property | Argument |
| --- | --- | --- |
| `TypeCorrect` | `TypeOK` | `TypeInv` adds `Carries`: a request past its look-up carries a registered name, which the upsert then stores |
| `CompletionIsReal` | `CompletedHasEffect` | `SafetyInv`: a request about to record "completed" has committed its effect (`CompletionHasEffect`) |
| `EffectsAreRecorded` | `EffectIsRecorded` | `SafetyInv`: a request about to run or to finish has a row in the table or, after a fault, in the dictionary of its process (`RunHasRow`), and without a fault dictionaries are empty (`FallbackNeedsFault`) |
| `ExecutorBelongsToRun` | `ExecutorMatchesRun` | `ExecutorInv`: between the two reads the table keeps the name of a row (`NameKept`), so what the first read picked is still right at the second (`PickedTheRun`) |
| `CompletedStays` | `CompletedIsFinal` | `OnceInv`: two requests on one `action_id` make it shared (`ContendersShared`); outside the shared ones a request that may still write has not seen the run completed (`NoneRedone`), whatever died in between |
| `ImplementsOnce` | `ImplementsActionOnce` | `EachOnce`: outside the excused ids there is at most one effect, and none when an attempt begins; each step then maps to a step of `ActionOnce` or to none |

`PersistType`, `PersistWrites` and `PersistSafe` treat the one helper through
which all of them write.

**`AccountProofs`**, from `ConstantsOK` of `Sessions`, for any number of devices, tokens and
ticks, and from `TasksConstants` for any users, slots, requests and hours:

| Theorem | Property | Argument |
| --- | --- | --- |
| `TypeCorrect` | `TypeOK` | `Numbered`: tokens in use are among those issued |
| `RevokedForGood` | `RevokedStaysOut` | `TokensApart`: the token of a login under way is in no slot, held by nobody, not revoked and no other login's, so what a login writes after a logout is another token; `RevokedIsGone`: slots hold no revoked token |
| `LatestWorks` | `LatestLoginWorks` | `LatestInSlot`: the session written last stays in its slot until it is logged out or expires, because a later login that overwrites it is the latest itself |
| `PrimaryStands` | `PrimaryUndisturbed` | `PrimaryRaced`: where the primary slot is not what a login read, its session belongs to a login that overlapped |
| `RowsTyped` | `TasksTypeOK` | by cases: what a change has read is a row, and a row has its type |
| `RowsAreSound` | `RowsSound` | `Numbering`: a number is of one request under way, and an insertion's is of no row and no change; `Reading`: what a change has read is a row of its kind and user, valid when filled in |
| `GoneRowsStay` | `GoneStaysGone` | an UPDATE writes by id and to no row that is gone, and by `Numbering` an INSERT brings a new id |
| `TitlesAreKept` | `TitlesKept` | `Titles`: a change that has read its row has the title last asked for, unless who asked for it crossed another change |
| `RemindersAreTrue` | `RemindersTrue` | `Listing`: what was due all the while was due at each of the two queries, and what a query found was due then |

**`LimitsProofs`**, from `ConstantsOK` of `Quota` (the set of threads is finite), and from
`AutomationConstants` for any automation limits (the set of requests under way is finite):

| Theorem | Property | Argument |
| --- | --- | --- |
| `TypeCorrect` | `TypeOK` | `Accounted`: free connections plus those in use do not exceed the pool, so giving one back stays within it |
| `QuotaIsKept` | `QuotaHolds` | the upsert counts and compares in one step, and allowed calls never outnumber counted ones |
| `LossesAreFaults` | `LossesBounded` | `Accounted`: free plus in use plus faults reach the pool's size |
| `RefusalsHaveCause` | `RefusedForCause` | a thread that asks has no connection (`RoomForOne`), so a pool with one for each thread and no losses has one left; `NoForCause`: a cached "no" has an excuse too |
| `QuotaIsLedger` | `ImplementsLedger` | `LedgerStep`: the upsert of an account takes its unit (`TakesUnit`), a fault is one failure (`FailsOnce`), the rest stutters |
| `LedgerBalances` | `Ledger!Balanced` | of the abstract specification, hence of both models: a unit counted is granted, or past the limit, or paid for by a failure |
| `AutomationTyped` | `AutomationTypeOK` | by cases |
| `AutomationOvershoots` | `Overshoot` | `Overlapping`: completed runs of the day plus requests between count and outcome stay below the limit plus the requests there may be, because the one that counts is not among them |
| `HistoryCounts` | `CountMatchesHistory` | `Counted`: completed rows are `count`, plus requests between row and update, plus at most the faults and crashes |
| `OneOutcome` | `OneOutcomeEach` | with `Counted`: a request that began has its outcome in the history or is about to add it |

`BusyGrows`, `BusyShrinks` and `BusyStays`, and for automations `InFlightMoves` and
`AtMoves`, count through the cardinality of the set of threads at a step.

**`JobQueueProofs`**, from `ConstantsOK`. The rows from `AttemptsAreBounded` to
`JobsLiveAsPromised` are about the specification with its history variables `raced`
and `crossed`, the last three about `JobLife` itself:

| Theorem | Property | Argument |
| --- | --- | --- |
| `TypeCorrect` | `TypeOK` | `TakenIsRow`: a worker's job has a row |
| `NoneOrphanedEver` | `NoOrphan` | by cases: who sets a job running holds it, and who lets go either writes an end or counts a fault or a crash |
| `CompletedWasDone` | `CompletedReturned` | `DoneFirst`: a worker about to complete a job has had its handler return |
| `AttemptsAreBounded` | `AttemptsBounded` | `Unraced`: of a job nobody raced for, `calls` is a function of its status, its retries and its one worker's step (`Counted`, `Fits`); `Alone` says there is one |
| `FinishedStays` | `FinishedIsFinal` | the same invariant: a finished job is not selected, and has a worker only when that worker did not hear that it is completed (`Doubted`) |
| `TwinsAreCrossed` | `TwinsCrossed` | `LateOnes`: a client about to insert found no queued twin, so a fresh one was inserted since, across it; no step of a worker makes a job fresh |
| `JobsLiveAsPromised` | `ImplementsLife` | with `Unraced`: each step moves the phase of one job at most (`OneLives`), since a job not raced for is in the hand of at most one worker, before the step (`MineBefore`) and after (`MineAfter`) |
| `LifeCountsAttempts` | `JobLife!Attempted` | by cases; with the row above it bounds the attempts of every job not raced for |
| `LifeEnds` | `JobLife!EndsAreFinal` | no step of `JobLife` leaves an end |
| `LossesAreFailures` | `LossesPaid` | `LossesStayPaid`: a failure adds one job to the lost and doubted ones at most, and no other step adds any |

**`BillingProofs`**:

| Theorem | Property | Argument |
| --- | --- | --- |
| `TypeCorrect` | `TypeOK` | `PlanNamed`: who is about to write a plan has an event with one |
| `OneTransactionEach` | `InsertedOnce` | the unique key: an insert waits for the open transaction that inserted the event |
| `AckedRecorded` | `AckedIsRecorded` | the acknowledgement follows the commit, or a failed check |
| `AppliedOnce` | `AppliedOncePerFailure` | `Accounted`: an event whose writes are not all paid for by failures is recorded or in an open transaction that wrote it; so no other can write it |
| `NeverMixed` | `Unmixed` | `Matching`, while nothing failed: webhooks under way overlap each other (`Overlaps`), and the events that plan and status come from are one, or overlapped, or the webhook of the one is still to write the other (`Promised`, `PlansAgree`, `StatusAgrees`) |
| `WebhooksAreIdempotent` | `ImplementsEventOnce` | with `InsertedOnce` the stage of an event is the step of its one open transaction (`StageHeld`, `StageAfter`); `Unwritten` says that an event turned away for want of a subscription had written nothing; then by action |
| `OnceMeansOnce` | `EventOnce!Idempotent` | by cases |
| `RecordedForGood` | `EventOnce!RecordedIsFinal` | by cases |

**`UserDataProofs`**:

| Theorem | Property | Argument |
| --- | --- | --- |
| `TypeCorrect` | `TypeOK` | `InPlace`: a request is at a step of its operation |
| `FilesAreThere` | `RowHasFile` | `SavedAt`: an upload past its write has its file; `RemovedAt`: a removal about to unlink has taken the only row, since ids are unused and unique (`Ids3`) |
| `NoneDangles` | `NothingDangles` | `HomeOwned`: the workspace a project request looked at, if it is still there, is its user's |
| `DeletionsOnce` | `DeletedOnce` | the statement that removes the user row decides |
| `ExportsComplete` | `ExportIsComplete` | `Exporting`: after each statement of an export, what its user had all the while is in the part collected so far or still to be read |
| `LatestRemembered` | `LatestIsSomewhere` | by cases: a write that raises leaves its value in the dictionary, and a later one replaces it |
| `GoneForgotten` | `GoneIsForgotten` | `Forgetting`: a dictionary holds something only after a fault (`HeldAfterFault`), the deleting process has cleared its own (`Cleared`), and who still writes asked before the deletion or is marked as having raced it (`AskedBefore`) |
| `OrphansCaused` | `OrphansHaveCause` | `Orphans`: files are numbered by their requests (`Stamped`), removals aim at files of their user (`TargetOwned`), and every file of a living user is claimed by a row, a dictionary, a request or a failure (`Claims`) |

**`TenantsProofs`**, from `TenantsConstants` and `TenantsMCConstants`:

| Theorem | Property | Argument |
| --- | --- | --- |
| `TypeCorrect` | `TypeOK` | `OpFits`: who is about to be let in is at an operation that asks for access |
| `CreatorStays` | `CreatorStaysMember` | `TablesKeep`, `DictionariesKeep` and `MembersBelong` hold separately, because an upsert replaces a membership by one of the same tenant and user |
| `GrantedHasPaid` | `GrantedWasPaid` | `Numbered`: the table counts its tenants, each with a request behind it; `FilledByFault`: a dictionary is filled after a failed look only; `History`: the history has what the table has |
| `TenantsChangeByAuthors` | `ChangesHaveAuthors` | `Passed`: what a request has seen, membership, role or plan, is in the history, unless too many looks failed; `PlansBelong`: a plan is one of a tenant that is there, so an update that finds one writes to no tenant that is gone |

The clause on memberships was first stated for two failed looks, which is the bound of the
run; the proof did not go through, and with three the statement is false: a
caller whose access, role and write each look somewhere else may invite without
a role. `MayInvite` says so now. The clause on plans promises less than one would
like, since the webhook asks for nobody (section 5).

**`AIRequestsProofs`**:

| Theorem | Property | Argument |
| --- | --- | --- |
| `TypeCorrect` | `TypeOK` | by cases |
| `CallsPaid` | `CallsArePaid` | `WithinBudget` ties the calls of a request to its step and its failed attempts, `Apart` keeps two threads from one request, `UnitsCounted` bounds the counted requests of a user by the counter and by the limit |
| `RecordingsGo` | `RecordingsRemoved` | `Traces`: a recording on disk belongs to a request that is about to remove it, or its process died, or its write raised |
| `RoutesKeepLedger` | `AIRequests!ImplementsLedger` | `CountStep`: the three outcomes of `Count` are a unit taken, a failure or a stutter, the count of requests let through growing by its own one (`UnitGranted`); `OtherStep`: nothing else writes to the books |
| `TasksAsTold` | `AnswersTellTasks` | `Unanswered`: who is under way has told nothing; `TasksTold` and `ToldTasks`: a task comes from a request that said so, or whose answer was lost, and the other way round |

Model-checked only: the liveness properties `ExecutingEnds`, `JobsFinish`,
`EveryEventRecorded` and `EveryoneAnswered`, since liveness under fairness is beyond
this prover. Induction over data and RECURSIVE operators would be too; no
module here uses those.

## 5. Where code and text disagree

Two runs end in a counterexample, quoted in `PROJECT.json` under findings:
duplicate execution under one `action_id`, and connections that do not return to
the pool. Others the models show, and the properties above exclude by name:

- The outcome of an execution overwrites a cancellation acknowledged meanwhile
  (`agentic_execution.py:451`, against the transition table at l.100).
- A second action under an `action_id` runs but the row keeps the first name
  (l.254, against "every action persisted", l.20).
- A crash or a failed last update leaves a run executing; nothing looks for it
  (l.413, 451, against "no silent failures", l.16).
- The result of the read-back is stored and not looked at
  (`agent_routes.py:51`, against `write_verification.py:6`).
- A job is started whether or not its `scheduled_at` has come, so back-off does
  not delay anything (`background_jobs.py:198`).
- A worker that selected a job before another finished it sets it running again
  (l.212); a job whose worker died, or did not hear that it had set it running, is
  never selected again (l.197).
- When the commit of a completion lands and its answer is lost, the completed job
  is queued and run again, or ends as failed (l.231-233, 248, 265, against "queued ->
  running -> completed/failed", l.8).
- Two clients that both looked before either inserted make two jobs of one hash
  (l.129-143, against "instead of creating a duplicate", l.110).
- An event cut off between a helper's commit and the webhook's is applied again
  (`billing_service.py:465`), one acknowledged during a failed availability
  check is in a dictionary only (l.423), one without a plan for a tenant
  without a subscription is rejected for ever (l.486), one with an unlisted
  status leaves a subscription and is rejected (l.490), and two that overlap can
  leave the plan of one with the status of the other (l.474).
- Overlapping executions exceed the daily limit (`automation.py:385`); a failed
  update of the statistics adds a failed outcome to a completed run (l.398).
- One failed probe makes a process refuse AI calls for good
  (`usage_service.py:67`).
- A login that finds the primary slot free or expired clears the secondary one,
  where another device may have its session (`user_routes.py:193`, against
  README.md:326, "Second login does not invalidate the first device's token").
- A job of one user answers for a twin of another: the hash has no user
  (`background_jobs.py:133`).
- `add_member` says it raises when the membership exists (`tenant_service.py:223`)
  and overwrites the role (l.249), the owner's too; two calls of one request may
  look at table and dictionary in turn.
- The route of the webhook asks for no authentication (`api_v1.py:856`, "no auth") and
  `process_webhook` sets the plan of whatever tenant the body names
  (`billing_service.py:475`, 488); checking a signature is left to the owner
  ("Verify stripe.WebhookSignature before processing any event", l.114). So a plan
  need not come from a member of the tenant, as it does on the route for members,
  and `ChangesHaveAuthors` says no more than the code keeps.
- The gate takes the first tenant of a user (`billing_service.py:638`), so joining
  another tenant may change his plan, and reads no status (l.583).
- "Export all data" (`privacy.py:224`) has no workspaces or projects, and leaves a
  part out silently when its statement fails (l.287, 293, 311). Account deletion
  leaves files on disk, clears memory before the transaction that may fail
  (l.355-372), and ignores one failed statement after which PostgreSQL refuses
  the rest (l.386).
- A memory that fell back to a dictionary is no longer found once the database
  answers, and only by its process (`memory_engine.py:137`).
- "Uses a SINGLE LLM call" (`ai_service.py:365`) is two when the reply comes back
  empty (l.431). A short circuit and an invalid recording consume a unit of the
  quota; a write that raises leaves the recording on disk (`ai_routes.py:320`,
  against "deleted immediately after use", `voice_to_task.py:55`); a date the
  model made up reaches the database unparsed; a confirmation sent twice makes
  two tasks.
- Two changes of one task that overlap lose one (`task_routes.py:181`), a deletion in
  between makes the change fail with 500 (l.199), a date that does not parse is
  400 in POST and 500 in PUT (l.165), an unknown status resets a task to pending
  (`task_service.py:57`).

## 6. Not modelled, and the plan

Not modelled, because nothing of it is shared between two steps that could
disturb each other: the tool gateway and the MCP tools (called by the evaluation
only), cost accounting (its cache and its records have no caller that fills
them), retrieval, evaluation and verification, the control center (reads),
notifications, the external GET, schema and wiring, the browser client. The
rate limiter is a third-party library. The in-memory variants of the job queue,
the automations, the workspaces and the usage counters, which a process uses
only without a database, are left out, and so are reads that only list.

1. Modelled, checked and proved about: all ten models and the refinements of
   `ActionOnce`, `Ledger`, `JobLife` and `EventOnce`; only liveness is left to TLC alone.
2. Next in the models: a second owner in `JobQueue` and the deletion of jobs under
   a worker; `Billing` over the pool of `Quota`, whose webhooks take two connections
   each; signup under the unique e-mail.
3. Next theorems: those of `JobQueue` for several owners, and that plan and status
   of a subscription are those of one event at a time, which `Billing` implements while
   nothing fails and no webhooks overlap.
