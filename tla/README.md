# A verification project for aliashub

aliashub is a self-hosted hub for mailboxes, registrations and payment links. It
consists of several processes that talk over HTTP:

| process | code | role |
|---|---|---|
| registration worker | `registration-worker/` (Python, FastAPI, SQLite) | runs long tasks: registrations, account checks, platform actions, phone binding, recovery of tokens |
| payment link extractor | `payment-link-extractor/` (Python, Flask) | a bounded queue of extraction tasks with live progress |
| mail pickup | `mail-pickup/` (Python, Flask) | lets a customer read one mailbox |
| hub | `server/` (Node, SQLite) | accounts, inboxes, aliases, pipelines that drive the other processes |
| UI and connector | `src/` (React), `extension/` (Chrome) | screens; a browser extension that executes jobs of the hub |

This directory holds TLA+ modules for the parts whose correctness depends on
the order in which threads, requests and restarts interleave, the TLC
configurations that check them and proofs for every value of the constants.

## Inventory

For each component: the state it keeps, its operations, who it interacts with,
what is hard about it, and what makes it correct.

### Registration worker: task runtime

* State: the `tasks` rows (status, started_at, created_at, payload) and the
  `registration_queue_paused` key of the config table, both in SQLite and both
  surviving a restart; per process, one lock per row (`_task_locks`), the
  dispatcher thread, the worker threads, `TaskRuntime._workers`.
* Operations: create, cancel, pause, resume, release; pause-all, resume-all,
  cancel-all; the dispatcher's snapshot, claim and spawn; the worker's
  mark_running, pause and cancel checks, account writes and finish; the restart
  rule `mark_incomplete_tasks_interrupted`.
* Interactions: HTTP threads and worker threads change rows under the lock of
  the row; the dispatcher claims rows without it. The dispatcher decides with
  what it read earlier: the flag, the rows, and the lanes and keys of `_workers`.
* Hard: interleavings of read-modify-writes, stale reads, restarts, threads
  that outlive their rows after a release, slots held by paused tasks.
* Correct when: no account is worked on twice at a time, lanes and slots are
  respected, nothing is written for a stopped task, terminal rows stay terminal,
  no row waits for a worker that does not exist, and cancels end.

### Registration worker: batch executor

`_execute_register_task`: one task registers many accounts in a thread pool,
with execution slots, an SMS pool shared by the units, a target count and pauses
between units. Hard: results counted while units are still running, a unit that
is submitted after a pause, numbers of the pool taken and given back.

### Registration worker: the rest

Phone binding (allocates phone lines to accounts and keeps the lines of a task
in a process-local secret store), account checks and the scheduler (create
tasks), the SMS pool repository (reservations in SQLite), proxies, mailbox and
SMS providers and the platform automations (remote I/O), customer portal (CRUD).

### Payment link extractor

`TaskManager`: a dict of tasks, an executor with a bounded number of workers, a
limit on queued tasks, per-task event history with a bound, subscribers with
bounded queues, cancellation, expiry of finished tasks. Hard: publishing to
slow subscribers, eviction from bounded queues, cancel racing completion.

### Mail pickup

One Flask application over mailboxes and an order store; requests are mostly
independent of each other.

### Hub

* extension connector jobs (`extension-service.js`): a target, jobs claimed by
  polling browsers with leases, reports that may come late;
* inbox-link pool (`inbox-link-pool.js`): mailboxes reserved for registrations;
* payment links (`payment-link-service.js`): a row per account, a queue of batches that
  submits extractions to the extractor, a tracker per account that polls one of them into
  the row, reservations that keep the deletion of an account apart from its batches. Hard:
  a poll or a cancel that is answered after the row changed, a batch that waits while the
  account is deleted, restarts. Correct when an account has one extraction at work, and
  every row that is tracked comes to an end;
* payment agreements (`payment-agreement-service.js`): a job buys a HeroSMS number, a
  tracker polls it, relays the code and replaces numbers; pipelines and the workbench cancel
  it in different ways and release its context. Hard: three kinds of callers change the
  context while the tracker awaits. Correct when no number that was bought is forgotten (those it refuses are, see the findings) and
  a tracker stops only for a job that is over or was told to stop;
* OpenAI SMS numbers (`openai-sms-service.js`): tasks and items in SQLite; for
  each account a number is bought at HeroSMS and a phone-bind task run at the registration
  worker, which asks back for the codes; every number is given back, paid or cancelled, with
  retries, through cancels, lost answers and restarts;
* Microsoft registration runner: a remote runner claims, heartbeats, reports;
* registration service and the two pipelines (`registration-service.js`,
  `ic-registration-pipeline-service.js`, `registration-pipeline-service.js`): an item registers an
  account at the worker, extracts a payment link, submits an agreement; each step is an `await`
  that a cancel may overtake, and a restart recovers the items from their rows. Correct
  when an item is paid for once and for its own link, nothing goes on for an item that is
  over, and every task ends;
* mail.com aliases: creation and recycling with reservations;
* NFAPI, pickup, inventory APIs; accounts, database and routes; protocol
  clients and probes.

Hard in all of them: `await` between a read and a write, timers, restarts in
the middle of a remote operation, late answers to retried calls.

### UI, connector, scripts

Rendering, a polling client, and shell scripts. Nothing concurrent to model.

## Plan

One module per component, the ones with the most interleaving first. Each has
an MC module with its instances, one configuration per question, and a proofs
module.

| order | module | component | state |
|---|---|---|---|
| 1 | `TaskRuntime` | rows, row locks, operators, dispatcher, worker threads, restart | modelled, checked, 7 theorems |
| 2 | `ExtractorTasks` | task manager of the extractor, its threads, event stream, browsers | modelled, checked, 6 theorems |
| 3 | `RegisterBatch` | the thread pool inside one registration task | modelled, checked, 6 theorems |
| 4 | `OpenAiSms` | one task of the hub's OpenAI SMS service, HeroSMS, the phone-bind tasks at the worker | modelled, checked, 7 theorems |
| 5 | `RemoteTask` | what a service that runs jobs promises to the hub: abstract specification | implemented by `ExtractorTasks` (checked and proved), taken as the environment by 6 and 7 |
| 6 | `PaymentLinks` | the hub's payment link service over the extractor | modelled, checked within 7, its operations proved to keep `LinkInv` |
| 7 | `IcPipeline` | a task of the iCloud pipeline: composes `PaymentLinks` with the registrations and the agreement jobs | modelled, checked, 5 theorems |
| 8 | `PaymentAgreement` | one agreement job with its numbers, tracker, cancels and release | modelled, checked, 3 theorems |
| 9 | `ConnectorJobs` | extension jobs of the hub: claim, lease, late report, restart | next |
| 10 | `InboxPool` | reservations with expiry and reuse | planned |
| 11 | `PhoneBinding` | allocation of phone lines, and what a restart leaves of it | planned |

How the modules compose:

    TaskRuntime ── RegisterBatch          (what one worker thread of it does)
    ExtractorTasks ==> RemoteTask <── PaymentLinks <── IcPipeline ──> RemoteTask
    PaymentAgreement, OpenAiSms           (their remote sides are within the modules)

`==>` is "implements": `ExtractorTasks` has the property `ImplementsRemoteTask`, under a
refinement mapping from its tasks, and `PaymentLinks` takes the steps of `RemoteTask` as its
environment, so that what is checked of the pipeline holds of the hub together
with the real task manager. `IcPipeline` uses two more instances of `RemoteTask` for the
registrations at the worker and for agreement jobs; for these it is an assumption, weaker
than the one for the extractor (`Stoppable` is empty: a job that was asked to stop may
still succeed, as `CancelBeforeBodyEnds` of `TaskRuntime` leaves open). `TaskRuntime` itself does
not implement it in one race: the claim (`tasks.py:884`) and the cancel of a pending row
(`tasks.py:860`) each write what they decided from an earlier read. A claim written second
takes a row from "cancelled" to "claimed" (the step `OnlyClaimRevives` allows, and no other), a
cancel written second takes a claimed row straight to "cancelled". What is proved of the
pipeline, `NoStrayChild` above all, is proved for a worker in which these two do not cross.

Abstract specifications still worth stating: a *lease* (free, held by one,
expired), which connector jobs and inbox links have in common. Every invariant
and every action property that a run checks is proved; what stays with TLC is liveness.

## TaskRuntime

`registration-worker/application/tasks.py` and `services/task_runtime.py`.

| variable | code |
|---|---|
| `status`, `started`, `born` | columns `status`, `started_at`, `created_at` of `tasks` |
| `saves` | account writes made under the row's lock (a count, for the properties) |
| `queuePaused` | `registration_queue_paused` in the config table |
| `lock` | `_task_locks` |
| `cl` | HTTP threads: program counter, call, row, ids still to visit, decision |
| `thr` | worker threads: program counter, row, verdict, decision |
| `workers`, `running`, `disp` | `TaskRuntime._workers`, `_running`, and the locals of `_loop` |

What decides the outcome is where a thread can be preempted, so an action is
one of these: a transaction, a read in a session of its own, a lock operation.
`_mutate_task` (lock, read the row, decide, commit) is `Load` and `Commit` for
HTTP threads and `Mark`/`MarkCommit`, `Finish`/`FinishCommit` for workers. It is split
because the dispatcher claims rows without the lock. A function that leaves
the status alone writes no status at all (SQLAlchemy updates changed columns):
the decision `"keep"`. The dispatcher is `Snapshot` (slots, lane counts, busy
keys), then per claim `ReadFlag`, `Query`, `Claim`, `Spawn`; between them anything
may happen. A handler is the state `body`: it saves accounts, and ends with a verdict
after its last cancel check, or after none (`LateFinish`), or by an exception
that no one catches (`MayRaise`). `Crash` loses everything but the rows and the
flag; `Start` is the startup rule `mark_incomplete_tasks_interrupted`.

| run | instance | shows |
|---|---|---|
| `actions` | two tasks on one account, one client, all four calls, crashes | `KeyExclusion`, `UnstartedIsUntouched`, `FencedSaves`, `TypeOK` |
| `registrations` | two registrations in a lane of limit 1, two clients, pauses and releases of a row, pause, cancel and resume of the queue | `SerialLane`, `NoOrphan`, `OnlyClaimRevives` |
| `dispatch` | a registration and a recovery, one slot, releases, pauses and cancels; fair | `RecoveryDispatched`, `StoppedFreesKeys`, `CancelBeforeBodyEnds` |
| `batch_limit` | smallest instance | violated, see Findings |

Bounds: each property relates at most two threads, or a thread and an operator,
or the dispatcher and one of those; two rows and two threads show every such
pair, two clients show two operators at cross purposes, three threads the
second thread of one row beside another row. `MaxSaves` bounds the account
writes per row: a second write meets no state a first one does not. Symmetry
is used for threads and clients only, and in no liveness run.

Fairness: the dispatcher polls with a timeout, a thread that is runnable runs,
a lock is eventually granted (strong fairness of `Mark`, `Finish` and of the
clients' `Load`, since a lock is taken and given back again and again), a handler returns
unless its registration is paused. Operators owe nothing. A dispatcher that
has a pick and no free thread cannot be blocked in the code, where a thread is made on demand: the
runs have at least as many threads as slots can use at a time.

Proved (`TaskRuntimeProofs`), for any tasks, clients, threads, lanes and keys:

* `TypeCorrect`: types, together with `Shape`, which says what the program
  counters imply about the other fields.
* `AccountsExclusive`: `KeyInv` says that the keys of every live thread are in
  `workers` under its row, that two live threads have disjoint keys, and that
  what the dispatcher remembers as busy covers the keys of every live thread. The
  last part is what makes a stale snapshot harmless: `busy` may be too large, never
  too small.
* `SerialLanesAreSerial`: the same argument with lane counts, which may be
  too low for a lane whose limit is above 1 (that is the `batch_limit` finding) but never
  miss the only thread of a serial lane.
* `SavesAreFenced`, `TerminalLeftByClaimOnly`: `LockInv` says that a thread
  between its two steps holds the lock of its row, so two lock holders differ
  and a decision to write a status was made for a row that is still not terminal.
* `UnstartedIsSafeToRun`: `started_at` is written by the claim and by nothing
  that runs later, so whatever ran is started (`UntouchedInv`). This is what the
  startup rule relies on when it keeps rows that were not started.
* `RowsAreServed`: `NoOrphan`, for one life of the process (`~MayCrash`) and
  handlers that let no exception escape (`MayRaise = {}`). `ServedInv` adds what the
  statement itself does not say: a started row that is put back to pending
  still has its thread, an operator that is about to write a status has decided on
  one that needs no new thread (`Decided`), and a thread that is about to end leaves its row
  over (`Leaves`). Both assumptions are needed. An exception ends the thread
  and leaves the row; and a crash can make the race of `batch_limit` last: the row
  is pending again *and* started when the process dies before a thread exists, the startup
  rule keeps it as pending, and a pause and a resume then call it running although no
  thread has it.

## ExtractorTasks

`payment-link-extractor/payment_link_extractor/web/tasks.py`, `web/app.py` and
`web/static/app.js`.

| variable | code |
|---|---|
| `status`, `cancelled`, `old` | `TaskManager._tasks`, `cancel_event`, age beyond the TTL |
| `futures`, `worker` | queue and threads of the `ThreadPoolExecutor` |
| `resolving` | `resolve_paypal` between its two locked parts |
| `history` | `_history` |
| `watcher` | per browser: its `pc` (off, listing, loaded, live), the list on its way, the replay and the queue of its subscription, and `owed`, the tasks whose status changed while it was not connected |
| `answers` | answers of its own calls on their way to a browser, as what it will show |
| `view` | the tasks a browser shows (`reduceTaskEvent`, `loadExistingTasks`, and what its calls write) |
| `missed`, `overwritten` | for the properties: browsers for which an event was dropped, and tasks over which a late answer wrote an older status |

A locked method is one action; an extraction is `Take`, `Start`, `Stage`, `Return`,
`End`, with calls and other threads in between. `Offer` is `_publish_locked` for one
queue, with its eviction. The page writes from three sources. The list is asked for before the socket is
opened and shown when it arrives (`Load`, `Loaded`). Events are reduced one by one (`Receive`). The answer of a call
of its own (submit, cancel, retry, delete, bulk delete) is written as it is whenever it arrives, before or
after the events that are newer (`Answered`: `registerSubmittedTask`, `cancelTask`, `performTaskRetry`,
`deleteTask`, `removeTaskLocally`). `Callers` says who creates and cancels a task; the hub shows nothing.
An event counts as dropped for a browser (`missed`) when its queue was full, or when it was not connected and
the history lost every event about some task whose status had changed meanwhile.

| run | instance | shows |
|---|---|---|
| `extraction` | two tasks, one thread, a browser that disconnects, a history of 1, a queue of 2, one stage, one answer on its way; fair | `NoGhostExtraction`, `WatcherAgrees`, `ImplementsRemoteTask`, `TypeOK` |

Bounds: a second task waits in the executor's queue while the first runs, so cancels
and retries meet queued, started and finished tasks at once. The hub owns one task, the browser the
other (`OneCaller`), so events arrive with and without an answer that may come later. A history of one event is overrun by
the next one, so every reconnection can miss something, and a call publishes two events at most, which fill the
queue. One answer on its way is enough to be older than any event; two could also overtake one
another, as could answers of two browsers, which the proof covers and TLC does not: a history of 2 alone
more than triples the 680,000 states. The socket of a browser for which an event was dropped is not followed any
further (`FollowedNext` of `ExtractorTasksMC`): nothing is promised to that browser, and its calls and their answers go on. Fairness: an executor thread goes on and an extraction returns (its requests
have timeouts). The run does not check for deadlock: when every id is used up
nothing is left to happen.

`ImplementsRemoteTask` is `RemoteTask` with its fairness, under the mapping that reads
the status of a task off `_tasks` and `cancel_event`: a task whose cancel was accepted while it ran is
"cancelling" until its thread writes the verdict. It says at once that finished
tasks stay as they are, that a cancel that was accepted excludes success, that only
finished tasks are dropped, and that every task that is submitted ends.

Proved (`ExtractorTasksProofs`): `ExtractionsHaveTheirTask`, by an invariant that
puts a task in one place only (`OnePlace`: the queue, or one thread) and says
what its status is there (`NotStarted`); `CancelledTasksDoNotSucceed`;
`FinishedTasksStay`; and `ManagerRefinesRemoteTask`, that every behaviour of the task manager
satisfies the safety part of `RemoteTask`, for any number of tasks and threads and any size of
history and queues. A call that drops expired tasks, refuses others and starts
one is a single step of `RemoteTask` (`CallIsRemote`); the step of a thread is a step
of its own job (`RunIsRemote`), for which `CancelSeen` is needed: a thread that is
about to write a success has not been cancelled since it looked.

The two other theorems are about the events: `ConnectedBrowsersAgree` (`WatcherAgrees`) and
`ManagerTypeCorrect` (`TypeOK`), for any number of browsers, any sizes of history and queues, and any number of
answers on their way. `WatcherAgrees` speaks only of a browser that has
nothing left to receive; `StreamInv` says of every moment what makes that one right. The last
event in the history about a task that exists tells its status (`HistoryTells`). A connected
browser that missed nothing shows a task as it is, or an event it has yet to receive does, the last one about it
(`UpToDate`). A page that is not connected is right about every task, except for those it is `Owed`, of which the history still has
an event that the replay will repeat; that is why a list that is older than its
subscription is no race, and why a lost socket may take events along (`Listing`, `Listed`). "Right" means here: as the manager has it, or
overwritten by a late answer. `AnswersInv` says what an answer on its way may be by the time it arrives: the status of its
task has only moved on since (`Since`, `MovesOn`), so what is written over it is "queued" or "cancel_requested" and marked, or is
still true, or is about a task that is gone.
What `subscribe` replays and what
`_publish_locked` leaves of a queue are recursive functions in the model (`Replay`,
`Offered`). What they compute is proved by taking the least length at which a claim about prefixes
would fail (`OfferedRuns`, `ReplayRuns`), for sequences of any length. `Task` must be finite: one call may publish an event for every expired task.

## RegisterBatch

`_execute_register_task` of `registration-worker/application/tasks.py`.

| variable | code |
|---|---|
| `mode` | what the payload asks for: `"plain"`; `"plus"`, with a count that must be reached; `"hero"`, further accounts while a HeroSMS number can be reused |
| `row` | status of the task's row, as the operator sets it |
| `main` | the submitting thread: `submitted`, the futures in flight, `success`, `errors` |
| `attempt` | one record per attempt: where it is, its SMS slot, its number, whether that was swapped or refused, its result |
| `free`, `others` | the process-wide execution slots, and the ones other tasks hold |
| `slots`, `slotQueue`, `extras`, `exhausted` | `sms_pool_slots`, `sms_slot_queue`, `sms_pool_extras`, `sms_pool_exhausted` |
| `reusable` | the cached HeroSMS number can be used again |
| `verdict` | what `finish` wrote, `"refused"` when a cancel had been requested |
| `rejected` | numbers found dead (for the properties) |

`ReadPause`, `Submit`, `Collect`, `Idle`, `Hold` are the loop, with the pause flag read
in a step of its own; `Summary`, `Raise`, `Finish` its end. An attempt is `Gate`,
`Acquire`, `Begin`, `TakeSlot`, then any number of `Swap`s, then `Return`, `NoCode` or
`Blow`, then `PutBack` and `Release`. What a registration does with the remote
sites is its outcome.

| run | instance | shows |
|---|---|---|
| `batch` | two accounts, two attempts at a time, up to three, one or two shared execution slots, four numbers for two SMS slots, all modes; fair | `OneThreadPerNumber`, `RejectedStayOut`, `SlotPromised`, `NeverTooMany`, `ExecutionSlotsKept`, `UnpausedBatchEnds` |
| `early_stop` | one attempt at a time, two numbers | violated, see Findings |

Bounds: four numbers are two for the slots and two backups, so that a swap and a refill
compete for the last backup and then find none; a third attempt starts while
the other two give back what they have; the initial states leave from none to all of
the execution slots to other tasks. Fairness: threads go on, a registration
returns (its steps have timeouts), and other tasks give their slots back. Nothing is assumed of the
operator, so `UnpausedBatchEnds` speaks of behaviours in which the row does not
stay paused. `NeverTooMany` counts the accounts of finished and running attempts
together; in the code the check is `success + in flight < target`.

Proved (`RegisterBatchProofs`), for any number of accounts, attempts, slots and numbers:

* `TypeCorrect`, and with it that no attempt is submitted without a mailbox.
* `ExecutionSlotsConserved`: free slots, slots of other tasks and slots of
  attempts always sum up to the limit.
* `OneThreadPerNumberHolds`, `RejectedStayOutHolds`: `OneThreadPerNumber` alone
  is not inductive; `NumberInv` adds that every number is in exactly one place
  (a queued SMS slot, the backups, or one attempt), that an SMS slot is queued
  or with one attempt, and that an attempt whose number was not refused has the number of its slot.
* `NeverTooManyAccounts`: what is in flight belongs to attempts that were not
  collected, what was collected is in the tally, and tally and flight together stay within the goal
  (`TallyInv`); a count over a set of attempts that grows by a submission and
  shrinks by a collection, for any number of both.
* `SlotPromiseKept`: `sms_slot_queue.get()` has no timeout; `PromiseInv`
  counts queued slots and slots out with attempts, which sum up to the
  concurrency until the pool is exhausted, while the attempts that wait for a slot or
  have one are all in flight, fewer than the concurrency when another one is submitted.

## OpenAiSms

`server/openai-sms-service.js`, with the worker and HeroSMS as its environment.

| variable | code |
|---|---|
| `task`, `item` | rows of `openai_sms_tasks` and `openai_sms_task_items`; of the stage and the timestamps only what decides something |
| `run` | which await of `runTask`, `runItem` or `claimNumber` the loop of an item is at |
| `chase` | `cancelTrackers`: `startRemoteCancellation` repeating `cancelTask` |
| `rel` | `releasePromises` and the place in `itemOperations`: a release, and the success it reports |
| `relay` | the relay call for an item, likewise |
| `timer` | `releaseRetryTimers` |
| `call`, `viewing` | a `cancel` and a `getTask` of an operator between their awaits |
| `boot`, `rec` | `recoverInterruptedTasks` |
| `worker` | external: the phone-bind task of the item at the registration worker |
| `told` | external: the `setStatus` calls HeroSMS has carried out for the item's number |

The service is one JavaScript thread and its database calls are synchronous, so
an action is the code between two awaits: nothing can come between the row that
is read and the row that is written inside one, and anything can between two
of them. `Finish` is `finishItem` up to its await and `Asked` is
`releaseActivation` up to its own: who asks for a release that is under way joins
it, whatever it reports. `Recompute` is `recomputeTask`, called wherever the code
calls it. A remote call that changes something has two steps, the other side's
and the answer's (`HeroReleases`, `Released`; `worker = "sent"`, `Created`), so that an
answer can be lost after the deed. A crash (`Restart`) keeps the rows and what
the others know.

| run | instance | shows |
|---|---|---|
| `sms` | two items, one loop, one failed request, one restart | `PaidOnlyIfBound`, `OutcomeIsTrue`, `NoStrayBinding`, `NoSmsAfterRelease`, `ItemVerdictFinal`, `TaskStaysOver` |
| `sms_liveness` | one item, two failed requests, one restart; fair | `NumbersGoBack`, `CancelEnds` |

Bounds: items meet in `recomputeTask`, in the loop that takes the next one, in a cancel and in the
recovery; one running and one waiting item show each of these. `MaxFaults` counts failed
requests of any kind (`remoteFailureLimit` failures in a row of the polling loop
as one); the paths after a fault lead to states that a second fault meets in
another order only, and `sms_liveness` allows two. One relay call per item, one cancel and one status
call are under way at a time: a second cancel finds the same releases and trackers
and joins them. Neither run checks for deadlock: when the task is over and nobody calls, nothing is left to happen.

Fairness: loops, timers and requests go on (every request has a timeout), a
`cancelTask` call is answered one way or the other (`ChaseRejected`), a refused creation is
noticed, and the worker ends its phone-bind tasks, whose steps have timeouts (`CancelBeforeBodyEnds` is about this
on its side). Operators, relay calls, faults and restarts owe nothing. With
finitely many faults a release that is retried for ever succeeds; that is all that `NumbersGoBack` needs.

`TaskStaysOver` states its exception: a cancelled task of which some items were
completed or failed reads "cancelled" until the next `recomputeTask`, which
looks for "cancel_requested" and makes it "failed".

Proved (`OpenAiSmsProofs`), for any items, concurrency, faults and restarts:

* `TypeCorrect`; `ItemVerdictFinal` (`VerdictCorrect`).
* `PaidCorrect`, `OutcomeCorrect`, `RelayCorrect`. None of the three is inductive: a release
  decides what to report when it is asked for, and reports it any number of awaits
  later. `Safe(i)` follows one number through its life: before it is bought nobody
  was told anything (`Early`); a release under way that reports success belongs to an item that
  is completed and bound, and one that reports a cancel to an item that can never be completed
  any more (`Releasing`); a relay call at work and a release of the same number exclude
  each other (`Apart`). That an item cannot be completed any more (`GivenUp`) is a fact about its whole
  future: it is over with another verdict, or asked to cancel, which `Settled` makes final, or dropped by its own
  loop before a worker task exists. `Late` says that a task is over only when its items are, and that a recovery finds it so.
* `TaskVerdictCorrect` (`TaskStaysOver`): `Fits` says what the task's status tells of its
  items (completed: none failed or cancelled; failed: one failed, or one cancelled beside
  one completed; cancelled and asked to cancel: one such item), so that calling `recomputeTask` once more
  finds what the last call found. It needs `Alive`, that a task which is not over has an item at work: otherwise
  a cancel could find nothing to cancel.
* `StrayCorrect` (`NoStrayBinding`), while no request fails and nobody restarts the hub.
  `StrayInv` is stronger than what it shows: a binding that was sent or is active
  belongs to an item that is not over at all. For that, a loop that gives its item up after an
  error must have no binding at work (without faults the error is the worker's own refusal or
  failure), and an item that a cancel found queued must never have had a loop, although
  the cancel finishes it only after its releases have returned.

## PaymentLinks

`server/payment-link-service.js`; it has no run of its own, the runs of `IcPipeline` check it.

| variable | code |
|---|---|
| `link` | rows of `registered_account_payment_links`: task and status |
| `reserved`, `deleting` | `reservations`, and which of them a deletion holds |
| `start` | the batch at the head of `startQueue`, at the account it handles |
| `tracker` | `tracked`: where the poll loop of each account awaits, the task it follows, its failures |
| `extraction`, `owner`, `deleted` | external: the extractor's tasks, whose token each got, accounts the worker has no more |

An action is the code between two awaits. `Applied` is `applySnapshot`, with its
check that the row still is of the task that was polled; `Heard` uses an answer
that may be older than the row. `Accept`, `Submitted`, `Started` and `NotStarted` are a batch for
one account: reservation, request, answer. `Expire` and `TimedOut` are the deadlines of the queue
and of the execution. `Reboot` loses what is in memory; `resumeActiveTasks` tracks
the active rows again. `waitForRegistration` of the pipeline asks `recentPaymentLink` for a link
that is newer than the `updated_at` it has just written, so that row is never found and
is not modelled.

## IcPipeline

`server/ic-registration-pipeline-service.js`, with `registration-service.js` for the rows of the
registrations.

| variable | code |
|---|---|
| `task`, `item` | rows of `ic_registration_pipelines` and `ic_registration_pipeline_items` |
| `job` | the `registration_jobs` row of an item |
| `boss` | `runTask` up to the items: `createJobs`, `submitJobs`, `persistRegistrationJob` |
| `run` | where `runItem` awaits |
| `flow` | the calls of `cancelKnownChildren`: by `cancelItem`, and by a loop whose await a cancel overtook |
| `context` | the contexts of the agreement service |
| `registration`, `payment`, `paidLink` | external: the worker's tasks, the agreement jobs, and the extraction whose link a job got |

`cancelKnownChildren` takes a copy of the row, and cancels what the copy knows, one await
after the other; what a loop learns later it must cancel by itself (`Late`). `Write` is a
write of items with the `recompute` that follows it everywhere. `Restart` is `Reboot` of
`PaymentLinks` together with `recoverActivePipelines`: items whose agreement was under way fail,
a cancel goes on from the rows, and `ensureRegistrationJobs` finds the registrations that were inserted.

| run | instance | shows |
|---|---|---|
| `pipeline` | one account, two extractions of which the extractor may forget one, two agreement jobs per item, one fault; fair | `AgreementOnce`, `CompletedIsPaid`, `OneExtraction`, `NoStrayChild`, `PipelineEnds`, `TrackedRowSettles`, `TypeOK` |
| `stuck_cancel` | one account, one extraction, no faults; fair | violated, see Findings |

Bounds: items interact through `recompute`, through the number of workers and
through `startQueue`; all else is per account, and most of what can go wrong is between an item,
the users of its account and the trackers. The second extraction is the one a user starts beside
the pipeline's, the second agreement job the one that must not be. A fault is a
failed request, a lost answer or a restart. Two accounts with two extractions and no faults
(13.4 million states) were checked for the invariants once; they are too many for a regular run.

Fairness: loops go on, requests are answered or time out, the services run their jobs,
`startQueue` is first in, first out (strong fairness of an item's turn, since users may keep
it busy). Users, cancels, deadlines and faults owe nothing. `PipelineEnds` asks that a task
whose cancel was requested ends, whatever fails or restarts, and that every task
ends when nothing fails: after a failure an item may wait for a registration that was
inserted and never submitted. `TrackedRowSettles` speaks of a row and the tracker of its own task.

Proved, for any accounts, extractions, workers and failures:

* `IcPipelineProofs`: `OneAgreement` (`AgreementOnce`) and `CompletedWasPaid` (`CompletedIsPaid`). The code
  keeps neither fact in one place. `PaidOnce` says where the first is known: while nothing was
  submitted, by the place the item's loop is at; afterwards by the stage of its row, which a
  restart fails, so that no loop takes the item up again. `PaidFor` says what a
  loop has behind it at each place. Cancels and late calls only let rows `Grow`: they may end, never as
  completed, and keep their extraction and their job; `StepHolds` reduces every step to the items that are not `Kept`.
* `PaymentLinksProofs`: every operation of the link service keeps `LinkInv`, whoever calls it. Its
  point is `Exclusive`: without failures an extraction that nobody stopped is `Held`, by the batch that
  submitted it or by the active row of its account, and both refuse another one. That rests on
  `Turn` (the batch's account is reserved, and not for a deletion) and on `HeardLate` (an answer that ends
  a row may be old, but the extraction it is about cannot start again).
* `IcPipelineLinkProofs` composes the two: what the pipeline's rows and calls know of an extraction
  (`ItemLinks`, `Calls`) is of one that was taken, so that the calls of the pipeline, the users and the trackers
  may interleave in any way. It gives `PipelineTypeCorrect` (`TypeOK`) and `AtMostOneExtraction` (`OneExtraction`).
* `NoChildAstray` (`NoStrayChild`), in the same module. The property speaks of an item that came to rest;
  `StrayInv` follows each child that goes on from its submission and says who will look at it
  next: an open row that names it (with a loop that waits for it, when it is a link or an agreement), `runTask`
  before it adopts the registration, the await whose answer will name the agreement, or a call of
  `cancelKnownChildren` that knows the child and has not come to it (`RegistrationMinded`, `LinkMinded`, `PaymentMinded`).
  For the hand-overs it needs to know that a call exists only for an item a cancel has reached
  (`Warned`), so that a loop that is not overtaken works without rivals; that a loop that awaits `startQueue` is
  the one at its head (`Owned`), so that the extraction it will be answered with is nobody else's; and that `runTask`
  submits only for items without a job (`Bossed`). It uses `Exclusive`: a loop may give a link up
  when the row says that it is over, or is another's, because an extraction that goes on is held. Without failures
  only: a request that is lost leaves a child that nobody minds, and the code does not claim more.

## PaymentAgreement

`server/payment-agreement-service.js`, one job.

| variable | code |
|---|---|
| `context` | the job's entry of `contexts`: activation, attempts, snapshot, and the flags that callers set (`stopped`, `terminal`, `cancelRequested`, `cancelError`) |
| `tracker` | where `createManagedJob` and `trackJob` await, with which number or answer, and the failures in a row |
| `cancel` | `cancelPromise`: a call under way, or the answer it got |
| `release` | a forced `releaseContext` waits for the tracker |
| `job` | external: the job at the protocol service, and the phone it was given |
| `number`, `told` | external: what HeroSMS sold and what became of it (returned by `acquireHeroNumber` and waiting for a code or with one, refused by it, or lost with the answer), and what it was told of each number |

`CancelJob` is the pipeline's and the users' cancel, `ProxyCancel` the workbench's: the first one is posted by
one caller for all (`Post`), and again whenever somebody asks after it failed; only the tracker compares
`cancelAttempts` with the limit, so calls of others use it up and may exceed it. The second one stops the tracker whatever the service answers.
`Refuse` is the end of `acquireHeroNumber` that throws for the phone or the price of a number whose id
it has read. `Status`,
`Otp`, `Coded` are `reconcileHeroSms`; `NoMoreNumbers`, `BuyNext`, `Bought`, `Phone` are `rotateHeroNumber`,
which awaits four times and looks at the context once. The request and the answer of `ProxyCancel` and of
`NoMoreNumbers` are one step, since what they write is the same wherever the
tracker is in between.

| run | instance | shows |
|---|---|---|
| `agreement` | three numbers, one replacement, a cancel limit of two, two polls that may fail in a row, two faults; fair | `OnlyRefusedAreLost`, `StoppedMeansAsked`, `AcceptedGoBack`, `TypeOK` |

`OnlyRefusedAreLost` does not say that no number is lost: the code loses those it refuses, every one (see
below). It says that there are no others: a number that was returned is told back or held by somebody at every
moment. `AcceptedGoBack` is the same promise in time. Neither can speak of a number sold in an answer
that was lost ("unknown"): the service has no id for it.

Bounds: the first number, its replacement and one more that is refused or that a lost answer leaves at
HeroSMS; the posted cancels need no bound of their own, since each but the last costs a fault; two faults are a failure that is retried and one that ends the tracker or the
cancel. Fairness: the loop goes on, calls are answered, the timer of
`scheduleContextRelease` goes off, and a job does not run or wait for ever.

Proved (`PaymentAgreementProofs`), for any numbers, limits and failures: `AgreementTypeCorrect`,
`OnlyRefusedNumbersAreLost` (`OnlyRefusedAreLost`) and `StoppedJobsWereAsked` (`StoppedMeansAsked`). None is inductive. `Sold`
says that what the context or the loop has in hand, and what HeroSMS is told of, is a number that was accepted,
and `HeldUntilTold` that such a number is in hand until it is told; together they are the first property (`LostAreRefused`). `Phase`
says that while the loop has a number in hand the context holds none, so that
taking it over overwrites nothing, although callers release and stop the
context in between; `Bounds` limits the attempts, and the cancels by the failures, a call that has not failed being
the last; `Stale` says that a status read
earlier, be it a snapshot, the answer of a poll or of a cancel, may be old, but that an end it names is one
the job cannot leave. `StepKeepsInv` states once what the steps have in common, and each
action is shown to be such a step.

## Findings

Where the code does something else than it says. Each is a run that must end in
a counterexample.

* `batch_limit`: a resume that loaded a paused row commits `pending` over a
  claim; the row runs in two threads that share one entry of `_workers`, and the
  lane counts one too few. `BatchLimit`. If the process dies in between, the row is left
  pending with a `started_at`, which a later pause and resume turn into running
  without a thread.
* `early_stop`: a Plus task ends "succeeded" with fewer accounts than asked,
  with a good number and attempts left, because giving back a slot whose number was swapped, with
  no backup left, declares the pool exhausted. `EarlyStopIsJustified`.

* `stuck_cancel`: `cancelKnownChildren` marks the row of the link `cancel_requested`,
  whatever it says by then, and says of it that the link service will reconcile it. A
  link that is ready has no tracker any more and the extractor refuses to cancel what is over: the
  row stays as it is, the account counts as busy and can neither be
  extracted nor deleted until it is repaired by a restart. `MarkedRowReconciled`.

Known as well, without a run: `cancel_registration_queue` freezes the queue "so no pending
registration can be claimed", but a dispatcher that read the flag before the
freeze claims one after it; and a poll that is answered after a cancel ended the row makes
the row active again, and a new extraction for the account is then not tracked,
because the old tracker still is there (`payment-link-service.js:515`).

`acquireHeroNumber` of `payment-agreement-service.js` (558-563) throws for a phone that does not fit the country, or a price above the
limit, with the id of the number it was sold, and nobody tells HeroSMS: the number is held by nobody and never given back.
`openai-sms-service.js` (806-809, 891-904) gives such numbers back. `OnlyRefusedAreLost` states the loss as the code has it.

The workbench of the extractor writes the answers of its own calls over what the socket has told it since (`app.js` 607-616, 961-962,
1000-1004): a task that is over may be shown as "queued" or "cancel_requested" for ever, and a task that was
deleted meanwhile reappears (`ensureTask`). `WatcherAgrees` allows just that, for just such tasks.

## What the checks do not show

* Liveness (`RecoveryDispatched`, `StoppedFreesKeys`, `CancelBeforeBodyEnds`,
  `UnpausedBatchEnds`, `NumbersGoBack`, `AcceptedGoBack`, `CancelEnds`, `PipelineEnds`, `TrackedRowSettles`,
  and the fairness in `ImplementsRemoteTask`) is model-checked only: the prover does
  not handle fairness. All other properties of the runs are proved.
  `NoOrphan` is proved, and checked, for one life of the process only.
* The proofs rest on the assumptions named in the modules: `TaskAssumption`,
  `LaneAssumption`, `BoundAssumption`, `ExtractorAssumption`, `BatchAssumption`,
  `SmsAssumption`, `AgreementAssumption`, `LinksAssumption`, `PipelineAssumption`. They only restrict what a constant is (finite sets of rows and tasks, positive limits,
  at least as many mailboxes as accounts, distinct numbers, a task with items), as the code's own
  validation does. The numbers of a batch are distinct because `parse_sms_pool` keeps a set of the (phone, relay address) pairs
  it has seen (`registration-worker/platforms/chatgpt/payment.py:3723-3726`); a number is such a pair.
* `TaskRuntime` leaves out what handlers do besides saving accounts, the task
  events and their stream, and the validation of payloads.
* `ExtractorTasks` leaves out `close()`, passwords, a second login (which loads the list again while a socket is open), the
  detail view, and rows a page keeps of tasks that expired or were deleted without an event for it: `WatcherAgrees` is about tasks that exist.
* `RegisterBatch` leaves out the payment inside the registration browser, the
  BitBrowser profiles, the GoPay batches, and other tasks that take execution
  slots while the task runs (they only give them back). A release of the row
  during the batch acts on it as a cancel does and is not distinguished from one.
* `OpenAiSms` leaves out `close()`, errors of the database (a number whose row
  could not be written is given back by another path), checks of `start`, a `relayUrl` that is not configured, an answer of the
  worker for another task, the events copied from the worker, and the list of countries and prices. A number that
  HeroSMS sold in an answer that was lost is unknown to the hub, hence to `NumbersGoBack`. A request to HeroSMS
  that is carried out after its caller gave up on it is not modelled either.
* `IcPipeline` takes registrations as jobs of `RemoteTask`, without the race of a claim and
  a cancel at the worker (see how the modules compose): a registration that was reported
  cancelled and is then claimed runs on, and the hub, which saw it end, does not cancel it again.
* `PaymentLinks` and `IcPipeline` leave out `close()`, the mail.com pipeline, addresses that a task
  creates for itself, credentials and their refresh, proxy pools and settings. A fault of the model is a
  failed request or a restart, never an error of the database.
* `PaymentAgreement` leaves out a restart of the hub (contexts are in memory, and their numbers are
  then lost to it), captchas and browser actions of the job, a number whose `setStatus`
  fails (nobody looks at the answer), `close()`, and what makes `acquireHeroNumber` refuse a number (a free choice).
* Not modelled at all: the components of the plan's second half, and what is
  remote I/O, rendering or CRUD (see the inventory).
* Every mapped line is control or state; parsing, formatting, logging, HTTP
  requests to third parties and SQL details are outside of the models.

## Running

    tlc -config batch.cfg RegisterBatchMC.tla
    tlapm RegisterBatchProofs.tla

`PROJECT.json` lists the components, the runs, the hazards with the
properties that cover them, and for every definition the lines it models.
