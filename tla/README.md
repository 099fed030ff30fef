# Akonadi, modelled in TLA+

The repository is a KDE playground: some forty programs and libraries side by
side. Most of it is desktop user interface. The part with a core of its own is
**Akonadi**, the storage service for mail, contacts and calendars: a server with
one thread per client (`src/akonadi/server`), resource agents that connect it
to mail servers and files, each a process with an event loop, and the client library both are built on
(`src/kdepimlibs/akonadi`). This directory models the parts of Akonadi through which a
change or a request for an item travels, checks them with TLC, and proves their
most important invariants with TLAPS.

## 1. Inventory

A client changes an item through the server; the server notifies the resource
that owns the item; the *change recorder* of that resource writes the change
down, in memory and in a file; the *task scheduler* of the resource decides when
to replay it; the resource repeats it on its own server and calls
`changeProcessed()`. The other way round, a server thread that needs a payload
that is not in the cache asks the *item retrieval manager*, which calls the
resource by D-Bus; there the request becomes a task of the same scheduler.

    client --job--> server thread --notification--> Monitor/ChangeRecorder
                        |                                   | changesAdded()
                        | ItemRetriever::exec()             v
                        v                           ResourceScheduler --task--> resource
              ItemRetrievalManager --D-Bus call--------^     |  changeProcessed(), taskDone()
                        ^-------------reply------------------+

| Component | State | Operations | What makes it correct |
|---|---|---|---|
| Resource task scheduler (`resourcescheduler.cpp`) | five task queues by priority, the running task and its queue, online flag, zero timers | `schedule*`, `executeNext`, `taskDone`, `deferTask`, `setOnline`, `cancelQueues`, `clear`, `collectionRemoved` | nothing stalls; no task twice; every caller of an item request is answered once |
| Notification compression (`notificationmessagev2_p_p.h`) | a list of notifications | `appendAndCompress` | merging, dropping and purging loses nothing a recipient needs |
| Monitor (`monitor_p.cpp`) | pipeline and pending notifications, receivers | `slotNotify`, `flushPipeline`, `cleanOldNotifications`, `translateAndCompress` | a message becomes the right messages; the counts it reports are right |
| Change recorder (`changerecorder*.cpp`) | pending list, file, start offset, known count | `replayNext`, `changeProcessed`, load, save, enqueue, dequeue, erase | the file equals the list whenever a crash may happen; no change is lost; the replay ends |
| Replay by a resource (`resources/imap`) | the remote store | additions, edits, flag changes, deletions, each of several requests | cache and remote store agree in the end; no message is there twice |
| Item retrieval (`itemretrieval*.cpp`, `itemretriever.cpp`) | a queue and a job per resource, waiting threads | `requestItemDelivery`, `processRequest`, `retrievalJobFinished`, jobs | no lost request, no lost wakeup, success means that the parts are there (for parts of its own request) |
| ResourceBase, AgentBase (`resourcebase.cpp`, `agentbase.cpp`) | current collection, running sync jobs, message of a request | slots that start, end, cancel or defer tasks | each task ends exactly once, by the code it belongs to |
| Cache cleaner (`collectionscheduler.cpp`, `cachecleaner.cpp`) | a schedule by time, a timer that can be paused, a counter of inhibitors | schedule, remove, inhibit, fire | nothing expires while a handler relies on it; the timer fires for what is scheduled |
| Notification collector, transactions (`notificationcollector.cpp`, `datastore.cpp`) | notifications and transaction depth of a connection | collect, commit, rollback, dispatch | notified exactly what was committed, in order |
| Preprocessor and search task managers | queues per agent, timeouts, heartbeats | begin, finish, cancel, timeout | each item, each search ends once |
| Sessions and jobs, ItemSync, CollectionSync, RecursiveMover | pipeline of jobs, of listed items, of moved folders | job steps, deliveries, commits | each job ends once; the store converges to the listing |
| Agent manager, process control | agents, processes, restart counts | start, crash, restart | crashed agents return; a shutdown ends them |

`PROJECT.json` lists these, and everything else in the repository with the
reason it is left out.

Around this path, in the server: the changes of a command go through the
*transactions* of its `DataStore`, and what is notified waits there for the commit; a
new item is hidden until the chain of *preprocessors* is done with it; searches are
put to resources by the *search task manager*; the *cache cleaner* expires payloads,
which then have to be retrieved again.

**What is hard about it.** The server has a thread per connection beside the main
thread and those of its managers, so there it is which lock is held, who waits for
whom, and what a pointer leads to once the lock is free. The agents run in one event loop, where the
difficulty is what happens *between* two callbacks: a notification that arrives while
the change it concerns is being replayed, a request that joins a running task, a resource that goes offline in
the middle of a task, an agent that crashes between an upload and its acknowledgement. And
all wait for processes that are slow, answer late or for another, or are gone.
The hazards in `PROJECT.json` name the lines.

## 2. Modules

| Module | Models | How |
|---|---|---|
| `Lists`, `ListFacts` | the QList operations | operators on sequences; loops as recursive functions, with proved facts |
| `ResourceScheduler` | the scheduler and how ResourceBase uses it for item requests | one record `sch`; each method an operator from the record before to the record after; each slot an action |
| `ResourceBase` (extends `ResourceScheduler`) | scheduler, recorder, jobs, movers and the resource together | a task is worked on by one piece of `work`, whose reports are the slots |
| `Notifications` | `NotificationMessageV2`, `appendAndCompress()` | a pure operator on lists, with the number of messages appended |
| `Monitor` | `slotNotify()`, batches, legacy observers, moves, receivers | pure operators; "sig" is the set of signals that have receivers |
| `ChangeRecorder` (extends `Monitor`) | recorder, file, event loop of the agent | one record `rec` with memory and file; each method an operator that is told whether the file can be written |
| `ChangeLog` | what a recorder promises | abstract specification: a log, implemented by `ChangeRecorder` |
| `ChangeReplay` (extends `ChangeRecorder`) | clients, recorder and IMAP resource together | adds the cache, the remote store, the data that travels with a change, and the requests that repeat it, one action each |
| `ItemRetrieval` | connection threads, retrieval thread, resources | one action per critical section of the read/write lock |
| `SearchTaskManager` | connections that search, the loop of the manager, agents that answer | one action per stretch of the loop between two waits or turns |
| `CollectionScheduler` | the schedule and timer of the cache cleaner, the notification collector that feeds it, inhibitors | main thread against connections; time counts from now |
| `PreprocessorManager` | wait queues, chain, instances and agents, the appends that enter items | main thread against connections; `mMutex` is what makes an action one step |
| `DataStore` | transactions of clients and handlers, the statements of a change and its notification, recorded queries and their replay | one connection, since each has a `DataStore` of its own; a statement, a notification, and the end of a transaction are a step each |

`MC*` modules give constants their values. `*_proofs` modules hold theorems.
Operators whose comment begins with *Mutant* are variants of the definition that
follows them, with a bug that would be easy to make; each property is known
to fail when its mutant replaces the definition. Where a type invariant is not
among the properties of a run (`ResourceTypeOK`, `ReplayTypeOK`, and `TypeOK` of the
managers of the server) it is a theorem.

Conventions. Where the code runs in one event loop, a step is one callback
with everything it calls. Where it runs in threads, a step is what happens under
one lock. Messages keep what compression looks at (type, operation, entities,
session, parent, destination) and the sets it merges; remote ids, revisions, MIME
types, texts and progress reports are left out.

*Mishaps.* Much of this code is right but for a few accidents. The
modules record them in the variable `mishaps`, at the place in the code where they happen, and a property
names those that excuse it. So a property says two things: that nothing else breaks it, and what does. Section 5 lists
them. Actions do not look at `mishaps`, but for the bound `Astray` (below) and
`deadlock`, after which the mutex of the preprocessor manager stays locked.

### Correspondence

*ResourceScheduler.* `sch.queue` is `mTaskList`, `sch.current` is `mCurrentTask`,
`sch.from` is `mCurrentTasksQueue`, `sch.timers` counts the `executeNext()` calls
that `QTimer::singleShot( 0, ... )` has under way. A task is its type, an argument
that stands for collection, item and parts or receiver and method, and the D-Bus messages
it answers. Which tasks are compared with the running one and which are not follows
the thirteen `schedule*` methods. Serial numbers, which `Task::operator==` does not compare, are left out.

*ResourceBase.* `record` is the list of the change recorder, `answered` the changes the resource called
`changeProcessed()` or `cancelTask()` for. A piece of `work` is a job of
ResourceBase (fetching an item or a collection, synchronising, committing, deleting) or the
resource itself; its report is the slot that follows: `Prepared`,
`DataAvailable`, `ResourceDone`, `Processed`, `ResourceCancels`, `ResourceDefers`, `JobDone`, `SyncDone`,
`LocalListDone`. It remembers the task it was begun for, which the code does not:
the slots look at the running task. `movers` and `recursiveMover` are the `RecursiveMover`
jobs and the pointer to the one that runs. `CrashAndRestart` keeps the list, as
`ChangeRecorder` shows that the recorder does, and asks for a replay of what is
in it.

*ChangeRecorder.* `rec.pending` and `rec.pipeline` are the queues of
`MonitorPrivate`; `rec.lastKnown`, `rec.startOffset`, `rec.needFullSave` the members
of `ChangeRecorderPrivate`; `rec.file` the file `<config>_changes.dat` as version, start offset and
entries. `replaying` is "the ChangeReplay task runs", `handlers` are the changes that were emitted
and not yet answered: normally at most one. `ReplayNext` chooses which
changes have their data at hand, so the pipeline is taken or not; `DataAvailable`
delivers the pipeline. `replayNext()` calls itself; the model iterates it until it
stops. Taking from an empty QQueue is undefined; the model lets the agent crash there.

*ChangeReplay.* `cache` is the server's store, `remote` the message that the remote id of an item
names on the mail server, and `copies` how many messages of the item are there. `carried` holds, per emitted change, the
item data the recorder fetched, which is what the IMAP tasks upload, and how far the task is. A task takes several requests, each
an action: `AppendMessage` (`AddItemTask`, `ChangeItemTask`) puts *another* message there, `Clear` marks the one it replaces as
deleted, `Commit` stores the new uid in the item; `StoreAdded` and `StoreRemoved` are the two requests of
`ChangeItemsFlagsTask`, `MarkDeleted` is `itemsRemoved()`. After any of them the agent may crash, upon which the change is
replayed from the start, and any of them may fail (in workloads with `errors`): `Cancel` is `cancelTask()`, which takes the change out of the record
with what is done of it. `Lose` is the new uid that is not found, or that the server does not take. A `Commit` without `Clear` is the old message that
could not be deleted, at which `ChangeItemTask` does not look. `dropped` and `doubled` are not in the code: the items of changes that were given
up, and those of which a message may have been left behind. A client's change and its
notification are one step; while the agent is down nobody is notified. Flags change as `DataStore` changes them and
tells of it: `SetFlags`, `AppendFlag`, `RemoveFlags` are `setItemsFlags()`, `appendItemsFlags()` and `removeItemsFlags()`, and what
they tell of several items is not true of each. `ahead` and `muddled` are not in the code: the items that have in part
what a recorded flag change says, and those whose flag changes were merged so that what is
repeated is not what was done (`Muddles`).

*ItemRetrieval.* `pending` is `mPendingRequests`, `job` is `mCurrentJobs`, `starting`
the local `newJobs` of `processRequest()`, `events` the queued `requestAdded()`
signals. A thread is in `exec()` ("working"), has appended its request ("posted"),
is about to look at it under the read lock ("checking"), or sleeps on
`mWaitCondition` ("waiting"). `Delivered`, `CallFailed` and `UnknownMethod` are the
three ends of a D-Bus call; a failure covers error replies, timeouts and resources that go away. `unasked` is not in the code: the
parts a thread was told that it has by the end of a job that had not asked for them.

*SearchTaskManager.* `tasklist`, `running`, `results` are `mTasklist`, `mRunningTasks`
and `mPendingResults`; a `SearchTask` is on the stack of a connection, so `search` keeps it
with the place in `SearchRequest::exec()`. `loop` is where `searchLoop()` is, `woken`
and `timeout` what it waits for. `asked` are the queries under way to agents and back, with
the ids their answers may bear: `AgentSearchInterface` keeps one `mSearchId`. `CollectionNotReceived` is
its failed fetch of the collection, which answers without an id.

*CollectionScheduler.* `mSchedule` holds copies of collections with the time of their check; `timer` is
`mScheduler`, with what a `QTimer` is after another thread touched it. A pass of
`schedulerTimeout()` takes its collections one by one (`PassOne`), as the other
threads see it. `Add`, `Modify`, `Move`, `Remove` are what `NotificationCollector` tells the scheduler in a
transaction that is committed or rolled back. `Inhibit` and `Uninhibit` are
the two ends of a `CacheCleanerInhibitor`. `unheard` records that an inhibitor began in a pass.

*PreprocessorManager.* `waitQueue` is `mTransactionWaitQueueHash`, `signals` the queued signals of
`DataStore`s, `chain` and `instance` the chain with the queue, `mBusy` and the agent of
each. An append (`AppendItem`, `CommitAppend`, `Notify`) is inserted, committed and entered in three steps, since `ItemAppend`
calls `beginHandleItem()` after the commit. `owed` is not in the code: the preprocessors
a hidden item is still to see.

*DataStore.* `level` is `m_transactionLevel`, `queries` is `m_transactionQueries`, each with the values
that are bound to the query now, `pending` is `mNotifications`. `client` and `commands` count
the transactions that the client began and the `Transaction` objects of the handler, which the code
does not know apart. `tx` and `stored` are the database, as sets of statements that were executed.
`work` is where the handler is: a change has `Steps` statements, each of which goes through `QueryBuilder::exec()` (`Execute`, `Fail`, and three
outcomes of a retry), and of which `NotificationCollector` is told by its kind. A *modification* is told after its last statement
(`DataStore::setItemsFlags()` and its like), an *append* or merge after the handler has committed its own transaction
(`CommitAppend`, then `Notify`: `akappend.cpp:392-396`), a *removal* before its first statement (`Start`: `cleanupPimItems()`, `cleanupCollection()`).
`GiveUp` and `Fail` are the handler that returns or throws in the middle, upon which its `Transaction` objects are destroyed one by one. `failed` is not
in the code: the changes for which that happened. A rollback of the outermost level takes those out again of which it undoes something (`Undone`), so what is left in `failed` was given
up outside of a transaction, or in one that was committed all the same: only the client does that. What `exec()` says of a statement the model believes that the handler looks at: statements whose result
nobody looks at are not steps. MySQL and PostgreSQL are one kind of database ("server"), for which a step may do what either may. When the driver
fails to roll back, nothing is assumed to be left open.

## 3. Runs

"Pass" runs check the named properties over all reachable states of the instance;
"violation" runs show a disagreement between the code and what a comment or a
header promises (section 6).

| Run | Configuration | Shows |
|---|---|---|
| `scheduler_safety` | all operations, one collection, fetch, method and move, two requests, 3 tasks, 2 timers | queue numbers, no lost wakeup, no duplicate task, at most two change replays |
| `resource_base` | five kinds of tasks asked for, a request, two changes that may be moves, one fault (offline, deferral, abort, failed mover or crash), fair | a running task is worked on and ends once; recorded changes have a replay; none leaves unseen; callers are answered |
| `recorder` | eight kinds of notifications (merged, annulled, converted, split, heard by nobody), batches of 2, two crashes, one abort, deferral and unwritable file, two agent versions and upgrades between them, two initial files, fair | the file holds the list; the counts are known; all changes leave the record; the recorder implements `ChangeLog` |
| `recorder_in_flight` | three kinds, one item | section 6 |
| `replay` | three workloads: payloads of 2 items from 2 clients, 3 changes, a crash and a deferral; all kinds of changes, 2 flags, one client, 3 changes, any request may fail, a crash or a deferral; flags alone, one client, 4 changes | cache and mail server agree, but for items that were muddled or a change of which was given up; no message twice, but for uploads that were cut short |
| `retrieval` | 2 threads, 3 items of 2 resources, 2 parts each, five kinds of requests, 2 calls of `exec()`, fair | requests tracked, no lost wakeup, success means that all is cached that was asked for, every thread goes on |
| `retrieval_parts` | the same | section 6 |
| `search` | 2 clients, 2 searches, a collection in each of 2 resources, one fault, fair | no dangling pointer, no forgotten client, no foreign results, every search ends |
| `cleaner` | 2 collections, one with the policy of its parent, two timeouts, 2 changes or inhibitors, fair | the schedule follows the database, the timer the schedule, passes heed inhibitors, all is cleaned |
| `preprocessor` | one connection, 3 items of which one is referenced, 2 preprocessors, one fault, fair | every hidden item is known to somebody, agents are asked for heads of queues, items are shown after all have seen them, and are shown |
| `preprocessor_deadlock` | the same | section 6 |
| `transactions` | 2 changes of 2 statements and any kind, a level of the client and 2 of handlers, 4 errors, three kinds of database | levels balanced; told is stored and stored is told, but for what was given up and not rolled back; nothing before the commit |

The actions of `ResourceScheduler` that are not in `ResourceBase` (`cancelQueues()` and `clear()` at any
moment, several callers of one fetch) are the matter of `scheduler_safety`; progress is that of `resource_base`,
where tasks end because something ends them, and not because fairness says so.

### Bounds

Every bound is a constant whose name begins with `Max`, and a guard of the action it limits.

* `MaxTasks` (3) limits what is queued: enough for a running task, a duplicate of it that
  is queued meanwhile, and an unrelated one; `MaxTimers` (2) lets a spare
  `executeNext()` come when there is nothing to do. In `resource_base` they are 2 and 1; they limit what is asked
  from outside, not the tasks that slots queue in addition.
* `resource_base`: 2 changes, so that one arrives while the other is replayed or moved; two movers, so that a move
  can be replayed twice; one fault. Its invariants were also checked with two faults (9.5 million
  states), for which the run is too short.
* `Astray`, in `ResourceBase`: once work that belongs to one task has ended another (mishap `stale`), has been shared by
  two (`shared`), or a mover and its task have come apart (`dangling`, `abandoned`), the model stops. The code
  goes on, and may do anything to any task: there is nothing left to say of it. The properties cover the states up to there.
* `MaxNotices` is 4 in `replay`: one change to be replayed, one that is compressed
  with it, and one that arrives in between. In `recorder` it is 2, beside a change that is found in the
  file at the first start. `MaxBatch` (2) makes one call of `slotNotify()` add and erase.
  In `replay` a workload has bounds of its own: `most` changes, `faults` (crashes and deferrals), and whether requests may fail (`errors`), which is
  bounded by the changes: a task ends with the request that fails. Two sessions, two flags and
  groups that overlap are what merging tells apart; the sessions are symmetric.
  `MaxCrashes` is 2 in `recorder`, so that a file written after a restart is read again, and 1
  elsewhere: a start depends on nothing but the file.
* `MaxFailures`, `MaxAborts`, `MaxDefers` are one each where they are used. `MaxSpent` limits notices, crashes, failures, aborts and deferrals
  together: 4 in `recorder`, so that any two accidents meet any two notices; it does not bind in `replay`.
* `MaxExecs` (2): two threads at once. `WishLists` are what may be asked for: one part of an item, the other, both of two items, one of three items
  of both resources, and an item of the second; so the queue meets an equal item with the same, other and more parts, another item, and another resource.
* `search`: `MaxSearches` (2) is enough for an answer to a search that was given up to meet the next one, of the same client or the other.
* `cleaner`: units of half a minute, so that checks fall into one batch of a minute or not, above and
  below the minimum interval; `MaxLate` (3) limits how long the main thread may keep the timer waiting.
* `preprocessor`: with `MaxSignals` (2) a transaction can begin while the signal of the last is queued. Connections
  share nothing but the main thread, so one shows every race.
* `transactions`: `MaxNested` (2) and `MaxClient` (1) give inner, outer and mixed levels. With 2 statements a handler can give up before,
  between and after them; with 2 changes one is behind the other in a transaction, or in the next. With 4 errors (a replay that fails takes two, as
  does a commit whose rollback fails) a replay can fail at the begin, in the middle, or succeed and be followed by a failing commit and rollback.

A bound ends every behaviour, so the runs say `CHECK_DEADLOCK FALSE`, except
`scheduler_safety`, whose resource may always be switched on- or offline; `resource_base` stops where it is `Astray`.

### Fairness

* `ResourceBase`: zero timers fire, what is under way reports, and the network comes back. That
  a resource answers what it was asked is its contract (`resourcebase.h`); that a *task* ends is not assumed but follows
  from `WorkedOn`.
* `ChangeRecorder`: the event loop runs a replay while changes are recorded
  (ResourceBase schedules one on `changesAdded()` and after each `changeProcessed()`, which `ReplayPlanned` checks),
  fetch jobs end, the resource answers each change, and Akonadi's control process restarts agents.
* `ItemRetrieval`: threads and the event loop run. Calls end, because
  `resourceInterface()` sets a timeout of five minutes; *strongly* fair, since whether the call can
  end now is suspended while the event loop is busy starting other jobs.
* `SearchTaskManager`, `PreprocessorManager`: threads run and time passes, so the loop's wait of a minute and the heartbeat
  end. Agents need not answer, since the timeouts are there for that.
* `CollectionScheduler`: the main thread runs, time passes, and commands, which hold the inhibitors, end.

No fairness is assumed for clients, crashes, failures or aborts.

## 4. Proofs

All for arbitrary values of the constants, under the named assumptions of each module
(finiteness of the sets of entities and threads, bounds are natural numbers, messages have entities).
Every invariant that a run checks is a theorem, and so is the refinement of `ChangeLog`. Hardly any is inductive: each of the
sections below names what had to be added, and why. The additions were also checked by TLC, on the configuration of the run.

`ListFacts` says what `Keep`, `Iterate`, `FirstIn` and concatenation return, and has the loop
principle `IterateHolds` (an invariant of each round holds in the end).

### The scheduler and ResourceBase: `Resource_proofs`

*Wakeups.* `TypeCorrect`, `DeferAssertionHolds` (a running task knows its queue, the assertion of `deferTask()`) and
`NeverStalls` (no lost wakeup) are proved together: one lemma per method says that it keeps the record
well-typed, the queue number in step with the running task, and a timer on its
way whenever the scheduler is online, idle and not empty. The actions then only combine them.

*Copies.* `NeverTwice` (`OneCopy`) and `FewChangeReplays` (`AtMostTwoReplays`) need that a task is in the queue of its type
(`Home`), without which a comparison with that queue would not find it. All positions of the queues and the running
task are *places*; each method moves tasks between places, and a lemma per method says that no two places come to hold the same. For
replays it says the same of places: of any three that hold a change replay two are the same (`FewReplays`).

*ResourceBase.* `AlwaysWorkedOn`, `AlwaysPlanned`, `NeverSkipped` and `AlwaysServed` (`WorkedOn`, `ReplayPlanned`, `NoChangeSkipped`,
`CallersServed`), and `ResourceTypes`, follow from one invariant, since a slot acts on the running task and each property therefore rests on the
others:

    ResourceInv == Base /\ (~Astray => Orderly)

`Base` holds always: types, the scheduler's invariant, that no D-Bus message is held by two tasks and only fetches hold
any (`LettersSound`), and that work is at a place for tasks of its kind (`Placed`). `Orderly` has four parts. `LiveSound`: the running
task has one piece of work, of its type and argument, and if that is a mover's, it is `m_recursiveMover`. `Planned`: a replay waits or runs.
`ChangesSound`: what is being replayed is the first of the record, by the resource or by the only mover
in hand; so what `changeProcessed()` dequeues is what the resource has answered, from which `NoneLost` follows.
`CallersSound`: who is not answered has a task. `Adds(s, u)` is what all methods that schedule have in common, and
`EmitKeeps`, `ProcessedKeeps`, `EndKeeps`, `DeferKeeps`, `GoingOnKeeps` are the five things a report can lead to; a lemma per slot says which.

### The recorder: `ChangeRecorder_proofs`

The first part says what `appendAndCompress`, `translateAndCompress` and one round
of `slotNotify()` return: a list of messages whose length is the old one plus what
was reported as appended, unless something was erased, which the round notices.
Then `RecorderTypes`, `CountAssertionsHold` (the assertions
on the number of changes) and `FileIsEnough` (the file holds the list). `FileHoldsPending` alone is not inductive: a
dequeue writes only the start offset, so the proof needs that the offset counts from the entries
of a file of version 3, unless a full save is due. `Sound` says so for one record,
`Kept` that loading the file gives the list, and

    RecorderInv == TypeOK /\ (up => Sound(rec)) /\ (up /\ no failure so far => Kept(rec))

is inductive. Each method has one lemma that it keeps `Sound` and, if the file can be
written, `Kept`; the self-calls of `replayNext()` and the loop of `flushPipeline()` go through `IterateHolds`.

`RecorderIsLog` proves `ImplementsLog`, step by step: a batch is `Record`, a replay and the arrival of data are `Give`, an answer is
`Done`, a start is a stutter. It holds of agents and bounds that are `Undisturbed`: the file can be written, no replay is
given up, the agent stays the version it is, and it hears what is made of the changes it hears of (`Complete`: an agent told of moves is told
of additions and removals). The run goes further: all of this happens in it, and the refinement is asked of each step with `Current` and `Calm'`: the agent listens for
all that is recorded, and no save has failed and no replay was given up. The liveness properties ask `Calm` and `AllHeard` (each recorded change is of a kind that the agent
listens for). None of these can be spared. Without
them TLC finds a change lost: the file is old; the change waits in
the pipeline and the next replay takes it for an ignored move (`changerecorder.cpp:73`); or a version that does not hear of the first
change drops it in `cleanOldNotifications()`, and `replayNext()` dequeues the one behind it (`changerecorder.cpp:71`). The invariant
`LogInv` adds to `RecorderInv` that all that is recorded is heard and enters the pipeline as one message (`Fit`), and that at most one
change is in the pipeline or with the resource, while a replay runs. So nothing is absorbed into the pipeline, cleaned, or
dequeued from an empty queue, and what a replay skips concerns nobody (`Skipped`). `ChangeLog` has its own copies of the
operators of `Monitor`; the lemmas `Log...` say that they are the same.

### The replay on the server: second half of `ChangeRecorder_proofs`

`ServerConverges` proves `ConvergedUndisturbed` and `NothingTwice` proves `OnceEachUndisturbed`, for any items, flags, sessions and workloads, also
those in which the mail server refuses requests. The properties speak of the moment
when nothing is recorded; the invariant says what the record is at any other moment:

    ReplayInv == LogInv /\ CoreTypes /\ Shape(Recorded) /\ AllLive /\ StagesFit
                 /\ (displaced \/ (FirstIsOut /\ DataIsFresh /\ AllRight))
    CountInv  == ... each item has at least, and but for raced and doubled exactly, the messages
                     Expected(i) == one if its remote id names one, one if it was appended and not named yet

`Recorded` is what the file holds, whether the agent runs or not, which is the list in memory by `LogInv`. `AllRight`
is the heart: of each item, the changes recorded after those already repeated (at most the first, by `LogInv`, as far as its requests have
come) account for the difference between cache and server; of an item that is `dropped`, only an upload or a deletion has to. That is *not* said by applying the list to the server, which would need induction
over the list. `Settled` says it of existence and payload: they agree, or an upload, or a deletion, is
still to come. `FlagAt` says it of each flag by itself, in terms of the changes that speak of it:

* `Ends`: the last of them leaves the flag as it is in the cache.
* The flag agrees if none of them is left and the item is there, and is not to be created again.
* `Chains` and `Starts`: each finds the flag as the one before left it, and the first finds it as it is on the server. Without these a pair that
  annuls itself could not be dropped. They may be false of items that are `ahead`, and are not needed there: annulling
  one of their changes makes the item `muddled`.

The rest is what keeps this going. `StagesFit`: a task is at a stage of its kind of change. `Shape`: all entries are changes of items. `AllLive`: there is nothing in the record before
an item's creation, and no deletion while it is there; so a purge takes only what a deletion makes void. `FirstIsOut`
and `DataIsFresh`: what the resource holds is the first of the record with the item as it is now, unless that was
changed since (`raced`); so what is uploaded is what the record's first entry says.

The proof has three layers. *Lists*: however a change is compressed, the new list derives from the old one, with its entries in the same
order (`CompressionDerives`), and two lists say the same of a flag if one echoes the other (`EchoKeepsFlag`). So whoever is not
concerned stays right (`OthersStayRight`); for who is concerned there is a lemma per kind of change (`FlagsRecord`,
`CreationRecorded`, `DeletionRecorded`, `ModificationRecorded`), and per way a flag change ends: appended, covered by a later entry, merged, annulled.
`RepeatedKeeps` and `AnsweredKeeps` are the requests of the first entry and its dequeue, `RepeatedAgain` a crash in between, after which all is asked again.
*Methods*: in these circumstances `replayNext()` gives out the first entry whole (`replayNextStill`), and what it emits
was in the pipeline. *Actions*: one lemma each (`ChangeKeeps`, `ReplayKeeps`, `ArriveKeeps`, one per request: `AppendMessageKeeps`, `ClearKeeps`, `CommitKeeps`, `LoseKeeps`, `StoreAddedKeeps`,
`StoreRemovedKeeps`, `MarkDeletedKeeps`, then `AnswerKeeps`, `CancelKeeps`, `PutOffKeeps`, `AgentCrashKeeps`, `AgentRestartKeeps`); `RequestKeeps` and `ReleasedKeeps`
are what requests, and the ways in which a change is taken out of the record, have in common.

It assumes `Repeatable`: on top of `Undisturbed`, the agent has connected the signals that the IMAP resource connects to, in
particular the one for deletions of several items and not the one for single ones, and begins with an empty record, since cache and
server are equal at first. TLC has checked that the configuration of `replay` satisfies it, and that
`ReplayInv` and `CountInv` hold in all its 742039 states.

### Item retrieval: `ItemRetrieval_proofs`

`RetrievalTypes`, `NoRequestLost` (each open request is in the
queue or the job of its resource, once) and `NobodyForgotten` (no lost wakeup on either side of the
lock). The inductive invariant adds to `RequestsTracked` that no queue holds a request twice, without
which taking it from the queue would leave it there, and that a job that is about to start exists.
Steps that move one thread share a lemma, `ThreadMoves`; all ends of a job share `FinishedKeepsInv`.

A second invariant, `CacheSound`, says of each thread that what it was asked for is there in part, or has yet to be
requested or answered; from it `SuccessMeansSomething`. A third, `PartsSound`, says the same of each *part*: it is in the cache, still to do, in the
open request of the thread, or one that a job answered without having asked for it (`unasked`). From both `SuccessIsHonest` (`SuccessMeansAsked`),
for any number of parts: where `exec()` reports success, all that is missing are such parts. Without that exception it is false (`retrieval_parts`).

### The cache cleaner: `CollectionScheduler_proofs`

`NeverOutdated`, `NeverForgets`, `WakesInTime`, `InhibitorsHeeded` (`ScheduleIsCurrent`, `NoCollectionForgotten`, `OnTime`,
`HeedsInhibitors`) and `SchedulerTypes`. What will be scheduled are the copies that the main thread holds during a pass and the calls that
wait for it, so the invariant says of these what the properties say of the schedule: `CopiesCurrent`, `CallsCurrent` (an outdated
call has a later one behind it) and `CallFollows` (a copy that asks for no cleaning any more has a call). `OnTime` needs that
no timer runs in a pass, `HeedsInhibitors` that a timer is paused as long as an inhibitor lives.
Lemmas about the minimum of a set of keys replace the ordered map.

### Searches: `SearchTaskManager_proofs`

`NothingDangles`, `SearchKnown`, `NothingForeign` (`ReferencesAlive`, `NoSearchForgotten`, `OwnResults`) and `SearchTypes`. That
pointers are alive is not inductive: a client returns when its search is complete, so nothing that is listed or runs may
be complete (`ListSound`, `RunningSound`), and of the results of one search only one may wait (`ResultsSound`), or
the second would be taken after the client has gone, which is the mishap `together`. `AskedSound` ties the
queries that agents work on to those that run, as long as none was given up; then an answer can bear no foreign id.

### Preprocessors: `PreprocessorManager_proofs`

`NothingStaysBehind`, `AnswersForHead`, `ShownLast` (`NoItemForgotten`, `AskedForHead`, `ShownProcessed`) and
`PreprocessorTypes`. The invariant follows an item from its insertion: it is with one connection, in one wait queue or
in the chain (`PlacesApart`); a wait queue belongs to the open transaction, or a signal is queued that tells how that ended
(`WaitSound`); who is not in the chain has no queue (`ChainSound`); and what an item in a queue still owes are preprocessors from
there on (`OwedSound`). `AskedForHead` is split into what was asked (`AskSound`) and that an idle instance has nothing to do
(`RestSound`), which different mishaps break.

### Transactions: `DataStore_proofs`

`TypeCorrect`, `LevelsBalanced`, `ToldStored`, `StoredTold` and `HeldBack`: all properties of `transactions`, for changes of any number of statements.

    IInv == Safe /\ WorkTyped /\ Announced /\ Contents /\ Numbered /\ GivenUp

Types and levels (`Safe`) and where the handler is (`WorkTyped`) are inductive by themselves. `Announced` is what each kind of change
has said so far: a removal that goes on waits to be told, or was told if there is no transaction, and nothing that goes on inside of one was told.
"Told is stored" has to survive a replay, which rebuilds the transaction from the recorded queries, and to hold of a change
that is told before it is executed, or executed before it is told. So `Contents` keeps the *books* of an open transaction, `Books(X, U, D)`, where
`X` are the changes that are excused (given up or unfinished), `U` the one that is unfinished, and `D` its statements that are done.
They tie the copies of the transaction to each other, each up to the mishaps that break it: what waits to be told
has been written, and so have `D` (`PendingWritten`), and what was written waits to be told, with nothing of `U` in the database while the transaction
is open (`WrittenPending`); the same for what is recorded (`PendingRecorded`, `RecordedPending`); a recorded query has the values of one that was
recorded (`BoundRecorded`); and a database that serialises has nothing to replay (`NothingToReplay`). The lemmas `...Books` say
what each end of a transaction and each outcome of a query does to the books, whatever is excused in them; the lemmas `...Contents` then move the change that the
handler is at: a change that ends leaves the excused (`FinishBooks`), one that is given up stays among them (`DropBooks`).

A rollback takes changes out of `failed`, of which the properties then have to hold without excuse. So `GivenUp` says of every excused change that a rollback or a replay can still
reach (`Traced`: it is pending, in the open transaction or recorded) that nobody was told of it and nothing of it is stored, up to the mishaps that bring it there; then the books
are right without it as soon as nothing is left of the transaction (`ShrinkBooks`, `FailsBooks`). It is kept because the change that is begun next is not traced yet
(`Numbered`), and because what a replay adds to the transaction was recorded (`ExecGivenUp`).

### Model-checked only

* Liveness (`AllServed`, `AllReplayed`, `ReplayEnds`, `ExecEnds`, `SearchesEnd`, `EventuallyCleaned`, `EventuallyShown`): out of
  the prover's reach.
* What an assumption of a theorem excludes and a run includes: `recorder` has failures to write, replays that are given up and upgrades of the agent, and the
  refinement is checked of every step that these do not concern; `RecorderIsLog` and the convergence are proved of agents without them.

## 5. What the checked properties leave out on purpose

`ConvergedUndisturbed` excuses what the violation runs show or the code does not try
to handle: items that were changed again while a change of theirs was in flight or while the agent was down (`raced`),
behaviours in which a notification erased the record of a change in flight (`displaced`: `recorder_in_flight`), items
whose flag changes were `muddled` (section 6, compression), and items a change of which was given up, since a request failed, until they
are uploaded again or deleted (`dropped`: `ResourceBase::cancelTask()`, `resourcebase.cpp:1091`, calls `changeProcessed()`, and nothing tries again).
Within the rest, merging, annulling, purging, batches and one crash after any request leave both stores equal.
None of these excuses can be spared: without any one of the three disjuncts of `Muddles`, or of the three sources of `ahead`
(the server tells of flags that were so before; an item is uploaded with its flags; a crash after an upload), TLC finds the stores different.

`OnceEachUndisturbed` excuses, beside `raced` and `displaced`, the items of uploads that were cut short (`doubled`): `AddItemTask` appends the message
before the item has a uid to name it by (`additemtask.cpp:67-73`), so a crash or an error in between leaves a message that the next attempt
does not know of, and `ChangeItemTask` leaves the old one when deleting it fails. No comment or document promises otherwise, so this
is no finding; that nothing *else* doubles a message, or takes one away too many, is what is checked and proved.
`FileHoldsPending` is stated up to the first save that failed. `SuccessMeansAsked` excuses the parts that a job answered without having asked
for them, which `retrieval_parts` shows to be missing.

`ToldIsStored` and `StoredIsTold` do not speak of the change that the handler is at, nor of those in `failed`: given up in the middle, outside of a transaction or in one that
the client commits all the same. All these happen in the run: statements that are executed before their notification, removals that are told before their statements, and a
failure anywhere in between, at every level. What the code does with them then is in section 6; that a handler which gives up does *no* harm as long as its transaction is rolled back, by whoever and however, is what is
checked and proved. For the mishaps of `DataStore` see the same place.

The mishaps, by module:

| Module | Mishap | Where |
|---|---|---|
| `ResourceBase` | `stale`, `shared` | a slot looks at the running task only, and jobs go on when the network is gone: `resourcebase.cpp:1284`, `:178` |
| | `givenUp` | a replay that was given up leaves its change in the pipeline; the next takes it for an ignored move: `changerecorder.cpp:73` |
| | `twice`, `dangling`, `abandoned` | a move is replayed again while its mover waits, a mover that failed is started again, its task is ended by others: `resourcebase.cpp:386`, `:1025` |
| | `aborted`, `unanswered` | `cancelQueues()` drops change replays and item requests: `resourcescheduler.cpp:525` |
| `SearchTaskManager` | `removed`, `overtaken`, `unregistered` | searches that are never sent: `searchtaskmanager.cpp:121` and the loop |
| | `expired`, `foreign`, `together`, `stopped` | late answers, answers under another id, two results at once, shutdown: `:257`, `:159`, `:241` |
| `CollectionScheduler` | `swept`, `raced`, `deaf` | removal by key, copies of a pass, policies not to clean: `collectionscheduler.cpp:197`, `:293` |
| | `rolledBack`, `parent` | told inside a transaction, inherited policies: `notificationcollector.cpp:118` |
| | `foreign`, `empty` | a timer started by another thread; one that fires with nothing scheduled: `collectionscheduler.cpp:85` |
| `PreprocessorManager` | `inactive`, `overlap`, `leaked` | the chain empties between two looks, wait queues outlive their signal: `preprocessormanager.cpp:245`, `:312` |
| | `stalled`, `stale`, `deadlock` | the queue is looked at without the lock; answers from before; section 6 |
| `DataStore` | `unbegun`, `unexecuted` | a transaction that could not begin: `transaction.cpp:30`; empty queries taken for success: `datastore.cpp:1165`, `:1180` |
| | `incomplete`, `rebound` | replays that stop in the middle, or use the values of later queries: `datastore.cpp:1226`, `:1159` |
| | `premature` | MySQL commits what it did not roll back when the replay begins: `querybuilder.cpp:399` |
| | `kept` | the queries of a transaction whose rollback failed stay recorded: `datastore.cpp:1279` |

## 6. Disagreements found

| Run | Code | Promise |
|---|---|---|
| `recorder_in_flight` | a deletion erases the record of the edit being replayed and is dequeued in its place | `changerecorder.h:73` |
| `preprocessor_deadlock` | an idle instance that is given an item which is gone reports to the manager from inside `enqueueItem()`, under the mutex that the manager holds | `preprocessormanager.cpp:279-281` |
| `retrieval_parts` | a finished job answers the requests of other threads for the same item, also for parts it has not asked for (`itemretrievalmanager.cpp:212`) | `move.cpp:68` |

Seen while modelling, without a run of their own:

* *Scheduler.* `cancelQueues()` drops queued item requests without a reply (`resourcescheduler.cpp:525`), where
  `resourcescheduler_p.h:200` says "properly cancel all the tasks". The change replay queue can hold two
  tasks, a change replay and a recursive move, or the aborted replay and its successor
  (`resourcescheduler_p.h:259` says one at most).
* *ResourceBase.* After a network that went and came in the middle of a task, assertions fail that a release build
  does not have: `!mCurrentCollectionFetchJob`, `!m_recursiveMover` (`resourcebase.cpp:1013`), and those on a request that should be in progress
  (`:990`). "Stop change replay for now" (`:386`) does not stop one that is queued already: it replays the same move again, and the end
  of the second mover removes the next change from the record. A mover that failed
  deletes itself, as jobs do, while its deferred task keeps the pointer (`:1025`). After `cancelTask()` or an abort
  in a recursive move `m_recursiveMover` stays set, and what is said of later changes goes to it.
* *Recorder.* A replay that was given up loses its change (`changerecorder.cpp:73-79`, against the comment there).
  A change without receivers, whose data had to be fetched, leaves the replay task running for ever (`monitor_p.cpp:718`).
  `replayNext()` dequeues a second change after `cleanOldNotifications()` has removed the first
  (`changerecorder.cpp:70`), which needs an agent whose receivers change between two starts. After one failed save,
  the next dequeue writes an offset into a file that lacks entries (`changerecorder_p.cpp:456`). The entries of version 1
  files are read and forgotten (`:165`).
* *Compression.* Merging adds up what flag changes add and remove (`notificationmessagev2_p_p.h:61-62`) and drops both if the sums are equal, as a
  "no-change notification" (`:65`). But the resource adds first and removes last, so a flag that is removed and then set again is lost:
  remove f, set f and g leaves no f; remove f and g, set f leaves neither; set f and remove g, then set g, leaves no g;
  and remove f, then set f and remove g is repeated as +f -f -g. Nor is it no change if part of what is undone was so
  before: `setItemsFlags()` names what changed in any of the items, `removeItemsFlags()` all it was asked to remove
  (`datastore.cpp:252`, `:395`); or if an edit or a replay that a crash cut short has uploaded the flags. And a flag change is merged
  into, or covered by, a message that comes before one of another session or of an overlapping set of items,
  which then has the last word.
* *Transactions.* The states in which the following happen are among those of `transactions`; its properties name each of them as the exception it is, and without the exception TLC finds
  the property violated. A `Transaction` in another only counts down the level (`datastore.cpp:1272`), against `transaction.h:50-51` ("Rolls back the transaction if it hasn't
  been committed explicitly. This also happens if a global transaction is used."): the half of an append that was given up is committed with the client's transaction, and nobody is told; and the
  notification of a removal that failed stays pending (`datastore.cpp:1037`) and is emitted by the client's commit (`failed`). A client does commit after a command that failed:
  `TransactionSequence::setIgnoreJobFailure()` (`itemsync.cpp:427`, `collectionsync.cpp:609`) is for that. A retry without a transaction, or that cannot begin one, returns an empty query, which has no
  error, so that `exec()` returns true for a query that was not executed (`querybuilder.cpp:327`, against `querybuilder.h:224`; `unexecuted`). A replay that fails in the middle is not rolled
  back (`datastore.cpp:1226`, against `datastore.h:313-314`; `incomplete`). Recorded queries share their object with `QueryCache` and are executed with the values bound
  last (`datastore.cpp:1159`, against `:1174-1176`; `rebound`). After a lock wait timeout MySQL has rolled back the statement only (`innodb_rollback_on_timeout` is off, and no configuration of the
  server sets it); the `BEGIN` of the replay commits the rest (`querybuilder.cpp:399`, against `datastore.cpp:1174` and `datastore.h:216-217`; `premature`).
* *Cache cleaner.* `cachecleaner.h:27-36` promises that the cleaner does nothing while an inhibitor lives; a pass that runs goes on.

## 7. Not modelled, and the plan

Not modelled: parsers and formats, SQL and database set-up, user interfaces,
the other programs of the repository; the reasons are in `PROJECT.json`. They are nearly all of its 1.5
million lines, most of which keep no state that could be in the wrong order. Of the modelled
components: the job tracker, statistics, tags and filters of the monitor, switching
recording off, recursion into child collections, the D-Bus interface cache, `IntervalCheck`, the plug-ins of
the search, the content of listings.

Hazards that are real, but below the level of these models: a file that is truncated before it is written
(`changerecorder_p.cpp:456`), the old list deleted from the settings although the new file could not be written (`:108`),
D-Bus notifications lost while the agent is down (`changerecorder_p.cpp:48`), `operator[]` that may insert
under a read lock (`itemretrievalmanager.cpp:146`), a mutex unlocked twice and an `int` that overflows after 24 days
(`collectionscheduler.cpp:265`, `:227`), and changes of two connections told in another order than they were
committed (`datastore.cpp:1303`).

Order of work, most important first:

1. *Done:* `ResourceScheduler`, `Notifications`, `Monitor`, `ChangeRecorder`, `ChangeLog`,
   `ChangeReplay`, `ItemRetrieval`, `ResourceBase`, `SearchTaskManager`, `CollectionScheduler`,
   `PreprocessorManager`, `DataStore`; proofs of all their invariants and of the
   refinement of `ChangeLog`.
2. Action properties of the modules that have none, with their proofs; `ConvergedUndisturbed` for agents that begin with a record.
3. `ItemSync`, `Session` and jobs, `ProcessControl`, the outbox of the mail dispatcher.
