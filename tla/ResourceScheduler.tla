------------------------- MODULE ResourceScheduler -------------------------
(***************************************************************************)
(* ResourceScheduler, the task queues of an Akonadi resource.              *)
(*                                                                         *)
(* The scheduler is an object of a single-threaded event loop: each of its *)
(* methods runs to its end, and the only thing it leaves for later is the  *)
(* zero timer scheduleNext() starts, whose slot executeNext() runs from    *)
(* the event loop.  Several of these timers may be on their way at once.   *)
(*                                                                         *)
(* The state is one record, sch, and every method is an operator from the  *)
(* record before to the record after, so that ResourceBase can compose the *)
(* calls one handler makes.                                                *)
(***************************************************************************)
EXTENDS Lists, FiniteSets

CONSTANTS
  Collections,   \* the collections a task may be about
  Fetches,       \* (item, parts) pairs a client may request
  Methods,       \* (receiver, method, argument) triples of custom tasks
  Moves,         \* (collection, mover) pairs of recursive moves
  Requests,      \* the delayed D-Bus messages of item requests
  MaxTasks,      \* bound: tasks in the scheduler when one is added
  MaxTimers,     \* bound: zero timers on their way when a call may add one
  AllowAbort,    \* whether the user aborts the resource's activities
  AllowClear     \* whether a developer clears the scheduler

ASSUME SchedulerAssumption ==
  /\ MaxTasks \in Nat /\ MaxTimers \in Nat
  /\ AllowAbort \in BOOLEAN /\ AllowClear \in BOOLEAN

-----------------------------------------------------------------------------
(* Tasks and queues *)

PrependTaskQueue       == 0
ChangeReplayQueue      == 1
AfterChangeReplayQueue == 2
UserActionQueue        == 3
GenericTaskQueue       == 4
QueueType == 0..4

\* The task types that carry no data besides their type.
PlainType == {"SyncAll", "SyncCollectionTree", "DeleteResourceCollection",
              "ChangeReplay", "SyncAllDone", "SyncCollectionTreeDone"}
CollectionType == {"SyncCollection", "SyncCollectionAttributes",
                   "InvalideCacheForCollection"}
TaskType == PlainType \cup CollectionType
              \cup {"FetchItem", "RecursiveMoveReplay", "Custom"}

NoArg == "none"

\* A task: what operator== compares (type and arg), and the D-Bus messages
\* that wait for it.  The serial number only feeds the job tracker.
Task == [type : PlainType, arg : {NoArg}, msgs : {{}}]
   \cup [type : CollectionType, arg : Collections, msgs : {{}}]
   \cup [type : {"FetchItem"}, arg : Fetches, msgs : SUBSET Requests]
   \cup [type : {"RecursiveMoveReplay"}, arg : Moves, msgs : {{}}]
   \cup [type : {"Custom"}, arg : Methods, msgs : {{}}]

NoTask == [type |-> "Invalid", arg |-> NoArg, msgs |-> {}]
MkTask(type, arg) == [type |-> type, arg |-> arg, msgs |-> {}]

\* Task::operator==
SameTask(t, u) == t.type = u.type /\ t.arg = u.arg

\* QList::contains, which compares with operator==.
Contains(q, t) == \E i \in DOMAIN q : SameTask(q[i], t)

queueTypeForTaskType(type) ==
  IF type \in {"ChangeReplay", "RecursiveMoveReplay"} THEN ChangeReplayQueue
  ELSE IF type \in {"FetchItem", "SyncCollectionAttributes"} THEN UserActionQueue
  ELSE GenericTaskQueue

-----------------------------------------------------------------------------
(* The methods, as operators on the scheduler's record.                    *)
(*   queue   mTaskList                 current  mCurrentTask               *)
(*   from    mCurrentTasksQueue        online   mOnline                    *)
(*   timers  the executeNext() timers that have not fired                  *)

Scheduler ==
  [queue : [QueueType -> Seq(Task)], current : Task \cup {NoTask},
   from : QueueType \cup {-1}, online : BOOLEAN, timers : Nat]

InitialScheduler ==
  [queue |-> [q \in QueueType |-> <<>>], current |-> NoTask, from |-> -1,
   online |-> FALSE, timers |-> 0]

isEmpty(s) == \A q \in QueueType : s.queue[q] = <<>>

scheduleNext(s) ==
  IF s.current # NoTask \/ isEmpty(s) \/ ~s.online
  THEN s
  ELSE [s EXCEPT !.timers = @ + 1]

\* queue << t; scheduleNext();
Enqueue(s, q, t) == scheduleNext([s EXCEPT !.queue[q] = Append(@, t)])

\* (Mutant: a running task does not keep the same task from being queued.)
ScheduleIgnoresRunning(s, t) ==
  LET q == queueTypeForTaskType(t.type)
  IN IF Contains(s.queue[q], t) THEN s ELSE Enqueue(s, q, t)

\* The methods that refuse a task that is queued or running already:
\* scheduleFullSync, scheduleCollectionTreeSync, scheduleSync,
\* scheduleAttributesSync, scheduleResourceCollectionDeletion,
\* scheduleCacheInvalidation and scheduleMoveReplay.
Schedule(s, t) ==
  LET q == queueTypeForTaskType(t.type)
  IN IF Contains(s.queue[q], t) \/ SameTask(s.current, t)
     THEN s
     ELSE Enqueue(s, q, t)

\* (Mutant: every change queues a replay of its own.)
ScheduleReplayAlways(s) ==
  Enqueue(s, ChangeReplayQueue, MkTask("ChangeReplay", NoArg))

\* A running change replay does not keep a new one from being queued.
scheduleChangeReplay(s) ==
  LET t == MkTask("ChangeReplay", NoArg)
  IN IF Contains(s.queue[ChangeReplayQueue], t)
     THEN s
     ELSE Enqueue(s, ChangeReplayQueue, t)

\* scheduleFullSyncCompletion, scheduleCollectionTreeSyncCompletion: no
\* comparison with the queue at all.
scheduleCompletion(s, type) ==
  Enqueue(s, GenericTaskQueue, MkTask(type, NoArg))

\* The message joins the running or the queued task for the same item and
\* parts, or comes with a new task.
scheduleItemFetch(s, fetch, msg) ==
  LET t == [type |-> "FetchItem", arg |-> fetch, msgs |-> {msg}]
      same == {u \in Elements(s.queue[UserActionQueue]) : SameTask(u, t)}
      idx == FirstIn(s.queue[UserActionQueue], same)
  IN IF SameTask(s.current, t)
     THEN [s EXCEPT !.current.msgs = @ \cup {msg}]
     ELSE IF idx # 0
     THEN [s EXCEPT !.queue[UserActionQueue][idx].msgs = @ \cup {msg}]
     ELSE Enqueue(s, UserActionQueue, t)

CustomQueue(priority) ==
  CASE priority = "AfterChangeReplay" -> AfterChangeReplayQueue
    [] priority = "Prepend"           -> PrependTaskQueue
    [] priority = "Append"            -> GenericTaskQueue

scheduleCustomTask(s, method, priority) ==
  LET t == MkTask("Custom", method)
      q == CustomQueue(priority)
  IN IF Contains(s.queue[q], t)
     THEN s
     ELSE IF priority = "Prepend"
     THEN scheduleNext([s EXCEPT !.queue[q] = Prepend(@, t)])
     ELSE Enqueue(s, q, t)

taskDone(s) == scheduleNext([s EXCEPT !.current = NoTask, !.from = -1])

\* (Mutant: a deferred task leaves its queue number behind.)
DeferKeepsFrom(s) ==
  IF s.current = NoTask
  THEN s
  ELSE scheduleNext([s EXCEPT !.queue[s.from] = Prepend(@, s.current),
                              !.current = NoTask])

deferTask(s) ==
  IF s.current = NoTask
  THEN s
  ELSE scheduleNext([s EXCEPT !.queue[s.from] = Prepend(@, s.current),
                              !.current = NoTask, !.from = -1])

\* The first non-empty queue, in the order of the priorities.
NextQueue(s) ==
  CHOOSE q \in QueueType :
    /\ s.queue[q] # <<>>
    /\ \A p \in QueueType : s.queue[p] # <<>> => q <= p

executeNext(s) ==
  IF s.current # NoTask \/ isEmpty(s)
  THEN s
  ELSE LET q == NextQueue(s)
       IN [s EXCEPT !.current = Head(s.queue[q]), !.from = q,
                    !.queue[q] = Tail(@)]

\* (Mutant: the running task is put back also when there is none.)
AbortAlways(s) ==
  [s EXCEPT !.queue[queueTypeForTaskType(s.current.type)] = Prepend(@, s.current),
            !.current = NoTask, !.from = -1]

\* The running task goes back, to the queue of its type and not to the queue
\* it came from.
AbortRunning(s) ==
  IF s.current = NoTask
  THEN s
  ELSE [s EXCEPT !.queue[queueTypeForTaskType(s.current.type)] =
                   Prepend(@, s.current),
                 !.current = NoTask, !.from = -1]

IsFetch(t) == t.type = "FetchItem"
Fetching(s) == {t \in Elements(s.queue[UserActionQueue]) : IsFetch(t)}

\* setOnline(false): every item request is answered "Job canceled."; the
\* messages answered are CanceledBy(s).
GoOffline(s) ==
  LET a == AbortRunning([s EXCEPT !.online = FALSE])
      kept == Elements(a.queue[UserActionQueue]) \ Fetching(a)
  IN [a EXCEPT !.queue[UserActionQueue] = Keep(@, kept)]
CanceledBy(s) == UNION {t.msgs : t \in Fetching(AbortRunning(s))}

\* (Mutant: switching online does not wake the scheduler.)
GoOnlineSilently(s) == [s EXCEPT !.online = TRUE]

GoOnline(s) == scheduleNext([s EXCEPT !.online = TRUE])

collectionRemoved(s, c) ==
  LET q == s.queue[GenericTaskQueue]
      gone == {t \in Elements(q) : t.type = "SyncCollection" /\ t.arg = c}
  IN [s EXCEPT !.queue[GenericTaskQueue] = Keep(@, Elements(q) \ gone)]

cancelQueues(s) == [s EXCEPT !.queue = [q \in QueueType |-> <<>>]]

clear(s) == [s EXCEPT !.queue = [q \in QueueType |-> <<>>],
                      !.current = NoTask, !.from = -1]

-----------------------------------------------------------------------------
(* The scheduler in an arbitrary resource *)

VARIABLES
  sch,      \* the scheduler's record
  asked,    \* the delayed D-Bus messages received
  replies   \* how many replies each message has got

vars == <<sch, asked, replies>>

Tasks(s) == (UNION {Elements(s.queue[q]) : q \in QueueType})
              \cup (IF s.current = NoTask THEN {} ELSE {s.current})

TaskCount(s) == Len(s.queue[0]) + Len(s.queue[1]) + Len(s.queue[2])
                  + Len(s.queue[3]) + Len(s.queue[4])
                  + (IF s.current = NoTask THEN 0 ELSE 1)

\* sendDBusReplies: one reply to each message of a task.
Reply(msgs) == replies' = [r \in Requests |->
                             IF r \in msgs THEN replies[r] + 1 ELSE replies[r]]

Init ==
  /\ sch = InitialScheduler
  /\ asked = {}
  /\ replies = [r \in Requests |-> 0]

\* The bound on calls that may add a task or a timer.
Room == TaskCount(sch) < MaxTasks /\ sch.timers < MaxTimers

ScheduleTask ==
  /\ Room
  /\ \E t \in [type : {"SyncAll", "SyncCollectionTree", "DeleteResourceCollection"},
               arg : {NoArg}, msgs : {{}}]
            \cup [type : CollectionType, arg : Collections, msgs : {{}}]
            \cup [type : {"RecursiveMoveReplay"}, arg : Moves, msgs : {{}}] :
       sch' = Schedule(sch, t)
  /\ UNCHANGED <<asked, replies>>

ScheduleChangeReplay ==
  /\ Room
  /\ sch' = scheduleChangeReplay(sch)
  /\ UNCHANGED <<asked, replies>>

ScheduleCompletion ==
  /\ Room
  /\ \E type \in {"SyncAllDone", "SyncCollectionTreeDone"} :
       sch' = scheduleCompletion(sch, type)
  /\ UNCHANGED <<asked, replies>>

ScheduleCustomTask ==
  /\ Room
  /\ \E m \in Methods, p \in {"Prepend", "AfterChangeReplay", "Append"} :
       sch' = scheduleCustomTask(sch, m, p)
  /\ UNCHANGED <<asked, replies>>

\* ResourceBase::requestItemDeliveryV2 refuses while offline, and otherwise
\* delays the reply until the task for the item is answered.
RequestItemDelivery ==
  /\ Room
  /\ sch.online
  /\ \E r \in Requests \ asked, f \in Fetches :
       /\ sch' = scheduleItemFetch(sch, f, r)
       /\ asked' = asked \cup {r}
  /\ UNCHANGED replies

ExecuteNext ==
  /\ sch.timers > 0
  /\ sch' = executeNext([sch EXCEPT !.timers = @ - 1])
  /\ UNCHANGED <<asked, replies>>

\* The resource reports the end of the running task ...
TaskDone ==
  /\ sch.current # NoTask
  /\ ~IsFetch(sch.current)
  /\ sch' = taskDone(sch)
  /\ UNCHANGED <<asked, replies>>

\* ... or reports one although nothing runs ...
SpuriousTaskDone ==
  /\ sch.current = NoTask
  /\ sch.timers < MaxTimers
  /\ sch' = taskDone(sch)
  /\ UNCHANGED <<asked, replies>>

\* ... or has the item, or the error, of the running item request
\* (ResourceBase::itemRetrieved, slotDeliveryDone).
DeliveryDone ==
  /\ IsFetch(sch.current)
  /\ Reply(sch.current.msgs)
  /\ sch' = taskDone(sch)
  /\ UNCHANGED asked

DeferTask ==
  /\ sch.current # NoTask
  /\ sch' = deferTask(sch)
  /\ UNCHANGED <<asked, replies>>

SetOffline ==
  /\ sch.online
  /\ sch' = GoOffline(sch)
  /\ Reply(CanceledBy(sch))
  /\ UNCHANGED asked

SetOnline ==
  /\ ~sch.online
  /\ sch.timers < MaxTimers
  /\ sch' = GoOnline(sch)
  /\ UNCHANGED <<asked, replies>>

CollectionRemoved ==
  /\ \E c \in Collections : sch' = collectionRemoved(sch, c)
  /\ UNCHANGED <<asked, replies>>

CancelQueues ==
  /\ AllowAbort
  /\ sch' = cancelQueues(sch)
  /\ UNCHANGED <<asked, replies>>

Clear ==
  /\ AllowClear
  /\ sch' = clear(sch)
  /\ UNCHANGED <<asked, replies>>

Next ==
  \/ ScheduleTask \/ ScheduleChangeReplay \/ ScheduleCompletion
  \/ ScheduleCustomTask \/ RequestItemDelivery
  \/ ExecuteNext \/ TaskDone \/ SpuriousTaskDone \/ DeliveryDone \/ DeferTask
  \/ SetOffline \/ SetOnline \/ CollectionRemoved \/ CancelQueues \/ Clear

Spec == Init /\ [][Next]_vars

-----------------------------------------------------------------------------
(* Properties *)

\* Every variable has its type: each queue holds tasks, and so does the place
\* of the running task unless it is empty.
TypeOK ==
  /\ sch \in Scheduler
  /\ asked \in SUBSET Requests
  /\ replies \in [Requests -> Nat]

\* The assertion of deferTask(): a running task knows the queue it came from,
\* and only a running task does, however it was started, aborted or cleared.
KnowsQueue(s) == s.current = NoTask <=> s.from = -1
RunningTaskHasQueue == KnowsQueue(sch)

\* No lost wakeup: a scheduler that is online, idle and has work always has a
\* timer on its way, whatever the order of the calls that added the work,
\* ended the task or switched the scheduler online.  scheduleNext() is called
\* by hand in thirteen methods; one that forgets it stalls the resource.
Idle(s) == s.online /\ s.current = NoTask /\ ~isEmpty(s)
NoLostWakeup == Idle(sch) => sch.timers > 0

\* A task of a type that is compared with the queue and with the running task
\* exists at most once, also after it was deferred or aborted while the same
\* task was asked for again.
Unique(t) == t.type \notin {"ChangeReplay", "SyncAllDone",
                            "SyncCollectionTreeDone", "Custom"}
OneCopy ==
  \A q, p \in QueueType :
    \A i \in DOMAIN sch.queue[q], j \in DOMAIN sch.queue[p] :
      LET t == sch.queue[q][i] u == sch.queue[p][j]
      IN /\ Unique(t) /\ SameTask(t, u) => <<q, i>> = <<p, j>>
         /\ Unique(t) => ~SameTask(t, sch.current)

\* A change replay may wait while one runs, and going offline puts the running
\* one back in front of it: two, never more, so a flood of changes does not
\* flood the scheduler.
ChangeReplays(s) == {i \in DOMAIN s.queue[ChangeReplayQueue] :
                       s.queue[ChangeReplayQueue][i].type = "ChangeReplay"}
AtMostTwoReplays ==
  Cardinality(ChangeReplays(sch))
    + (IF sch.current.type = "ChangeReplay" THEN 1 ELSE 0) <= 2

\* Every item request the resource accepted is answered exactly once or is
\* still carried by exactly one task; nobody is left waiting for a reply that
\* cannot come, and nobody is answered twice.
Carried(r) == {t \in Tasks(sch) : r \in t.msgs}
CallersAccountedFor ==
  \A r \in asked :
    \/ replies[r] = 1 /\ Carried(r) = {}
    \/ replies[r] = 0 /\ Cardinality(Carried(r)) = 1

=============================================================================
