--------------------------- MODULE Resource_proofs ---------------------------
(***************************************************************************)
(* Proofs about ResourceScheduler, and about ResourceBase, which is built  *)
(* on it, for every set of collections, items, custom tasks, moves and     *)
(* clients, and with no use of the bounds.                                 *)
(*                                                                         *)
(* Each method of the scheduler gets a lemma: it maps a scheduler to a     *)
(* scheduler, keeps KnowsQueue, and does not leave an idle scheduler       *)
(* without a timer.  The invariants follow from the lemmas, one step per   *)
(* action.  That no method copies a task takes a second lemma for each,    *)
(* about the places it moves tasks between.  The third part is about       *)
(* ResourceBase, where the methods are called by slots.                    *)
(***************************************************************************)
EXTENDS ResourceBase, ListFacts, FiniteSetTheorems

\* The invariant that is inductive: both halves are needed, because deferTask
\* writes to the queue that "from" names.
Sound(s) == /\ s \in Scheduler
            /\ KnowsQueue(s)
            /\ Idle(s) => s.timers > 0

\* What a method may assume when it calls scheduleNext() last.
Raw(s) == s \in Scheduler /\ KnowsQueue(s)

\* scheduleNext() is all it takes: whatever was done before, the scheduler
\* has a timer afterwards if it needs one.
LEMMA ScheduleNextWakes ==
  ASSUME NEW s, Raw(s)
  PROVE  Sound(scheduleNext(s))
BY DEF Raw, Sound, scheduleNext, Idle, isEmpty, Scheduler, KnowsQueue

\* The invalid task is none of the tasks that can be queued or run.
LEMMA NoTaskIsNoTask == NoTask \notin Task
BY DEF NoTask, Task, PlainType, CollectionType

\* Putting a task into a queue keeps the record a scheduler.
LEMMA PutIntoQueue ==
  ASSUME NEW s, Raw(s), NEW q \in QueueType, NEW l \in Seq(Task)
  PROVE  Raw([s EXCEPT !.queue[q] = l])
BY DEF Raw, Scheduler, KnowsQueue

LEMMA EnqueueSound ==
  ASSUME NEW s, Raw(s), NEW q \in QueueType, NEW t \in Task
  PROVE  Sound(Enqueue(s, q, t))
<1>1. Append(s.queue[q], t) \in Seq(Task)
  BY DEF Raw, Scheduler
<1>2. Raw([s EXCEPT !.queue[q] = Append(@, t)])
  BY <1>1, PutIntoQueue
<1> QED  BY <1>2, ScheduleNextWakes DEF Enqueue

LEMMA QueueOfType ==
  ASSUME NEW type
  PROVE  queueTypeForTaskType(type) \in QueueType
BY DEF queueTypeForTaskType, QueueType, ChangeReplayQueue, UserActionQueue,
       GenericTaskQueue

LEMMA ScheduleSound ==
  ASSUME NEW s, Sound(s), NEW t \in Task
  PROVE  Sound(Schedule(s, t))
BY EnqueueSound, QueueOfType DEF Schedule, Sound, Raw

LEMMA ScheduleChangeReplaySound ==
  ASSUME NEW s, Sound(s)
  PROVE  Sound(scheduleChangeReplay(s))
<1>1. MkTask("ChangeReplay", NoArg) \in Task /\ ChangeReplayQueue \in QueueType
  BY DEF MkTask, Task, PlainType, ChangeReplayQueue, QueueType
<1> QED  BY <1>1, EnqueueSound DEF scheduleChangeReplay, Sound, Raw

LEMMA ScheduleCompletionSound ==
  ASSUME NEW s, Sound(s), NEW type \in {"SyncAllDone", "SyncCollectionTreeDone"}
  PROVE  Sound(scheduleCompletion(s, type))
<1>1. MkTask(type, NoArg) \in Task /\ GenericTaskQueue \in QueueType
  BY DEF MkTask, Task, PlainType, GenericTaskQueue, QueueType
<1> QED  BY <1>1, EnqueueSound DEF scheduleCompletion, Sound, Raw

LEMMA ScheduleCustomTaskSound ==
  ASSUME NEW s, Sound(s), NEW m \in Methods,
         NEW p \in {"Prepend", "AfterChangeReplay", "Append"}
  PROVE  Sound(scheduleCustomTask(s, m, p))
<1> DEFINE t == MkTask("Custom", m)
           q == CustomQueue(p)
<1>1. t \in Task
  BY DEF MkTask, Task
<1>2. q \in QueueType
  BY DEF CustomQueue, QueueType, AfterChangeReplayQueue, PrependTaskQueue,
         GenericTaskQueue
<1>3. Sound(Enqueue(s, q, t))
  BY <1>1, <1>2, EnqueueSound DEF Sound, Raw
<1>4. Prepend(s.queue[q], t) \in Seq(Task)
  BY <1>1, <1>2 DEF Prepend, Sound, Scheduler
<1>5. Sound(scheduleNext([s EXCEPT !.queue[q] = Prepend(@, t)]))
  <2>1. Raw([s EXCEPT !.queue[q] = Prepend(@, t)])
    BY <1>2, <1>4, PutIntoQueue DEF Sound, Raw
  <2> QED  BY <2>1, ScheduleNextWakes
<1> QED  BY <1>3, <1>5 DEF scheduleCustomTask

\* An item request only adds its message to a task, or adds a task.
LEMMA ScheduleItemFetchSound ==
  ASSUME NEW s, Sound(s), NEW f \in Fetches, NEW r \in Requests
  PROVE  Sound(scheduleItemFetch(s, f, r))
<1> DEFINE t == [type |-> "FetchItem", arg |-> f, msgs |-> {r}]
           same == {u \in Elements(s.queue[UserActionQueue]) : SameTask(u, t)}
           idx == FirstIn(s.queue[UserActionQueue], same)
           Fetch == [type : {"FetchItem"}, arg : Fetches, msgs : SUBSET Requests]
<1>1. t \in Fetch
  OBVIOUS
<1>2. Fetch \subseteq Task /\ UserActionQueue \in QueueType
  BY DEF Task, UserActionQueue, QueueType
<1>3. s.queue[UserActionQueue] \in Seq(Task)
  BY <1>2 DEF Sound, Scheduler
<1>4. ASSUME NEW u \in Task \cup {NoTask}, SameTask(u, t)
      PROVE  u \in Fetch /\ [u EXCEPT !.msgs = @ \cup {r}] \in Fetch
  BY <1>1, <1>4 DEF SameTask, Task, NoTask, PlainType, CollectionType
<1>5. CASE SameTask(s.current, t)
  <2> DEFINE u == [s EXCEPT !.current.msgs = @ \cup {r}]
  <2>1. s.current \in Task \cup {NoTask}
    BY DEF Sound, Scheduler
  <2>2. s.current # NoTask
    BY <1>1, <1>5 DEF SameTask, NoTask
  <2>3. u = [s EXCEPT !.current = [s.current EXCEPT !.msgs = @ \cup {r}]]
    BY DEF Sound, Scheduler
  <2>4. [s.current EXCEPT !.msgs = @ \cup {r}] \in Task
    BY <1>2, <1>4, <1>5, <2>1
  <2>5. Sound(u)
    <3> HIDE DEF t
    <3> QED  BY <2>2, <2>3, <2>4, NoTaskIsNoTask
             DEF Sound, Scheduler, KnowsQueue, Idle, isEmpty
  <2> QED  BY <1>5, <2>5 DEF scheduleItemFetch
<1>6. CASE ~SameTask(s.current, t) /\ idx # 0
  <2> DEFINE l == s.queue[UserActionQueue]
             e == [l[idx] EXCEPT !.msgs = @ \cup {r}]
             u == [s EXCEPT !.queue[UserActionQueue][idx].msgs = @ \cup {r}]
  <2>1. idx \in DOMAIN l /\ l[idx] \in same
    <3>1. \E i \in DOMAIN l : l[i] \in same
      BY <1>6 DEF FirstIn
    <3>2. PICK i \in DOMAIN l : l[i] \in same
      BY <3>1
    <3>3. \E j \in DOMAIN l :
            l[j] \in same /\ \A k \in DOMAIN l : l[k] \in same => j <= k
      <4> HIDE DEF same
      <4>1. DOMAIN l = 1..Len(l) /\ Len(l) \in Nat
        BY <1>3
      <4> QED  BY <3>2, <4>1, SmallestIndex
    <3> HIDE DEF same, l
    <3> QED  BY <3>1, <3>3 DEF FirstIn, l
  <2>2. e \in Task
    <3>1. SameTask(l[idx], t)
      BY <2>1
    <3>2. l[idx] \in Task
      <4> HIDE DEF idx
      <4> QED  BY <1>3, <2>1
    <3> HIDE DEF l, idx, t
    <3> QED  BY <1>2, <1>4, <3>1, <3>2
  <2>3. [l EXCEPT ![idx] = e] \in Seq(Task)
    <3> HIDE DEF e, idx, l
    <3> QED  BY <1>3, <2>1, <2>2, ExceptSeq DEF l
  <2>4. u = [s EXCEPT !.queue[UserActionQueue] = [l EXCEPT ![idx] = e]]
    BY <1>2 DEF Sound, Scheduler
  <2>5. Raw(u)
    <3> HIDE DEF e, idx, l, u
    <3> QED  BY <1>2, <2>3, <2>4, PutIntoQueue DEF Sound, Raw
  <2>6. Idle(u) => Idle(s)
    <3>1. l # <<>>
      BY <1>3, <2>1
    <3>2. ~isEmpty(s)
      BY <1>2, <3>1 DEF isEmpty
    <3>3. u.online = s.online /\ u.current = s.current
      BY <2>4
    <3> QED  BY <3>2, <3>3 DEF Idle
  <2>7. Sound(u)
    <3>1. u.timers = s.timers
      BY <2>4 DEF Sound, Scheduler
    <3> HIDE DEF u
    <3> QED  BY <2>5, <2>6, <3>1 DEF Sound, Raw
  <2> QED  BY <1>6, <2>7 DEF scheduleItemFetch
<1>7. CASE ~SameTask(s.current, t) /\ idx = 0
  <2>1. Sound(Enqueue(s, UserActionQueue, t))
    BY <1>1, <1>2, EnqueueSound DEF Sound, Raw
  <2> QED  BY <1>7, <2>1 DEF scheduleItemFetch
<1> QED  BY <1>5, <1>6, <1>7

LEMMA TaskDoneSound ==
  ASSUME NEW s, Sound(s)
  PROVE  Sound(taskDone(s))
<1>1. Raw([s EXCEPT !.current = NoTask, !.from = -1])
  BY DEF Sound, Raw, Scheduler, KnowsQueue
<1> QED  BY <1>1, ScheduleNextWakes DEF taskDone

\* deferTask() is where KnowsQueue is needed: the queue it prepends to exists.
LEMMA DeferTaskSound ==
  ASSUME NEW s, Sound(s)
  PROVE  Sound(deferTask(s))
<1>1. CASE s.current = NoTask
  BY <1>1 DEF deferTask
<1>2. CASE s.current # NoTask
  <2>1. s.from \in QueueType /\ s.current \in Task
    BY <1>2 DEF Sound, Scheduler, KnowsQueue
  <2>2. Prepend(s.queue[s.from], s.current) \in Seq(Task)
    BY <2>1 DEF Prepend, Sound, Scheduler
  <2>3. Raw([s EXCEPT !.queue[s.from] = Prepend(@, s.current),
                      !.current = NoTask, !.from = -1])
    BY <2>1, <2>2 DEF Sound, Raw, Scheduler, KnowsQueue
  <2> QED  BY <1>2, <2>3, ScheduleNextWakes DEF deferTask
<1> QED  BY <1>1, <1>2

\* Of the non-empty queues there is one of the highest priority.
LEMMA NextQueueExists ==
  ASSUME NEW s, ~isEmpty(s)
  PROVE  NextQueue(s) \in QueueType /\ s.queue[NextQueue(s)] # <<>>
<1>1. \E q \in QueueType :
        s.queue[q] # <<>> /\ \A p \in QueueType : s.queue[p] # <<>> => q <= p
  BY DEF isEmpty, QueueType
<1> QED  BY <1>1 DEF NextQueue

\* Starting a task takes the timer with it; the task that starts makes up for
\* it, and when none starts the scheduler was not idle.
LEMMA ExecuteNextSound ==
  ASSUME NEW s, Sound(s), s.timers > 0
  PROVE  Sound(executeNext([s EXCEPT !.timers = @ - 1]))
<1> DEFINE u == [s EXCEPT !.timers = @ - 1]
<1>1. Raw(u) /\ u.timers = s.timers - 1 /\ u.queue = s.queue
      /\ u.current = s.current /\ u.online = s.online /\ u.from = s.from
  BY DEF Sound, Raw, Scheduler, KnowsQueue
<1> SUFFICES Sound(executeNext(u))
  OBVIOUS
<1> HIDE DEF u
<1>2. CASE u.current # NoTask \/ isEmpty(u)
  <2>1. executeNext(u) = u
    BY <1>2 DEF executeNext
  <2>2. ~Idle(u)
    BY <1>2 DEF Idle
  <2>3. Sound(u)
    BY <1>1, <2>2 DEF Sound, Raw
  <2> QED  BY <2>1, <2>3
<1>3. CASE ~(u.current # NoTask \/ isEmpty(u))
  <2> DEFINE q == NextQueue(u)
             v == [u EXCEPT !.current = Head(u.queue[q]), !.from = q,
                            !.queue[q] = Tail(@)]
  <2>1. q \in QueueType /\ u.queue[q] # <<>>
    BY <1>3, NextQueueExists
  <2>2. u.queue[q] \in Seq(Task)
    BY <1>1, <2>1 DEF Raw, Scheduler
  <2> HIDE DEF q
  <2>3. Head(u.queue[q]) \in Task /\ Tail(u.queue[q]) \in Seq(Task)
    BY <2>1, <2>2
  <2>4. Sound(v)
    <3>1. v \in Scheduler
      BY <1>1, <2>1, <2>3 DEF Raw, Scheduler
    <3>2. v.current = Head(u.queue[q]) /\ v.from = q
      BY <1>1 DEF Raw, Scheduler
    <3>3. v.current # NoTask /\ v.from # -1
      BY <2>1, <2>3, <3>2, NoTaskIsNoTask DEF QueueType
    <3> HIDE DEF v
    <3> QED  BY <3>1, <3>3 DEF Sound, KnowsQueue, Idle
  <2>5. executeNext(u) = v
    BY <1>3 DEF executeNext, q
  <2> HIDE DEF v
  <2> QED  BY <2>4, <2>5
<1> QED  BY <1>2, <1>3

\* Filtering a queue keeps the record a scheduler, and empties it at most.
LEMMA KeepInQueue ==
  ASSUME NEW s, Raw(s), NEW q \in QueueType, NEW S
  PROVE  /\ Raw([s EXCEPT !.queue[q] = Keep(@, S)])
         /\ Idle([s EXCEPT !.queue[q] = Keep(@, S)]) => Idle(s)
<1> DEFINE l == s.queue[q]
           u == [s EXCEPT !.queue[q] = Keep(@, S)]
<1>1. l \in Seq(Task)
  BY DEF Raw, Scheduler
<1>2. Keep(l, S) \in Seq(Task) /\ Elements(Keep(l, S)) = Elements(l) \cap S
  <2> HIDE DEF l
  <2> QED  BY <1>1, KeepType
<1>3. Raw(u)
  BY <1>2, PutIntoQueue
<1>4. ASSUME Idle(u) PROVE Idle(s)
  <2>1. /\ u.online = s.online /\ u.current = s.current
        /\ u.queue = [s.queue EXCEPT ![q] = Keep(l, S)]
    BY DEF Raw, Scheduler
  <2>2. l = <<>> => Keep(l, S) = <<>>
    <3>1. ASSUME l = <<>> PROVE Elements(l) = {}
      BY <3>1 DEF Elements
    <3> HIDE DEF l
    <3>2. ASSUME NEW k \in Seq(Task), Elements(k) = {} PROVE k = <<>>
      <4>1. DOMAIN k = 1..Len(k) /\ Len(k) \in Nat
        OBVIOUS
      <4>2. Len(k) = 0
        <5>1. ASSUME Len(k) # 0 PROVE k[1] \in Elements(k)
          BY <4>1, <5>1 DEF Elements
        <5> QED  BY <3>2, <4>1, <5>1
      <4> QED  BY <4>2, EmptySeq
    <3> QED  BY <1>2, <3>1, <3>2
  <2>3. PICK p \in QueueType : u.queue[p] # <<>>
    BY <1>4 DEF Idle, isEmpty
  <2>4. s.queue[p] # <<>>
    BY <2>1, <2>2, <2>3 DEF Raw, Scheduler
  <2> HIDE DEF u
  <2> QED  BY <1>4, <2>1, <2>4 DEF Idle, isEmpty
<1> QED  BY <1>3, <1>4

\* Going offline; what remains in the queues has no timer and needs none.
LEMMA GoOfflineSound ==
  ASSUME NEW s, Sound(s)
  PROVE  Sound(GoOffline(s))
<1> DEFINE o == [s EXCEPT !.online = FALSE]
           a == AbortRunning(o)
           kept == Elements(a.queue[UserActionQueue]) \ Fetching(a)
           u == [a EXCEPT !.queue[UserActionQueue] = Keep(@, kept)]
<1>1. Raw(o) /\ o.online = FALSE
  BY DEF Sound, Raw, Scheduler, KnowsQueue
<1> HIDE DEF o
<1>2. Raw(a) /\ a.online = FALSE
  <2>1. CASE o.current = NoTask
    BY <1>1, <2>1 DEF AbortRunning
  <2>2. CASE o.current # NoTask
    <3> DEFINE q == queueTypeForTaskType(o.current.type)
               v == [o EXCEPT !.queue[q] = Prepend(@, o.current),
                              !.current = NoTask, !.from = -1]
    <3>1. q \in QueueType /\ o.current \in Task
      BY <1>1, <2>2, QueueOfType DEF Raw, Scheduler
    <3> HIDE DEF q
    <3>2. Prepend(o.queue[q], o.current) \in Seq(Task)
      BY <1>1, <3>1 DEF Prepend, Raw, Scheduler
    <3>3. Raw(v) /\ v.online = FALSE
      BY <1>1, <3>1, <3>2 DEF Raw, Scheduler, KnowsQueue
    <3> QED  BY <2>2, <3>3 DEF AbortRunning, q
  <2> QED  BY <2>1, <2>2
<1> HIDE DEF a, kept
<1>3. UserActionQueue \in QueueType
  BY DEF UserActionQueue, QueueType
<1>4. Raw(u)
  BY <1>2, <1>3, KeepInQueue
<1>5. u.online = FALSE
  BY <1>2
<1> HIDE DEF u
<1>6. Sound(u)
  BY <1>4, <1>5 DEF Sound, Raw, Idle
<1> QED  BY <1>6 DEF GoOffline, u, kept, a, o

LEMMA GoOnlineSound ==
  ASSUME NEW s, Sound(s)
  PROVE  Sound(GoOnline(s))
<1>1. Raw([s EXCEPT !.online = TRUE])
  BY DEF Sound, Raw, Scheduler, KnowsQueue
<1> QED  BY <1>1, ScheduleNextWakes DEF GoOnline

LEMMA CollectionRemovedSound ==
  ASSUME NEW s, Sound(s), NEW c
  PROVE  Sound(collectionRemoved(s, c))
<1> DEFINE q == s.queue[GenericTaskQueue]
           gone == {t \in Elements(q) : t.type = "SyncCollection" /\ t.arg = c}
           S == Elements(q) \ gone
           u == [s EXCEPT !.queue[GenericTaskQueue] = Keep(@, S)]
<1>1. GenericTaskQueue \in QueueType /\ Raw(s)
  BY DEF GenericTaskQueue, QueueType, Sound, Raw
<1>2. u.timers = s.timers
  BY DEF Sound, Scheduler
<1> HIDE DEF S
<1>3. Raw(u) /\ (Idle(u) => Idle(s))
  BY <1>1, KeepInQueue
<1> HIDE DEF u
<1>4. Sound(u)
  BY <1>2, <1>3 DEF Sound, Raw
<1> QED  BY <1>4 DEF collectionRemoved, u, S

LEMMA CancelQueuesSound ==
  ASSUME NEW s, Sound(s)
  PROVE  Sound(cancelQueues(s)) /\ Sound(clear(s))
<1>1. [q \in QueueType |-> <<>>] \in [QueueType -> Seq(Task)]
  OBVIOUS
<1>2. isEmpty(cancelQueues(s)) /\ isEmpty(clear(s))
  BY DEF isEmpty, cancelQueues, clear, Sound, Scheduler
<1>3. cancelQueues(s) \in Scheduler /\ KnowsQueue(cancelQueues(s))
  BY <1>1 DEF Sound, Scheduler, KnowsQueue, cancelQueues
<1>4. clear(s) \in Scheduler /\ KnowsQueue(clear(s))
  BY <1>1 DEF Sound, Scheduler, KnowsQueue, clear
<1> QED  BY <1>2, <1>3, <1>4 DEF Sound, Idle

-----------------------------------------------------------------------------
(* Copies of a task.  The methods move tasks between places: the positions *)
(* of the queues, and the place of the running task.  A move that puts no  *)
(* two tasks where there was one can neither copy a task nor add a change  *)
(* replay; a task that is added has to be compared first, and it is enough *)
(* to compare it with the queue of its type because Home says that it can  *)
(* be in no other.                                                         *)

Running == <<-1, 0>>

Places(s) ==
  {x \in (QueueType \cup {-1}) \X Nat :
     IF x[1] = -1 THEN x = Running /\ s.current # NoTask ELSE x[2] \in DOMAIN s.queue[x[1]]}

TaskAt(s, x) == IF x[1] = -1 THEN s.current ELSE s.queue[x[1]][x[2]]

\* The queue a task is in, or goes back to when it is deferred.
QueueAt(s, x) == IF x[1] = -1 THEN s.from ELSE x[1]

HasHome(t) == Unique(t) \/ t.type = "ChangeReplay"

Home(s) ==
  \A x \in Places(s) :
    HasHome(TaskAt(s, x)) => QueueAt(s, x) = queueTypeForTaskType(TaskAt(s, x).type)

Single(s) ==
  \A x, y \in Places(s) :
    Unique(TaskAt(s, x)) /\ SameTask(TaskAt(s, x), TaskAt(s, y)) => x = y

IsReplayAt(s, x) == TaskAt(s, x).type = "ChangeReplay"

FewReplays(s) ==
  \A x, y, z \in Places(s) :
    IsReplayAt(s, x) /\ IsReplayAt(s, y) /\ IsReplayAt(s, z) => x = y \/ y = z \/ x = z

NoCopies(s) == Home(s) /\ Single(s) /\ FewReplays(s)

\* Every task of u was in s, each at a place of its own.
LEMMA OnlyMoved ==
  ASSUME NEW s, NEW u, NoCopies(s),
         NEW h \in [Places(u) -> Places(s)],
         \A x, y \in Places(u) : h[x] = h[y] => x = y,
         \A x \in Places(u) : /\ SameTask(TaskAt(u, x), TaskAt(s, h[x]))
                              /\ \/ QueueAt(u, x) = QueueAt(s, h[x])
                                 \/ QueueAt(u, x) = queueTypeForTaskType(TaskAt(u, x).type)
  PROVE  NoCopies(u)
<1>1. \A x \in Places(u) : /\ TaskAt(u, x).type = TaskAt(s, h[x]).type
                           /\ TaskAt(u, x).arg = TaskAt(s, h[x]).arg
                           /\ h[x] \in Places(s)
  BY DEF SameTask
<1>2. Home(u)
  BY <1>1 DEF NoCopies, Home, HasHome, Unique
<1>3. Single(u)
  BY <1>1 DEF NoCopies, Single, Unique, SameTask
<1>4. FewReplays(u)
  BY <1>1 DEF NoCopies, FewReplays, IsReplayAt
<1> QED  BY <1>2, <1>3, <1>4 DEF NoCopies

\* Only place n of u is new: its task, if it is one that is compared, is unlike
\* all others; and if it is a change replay, there is at most one of them.
LEMMA OneAdded ==
  ASSUME NEW s, NEW u, NoCopies(s), NEW n \in Places(u),
         HasHome(TaskAt(u, n)) => QueueAt(u, n) = queueTypeForTaskType(TaskAt(u, n).type),
         Unique(TaskAt(u, n)) => \A x \in Places(s) : ~SameTask(TaskAt(s, x), TaskAt(u, n)),
         IsReplayAt(u, n) =>
           \A x, y \in Places(s) : IsReplayAt(s, x) /\ IsReplayAt(s, y) => x = y,
         NEW h \in [Places(u) \ {n} -> Places(s)],
         \A x, y \in Places(u) \ {n} : h[x] = h[y] => x = y,
         \A x \in Places(u) \ {n} : /\ TaskAt(u, x) = TaskAt(s, h[x])
                                    /\ QueueAt(u, x) = QueueAt(s, h[x])
  PROVE  NoCopies(u)
<1>1. Home(u)
  <2> SUFFICES ASSUME NEW x \in Places(u), HasHome(TaskAt(u, x))
               PROVE  QueueAt(u, x) = queueTypeForTaskType(TaskAt(u, x).type)
    BY DEF Home
  <2>1. CASE x = n
    BY <2>1
  <2>2. CASE x # n
    BY <2>2 DEF NoCopies, Home
  <2> QED  BY <2>1, <2>2
<1>2. Single(u)
  <2> SUFFICES ASSUME NEW x \in Places(u), NEW y \in Places(u), Unique(TaskAt(u, x)),
                      SameTask(TaskAt(u, x), TaskAt(u, y)), x # y
               PROVE  FALSE
    BY DEF Single
  <2>1. CASE x = n
    BY <2>1 DEF SameTask
  <2>2. CASE y = n
    BY <2>2 DEF SameTask, Unique
  <2>3. CASE x # n /\ y # n
    BY <2>3 DEF NoCopies, Single
  <2> QED  BY <2>1, <2>2, <2>3
<1>3. FewReplays(u)
  <2> SUFFICES ASSUME NEW x \in Places(u), NEW y \in Places(u), NEW z \in Places(u),
                      IsReplayAt(u, x), IsReplayAt(u, y), IsReplayAt(u, z),
                      x # y, y # z, x # z
               PROVE  FALSE
    BY DEF FewReplays
  <2>1. \A v \in Places(u) \ {n} : IsReplayAt(u, v) => IsReplayAt(s, h[v]) /\ h[v] \in Places(s)
    BY DEF IsReplayAt
  <2>2. CASE x # n /\ y # n /\ z # n
    BY <2>1, <2>2 DEF NoCopies, FewReplays
  <2>3. CASE x = n
    BY <2>1, <2>3
  <2>4. CASE y = n
    BY <2>1, <2>4
  <2>5. CASE z = n
    BY <2>1, <2>5
  <2> QED  BY <2>2, <2>3, <2>4, <2>5
<1> QED  BY <1>1, <1>2, <1>3 DEF NoCopies

\* Timers and the online flag are no places.
LEMMA SamePlaces ==
  ASSUME NEW s, NEW u, u.queue = s.queue, u.current = s.current, u.from = s.from
  PROVE  NoCopies(u) <=> NoCopies(s)
BY DEF NoCopies, Home, Single, FewReplays, IsReplayAt, Places, TaskAt, QueueAt

LEMMA ScheduleNextMovesNothing ==
  ASSUME NEW s, Raw(s)
  PROVE  NoCopies(scheduleNext(s)) <=> NoCopies(s)
<1>1. /\ scheduleNext(s).queue = s.queue /\ scheduleNext(s).current = s.current
      /\ scheduleNext(s).from = s.from
  BY DEF scheduleNext, Raw, Scheduler
<1> QED  BY <1>1, SamePlaces

LEMMA PrependIs ==
  ASSUME NEW T, NEW l \in Seq(T), NEW e \in T
  PROVE  /\ Prepend(l, e) \in Seq(T) /\ DOMAIN Prepend(l, e) = 1..(Len(l) + 1)
         /\ Prepend(l, e)[1] = e
         /\ \A i \in 1..Len(l) : Prepend(l, e)[i + 1] = l[i]
         /\ DOMAIN l = 1..Len(l) /\ Len(l) \in Nat
BY DEF Prepend

\* The places after one queue was replaced.
LEMMA PlacesAfter ==
  ASSUME NEW s, Raw(s), NEW q \in QueueType, NEW l, NEW u, u = [s EXCEPT !.queue[q] = l]
  PROVE  /\ \A x \in Places(u) :
              \/ x \in Places(s) /\ x[1] # q /\ TaskAt(u, x) = TaskAt(s, x)
              \/ x[1] = q /\ x[2] \in DOMAIN l /\ x = <<q, x[2]>> /\ TaskAt(u, x) = l[x[2]]
         /\ \A x \in Places(s) : x[1] # q => x \in Places(u)
         /\ \A i \in DOMAIN s.queue[q] : <<q, i>> \in Places(s)
                                         /\ TaskAt(s, <<q, i>>) = s.queue[q][i]
         /\ \A x \in (QueueType \cup {-1}) \X Nat : QueueAt(u, x) = QueueAt(s, x)
<1>1. /\ u.current = s.current /\ u.from = s.from
      /\ u.queue[q] = l /\ \A p \in QueueType \ {q} : u.queue[p] = s.queue[p]
  BY DEF Raw, Scheduler
<1>2. s.queue[q] \in Seq(Task) /\ -1 \notin QueueType
  BY DEF Raw, Scheduler, QueueType
<1>3. DOMAIN s.queue[q] \subseteq Nat
  BY <1>2
<1>4. \A x \in Places(u) :
        \/ x \in Places(s) /\ x[1] # q /\ TaskAt(u, x) = TaskAt(s, x)
        \/ x[1] = q /\ x[2] \in DOMAIN l /\ x = <<q, x[2]>> /\ TaskAt(u, x) = l[x[2]]
  BY <1>1, <1>2 DEF Places, TaskAt
<1>5. \A x \in Places(s) : x[1] # q => x \in Places(u)
  BY <1>1, <1>2 DEF Places
<1>6. \A i \in DOMAIN s.queue[q] : <<q, i>> \in Places(s)
                                   /\ TaskAt(s, <<q, i>>) = s.queue[q][i]
  BY <1>2, <1>3 DEF Places, TaskAt
<1>7. \A x \in (QueueType \cup {-1}) \X Nat : QueueAt(u, x) = QueueAt(s, x)
  BY <1>1 DEF QueueAt
<1> QED  BY <1>4, <1>5, <1>6, <1>7

\* A queue is replaced by one whose tasks it held, each at a position of its own.
LEMMA QueueMoved ==
  ASSUME NEW s, Raw(s), NoCopies(s), NEW q \in QueueType, NEW l,
         NEW g \in [DOMAIN l -> DOMAIN s.queue[q]],
         \A i, j \in DOMAIN l : g[i] = g[j] => i = j,
         \A i \in DOMAIN l : SameTask(l[i], s.queue[q][g[i]])
  PROVE  NoCopies([s EXCEPT !.queue[q] = l])
<1> DEFINE u == [s EXCEPT !.queue[q] = l]
           h == [x \in Places(u) |-> IF x[1] = q THEN <<q, g[x[2]]>> ELSE x]
<1>1. /\ \A x \in Places(u) :
           \/ x \in Places(s) /\ x[1] # q /\ TaskAt(u, x) = TaskAt(s, x)
           \/ x[1] = q /\ x[2] \in DOMAIN l /\ x = <<q, x[2]>> /\ TaskAt(u, x) = l[x[2]]
      /\ \A i \in DOMAIN s.queue[q] : <<q, i>> \in Places(s)
                                      /\ TaskAt(s, <<q, i>>) = s.queue[q][i]
      /\ \A x \in (QueueType \cup {-1}) \X Nat : QueueAt(u, x) = QueueAt(s, x)
  BY PlacesAfter
<1>2. \A x \in Places(u) : x \in (QueueType \cup {-1}) \X Nat
  BY DEF Places
<1>a. -1 \notin QueueType
  BY DEF QueueType
<1> HIDE DEF u
<1>3. \A x \in Places(u) : /\ x[1] = q => h[x] = <<q, g[x[2]]>> /\ h[x][1] = q
                           /\ x[1] # q => h[x] = x
  OBVIOUS
<1>4. h \in [Places(u) -> Places(s)]
  BY <1>1
<1> HIDE DEF h
<1>5. \A x, y \in Places(u) : h[x] = h[y] => x = y
  <2> SUFFICES ASSUME NEW x \in Places(u), NEW y \in Places(u), h[x] = h[y] PROVE x = y
    OBVIOUS
  <2>1. x[1] = q <=> y[1] = q
    BY <1>3
  <2>2. CASE x[1] # q
    BY <1>3, <2>1, <2>2
  <2>3. CASE x[1] = q
    <3>1. g[x[2]] = g[y[2]]
      BY <1>3, <2>1, <2>3
    <3>2. /\ x[2] \in DOMAIN l /\ y[2] \in DOMAIN l
          /\ x = <<q, x[2]>> /\ y = <<q, y[2]>>
      BY <1>1, <2>1, <2>3
    <3> QED  BY <3>1, <3>2
  <2> QED  BY <2>2, <2>3
<1>6. \A x \in Places(u) : SameTask(TaskAt(u, x), TaskAt(s, h[x]))
  <2> SUFFICES ASSUME NEW x \in Places(u) PROVE SameTask(TaskAt(u, x), TaskAt(s, h[x]))
    OBVIOUS
  <2>1. CASE x[1] = q
    <3>1. x[2] \in DOMAIN l /\ TaskAt(u, x) = l[x[2]] /\ g[x[2]] \in DOMAIN s.queue[q]
      BY <1>1, <2>1
    <3>2. TaskAt(s, h[x]) = s.queue[q][g[x[2]]]
      BY <1>1, <1>3, <2>1, <3>1
    <3> QED  BY <3>1, <3>2
  <2>2. CASE x[1] # q
    BY <1>1, <1>3, <2>2 DEF SameTask
  <2> QED  BY <2>1, <2>2
<1>7. \A x \in Places(u) : QueueAt(u, x) = QueueAt(s, h[x])
  <2> SUFFICES ASSUME NEW x \in Places(u) PROVE QueueAt(u, x) = QueueAt(s, h[x])
    OBVIOUS
  <2>1. CASE x[1] = q
    <3>1. h[x][1] = q /\ q # -1
      BY <1>3, <1>a, <2>1
    <3> QED  BY <2>1, <3>1 DEF QueueAt
  <2>2. CASE x[1] # q
    BY <1>1, <1>2, <1>3, <2>2
  <2> QED  BY <2>1, <2>2
<1> QED  BY <1>4, <1>5, <1>6, <1>7, OnlyMoved DEF u

\* A task that may be added to queue q.
MayAdd(s, q, t) ==
  /\ HasHome(t) => q = queueTypeForTaskType(t.type)
  /\ Unique(t) => \A x \in Places(s) : ~SameTask(TaskAt(s, x), t)
  /\ t.type = "ChangeReplay" =>
       \A x, y \in Places(s) : IsReplayAt(s, x) /\ IsReplayAt(s, y) => x = y

\* Such a task comes to position k of its queue.
LEMMA QueueGrown ==
  ASSUME NEW s, Raw(s), NoCopies(s), NEW q \in QueueType, NEW l, NEW k \in DOMAIN l,
         DOMAIN l \subseteq Nat, MayAdd(s, q, l[k]),
         NEW g \in [DOMAIN l \ {k} -> DOMAIN s.queue[q]],
         \A i, j \in DOMAIN l \ {k} : g[i] = g[j] => i = j,
         \A i \in DOMAIN l \ {k} : l[i] = s.queue[q][g[i]]
  PROVE  NoCopies([s EXCEPT !.queue[q] = l])
<1> DEFINE u == [s EXCEPT !.queue[q] = l]
           n == <<q, k>>
           h == [x \in Places(u) \ {n} |-> IF x[1] = q THEN <<q, g[x[2]]>> ELSE x]
<1>1. /\ \A x \in Places(u) :
           \/ x \in Places(s) /\ x[1] # q /\ TaskAt(u, x) = TaskAt(s, x)
           \/ x[1] = q /\ x[2] \in DOMAIN l /\ x = <<q, x[2]>> /\ TaskAt(u, x) = l[x[2]]
      /\ \A i \in DOMAIN s.queue[q] : <<q, i>> \in Places(s)
                                      /\ TaskAt(s, <<q, i>>) = s.queue[q][i]
      /\ \A x \in (QueueType \cup {-1}) \X Nat : QueueAt(u, x) = QueueAt(s, x)
  BY PlacesAfter
<1>2. \A x \in Places(u) : x \in (QueueType \cup {-1}) \X Nat
  BY DEF Places
<1>a. -1 \notin QueueType /\ k \in Nat
  BY DEF QueueType
<1>b. n \in Places(u) /\ TaskAt(u, n) = l[k] /\ QueueAt(u, n) = q
  <2>1. u.queue[q] = l
    BY DEF Raw, Scheduler
  <2> HIDE DEF u
  <2> QED  BY <1>a, <2>1 DEF Places, TaskAt, QueueAt
<1>c. \A x \in Places(u) \ {n} :
        \/ x \in Places(s) /\ x[1] # q /\ TaskAt(u, x) = TaskAt(s, x)
        \/ x[1] = q /\ x[2] \in DOMAIN l \ {k} /\ x = <<q, x[2]>> /\ TaskAt(u, x) = l[x[2]]
  BY <1>1
<1> HIDE DEF u
<1>3. \A x \in Places(u) \ {n} : /\ x[1] = q => h[x] = <<q, g[x[2]]>> /\ h[x][1] = q
                                 /\ x[1] # q => h[x] = x
  OBVIOUS
<1>4. h \in [Places(u) \ {n} -> Places(s)]
  <2> HIDE DEF n
  <2> QED  BY <1>1, <1>c
<1> HIDE DEF h, n
<1>5. \A x, y \in Places(u) \ {n} : h[x] = h[y] => x = y
  <2> SUFFICES ASSUME NEW x \in Places(u) \ {n}, NEW y \in Places(u) \ {n}, h[x] = h[y] PROVE x = y
    OBVIOUS
  <2>1. x[1] = q <=> y[1] = q
    BY <1>3
  <2>2. CASE x[1] # q
    BY <1>3, <2>1, <2>2
  <2>3. CASE x[1] = q
    <3>1. g[x[2]] = g[y[2]]
      BY <1>3, <2>1, <2>3
    <3>2. /\ x[2] \in DOMAIN l \ {k} /\ y[2] \in DOMAIN l \ {k}
          /\ x = <<q, x[2]>> /\ y = <<q, y[2]>>
      BY <1>c, <2>1, <2>3
    <3> QED  BY <3>1, <3>2
  <2> QED  BY <2>2, <2>3
<1>6. \A x \in Places(u) \ {n} : TaskAt(u, x) = TaskAt(s, h[x])
  <2> SUFFICES ASSUME NEW x \in Places(u) \ {n} PROVE TaskAt(u, x) = TaskAt(s, h[x])
    OBVIOUS
  <2>1. CASE x[1] = q
    <3>1. x[2] \in DOMAIN l \ {k} /\ TaskAt(u, x) = l[x[2]] /\ g[x[2]] \in DOMAIN s.queue[q]
      BY <1>c, <2>1
    <3>2. TaskAt(s, h[x]) = s.queue[q][g[x[2]]]
      BY <1>1, <1>3, <2>1, <3>1
    <3> QED  BY <3>1, <3>2
  <2>2. CASE x[1] # q
    BY <1>c, <1>3, <2>2
  <2> QED  BY <2>1, <2>2
<1>7. \A x \in Places(u) \ {n} : QueueAt(u, x) = QueueAt(s, h[x])
  <2> SUFFICES ASSUME NEW x \in Places(u) \ {n} PROVE QueueAt(u, x) = QueueAt(s, h[x])
    OBVIOUS
  <2>1. CASE x[1] = q
    <3>1. h[x][1] = q /\ q # -1
      BY <1>3, <1>a, <2>1
    <3> QED  BY <2>1, <3>1 DEF QueueAt
  <2>2. CASE x[1] # q
    BY <1>1, <1>2, <1>3, <2>2
  <2> QED  BY <2>1, <2>2
<1>9. /\ HasHome(TaskAt(u, n)) => QueueAt(u, n) = queueTypeForTaskType(TaskAt(u, n).type)
      /\ Unique(TaskAt(u, n)) => \A x \in Places(s) : ~SameTask(TaskAt(s, x), TaskAt(u, n))
      /\ IsReplayAt(u, n) =>
           \A x, y \in Places(s) : IsReplayAt(s, x) /\ IsReplayAt(s, y) => x = y
  BY <1>b DEF MayAdd, IsReplayAt
<1>10. \A x \in Places(u) \ {n} : /\ TaskAt(u, x) = TaskAt(s, h[x])
                                  /\ QueueAt(u, x) = QueueAt(s, h[x])
  BY <1>6, <1>7
<1>8. NoCopies(u)
  BY <1>b, <1>4, <1>5, <1>9, <1>10, OneAdded DEF IsReplayAt
<1> QED  BY <1>8 DEF u

LEMMA EnqueueOnce ==
  ASSUME NEW s, Raw(s), NoCopies(s), NEW q \in QueueType, NEW t \in Task, MayAdd(s, q, t)
  PROVE  NoCopies(Enqueue(s, q, t))
<1> DEFINE old == s.queue[q]
           l == Append(old, t)
           k == Len(old) + 1
           g == [i \in DOMAIN l \ {k} |-> i]
<1>1. old \in Seq(Task)
  BY DEF Raw, Scheduler
<1> HIDE DEF old
<1>2. /\ l \in Seq(Task) /\ DOMAIN l = 1..k /\ DOMAIN old = 1..(k - 1) /\ k \in Nat \ {0}
      /\ l[k] = t /\ \A i \in 1..(k - 1) : l[i] = old[i]
  BY <1>1
<1> HIDE DEF l, k
<1>3. DOMAIN l \ {k} = DOMAIN old
  BY <1>2
<1>4. k \in DOMAIN l /\ DOMAIN l \subseteq Nat /\ g \in [DOMAIN l \ {k} -> DOMAIN old]
  BY <1>2, <1>3
<1>5. \A i, j \in DOMAIN l \ {k} : g[i] = g[j] => i = j
  OBVIOUS
<1>6. \A i \in DOMAIN l \ {k} : l[i] = old[g[i]]
  BY <1>2, <1>3
<1> HIDE DEF g
<1>7. NoCopies([s EXCEPT !.queue[q] = l])
  BY <1>2, <1>4, <1>5, <1>6, QueueGrown DEF old
<1>8. Raw([s EXCEPT !.queue[q] = l])
  BY <1>2, PutIntoQueue
<1>9. [s EXCEPT !.queue[q] = Append(@, t)] = [s EXCEPT !.queue[q] = l]
  BY DEF l, old
<1> QED  BY <1>7, <1>8, <1>9, ScheduleNextMovesNothing DEF Enqueue

LEMMA PrependOnce ==
  ASSUME NEW s, Raw(s), NoCopies(s), NEW q \in QueueType, NEW t \in Task, MayAdd(s, q, t)
  PROVE  NoCopies(scheduleNext([s EXCEPT !.queue[q] = Prepend(@, t)]))
<1> DEFINE old == s.queue[q]
           l == Prepend(old, t)
           g == [i \in DOMAIN l \ {1} |-> i - 1]
<1>1. old \in Seq(Task)
  BY DEF Raw, Scheduler
<1> HIDE DEF old
<1>2. /\ l \in Seq(Task) /\ DOMAIN l = 1..(Len(old) + 1)
      /\ l[1] = t /\ \A i \in 1..Len(old) : l[i + 1] = old[i]
      /\ DOMAIN old = 1..Len(old) /\ Len(old) \in Nat
  BY <1>1, PrependIs
<1> HIDE DEF l
<1>3. \A i \in DOMAIN l \ {1} : i - 1 \in DOMAIN old /\ (i - 1) + 1 = i /\ i \in Nat
  BY <1>2
<1>4. 1 \in DOMAIN l /\ DOMAIN l \subseteq Nat /\ g \in [DOMAIN l \ {1} -> DOMAIN old]
  BY <1>2, <1>3
<1>5. \A i, j \in DOMAIN l \ {1} : g[i] = g[j] => i = j
  BY <1>3
<1>6. \A i \in DOMAIN l \ {1} : l[i] = old[g[i]]
  BY <1>2, <1>3
<1> HIDE DEF g
<1>7. NoCopies([s EXCEPT !.queue[q] = l])
  BY <1>2, <1>4, <1>5, <1>6, QueueGrown DEF old
<1>8. Raw([s EXCEPT !.queue[q] = l])
  BY <1>2, PutIntoQueue
<1>9. [s EXCEPT !.queue[q] = Prepend(@, t)] = [s EXCEPT !.queue[q] = l]
  BY DEF l, old
<1> QED  BY <1>7, <1>8, <1>9, ScheduleNextMovesNothing

LEMMA KeepOnce ==
  ASSUME NEW s, Raw(s), NoCopies(s), NEW q \in QueueType, NEW S
  PROVE  NoCopies([s EXCEPT !.queue[q] = Keep(@, S)])
<1> DEFINE old == s.queue[q]
           l == Keep(old, S)
<1>1. old \in Seq(Task)
  BY DEF Raw, Scheduler
<1> HIDE DEF old
<1>2. l \in Seq(Task)
  BY <1>1, KeepEmbeds
<1>3. PICK g \in [DOMAIN l -> DOMAIN old] :
        /\ \A i \in DOMAIN l : l[i] = old[g[i]]
        /\ \A i, j \in DOMAIN l : i < j => g[i] < g[j]
  BY <1>1, KeepEmbeds
<1>4. DOMAIN l = 1..Len(l) /\ DOMAIN old = 1..Len(old) /\ Len(l) \in Nat /\ Len(old) \in Nat
  <2> HIDE DEF l
  <2> QED  BY <1>1, <1>2
<1> HIDE DEF l
<1>5. \A i, j \in DOMAIN l : g[i] = g[j] => i = j
  <2> SUFFICES ASSUME NEW i \in DOMAIN l, NEW j \in DOMAIN l, i # j PROVE g[i] # g[j]
    OBVIOUS
  <2>1. i < j \/ j < i
    BY <1>4
  <2>2. g[i] \in Nat /\ g[j] \in Nat /\ (g[i] < g[j] \/ g[j] < g[i])
    BY <1>3, <1>4, <2>1
  <2> QED  BY <2>2
<1>6. \A i \in DOMAIN l : SameTask(l[i], old[g[i]])
  BY <1>3 DEF SameTask
<1>7. NoCopies([s EXCEPT !.queue[q] = l])
  BY <1>5, <1>6, QueueMoved DEF old
<1>8. [s EXCEPT !.queue[q] = Keep(@, S)] = [s EXCEPT !.queue[q] = l]
  BY DEF l, old
<1> QED  BY <1>7, <1>8

\* The running task goes back to the queue it came from, or to that of its type.
LEMMA PutBackOnce ==
  ASSUME NEW s, Raw(s), NoCopies(s), s.current # NoTask, NEW q \in QueueType,
         q = s.from \/ q = queueTypeForTaskType(s.current.type)
  PROVE  NoCopies([s EXCEPT !.queue[q] = Prepend(@, s.current),
                            !.current = NoTask, !.from = -1])
<1> DEFINE old == s.queue[q]
           l == Prepend(old, s.current)
           u == [s EXCEPT !.queue[q] = Prepend(@, s.current),
                          !.current = NoTask, !.from = -1]
           h == [x \in Places(u) |-> IF x[1] # q THEN x
                                     ELSE IF x[2] = 1 THEN Running ELSE <<q, x[2] - 1>>]
<1>1. old \in Seq(Task) /\ s.current \in Task /\ -1 \notin QueueType
  BY DEF Raw, Scheduler, QueueType
<1>2. /\ u.queue[q] = l /\ u.current = NoTask
      /\ \A p \in QueueType \ {q} : u.queue[p] = s.queue[p]
  BY DEF Raw, Scheduler
<1> HIDE DEF u, old
<1>3. /\ l \in Seq(Task) /\ DOMAIN l = 1..(Len(old) + 1)
      /\ l[1] = s.current /\ \A i \in 1..Len(old) : l[i + 1] = old[i]
      /\ DOMAIN old = 1..Len(old) /\ Len(old) \in Nat
  <2>1. ASSUME NEW c \in Task
        PROVE  /\ Prepend(old, c) \in Seq(Task) /\ DOMAIN Prepend(old, c) = 1..(Len(old) + 1)
               /\ Prepend(old, c)[1] = c
               /\ \A i \in 1..Len(old) : Prepend(old, c)[i + 1] = old[i]
               /\ DOMAIN old = 1..Len(old) /\ Len(old) \in Nat
    BY <1>1, PrependIs
  <2> QED  BY <1>1, <2>1
<1> HIDE DEF l
<1>4. Running \in Places(s) /\ TaskAt(s, Running) = s.current /\ QueueAt(s, Running) = s.from
      /\ Running[1] = -1
  BY DEF Running, Places, TaskAt, QueueAt
<1>5. ASSUME NEW x \in Places(u), x[1] # q
      PROVE  /\ x \in Places(s) /\ h[x] = x /\ h[x][1] \notin {q, -1}
             /\ TaskAt(u, x) = TaskAt(s, x) /\ QueueAt(u, x) = QueueAt(s, x)
  BY <1>1, <1>2, <1>5 DEF Places, TaskAt, QueueAt
<1>6. ASSUME NEW x \in Places(u), x[1] = q, x[2] = 1
      PROVE  /\ x = <<q, 1>> /\ h[x] = Running
             /\ TaskAt(u, x) = s.current /\ QueueAt(u, x) = q
  BY <1>1, <1>2, <1>3, <1>6 DEF Places, TaskAt, QueueAt
<1>7. ASSUME NEW x \in Places(u), x[1] = q, x[2] # 1
      PROVE  /\ x[2] \in Nat /\ x = <<q, x[2]>> /\ h[x] = <<q, x[2] - 1>>
             /\ h[x] \in Places(s) /\ h[x][1] = q /\ h[x][2] = x[2] - 1
             /\ TaskAt(u, x) = TaskAt(s, h[x]) /\ QueueAt(u, x) = QueueAt(s, h[x])
  <2>1. x[2] \in DOMAIN l /\ x \in (QueueType \cup {-1}) \X Nat
    BY <1>1, <1>2, <1>7 DEF Places
  <2>2. x[2] - 1 \in DOMAIN old /\ l[x[2]] = old[x[2] - 1]
    <3>1. x[2] - 1 \in 1..Len(old) /\ (x[2] - 1) + 1 = x[2]
      BY <1>3, <1>7, <2>1
    <3> QED  BY <1>3, <3>1
  <2>3. h[x] = <<q, x[2] - 1>>
    BY <1>7
  <2> HIDE DEF h
  <2> QED  BY <1>1, <1>2, <1>3, <1>7, <2>1, <2>2, <2>3 DEF Places, TaskAt, QueueAt, old
<1>8. h \in [Places(u) -> Places(s)]
  <2>1. \A x \in Places(u) : h[x] \in Places(s)
    <3> HIDE DEF h
    <3> QED  BY <1>4, <1>5, <1>6, <1>7
  <2> QED  BY <2>1
<1> HIDE DEF h
<1>9. \A x, y \in Places(u) : h[x] = h[y] => x = y
  <2> SUFFICES ASSUME NEW x \in Places(u), NEW y \in Places(u), h[x] = h[y] PROVE x = y
    OBVIOUS
  <2>1. CASE x[1] # q \/ y[1] # q
    BY <1>1, <1>4, <1>5, <1>6, <1>7, <2>1
  <2>2. CASE x[1] = q /\ y[1] = q
    <3>1. x[2] = 1 <=> y[2] = 1
      BY <1>1, <1>4, <1>6, <1>7, <2>2
    <3>2. CASE x[2] = 1
      BY <1>6, <2>2, <3>1, <3>2
    <3>3. CASE x[2] # 1
      <4>1. /\ x[2] \in Nat /\ y[2] \in Nat /\ x = <<q, x[2]>> /\ y = <<q, y[2]>>
            /\ x[2] - 1 = y[2] - 1
        BY <1>7, <2>2, <3>1, <3>3
      <4>2. x[2] = y[2]
        BY <4>1
      <4> QED  BY <4>1, <4>2
    <3> QED  BY <3>2, <3>3
  <2> QED  BY <2>1, <2>2
<1>10. \A x \in Places(u) : /\ SameTask(TaskAt(u, x), TaskAt(s, h[x]))
                            /\ \/ QueueAt(u, x) = QueueAt(s, h[x])
                               \/ QueueAt(u, x) = queueTypeForTaskType(TaskAt(u, x).type)
  <2> SUFFICES ASSUME NEW x \in Places(u)
               PROVE  /\ SameTask(TaskAt(u, x), TaskAt(s, h[x]))
                      /\ \/ QueueAt(u, x) = QueueAt(s, h[x])
                         \/ QueueAt(u, x) = queueTypeForTaskType(TaskAt(u, x).type)
    OBVIOUS
  <2>1. CASE x[1] # q
    BY <1>5, <2>1 DEF SameTask
  <2>2. CASE x[1] = q /\ x[2] = 1
    BY <1>4, <1>6, <2>2 DEF SameTask
  <2>3. CASE x[1] = q /\ x[2] # 1
    BY <1>7, <2>3 DEF SameTask
  <2> QED  BY <2>1, <2>2, <2>3
<1>11. NoCopies(u)
  BY <1>8, <1>9, <1>10, OnlyMoved
<1> QED  BY <1>11 DEF u

\* Places that are left as they were hold no copies.
LEMMA FewerPlaces ==
  ASSUME NEW s, NEW u, NoCopies(s), Places(u) \subseteq Places(s),
         \A x \in Places(u) : /\ SameTask(TaskAt(u, x), TaskAt(s, x))
                              /\ QueueAt(u, x) = QueueAt(s, x)
  PROVE  NoCopies(u)
<1> DEFINE h == [x \in Places(u) |-> x]
<1>1. h \in [Places(u) -> Places(s)] /\ \A x \in Places(u) : h[x] = x
  OBVIOUS
<1> HIDE DEF h
<1> QED  BY <1>1, OnlyMoved

LEMMA TaskDoneOnce ==
  ASSUME NEW s, Raw(s), NoCopies(s)
  PROVE  NoCopies(taskDone(s))
<1> DEFINE u == [s EXCEPT !.current = NoTask, !.from = -1]
<1>1. u.current = NoTask /\ u.queue = s.queue /\ Raw(u)
  BY DEF Raw, Scheduler, KnowsQueue
<1> HIDE DEF u
<1>2. \A x \in Places(u) : x \in Places(s) /\ x[1] # -1
  BY <1>1 DEF Places
<1>3. NoCopies(u)
  BY <1>1, <1>2, FewerPlaces DEF TaskAt, QueueAt, SameTask
<1> QED  BY <1>1, <1>3, ScheduleNextMovesNothing DEF taskDone, u

LEMMA ClearOnce ==
  ASSUME NEW s, Raw(s), NoCopies(s)
  PROVE  NoCopies(cancelQueues(s)) /\ NoCopies(clear(s))
<1> DEFINE u == cancelQueues(s)
           v == clear(s)
<1>1. /\ u.current = s.current /\ u.from = s.from /\ v.current = NoTask
      /\ \A q \in QueueType : u.queue[q] = <<>> /\ v.queue[q] = <<>>
  BY DEF Raw, Scheduler, cancelQueues, clear
<1> HIDE DEF u, v
<1>2. \A x \in Places(u) : x = Running /\ x \in Places(s)
  BY <1>1 DEF Places
<1>3. Places(v) = {}
  BY <1>1 DEF Places
<1>4. \A x \in Places(u) : TaskAt(u, x) = TaskAt(s, x) /\ QueueAt(u, x) = QueueAt(s, x)
  BY <1>1, <1>2 DEF TaskAt, QueueAt, Running
<1> QED  BY <1>2, <1>3, <1>4, FewerPlaces DEF u, v, SameTask

\* The task that starts is the first of its queue.
LEMMA ExecuteNextOnce ==
  ASSUME NEW s, Raw(s), NoCopies(s)
  PROVE  NoCopies(executeNext([s EXCEPT !.timers = @ - 1]))
<1> DEFINE o == [s EXCEPT !.timers = @ - 1]
           q == NextQueue(o)
           u == [o EXCEPT !.current = Head(o.queue[q]), !.from = q, !.queue[q] = Tail(@)]
           h == [x \in Places(u) |-> IF x[1] = -1 THEN <<q, 1>>
                                     ELSE IF x[1] = q THEN <<q, x[2] + 1>> ELSE x]
<1>1. /\ o.queue = s.queue /\ o.current = s.current /\ o.from = s.from
      /\ o.queue \in [QueueType -> Seq(Task)]
  BY DEF Raw, Scheduler
<1>2. NoCopies(o)
  BY <1>1, SamePlaces
<1>3. CASE o.current # NoTask \/ isEmpty(o)
  BY <1>2, <1>3 DEF executeNext
<1>4. CASE ~(o.current # NoTask \/ isEmpty(o))
  <2>1. q \in QueueType /\ o.queue[q] # <<>>
    BY <1>4, NextQueueExists
  <2>2. /\ u.current = Head(o.queue[q]) /\ u.from = q /\ u.queue[q] = Tail(o.queue[q])
        /\ \A p \in QueueType \ {q} : u.queue[p] = o.queue[p]
    BY <1>1, <2>1 DEF Raw, Scheduler
  <2> HIDE DEF o, q, u
  <2> DEFINE old == o.queue[q]
  <2>3. /\ Len(old) \in Nat \ {0} /\ DOMAIN old = 1..Len(old)
        /\ Head(old) = old[1] /\ DOMAIN Tail(old) = 1..(Len(old) - 1)
        /\ \A i \in 1..(Len(old) - 1) : Tail(old)[i] = old[i + 1]
    BY <1>1, <2>1
  <2>4. o.current = NoTask /\ -1 \notin QueueType
    BY <1>4 DEF QueueType
  <2>5. ASSUME NEW x \in Places(u), x[1] = -1
        PROVE  /\ x = Running /\ h[x] = <<q, 1>> /\ h[x] \in Places(o)
               /\ h[x][1] = q /\ h[x][2] = 1
               /\ TaskAt(u, x) = TaskAt(o, h[x]) /\ QueueAt(u, x) = QueueAt(o, h[x])
    <3>1. x = Running /\ h[x] = <<q, 1>>
      BY <2>5 DEF Places
    <3> HIDE DEF h
    <3> QED  BY <2>1, <2>2, <2>3, <2>4, <2>5, <3>1 DEF Places, TaskAt, QueueAt
  <2>6. ASSUME NEW x \in Places(u), x[1] = q
        PROVE  /\ x = <<q, x[2]>> /\ x[2] \in Nat \ {0} /\ h[x] = <<q, x[2] + 1>>
               /\ h[x] \in Places(o) /\ h[x][1] = q /\ h[x][2] = x[2] + 1
               /\ TaskAt(u, x) = TaskAt(o, h[x]) /\ QueueAt(u, x) = QueueAt(o, h[x])
    <3>1. /\ x \in (QueueType \cup {-1}) \X Nat /\ x[2] \in DOMAIN Tail(old)
          /\ h[x] = <<q, x[2] + 1>>
      BY <2>1, <2>2, <2>4, <2>6 DEF Places
    <3>2. x[2] \in 1..(Len(old) - 1) /\ x[2] + 1 \in DOMAIN old /\ x[2] + 1 \in Nat
      BY <2>3, <3>1
    <3>3. Tail(old)[x[2]] = old[x[2] + 1]
      BY <2>3, <3>2
    <3> HIDE DEF h
    <3>4. /\ x = <<q, x[2]>> /\ x[2] \in Nat \ {0}
          /\ h[x][1] = q /\ h[x][2] = x[2] + 1
      BY <2>6, <3>1, <3>2
    <3>5. <<q, x[2] + 1>> \in Places(o)
      BY <2>1, <2>4, <3>2 DEF Places
    <3>6. TaskAt(u, x) = TaskAt(o, h[x]) /\ QueueAt(u, x) = QueueAt(o, h[x])
      BY <2>1, <2>2, <2>4, <2>6, <3>3, <3>4 DEF TaskAt, QueueAt
    <3> QED  BY <3>1, <3>4, <3>5, <3>6
  <2>7. ASSUME NEW x \in Places(u), x[1] # q, x[1] # -1
        PROVE  /\ h[x] = x /\ x \in Places(o)
               /\ TaskAt(u, x) = TaskAt(o, x) /\ QueueAt(u, x) = QueueAt(o, x)
    BY <2>1, <2>2, <2>4, <2>7 DEF Places, TaskAt, QueueAt
  <2> HIDE DEF old
  <2>8. h \in [Places(u) -> Places(o)]
    <3>1. \A x \in Places(u) : h[x] \in Places(o)
      <4> HIDE DEF h
      <4> QED  BY <2>5, <2>6, <2>7
    <3> QED  BY <3>1
  <2> HIDE DEF h
  <2>9. \A x, y \in Places(u) : h[x] = h[y] => x = y
    <3> SUFFICES ASSUME NEW x \in Places(u), NEW y \in Places(u), h[x] = h[y] PROVE x = y
      OBVIOUS
    <3>1. CASE x[1] = -1
      BY <2>1, <2>4, <2>5, <2>6, <2>7, <3>1
    <3>2. CASE x[1] = q
      <4>1. x[2] \in Nat \ {0} /\ h[x][1] = q /\ h[x][2] = x[2] + 1 /\ x = <<q, x[2]>>
        BY <2>6, <3>2
      <4>2. CASE y[1] = q
        <5>1. y[2] \in Nat \ {0} /\ h[y][2] = y[2] + 1 /\ y = <<q, y[2]>>
          BY <2>6, <4>2
        <5>2. x[2] = y[2]
          BY <4>1, <5>1
        <5> QED  BY <4>1, <5>1, <5>2
      <4>3. CASE y[1] = -1
        BY <2>5, <4>1, <4>3
      <4>4. CASE y[1] # q /\ y[1] # -1
        BY <2>7, <4>1, <4>4
      <4> QED  BY <4>2, <4>3, <4>4
    <3>3. CASE x[1] # q /\ x[1] # -1
      <4>1. h[x] = x
        BY <2>7, <3>3
      <4>2. y[1] # q /\ y[1] # -1
        BY <2>5, <2>6, <3>3, <4>1
      <4> QED  BY <2>7, <4>1, <4>2
    <3> QED  BY <3>1, <3>2, <3>3
  <2>10. \A x \in Places(u) : /\ SameTask(TaskAt(u, x), TaskAt(o, h[x]))
                              /\ QueueAt(u, x) = QueueAt(o, h[x])
    BY <2>5, <2>6, <2>7 DEF SameTask
  <2>11. NoCopies(u)
    BY <1>2, <2>8, <2>9, <2>10, OnlyMoved
  <2>12. executeNext(o) = u
    BY <1>4 DEF executeNext, u, q
  <2> QED  BY <2>11, <2>12 DEF o
<1> QED  BY <1>3, <1>4

\* Adding a message to a task, running or queued, moves nothing.
LEMMA JoinRunningOnce ==
  ASSUME NEW s, Raw(s), NoCopies(s), s.current # NoTask, NEW m
  PROVE  NoCopies([s EXCEPT !.current = [s.current EXCEPT !.msgs = m]])
<1> DEFINE c == [s.current EXCEPT !.msgs = m]
           u == [s EXCEPT !.current = c]
<1>1. s.current \in Task
  BY DEF Raw, Scheduler
<1>2. c.type = s.current.type /\ c.arg = s.current.arg
  BY <1>1 DEF Task
<1>3. u.queue = s.queue /\ u.current = c /\ u.from = s.from
  BY DEF Raw, Scheduler
<1> HIDE DEF u, c
<1>4. \A x \in Places(u) : x \in Places(s)
  BY <1>3 DEF Places
<1>5. \A x \in Places(u) : /\ SameTask(TaskAt(u, x), TaskAt(s, x))
                           /\ QueueAt(u, x) = QueueAt(s, x)
  BY <1>2, <1>3 DEF TaskAt, QueueAt, SameTask
<1> QED  BY <1>4, <1>5, FewerPlaces DEF u, c

LEMMA JoinQueuedOnce ==
  ASSUME NEW s, Raw(s), NoCopies(s), NEW q \in QueueType, NEW i \in DOMAIN s.queue[q], NEW m
  PROVE  NoCopies([s EXCEPT !.queue[q] =
                     [s.queue[q] EXCEPT ![i] = [s.queue[q][i] EXCEPT !.msgs = m]]])
<1> DEFINE old == s.queue[q]
           e == [old[i] EXCEPT !.msgs = m]
           l == [old EXCEPT ![i] = e]
           g == [j \in DOMAIN l |-> j]
<1>1. old \in Seq(Task) /\ old[i] \in Task
  BY DEF Raw, Scheduler
<1>2. e.type = old[i].type /\ e.arg = old[i].arg
  BY <1>1 DEF Task
<1> HIDE DEF e, old
<1>3. /\ DOMAIN l = DOMAIN old
      /\ \A j \in DOMAIN l : l[j] = IF j = i THEN e ELSE old[j]
  BY <1>1 DEF old
<1> HIDE DEF l
<1>4. g \in [DOMAIN l -> DOMAIN old] /\ \A j \in DOMAIN l : g[j] = j
  BY <1>3
<1> HIDE DEF g
<1>5. \A j \in DOMAIN l : SameTask(l[j], old[g[j]])
  BY <1>2, <1>3, <1>4 DEF SameTask
<1>6. NoCopies([s EXCEPT !.queue[q] = l])
  BY <1>4, <1>5, QueueMoved DEF old
<1> QED  BY <1>6 DEF l, e, old

LEMMA TaskAtIsTask ==
  ASSUME NEW s, Raw(s), NEW x \in Places(s)
  PROVE  /\ TaskAt(s, x) \in Task
         /\ x[1] = -1 => x = Running /\ TaskAt(s, x) = s.current /\ QueueAt(s, x) = s.from
         /\ x[1] # -1 => /\ x[1] \in QueueType /\ QueueAt(s, x) = x[1]
                         /\ x[2] \in DOMAIN s.queue[x[1]]
                         /\ TaskAt(s, x) = s.queue[x[1]][x[2]]
<1>1. CASE x[1] = -1
  BY <1>1 DEF Places, TaskAt, QueueAt, Raw, Scheduler
<1>2. CASE x[1] # -1
  <2>1. x[1] \in QueueType /\ x[2] \in DOMAIN s.queue[x[1]]
    BY <1>2 DEF Places
  <2>2. s.queue[x[1]] \in Seq(Task)
    BY <2>1 DEF Raw, Scheduler
  <2>3. s.queue[x[1]][x[2]] \in Task
    BY <2>1, <2>2
  <2> QED  BY <1>2, <2>1, <2>3 DEF TaskAt, QueueAt
<1> QED  BY <1>1, <1>2

\* A task that is not in the queue of its type can only be the one that runs.
LEMMA NotQueued ==
  ASSUME NEW s, Raw(s), NoCopies(s), NEW t, HasHome(t),
         ~Contains(s.queue[queueTypeForTaskType(t.type)], t),
         NEW x \in Places(s), SameTask(TaskAt(s, x), t)
  PROVE  x = Running /\ SameTask(s.current, t)
<1>1. TaskAt(s, x).type = t.type /\ HasHome(TaskAt(s, x))
  BY DEF SameTask, HasHome, Unique
<1>2. QueueAt(s, x) = queueTypeForTaskType(t.type)
  BY <1>1 DEF NoCopies, Home
<1>3. x[1] = -1
  BY <1>2, TaskAtIsTask DEF Contains, SameTask
<1> QED  BY <1>3, TaskAtIsTask

LEMMA ScheduleOnce ==
  ASSUME NEW s, Raw(s), NoCopies(s), NEW t \in Task, Unique(t)
  PROVE  NoCopies(Schedule(s, t))
<1> DEFINE q == queueTypeForTaskType(t.type)
<1>1. CASE Contains(s.queue[q], t) \/ SameTask(s.current, t)
  BY <1>1 DEF Schedule
<1>2. CASE ~(Contains(s.queue[q], t) \/ SameTask(s.current, t))
  <2>1. \A x \in Places(s) : ~SameTask(TaskAt(s, x), t)
    BY <1>2, NotQueued DEF HasHome
  <2>2. MayAdd(s, q, t)
    BY <2>1 DEF MayAdd, Unique
  <2> QED  BY <1>2, <2>2, QueueOfType, EnqueueOnce DEF Schedule
<1> QED  BY <1>1, <1>2

LEMMA ScheduleChangeReplayOnce ==
  ASSUME NEW s, Raw(s), NoCopies(s)
  PROVE  NoCopies(scheduleChangeReplay(s))
<1> DEFINE t == MkTask("ChangeReplay", NoArg)
<1>1. CASE Contains(s.queue[ChangeReplayQueue], t)
  BY <1>1 DEF scheduleChangeReplay
<1>2. CASE ~Contains(s.queue[ChangeReplayQueue], t)
  <2>1. /\ t \in Task /\ t.type = "ChangeReplay" /\ t.arg = NoArg /\ ~Unique(t)
        /\ ChangeReplayQueue \in QueueType
        /\ queueTypeForTaskType(t.type) = ChangeReplayQueue
    BY DEF MkTask, Task, PlainType, ChangeReplayQueue, QueueType, Unique,
           queueTypeForTaskType
  <2>2. ASSUME NEW x \in Places(s), IsReplayAt(s, x) PROVE x = Running
    <3>1. TaskAt(s, x) \in Task /\ TaskAt(s, x).type = "ChangeReplay"
      BY <2>2, TaskAtIsTask DEF IsReplayAt
    <3>2. TaskAt(s, x).arg = NoArg
      BY <3>1 DEF Task, CollectionType
    <3>3. SameTask(TaskAt(s, x), t)
      BY <2>1, <3>1, <3>2 DEF SameTask
    <3> HIDE DEF t
    <3> QED  BY <1>2, <2>1, <3>3, NotQueued DEF HasHome
  <2>3. MayAdd(s, ChangeReplayQueue, t)
    BY <2>1, <2>2 DEF MayAdd
  <2> QED  BY <1>2, <2>1, <2>3, EnqueueOnce DEF scheduleChangeReplay
<1> QED  BY <1>1, <1>2

LEMMA ScheduleCompletionOnce ==
  ASSUME NEW s, Raw(s), NoCopies(s), NEW type \in {"SyncAllDone", "SyncCollectionTreeDone"}
  PROVE  NoCopies(scheduleCompletion(s, type))
<1> DEFINE t == MkTask(type, NoArg)
<1>1. t \in Task /\ GenericTaskQueue \in QueueType /\ MayAdd(s, GenericTaskQueue, t)
  BY DEF MkTask, Task, PlainType, GenericTaskQueue, QueueType, MayAdd, HasHome, Unique
<1> QED  BY <1>1, EnqueueOnce DEF scheduleCompletion

LEMMA ScheduleCustomTaskOnce ==
  ASSUME NEW s, Raw(s), NoCopies(s), NEW m \in Methods,
         NEW p \in {"Prepend", "AfterChangeReplay", "Append"}
  PROVE  NoCopies(scheduleCustomTask(s, m, p))
<1> DEFINE t == MkTask("Custom", m)
           q == CustomQueue(p)
<1>1. t \in Task /\ q \in QueueType /\ MayAdd(s, q, t)
  <2>1. t \in Task /\ MayAdd(s, q, t)
    BY DEF MkTask, Task, MayAdd, HasHome, Unique
  <2>2. q \in QueueType
    BY DEF CustomQueue, QueueType, AfterChangeReplayQueue, PrependTaskQueue,
           GenericTaskQueue
  <2> QED  BY <2>1, <2>2
<1> HIDE DEF t, q
<1>2. /\ NoCopies(Enqueue(s, q, t))
      /\ NoCopies(scheduleNext([s EXCEPT !.queue[q] = Prepend(@, t)]))
  BY <1>1, EnqueueOnce, PrependOnce
<1> QED  BY <1>2 DEF scheduleCustomTask, t, q

LEMMA ScheduleItemFetchOnce ==
  ASSUME NEW s, Raw(s), NoCopies(s), NEW f \in Fetches, NEW r \in Requests
  PROVE  NoCopies(scheduleItemFetch(s, f, r))
<1> DEFINE t == [type |-> "FetchItem", arg |-> f, msgs |-> {r}]
           old == s.queue[UserActionQueue]
           same == {u \in Elements(old) : SameTask(u, t)}
           idx == FirstIn(old, same)
<1>1. /\ t \in Task /\ Unique(t) /\ t.type = "FetchItem" /\ UserActionQueue \in QueueType
      /\ queueTypeForTaskType(t.type) = UserActionQueue
  BY DEF Task, Unique, UserActionQueue, QueueType, queueTypeForTaskType
<1>2. old \in Seq(Task)
  BY <1>1 DEF Raw, Scheduler
<1>3. CASE SameTask(s.current, t)
  <2>1. s.current # NoTask
    BY <1>1, <1>3 DEF SameTask, NoTask
  <2>2. [s EXCEPT !.current.msgs = @ \cup {r}]
          = [s EXCEPT !.current = [s.current EXCEPT !.msgs = s.current.msgs \cup {r}]]
    <3>1. s.current \in Task
      BY <2>1 DEF Raw, Scheduler
    <3> QED  BY <3>1 DEF Raw, Scheduler
  <2>3. NoCopies([s EXCEPT !.current = [s.current EXCEPT !.msgs = s.current.msgs \cup {r}]])
    BY <2>1, JoinRunningOnce
  <2> QED  BY <1>3, <2>2, <2>3 DEF scheduleItemFetch
<1>4. CASE ~SameTask(s.current, t) /\ idx # 0
  <2>1. idx \in DOMAIN old
    <3>1. \E i \in DOMAIN old : old[i] \in same
      BY <1>4 DEF FirstIn
    <3>2. PICK i \in DOMAIN old : old[i] \in same
      BY <3>1
    <3>3. \E j \in DOMAIN old :
            old[j] \in same /\ \A k \in DOMAIN old : old[k] \in same => j <= k
      <4> HIDE DEF same
      <4>1. DOMAIN old = 1..Len(old) /\ Len(old) \in Nat
        BY <1>2
      <4> QED  BY <3>2, <4>1, SmallestIndex
    <3> HIDE DEF same, old
    <3> QED  BY <3>1, <3>3 DEF FirstIn
  <2> DEFINE m == old[idx].msgs \cup {r}
             u == [s EXCEPT !.queue[UserActionQueue] =
                     [s.queue[UserActionQueue] EXCEPT
                        ![idx] = [s.queue[UserActionQueue][idx] EXCEPT !.msgs = m]]]
  <2>2. NoCopies(u)
    <3> HIDE DEF idx, m
    <3> QED  BY <1>1, <2>1, JoinQueuedOnce
  <2>3. [s EXCEPT !.queue[UserActionQueue][idx].msgs = @ \cup {r}] = u
    <3> HIDE DEF idx
    <3>1. old[idx] \in Task
      BY <1>2, <2>1
    <3> QED  BY <1>1, <1>2, <2>1, <3>1 DEF Raw, Scheduler
  <2> QED  BY <1>4, <2>2, <2>3 DEF scheduleItemFetch
<1>5. CASE ~SameTask(s.current, t) /\ idx = 0
  <2>1. ~Contains(old, t)
    <3> SUFFICES ASSUME NEW i \in DOMAIN old, SameTask(old[i], t) PROVE FALSE
      BY DEF Contains
    <3>1. old[i] \in same
      BY DEF Elements
    <3>2. DOMAIN old = 1..Len(old) /\ Len(old) \in Nat
      BY <1>2
    <3>3. \E j \in DOMAIN old :
            old[j] \in same /\ \A k \in DOMAIN old : old[k] \in same => j <= k
      <4> HIDE DEF same
      <4> QED  BY <3>1, <3>2, SmallestIndex
    <3>4. idx \in DOMAIN old
      <4> HIDE DEF same, old
      <4> QED  BY <3>1, <3>3 DEF FirstIn
    <3> HIDE DEF idx, old
    <3> QED  BY <1>5, <3>2, <3>4
  <2>2. \A x \in Places(s) : ~SameTask(TaskAt(s, x), t)
    <3> HIDE DEF t
    <3> QED  BY <1>1, <1>5, <2>1, NotQueued DEF HasHome
  <2>3. MayAdd(s, UserActionQueue, t)
    BY <1>1, <2>2 DEF MayAdd
  <2>4. NoCopies(Enqueue(s, UserActionQueue, t))
    BY <1>1, <2>3, EnqueueOnce
  <2> QED  BY <1>5, <2>4 DEF scheduleItemFetch
<1> QED  BY <1>3, <1>4, <1>5

LEMMA DeferTaskOnce ==
  ASSUME NEW s, Raw(s), NoCopies(s)
  PROVE  NoCopies(deferTask(s))
<1>1. CASE s.current = NoTask
  BY <1>1 DEF deferTask
<1>2. CASE s.current # NoTask
  <2> DEFINE u == [s EXCEPT !.queue[s.from] = Prepend(@, s.current),
                            !.current = NoTask, !.from = -1]
  <2>1. s.from \in QueueType /\ s.current \in Task
    BY <1>2 DEF Raw, Scheduler, KnowsQueue
  <2>2. NoCopies(u)
    BY <1>2, <2>1, PutBackOnce
  <2>3. Prepend(s.queue[s.from], s.current) \in Seq(Task)
    BY <2>1 DEF Prepend, Raw, Scheduler
  <2>4. Raw(u)
    BY <2>1, <2>3 DEF Raw, Scheduler, KnowsQueue
  <2> QED  BY <1>2, <2>2, <2>4, ScheduleNextMovesNothing DEF deferTask
<1> QED  BY <1>1, <1>2

LEMMA GoOfflineOnce ==
  ASSUME NEW s, Raw(s), NoCopies(s)
  PROVE  NoCopies(GoOffline(s))
<1> DEFINE o == [s EXCEPT !.online = FALSE]
           a == AbortRunning(o)
           kept == Elements(a.queue[UserActionQueue]) \ Fetching(a)
<1>1. Raw(o) /\ o.queue = s.queue /\ o.current = s.current /\ o.from = s.from
  BY DEF Raw, Scheduler, KnowsQueue
<1>2. NoCopies(o)
  BY <1>1, SamePlaces
<1> HIDE DEF o
<1>3. Raw(a) /\ NoCopies(a)
  <2>1. CASE o.current = NoTask
    BY <1>1, <1>2, <2>1 DEF AbortRunning
  <2>2. CASE o.current # NoTask
    <3> DEFINE q == queueTypeForTaskType(o.current.type)
               v == [o EXCEPT !.queue[q] = Prepend(@, o.current),
                              !.current = NoTask, !.from = -1]
    <3>1. q \in QueueType /\ o.current \in Task
      BY <1>1, <2>2, QueueOfType DEF Raw, Scheduler
    <3>2. NoCopies(v)
      BY <1>1, <1>2, <2>2, <3>1, PutBackOnce
    <3> HIDE DEF q
    <3>3. Prepend(o.queue[q], o.current) \in Seq(Task)
      BY <1>1, <3>1 DEF Prepend, Raw, Scheduler
    <3>4. Raw(v)
      BY <1>1, <3>1, <3>3 DEF Raw, Scheduler, KnowsQueue
    <3> QED  BY <2>2, <3>2, <3>4 DEF AbortRunning, q
  <2> QED  BY <2>1, <2>2
<1> HIDE DEF a, kept
<1>4. UserActionQueue \in QueueType
  BY DEF UserActionQueue, QueueType
<1>5. NoCopies([a EXCEPT !.queue[UserActionQueue] = Keep(@, kept)])
  BY <1>3, <1>4, KeepOnce
<1> QED  BY <1>5 DEF GoOffline, kept, a, o

LEMMA GoOnlineOnce ==
  ASSUME NEW s, Raw(s), NoCopies(s)
  PROVE  NoCopies(GoOnline(s))
<1> DEFINE o == [s EXCEPT !.online = TRUE]
<1>1. Raw(o) /\ o.queue = s.queue /\ o.current = s.current /\ o.from = s.from
  BY DEF Raw, Scheduler, KnowsQueue
<1> HIDE DEF o
<1> QED  BY <1>1, SamePlaces, ScheduleNextMovesNothing DEF GoOnline, o

LEMMA CollectionRemovedOnce ==
  ASSUME NEW s, Raw(s), NoCopies(s), NEW c
  PROVE  NoCopies(collectionRemoved(s, c))
<1> DEFINE q == s.queue[GenericTaskQueue]
           gone == {t \in Elements(q) : t.type = "SyncCollection" /\ t.arg = c}
           S == Elements(q) \ gone
<1>1. GenericTaskQueue \in QueueType
  BY DEF GenericTaskQueue, QueueType
<1> HIDE DEF S
<1>2. NoCopies([s EXCEPT !.queue[GenericTaskQueue] = Keep(@, S)])
  BY <1>1, KeepOnce
<1> QED  BY <1>2 DEF collectionRemoved, S
-----------------------------------------------------------------------------
(* The invariants *)

IInv == TypeOK /\ Sound(sch)

LEMMA InitSound == Init => IInv
<1> SUFFICES ASSUME Init PROVE IInv
  OBVIOUS
<1>1. InitialScheduler \in Scheduler
  BY DEF InitialScheduler, Scheduler
<1>2. Sound(InitialScheduler)
  BY <1>1 DEF InitialScheduler, Sound, KnowsQueue, Idle
<1> QED  BY <1>1, <1>2 DEF Init, IInv, TypeOK

LEMMA StepSound == IInv /\ [Next]_vars => IInv'
<1> SUFFICES ASSUME IInv, [Next]_vars PROVE IInv'
  OBVIOUS
<1> USE DEF IInv
<1>0. Sound(sch) /\ replies \in [Requests -> Nat] /\ asked \in SUBSET Requests
  BY DEF TypeOK
<1>r. ASSUME NEW msgs, Reply(msgs) PROVE replies' \in [Requests -> Nat]
  BY <1>0, <1>r DEF Reply
<1>s. Sound(sch') /\ asked' \in SUBSET Requests /\ replies' \in [Requests -> Nat]
      => IInv'
  BY DEF TypeOK, Sound
<1>1. CASE ScheduleTask
  <2>1. PICK t \in Task : sch' = Schedule(sch, t)
    BY <1>1 DEF ScheduleTask, Task, PlainType
  <2> QED  BY <1>0, <1>1, <1>s, <2>1, ScheduleSound DEF ScheduleTask
<1>2. CASE ScheduleChangeReplay
  BY <1>0, <1>2, <1>s, ScheduleChangeReplaySound DEF ScheduleChangeReplay
<1>3. CASE ScheduleCompletion
  BY <1>0, <1>3, <1>s, ScheduleCompletionSound DEF ScheduleCompletion
<1>4. CASE ScheduleCustomTask
  BY <1>0, <1>4, <1>s, ScheduleCustomTaskSound DEF ScheduleCustomTask
<1>5. CASE RequestItemDelivery
  BY <1>0, <1>5, <1>s, ScheduleItemFetchSound DEF RequestItemDelivery
<1>6. CASE ExecuteNext
  BY <1>0, <1>6, <1>s, ExecuteNextSound DEF ExecuteNext
<1>7. CASE TaskDone
  BY <1>0, <1>7, <1>s, TaskDoneSound DEF TaskDone
<1>8. CASE SpuriousTaskDone
  BY <1>0, <1>8, <1>s, TaskDoneSound DEF SpuriousTaskDone
<1>9. CASE DeliveryDone
  BY <1>0, <1>9, <1>r, <1>s, TaskDoneSound DEF DeliveryDone
<1>10. CASE DeferTask
  BY <1>0, <1>10, <1>s, DeferTaskSound DEF DeferTask
<1>11. CASE SetOffline
  BY <1>0, <1>11, <1>r, <1>s, GoOfflineSound DEF SetOffline
<1>12. CASE SetOnline
  BY <1>0, <1>12, <1>s, GoOnlineSound DEF SetOnline
<1>13. CASE CollectionRemoved
  BY <1>0, <1>13, <1>s, CollectionRemovedSound DEF CollectionRemoved
<1>14. CASE CancelQueues
  BY <1>0, <1>14, <1>s, CancelQueuesSound DEF CancelQueues
<1>15. CASE Clear
  BY <1>0, <1>15, <1>s, CancelQueuesSound DEF Clear
<1>16. CASE UNCHANGED vars
  BY <1>0, <1>16, <1>s DEF vars
<1> QED  BY <1>1, <1>2, <1>3, <1>4, <1>5, <1>6, <1>7, <1>8, <1>9, <1>10,
            <1>11, <1>12, <1>13, <1>14, <1>15, <1>16 DEF Next

LEMMA SchedulerSound == Spec => []IInv
BY InitSound, StepSound, PTL DEF Spec

\* Every variable keeps its type, in every order of the calls.
THEOREM TypeCorrect == Spec => []TypeOK
<1>1. IInv => TypeOK
  BY DEF IInv
<1> QED  BY <1>1, SchedulerSound, PTL

\* deferTask() never prepends to a queue that does not exist: its assertion
\* holds whatever aborted, cleared or finished the running task before.
THEOREM DeferAssertionHolds == Spec => []RunningTaskHasQueue
<1>1. IInv => RunningTaskHasQueue
  BY DEF IInv, Sound, RunningTaskHasQueue
<1> QED  BY <1>1, SchedulerSound, PTL

\* A scheduler that is online, idle and has work has a timer on its way.
THEOREM NeverStalls == Spec => []NoLostWakeup
<1>1. IInv => NoLostWakeup
  BY DEF IInv, Sound, NoLostWakeup
<1> QED  BY <1>1, SchedulerSound, PTL

LEMMA InitNoCopies == Init => NoCopies(sch)
<1> SUFFICES ASSUME Init PROVE NoCopies(sch)
  OBVIOUS
<1>1. Places(sch) = {}
  BY DEF Init, InitialScheduler, Places
<1> QED  BY <1>1 DEF NoCopies, Home, Single, FewReplays

LEMMA StepNoCopies == IInv /\ NoCopies(sch) /\ [Next]_vars => NoCopies(sch)'
<1> SUFFICES ASSUME IInv, NoCopies(sch), [Next]_vars PROVE NoCopies(sch')
  OBVIOUS
<1>0. Raw(sch)
  BY DEF IInv, Sound, Raw
<1>1. CASE ScheduleTask
  <2>1. PICK t \in Task : sch' = Schedule(sch, t) /\ Unique(t)
    BY <1>1 DEF ScheduleTask, Task, PlainType, CollectionType, Unique
  <2> QED  BY <1>0, <2>1, ScheduleOnce
<1>2. CASE ScheduleChangeReplay
  BY <1>0, <1>2, ScheduleChangeReplayOnce DEF ScheduleChangeReplay
<1>3. CASE ScheduleCompletion
  BY <1>0, <1>3, ScheduleCompletionOnce DEF ScheduleCompletion
<1>4. CASE ScheduleCustomTask
  BY <1>0, <1>4, ScheduleCustomTaskOnce DEF ScheduleCustomTask
<1>5. CASE RequestItemDelivery
  BY <1>0, <1>5, ScheduleItemFetchOnce DEF RequestItemDelivery
<1>6. CASE ExecuteNext
  BY <1>0, <1>6, ExecuteNextOnce DEF ExecuteNext
<1>7. CASE TaskDone \/ SpuriousTaskDone \/ DeliveryDone
  BY <1>0, <1>7, TaskDoneOnce DEF TaskDone, SpuriousTaskDone, DeliveryDone
<1>8. CASE DeferTask
  BY <1>0, <1>8, DeferTaskOnce DEF DeferTask
<1>9. CASE SetOffline
  BY <1>0, <1>9, GoOfflineOnce DEF SetOffline
<1>10. CASE SetOnline
  BY <1>0, <1>10, GoOnlineOnce DEF SetOnline
<1>11. CASE CollectionRemoved
  BY <1>0, <1>11, CollectionRemovedOnce DEF CollectionRemoved
<1>12. CASE CancelQueues \/ Clear
  BY <1>0, <1>12, ClearOnce DEF CancelQueues, Clear
<1>13. CASE UNCHANGED vars
  BY <1>13 DEF vars
<1> QED  BY <1>1, <1>2, <1>3, <1>4, <1>5, <1>6, <1>7, <1>8, <1>9, <1>10, <1>11, <1>12,
            <1>13 DEF Next

LEMMA SchedulerNoCopies == Spec => [](IInv /\ NoCopies(sch))
BY InitSound, StepSound, InitNoCopies, StepNoCopies, PTL DEF Spec

\* A queued position is a place.
LEMMA PositionIsPlace ==
  ASSUME NEW s, Raw(s), NEW q \in QueueType, NEW i \in DOMAIN s.queue[q]
  PROVE  <<q, i>> \in Places(s) /\ TaskAt(s, <<q, i>>) = s.queue[q][i]
<1>1. -1 \notin QueueType
  BY DEF QueueType
<1>2. s.queue[q] \in Seq(Task)
  BY DEF Raw, Scheduler
<1>3. i \in Nat
  BY <1>2
<1> QED  BY <1>1, <1>3 DEF Places, TaskAt

LEMMA RunningIsPlace ==
  ASSUME NEW s, s.current # NoTask
  PROVE  Running \in Places(s) /\ TaskAt(s, Running) = s.current /\ Running[1] = -1
BY DEF Running, Places, TaskAt

\* Whatever is deferred, aborted or asked for again, a task that is compared
\* exists once: no two positions of the queues hold it, nor one and the place of
\* the running task.
THEOREM NeverTwice == Spec => []OneCopy
<1>1. IInv /\ NoCopies(sch) => OneCopy
  <2> SUFFICES ASSUME IInv, NoCopies(sch),
                      NEW q \in QueueType, NEW p \in QueueType,
                      NEW i \in DOMAIN sch.queue[q], NEW j \in DOMAIN sch.queue[p],
                      Unique(sch.queue[q][i])
               PROVE  /\ SameTask(sch.queue[q][i], sch.queue[p][j]) => <<q, i>> = <<p, j>>
                      /\ ~SameTask(sch.queue[q][i], sch.current)
    BY DEF OneCopy
  <2>1. Raw(sch)
    BY DEF IInv, Sound, Raw
  <2>2. /\ <<q, i>> \in Places(sch) /\ TaskAt(sch, <<q, i>>) = sch.queue[q][i]
        /\ <<p, j>> \in Places(sch) /\ TaskAt(sch, <<p, j>>) = sch.queue[p][j]
    BY <2>1, PositionIsPlace
  <2>3. SameTask(sch.queue[q][i], sch.queue[p][j]) => <<q, i>> = <<p, j>>
    BY <2>2 DEF NoCopies, Single
  <2>4. ASSUME SameTask(sch.queue[q][i], sch.current) PROVE FALSE
    <3>1. TaskAt(sch, <<q, i>>) \in Task
      BY <2>1, <2>2, TaskAtIsTask
    <3>2. sch.current # NoTask
      BY <2>2, <2>4, <3>1 DEF SameTask, NoTask, Task, PlainType, CollectionType
    <3>3. <<q, i>> = Running
      BY <2>2, <2>4, <3>2, RunningIsPlace DEF NoCopies, Single
    <3> QED  BY <3>3 DEF Running, QueueType
  <2> QED  BY <2>3, <2>4
<1> QED  BY <1>1, SchedulerNoCopies, PTL

\* At most n elements, told by pairs and triples.
LEMMA AtMostOne ==
  ASSUME NEW S, \A x, y \in S : x = y
  PROVE  Cardinality(S) \in 0..1 /\ (S = {} => Cardinality(S) = 0)
<1>1. CASE S = {}
  BY <1>1, FS_EmptySet
<1>2. CASE S # {}
  <2>1. PICK a : S = {a}
    BY <1>2
  <2>2. Cardinality({a}) = 1
    BY FS_Singleton
  <2> QED  BY <1>2, <2>1, <2>2
<1> QED  BY <1>1, <1>2

LEMMA AtMostTwo ==
  ASSUME NEW S, \A x, y, z \in S : x = y \/ y = z \/ x = z
  PROVE  Cardinality(S) \in 0..2
<1>1. CASE \A x, y \in S : x = y
  <2>1. Cardinality(S) \in 0..1
    BY <1>1, AtMostOne
  <2> QED  BY <2>1
<1>2. CASE ~\A x, y \in S : x = y
  <2>1. PICK a \in S, b \in S : a # b
    BY <1>2
  <2>2. S = {a} \cup {b} /\ b \notin {a}
    BY <2>1
  <2>3. IsFiniteSet({a}) /\ Cardinality({a}) = 1
    BY FS_Singleton
  <2>4. Cardinality({a} \cup {b}) = 2
    BY <2>2, <2>3, FS_AddElement
  <2> QED  BY <2>2, <2>4
<1> QED  BY <1>1, <1>2

\* However many changes come, and however often the resource goes offline during a
\* replay, at most two change replays are queued and running.
THEOREM FewChangeReplays == Spec => []AtMostTwoReplays
<1>1. IInv /\ NoCopies(sch) => AtMostTwoReplays
  <2> SUFFICES ASSUME IInv, NoCopies(sch) PROVE AtMostTwoReplays
    OBVIOUS
  <2> DEFINE q == ChangeReplayQueue
             R == ChangeReplays(sch)
  <2>1. Raw(sch) /\ q \in QueueType
    BY DEF IInv, Sound, Raw, ChangeReplayQueue, QueueType
  <2>2. \A i \in R : <<q, i>> \in Places(sch) /\ IsReplayAt(sch, <<q, i>>)
    BY <2>1, PositionIsPlace DEF ChangeReplays, IsReplayAt
  <2>3. \A i, j : <<q, i>> = <<q, j>> => i = j
    OBVIOUS
  <2>4. CASE sch.current.type # "ChangeReplay"
    <3>1. \A i, j, k \in R : i = j \/ j = k \/ i = k
      <4> HIDE DEF R, q
      <4> QED  BY <2>2, <2>3 DEF NoCopies, FewReplays
    <3>2. Cardinality(R) \in 0..2
      <4> HIDE DEF R
      <4> QED  BY <3>1, AtMostTwo
    <3> QED  BY <2>4, <3>2 DEF AtMostTwoReplays
  <2>5. CASE sch.current.type = "ChangeReplay"
    <3>1. Running \in Places(sch) /\ IsReplayAt(sch, Running) /\ Running[1] = -1
      BY <2>5, RunningIsPlace DEF NoTask, IsReplayAt
    <3>2. \A i : <<q, i>> # Running
      BY <3>1 DEF ChangeReplayQueue
    <3>3. \A i, j \in R : i = j
      <4> HIDE DEF R, q
      <4> QED  BY <2>2, <2>3, <3>1, <3>2 DEF NoCopies, FewReplays
    <3>4. Cardinality(R) \in 0..1
      <4> HIDE DEF R
      <4> QED  BY <3>3, AtMostOne
    <3> QED  BY <2>5, <3>4 DEF AtMostTwoReplays
  <2> QED  BY <2>4, <2>5
<1> QED  BY <1>1, SchedulerNoCopies, PTL

-----------------------------------------------------------------------------
(* ResourceBase.  The methods are called in the order that jobs and the    *)
(* resource report, and none of them looks at whom the report is from: so  *)
(* each property rests on there being one report to wait for, that for the *)
(* running task.                                                           *)

\* The D-Bus messages that the tasks of a list hold, none of them twice.
Msgs(l) == UNION {t.msgs : t \in Elements(l)}
Apart(l) == \A i, j \in DOMAIN l : i # j => l[i].msgs \cap l[j].msgs = {}

\* The messages that have a task.
Letters(s) == Msgs(s.queue[UserActionQueue])
Unanswered(s) == s.current.msgs \cup Letters(s)

\* No message is held twice; only the user action queue holds item requests.
LettersSound(s) ==
  /\ \A q \in QueueType \ {UserActionQueue} :
       \A t \in Elements(s.queue[q]) : ~IsFetch(t)
  /\ IsFetch(s.current) => s.from = UserActionQueue
  /\ Apart(s.queue[UserActionQueue])
  /\ s.current.msgs \cap Letters(s) = {}

\* The tasks that a place of work is for.
Fits(at, type) ==
  /\ at \in {"data", "commit"} => type = "ChangeReplay"
  /\ at \in {"prepare", "deliver"} => type = "FetchItem"
  /\ at = "collection" => type = "SyncCollection"
  /\ at = "attributes" => type = "SyncCollectionAttributes"
  /\ at = "list" => type = "DeleteResourceCollection"
  /\ at = "sync" => type \in Trees \cup {"SyncCollection"}
  /\ at = "localList" => type \in Trees
  /\ at = "job" => type \notin {"ChangeReplay", "FetchItem"}
  /\ at \in {"listing", "adding", "finishing"} <=> type = "RecursiveMoveReplay"

\* Work is where it belongs, and that of a mover is for one that was started.
Placed(W, mv) ==
  \A w \in W :
    /\ w \in Work /\ Fits(w.at, w.type)
    /\ w.type = "RecursiveMoveReplay" =>
         w.arg \in Moves /\ mv[w.arg].is \in {"running", "deleted"}

\* The running task c has one piece of work, and when that is a mover's it is
\* the mover that ResourceBase knows of.
LiveSound(c, W, rm, mv) ==
  /\ c = NoTask => \A w \in W : ~w.live
  /\ c # NoTask => \E w \in W : w.live /\ w.type = c.type /\ w.arg = c.arg
  /\ \A w, x \in W : w.live /\ x.live => w = x
  /\ \A w \in W : w.live =>
       /\ w.type = "RecursiveMoveReplay" =>
            rm = w.arg /\ mv[w.arg].is = "running" /\ w.change = mv[w.arg].change
       /\ w.type = "ChangeReplay" /\ w.at # "data" => rm = NoArg

\* A task will deal with what is recorded.
IsReplay(t) == t.type \in {"ChangeReplay", "RecursiveMoveReplay"}
ReplayQueued(s) == \E q \in QueueType : \E t \in Elements(s.queue[q]) : IsReplay(t)
Planned(s) == ReplayQueued(s) \/ IsReplay(s.current)

\* What is replayed is the first change of the record, also by a mover, of which
\* one waits or runs.
InHand(m, mv) == mv[m].is \in {"waiting", "running"}
ChangesSound(W, r, mv) ==
  /\ \A w \in W : w.live /\ w.type = "ChangeReplay" =>
       r # <<>> /\ w.change = Head(r) /\ (w.at # "data" => ~Head(r).moved)
  /\ \A m \in Moves : InHand(m, mv) =>
       r # <<>> /\ mv[m].change = Head(r) /\ Head(r).moved
  /\ \A m, k \in Moves : InHand(m, mv) /\ InHand(k, mv) => m = k

NoneLost(r, ans, n) == \A k \in 1..n : \E c \in Elements(r) \cup ans : c.number = k

\* Who asked is answered, or has a task; only an abort drops tasks.
CallersSound(s, askers, rep, dropped) ==
  \A r \in Requests :
    /\ rep[r] \in {0, 1}
    /\ r \in Unanswered(s) => r \in askers /\ rep[r] = 0
    /\ r \notin askers => rep[r] = 0
    /\ r \in askers /\ rep[r] = 0 => r \in Unanswered(s) \/ dropped

Good(s) == Sound(s) /\ LettersSound(s)

\* Types, but for what Good and Placed say.
OtherTypes ==
  /\ asked \subseteq Requests /\ replies \in [Requests -> Nat]
  /\ record \in Seq(Change) /\ answered \subseteq Change \cup {NoChange}
  /\ movers \in [Moves -> Mover] /\ recursiveMover \in Moves \cup {NoArg}
  /\ notified \in 0..MaxChanges /\ faults \in 0..MaxFaults
  /\ mishaps \subseteq Mishap

Base == OtherTypes /\ Good(sch) /\ Placed(work, movers)

Orderly ==
  /\ LiveSound(sch.current, work, recursiveMover, movers)
  /\ record # <<>> => Planned(sch) \/ "aborted" \in mishaps
  /\ mishaps \cap {"givenUp", "twice"} = {} =>
       ChangesSound(work, record, movers) /\ NoneLost(record, answered, notified)
  /\ CallersSound(sch, asked, replies, "unanswered" \in mishaps)

ResourceInv == Base /\ (~Astray => Orderly)

-----------------------------------------------------------------------------
(* The messages that tasks hold *)

LEMMA TaskFields ==
  ASSUME NEW t \in Task
  PROVE  /\ t.type \in TaskType
         /\ t.arg \in Collections \cup Fetches \cup Methods \cup Moves \cup {NoArg}
         /\ ~IsFetch(t) => t.msgs = {}
         /\ t.msgs \subseteq Requests
         /\ t.type = "RecursiveMoveReplay" => t.arg \in Moves
         /\ t # NoTask
BY DEF Task, TaskType, IsFetch, PlainType, CollectionType, NoTask

LEMMA NoTaskFields == NoTask.msgs = {} /\ ~IsFetch(NoTask) /\ ~IsReplay(NoTask)
BY DEF NoTask, IsFetch, IsReplay

LEMMA ListFields ==
  ASSUME NEW T, NEW l \in Seq(T)
  PROVE  DOMAIN l = 1..Len(l) /\ Len(l) \in Nat /\ Elements(l) \subseteq T
BY DEF Elements

LEMMA AppendApart ==
  ASSUME NEW l \in Seq(Task), NEW t \in Task, Apart(l), t.msgs \cap Msgs(l) = {}
  PROVE  /\ Append(l, t) \in Seq(Task) /\ Apart(Append(l, t))
         /\ Elements(Append(l, t)) = Elements(l) \cup {t}
         /\ Msgs(Append(l, t)) = Msgs(l) \cup t.msgs
<1> DEFINE a == Append(l, t)
<1>1. /\ a \in Seq(Task) /\ DOMAIN a = 1..(Len(l) + 1) /\ a[Len(l) + 1] = t
      /\ \A i \in 1..Len(l) : a[i] = l[i]
      /\ DOMAIN l = 1..Len(l) /\ Len(l) \in Nat
  OBVIOUS
<1>2. Elements(a) = Elements(l) \cup {t}
  BY AppendElements
<1> HIDE DEF a
<1>3. Msgs(a) = Msgs(l) \cup t.msgs
  BY <1>2 DEF Msgs
<1>4. \A i \in 1..Len(l) : l[i].msgs \cap t.msgs = {}
  BY <1>1 DEF Msgs, Elements
<1>5. Apart(a)
  <2> SUFFICES ASSUME NEW i \in 1..(Len(l) + 1), NEW j \in 1..(Len(l) + 1), i # j
               PROVE  a[i].msgs \cap a[j].msgs = {}
    BY <1>1 DEF Apart
  <2>1. CASE i = Len(l) + 1
    <3>1. j \in 1..Len(l)
      BY <1>1, <2>1
    <3> QED  BY <1>1, <1>4, <2>1, <3>1
  <2>2. CASE j = Len(l) + 1
    <3>1. i \in 1..Len(l)
      BY <1>1, <2>2
    <3> QED  BY <1>1, <1>4, <2>2, <3>1
  <2>3. CASE i # Len(l) + 1 /\ j # Len(l) + 1
    <3>1. i \in 1..Len(l) /\ j \in 1..Len(l)
      BY <1>1, <2>3
    <3> QED  BY <1>1, <3>1 DEF Apart
  <2> QED  BY <2>1, <2>2, <2>3
<1> QED  BY <1>1, <1>2, <1>3, <1>5 DEF a

LEMMA PrependElements ==
  ASSUME NEW l \in Seq(Task), NEW t \in Task
  PROVE  /\ Prepend(l, t) \in Seq(Task)
         /\ Elements(Prepend(l, t)) = Elements(l) \cup {t}
<1> DEFINE a == Prepend(l, t)
<1>1. /\ a \in Seq(Task) /\ DOMAIN a = 1..(Len(l) + 1) /\ a[1] = t
      /\ \A i \in 1..Len(l) : a[i + 1] = l[i]
      /\ DOMAIN l = 1..Len(l) /\ Len(l) \in Nat
  BY PrependIs
<1> HIDE DEF a
<1>2. \A i \in 2..(Len(l) + 1) : i - 1 \in 1..Len(l) /\ a[i] = l[i - 1]
  <2> SUFFICES ASSUME NEW i \in 2..(Len(l) + 1)
               PROVE  i - 1 \in 1..Len(l) /\ a[i] = l[i - 1]
    OBVIOUS
  <2>1. i - 1 \in 1..Len(l) /\ (i - 1) + 1 = i
    BY <1>1
  <2> QED  BY <1>1, <2>1
<1>3. Elements(a) = Elements(l) \cup {t}
  <2>1. ASSUME NEW e \in Elements(a) PROVE e \in Elements(l) \cup {t}
    <3>1. PICK i \in 1..(Len(l) + 1) : e = a[i]
      BY <1>1 DEF Elements
    <3>2. CASE i = 1
      BY <1>1, <3>1, <3>2
    <3>3. CASE i # 1
      <4>1. i \in 2..(Len(l) + 1)
        BY <1>1, <3>3
      <4> QED  BY <1>1, <1>2, <3>1, <4>1 DEF Elements
    <3> QED  BY <3>2, <3>3
  <2>2. ASSUME NEW e \in Elements(l) PROVE e \in Elements(a)
    <3>1. PICK i \in 1..Len(l) : e = l[i]
      BY <1>1 DEF Elements
    <3>2. i + 1 \in DOMAIN a
      BY <1>1
    <3> QED  BY <1>1, <3>1, <3>2 DEF Elements
  <2>3. t \in Elements(a)
    <3>1. 1 \in DOMAIN a
      BY <1>1
    <3> QED  BY <1>1, <3>1 DEF Elements
  <2> QED  BY <2>1, <2>2, <2>3
<1> QED  BY <1>1, <1>3 DEF a

LEMMA PrependApart ==
  ASSUME NEW l \in Seq(Task), NEW t \in Task, Apart(l), t.msgs \cap Msgs(l) = {}
  PROVE  /\ Prepend(l, t) \in Seq(Task) /\ Apart(Prepend(l, t))
         /\ Elements(Prepend(l, t)) = Elements(l) \cup {t}
         /\ Msgs(Prepend(l, t)) = Msgs(l) \cup t.msgs
<1> DEFINE a == Prepend(l, t)
<1>1. /\ a \in Seq(Task) /\ DOMAIN a = 1..(Len(l) + 1) /\ a[1] = t
      /\ \A i \in 1..Len(l) : a[i + 1] = l[i]
      /\ DOMAIN l = 1..Len(l) /\ Len(l) \in Nat
  BY PrependIs
<1> HIDE DEF a
<1>2. \A i \in 2..(Len(l) + 1) : i - 1 \in 1..Len(l) /\ a[i] = l[i - 1]
  <2> SUFFICES ASSUME NEW i \in 2..(Len(l) + 1)
               PROVE  i - 1 \in 1..Len(l) /\ a[i] = l[i - 1]
    OBVIOUS
  <2>1. i - 1 \in 1..Len(l) /\ (i - 1) + 1 = i
    BY <1>1
  <2> QED  BY <1>1, <2>1
<1>3. Elements(a) = Elements(l) \cup {t}
  BY PrependElements DEF a
<1>4. Msgs(a) = Msgs(l) \cup t.msgs
  BY <1>3 DEF Msgs
<1>5. \A i \in 1..Len(l) : l[i].msgs \cap t.msgs = {}
  <2>1. \A i \in 1..Len(l) : l[i] \in Elements(l)
    BY <1>1 DEF Elements
  <2> QED  BY <2>1 DEF Msgs
<1>6. Apart(a)
  <2> SUFFICES ASSUME NEW i \in 1..(Len(l) + 1), NEW j \in 1..(Len(l) + 1), i # j
               PROVE  a[i].msgs \cap a[j].msgs = {}
    BY <1>1 DEF Apart
  <2>1. CASE i = 1
    <3>1. j \in 2..(Len(l) + 1)
      BY <1>1, <2>1
    <3> QED  BY <1>1, <1>2, <1>5, <2>1, <3>1
  <2>2. CASE j = 1
    <3>1. i \in 2..(Len(l) + 1)
      BY <1>1, <2>2
    <3> QED  BY <1>1, <1>2, <1>5, <2>2, <3>1
  <2>3. CASE i # 1 /\ j # 1
    <3>1. i \in 2..(Len(l) + 1) /\ j \in 2..(Len(l) + 1)
      BY <1>1, <2>3
    <3>2. i - 1 # j - 1 /\ i - 1 \in DOMAIN l /\ j - 1 \in DOMAIN l
      BY <1>1, <1>2, <3>1
    <3>3. l[i - 1].msgs \cap l[j - 1].msgs = {}
      BY <3>2 DEF Apart
    <3> QED  BY <1>2, <3>1, <3>3
  <2> QED  BY <2>1, <2>2, <2>3
<1> QED  BY <1>1, <1>3, <1>4, <1>6 DEF a

LEMMA TailElements ==
  ASSUME NEW T, NEW l \in Seq(T), l # <<>>
  PROVE  /\ Head(l) \in T /\ Tail(l) \in Seq(T)
         /\ Elements(l) = Elements(Tail(l)) \cup {Head(l)}
<1> DEFINE a == Tail(l)
<1>1. /\ a \in Seq(T) /\ Head(l) = l[1] /\ l[1] \in T
      /\ DOMAIN l = 1..Len(l) /\ Len(l) \in Nat \ {0}
      /\ DOMAIN a = 1..(Len(l) - 1)
      /\ \A i \in 1..(Len(l) - 1) : a[i] = l[i + 1]
  OBVIOUS
<1> HIDE DEF a
<1>2. \A i \in 1..(Len(l) - 1) : i + 1 \in 1..Len(l) /\ i + 1 # 1
  BY <1>1
<1>3. Elements(l) = Elements(a) \cup {l[1]}
  <2>1. ASSUME NEW e \in Elements(l) PROVE e \in Elements(a) \cup {l[1]}
    <3>1. PICK i \in 1..Len(l) : e = l[i]
      BY <1>1 DEF Elements
    <3>2. CASE i = 1
      BY <3>1, <3>2
    <3>3. CASE i # 1
      <4>1. i - 1 \in 1..(Len(l) - 1) /\ (i - 1) + 1 = i
        BY <1>1, <3>3
      <4>2. e = a[i - 1] /\ i - 1 \in DOMAIN a
        BY <1>1, <3>1, <4>1
      <4> QED  BY <4>2 DEF Elements
    <3> QED  BY <3>2, <3>3
  <2>2. ASSUME NEW e \in Elements(a) PROVE e \in Elements(l)
    BY <1>1, <1>2 DEF Elements
  <2>3. l[1] \in Elements(l)
    <3>1. 1 \in DOMAIN l
      BY <1>1
    <3> QED  BY <3>1 DEF Elements
  <2> QED  BY <2>1, <2>2, <2>3
<1> QED  BY <1>1, <1>3 DEF a

LEMMA TailApart ==
  ASSUME NEW l \in Seq(Task), l # <<>>, Apart(l)
  PROVE  /\ Head(l) \in Task /\ Tail(l) \in Seq(Task) /\ Apart(Tail(l))
         /\ Elements(l) = Elements(Tail(l)) \cup {Head(l)}
         /\ Msgs(l) = Msgs(Tail(l)) \cup Head(l).msgs
         /\ Head(l).msgs \cap Msgs(Tail(l)) = {}
<1> DEFINE a == Tail(l)
<1>1. /\ a \in Seq(Task) /\ Head(l) = l[1] /\ l[1] \in Task
      /\ DOMAIN l = 1..Len(l) /\ Len(l) \in Nat \ {0}
      /\ DOMAIN a = 1..(Len(l) - 1)
      /\ \A i \in 1..(Len(l) - 1) : a[i] = l[i + 1]
  OBVIOUS
<1> HIDE DEF a
<1>2. \A i \in 1..(Len(l) - 1) : i + 1 \in 1..Len(l) /\ i + 1 # 1
  BY <1>1
<1>3. Elements(l) = Elements(a) \cup {l[1]}
  BY <1>1, TailElements DEF a
<1>4. Msgs(l) = Msgs(a) \cup l[1].msgs
  BY <1>3 DEF Msgs
<1>5. Apart(a)
  <2> SUFFICES ASSUME NEW i \in DOMAIN a, NEW j \in DOMAIN a, i # j
               PROVE  a[i].msgs \cap a[j].msgs = {}
    BY DEF Apart
  <2>1. i \in 1..(Len(l) - 1) /\ j \in 1..(Len(l) - 1)
    BY <1>1
  <2>2. i + 1 \in DOMAIN l /\ j + 1 \in DOMAIN l /\ i + 1 # j + 1
    BY <1>1, <1>2, <2>1
  <2>3. l[i + 1].msgs \cap l[j + 1].msgs = {}
    BY <2>2 DEF Apart
  <2> QED  BY <1>1, <2>1, <2>3
<1>6. l[1].msgs \cap Msgs(a) = {}
  <2>1. 1 \in DOMAIN l
    BY <1>1
  <2>2. \A i \in DOMAIN a : l[1].msgs \cap a[i].msgs = {}
    BY <1>1, <1>2, <2>1 DEF Apart
  <2> QED  BY <2>2 DEF Msgs, Elements
<1> QED  BY <1>1, <1>3, <1>4, <1>5, <1>6 DEF a

\* Timers and the online flag hold no tasks.
LEMMA LettersOfSame ==
  ASSUME NEW s, NEW u, u.queue = s.queue, u.current = s.current, u.from = s.from
  PROVE  /\ LettersSound(u) <=> LettersSound(s)
         /\ Unanswered(u) = Unanswered(s) /\ Letters(u) = Letters(s)
         /\ ReplayQueued(u) <=> ReplayQueued(s)
BY DEF LettersSound, Unanswered, Letters, ReplayQueued

LEMMA ScheduleNextSame ==
  ASSUME NEW s, Raw(s)
  PROVE  /\ scheduleNext(s).queue = s.queue /\ scheduleNext(s).current = s.current
         /\ scheduleNext(s).from = s.from
         /\ LettersSound(scheduleNext(s)) <=> LettersSound(s)
         /\ Unanswered(scheduleNext(s)) = Unanswered(s)
         /\ Letters(scheduleNext(s)) = Letters(s)
         /\ ReplayQueued(scheduleNext(s)) <=> ReplayQueued(s)
<1>1. /\ scheduleNext(s).queue = s.queue /\ scheduleNext(s).current = s.current
      /\ scheduleNext(s).from = s.from
  BY DEF scheduleNext, Raw, Scheduler
<1>2. PICK u : u = scheduleNext(s)
  OBVIOUS
<1> QED  BY <1>1, <1>2, LettersOfSame

\* One queue is replaced, and the place of the running task.
LEMMA LettersReplaced ==
  ASSUME NEW s, Raw(s), LettersSound(s), NEW q \in QueueType, NEW l \in Seq(Task),
         NEW u, u.queue = [s.queue EXCEPT ![q] = l],
         q # UserActionQueue => \A t \in Elements(l) : ~IsFetch(t),
         q = UserActionQueue => Apart(l),
         IsFetch(u.current) => u.from = UserActionQueue,
         u.current.msgs \cap (IF q = UserActionQueue THEN Msgs(l) ELSE Letters(s)) = {}
  PROVE  /\ LettersSound(u)
         /\ Letters(u) = (IF q = UserActionQueue THEN Msgs(l) ELSE Letters(s))
         /\ ReplayQueued(u) <=>
              \/ \E t \in Elements(l) : IsReplay(t)
              \/ \E p \in QueueType \ {q} : \E t \in Elements(s.queue[p]) : IsReplay(t)
<1>1. /\ u.queue[q] = l /\ \A p \in QueueType : p # q => u.queue[p] = s.queue[p]
  BY DEF Raw, Scheduler
<1>2. UserActionQueue \in QueueType
  BY DEF UserActionQueue, QueueType
<1>3. Letters(u) = (IF q = UserActionQueue THEN Msgs(l) ELSE Letters(s))
  BY <1>1, <1>2 DEF Letters
<1>4. \A p \in QueueType \ {UserActionQueue} : \A t \in Elements(u.queue[p]) : ~IsFetch(t)
  BY <1>1 DEF LettersSound
<1>5. Apart(u.queue[UserActionQueue])
  BY <1>1, <1>2 DEF LettersSound
<1>6. ReplayQueued(u) <=>
        \/ \E t \in Elements(l) : IsReplay(t)
        \/ \E p \in QueueType \ {q} : \E t \in Elements(s.queue[p]) : IsReplay(t)
  BY <1>1 DEF ReplayQueued
<1> QED  BY <1>3, <1>4, <1>5, <1>6 DEF LettersSound

\* Where item requests are.
LEMMA QueueFields ==
  ASSUME NEW s, Raw(s), LettersSound(s), NEW q \in QueueType
  PROVE  /\ s.queue[q] \in Seq(Task) /\ Elements(s.queue[q]) \subseteq Task
         /\ q # UserActionQueue => \A t \in Elements(s.queue[q]) : ~IsFetch(t) /\ t.msgs = {}
         /\ q = UserActionQueue => Apart(s.queue[q]) /\ Msgs(s.queue[q]) = Letters(s)
         /\ s.current \in Task \cup {NoTask}
         /\ UserActionQueue \in QueueType
<1>1. s.queue[q] \in Seq(Task) /\ s.current \in Task \cup {NoTask}
  BY DEF Raw, Scheduler
<1>2. Elements(s.queue[q]) \subseteq Task
  BY <1>1, ListFields
<1>3. q # UserActionQueue => \A t \in Elements(s.queue[q]) : ~IsFetch(t) /\ t.msgs = {}
  BY <1>2, TaskFields DEF LettersSound
<1> QED  BY <1>1, <1>2, <1>3 DEF LettersSound, Letters, UserActionQueue, QueueType

\* u is s with another task t in a queue.
Enlarged(s, t, u) ==
  /\ Good(u) /\ u.current = s.current /\ Unanswered(u) = Unanswered(s) \cup t.msgs
  /\ ReplayQueued(u) <=> ReplayQueued(s) \/ IsReplay(t)

\* Adding a task at either end of a queue.
LEMMA EnqueueLetters ==
  ASSUME NEW s, Raw(s), LettersSound(s), NEW q \in QueueType, NEW t \in Task,
         IsFetch(t) => q = UserActionQueue, t.msgs \cap Unanswered(s) = {},
         NEW l, l = Append(s.queue[q], t) \/ l = Prepend(s.queue[q], t)
  PROVE  Enlarged(s, t, scheduleNext([s EXCEPT !.queue[q] = l]))
<1> DEFINE v == [s EXCEPT !.queue[q] = l]
<1>1. s.queue[q] \in Seq(Task)
  BY QueueFields
<1>2. l \in Seq(Task) /\ Elements(l) = Elements(s.queue[q]) \cup {t}
  <2>1. CASE l = Append(s.queue[q], t)
    BY <1>1, <2>1, AppendElements
  <2>2. CASE l = Prepend(s.queue[q], t)
    <3>1. PICK k \in Seq(Task) : k = s.queue[q]
      BY <1>1
    <3>2. Prepend(k, t) \in Seq(Task) /\ Elements(Prepend(k, t)) = Elements(k) \cup {t}
      BY PrependElements
    <3> QED  BY <2>2, <3>1, <3>2
  <2> QED  BY <2>1, <2>2
<1>3. q = UserActionQueue => Apart(l) /\ Msgs(l) = Letters(s) \cup t.msgs
  <2> SUFFICES ASSUME q = UserActionQueue
               PROVE  Apart(l) /\ Msgs(l) = Letters(s) \cup t.msgs
    OBVIOUS
  <2>1. /\ Apart(s.queue[q]) /\ Msgs(s.queue[q]) = Letters(s)
        /\ t.msgs \cap Msgs(s.queue[q]) = {}
    BY QueueFields DEF Unanswered
  <2>2. PICK k \in Seq(Task) : k = s.queue[q]
    BY <1>1
  <2>3. Apart(k) /\ t.msgs \cap Msgs(k) = {} /\ (l = Append(k, t) \/ l = Prepend(k, t))
    BY <2>1, <2>2
  <2>4. Apart(l) /\ Msgs(l) = Msgs(k) \cup t.msgs
    <3>1. CASE l = Append(k, t)
      BY <2>3, <3>1, AppendApart
    <3>2. CASE l = Prepend(k, t)
      BY <2>3, <3>2, PrependApart
    <3> QED  BY <2>3, <3>1, <3>2
  <2> QED  BY <2>1, <2>2, <2>4
<1>4. q # UserActionQueue => t.msgs = {} /\ \A e \in Elements(l) : ~IsFetch(e)
  BY <1>2, QueueFields, TaskFields
<1>5. Raw(v)
  BY <1>2, PutIntoQueue
<1>6. v.queue = [s.queue EXCEPT ![q] = l] /\ v.current = s.current /\ v.from = s.from
  BY DEF Raw, Scheduler
<1> HIDE DEF v
<1>7. s.current.msgs \cap (IF q = UserActionQueue THEN Msgs(l) ELSE Letters(s)) = {}
  BY <1>3 DEF LettersSound, Unanswered
<1>8. /\ LettersSound(v)
      /\ Letters(v) = (IF q = UserActionQueue THEN Msgs(l) ELSE Letters(s))
      /\ ReplayQueued(v) <=>
           \/ \E e \in Elements(l) : IsReplay(e)
           \/ \E p \in QueueType \ {q} : \E e \in Elements(s.queue[p]) : IsReplay(e)
  <2>1. IsFetch(v.current) => v.from = UserActionQueue
    BY <1>6 DEF LettersSound
  <2>2. v.current.msgs \cap (IF q = UserActionQueue THEN Msgs(l) ELSE Letters(s)) = {}
    BY <1>6, <1>7
  <2>3. PICK k \in Seq(Task) : k = l
    BY <1>2
  <2> QED  BY <1>2, <1>3, <1>4, <1>6, <2>1, <2>2, <2>3, LettersReplaced
<1>9. Letters(v) = Letters(s) \cup t.msgs
  BY <1>3, <1>4, <1>8
<1>10. ReplayQueued(v) <=> ReplayQueued(s) \/ IsReplay(t)
  BY <1>2, <1>8 DEF ReplayQueued
<1> QED  BY <1>5, <1>6, <1>8, <1>9, <1>10, ScheduleNextSame, ScheduleNextWakes
         DEF v, Unanswered, Enlarged, Good

\* What follows from a call that only adds tasks: the running one stays, and no
\* message and no replay is lost.
Adds(s, u) ==
  /\ Good(u) /\ u.current = s.current /\ Unanswered(u) = Unanswered(s)
  /\ ReplayQueued(s) => ReplayQueued(u)

LEMMA AddsTransitive ==
  ASSUME NEW s, NEW u, NEW v, Adds(s, u), Adds(u, v)
  PROVE  Adds(s, v)
BY DEF Adds

LEMMA EnqueueAdds ==
  ASSUME NEW s, Good(s), NEW q \in QueueType, NEW t \in Task, ~IsFetch(t),
         NEW u, u = Enqueue(s, q, t) \/ u = scheduleNext([s EXCEPT !.queue[q] = Prepend(@, t)])
  PROVE  /\ Adds(s, u)
         /\ IsReplay(t) => ReplayQueued(u)
<1>1. Raw(s) /\ LettersSound(s) /\ t.msgs = {}
  BY TaskFields DEF Good, Sound, Raw
<1>2. PICK l : /\ l = Append(s.queue[q], t) \/ l = Prepend(s.queue[q], t)
               /\ u = scheduleNext([s EXCEPT !.queue[q] = l])
  <2>1. \/ u = scheduleNext([s EXCEPT !.queue[q] = Append(s.queue[q], t)])
        \/ u = scheduleNext([s EXCEPT !.queue[q] = Prepend(s.queue[q], t)])
    BY <1>1 DEF Enqueue, Raw, Scheduler
  <2> QED  BY <2>1
<1>3. /\ IsFetch(t) => q = UserActionQueue
      /\ t.msgs \cap Unanswered(s) = {}
  BY <1>1
<1>4. Enlarged(s, t, scheduleNext([s EXCEPT !.queue[q] = l]))
  BY <1>1, <1>2, <1>3, EnqueueLetters
<1> QED  BY <1>1, <1>2, <1>4 DEF Adds, Enlarged

LEMMA ContainsReplay ==
  ASSUME NEW s, NEW q \in QueueType, NEW t, Contains(s.queue[q], t), IsReplay(t)
  PROVE  ReplayQueued(s)
BY DEF Contains, SameTask, IsReplay, ReplayQueued, Elements

LEMMA ScheduleAdds ==
  ASSUME NEW s, Good(s), NEW t \in Task, ~IsFetch(t)
  PROVE  /\ Adds(s, Schedule(s, t))
         /\ IsReplay(t) => Planned(Schedule(s, t))
<1> DEFINE q == queueTypeForTaskType(t.type)
<1>1. q \in QueueType
  BY QueueOfType
<1>2. CASE Contains(s.queue[q], t) \/ SameTask(s.current, t)
  <2>1. Schedule(s, t) = s
    BY <1>2 DEF Schedule
  <2>2. IsReplay(t) => Planned(s)
    BY <1>1, <1>2, ContainsReplay DEF SameTask, IsReplay, Planned
  <2> QED  BY <2>1, <2>2 DEF Adds
<1>3. CASE ~(Contains(s.queue[q], t) \/ SameTask(s.current, t))
  <2>1. Schedule(s, t) = Enqueue(s, q, t)
    BY <1>3 DEF Schedule
  <2> QED  BY <1>1, <2>1, EnqueueAdds DEF Planned
<1> QED  BY <1>2, <1>3

LEMMA ReplayIsAdded ==
  ASSUME NEW s, Good(s)
  PROVE  Adds(s, scheduleChangeReplay(s)) /\ ReplayQueued(scheduleChangeReplay(s))
<1> DEFINE t == MkTask("ChangeReplay", NoArg)
<1>1. t \in Task /\ ChangeReplayQueue \in QueueType /\ ~IsFetch(t) /\ IsReplay(t)
  BY DEF MkTask, Task, PlainType, ChangeReplayQueue, QueueType, IsFetch, IsReplay
<1> HIDE DEF t
<1>2. CASE Contains(s.queue[ChangeReplayQueue], t)
  <2>1. scheduleChangeReplay(s) = s
    BY <1>2 DEF scheduleChangeReplay, t
  <2> QED  BY <1>1, <1>2, <2>1, ContainsReplay DEF Adds
<1>3. CASE ~Contains(s.queue[ChangeReplayQueue], t)
  <2>1. scheduleChangeReplay(s) = Enqueue(s, ChangeReplayQueue, t)
    BY <1>3 DEF scheduleChangeReplay, t
  <2> QED  BY <1>1, <2>1, EnqueueAdds
<1> QED  BY <1>2, <1>3

LEMMA CompletionAdds ==
  ASSUME NEW s, Good(s), NEW type \in {"SyncAllDone", "SyncCollectionTreeDone"}
  PROVE  Adds(s, scheduleCompletion(s, type))
<1>1. /\ MkTask(type, NoArg) \in Task /\ GenericTaskQueue \in QueueType
      /\ ~IsFetch(MkTask(type, NoArg))
  BY DEF MkTask, Task, PlainType, GenericTaskQueue, QueueType, IsFetch
<1> QED  BY <1>1, EnqueueAdds DEF scheduleCompletion

LEMMA CustomAdds ==
  ASSUME NEW s, Good(s), NEW m \in Methods
  PROVE  Adds(s, scheduleCustomTask(s, m, "AfterChangeReplay"))
<1> DEFINE t == MkTask("Custom", m)
           q == CustomQueue("AfterChangeReplay")
<1>1. t \in Task /\ ~IsFetch(t)
  BY DEF MkTask, Task, IsFetch
<1>2. q \in QueueType
  BY DEF CustomQueue, QueueType, AfterChangeReplayQueue
<1> HIDE DEF t, q
<1>3. CASE Contains(s.queue[q], t)
  BY <1>3 DEF scheduleCustomTask, Adds, t, q
<1>4. CASE ~Contains(s.queue[q], t)
  BY <1>1, <1>2, <1>4, EnqueueAdds DEF scheduleCustomTask, t, q
<1> QED  BY <1>3, <1>4

LEMMA RemovedAdds ==
  ASSUME NEW s, Good(s), NEW c
  PROVE  Adds(s, collectionRemoved(s, c))
<1> DEFINE q == GenericTaskQueue
           gone == {t \in Elements(s.queue[q]) : t.type = "SyncCollection" /\ t.arg = c}
           S == Elements(s.queue[q]) \ gone
           l == Keep(s.queue[q], S)
           u == [s EXCEPT !.queue[q] = l]
<1>1. q \in QueueType /\ q # UserActionQueue /\ Raw(s) /\ LettersSound(s)
  BY DEF GenericTaskQueue, UserActionQueue, QueueType, Good, Sound, Raw
<1>2. s.queue[q] \in Seq(Task) /\ \A t \in Elements(s.queue[q]) : ~IsFetch(t) /\ t.msgs = {}
  BY <1>1, QueueFields
<1>3. l \in Seq(Task) /\ Elements(l) = Elements(s.queue[q]) \cap S
  <2> HIDE DEF S
  <2> QED  BY <1>2, KeepType
<1>4. \A t \in Elements(s.queue[q]) : IsReplay(t) => t \in S
  BY DEF IsReplay
<1>5. u.queue = [s.queue EXCEPT ![q] = l] /\ u.current = s.current /\ u.from = s.from
  BY DEF Good, Sound, Scheduler
<1>6. u = collectionRemoved(s, c)
  BY DEF collectionRemoved
<1>7. Sound(u)
  <2>1. Sound(collectionRemoved(s, c))
    BY CollectionRemovedSound DEF Good
  <2> QED  BY <1>6, <2>1
<1> HIDE DEF u, l, q, S
<1>8. /\ s.current.msgs \cap Letters(s) = {} /\ (IsFetch(s.current) => s.from = UserActionQueue)
  BY <1>1 DEF LettersSound
<1>9. PICK k \in Seq(Task) : k = l
  BY <1>3
<1>10. /\ LettersSound(u) /\ Letters(u) = Letters(s)
       /\ ReplayQueued(u) <=>
            \/ \E t \in Elements(l) : IsReplay(t)
            \/ \E p \in QueueType \ {q} : \E t \in Elements(s.queue[p]) : IsReplay(t)
  <2>1. u.queue = [s.queue EXCEPT ![q] = k]
    BY <1>5, <1>9
  <2>2. /\ q # UserActionQueue => \A t \in Elements(k) : ~IsFetch(t)
        /\ q = UserActionQueue => Apart(k)
        /\ IsFetch(u.current) => u.from = UserActionQueue
        /\ u.current.msgs \cap (IF q = UserActionQueue THEN Msgs(k) ELSE Letters(s)) = {}
    BY <1>1, <1>2, <1>3, <1>5, <1>8, <1>9
  <2>3. /\ LettersSound(u)
        /\ Letters(u) = (IF q = UserActionQueue THEN Msgs(k) ELSE Letters(s))
        /\ ReplayQueued(u) <=>
             \/ \E t \in Elements(k) : IsReplay(t)
             \/ \E p \in QueueType \ {q} : \E t \in Elements(s.queue[p]) : IsReplay(t)
    BY <1>1, <2>1, <2>2, LettersReplaced
  <2> QED  BY <1>1, <1>9, <2>3
<1>11. ReplayQueued(s) => ReplayQueued(u)
  BY <1>3, <1>4, <1>10 DEF ReplayQueued
<1> QED  BY <1>5, <1>6, <1>7, <1>10, <1>11 DEF Adds, Good, Unanswered

\* A task that ends takes its messages with it.
LEMMA DoneLetters ==
  ASSUME NEW s, Good(s)
  PROVE  /\ Good(taskDone(s)) /\ taskDone(s).current = NoTask
         /\ Unanswered(taskDone(s)) = Letters(s)
         /\ ReplayQueued(taskDone(s)) <=> ReplayQueued(s)
<1> DEFINE v == [s EXCEPT !.current = NoTask, !.from = -1]
<1>1. Raw(v)
  BY DEF Good, Sound, Raw, Scheduler, KnowsQueue
<1>2. v.queue = s.queue /\ v.current = NoTask
  BY DEF Good, Sound, Scheduler
<1>3. taskDone(s) = scheduleNext(v)
  BY DEF taskDone
<1>4. Sound(taskDone(s))
  BY TaskDoneSound DEF Good
<1> HIDE DEF v
<1>5. LettersSound(v) /\ Letters(v) = Letters(s) /\ Unanswered(v) = Letters(s)
  BY <1>2, NoTaskFields DEF LettersSound, Letters, Unanswered, Good
<1>6. ReplayQueued(v) <=> ReplayQueued(s)
  BY <1>2 DEF ReplayQueued
<1> QED  BY <1>1, <1>2, <1>3, <1>4, <1>5, <1>6, ScheduleNextSame DEF Good

\* The running task goes back to a queue.
LEMMA PutBackLetters ==
  ASSUME NEW s, Raw(s), LettersSound(s), s.current # NoTask,
         NEW q \in QueueType, IsFetch(s.current) => q = UserActionQueue,
         NEW u, u.queue = [s.queue EXCEPT ![q] = Prepend(s.queue[q], s.current)],
         u.current = NoTask
  PROVE  /\ LettersSound(u) /\ Letters(u) = Unanswered(s)
         /\ ReplayQueued(u) <=> Planned(s)
<1> DEFINE l == Prepend(s.queue[q], s.current)
<1>1. s.queue[q] \in Seq(Task) /\ s.current \in Task
  BY QueueFields
<1>2. l \in Seq(Task) /\ Elements(l) = Elements(s.queue[q]) \cup {s.current}
  BY <1>1, PrependElements
<1>3. q = UserActionQueue => Apart(l) /\ Msgs(l) = Unanswered(s)
  <2> SUFFICES ASSUME q = UserActionQueue PROVE Apart(l) /\ Msgs(l) = Unanswered(s)
    OBVIOUS
  <2>1. /\ Apart(s.queue[q]) /\ Msgs(s.queue[q]) = Letters(s)
        /\ s.current.msgs \cap Msgs(s.queue[q]) = {}
    BY QueueFields DEF LettersSound
  <2>2. Apart(l) /\ Msgs(l) = Msgs(s.queue[q]) \cup s.current.msgs
    BY <1>1, <2>1, PrependApart
  <2> QED  BY <2>1, <2>2 DEF Unanswered
<1>4. q # UserActionQueue =>
        s.current.msgs = {} /\ \A e \in Elements(l) : ~IsFetch(e)
  BY <1>1, <1>2, QueueFields, TaskFields
<1> HIDE DEF l
<1>5. PICK k \in Seq(Task) : k = l
  BY <1>2
<1>6. /\ u.queue = [s.queue EXCEPT ![q] = k]
      /\ q # UserActionQueue => \A t \in Elements(k) : ~IsFetch(t)
      /\ q = UserActionQueue => Apart(k)
      /\ IsFetch(u.current) => u.from = UserActionQueue
      /\ u.current.msgs \cap (IF q = UserActionQueue THEN Msgs(k) ELSE Letters(s)) = {}
  BY <1>3, <1>4, <1>5, NoTaskFields DEF l
<1>7. /\ LettersSound(u)
      /\ Letters(u) = (IF q = UserActionQueue THEN Msgs(k) ELSE Letters(s))
      /\ ReplayQueued(u) <=>
           \/ \E t \in Elements(k) : IsReplay(t)
           \/ \E p \in QueueType \ {q} : \E t \in Elements(s.queue[p]) : IsReplay(t)
  BY <1>6, LettersReplaced
<1>8. Letters(u) = Unanswered(s)
  BY <1>3, <1>4, <1>5, <1>7 DEF Unanswered
<1>9. ReplayQueued(u) <=> Planned(s)
  BY <1>2, <1>5, <1>7 DEF ReplayQueued, Planned
<1> QED  BY <1>7, <1>8, <1>9

\* A deferred task keeps its messages.
LEMMA DeferLetters ==
  ASSUME NEW s, Good(s)
  PROVE  /\ Good(deferTask(s)) /\ deferTask(s).current = NoTask
         /\ Unanswered(deferTask(s)) = Unanswered(s)
         /\ Planned(s) => ReplayQueued(deferTask(s))
<1>1. CASE s.current = NoTask
  BY <1>1, NoTaskFields DEF deferTask, Planned
<1>2. CASE s.current # NoTask
  <2> DEFINE v == [s EXCEPT !.queue[s.from] = Prepend(@, s.current),
                            !.current = NoTask, !.from = -1]
  <2>1. s.from \in QueueType /\ s.current \in Task /\ Raw(s) /\ LettersSound(s)
    BY <1>2 DEF Good, Sound, Raw, Scheduler, KnowsQueue
  <2>2. Prepend(s.queue[s.from], s.current) \in Seq(Task)
    BY <2>1 DEF Prepend, Raw, Scheduler
  <2>3. Raw(v)
    BY <2>1, <2>2 DEF Raw, Scheduler, KnowsQueue
  <2>4. /\ v.queue = [s.queue EXCEPT ![s.from] = Prepend(s.queue[s.from], s.current)]
        /\ v.current = NoTask
    BY <2>1 DEF Raw, Scheduler
  <2>5. deferTask(s) = scheduleNext(v)
    BY <1>2 DEF deferTask
  <2> HIDE DEF v
  <2>6. /\ LettersSound(v) /\ Letters(v) = Unanswered(s)
        /\ ReplayQueued(v) <=> Planned(s)
    <3>1. IsFetch(s.current) => s.from = UserActionQueue
      BY <2>1 DEF LettersSound
    <3>2. PICK q \in QueueType : q = s.from
      BY <2>1
    <3>3. v.queue = [s.queue EXCEPT ![q] = Prepend(s.queue[q], s.current)]
      BY <2>4, <3>2
    <3> QED  BY <1>2, <2>1, <2>4, <3>1, <3>2, <3>3, PutBackLetters
  <2>7. Unanswered(v) = Unanswered(s)
    BY <2>4, <2>6, NoTaskFields DEF Unanswered
  <2>8. Sound(deferTask(s))
    BY DeferTaskSound DEF Good
  <2> QED  BY <2>3, <2>4, <2>5, <2>6, <2>7, <2>8, ScheduleNextSame DEF Good
<1> QED  BY <1>1, <1>2

\* The first task of queue q becomes the running one.
StartedFrom(s, q, u) ==
  /\ u.queue = [s.queue EXCEPT ![q] = Tail(s.queue[q])]
  /\ u.current = Head(s.queue[q]) /\ u.from = q

LEMMA StartedLetters ==
  ASSUME NEW s, Raw(s), LettersSound(s), s.current = NoTask,
         NEW q \in QueueType, s.queue[q] # <<>>, NEW u, StartedFrom(s, q, u)
  PROVE  /\ LettersSound(u) /\ Unanswered(u) = Unanswered(s)
         /\ Planned(s) => Planned(u)
         /\ u.current \in Task
<1>1. PICK l \in Seq(Task) : l = s.queue[q]
  BY QueueFields
<1>2. /\ u.queue = [s.queue EXCEPT ![q] = Tail(l)] /\ u.current = Head(l) /\ u.from = q
      /\ l # <<>>
  BY <1>1 DEF StartedFrom
<1>3. /\ l # <<>> /\ Head(l) \in Task /\ Tail(l) \in Seq(Task)
      /\ Elements(l) = Elements(Tail(l)) \cup {Head(l)}
  BY <1>2, TailElements
<1>4. q # UserActionQueue =>
        \A t \in Elements(l) : ~IsFetch(t) /\ t.msgs = {}
  BY <1>1, QueueFields
<1>5. q = UserActionQueue =>
        /\ Apart(Tail(l)) /\ Letters(s) = Msgs(Tail(l)) \cup Head(l).msgs
        /\ Head(l).msgs \cap Msgs(Tail(l)) = {}
  <2> SUFFICES ASSUME q = UserActionQueue
               PROVE  /\ Apart(Tail(l)) /\ Letters(s) = Msgs(Tail(l)) \cup Head(l).msgs
                      /\ Head(l).msgs \cap Msgs(Tail(l)) = {}
    OBVIOUS
  <2>1. Apart(l) /\ Msgs(l) = Letters(s)
    BY <1>1, QueueFields
  <2> QED  BY <1>2, <2>1, TailApart
<1>6. PICK k \in Seq(Task) : k = Tail(l)
  BY <1>3
<1>7. /\ u.queue = [s.queue EXCEPT ![q] = k]
      /\ q # UserActionQueue => \A t \in Elements(k) : ~IsFetch(t)
      /\ q = UserActionQueue => Apart(k)
      /\ IsFetch(u.current) => u.from = UserActionQueue
      /\ u.current.msgs \cap (IF q = UserActionQueue THEN Msgs(k) ELSE Letters(s)) = {}
  <2>1. IsFetch(u.current) => q = UserActionQueue
    BY <1>2, <1>3, <1>4
  <2>2. q # UserActionQueue => u.current.msgs = {}
    BY <1>2, <1>3, <1>4
  <2> QED  BY <1>2, <1>3, <1>4, <1>5, <1>6, <2>1, <2>2
<1>8. /\ LettersSound(u)
      /\ Letters(u) = (IF q = UserActionQueue THEN Msgs(k) ELSE Letters(s))
      /\ ReplayQueued(u) <=>
           \/ \E t \in Elements(k) : IsReplay(t)
           \/ \E p \in QueueType \ {q} : \E t \in Elements(s.queue[p]) : IsReplay(t)
  BY <1>7, LettersReplaced
<1>9. Unanswered(u) = Unanswered(s)
  <2>1. s.current.msgs = {}
    BY NoTaskFields
  <2>2. CASE q = UserActionQueue
    BY <1>2, <1>5, <1>6, <1>8, <2>1, <2>2 DEF Unanswered
  <2>3. CASE q # UserActionQueue
    BY <1>2, <1>3, <1>4, <1>8, <2>1, <2>3 DEF Unanswered
  <2> QED  BY <2>2, <2>3
<1>10. Planned(s) => Planned(u)
  <2>1. ~IsReplay(s.current)
    BY NoTaskFields
  <2> QED  BY <1>1, <1>2, <1>3, <1>6, <1>8, <2>1 DEF Planned, ReplayQueued
<1> QED  BY <1>2, <1>3, <1>8, <1>9, <1>10

\* A zero timer starts a task, if it starts one, when none runs.
LEMMA NextLetters ==
  ASSUME NEW s, Good(s), s.timers > 0,
         NEW u, u = executeNext([s EXCEPT !.timers = @ - 1])
  PROVE  /\ Good(u) /\ Unanswered(u) = Unanswered(s)
         /\ Planned(s) => Planned(u)
         /\ \/ u.current = s.current
            \/ s.current = NoTask /\ u.current \in Task
<1> DEFINE v == [s EXCEPT !.timers = @ - 1]
<1>1. Raw(s) /\ LettersSound(s) /\ Sound(s)
  BY DEF Good, Sound, Raw
<1>2. v.queue = s.queue /\ v.current = s.current /\ v.from = s.from /\ Raw(v)
  BY DEF Good, Sound, Raw, Scheduler, KnowsQueue
<1>3. Sound(u)
  BY <1>1, ExecuteNextSound
<1>4. u = executeNext(v)
  OBVIOUS
<1> HIDE DEF v
<1>5. CASE v.current # NoTask \/ isEmpty(v)
  <2>1. u.queue = s.queue /\ u.current = s.current /\ u.from = s.from
    BY <1>2, <1>4, <1>5 DEF executeNext
  <2>2. /\ LettersSound(u) /\ Unanswered(u) = Unanswered(s)
        /\ ReplayQueued(u) <=> ReplayQueued(s)
    BY <1>1, <2>1, LettersOfSame
  <2> QED  BY <1>3, <2>1, <2>2 DEF Good, Planned
<1>6. CASE ~(v.current # NoTask \/ isEmpty(v))
  <2>1. PICK q : q = NextQueue(v)
    OBVIOUS
  <2>2. q \in QueueType /\ s.queue[q] # <<>> /\ s.current = NoTask
    BY <1>2, <1>6, <2>1, NextQueueExists
  <2>3. u = [v EXCEPT !.current = Head(v.queue[q]), !.from = q, !.queue[q] = Tail(@)]
    BY <1>4, <1>6, <2>1 DEF executeNext
  <2>4. StartedFrom(s, q, u)
    BY <1>2, <2>2, <2>3 DEF Raw, Scheduler, StartedFrom
  <2>5. PICK w : w = u
    OBVIOUS
  <2>6. /\ LettersSound(w) /\ Unanswered(w) = Unanswered(s)
        /\ Planned(s) => Planned(w)
        /\ w.current \in Task
    BY <1>1, <2>2, <2>4, <2>5, StartedLetters
  <2> QED  BY <1>3, <2>2, <2>5, <2>6 DEF Good
<1> QED  BY <1>5, <1>6

\* A message joins a queued task.
LEMMA JoinApart ==
  ASSUME NEW l \in Seq(Task), Apart(l), NEW i \in DOMAIN l, IsFetch(l[i]),
         NEW r \in Requests \ Msgs(l),
         NEW e \in Task, IsFetch(e), e.msgs = l[i].msgs \cup {r},
         NEW k, k = [l EXCEPT ![i] = e]
  PROVE  /\ k \in Seq(Task) /\ Apart(k) /\ Msgs(k) = Msgs(l) \cup {r}
         /\ (\E t \in Elements(l) : IsReplay(t)) => \E t \in Elements(k) : IsReplay(t)
<1>1. DOMAIN l = 1..Len(l) /\ Len(l) \in Nat
  OBVIOUS
<1>2. k \in Seq(Task) /\ Len(k) = Len(l)
  BY <1>1, ExceptSeq
<1>3. DOMAIN k = 1..Len(k)
  BY <1>2
<1>4. k[i] = e /\ \A j \in DOMAIN l : j # i => k[j] = l[j]
  OBVIOUS
<1>5. /\ k \in Seq(Task) /\ DOMAIN k = DOMAIN l
      /\ k[i] = e /\ \A j \in DOMAIN l : j # i => k[j] = l[j]
  BY <1>1, <1>2, <1>3, <1>4
<1>6. \A j \in DOMAIN l : r \notin l[j].msgs
  BY DEF Msgs, Elements
<1>7. Apart(k)
  <2> SUFFICES ASSUME NEW j \in DOMAIN l, NEW m \in DOMAIN l, j # m
               PROVE  k[j].msgs \cap k[m].msgs = {}
    BY <1>5 DEF Apart
  <2>1. l[j].msgs \cap l[m].msgs = {}
    BY DEF Apart
  <2>2. CASE j = i
    BY <1>5, <1>6, <2>1, <2>2
  <2>3. CASE m = i
    BY <1>5, <1>6, <2>1, <2>3
  <2>4. CASE j # i /\ m # i
    BY <1>5, <2>1, <2>4
  <2> QED  BY <2>2, <2>3, <2>4
<1>8. Msgs(k) = Msgs(l) \cup {r}
  <2>1. ASSUME NEW x \in Msgs(k) PROVE x \in Msgs(l) \cup {r}
    <3>1. PICK j \in DOMAIN k : x \in k[j].msgs
      BY <2>1 DEF Msgs, Elements
    <3>2. j \in DOMAIN l /\ (x \in l[j].msgs \/ x = r)
      BY <1>5, <3>1
    <3> QED  BY <3>2 DEF Msgs, Elements
  <2>2. ASSUME NEW x \in Msgs(l) PROVE x \in Msgs(k)
    <3>1. PICK j \in DOMAIN l : x \in l[j].msgs
      BY <2>2 DEF Msgs, Elements
    <3>2. x \in k[j].msgs
      BY <1>5, <3>1
    <3>3. j \in DOMAIN k
      BY <1>5
    <3> QED  BY <3>2, <3>3 DEF Msgs, Elements
  <2>3. r \in Msgs(k)
    BY <1>5 DEF Msgs, Elements
  <2> QED  BY <2>1, <2>2, <2>3
<1>9. ASSUME NEW t \in Elements(l), IsReplay(t) PROVE t \in Elements(k)
  <2>1. PICK j \in DOMAIN l : t = l[j]
    BY <1>9 DEF Elements
  <2>2. j # i
    BY <1>9, <2>1 DEF IsReplay, IsFetch
  <2> QED  BY <1>5, <2>1, <2>2 DEF Elements
<1> QED  BY <1>5, <1>7, <1>8, <1>9

\* u is s with message r at one more task, or at a new one.
Joined(s, r, u) ==
  /\ Good(u) /\ Unanswered(u) = Unanswered(s) \cup {r}
  /\ u.current.type = s.current.type /\ u.current.arg = s.current.arg
  /\ u.current = NoTask <=> s.current = NoTask
  /\ ReplayQueued(s) => ReplayQueued(u)

\* An item request, of a message that no task has, joins a task or gets one.
LEMMA FetchLetters ==
  ASSUME NEW s, Good(s), NEW f \in Fetches, NEW r \in Requests \ Unanswered(s)
  PROVE  Joined(s, r, scheduleItemFetch(s, f, r))
<1> DEFINE t == [type |-> "FetchItem", arg |-> f, msgs |-> {r}]
           l == s.queue[UserActionQueue]
           same == {u \in Elements(l) : SameTask(u, t)}
           idx == FirstIn(l, same)
           u == scheduleItemFetch(s, f, r)
<1>1. /\ Raw(s) /\ LettersSound(s) /\ l \in Seq(Task) /\ UserActionQueue \in QueueType
      /\ Apart(l) /\ Msgs(l) = Letters(s) /\ s.current \in Task \cup {NoTask}
  <2>1. Raw(s) /\ LettersSound(s) /\ UserActionQueue \in QueueType
    BY DEF Good, Sound, Raw, UserActionQueue, QueueType
  <2> QED  BY <2>1, QueueFields
<1>2. t \in Task /\ t.msgs = {r} /\ IsFetch(t) /\ ~IsReplay(t)
  BY DEF Task, IsFetch, IsReplay
<1>3. Sound(u)
  BY ScheduleItemFetchSound DEF Good
<1>4. CASE SameTask(s.current, t)
  <2>1. s.current \in [type : {"FetchItem"}, arg : Fetches, msgs : SUBSET Requests]
    <3>1. s.current.type = "FetchItem"
      BY <1>4 DEF SameTask
    <3> QED  BY <1>1, <3>1 DEF Task, NoTask, PlainType, CollectionType
  <2>2. u = [s EXCEPT !.current.msgs = @ \cup {r}]
    BY <1>4 DEF scheduleItemFetch
  <2>3. /\ u.queue = s.queue /\ u.from = s.from
        /\ u.current.msgs = s.current.msgs \cup {r}
        /\ u.current.type = "FetchItem" /\ s.current.type = "FetchItem"
        /\ u.current.arg = s.current.arg
    BY <1>1, <2>1, <2>2 DEF Raw, Scheduler
  <2> HIDE DEF u
  <2>4. Letters(u) = Letters(s) /\ (ReplayQueued(u) <=> ReplayQueued(s))
    BY <2>3 DEF Letters, ReplayQueued
  <2>5. LettersSound(u)
    BY <1>1, <2>3, <2>4 DEF LettersSound, IsFetch, Unanswered
  <2>6. u.current # NoTask /\ s.current # NoTask
    BY <2>3 DEF NoTask
  <2> QED  BY <1>3, <2>3, <2>4, <2>5, <2>6 DEF Joined, Good, Unanswered, u
<1>5. CASE ~SameTask(s.current, t) /\ idx # 0
  <2>1. idx \in DOMAIN l /\ l[idx] \in same
    <3>1. PICK i \in DOMAIN l : l[i] \in same
      BY <1>5 DEF FirstIn
    <3>2. \E j \in DOMAIN l :
            l[j] \in same /\ \A k \in DOMAIN l : l[k] \in same => j <= k
      <4> HIDE DEF same, l
      <4>1. DOMAIN l = 1..Len(l) /\ Len(l) \in Nat
        BY <1>1
      <4> QED  BY <3>1, <4>1, SmallestIndex
    <3>3. \E j \in DOMAIN l : l[j] \in same
      BY <3>1
    <3> HIDE DEF same, l
    <3> QED  BY <3>2, <3>3 DEF FirstIn
  <2>2. IsFetch(l[idx])
    BY <2>1 DEF SameTask, IsFetch
  <2>3. u = [s EXCEPT !.queue[UserActionQueue][idx].msgs = @ \cup {r}]
    BY <1>5 DEF scheduleItemFetch
  <2>4. PICK i : i = idx
    OBVIOUS
  <2>5. i \in DOMAIN l /\ IsFetch(l[i])
    BY <2>1, <2>2, <2>4
  <2> DEFINE e == [l[i] EXCEPT !.msgs = l[i].msgs \cup {r}]
             k == [l EXCEPT ![i] = e]
  <2>6. /\ u.queue = [s.queue EXCEPT ![UserActionQueue] = k]
        /\ u.current = s.current /\ u.from = s.from
    <3> HIDE DEF idx, u
    <3> QED  BY <1>1, <2>3, <2>4, <2>5 DEF Raw, Scheduler
  <2> HIDE DEF l, u, idx, same
  <2>20. e \in Task /\ IsFetch(e) /\ e.msgs = l[i].msgs \cup {r}
    <3>1. l[i] \in Task /\ l[i].type = "FetchItem"
      BY <1>1, <2>5 DEF IsFetch
    <3>2. l[i] \in [type : {"FetchItem"}, arg : Fetches, msgs : SUBSET Requests]
      BY <3>1 DEF Task, PlainType, CollectionType
    <3>3. e \in [type : {"FetchItem"}, arg : Fetches, msgs : SUBSET Requests]
      BY <3>2
    <3> QED  BY <3>2, <3>3 DEF Task, IsFetch
  <2> HIDE DEF e
  <2>7. r \notin Msgs(l)
    BY <1>1 DEF Unanswered
  <2>8. /\ k \in Seq(Task) /\ Apart(k) /\ Msgs(k) = Msgs(l) \cup {r}
        /\ (\E x \in Elements(l) : IsReplay(x)) => \E x \in Elements(k) : IsReplay(x)
    BY <1>1, <2>5, <2>7, <2>20, JoinApart
  <2> HIDE DEF k
  <2>9. PICK m \in Seq(Task) : m = k
    BY <2>8
  <2>10. /\ u.queue = [s.queue EXCEPT ![UserActionQueue] = m]
         /\ Apart(m)
         /\ IsFetch(u.current) => u.from = UserActionQueue
         /\ u.current.msgs \cap Msgs(m) = {}
    BY <1>1, <2>6, <2>8, <2>9 DEF LettersSound, Unanswered
  <2>11. PICK q \in QueueType : q = UserActionQueue
    BY <1>1
  <2>12. /\ u.queue = [s.queue EXCEPT ![q] = m]
         /\ q # UserActionQueue => \A x \in Elements(m) : ~IsFetch(x)
         /\ q = UserActionQueue => Apart(m)
         /\ u.current.msgs \cap (IF q = UserActionQueue THEN Msgs(m) ELSE Letters(s)) = {}
    BY <2>10, <2>11
  <2>13. /\ LettersSound(u)
         /\ Letters(u) = (IF q = UserActionQueue THEN Msgs(m) ELSE Letters(s))
         /\ ReplayQueued(u) <=>
              \/ \E x \in Elements(m) : IsReplay(x)
              \/ \E p \in QueueType \ {q} : \E x \in Elements(s.queue[p]) : IsReplay(x)
    BY <1>1, <2>10, <2>12, LettersReplaced
  <2>14. Letters(u) = Letters(s) \cup {r}
    BY <1>1, <2>8, <2>9, <2>11, <2>13
  <2>15. ReplayQueued(s) => ReplayQueued(u)
    <3>1. l = s.queue[q]
      BY <2>11 DEF l
    <3> QED  BY <2>8, <2>9, <2>13, <3>1 DEF ReplayQueued
  <2>16. u.current = s.current
    BY <2>6
  <2>17. Unanswered(u) = Unanswered(s) \cup {r}
    BY <2>14, <2>16 DEF Unanswered
  <2>18. Good(u)
    BY <1>3, <2>13 DEF Good, u
  <2> QED  BY <2>15, <2>16, <2>17, <2>18 DEF Joined, u
<1>6. CASE ~SameTask(s.current, t) /\ idx = 0
  <2>1. u = Enqueue(s, UserActionQueue, t)
    BY <1>6 DEF scheduleItemFetch
  <2>2. Enqueue(s, UserActionQueue, t)
          = scheduleNext([s EXCEPT !.queue[UserActionQueue] = Append(l, t)])
    BY <1>1 DEF Enqueue, Raw, Scheduler
  <2> HIDE DEF t
  <2>3. Enlarged(s, t, scheduleNext([s EXCEPT !.queue[UserActionQueue] = Append(l, t)]))
    BY <1>1, <1>2, EnqueueLetters
  <2> HIDE DEF u
  <2>4. Enlarged(s, t, u)
    BY <2>1, <2>2, <2>3
  <2> QED  BY <1>2, <2>4 DEF Joined, Enlarged, u, t
<1> QED  BY <1>4, <1>5, <1>6

\* Going offline answers all messages, and keeps what replays changes.
LEMMA OfflineLetters ==
  ASSUME NEW s, Good(s)
  PROVE  /\ Good(GoOffline(s)) /\ GoOffline(s).current = NoTask
         /\ Unanswered(GoOffline(s)) = {} /\ CanceledBy(s) = Unanswered(s)
         /\ Planned(s) => ReplayQueued(GoOffline(s))
<1> DEFINE o == [s EXCEPT !.online = FALSE]
           a == AbortRunning(o)
           kept == Elements(a.queue[UserActionQueue]) \ Fetching(a)
           l == Keep(a.queue[UserActionQueue], kept)
           u == [a EXCEPT !.queue[UserActionQueue] = l]
<1>1. Raw(s) /\ LettersSound(s) /\ UserActionQueue \in QueueType
  BY DEF Good, Sound, Raw, UserActionQueue, QueueType
<1>2. /\ Raw(o) /\ o.queue = s.queue /\ o.current = s.current /\ o.from = s.from
  BY DEF Good, Sound, Raw, Scheduler, KnowsQueue
<1>3. ASSUME NEW x, Raw(x), x.queue = s.queue, x.current = s.current, x.from = s.from
      PROVE  /\ AbortRunning(x).queue \in [QueueType -> Seq(Task)]
             /\ AbortRunning(x) \in Scheduler
             /\ AbortRunning(x).current = NoTask
             /\ LettersSound(AbortRunning(x)) /\ Letters(AbortRunning(x)) = Unanswered(s)
             /\ ReplayQueued(AbortRunning(x)) <=> Planned(s)
  <2>1. LettersSound(x) /\ Unanswered(x) = Unanswered(s) /\ (Planned(x) <=> Planned(s))
    <3>1. /\ LettersSound(x) <=> LettersSound(s)
          /\ Unanswered(x) = Unanswered(s)
          /\ ReplayQueued(x) <=> ReplayQueued(s)
      BY <1>3, LettersOfSame
    <3> QED  BY <1>1, <1>3, <3>1 DEF Planned
  <2>2. CASE x.current = NoTask
    <3>1. AbortRunning(x) = x /\ Unanswered(x) = Letters(x)
      BY <2>2, NoTaskFields DEF AbortRunning, Unanswered
    <3>2. ReplayQueued(x) <=> Planned(x)
      BY <2>2, NoTaskFields DEF Planned
    <3> QED  BY <1>3, <2>1, <2>2, <3>1, <3>2 DEF Raw, Scheduler
  <2>3. CASE x.current # NoTask
    <3> DEFINE p == queueTypeForTaskType(x.current.type)
               v == [x EXCEPT !.queue[p] = Prepend(@, x.current),
                              !.current = NoTask, !.from = -1]
    <3>1. p \in QueueType /\ x.current \in Task
      BY <1>3, <2>3, QueueOfType DEF Raw, Scheduler
    <3>2. IsFetch(x.current) => p = UserActionQueue
      BY DEF IsFetch, queueTypeForTaskType
    <3>3. PICK q \in QueueType : q = p
      BY <3>1
    <3> HIDE DEF p
    <3>4. Prepend(x.queue[q], x.current) \in Seq(Task)
      BY <1>3, <3>1, PrependElements DEF Raw, Scheduler
    <3>5. /\ v \in Scheduler /\ v.current = NoTask
          /\ v.queue = [x.queue EXCEPT ![q] = Prepend(x.queue[q], x.current)]
      BY <1>3, <3>3, <3>4 DEF Raw, Scheduler
    <3>6. v = AbortRunning(x)
      BY <2>3 DEF AbortRunning, p
    <3> HIDE DEF v
    <3>7. /\ LettersSound(v) /\ Letters(v) = Unanswered(x)
          /\ ReplayQueued(v) <=> Planned(x)
      BY <1>3, <2>1, <2>3, <3>2, <3>3, <3>5, PutBackLetters
    <3>8. v.queue \in [QueueType -> Seq(Task)]
      BY <3>5 DEF Scheduler
    <3> QED  BY <2>1, <3>5, <3>6, <3>7, <3>8
  <2> QED  BY <2>2, <2>3
<1> HIDE DEF o
<1>4. /\ a \in Scheduler /\ a.current = NoTask
      /\ LettersSound(a) /\ Letters(a) = Unanswered(s)
      /\ ReplayQueued(a) <=> Planned(s)
  BY <1>2, <1>3
<1>5. CanceledBy(s) = Unanswered(s)
  <2>1. PICK b : b = AbortRunning(s)
    OBVIOUS
  <2>2. b \in Scheduler /\ Letters(b) = Unanswered(s)
    BY <1>1, <1>3, <2>1
  <2>3. \A t \in Elements(b.queue[UserActionQueue]) : ~IsFetch(t) => t.msgs = {}
    BY <1>1, <2>2, ListFields, TaskFields DEF Scheduler
  <2>4. UNION {t.msgs : t \in Fetching(b)} = Letters(b)
    BY <2>3 DEF Fetching, Letters, Msgs
  <2> QED  BY <2>1, <2>2, <2>4 DEF CanceledBy
<1> HIDE DEF a
<1>6. u = GoOffline(s)
  <2>1. u = [a EXCEPT !.queue[UserActionQueue] = Keep(@, kept)]
    BY <1>1, <1>4 DEF Scheduler
  <2> QED  BY <2>1 DEF GoOffline, a, o
<1>7. Sound(u)
  <2>1. Sound(GoOffline(s))
    BY GoOfflineSound DEF Good
  <2> QED  BY <1>6, <2>1
<1>8. PICK m \in Seq(Task) : m = a.queue[UserActionQueue]
  BY <1>1, <1>4 DEF Scheduler
<1>9. /\ l \in Seq(Task) /\ Elements(l) = Elements(m) \cap kept
      /\ \A t \in Elements(m) : t \in kept <=> ~IsFetch(t)
      /\ Apart(m)
  <2>1. l = Keep(m, kept)
    BY <1>8
  <2>2. \A t \in Elements(m) : t \in kept <=> ~IsFetch(t)
    BY <1>8 DEF Fetching
  <2>3. Apart(m)
    BY <1>4, <1>8 DEF LettersSound
  <2> HIDE DEF kept, l
  <2> QED  BY <2>1, <2>2, <2>3, KeepType
<1>10. u.queue = [a.queue EXCEPT ![UserActionQueue] = l] /\ u.current = NoTask
  BY <1>4 DEF Scheduler
<1> HIDE DEF u, l, kept
<1>11. \A t \in Elements(l) : ~IsFetch(t) /\ t.msgs = {} /\ t \in Task
  BY <1>9, ListFields, TaskFields
<1>12. /\ u.queue[UserActionQueue] = l
       /\ \A q \in QueueType \ {UserActionQueue} : u.queue[q] = a.queue[q]
  BY <1>1, <1>4, <1>10 DEF Scheduler
<1>13. Msgs(l) = {}
  BY <1>11 DEF Msgs
<1>14. Apart(l)
  BY <1>9, <1>11 DEF Apart, Elements
<1>15. LettersSound(u) /\ Unanswered(u) = {}
  BY <1>4, <1>10, <1>12, <1>13, <1>14, NoTaskFields
     DEF LettersSound, Letters, Unanswered
<1>16. ReplayQueued(a) => ReplayQueued(u)
  <2> SUFFICES ASSUME NEW q \in QueueType, NEW t \in Elements(a.queue[q]), IsReplay(t)
               PROVE  t \in Elements(u.queue[q])
    BY DEF ReplayQueued
  <2>1. CASE q = UserActionQueue
    <3>1. ~IsFetch(t)
      BY DEF IsReplay, IsFetch
    <3> QED  BY <1>8, <1>9, <1>12, <2>1, <3>1
  <2>2. CASE q # UserActionQueue
    BY <1>12, <2>2
  <2> QED  BY <2>1, <2>2
<1> QED  BY <1>4, <1>5, <1>6, <1>7, <1>10, <1>15, <1>16 DEF Good

LEMMA OnlineLetters ==
  ASSUME NEW s, Good(s)
  PROVE  Adds(s, GoOnline(s))
<1> DEFINE v == [s EXCEPT !.online = TRUE]
<1>1. Raw(v) /\ v.queue = s.queue /\ v.current = s.current /\ v.from = s.from
  BY DEF Good, Sound, Raw, Scheduler, KnowsQueue
<1>2. GoOnline(s) = scheduleNext(v)
  BY DEF GoOnline
<1>3. Sound(GoOnline(s)) /\ LettersSound(s)
  BY GoOnlineSound DEF Good
<1> HIDE DEF v
<1>4. /\ LettersSound(v) <=> LettersSound(s)
      /\ Unanswered(v) = Unanswered(s)
      /\ ReplayQueued(v) <=> ReplayQueued(s)
  BY <1>1, LettersOfSame
<1> QED  BY <1>1, <1>2, <1>3, <1>4, ScheduleNextSame DEF Adds, Good

\* Cancelling the queues drops the messages of what is queued.
LEMMA CancelLetters ==
  ASSUME NEW s, Good(s)
  PROVE  /\ Good(cancelQueues(s)) /\ cancelQueues(s).current = s.current
         /\ Unanswered(cancelQueues(s)) = s.current.msgs
<1> DEFINE u == cancelQueues(s)
<1>1. u.current = s.current /\ u.from = s.from /\ u.queue = [q \in QueueType |-> <<>>]
  BY DEF cancelQueues, Good, Sound, Scheduler
<1>2. Sound(u)
  BY CancelQueuesSound DEF Good
<1> HIDE DEF u
<1>3. \A q \in QueueType : u.queue[q] = <<>> /\ Elements(u.queue[q]) = {}
  BY <1>1 DEF Elements
<1>4. UserActionQueue \in QueueType
  BY DEF UserActionQueue, QueueType
<1>5. Letters(u) = {} /\ Apart(u.queue[UserActionQueue])
  BY <1>3, <1>4 DEF Letters, Msgs, Apart
<1>6. LettersSound(u) /\ Unanswered(u) = s.current.msgs
  BY <1>1, <1>3, <1>5 DEF LettersSound, Good, Unanswered
<1> QED  BY <1>1, <1>2, <1>6 DEF Good, u

LEMMA InitialLetters ==
  /\ Good(InitialScheduler) /\ InitialScheduler.current = NoTask
  /\ Unanswered(InitialScheduler) = {}
<1> DEFINE u == InitialScheduler
<1>1. /\ u.current = NoTask /\ u.from = -1 /\ u.queue = [q \in QueueType |-> <<>>]
      /\ u.online = FALSE /\ u \in Scheduler
  <2>1. [q \in QueueType |-> <<>>] \in [QueueType -> Seq(Task)]
    OBVIOUS
  <2> QED  BY <2>1 DEF InitialScheduler, Scheduler
<1> HIDE DEF u
<1>2. \A q \in QueueType : u.queue[q] = <<>> /\ Elements(u.queue[q]) = {}
  BY <1>1 DEF Elements
<1>3. UserActionQueue \in QueueType
  BY DEF UserActionQueue, QueueType
<1>4. Letters(u) = {} /\ Apart(u.queue[UserActionQueue])
  BY <1>2, <1>3 DEF Letters, Msgs, Apart
<1>5. LettersSound(u) /\ Unanswered(u) = {}
  BY <1>1, <1>2, <1>4, NoTaskFields DEF LettersSound, Unanswered
<1>6. Sound(u)
  BY <1>1 DEF Sound, KnowsQueue, Idle
<1> QED  BY <1>1, <1>5, <1>6 DEF Good, u

-----------------------------------------------------------------------------
(* The work that is under way *)

NoneLive(W) == \A w \in W : ~w.live

LEMMA OrphansAre ==
  ASSUME NEW W, NEW mv, Placed(W, mv)
  PROVE  Placed(Orphans(W), mv) /\ NoneLive(Orphans(W))
<1>1. \A w \in W : LET o == [w EXCEPT !.live = FALSE] IN
        o \in Work /\ o.at = w.at /\ o.type = w.type /\ o.arg = w.arg /\ o.live = FALSE
  BY DEF Placed, Work
<1>2. ASSUME NEW o \in Orphans(W)
      PROVE  \E w \in W : /\ o \in Work /\ o.at = w.at /\ o.type = w.type /\ o.arg = w.arg
                          /\ o.live = FALSE
  BY <1>1 DEF Orphans
<1> QED  BY <1>2 DEF Placed, NoneLive

LEMMA IdleSound ==
  ASSUME NEW W, NEW rm, NEW mv, NoneLive(W)
  PROVE  LiveSound(NoTask, W, rm, mv)
BY DEF LiveSound, NoneLive

LEMMA IdleChanges ==
  ASSUME NEW V, NEW W, NEW r, NEW mv, NoneLive(W), ChangesSound(V, r, mv)
  PROVE  ChangesSound(W, r, mv)
BY DEF ChangesSound, NoneLive

LEMMA LessWork ==
  ASSUME NEW W, NEW mv, Placed(W, mv), NEW V \in SUBSET W
  PROVE  Placed(V, mv) /\ (NoneLive(W) => NoneLive(V))
BY DEF Placed, NoneLive

LEMMA MoreWork ==
  ASSUME NEW W, NEW mv, Placed(W, mv), NEW x \in Work, Fits(x.at, x.type),
         x.type = "RecursiveMoveReplay" =>
           x.arg \in Moves /\ mv[x.arg].is \in {"running", "deleted"}
  PROVE  Placed(W \cup {x}, mv)
BY DEF Placed

LEMMA ForgottenAre ==
  ASSUME NEW W, NEW mv, Placed(W, mv)
  PROVE  Placed(Forgotten(W), mv) /\ (NoneLive(W) => NoneLive(Forgotten(W)))
<1>1. \A w \in W : LET o == [w EXCEPT !.current = FALSE] IN
        o \in Work /\ o.at = w.at /\ o.type = w.type /\ o.arg = w.arg /\ o.live = w.live
  BY DEF Placed, Work
<1>2. ASSUME NEW o \in Forgotten(W)
      PROVE  \E w \in W : /\ o \in Work /\ o.at = w.at /\ o.type = w.type /\ o.arg = w.arg
                          /\ o.live = w.live
  BY <1>1 DEF Forgotten
<1> QED  BY <1>2 DEF Placed, NoneLive

\* The running task has its one piece of work.
LEMMA OneLive ==
  ASSUME NEW W, NEW rm, NEW mv, NEW c, NoneLive(W), c # NoTask,
         NEW x, x.live, x.type = c.type, x.arg = c.arg,
         x.type = "RecursiveMoveReplay" =>
           rm = x.arg /\ mv[x.arg].is = "running" /\ x.change = mv[x.arg].change,
         x.type = "ChangeReplay" /\ x.at # "data" => rm = NoArg
  PROVE  LiveSound(c, W \cup {x}, rm, mv)
BY DEF LiveSound, NoneLive

\* Work that is not stale, and the running task.
LEMMA Settled ==
  ASSUME NEW W, NEW rm, NEW mv, NEW c, LiveSound(c, W, rm, mv),
         NEW w \in W, w.live \/ c = NoTask
  PROVE  /\ NoneLive(W \ {w})
         /\ c = NoTask \/ (w.live /\ w.type = c.type /\ w.arg = c.arg)
         /\ w.live => c # NoTask
BY DEF LiveSound, NoneLive

\* Work that goes from one place to the next.
Alike(w, v) ==
  /\ v \in Work /\ Fits(v.at, v.type)
  /\ v.type = w.type /\ v.arg = w.arg /\ v.change = w.change /\ v.live = w.live
  /\ v.type = "ChangeReplay" /\ v.at # "data" => w.at # "data"

\* The work has changed from W to V, but not what there is to say of it.
Follows(W, V, mv) ==
  /\ Placed(V, mv)
  /\ \A c, rm : LiveSound(c, W, rm, mv) => LiveSound(c, V, rm, mv)
  /\ \A r : ChangesSound(W, r, mv) => ChangesSound(V, r, mv)

LEMMA WorkGoesOn ==
  ASSUME NEW W, NEW mv, Placed(W, mv), NEW f, NEW V, V = {f[w] : w \in W},
         \A w \in W : Alike(w, f[w])
  PROVE  Follows(W, V, mv)
<1>1. Placed(V, mv)
  BY DEF Placed, Alike
<1>2. ASSUME NEW c, NEW rm, LiveSound(c, W, rm, mv)
      PROVE  LiveSound(c, V, rm, mv)
  <2>1. c = NoTask => \A v \in V : ~v.live
    BY <1>2 DEF LiveSound, Alike
  <2>2. c # NoTask => \E v \in V : v.live /\ v.type = c.type /\ v.arg = c.arg
    BY <1>2 DEF LiveSound, Alike
  <2>3. ASSUME NEW v \in V, NEW x \in V, v.live, x.live PROVE v = x
    <3>1. PICK w \in W, y \in W : v = f[w] /\ x = f[y]
      OBVIOUS
    <3>2. w.live /\ y.live
      BY <2>3, <3>1 DEF Alike
    <3>3. w = y
      BY <1>2, <3>2 DEF LiveSound
    <3> QED  BY <3>1, <3>3
  <2>4. ASSUME NEW v \in V, v.live
        PROVE  /\ v.type = "RecursiveMoveReplay" =>
                    rm = v.arg /\ mv[v.arg].is = "running" /\ v.change = mv[v.arg].change
               /\ v.type = "ChangeReplay" /\ v.at # "data" => rm = NoArg
    <3>1. PICK w \in W : v = f[w]
      OBVIOUS
    <3>2. w.live /\ Alike(w, v)
      BY <2>4, <3>1 DEF Alike
    <3> QED  BY <1>2, <3>2 DEF LiveSound, Alike
  <2> QED  BY <2>1, <2>2, <2>3, <2>4 DEF LiveSound
<1>3. ASSUME NEW r, ChangesSound(W, r, mv)
      PROVE  ChangesSound(V, r, mv)
  <2>1. ASSUME NEW v \in V, v.live, v.type = "ChangeReplay"
        PROVE  r # <<>> /\ v.change = Head(r) /\ (v.at # "data" => ~Head(r).moved)
    <3>1. PICK w \in W : v = f[w]
      OBVIOUS
    <3>2. w.live /\ w.type = "ChangeReplay" /\ Alike(w, v)
      BY <2>1, <3>1 DEF Alike
    <3> QED  BY <1>3, <2>1, <3>2 DEF ChangesSound, Alike
  <2> QED  BY <1>3, <2>1 DEF ChangesSound
<1> QED  BY <1>1, <1>2, <1>3 DEF Follows

LEMMA MovedAre ==
  ASSUME NEW W, NEW mv, Placed(W, mv), NEW w \in W, NEW at \in Place,
         Fits(at, w.type), w.type = "ChangeReplay" => w.at # "data",
         NEW x, x = [w EXCEPT !.at = at, !.current = FALSE]
  PROVE  /\ Follows(W, (W \ {w}) \cup {x}, mv)
         /\ Follows(W, Forgotten(W \ {w}) \cup {x}, mv)
<1>1. /\ x \in Work /\ x.at = at /\ x.type = w.type /\ x.arg = w.arg
      /\ x.change = w.change /\ x.live = w.live
  BY DEF Placed, Work
<1>2. Alike(w, x)
  BY <1>1 DEF Alike
<1>3. \A v \in W : Alike(v, v)
  BY DEF Placed, Alike
<1>4. \A v \in W : Alike(v, [v EXCEPT !.current = FALSE])
  <2> SUFFICES ASSUME NEW v \in W PROVE Alike(v, [v EXCEPT !.current = FALSE])
    OBVIOUS
  <2>1. v \in Work /\ Fits(v.at, v.type)
    BY DEF Placed
  <2>2. LET o == [v EXCEPT !.current = FALSE] IN
          /\ o \in Work /\ o.at = v.at /\ o.type = v.type /\ o.arg = v.arg
          /\ o.live = v.live /\ o.change = v.change
    BY <2>1 DEF Work
  <2> QED  BY <2>1, <2>2 DEF Alike
<1>5. Follows(W, (W \ {w}) \cup {x}, mv)
  <2> DEFINE f == [v \in W |-> IF v = w THEN x ELSE v]
             V == (W \ {w}) \cup {x}
  <2>1. \A v \in W : Alike(v, f[v])
    BY <1>2, <1>3
  <2>2. V = {f[v] : v \in W}
    OBVIOUS
  <2> HIDE DEF f, V
  <2>3. Follows(W, V, mv)
    BY <2>1, <2>2, WorkGoesOn
  <2> QED  BY <2>3 DEF V
<1>6. Follows(W, Forgotten(W \ {w}) \cup {x}, mv)
  <2> DEFINE f == [v \in W |-> IF v = w THEN x ELSE [v EXCEPT !.current = FALSE]]
             V == Forgotten(W \ {w}) \cup {x}
  <2>1. \A v \in W : Alike(v, f[v])
    BY <1>2, <1>4
  <2>2. V = {f[v] : v \in W}
    <3>1. \A v \in W : f[v] = IF v = w THEN x ELSE [v EXCEPT !.current = FALSE]
      OBVIOUS
    <3> HIDE DEF f
    <3>4. w \in W /\ f[w] = x
      BY <3>1
    <3>2. ASSUME NEW y \in V PROVE \E v \in W : y = f[v]
      <4>1. CASE y = x
        BY <3>4, <4>1
      <4>2. CASE y # x
        <5>1. PICK v \in W \ {w} : y = [v EXCEPT !.current = FALSE]
          BY <4>2 DEF Forgotten
        <5> QED  BY <3>1, <5>1
      <4> QED  BY <4>1, <4>2
    <3>3. ASSUME NEW v \in W PROVE f[v] \in V
      BY <3>1 DEF Forgotten
    <3> QED  BY <3>2, <3>3
  <2> HIDE DEF f, V
  <2>3. Follows(W, V, mv)
    BY <2>1, <2>2, WorkGoesOn
  <2> QED  BY <2>3 DEF V
<1> QED  BY <1>5, <1>6

\* What the resource says it added.
LEMMA AddedAre ==
  ASSUME NEW W, NEW mv, Placed(W, mv), NEW V,
         V = {IF w.at = "adding" THEN [w EXCEPT !.at = "finishing"] ELSE w : w \in W}
  PROVE  Follows(W, V, mv)
<1> DEFINE f == [w \in W |-> IF w.at = "adding" THEN [w EXCEPT !.at = "finishing"] ELSE w]
<1>1. \A w \in W : Alike(w, f[w])
  <2> SUFFICES ASSUME NEW w \in W PROVE Alike(w, f[w])
    OBVIOUS
  <2>1. w \in Work /\ Fits(w.at, w.type)
    BY DEF Placed
  <2>2. CASE w.at = "adding"
    <3>1. f[w] = [w EXCEPT !.at = "finishing"]
      BY <2>2
    <3> HIDE DEF f
    <3>2. /\ f[w] \in Work /\ f[w].at = "finishing" /\ f[w].type = w.type
          /\ f[w].arg = w.arg /\ f[w].live = w.live /\ f[w].change = w.change
      BY <2>1, <3>1 DEF Work, Place
    <3> QED  BY <2>1, <2>2, <3>2 DEF Alike, Fits
  <2>3. CASE w.at # "adding"
    BY <2>1, <2>3 DEF Alike
  <2> QED  BY <2>2, <2>3
<1>2. V = {f[w] : w \in W}
  OBVIOUS
<1> HIDE DEF f
<1> QED  BY <1>1, <1>2, WorkGoesOn

-----------------------------------------------------------------------------
(* Callers and changes *)

LEMMA CallersSame ==
  ASSUME NEW s, NEW u, NEW askers, NEW rep, NEW d, NEW e,
         CallersSound(s, askers, rep, d), Unanswered(u) = Unanswered(s), d => e
  PROVE  CallersSound(u, askers, rep, e)
BY DEF CallersSound

LEMMA NoMessages ==
  ASSUME NEW s, Good(s), ~IsFetch(s.current)
  PROVE  Unanswered(s) = Letters(s)
<1>1. s.current \in Task \cup {NoTask}
  BY DEF Good, Sound, Scheduler
<1>2. s.current.msgs = {}
  BY <1>1, TaskFields, NoTaskFields
<1> QED  BY <1>2 DEF Unanswered

LEMMA ChangeDone ==
  ASSUME NEW r \in Seq(Change), r # <<>>, NEW ans, NEW n, NoneLost(r, ans, n)
  PROVE  NoneLost(Tail(r), ans \cup {Head(r)}, n)
<1>1. Elements(r) = Elements(Tail(r)) \cup {Head(r)}
  BY TailElements
<1> QED  BY <1>1 DEF NoneLost

Kept == Base' /\ (~Astray' => Orderly')

\* changeProcessed() when there is no mover.
LEMMA ChangeEnds ==
  ASSUME NEW s, Good(s), NEW r \in Seq(Change), NEW W, NEW c, NEW mover, mover = NoArg,
         NEW mv, Placed(W, mv), ChangeProcessed(s, r, W, c, mover)
  PROVE  /\ record' \in Seq(Change) /\ answered' = answered \cup {c}
         /\ Good(sch') /\ sch'.current = NoTask /\ Unanswered(sch') = Letters(s)
         /\ Placed(work', mv) /\ NoneLive(work')
         /\ record' # <<>> => Planned(sch')
         /\ r # <<>> => record' = Tail(r)
<1>1. /\ answered' = answered \cup {c}
      /\ record' = IF r = <<>> THEN r ELSE Tail(r)
      /\ sch' = taskDone(IF record' # <<>> THEN scheduleChangeReplay(s) ELSE s)
      /\ work' = Orphans(W)
  BY DEF ChangeProcessed
<1>2. record' \in Seq(Change) /\ (r # <<>> => record' = Tail(r))
  BY <1>1
<1>3. Placed(work', mv) /\ NoneLive(work')
  BY <1>1, OrphansAre
<1>4. PICK u : u = IF record' # <<>> THEN scheduleChangeReplay(s) ELSE s
  OBVIOUS
<1>5. Adds(s, u) /\ (record' # <<>> => ReplayQueued(u))
  BY <1>4, ReplayIsAdded DEF Adds
<1>6. Letters(u) = Letters(s)
  <2>1. Good(u) /\ u.current = s.current /\ Unanswered(u) = Unanswered(s)
    BY <1>5 DEF Adds
  <2>2. /\ u.current.msgs \cap Letters(u) = {}
        /\ s.current.msgs \cap Letters(s) = {}
    BY <2>1 DEF Good, LettersSound
  <2> QED  BY <2>1, <2>2 DEF Unanswered
<1>7. /\ Good(taskDone(u)) /\ taskDone(u).current = NoTask
      /\ Unanswered(taskDone(u)) = Letters(u)
      /\ ReplayQueued(taskDone(u)) <=> ReplayQueued(u)
  BY <1>5, DoneLetters DEF Adds
<1>8. sch' = taskDone(u)
  BY <1>1, <1>4
<1> QED  BY <1>1, <1>2, <1>3, <1>5, <1>6, <1>7, <1>8 DEF Planned

\* A change that is replayed goes to the resource or to a mover, or is over.
LEMMA EmitKeeps ==
  ASSUME Base, ~Astray, Orderly,
         NEW s, Good(s), Unanswered(s) = Unanswered(sch),
         NEW r \in Seq(Change), NEW W, Placed(W, movers), NEW live \in BOOLEAN,
         live => NoneLive(W) /\ s.current.type = "ChangeReplay", NEW c \in Change \cup {NoChange},
         NEW M \in SUBSET Mishap, live \/ "stale" \in M,
         live /\ (mishaps \cup M) \cap {"givenUp", "twice"} = {} =>
           /\ r # <<>> /\ c = Head(r)
           /\ ChangesSound(W, r, movers) /\ NoneLost(r, answered, notified),
         Emit(s, r, W, c, live, M), UNCHANGED <<asked, replies, recursiveMover, notified>>,
         faults' \in 0..MaxFaults
  PROVE  Kept
<1>1. /\ mishaps' = mishaps \cup M \cup (IF Moving(c) THEN {"twice"} ELSE {})
                       \cup (IF recursiveMover # NoArg THEN {"abandoned"} ELSE {})
      /\ asked' = asked /\ replies' = replies /\ recursiveMover' = recursiveMover
      /\ notified' = notified
  BY DEF Emit
<1>2. mishaps' \subseteq Mishap /\ mishaps \subseteq mishaps'
  BY <1>1 DEF Base, OtherTypes, Mishap
<1>3. ~Astray' => /\ recursiveMover = NoArg /\ live /\ NoneLive(W)
                  /\ s.current.type = "ChangeReplay"
  BY <1>1 DEF Astray
<1>4. ~Astray' /\ mishaps' \cap {"givenUp", "twice"} = {} =>
        /\ r # <<>> /\ c = Head(r) /\ ~Moving(c)
        /\ ChangesSound(W, r, movers) /\ NoneLost(r, answered, notified)
  BY <1>1, <1>3
<1>5. ~Astray' => /\ ~IsFetch(s.current) /\ s.current # NoTask /\ IsReplay(s.current)
                  /\ Unanswered(sch) = Letters(s)
  BY <1>3, NoMessages DEF IsFetch, NoTask, IsReplay
<1>6. ASSUME ~Astray' PROVE s.current \in Task /\ s.current.arg = NoArg
  <2>1. s.current \in Task
    BY <1>5, <1>6 DEF Good, Sound, Scheduler
  <2> QED  BY <1>3, <1>6, <2>1 DEF Task, PlainType, CollectionType
<1>7. \A u : Unanswered(u) = Unanswered(sch) =>
               CallersSound(u, asked, replies, "unanswered" \in mishaps')
  <2> SUFFICES ASSUME NEW u, Unanswered(u) = Unanswered(sch)
               PROVE  CallersSound(u, asked, replies, "unanswered" \in mishaps')
    OBVIOUS
  <2>1. CallersSound(sch, asked, replies, "unanswered" \in mishaps)
    BY DEF Orderly
  <2>2. "unanswered" \in mishaps => "unanswered" \in mishaps'
    BY <1>2
  <2> QED  BY <2>1, <2>2, CallersSame
<1>8. CASE ChangeProcessed(s, r, W, c, recursiveMover) /\ UNCHANGED movers
  <2>1. CASE recursiveMover = NoArg
    <3>1. /\ record' \in Seq(Change) /\ answered' = answered \cup {c}
          /\ Good(sch') /\ sch'.current = NoTask /\ Unanswered(sch') = Letters(s)
          /\ Placed(work', movers) /\ NoneLive(work')
          /\ record' # <<>> => Planned(sch')
          /\ r # <<>> => record' = Tail(r)
      BY <1>8, <2>1, ChangeEnds
    <3>2. Base'
      BY <1>1, <1>2, <1>8, <3>1 DEF Base, OtherTypes
    <3>3. LiveSound(sch'.current, work', recursiveMover', movers')
      BY <3>1, IdleSound
    <3>4. ASSUME ~Astray', mishaps' \cap {"givenUp", "twice"} = {}
          PROVE  /\ ChangesSound(work', record', movers')
                 /\ NoneLost(record', answered', notified')
      <4>1. NoneLost(record', answered', notified')
        <5>1. r # <<>> /\ c = Head(r) /\ NoneLost(r, answered, notified)
          BY <1>4, <3>4
        <5>2. NoneLost(Tail(r), answered \cup {Head(r)}, notified)
          BY <5>1, ChangeDone
        <5>3. record' = Tail(r) /\ answered' = answered \cup {Head(r)} /\ notified' = notified
          BY <1>1, <3>1, <5>1
        <5> QED  BY <5>2, <5>3
      <4>2. \A m \in Moves : ~InHand(m, movers)
        BY <1>4, <3>4 DEF Moving, InHand, ChangesSound
      <4>3. ChangesSound(work', record', movers')
        BY <1>8, <3>1, <4>2 DEF ChangesSound, NoneLive
      <4> QED  BY <4>1, <4>3
    <3>5. ~Astray' => CallersSound(sch', asked', replies', "unanswered" \in mishaps')
      BY <1>1, <1>2, <1>5, <1>7, <3>1
    <3> QED  BY <3>1, <3>2, <3>3, <3>4, <3>5 DEF Kept, Orderly
  <2>2. CASE recursiveMover # NoArg
    <3>1. /\ answered' = answered \cup {c} /\ sch' = s /\ record' = r
          /\ work' = {IF w.at = "adding" THEN [w EXCEPT !.at = "finishing"] ELSE w : w \in W}
      BY <1>8, <2>2 DEF ChangeProcessed
    <3>2. Placed(work', movers)
      BY <3>1, AddedAre DEF Follows
    <3>3. Base'
      BY <1>1, <1>2, <1>8, <3>1, <3>2 DEF Base, OtherTypes
    <3>4. Astray'
      BY <1>1, <2>2 DEF Astray
    <3> QED  BY <3>3, <3>4 DEF Kept
  <2> QED  BY <2>1, <2>2
<1>9. CASE /\ ~c.moved
           /\ sch' = s \/ \E removed \in Collections : sch' = collectionRemoved(s, removed)
           /\ record' = r
           /\ work' = W \cup {[Begun("resource", MkTask("ChangeReplay", NoArg), c)
                                 EXCEPT !.live = live]}
           /\ UNCHANGED <<answered, movers>>
  <2>1. Adds(s, sch')
    BY <1>9, RemovedAdds DEF Adds
  <2>2. Good(sch') /\ sch'.current = s.current /\ Unanswered(sch') = Unanswered(sch)
    BY <2>1 DEF Adds
  <2>3. PICK x : x = [Begun("resource", MkTask("ChangeReplay", NoArg), c)
                        EXCEPT !.live = live]
    OBVIOUS
  <2>4. /\ x.at = "resource" /\ x.type = "ChangeReplay" /\ x.arg = NoArg /\ x.change = c
        /\ x.live = live /\ x \in Work /\ Fits(x.at, x.type)
    <3>1. x = [at |-> "resource", type |-> "ChangeReplay", arg |-> NoArg, change |-> c,
               live |-> live, current |-> "resource" \in {"collection", "attributes"}]
      BY <2>3 DEF Begun, MkTask
    <3>2. x \in Work
      BY <3>1 DEF Work, Place, TaskType, PlainType
    <3> QED  BY <3>1, <3>2 DEF Fits
  <2>5. work' = W \cup {x} /\ Placed(work', movers)
    BY <1>9, <2>3, <2>4, MoreWork
  <2>6. Base'
    BY <1>1, <1>2, <1>9, <2>2, <2>5 DEF Base, OtherTypes
  <2>7. ASSUME ~Astray'
        PROVE  LiveSound(sch'.current, work', recursiveMover', movers')
    <3>1. x.live /\ NoneLive(W) /\ recursiveMover' = NoArg
      BY <1>1, <1>3, <2>4, <2>7
    <3> QED  BY <1>3, <1>5, <1>6, <2>2, <2>4, <2>5, <2>7, <3>1, OneLive
  <2>8. ~Astray' => Planned(sch')
    BY <1>5, <2>2 DEF Planned
  <2>9. ASSUME ~Astray', mishaps' \cap {"givenUp", "twice"} = {}
        PROVE  /\ ChangesSound(work', record', movers')
               /\ NoneLost(record', answered', notified')
    <3>1. /\ r # <<>> /\ c = Head(r) /\ ~Head(r).moved
          /\ ChangesSound(W, r, movers) /\ NoneLost(r, answered, notified)
      BY <1>4, <1>9, <2>9
    <3>2. NoneLost(record', answered', notified')
      BY <1>1, <1>9, <3>1
    <3>3. ChangesSound(W \cup {x}, r, movers)
      BY <2>4, <3>1 DEF ChangesSound
    <3> QED  BY <1>9, <2>5, <3>2, <3>3
  <2>10. CallersSound(sch', asked', replies', "unanswered" \in mishaps')
    BY <1>1, <1>2, <1>7, <2>2
  <2> QED  BY <2>6, <2>7, <2>8, <2>9, <2>10 DEF Kept, Orderly
<1>10. CASE /\ c.moved
            /\ \E m \in Moves :
                 /\ movers[m].is = "unused"
                 /\ movers' = [movers EXCEPT ![m] = [is |-> "waiting", change |-> c]]
                 /\ Move(s, W, c, m)
            /\ record' = r
            /\ UNCHANGED answered
  <2>1. PICK m \in Moves :
          /\ movers[m].is = "unused"
          /\ movers' = [movers EXCEPT ![m] = [is |-> "waiting", change |-> c]]
          /\ sch' = Schedule(taskDone(s), MkTask("RecursiveMoveReplay", m))
          /\ work' = Orphans(W)
    BY <1>10 DEF Move
  <2>2. PICK u : u = taskDone(s)
    OBVIOUS
  <2>3. /\ Good(u) /\ u.current = NoTask
        /\ ~Astray' => Unanswered(u) = Unanswered(sch)
    BY <1>5, <2>2, DoneLetters
  <2>4. PICK t : t = MkTask("RecursiveMoveReplay", m)
    OBVIOUS
  <2>5. t \in Task /\ ~IsFetch(t) /\ IsReplay(t)
    BY <2>4 DEF MkTask, Task, IsFetch, IsReplay
  <2>6. Adds(u, Schedule(u, t)) /\ Planned(Schedule(u, t))
    BY <2>3, <2>5, ScheduleAdds
  <2>7. /\ Good(sch') /\ sch'.current = NoTask /\ Planned(sch')
        /\ ~Astray' => Unanswered(sch') = Unanswered(sch)
    BY <2>1, <2>2, <2>3, <2>4, <2>6 DEF Adds
  <2>8. /\ movers' \in [Moves -> Mover] /\ movers'[m].is = "waiting"
        /\ movers'[m].change = c
        /\ \A k \in Moves : k # m => movers'[k] = movers[k]
    BY <2>1 DEF Base, OtherTypes, Mover
  <2>9. Placed(work', movers') /\ NoneLive(work')
    <3>1. Placed(work', movers) /\ NoneLive(work')
      BY <2>1, OrphansAre
    <3>2. \A w \in work' : w.type = "RecursiveMoveReplay" => w.arg # m
      BY <2>1, <3>1 DEF Placed
    <3> QED  BY <2>8, <3>1, <3>2 DEF Placed
  <2>10. Base'
    BY <1>1, <1>2, <1>10, <2>7, <2>8, <2>9 DEF Base, OtherTypes
  <2>11. LiveSound(sch'.current, work', recursiveMover', movers')
    BY <2>7, <2>9, IdleSound
  <2>12. ASSUME ~Astray', mishaps' \cap {"givenUp", "twice"} = {}
         PROVE  /\ ChangesSound(work', record', movers')
                /\ NoneLost(record', answered', notified')
    <3>1. /\ r # <<>> /\ c = Head(r) /\ Head(r).moved /\ ~Moving(c)
          /\ ChangesSound(W, r, movers) /\ NoneLost(r, answered, notified)
      BY <1>4, <1>10, <2>12
    <3>2. NoneLost(record', answered', notified')
      BY <1>1, <1>10, <3>1
    <3>3. \A k \in Moves : ~InHand(k, movers)
      BY <3>1 DEF Moving, InHand, ChangesSound
    <3>4. \A k \in Moves : InHand(k, movers') => k = m
      BY <2>8, <3>3 DEF InHand
    <3>5. ChangesSound(work', r, movers')
      BY <2>8, <2>9, <3>1, <3>4 DEF ChangesSound, NoneLive
    <3> QED  BY <1>10, <3>2, <3>5
  <2>13. ~Astray' => CallersSound(sch', asked', replies', "unanswered" \in mishaps')
    BY <1>1, <1>2, <1>7, <2>7
  <2> QED  BY <2>7, <2>10, <2>11, <2>12, <2>13 DEF Kept, Orderly
<1> QED  BY <1>8, <1>9, <1>10 DEF Emit

-----------------------------------------------------------------------------
(* The ends of a task *)

\* What a step of the work does not change.
Beside ==
  /\ asked' = asked /\ notified' = notified /\ faults' \in 0..MaxFaults

Inv == Base /\ ~Astray /\ Orderly

LEMMA StaleIsMishap ==
  ASSUME NEW w
  PROVE  Stale(w) \in SUBSET Mishap /\ StaleChange(w) \in SUBSET Mishap
BY DEF Stale, StaleChange, Mishap

\* Unless a report is stale it comes from the work for the running task.
LEMMA NotStale ==
  ASSUME Inv, NEW w \in work, Stale(w) \subseteq mishaps', ~Astray'
  PROVE  /\ NoneLive(work \ {w})
         /\ sch.current = NoTask
              \/ (w.live /\ w.type = sch.current.type /\ w.arg = sch.current.arg)
         /\ w.live => sch.current # NoTask
<1>1. w.live \/ sch.current = NoTask
  BY DEF Stale, Astray
<1>2. LiveSound(sch.current, work, recursiveMover, movers)
  BY DEF Inv, Orderly
<1>3. PICK c : c = sch.current
  OBVIOUS
<1>4. LiveSound(c, work, recursiveMover, movers) /\ (w.live \/ c = NoTask)
  BY <1>1, <1>2, <1>3
<1>5. /\ NoneLive(work \ {w})
      /\ c = NoTask \/ (w.live /\ w.type = c.type /\ w.arg = c.arg)
      /\ w.live => c # NoTask
  BY <1>4, Settled
<1> QED  BY <1>3, <1>5

LEMMA NotStaleChange ==
  ASSUME Inv, NEW w \in work, StaleChange(w) \subseteq mishaps', ~Astray'
  PROVE  /\ NoneLive(work \ {w}) /\ w.live /\ sch.current # NoTask
         /\ w.type = sch.current.type /\ w.arg = sch.current.arg
<1>1. w.live
  BY DEF StaleChange, Astray
<1> QED  BY <1>1, Settled DEF Inv, Orderly

\* A task that neither answers nor replays anything ends.
LEMMA EndKeeps ==
  ASSUME Inv, Beside, NEW x, Adds(sch, x), NEW V, Placed(V, movers),
         sch' = taskDone(x), work' = Orphans(V),
         UNCHANGED <<replies, record, answered, movers, recursiveMover>>,
         NEW N \in SUBSET Mishap, mishaps' = mishaps \cup N,
         ~Astray' => ~IsFetch(sch.current) /\ ~IsReplay(sch.current)
  PROVE  Kept
<1>1. Good(x) /\ x.current = sch.current /\ Unanswered(x) = Unanswered(sch)
      /\ (ReplayQueued(sch) => ReplayQueued(x))
  BY DEF Adds
<1>2. /\ Good(sch') /\ sch'.current = NoTask /\ Unanswered(sch') = Letters(x)
      /\ ReplayQueued(sch') <=> ReplayQueued(x)
  BY <1>1, DoneLetters
<1>3. Placed(work', movers') /\ NoneLive(work')
  BY OrphansAre
<1>4. mishaps \subseteq mishaps' /\ mishaps' \subseteq Mishap
  BY DEF Inv, Base, OtherTypes
<1>5. Base'
  BY <1>2, <1>3, <1>4 DEF Inv, Base, OtherTypes, Beside
<1>6. ASSUME ~Astray' PROVE Orderly'
  <2>1. LiveSound(sch'.current, work', recursiveMover', movers')
    BY <1>2, <1>3, IdleSound
  <2>2. record' # <<>> => Planned(sch') \/ "aborted" \in mishaps'
    BY <1>1, <1>2, <1>4, <1>6 DEF Inv, Orderly, Planned
  <2>3. mishaps' \cap {"givenUp", "twice"} = {} =>
          ChangesSound(work', record', movers') /\ NoneLost(record', answered', notified')
    <3>1. ASSUME mishaps' \cap {"givenUp", "twice"} = {}
          PROVE  ChangesSound(work, record, movers) /\ NoneLost(record, answered, notified)
      BY <1>4, <3>1 DEF Inv, Orderly
    <3> QED  BY <1>3, <3>1, IdleChanges DEF Beside
  <2>4. Unanswered(sch') = Unanswered(sch)
    BY <1>1, <1>2, <1>6, NoMessages
  <2>5. CallersSound(sch', asked', replies', "unanswered" \in mishaps')
    <3>1. CallersSound(sch, asked, replies, "unanswered" \in mishaps)
      BY DEF Inv, Orderly
    <3>2. "unanswered" \in mishaps => "unanswered" \in mishaps'
      BY <1>4
    <3>3. asked' = asked /\ replies' = replies
      BY DEF Beside
    <3>4. PICK u : u = sch'
      OBVIOUS
    <3>5. Unanswered(u) = Unanswered(sch)
      BY <2>4, <3>4
    <3>6. CallersSound(u, asked, replies, "unanswered" \in mishaps')
      BY <3>1, <3>2, <3>5, CallersSame
    <3> QED  BY <3>3, <3>4, <3>6
  <2> QED  BY <2>1, <2>2, <2>3, <2>5 DEF Orderly
<1> QED  BY <1>5, <1>6 DEF Kept

\* A task that ends answers its messages.
LEMMA RequestKeeps ==
  ASSUME Inv, Beside, NEW V, Placed(V, movers),
         Reply(sch.current.msgs), sch' = taskDone(sch), work' = Orphans(V),
         UNCHANGED <<record, answered, movers, recursiveMover>>,
         NEW N \in SUBSET Mishap, mishaps' = mishaps \cup N,
         ~Astray' => ~IsReplay(sch.current)
  PROVE  Kept
<1>1. Good(sch) /\ Unanswered(sch) = Letters(sch) \cup sch.current.msgs
      /\ Letters(sch) \cap sch.current.msgs = {}
  BY DEF Inv, Base, Unanswered, Good, LettersSound
<1>2. /\ Good(sch') /\ sch'.current = NoTask /\ Unanswered(sch') = Letters(sch)
      /\ ReplayQueued(sch') <=> ReplayQueued(sch)
  BY <1>1, DoneLetters
<1>3. Placed(work', movers') /\ NoneLive(work')
  BY OrphansAre
<1>4. mishaps \subseteq mishaps' /\ mishaps' \subseteq Mishap
  BY DEF Inv, Base, OtherTypes
<1>5. replies' = [r \in Requests |->
                    IF r \in sch.current.msgs THEN replies[r] + 1 ELSE replies[r]]
  BY DEF Reply
<1>6. replies' \in [Requests -> Nat]
  BY <1>5 DEF Inv, Base, OtherTypes
<1>7. Base'
  BY <1>2, <1>3, <1>4, <1>6 DEF Inv, Base, OtherTypes, Beside
<1>8. ASSUME ~Astray' PROVE Orderly'
  <2>1. LiveSound(sch'.current, work', recursiveMover', movers')
    BY <1>2, <1>3, IdleSound
  <2>2. record' # <<>> => Planned(sch') \/ "aborted" \in mishaps'
    BY <1>2, <1>4, <1>8 DEF Inv, Orderly, Planned
  <2>3. mishaps' \cap {"givenUp", "twice"} = {} =>
          ChangesSound(work', record', movers') /\ NoneLost(record', answered', notified')
    <3>1. ASSUME mishaps' \cap {"givenUp", "twice"} = {}
          PROVE  ChangesSound(work, record, movers) /\ NoneLost(record, answered, notified)
      BY <1>4, <3>1 DEF Inv, Orderly
    <3> QED  BY <1>3, <3>1, IdleChanges DEF Beside
  <2>5. CallersSound(sch', asked', replies', "unanswered" \in mishaps')
    <3>1. CallersSound(sch, asked, replies, "unanswered" \in mishaps)
      BY DEF Inv, Orderly
    <3>2. "unanswered" \in mishaps => "unanswered" \in mishaps'
      BY <1>4
    <3>3. asked' = asked
      BY DEF Beside
    <3>4. PICK M : M = sch.current.msgs
      OBVIOUS
    <3>5. /\ Unanswered(sch) = Unanswered(sch') \cup M /\ Unanswered(sch') \cap M = {}
          /\ replies' = [r \in Requests |-> IF r \in M THEN replies[r] + 1 ELSE replies[r]]
      BY <1>1, <1>2, <1>5, <3>4
    <3>6. PICK u : u = sch'
      OBVIOUS
    <3>7. Unanswered(sch) = Unanswered(u) \cup M /\ Unanswered(u) \cap M = {}
      BY <3>5, <3>6
    <3>8. PICK now : now = replies'
      OBVIOUS
    <3>9. \A r \in Requests : now[r] = IF r \in M THEN replies[r] + 1 ELSE replies[r]
      BY <3>5, <3>8
    <3>10. CallersSound(u, asked, now, "unanswered" \in mishaps')
      BY <3>1, <3>2, <3>7, <3>9 DEF CallersSound
    <3> QED  BY <3>3, <3>6, <3>8, <3>10
  <2> QED  BY <2>1, <2>2, <2>3, <2>5 DEF Orderly
<1> QED  BY <1>7, <1>8 DEF Kept

\* A task is put off; movers may end with it.
LEMMA DeferKeeps ==
  ASSUME Inv, Beside, NEW V, Placed(V, movers'),
         sch' = deferTask(sch), work' = Orphans(V),
         UNCHANGED <<replies, record, answered>>,
         movers' \in [Moves -> Mover], recursiveMover' \in Moves \cup {NoArg},
         \A m \in Moves : InHand(m, movers') =>
           InHand(m, movers) /\ movers'[m].change = movers[m].change,
         NEW N \in SUBSET Mishap, mishaps' = mishaps \cup N
  PROVE  Kept
<1>1. Good(sch)
  BY DEF Inv, Base
<1>2. /\ Good(sch') /\ sch'.current = NoTask /\ Unanswered(sch') = Unanswered(sch)
      /\ Planned(sch) => ReplayQueued(sch')
  BY <1>1, DeferLetters
<1>3. Placed(work', movers') /\ NoneLive(work')
  BY OrphansAre
<1>4. mishaps \subseteq mishaps' /\ mishaps' \subseteq Mishap
  BY DEF Inv, Base, OtherTypes
<1>5. Base'
  BY <1>2, <1>3, <1>4 DEF Inv, Base, OtherTypes, Beside
<1>6. ASSUME ~Astray' PROVE Orderly'
  <2>1. LiveSound(sch'.current, work', recursiveMover', movers')
    BY <1>2, <1>3, IdleSound
  <2>2. record' # <<>> => Planned(sch') \/ "aborted" \in mishaps'
    BY <1>2, <1>4 DEF Inv, Orderly, Planned
  <2>3. mishaps' \cap {"givenUp", "twice"} = {} =>
          ChangesSound(work', record', movers') /\ NoneLost(record', answered', notified')
    <3>1. ASSUME mishaps' \cap {"givenUp", "twice"} = {}
          PROVE  ChangesSound(work, record, movers) /\ NoneLost(record, answered, notified)
      BY <1>4, <3>1 DEF Inv, Orderly
    <3>2. ASSUME mishaps' \cap {"givenUp", "twice"} = {}
          PROVE  ChangesSound(work', record', movers')
      BY <1>3, <3>1, <3>2 DEF ChangesSound, NoneLive
    <3> QED  BY <3>1, <3>2 DEF Beside
  <2>5. CallersSound(sch', asked', replies', "unanswered" \in mishaps')
    <3>1. CallersSound(sch, asked, replies, "unanswered" \in mishaps)
      BY DEF Inv, Orderly
    <3>2. "unanswered" \in mishaps => "unanswered" \in mishaps'
      BY <1>4
    <3>3. asked' = asked /\ replies' = replies
      BY DEF Beside
    <3>4. PICK u : u = sch'
      OBVIOUS
    <3>5. Unanswered(u) = Unanswered(sch)
      BY <1>2, <3>4
    <3>6. CallersSound(u, asked, replies, "unanswered" \in mishaps')
      BY <3>1, <3>2, <3>5, CallersSame
    <3> QED  BY <3>3, <3>4, <3>6
  <2> QED  BY <2>1, <2>2, <2>3, <2>5 DEF Orderly
<1> QED  BY <1>5, <1>6 DEF Kept

\* The resource is done with the change that is replayed, or a mover is.
LEMMA ProcessedKeeps ==
  ASSUME Inv, Beside, NEW W, Placed(W, movers'), NEW c \in Change \cup {NoChange},
         NEW mover, mover = NoArg, ChangeProcessed(sch, record, W, c, mover),
         replies' = replies,
         movers' \in [Moves -> Mover], recursiveMover' \in Moves \cup {NoArg},
         NEW N \in SUBSET Mishap, mishaps' = mishaps \cup N,
         ~Astray' => ~IsFetch(sch.current),
         ~Astray' /\ mishaps' \cap {"givenUp", "twice"} = {} =>
           /\ record # <<>> /\ c = Head(record)
           /\ \A m \in Moves : ~InHand(m, movers')
  PROVE  Kept
<1>1. Good(sch) /\ record \in Seq(Change)
  BY DEF Inv, Base, OtherTypes
<1>2. /\ record' \in Seq(Change) /\ answered' = answered \cup {c}
      /\ Good(sch') /\ sch'.current = NoTask /\ Unanswered(sch') = Letters(sch)
      /\ Placed(work', movers') /\ NoneLive(work')
      /\ record' # <<>> => Planned(sch')
      /\ record # <<>> => record' = Tail(record)
  <2>1. PICK mv : mv = movers'
    OBVIOUS
  <2>2. Placed(W, mv)
    BY <2>1
  <2> QED  BY <1>1, <2>1, <2>2, ChangeEnds
<1>4. mishaps \subseteq mishaps' /\ mishaps' \subseteq Mishap
  BY DEF Inv, Base, OtherTypes
<1>5. Base'
  BY <1>2, <1>4 DEF Inv, Base, OtherTypes, Beside
<1>6. ASSUME ~Astray' PROVE Orderly'
  <2>1. LiveSound(sch'.current, work', recursiveMover', movers')
    BY <1>2, IdleSound
  <2>2. mishaps' \cap {"givenUp", "twice"} = {} =>
          ChangesSound(work', record', movers') /\ NoneLost(record', answered', notified')
    <3> SUFFICES ASSUME mishaps' \cap {"givenUp", "twice"} = {}
                 PROVE  /\ ChangesSound(work', record', movers')
                        /\ NoneLost(record', answered', notified')
      OBVIOUS
    <3>1. NoneLost(record, answered, notified)
      BY <1>4 DEF Inv, Orderly
    <3>2. /\ record # <<>> /\ c = Head(record)
          /\ \A m \in Moves : ~InHand(m, movers')
      BY <1>6
    <3>3. NoneLost(Tail(record), answered \cup {Head(record)}, notified)
      BY <1>1, <3>1, <3>2, ChangeDone
    <3>4. /\ record' = Tail(record) /\ answered' = answered \cup {Head(record)}
          /\ notified' = notified
      BY <1>2, <3>2 DEF Beside
    <3>5. NoneLost(record', answered', notified')
      BY <3>3, <3>4
    <3>6. ChangesSound(work', record', movers')
      BY <1>2, <3>2 DEF ChangesSound, NoneLive
    <3> QED  BY <3>5, <3>6
  <2>4. Unanswered(sch') = Unanswered(sch)
    BY <1>1, <1>2, <1>6, NoMessages
  <2>5. CallersSound(sch', asked', replies', "unanswered" \in mishaps')
    <3>1. CallersSound(sch, asked, replies, "unanswered" \in mishaps)
      BY DEF Inv, Orderly
    <3>2. "unanswered" \in mishaps => "unanswered" \in mishaps'
      BY <1>4
    <3>3. asked' = asked /\ replies' = replies
      BY DEF Beside
    <3>4. PICK u : u = sch'
      OBVIOUS
    <3>5. Unanswered(u) = Unanswered(sch)
      BY <2>4, <3>4
    <3>6. CallersSound(u, asked, replies, "unanswered" \in mishaps')
      BY <3>1, <3>2, <3>5, CallersSame
    <3> QED  BY <3>3, <3>4, <3>6
  <2> QED  BY <1>2, <2>1, <2>2, <2>5 DEF Orderly
<1> QED  BY <1>5, <1>6 DEF Kept

\* The running task goes on.
LEMMA GoingOnKeeps ==
  ASSUME Inv, Beside, Placed(work', movers),
         LiveSound(sch.current, work, recursiveMover, movers)
           => LiveSound(sch.current, work', recursiveMover, movers),
         ChangesSound(work, record, movers) => ChangesSound(work', record, movers),
         answered \subseteq answered', answered' \subseteq Change \cup {NoChange},
         UNCHANGED <<sch, replies, record, movers, recursiveMover>>,
         NEW N \in SUBSET Mishap, mishaps' = mishaps \cup N
  PROVE  Kept
<1>1. mishaps \subseteq mishaps' /\ mishaps' \subseteq Mishap
  BY DEF Inv, Base, OtherTypes
<1>2. Base'
  BY <1>1 DEF Inv, Base, OtherTypes, Beside
<1>4. record' # <<>> => Planned(sch') \/ "aborted" \in mishaps'
  BY <1>1 DEF Inv, Orderly
<1>5. mishaps' \cap {"givenUp", "twice"} = {} =>
        ChangesSound(work', record', movers') /\ NoneLost(record', answered', notified')
  <2> SUFFICES ASSUME mishaps' \cap {"givenUp", "twice"} = {}
               PROVE  /\ ChangesSound(work', record', movers')
                      /\ NoneLost(record', answered', notified')
    OBVIOUS
  <2>1. ChangesSound(work, record, movers) /\ NoneLost(record, answered, notified)
    BY <1>1 DEF Inv, Orderly
  <2>2. NoneLost(record, answered', notified)
    BY <2>1 DEF NoneLost
  <2> QED  BY <2>1, <2>2 DEF Beside
<1>6. CallersSound(sch', asked', replies', "unanswered" \in mishaps')
  <2>1. CallersSound(sch, asked, replies, "unanswered" \in mishaps)
    BY DEF Inv, Orderly
  <2>2. "unanswered" \in mishaps => "unanswered" \in mishaps'
    BY <1>1
  <2>3. asked' = asked /\ replies' = replies /\ sch' = sch
    BY DEF Beside
  <2> QED  BY <2>1, <2>2, <2>3, CallersSame
<1>7. LiveSound(sch.current, work, recursiveMover, movers)
  BY DEF Inv, Orderly
<1> QED  BY <1>2, <1>4, <1>5, <1>6, <1>7 DEF Kept, Orderly

-----------------------------------------------------------------------------
(* The reports *)

LEMMA WorkTypes ==
  ASSUME Inv, NEW w \in work
  PROVE  /\ w \in Work /\ Fits(w.at, w.type) /\ w.change \in Change \cup {NoChange}
         /\ w.live \in BOOLEAN /\ w.at \in Place
         /\ w.type = "RecursiveMoveReplay" => w.arg \in Moves
         /\ Placed(work, movers) /\ Placed(work \ {w}, movers)
         /\ Placed(Forgotten(work \ {w}), movers)
<1>1. Placed(work, movers)
  BY DEF Inv, Base
<1>2. w \in Work /\ Fits(w.at, w.type) /\ (w.type = "RecursiveMoveReplay" => w.arg \in Moves)
  BY <1>1 DEF Placed
<1>3. Placed(work \ {w}, movers)
  BY <1>1, LessWork
<1>4. Placed(Forgotten(work \ {w}), movers)
  BY <1>3, ForgottenAre
<1> QED  BY <1>1, <1>2, <1>3, <1>4 DEF Work

\* Two tasks share a job.
LEMMA SharedKeeps ==
  ASSUME Inv, Beside, Placed(work', movers),
         UNCHANGED <<sch, replies, record, answered, movers, recursiveMover>>,
         NEW N \in SUBSET Mishap, mishaps' = mishaps \cup N, "shared" \in N
  PROVE  Kept
<1>1. Base'
  BY DEF Inv, Base, OtherTypes, Beside
<1>2. Astray'
  BY DEF Astray
<1> QED  BY <1>1, <1>2 DEF Kept

LEMMA GoesOnKeeps ==
  ASSUME Inv, Beside, NEW w \in work, NEW at \in Place, Fits(at, w.type),
         w.type = "ChangeReplay" => w.at # "data",
         NEW W, W = work \ {w} \/ W = Forgotten(work \ {w}), GoesOn(w, W, at)
  PROVE  Kept
<1>1. /\ work' = W \cup {[w EXCEPT !.at = at, !.current = FALSE]}
      /\ UNCHANGED <<sch, replies, record, answered, movers, recursiveMover, mishaps>>
  BY DEF GoesOn
<1>2. PICK x : x = [w EXCEPT !.at = at, !.current = FALSE]
  OBVIOUS
<1>3. Placed(work, movers)
  BY WorkTypes
<1>4. Follows(work, work', movers)
  <2>1. /\ Follows(work, (work \ {w}) \cup {x}, movers)
        /\ Follows(work, Forgotten(work \ {w}) \cup {x}, movers)
    BY <1>2, <1>3, MovedAre
  <2>2. work' = (work \ {w}) \cup {x} \/ work' = Forgotten(work \ {w}) \cup {x}
    BY <1>1, <1>2
  <2> QED  BY <2>1, <2>2
<1>5. /\ Placed(work', movers)
      /\ LiveSound(sch.current, work, recursiveMover, movers)
           => LiveSound(sch.current, work', recursiveMover, movers)
      /\ ChangesSound(work, record, movers) => ChangesSound(work', record, movers)
  BY <1>4 DEF Follows
<1>6. mishaps' = mishaps \cup {} /\ answered' = answered
      /\ answered \subseteq Change \cup {NoChange} /\ {} \in SUBSET Mishap
  BY <1>1 DEF Inv, Base, OtherTypes
<1> QED  BY <1>1, <1>5, <1>6, GoingOnKeeps

\* What cancelTask() ends: the running task, unless it waits for a sync job.
LEMMA CancelKeeps ==
  ASSUME Inv, Beside, NEW w \in work,
         w.at \in {"prepare", "collection", "attributes", "resource", "adding"},
         NEW W, W = work \ {w} \/ W = Forgotten(work \ {w}), CancelTask(w, W)
  PROVE  Kept
<1> DEFINE rest == {x \in W : ~x.current}
           N == Stale(w) \cup (IF sch.current # NoTask /\ Syncs(SyncKind(sch.current)) # {}
                               THEN {"shared"} ELSE {})
                         \cup (IF sch.current.type = "RecursiveMoveReplay"
                               THEN {"abandoned"} ELSE {})
<1>1. mishaps' = mishaps \cup N /\ UNCHANGED <<movers, recursiveMover>>
  BY DEF CancelTask
<1>2. N \in SUBSET Mishap
  BY StaleIsMishap DEF Mishap
<1>3. Stale(w) \subseteq mishaps'
  BY <1>1
<1>4. "abandoned" \in N => Astray'
  BY <1>1 DEF Astray
<1>5. Placed(rest, movers)
  <2>1. Placed(W, movers)
    BY WorkTypes
  <2> QED  BY <2>1, LessWork
<1>6. sch.current.type = "RecursiveMoveReplay" => "abandoned" \in N
  OBVIOUS
<1>7. sch.current # NoTask /\ Syncs(SyncKind(sch.current)) # {} => "shared" \in N
  OBVIOUS
<1>8. CASE sch.current.type = "FetchItem"
  <2>1. /\ Reply(sch.current.msgs) /\ sch' = taskDone(sch) /\ work' = Orphans(rest)
        /\ UNCHANGED <<record, answered>>
    BY <1>8 DEF CancelTask, Trees
  <2>2. ~IsReplay(sch.current)
    BY <1>8 DEF IsReplay
  <2> HIDE DEF rest, N
  <2> QED  BY <1>1, <1>2, <1>5, <2>1, <2>2, RequestKeeps
<1>9. CASE sch.current.type = "ChangeReplay"
  <2>1. /\ ChangeProcessed(sch, record, rest, w.change, recursiveMover)
        /\ replies' = replies
    BY <1>9 DEF CancelTask, Trees
  <2>2. sch.current # NoTask /\ ~IsFetch(sch.current)
    BY <1>9 DEF NoTask, IsFetch
  <2> HIDE DEF rest, N
  <2>3. CASE recursiveMover = NoArg
    <3>1. /\ w.change \in Change \cup {NoChange} /\ Placed(rest, movers')
          /\ movers' \in [Moves -> Mover] /\ recursiveMover' \in Moves \cup {NoArg}
      BY <1>1, <1>5, WorkTypes DEF Inv, Base, OtherTypes
    <3>2. ASSUME ~Astray', mishaps' \cap {"givenUp", "twice"} = {}
          PROVE  /\ record # <<>> /\ w.change = Head(record)
                 /\ \A m \in Moves : ~InHand(m, movers')
      <4>1. w.live /\ w.type = "ChangeReplay"
        BY <1>3, <1>9, <2>2, <3>2, NotStale
      <4>2. w.at # "data"
        OBVIOUS
      <4>3. ChangesSound(work, record, movers)
        BY <1>1, <3>2 DEF Inv, Orderly
      <4> QED  BY <1>1, <4>1, <4>2, <4>3 DEF ChangesSound
    <3>3. PICK c : c = w.change
      OBVIOUS
    <3> QED  BY <1>1, <1>2, <2>1, <2>2, <2>3, <3>1, <3>2, <3>3, ProcessedKeeps
  <2>4. CASE recursiveMover # NoArg
    <3>1. /\ answered' = answered \cup {w.change} /\ sch' = sch /\ record' = record
          /\ work' = {IF x.at = "adding" THEN [x EXCEPT !.at = "finishing"] ELSE x : x \in rest}
      BY <2>1, <2>4 DEF ChangeProcessed
    <3>2. Placed(work', movers)
      BY <1>5, <3>1, AddedAre DEF Follows
    <3>3. mishaps' \subseteq Mishap
      BY <1>1, <1>2 DEF Inv, Base, OtherTypes
    <3>4. Base'
      BY <1>1, <2>1, <3>1, <3>2, <3>3, WorkTypes DEF Inv, Base, OtherTypes, Beside
    <3>5. ASSUME ~Astray' PROVE FALSE
      <4>1. w.live /\ w.type = "ChangeReplay" /\ w.at # "data"
        BY <1>3, <1>9, <2>2, <3>5, NotStale
      <4>2. recursiveMover = NoArg
        BY <4>1 DEF Inv, Orderly, LiveSound
      <4> QED  BY <2>4, <4>2
    <3> QED  BY <3>4, <3>5 DEF Kept
  <2> QED  BY <2>3, <2>4
<1>10. ASSUME work' = rest, UNCHANGED <<sch, replies, record, answered>>,
              sch.current # NoTask, Syncs(SyncKind(sch.current)) # {}
       PROVE  Kept
  <2>1. "shared" \in N
    BY <1>7, <1>10
  <2> HIDE DEF rest, N
  <2> QED  BY <1>1, <1>2, <1>5, <1>10, <2>1, SharedKeeps
<1>11. CASE sch.current.type \in Trees /\ Syncs(Trees) # {}
  <2>1. work' = rest /\ UNCHANGED <<sch, replies, record, answered>>
    BY <1>11 DEF CancelTask, Trees
  <2>2. sch.current # NoTask /\ SyncKind(sch.current) = Trees
    BY <1>11 DEF NoTask, Trees, SyncKind
  <2> HIDE DEF rest, N
  <2> QED  BY <1>10, <1>11, <2>1, <2>2
<1>12. CASE sch.current.type = "SyncCollection" /\ Syncs({"SyncCollection"}) # {}
  <2>1. work' = rest /\ UNCHANGED <<sch, replies, record, answered>>
    BY <1>12 DEF CancelTask, Trees
  <2>2. sch.current # NoTask /\ SyncKind(sch.current) = {"SyncCollection"}
    BY <1>12 DEF NoTask, Trees, SyncKind
  <2> HIDE DEF rest, N
  <2> QED  BY <1>10, <1>12, <2>1, <2>2
<1>13. CASE /\ sch.current.type \notin {"FetchItem", "ChangeReplay"}
            /\ ~(sch.current.type \in Trees /\ Syncs(Trees) # {})
            /\ ~(sch.current.type = "SyncCollection" /\ Syncs({"SyncCollection"}) # {})
  <2>1. /\ sch' = taskDone(sch) /\ work' = Orphans(rest)
        /\ UNCHANGED <<replies, record, answered>>
    BY <1>13 DEF CancelTask
  <2>2. ~Astray' => ~IsFetch(sch.current) /\ ~IsReplay(sch.current)
    BY <1>4, <1>6, <1>13 DEF IsFetch, IsReplay
  <2>3. Adds(sch, sch)
    BY DEF Adds, Inv, Base
  <2> HIDE DEF rest, N
  <2> QED  BY <1>1, <1>2, <1>5, <2>1, <2>2, <2>3, EndKeeps
<1> QED  BY <1>8, <1>9, <1>11, <1>12, <1>13

\* A report that ends a task that neither answers nor replays.
LEMMA EndTaskKeeps ==
  ASSUME Inv, Beside, NEW w \in work,
         w.type \notin {"FetchItem", "ChangeReplay", "RecursiveMoveReplay"},
         NEW x, Adds(sch, x), sch' = taskDone(x), work' = Orphans(work \ {w}),
         mishaps' = mishaps \cup Stale(w),
         UNCHANGED <<replies, record, answered, movers, recursiveMover>>
  PROVE  Kept
<1>1. Placed(work \ {w}, movers) /\ Stale(w) \in SUBSET Mishap
  BY WorkTypes, StaleIsMishap
<1>2. ASSUME ~Astray' PROVE ~IsFetch(sch.current) /\ ~IsReplay(sch.current)
  <2>1. sch.current = NoTask \/ w.type = sch.current.type
    BY <1>2, NotStale
  <2> QED  BY <2>1, NoTaskFields DEF IsFetch, IsReplay
<1>3. PICK V, N : V = work \ {w} /\ N = Stale(w)
  OBVIOUS
<1>4. work' = Orphans(V) /\ mishaps' = mishaps \cup N /\ Placed(V, movers) /\ N \in SUBSET Mishap
  BY <1>1, <1>3
<1> QED  BY <1>2, <1>4, EndKeeps

LEMMA EndTaskIs ==
  ASSUME Inv, Beside, NEW w \in work, EndTask(w),
         w.type \notin {"FetchItem", "ChangeReplay", "RecursiveMoveReplay"}
  PROVE  Kept
<1>1. Adds(sch, sch)
  BY DEF Adds, Inv, Base
<1> QED  BY <1>1, EndTaskKeeps DEF EndTask

LEMMA EndRequestKeeps ==
  ASSUME Inv, Beside, NEW w \in work, EndRequest(w), w.type = "FetchItem"
  PROVE  Kept
<1>1. Placed(work \ {w}, movers) /\ Stale(w) \in SUBSET Mishap
  BY WorkTypes, StaleIsMishap
<1>2. /\ Reply(sch.current.msgs) /\ sch' = taskDone(sch) /\ work' = Orphans(work \ {w})
      /\ mishaps' = mishaps \cup Stale(w)
      /\ UNCHANGED <<record, answered, movers, recursiveMover>>
  BY DEF EndRequest
<1>3. ASSUME ~Astray' PROVE ~IsReplay(sch.current)
  <2>1. sch.current = NoTask \/ w.type = sch.current.type
    BY <1>2, <1>3, NotStale
  <2> QED  BY <2>1, NoTaskFields DEF IsReplay
<1>4. PICK V, N : V = work \ {w} /\ N = Stale(w)
  OBVIOUS
<1>5. work' = Orphans(V) /\ mishaps' = mishaps \cup N /\ Placed(V, movers) /\ N \in SUBSET Mishap
  BY <1>1, <1>2, <1>4
<1> QED  BY <1>2, <1>3, <1>5, RequestKeeps

\* GoesOn() to a place that is not for changes or movers.
LEMMA ToPlaceKeeps ==
  ASSUME Inv, Beside, NEW w \in work, NEW at \in Place, Fits(at, w.type),
         w.type # "ChangeReplay" \/ w.at # "data", GoesOn(w, work \ {w}, at)
  PROVE  Kept
<1>1. PICK W : W = work \ {w}
  OBVIOUS
<1> QED  BY <1>1, GoesOnKeeps

LEMMA PreparedKeeps ==
  ASSUME Inv, Beside, NEW w \in work, Prepared(w)
  PROVE  Kept
<1>1. PICK W : /\ W = work \ {w} \/ W = Forgotten(work \ {w})
               /\ GoesOn(w, W, "resource") \/ CancelTask(w, W)
  BY DEF Prepared
<1>2. w.at \in {"prepare", "collection", "attributes"}
  BY DEF Prepared
<1>3. Fits(w.at, w.type)
  BY WorkTypes
<1>4. Fits("resource", w.type) /\ w.type # "ChangeReplay" /\ "resource" \in Place
  BY <1>2, <1>3 DEF Fits, Place
<1>5. CASE GoesOn(w, W, "resource")
  BY <1>1, <1>4, <1>5, GoesOnKeeps
<1>6. CASE CancelTask(w, W)
  BY <1>1, <1>2, <1>6, CancelKeeps
<1> QED  BY <1>1, <1>5, <1>6

LEMMA DataAvailableKeeps ==
  ASSUME Inv, Beside, NEW w \in work, DataAvailable(w)
  PROVE  Kept
<1>1. /\ w.at = "data"
      /\ Emit(sch, record, work \ {w}, w.change, w.live, StaleChange(w))
      /\ UNCHANGED <<replies, recursiveMover>>
  BY DEF DataAvailable
<1>2. PICK W, M, c, live :
        W = work \ {w} /\ M = StaleChange(w) /\ c = w.change /\ live = w.live
  OBVIOUS
<1>3. Emit(sch, record, W, c, live, M)
  BY <1>1, <1>2
<1>4. /\ live \in BOOLEAN /\ c \in Change \cup {NoChange} /\ Placed(W, movers)
      /\ M \in SUBSET Mishap /\ (live \/ "stale" \in M)
  BY <1>2, WorkTypes, StaleIsMishap DEF StaleChange
<1>5. w.type = "ChangeReplay"
  BY <1>1, WorkTypes DEF Fits
<1>6. live => /\ NoneLive(W) /\ sch.current.type = "ChangeReplay"
  <2>1. PICK cur : cur = sch.current
    OBVIOUS
  <2>2. LiveSound(cur, work, recursiveMover, movers)
    BY <2>1 DEF Inv, Orderly
  <2>3. w.live =>
          /\ NoneLive(work \ {w}) /\ cur # NoTask
          /\ cur = NoTask \/ (w.live /\ w.type = cur.type /\ w.arg = cur.arg)
    BY <2>2, Settled
  <2> QED  BY <1>2, <1>5, <2>1, <2>3
<1>7. ASSUME live, (mishaps \cup M) \cap {"givenUp", "twice"} = {}
      PROVE  /\ record # <<>> /\ c = Head(record)
             /\ ChangesSound(W, record, movers) /\ NoneLost(record, answered, notified)
  <2>1. ChangesSound(work, record, movers) /\ NoneLost(record, answered, notified)
    BY <1>7 DEF Inv, Orderly
  <2>2. ChangesSound(W, record, movers)
    BY <1>2, <2>1 DEF ChangesSound
  <2> QED  BY <1>2, <1>5, <1>7, <2>1, <2>2 DEF ChangesSound
<1>8. /\ Good(sch) /\ Unanswered(sch) = Unanswered(sch) /\ record \in Seq(Change)
      /\ UNCHANGED <<asked, replies, recursiveMover, notified>> /\ faults' \in 0..MaxFaults
      /\ Base /\ ~Astray /\ Orderly
  BY <1>1 DEF Inv, Base, OtherTypes, Beside
<1> QED  BY <1>3, <1>4, <1>6, <1>7, <1>8, EmitKeeps

LEMMA SyncKeeps ==
  ASSUME Inv, Beside, NEW w \in work, w.type \in Trees \cup {"SyncCollection"}, Sync(w)
  PROVE  Kept
<1>1. Fits("sync", w.type) /\ w.type # "ChangeReplay" /\ "sync" \in Place
  BY DEF Fits, Place, Trees
<1>2. CASE GoesOn(w, work \ {w}, "sync")
  BY <1>1, <1>2, ToPlaceKeeps
<1>3. CASE ~GoesOn(w, work \ {w}, "sync")
  <2>1. /\ work' = work \ {w} /\ mishaps' = mishaps \cup {"shared"}
        /\ UNCHANGED <<sch, replies, record, answered, movers, recursiveMover>>
    BY <1>3 DEF Sync
  <2>2. Placed(work', movers) /\ {"shared"} \in SUBSET Mishap /\ "shared" \in {"shared"}
    BY <2>1, WorkTypes DEF Mishap
  <2> QED  BY <2>1, <2>2, SharedKeeps
<1> QED  BY <1>2, <1>3

LEMMA ResourceDoneKeeps ==
  ASSUME Inv, Beside, NEW w \in work, ResourceDone(w)
  PROVE  Kept
<1>1. w.at = "resource"
  BY DEF ResourceDone
<1>2. {"deliver", "job", "commit"} \subseteq Place
  BY DEF Place
<1>3. CASE w.type = "FetchItem" /\ (GoesOn(w, work \ {w}, "deliver") \/ EndRequest(w))
  <2>1. Fits("deliver", w.type)
    BY <1>3 DEF Fits, Trees
  <2> QED  BY <1>2, <1>3, <2>1, ToPlaceKeeps, EndRequestKeeps
<1>4. CASE w.type \in Trees \cup {"SyncCollection"} /\ (Sync(w) \/ EndTask(w))
  BY <1>4, SyncKeeps, EndTaskIs DEF Trees
<1>5. CASE /\ w.type = "SyncCollectionAttributes"
           /\ GoesOn(w, work \ {w}, "job") \/ EndTask(w)
  <2>1. Fits("job", w.type)
    BY <1>5 DEF Fits, Trees
  <2> QED  BY <1>2, <1>5, <2>1, ToPlaceKeeps, EndTaskIs
<1>6. CASE w.type = "Custom" /\ EndTask(w)
  BY <1>6, EndTaskIs
<1>7. CASE w.type = "ChangeReplay" /\ GoesOn(w, work \ {w}, "commit")
  <2>1. Fits("commit", w.type)
    BY <1>7 DEF Fits, Trees
  <2> QED  BY <1>1, <1>2, <1>7, <2>1, ToPlaceKeeps
<1> QED  BY <1>3, <1>4, <1>5, <1>6, <1>7 DEF ResourceDone

LEMMA ResourceCancelsKeeps ==
  ASSUME Inv, Beside, NEW w \in work, ResourceCancels(w)
  PROVE  Kept
<1>1. PICK W : W = work \ {w}
  OBVIOUS
<1> QED  BY <1>1, CancelKeeps DEF ResourceCancels

LEMMA JobDoneKeeps ==
  ASSUME Inv, Beside, NEW w \in work, JobDone(w)
  PROVE  Kept
<1>1. Fits(w.at, w.type)
  BY WorkTypes
<1>2. CASE w.at = "list" /\ (GoesOn(w, work \ {w}, "job") \/ EndTask(w))
  <2>1. w.type = "DeleteResourceCollection"
    BY <1>1, <1>2 DEF Fits
  <2>2. Fits("job", w.type) /\ "job" \in Place
    BY <2>1 DEF Fits, Place, Trees
  <2> QED  BY <1>2, <2>1, <2>2, ToPlaceKeeps, EndTaskIs
<1>3. CASE w.at = "job" /\ EndTask(w)
  <2>1. w.type \notin {"FetchItem", "ChangeReplay", "RecursiveMoveReplay"}
    BY <1>1, <1>3 DEF Fits
  <2> QED  BY <1>3, <2>1, EndTaskIs
<1>4. CASE w.at = "deliver" /\ EndRequest(w)
  <2>1. w.type = "FetchItem"
    BY <1>1, <1>4 DEF Fits
  <2> QED  BY <1>4, <2>1, EndRequestKeeps
<1> QED  BY <1>2, <1>3, <1>4 DEF JobDone

LEMMA EndAndScheduleKeeps ==
  ASSUME Inv, Beside, NEW w \in work,
         w.type \notin {"FetchItem", "ChangeReplay", "RecursiveMoveReplay"},
         NEW s, Adds(sch, s), EndAndSchedule(w, s)
  PROVE  Kept
BY EndTaskKeeps DEF EndAndSchedule

LEMMA SyncDoneKeeps ==
  ASSUME Inv, Beside, NEW w \in work, SyncDone(w)
  PROVE  Kept
<1>1. Fits(w.at, w.type) /\ w.at = "sync"
  BY WorkTypes DEF SyncDone
<1>2. w.type \notin {"FetchItem", "ChangeReplay", "RecursiveMoveReplay"}
  BY <1>1 DEF Fits, Trees
<1>3. CASE EndTask(w)
  BY <1>2, <1>3, EndTaskIs
<1>4. CASE w.type \in Trees /\ GoesOn(w, work \ {w}, "localList")
  <2>1. Fits("localList", w.type) /\ "localList" \in Place
    BY <1>4 DEF Fits, Place, Trees
  <2> QED  BY <1>2, <1>4, <2>1, ToPlaceKeeps
<1>5. CASE EndAndSchedule(w, scheduleCompletion(sch, "SyncCollectionTreeDone"))
  <2>1. PICK s : s = scheduleCompletion(sch, "SyncCollectionTreeDone")
    OBVIOUS
  <2>2. Good(sch)
    BY DEF Inv, Base
  <2>3. Adds(sch, scheduleCompletion(sch, "SyncCollectionTreeDone"))
    BY <2>2, CompletionAdds
  <2> QED  BY <1>2, <1>5, <2>1, <2>3, EndAndScheduleKeeps
<1> QED  BY <1>3, <1>4, <1>5 DEF SyncDone

LEMMA LocalListDoneKeeps ==
  ASSUME Inv, Beside, NEW w \in work, LocalListDone(w)
  PROVE  Kept
<1>1. Fits(w.at, w.type) /\ w.at = "localList"
  BY WorkTypes DEF LocalListDone
<1>2. w.type \notin {"FetchItem", "ChangeReplay", "RecursiveMoveReplay"}
  BY <1>1 DEF Fits, Trees
<1>3. CASE EndTask(w)
  BY <1>2, <1>3, EndTaskIs
<1>4. ASSUME NEW c \in Collections,
             EndAndSchedule(w, scheduleCompletion(Schedule(sch, MkTask("SyncCollection", c)),
                                                  "SyncAllDone"))
      PROVE  Kept
  <2>1. PICK t : t = MkTask("SyncCollection", c)
    OBVIOUS
  <2>2. t \in Task /\ ~IsFetch(t)
    BY <2>1 DEF MkTask, Task, CollectionType, IsFetch
  <2>3. Good(sch)
    BY DEF Inv, Base
  <2>4. PICK u : u = Schedule(sch, t)
    OBVIOUS
  <2>5. Adds(sch, u)
    BY <2>2, <2>3, <2>4, ScheduleAdds
  <2>6. Adds(u, scheduleCompletion(u, "SyncAllDone"))
    BY <2>5, CompletionAdds DEF Adds
  <2>7. PICK s : s = scheduleCompletion(u, "SyncAllDone")
    OBVIOUS
  <2>8. Adds(sch, s)
    BY <2>5, <2>6, <2>7, AddsTransitive
  <2>9. EndAndSchedule(w, s)
    BY <1>4, <2>1, <2>4, <2>7
  <2> QED  BY <1>2, <2>8, <2>9, EndAndScheduleKeeps
<1> QED  BY <1>3, <1>4 DEF LocalListDone

\* The resource answers the change it was given.
LEMMA ChangeIsProcessed ==
  ASSUME Inv, Beside, NEW w \in work, w.at \in {"resource", "commit"},
         w.type = "ChangeReplay",
         ChangeProcessed(sch, record, work \ {w}, w.change, recursiveMover),
         mishaps' = mishaps \cup StaleChange(w),
         UNCHANGED <<replies, movers, recursiveMover>>
  PROVE  Kept
<1>1. PICK W, N, c : W = work \ {w} /\ N = StaleChange(w) /\ c = w.change
  OBVIOUS
<1>2. /\ mishaps' = mishaps \cup N /\ N \in SUBSET Mishap
      /\ Placed(W, movers) /\ c \in Change \cup {NoChange}
      /\ ChangeProcessed(sch, record, W, c, recursiveMover)
  BY <1>1, StaleIsMishap, WorkTypes
<1>3. ASSUME ~Astray'
      PROVE  w.live /\ sch.current.type = "ChangeReplay" /\ recursiveMover = NoArg
  <2>1. w.live /\ w.type = sch.current.type
    BY <1>3, NotStaleChange
  <2>2. LiveSound(sch.current, work, recursiveMover, movers)
    BY DEF Inv, Orderly
  <2> QED  BY <2>1, <2>2 DEF LiveSound
<1>4. /\ movers \in [Moves -> Mover] /\ recursiveMover \in Moves \cup {NoArg}
      /\ record \in Seq(Change) /\ answered \subseteq Change \cup {NoChange}
  BY DEF Inv, Base, OtherTypes
<1>5. CASE recursiveMover = NoArg
  <2>1. /\ Placed(W, movers')
        /\ movers' \in [Moves -> Mover] /\ recursiveMover' \in Moves \cup {NoArg}
    BY <1>2, <1>4
  <2>2. ~Astray' => ~IsFetch(sch.current)
    BY <1>3 DEF IsFetch
  <2>3. ASSUME ~Astray', mishaps' \cap {"givenUp", "twice"} = {}
        PROVE  /\ record # <<>> /\ c = Head(record)
               /\ \A m \in Moves : ~InHand(m, movers')
    <3>1. ChangesSound(work, record, movers)
      BY <1>2, <2>3 DEF Inv, Orderly
    <3> QED  BY <1>1, <1>3, <2>3, <3>1 DEF ChangesSound
  <2> QED  BY <1>2, <1>5, <2>1, <2>2, <2>3, ProcessedKeeps
<1>6. CASE recursiveMover # NoArg
  <2>1. /\ answered' = answered \cup {c} /\ sch' = sch /\ record' = record
        /\ work' = {IF x.at = "adding" THEN [x EXCEPT !.at = "finishing"] ELSE x : x \in W}
    BY <1>2, <1>6 DEF ChangeProcessed
  <2>2. Placed(work', movers)
    BY <1>2, <2>1, AddedAre DEF Follows
  <2>3. mishaps' \subseteq Mishap
    BY <1>2 DEF Inv, Base, OtherTypes
  <2>4. Base'
    BY <1>2, <1>4, <2>1, <2>2, <2>3 DEF Inv, Base, OtherTypes, Beside
  <2> QED  BY <1>3, <1>6, <2>4 DEF Kept
<1> QED  BY <1>5, <1>6

\* The resource answers what the mover asked it to add.
LEMMA AdditionIsProcessed ==
  ASSUME Inv, Beside, NEW w \in work, w.at = "adding",
         ChangeProcessed(sch, record, IF recursiveMover = NoArg THEN work \ {w} ELSE work,
                         NoChange, recursiveMover),
         mishaps' = mishaps \cup StaleChange(w),
         UNCHANGED <<replies, movers, recursiveMover>>
  PROVE  Kept
<1>1. PICK N : N = StaleChange(w)
  OBVIOUS
<1>2. mishaps' = mishaps \cup N /\ N \in SUBSET Mishap /\ Placed(work, movers)
  BY <1>1, StaleIsMishap, WorkTypes
<1>3. w.type = "RecursiveMoveReplay" /\ w.arg \in Moves
  BY WorkTypes DEF Fits
<1>4. /\ movers \in [Moves -> Mover] /\ recursiveMover \in Moves \cup {NoArg}
      /\ record \in Seq(Change) /\ answered \subseteq Change \cup {NoChange}
  BY DEF Inv, Base, OtherTypes
<1>5. ASSUME ~Astray' PROVE recursiveMover # NoArg
  <2>1. w.live
    BY <1>5, NotStaleChange
  <2>2. LiveSound(sch.current, work, recursiveMover, movers)
    BY DEF Inv, Orderly
  <2>3. recursiveMover = w.arg
    BY <1>3, <2>1, <2>2 DEF LiveSound
  <2> QED  BY <1>3, <2>3, ResourceBaseAssumption
<1>6. CASE recursiveMover = NoArg
  <2>1. PICK W, c : W = work \ {w} /\ c = NoChange
    OBVIOUS
  <2>2. /\ Placed(W, movers) /\ c \in Change \cup {NoChange} /\ Good(sch)
        /\ ChangeProcessed(sch, record, W, c, recursiveMover)
    BY <1>6, <2>1, WorkTypes DEF Inv, Base
  <2>3. /\ record' \in Seq(Change) /\ answered' = answered \cup {c}
        /\ Good(sch') /\ Placed(work', movers)
    BY <1>4, <1>6, <2>2, ChangeEnds
  <2>4. mishaps' \subseteq Mishap
    BY <1>2 DEF Inv, Base, OtherTypes
  <2>5. Base'
    BY <1>4, <2>2, <2>3, <2>4 DEF Inv, Base, OtherTypes, Beside
  <2> QED  BY <1>5, <1>6, <2>5 DEF Kept
<1>7. CASE recursiveMover # NoArg
  <2>1. /\ answered' = answered \cup {NoChange} /\ sch' = sch /\ record' = record
        /\ work' = {IF x.at = "adding" THEN [x EXCEPT !.at = "finishing"] ELSE x : x \in work}
    BY <1>7 DEF ChangeProcessed
  <2>2. Follows(work, work', movers)
    BY <1>2, <2>1, AddedAre
  <2>3. /\ Placed(work', movers)
        /\ LiveSound(sch.current, work, recursiveMover, movers)
             => LiveSound(sch.current, work', recursiveMover, movers)
        /\ ChangesSound(work, record, movers) => ChangesSound(work', record, movers)
    BY <2>2 DEF Follows
  <2>4. answered \subseteq answered' /\ answered' \subseteq Change \cup {NoChange}
    BY <1>4, <2>1
  <2>5. UNCHANGED <<sch, replies, record, movers, recursiveMover>>
    BY <2>1
  <2> QED  BY <1>2, <2>3, <2>4, <2>5, GoingOnKeeps
<1> QED  BY <1>6, <1>7

LEMMA ProcessedIsKept ==
  ASSUME Inv, Beside, NEW w \in work, Processed(w)
  PROVE  Kept
<1>1. /\ mishaps' = mishaps \cup StaleChange(w)
      /\ UNCHANGED <<replies, movers, recursiveMover>>
  BY DEF Processed
<1>2. CASE w.at = "adding"
  <2>1. ChangeProcessed(sch, record, IF recursiveMover = NoArg THEN work \ {w} ELSE work,
                        NoChange, recursiveMover)
    BY <1>2 DEF Processed
  <2> QED  BY <1>1, <1>2, <2>1, AdditionIsProcessed
<1>3. CASE w.at # "adding"
  <2>1. /\ ChangeProcessed(sch, record, work \ {w}, w.change, recursiveMover)
        /\ w.at \in {"resource", "commit"}
        /\ w.type \in {"ChangeReplay", "RecursiveMoveReplay"}
    BY <1>3 DEF Processed
  <2>2. w.type = "ChangeReplay"
    BY <2>1, WorkTypes DEF Fits
  <2> QED  BY <1>1, <2>1, <2>2, ChangeIsProcessed
<1> QED  BY <1>2, <1>3

LEMMA MoverGoesOnKeeps ==
  ASSUME Inv, Beside, NEW w \in work, MoverGoesOn(w)
  PROVE  Kept
<1>1. w.at = "listing" /\ GoesOn(w, work \ {w}, "adding")
  BY DEF MoverGoesOn
<1>2. w.type = "RecursiveMoveReplay"
  BY <1>1, WorkTypes DEF Fits
<1>3. Fits("adding", w.type) /\ "adding" \in Place
  BY <1>2 DEF Fits, Place, Trees
<1> QED  BY <1>1, <1>2, <1>3, ToPlaceKeeps

\* A mover is deleted with what it had under way, but for what the resource adds.
LEMMA MoverDeleted ==
  ASSUME Inv, NEW w \in work, w.at \in {"listing", "adding", "finishing"},
         movers' = [movers EXCEPT ![w.arg].is = "deleted"],
         NEW V \in SUBSET work
  PROVE  /\ w.type = "RecursiveMoveReplay" /\ w.arg \in Moves
         /\ movers' \in [Moves -> Mover] /\ movers'[w.arg].is = "deleted"
         /\ \A m \in Moves : m # w.arg => movers'[m] = movers[m]
         /\ \A m \in Moves : InHand(m, movers') =>
              m # w.arg /\ InHand(m, movers) /\ movers'[m].change = movers[m].change
         /\ Placed(V, movers')
<1>1. w.type = "RecursiveMoveReplay" /\ w.arg \in Moves
  BY WorkTypes DEF Fits
<1>2. movers \in [Moves -> Mover] /\ Placed(work, movers)
  BY DEF Inv, Base, OtherTypes
<1>3. /\ movers' \in [Moves -> Mover] /\ movers'[w.arg].is = "deleted"
      /\ \A m \in Moves : m # w.arg => movers'[m] = movers[m]
  BY <1>1, <1>2 DEF Mover
<1>4. \A m \in Moves : InHand(m, movers') =>
        m # w.arg /\ InHand(m, movers) /\ movers'[m].change = movers[m].change
  BY <1>3 DEF InHand
<1>5. Placed(V, movers')
  BY <1>2, <1>3 DEF Placed
<1> QED  BY <1>1, <1>3, <1>4, <1>5

LEMMA MoverDoneKeeps ==
  ASSUME Inv, Beside, NEW w \in work, MoverDone(w)
  PROVE  Kept
<1>1. /\ w.at \in {"listing", "finishing"}
      /\ movers' = [movers EXCEPT ![w.arg].is = "deleted"]
      /\ recursiveMover' = NoArg /\ replies' = replies
      /\ ChangeProcessed(sch, record, work \ Of(w.arg), w.change, NoArg)
      /\ mishaps' = mishaps \cup StaleChange(w)
  BY DEF MoverDone
<1>2. PICK W, N, c, mover :
        W = work \ Of(w.arg) /\ N = StaleChange(w) /\ c = w.change /\ mover = NoArg
  OBVIOUS
<1>3. /\ mishaps' = mishaps \cup N /\ N \in SUBSET Mishap
      /\ c \in Change \cup {NoChange} /\ ChangeProcessed(sch, record, W, c, mover)
  BY <1>1, <1>2, StaleIsMishap, WorkTypes
<1>4. /\ w.type = "RecursiveMoveReplay" /\ w.arg \in Moves
      /\ movers' \in [Moves -> Mover]
      /\ \A m \in Moves : InHand(m, movers') => m # w.arg /\ InHand(m, movers)
      /\ Placed(W, movers')
  BY <1>1, <1>2, MoverDeleted
<1>5. ASSUME ~Astray'
      PROVE  /\ ~IsFetch(sch.current)
             /\ movers[w.arg].is = "running" /\ c = movers[w.arg].change
  <2>1. w.live /\ w.type = sch.current.type
    BY <1>2, <1>3, <1>5, NotStaleChange
  <2>2. LiveSound(sch.current, work, recursiveMover, movers)
    BY DEF Inv, Orderly
  <2> QED  BY <1>2, <1>4, <2>1, <2>2 DEF LiveSound, IsFetch
<1>6. ASSUME ~Astray', mishaps' \cap {"givenUp", "twice"} = {}
      PROVE  /\ record # <<>> /\ c = Head(record)
             /\ \A m \in Moves : ~InHand(m, movers')
  <2>1. ChangesSound(work, record, movers)
    BY <1>3, <1>6 DEF Inv, Orderly
  <2>2. InHand(w.arg, movers)
    BY <1>5, <1>6 DEF InHand
  <2> QED  BY <1>4, <1>5, <1>6, <2>1, <2>2 DEF ChangesSound
<1>7. recursiveMover' \in Moves \cup {NoArg}
  BY <1>1
<1> QED  BY <1>1, <1>2, <1>3, <1>4, <1>5, <1>6, <1>7, ProcessedKeeps

LEMMA ResourceDefersKeeps ==
  ASSUME Inv, Beside, NEW w \in work, ResourceDefers(w)
  PROVE  Kept
<1>1. PICK V, N : V = work \ {w} /\ N = Stale(w)
  OBVIOUS
<1>2. /\ sch' = deferTask(sch) /\ work' = Orphans(V) /\ mishaps' = mishaps \cup N
      /\ UNCHANGED <<replies, record, answered, movers, recursiveMover>>
  BY <1>1 DEF ResourceDefers
<1>3. /\ Placed(V, movers) /\ N \in SUBSET Mishap
      /\ movers \in [Moves -> Mover] /\ recursiveMover \in Moves \cup {NoArg}
  BY <1>1, WorkTypes, StaleIsMishap DEF Inv, Base, OtherTypes
<1>4. /\ Placed(V, movers')
      /\ movers' \in [Moves -> Mover] /\ recursiveMover' \in Moves \cup {NoArg}
      /\ \A m \in Moves : InHand(m, movers') =>
           InHand(m, movers) /\ movers'[m].change = movers[m].change
  BY <1>2, <1>3
<1> QED  BY <1>2, <1>3, <1>4, DeferKeeps

LEMMA MoverFailsKeeps ==
  ASSUME Inv, Beside, NEW w \in work, MoverFails(w)
  PROVE  Kept
<1>1. PICK V, N : V = work \ {x \in Of(w.arg) : x.at # "adding"} /\ N = Stale(w)
  OBVIOUS
<1>2. /\ sch' = deferTask(sch) /\ work' = Orphans(V) /\ mishaps' = mishaps \cup N
      /\ UNCHANGED <<replies, record, answered>>
      /\ movers' = [movers EXCEPT ![w.arg].is = "deleted"] /\ recursiveMover' = NoArg
      /\ w.at \in {"listing", "adding", "finishing"}
  BY <1>1 DEF MoverFails
<1>3. /\ Placed(V, movers') /\ movers' \in [Moves -> Mover]
      /\ \A m \in Moves : InHand(m, movers') =>
           InHand(m, movers) /\ movers'[m].change = movers[m].change
  BY <1>1, <1>2, MoverDeleted
<1>4. N \in SUBSET Mishap /\ recursiveMover' \in Moves \cup {NoArg}
  BY <1>1, <1>2, StaleIsMishap
<1> QED  BY <1>2, <1>3, <1>4, DeferKeeps

-----------------------------------------------------------------------------
(* Tasks that start *)

\* Only the scheduler changes, and perhaps who waits for an answer.
LEMMA SchedulerOnly ==
  ASSUME Inv, Good(sch'),
         LiveSound(sch.current, work, recursiveMover, movers)
           => LiveSound(sch'.current, work, recursiveMover, movers),
         Planned(sch) => Planned(sch'),
         CallersSound(sch, asked, replies, "unanswered" \in mishaps)
           => CallersSound(sch', asked', replies', "unanswered" \in mishaps),
         asked' \subseteq Requests, replies' \in [Requests -> Nat],
         UNCHANGED Others
  PROVE  Kept
<1>1. UNCHANGED <<record, answered, work, movers, recursiveMover, notified, faults, mishaps>>
  BY DEF Others
<1>2. Base'
  BY <1>1 DEF Inv, Base, OtherTypes
<1>3. /\ LiveSound(sch'.current, work', recursiveMover', movers')
      /\ CallersSound(sch', asked', replies', "unanswered" \in mishaps')
      /\ record' # <<>> => Planned(sch') \/ "aborted" \in mishaps'
  BY <1>1 DEF Inv, Orderly
<1>4. mishaps' \cap {"givenUp", "twice"} = {} =>
        ChangesSound(work', record', movers') /\ NoneLost(record', answered', notified')
  BY <1>1 DEF Inv, Orderly
<1> QED  BY <1>2, <1>3, <1>4 DEF Kept, Orderly

LEMMA CallersKept ==
  ASSUME asked' = asked, replies' = replies, Unanswered(sch') = Unanswered(sch),
         CallersSound(sch, asked, replies, "unanswered" \in mishaps)
  PROVE  CallersSound(sch', asked', replies', "unanswered" \in mishaps)
<1>1. PICK u : u = sch'
  OBVIOUS
<1>2. Unanswered(u) = Unanswered(sch)
  BY <1>1
<1>3. CallersSound(u, asked, replies, "unanswered" \in mishaps)
  BY <1>2 DEF CallersSound
<1> QED  BY <1>1, <1>3

\* s is the scheduler that has just started a task.
Begins(s) ==
  /\ Good(s) /\ s.current \in Task /\ sch.current = NoTask
  /\ Unanswered(s) = Unanswered(sch) /\ (Planned(sch) => Planned(s))

\* What executeNext() does not change.
Around == UNCHANGED <<asked, replies, notified, faults>>

LEMMA NothingLive ==
  ASSUME Inv, NEW s, Begins(s)
  PROVE  NoneLive(work) /\ Placed(work, movers)
BY DEF Inv, Base, Orderly, Begins, LiveSound, NoneLive

\* A task that ends at once.
LEMMA EndsAtOnce ==
  ASSUME Inv, Around, NEW s, Begins(s), ~IsFetch(s.current), ~IsReplay(s.current),
         sch' = taskDone(s),
         UNCHANGED <<record, answered, work, movers, recursiveMover, mishaps>>
  PROVE  Kept
<1>1. /\ Good(sch') /\ sch'.current = NoTask /\ Unanswered(sch') = Letters(s)
      /\ ReplayQueued(sch') <=> ReplayQueued(s)
  BY DoneLetters DEF Begins
<1>2. Unanswered(sch') = Unanswered(sch)
  BY <1>1, NoMessages DEF Begins
<1>3. Planned(sch) => Planned(sch')
  BY <1>1 DEF Begins, Planned
<1>4. sch'.current = sch.current
  BY <1>1 DEF Begins
<1>5. asked' \subseteq Requests /\ replies' \in [Requests -> Nat]
  BY DEF Inv, Base, OtherTypes, Around
<1>6. CallersSound(sch, asked, replies, "unanswered" \in mishaps)
        => CallersSound(sch', asked', replies', "unanswered" \in mishaps)
  BY <1>2, CallersKept DEF Around
<1> QED  BY <1>1, <1>3, <1>4, <1>5, <1>6, SchedulerOnly DEF Around, Others

\* A task that gets its one piece of work, and has no part in the changes.
LEMMA BeginsWork ==
  ASSUME Inv, Around, NEW s, Begins(s), sch' = s,
         NEW W, NoneLive(W), Placed(W, movers),
         NEW x \in Work, Fits(x.at, x.type), x.live,
         x.type = s.current.type, x.arg = s.current.arg,
         ~IsReplay(s.current), work' = W \cup {x},
         UNCHANGED <<record, answered, movers, recursiveMover, mishaps>>
  PROVE  Kept
<1>1. x.type # "RecursiveMoveReplay" /\ x.type # "ChangeReplay" /\ s.current # NoTask
  BY NoTaskFields, TaskFields DEF IsReplay, Begins
<1>2. Placed(work', movers')
  <2>1. Placed(W \cup {x}, movers)
    BY <1>1, MoreWork
  <2> QED  BY <2>1
<1>3. Base'
  BY <1>2 DEF Inv, Base, OtherTypes, Around, Begins
<1>4. LiveSound(sch'.current, work', recursiveMover', movers')
  <2>1. PICK c, rm : c = s.current /\ rm = recursiveMover
    OBVIOUS
  <2>2. LiveSound(c, W \cup {x}, rm, movers)
    BY <1>1, <2>1, OneLive
  <2> QED  BY <2>1, <2>2
<1>5. record' # <<>> => Planned(sch') \/ "aborted" \in mishaps'
  BY DEF Inv, Orderly, Begins
<1>6. mishaps' \cap {"givenUp", "twice"} = {} =>
        ChangesSound(work', record', movers') /\ NoneLost(record', answered', notified')
  <2> SUFFICES ASSUME mishaps' \cap {"givenUp", "twice"} = {}
               PROVE  /\ ChangesSound(work', record', movers')
                      /\ NoneLost(record', answered', notified')
    OBVIOUS
  <2>1. ChangesSound(work, record, movers) /\ NoneLost(record, answered, notified)
    BY DEF Inv, Orderly
  <2>2. ChangesSound(W \cup {x}, record, movers)
    BY <1>1, <2>1 DEF ChangesSound, NoneLive
  <2> QED  BY <2>1, <2>2 DEF Around
<1>7. CallersSound(sch', asked', replies', "unanswered" \in mishaps')
  <2>1. Unanswered(sch') = Unanswered(sch)
    BY DEF Begins
  <2> QED  BY <2>1, CallersKept DEF Inv, Orderly, Around
<1> QED  BY <1>3, <1>4, <1>5, <1>6, <1>7 DEF Kept, Orderly

LEMMA FirstPlaceKeeps ==
  ASSUME Inv, Around, NEW s, Begins(s), s.current.type \in DOMAIN FirstPlace,
         sch' = s,
         work' = (IF s.current.type \in {"SyncCollection", "SyncCollectionAttributes"}
                  THEN Forgotten(work) ELSE work)
                 \cup {Begun(FirstPlace[s.current.type], s.current, NoChange)},
         UNCHANGED <<record, answered, movers, recursiveMover, mishaps>>
  PROVE  Kept
<1>1. PICK W : W = (IF s.current.type \in {"SyncCollection", "SyncCollectionAttributes"}
                    THEN Forgotten(work) ELSE work)
  OBVIOUS
<1>2. NoneLive(W) /\ Placed(W, movers)
  BY <1>1, NothingLive, ForgottenAre
<1>3. PICK x : x = Begun(FirstPlace[s.current.type], s.current, NoChange)
  OBVIOUS
<1>4. /\ x.at = FirstPlace[s.current.type] /\ x.type = s.current.type
      /\ x.arg = s.current.arg /\ x.change = NoChange /\ x.live
      /\ x = [at |-> FirstPlace[s.current.type], type |-> s.current.type,
              arg |-> s.current.arg, change |-> NoChange, live |-> TRUE,
              current |-> FirstPlace[s.current.type] \in {"collection", "attributes"}]
  BY <1>3 DEF Begun
<1>5. s.current.type \in {"FetchItem", "SyncCollection", "SyncCollectionAttributes", "SyncAll",
                          "SyncCollectionTree", "Custom", "DeleteResourceCollection",
                          "InvalideCacheForCollection"}
  BY DEF FirstPlace
<1>6. x.at \in Place /\ Fits(x.at, x.type) /\ ~IsReplay(s.current)
  BY <1>4, <1>5 DEF FirstPlace, Place, Fits, Trees, IsReplay
<1>7. x \in Work
  <2>1. /\ s.current.type \in TaskType
        /\ s.current.arg \in Collections \cup Fetches \cup Methods \cup Moves \cup {NoArg}
    BY TaskFields DEF Begins
  <2> QED  BY <1>4, <1>6, <2>1 DEF Work
<1>8. work' = W \cup {x}
  BY <1>1, <1>3
<1> QED  BY <1>2, <1>4, <1>6, <1>7, <1>8, BeginsWork

LEMMA StartMoverKeeps ==
  ASSUME Inv, Around, NEW s, Begins(s), s.current.type = "RecursiveMoveReplay",
         StartMover(s), sch' = s, UNCHANGED <<record, answered>>
  PROVE  Kept
<1>1. PICK m \in Moves : m = s.current.arg
  BY TaskFields DEF Begins
<1>2. /\ recursiveMover' = m
      /\ IF movers[m].is = "deleted"
         THEN UNCHANGED <<work, movers>>
         ELSE /\ work' = (work \ Of(m)) \cup {[w EXCEPT !.live = TRUE] : w \in Of(m)}
                          \cup {Begun("listing", s.current, movers[m].change)}
              /\ movers' = [movers EXCEPT ![m].is = "running"]
      /\ mishaps' = mishaps \cup (IF movers[m].is # "waiting" \/ recursiveMover # NoArg
                                  THEN {"dangling"} ELSE {})
  BY <1>1 DEF StartMover
<1>3. NoneLive(work) /\ Placed(work, movers) /\ movers \in [Moves -> Mover]
  BY NothingLive DEF Inv, Base, OtherTypes
<1>4. mishaps' \subseteq Mishap /\ mishaps \subseteq mishaps'
  BY <1>2 DEF Inv, Base, OtherTypes, Mishap
<1>5. CallersSound(sch', asked', replies', "unanswered" \in mishaps')
  <2>1. Unanswered(sch') = Unanswered(sch)
    BY DEF Begins
  <2>2. "unanswered" \in mishaps' <=> "unanswered" \in mishaps
    BY <1>2
  <2> QED  BY <2>1, <2>2, CallersKept DEF Inv, Orderly, Around
<1>6. CASE movers[m].is = "deleted"
  <2>1. UNCHANGED <<work, movers>> /\ "dangling" \in mishaps'
    BY <1>2, <1>6
  <2>2. Base'
    BY <1>2, <1>4, <2>1 DEF Inv, Base, OtherTypes, Around, Begins
  <2> QED  BY <2>1, <2>2 DEF Kept, Astray
<1>7. CASE movers[m].is # "deleted"
  <2>1. PICK x : x = Begun("listing", s.current, movers[m].change)
    OBVIOUS
  <2>2. PICK L : L = {[w EXCEPT !.live = TRUE] : w \in Of(m)}
    OBVIOUS
  <2>3. /\ work' = (work \ Of(m)) \cup L \cup {x}
        /\ movers' = [movers EXCEPT ![m].is = "running"]
    BY <1>2, <1>7, <2>1, <2>2
  <2>4. /\ movers' \in [Moves -> Mover] /\ movers'[m].is = "running"
        /\ movers'[m].change = movers[m].change
        /\ \A k \in Moves : k # m => movers'[k] = movers[k]
    BY <1>3, <2>3 DEF Mover
  <2>5. /\ x.at = "listing" /\ x.type = "RecursiveMoveReplay" /\ x.arg = m
        /\ x.change = movers[m].change /\ x.live
        /\ x = [at |-> "listing", type |-> "RecursiveMoveReplay", arg |-> m,
                change |-> movers[m].change, live |-> TRUE,
                current |-> "listing" \in {"collection", "attributes"}]
    BY <1>1, <2>1 DEF Begun
  <2>6. x \in Work /\ Fits(x.at, x.type)
    <3>1. movers[m].change \in Change \cup {NoChange}
      BY <1>3 DEF Mover
    <3>2. x \in Work
      BY <2>5, <3>1 DEF Work, Place, TaskType
    <3> QED  BY <2>5, <3>2 DEF Fits, Trees
  <2>7. \A l \in L : /\ l \in Work /\ l.type = "RecursiveMoveReplay" /\ l.arg = m
                     /\ Fits(l.at, l.type)
    <3>1. ASSUME NEW w \in Of(m)
          PROVE  LET l == [w EXCEPT !.live = TRUE] IN
                   /\ l \in Work /\ l.type = "RecursiveMoveReplay" /\ l.arg = m
                   /\ Fits(l.at, l.type)
      <4>1. w \in Work /\ w.type = "RecursiveMoveReplay" /\ w.arg = m /\ Fits(w.at, w.type)
        BY <1>3 DEF Of, Placed
      <4>2. PICK l : l = [w EXCEPT !.live = TRUE]
        OBVIOUS
      <4>3. l \in Work /\ l.type = w.type /\ l.arg = w.arg /\ l.at = w.at
        BY <4>1, <4>2 DEF Work
      <4> QED  BY <4>1, <4>2, <4>3
    <3> QED  BY <2>2, <3>1
  <2>8. Placed(work', movers')
    BY <1>3, <2>3, <2>4, <2>5, <2>6, <2>7 DEF Placed
  <2>9. Base'
    BY <1>2, <1>4, <2>4, <2>8 DEF Inv, Base, OtherTypes, Around, Begins
  <2>10. ASSUME ~Astray'
         PROVE  /\ LiveSound(sch'.current, work', recursiveMover', movers')
                /\ mishaps' = mishaps
                /\ ChangesSound(work, record, movers) => ChangesSound(work', record, movers')
    <3>1. movers[m].is = "waiting" /\ recursiveMover = NoArg /\ mishaps' = mishaps
      BY <1>2, <2>10 DEF Astray
    <3>2. Of(m) = {}
      BY <1>3, <3>1 DEF Of, Placed
    <3>3. work' = work \cup {x}
      BY <2>2, <2>3, <3>2
    <3>4. PICK c, mv, rm : c = s.current /\ mv = movers' /\ rm = m
      OBVIOUS
    <3>5. /\ x.live /\ x.type = c.type /\ x.arg = c.arg /\ c # NoTask
          /\ rm = x.arg /\ mv[x.arg].is = "running" /\ x.change = mv[x.arg].change
      BY <1>1, <2>4, <2>5, <3>4, TaskFields DEF Begins
    <3>6. LiveSound(c, work \cup {x}, rm, mv)
      BY <1>3, <2>5, <3>5, OneLive
    <3>7. \A k \in Moves : /\ InHand(k, movers') <=> InHand(k, movers)
                           /\ movers'[k].change = movers[k].change
      BY <2>4, <3>1 DEF InHand
    <3>8. ASSUME ChangesSound(work, record, movers)
          PROVE  ChangesSound(work', record, movers')
      BY <1>3, <2>5, <3>3, <3>7, <3>8 DEF ChangesSound, NoneLive
    <3> QED  BY <1>2, <3>1, <3>3, <3>4, <3>6, <3>8
  <2>11. Planned(sch')
    BY DEF Planned, IsReplay
  <2>12. ASSUME ~Astray', mishaps' \cap {"givenUp", "twice"} = {}
         PROVE  ChangesSound(work', record', movers') /\ NoneLost(record', answered', notified')
    BY <2>10, <2>12 DEF Inv, Orderly, Around
  <2> QED  BY <1>5, <2>9, <2>10, <2>11, <2>12 DEF Kept, Orderly
<1> QED  BY <1>6, <1>7

LEMMA ReplayNextKeeps ==
  ASSUME Inv, Around, NEW s, Begins(s), s.current.type = "ChangeReplay",
         ReplayNext(s), recursiveMover' = recursiveMover
  PROVE  Kept
<1> DEFINE stuck == record # <<>> /\ ~Head(record).moved
                    /\ \E w \in work : w.at = "data" /\ w.change = Head(record)
<1>1. PICK r, M : /\ r = (IF stuck THEN Tail(record) ELSE record)
                  /\ M = (IF stuck THEN {"givenUp"} ELSE {})
  OBVIOUS
<1>2. \/ /\ r = <<>>
         /\ sch' = taskDone(s)
         /\ record' = r
         /\ mishaps' = mishaps \cup M
         /\ UNCHANGED <<answered, work, movers>>
      \/ /\ r # <<>>
         /\ Emit(s, r, work, Head(r), TRUE, M)
      \/ /\ r # <<>>
         /\ sch' = s /\ record' = r
         /\ work' = work \cup {Begun("data", s.current, Head(r))}
         /\ mishaps' = mishaps \cup M
         /\ UNCHANGED <<answered, movers>>
  BY <1>1 DEF ReplayNext
<1>3. /\ r \in Seq(Change) /\ M \in SUBSET Mishap
      /\ (mishaps \cup M) \cap {"givenUp", "twice"} = {} => r = record
  <2>1. record \in Seq(Change)
    BY DEF Inv, Base, OtherTypes
  <2>2. stuck => record # <<>>
    OBVIOUS
  <2> HIDE DEF stuck
  <2>3. CASE stuck
    BY <1>1, <2>1, <2>2, <2>3 DEF Mishap
  <2>4. CASE ~stuck
    BY <1>1, <2>1, <2>4
  <2> QED  BY <2>3, <2>4
<1>4. NoneLive(work) /\ Placed(work, movers) /\ Good(s) /\ s.current \in Task
  BY NothingLive DEF Begins
<1>5. IsReplay(s.current) /\ ~IsFetch(s.current) /\ s.current # NoTask
  BY <1>4, TaskFields DEF IsReplay, IsFetch
<1>6. (mishaps \cup M) \cap {"givenUp", "twice"} = {} =>
        ChangesSound(work, r, movers) /\ NoneLost(r, answered, notified)
  BY <1>3 DEF Inv, Orderly
<1>7. \A u : Unanswered(u) = Unanswered(sch) /\ u = sch' /\ mishaps' = mishaps \cup M
               => CallersSound(sch', asked', replies', "unanswered" \in mishaps')
  <2> SUFFICES ASSUME NEW u, Unanswered(u) = Unanswered(sch), u = sch',
                      mishaps' = mishaps \cup M
               PROVE  CallersSound(sch', asked', replies', "unanswered" \in mishaps')
    OBVIOUS
  <2>1. "unanswered" \in mishaps' <=> "unanswered" \in mishaps
    BY <1>1
  <2>2. Unanswered(sch') = Unanswered(sch)
    OBVIOUS
  <2> QED  BY <2>1, <2>2, CallersKept DEF Inv, Orderly, Around
<1> HIDE DEF stuck
<1>8. CASE /\ r = <<>>
           /\ sch' = taskDone(s)
           /\ record' = r
           /\ mishaps' = mishaps \cup M
           /\ UNCHANGED <<answered, work, movers>>
  <2>1. Good(sch') /\ sch'.current = NoTask /\ Unanswered(sch') = Unanswered(sch)
    BY <1>4, <1>5, <1>8, DoneLetters, NoMessages DEF Begins
  <2>2. Base'
    BY <1>3, <1>8, <2>1 DEF Inv, Base, OtherTypes, Around
  <2>3. LiveSound(sch'.current, work', recursiveMover', movers')
    BY <1>4, <1>8, <2>1, IdleSound
  <2>4. CallersSound(sch', asked', replies', "unanswered" \in mishaps')
    BY <1>7, <1>8, <2>1
  <2> QED  BY <1>6, <1>8, <2>2, <2>3, <2>4 DEF Kept, Orderly, Around
<1>9. CASE r # <<>> /\ Emit(s, r, work, Head(r), TRUE, M)
  <2>1. PICK c, live : c = Head(r) /\ live = TRUE
    OBVIOUS
  <2>2. Head(r) \in Change
    BY <1>3, <1>9
  <2>8. live \in BOOLEAN /\ c \in Change \cup {NoChange}
    BY <2>1, <2>2
  <2>9. Emit(s, r, work, c, live, M)
    BY <1>9, <2>1
  <2>3. /\ UNCHANGED <<asked, replies, recursiveMover, notified>>
        /\ faults' \in 0..MaxFaults /\ Base /\ ~Astray /\ Orderly
    BY DEF Around, Inv, Base, OtherTypes
  <2>4. Good(s) /\ Unanswered(s) = Unanswered(sch)
    BY DEF Begins
  <2>5. live => NoneLive(work) /\ s.current.type = "ChangeReplay"
    BY <1>4
  <2>6. live /\ (mishaps \cup M) \cap {"givenUp", "twice"} = {} =>
          /\ r # <<>> /\ c = Head(r)
          /\ ChangesSound(work, r, movers) /\ NoneLost(r, answered, notified)
    BY <1>6, <1>9, <2>1
  <2>7. live \/ "stale" \in M
    BY <2>1
  <2> QED  BY <1>3, <1>4, <2>3, <2>4, <2>5, <2>6, <2>7, <2>8, <2>9, EmitKeeps
<1>10. CASE /\ r # <<>>
            /\ sch' = s /\ record' = r
            /\ work' = work \cup {Begun("data", s.current, Head(r))}
            /\ mishaps' = mishaps \cup M
            /\ UNCHANGED <<answered, movers>>
  <2>1. PICK x : x = Begun("data", s.current, Head(r))
    OBVIOUS
  <2>2. /\ x.at = "data" /\ x.type = "ChangeReplay" /\ x.arg = s.current.arg
        /\ x.change = Head(r) /\ x.live
        /\ x = [at |-> "data", type |-> "ChangeReplay", arg |-> s.current.arg,
                change |-> Head(r), live |-> TRUE,
                current |-> "data" \in {"collection", "attributes"}]
    BY <2>1 DEF Begun
  <2>3. x \in Work /\ Fits(x.at, x.type)
    <3>1. /\ s.current.arg \in Collections \cup Fetches \cup Methods \cup Moves \cup {NoArg}
          /\ Head(r) \in Change
      BY <1>3, <1>4, <1>10, TaskFields
    <3>2. x \in Work
      BY <2>2, <3>1 DEF Work, Place, TaskType, PlainType
    <3> QED  BY <2>2, <3>2 DEF Fits, Trees
  <2>4. work' = work \cup {x} /\ Placed(work', movers)
    BY <1>4, <1>10, <2>1, <2>2, <2>3, MoreWork
  <2>5. Base'
    BY <1>3, <1>10, <2>4 DEF Inv, Base, OtherTypes, Around, Begins
  <2>6. LiveSound(sch'.current, work', recursiveMover', movers')
    <3>1. PICK c, rm : c = s.current /\ rm = recursiveMover
      OBVIOUS
    <3>2. LiveSound(c, work \cup {x}, rm, movers)
      BY <1>4, <1>5, <2>2, <3>1, OneLive
    <3> QED  BY <1>10, <2>4, <3>1, <3>2
  <2>7. Planned(sch')
    BY <1>5, <1>10 DEF Planned
  <2>8. ASSUME mishaps' \cap {"givenUp", "twice"} = {}
        PROVE  ChangesSound(work', record', movers') /\ NoneLost(record', answered', notified')
    <3>1. ChangesSound(work, r, movers) /\ NoneLost(r, answered, notified)
      BY <1>6, <1>10, <2>8
    <3>2. ChangesSound(work \cup {x}, r, movers)
      BY <1>10, <2>2, <3>1 DEF ChangesSound
    <3> QED  BY <1>10, <2>4, <3>1, <3>2 DEF Around
  <2>9. CallersSound(sch', asked', replies', "unanswered" \in mishaps')
    <3>1. Unanswered(sch') = Unanswered(sch)
      BY <1>10 DEF Begins
    <3> QED  BY <1>7, <1>10, <3>1
  <2> QED  BY <2>5, <2>6, <2>7, <2>8, <2>9 DEF Kept, Orderly
<1> QED  BY <1>2, <1>8, <1>9, <1>10

LEMMA TimerFiresKeeps ==
  ASSUME Inv, TimerFires
  PROVE  Kept
<1>1. PICK v : v = executeNext([sch EXCEPT !.timers = @ - 1])
  OBVIOUS
<1>2. /\ sch.timers > 0 /\ Around
      /\ \/ /\ v.current = sch.current
            /\ sch' = v
            /\ UNCHANGED <<record, answered, work, movers, recursiveMover, mishaps>>
         \/ /\ v.current # sch.current
            /\ Start(v)
  BY <1>1 DEF TimerFires, Around
<1>3. /\ Good(v) /\ Unanswered(v) = Unanswered(sch)
      /\ Planned(sch) => Planned(v)
      /\ \/ v.current = sch.current
         \/ sch.current = NoTask /\ v.current \in Task
  BY <1>1, <1>2, NextLetters DEF Inv, Base
<1>4. CASE /\ v.current = sch.current
           /\ sch' = v
           /\ UNCHANGED <<record, answered, work, movers, recursiveMover, mishaps>>
  <2>1. asked' \subseteq Requests /\ replies' \in [Requests -> Nat]
    BY <1>2 DEF Inv, Base, OtherTypes, Around
  <2>2. CallersSound(sch, asked, replies, "unanswered" \in mishaps)
          => CallersSound(sch', asked', replies', "unanswered" \in mishaps)
    BY <1>2, <1>3, <1>4, CallersKept DEF Around
  <2> QED  BY <1>2, <1>3, <1>4, <2>1, <2>2, SchedulerOnly DEF Around, Others
<1>5. CASE v.current # sch.current /\ Start(v)
  <2>1. Begins(v) /\ Around
    BY <1>2, <1>3, <1>5 DEF Begins
  <2>2. CASE /\ v.current.type \in {"SyncAllDone", "SyncCollectionTreeDone", "SyncCollection"}
             /\ sch' = taskDone(v)
             /\ UNCHANGED <<record, answered, work, movers, recursiveMover, mishaps>>
    BY <2>1, <2>2, EndsAtOnce DEF IsFetch, IsReplay
  <2>3. CASE /\ v.current.type = "ChangeReplay"
             /\ ReplayNext(v)
             /\ UNCHANGED recursiveMover
    BY <2>1, <2>3, ReplayNextKeeps
  <2>4. CASE /\ v.current.type = "RecursiveMoveReplay"
             /\ StartMover(v)
             /\ sch' = v
             /\ UNCHANGED <<record, answered>>
    BY <2>1, <2>4, StartMoverKeeps
  <2>5. CASE /\ v.current.type \in DOMAIN FirstPlace
             /\ sch' = v
             /\ work' = (IF v.current.type \in {"SyncCollection", "SyncCollectionAttributes"}
                         THEN Forgotten(work) ELSE work)
                        \cup {Begun(FirstPlace[v.current.type], v.current, NoChange)}
             /\ UNCHANGED <<record, answered, movers, recursiveMover, mishaps>>
    BY <2>1, <2>5, FirstPlaceKeeps
  <2> QED  BY <1>5, <2>2, <2>3, <2>4, <2>5 DEF Start
<1> QED  BY <1>2, <1>4, <1>5

-----------------------------------------------------------------------------
(* Users, clients and the network *)

LEMMA AddsKeeps ==
  ASSUME Inv, Adds(sch, sch'), UNCHANGED <<asked, replies, Others>>
  PROVE  Kept
<1>1. /\ Good(sch') /\ sch'.current = sch.current /\ Unanswered(sch') = Unanswered(sch)
      /\ Planned(sch) => Planned(sch')
  BY DEF Adds, Planned
<1>2. asked' \subseteq Requests /\ replies' \in [Requests -> Nat]
  BY DEF Inv, Base, OtherTypes
<1>3. CallersSound(sch, asked, replies, "unanswered" \in mishaps)
        => CallersSound(sch', asked', replies', "unanswered" \in mishaps)
  BY <1>1, CallersKept
<1> QED  BY <1>1, <1>2, <1>3, SchedulerOnly DEF Others

LEMMA AskKeeps ==
  ASSUME Inv, Ask
  PROVE  Kept
<1>1. PICK t \in Offered :
        sch' = IF t.type = "Custom" THEN scheduleCustomTask(sch, t.arg, "AfterChangeReplay")
               ELSE Schedule(sch, t)
  BY DEF Ask
<1>2. t \in Task /\ ~IsFetch(t) /\ (t.type = "Custom" => t.arg \in Methods)
  BY ResourceBaseAssumption DEF Task, PlainType, CollectionType, IsFetch
<1>3. Good(sch)
  BY DEF Inv, Base
<1>4. CASE t.type = "Custom"
  <2>1. PICK m \in Methods : m = t.arg
    BY <1>2, <1>4
  <2>2. Adds(sch, scheduleCustomTask(sch, m, "AfterChangeReplay"))
    BY <1>3, CustomAdds
  <2>3. PICK u : u = scheduleCustomTask(sch, m, "AfterChangeReplay")
    OBVIOUS
  <2>4. Adds(sch, u) /\ sch' = u
    BY <1>1, <1>4, <2>1, <2>2, <2>3
  <2>5. Adds(sch, sch')
    BY <2>4
  <2> QED  BY <2>5, AddsKeeps DEF Ask
<1>5. CASE t.type # "Custom"
  <2>1. PICK u : u = Schedule(sch, t)
    OBVIOUS
  <2>2. Adds(sch, u) /\ sch' = u
    BY <1>1, <1>2, <1>3, <1>5, <2>1, ScheduleAdds
  <2>3. Adds(sch, sch')
    BY <2>2
  <2> QED  BY <2>3, AddsKeeps DEF Ask
<1> QED  BY <1>4, <1>5

LEMMA GoesOnlineKeeps ==
  ASSUME Inv, GoesOnline
  PROVE  Kept
<1>1. sch' = GoOnline(sch) /\ UNCHANGED <<asked, replies, Others>>
  BY DEF GoesOnline, SetOnline
<1>2. PICK u : u = GoOnline(sch)
  OBVIOUS
<1>3. Adds(sch, u)
  BY <1>2, OnlineLetters DEF Inv, Base
<1>4. Adds(sch, sch')
  BY <1>1, <1>2, <1>3
<1> QED  BY <1>1, <1>4, AddsKeeps

LEMMA RequestIsKept ==
  ASSUME Inv, Request
  PROVE  Kept
<1>1. PICK r \in Requests \ asked, f \in Fetches :
        sch' = scheduleItemFetch(sch, f, r) /\ asked' = asked \cup {r}
  BY DEF Request, RequestItemDelivery
<1>2. UNCHANGED <<replies, Others>>
  BY DEF Request, RequestItemDelivery
<1>3. CallersSound(sch, asked, replies, "unanswered" \in mishaps)
  BY DEF Inv, Orderly
<1>4. r \in Requests \ Unanswered(sch)
  BY <1>1, <1>3 DEF CallersSound
<1>5. PICK u : u = scheduleItemFetch(sch, f, r)
  OBVIOUS
<1>6. Joined(sch, r, u)
  BY <1>4, <1>5, FetchLetters DEF Inv, Base
<1>7. /\ Good(u) /\ Unanswered(u) = Unanswered(sch) \cup {r}
      /\ u.current.type = sch.current.type /\ u.current.arg = sch.current.arg
      /\ u.current = NoTask <=> sch.current = NoTask
      /\ Planned(sch) => Planned(u)
  BY <1>6 DEF Joined, Planned, IsReplay
<1>8. ASSUME LiveSound(sch.current, work, recursiveMover, movers)
      PROVE  LiveSound(sch'.current, work, recursiveMover, movers)
  <2>1. LiveSound(u.current, work, recursiveMover, movers)
    BY <1>7, <1>8 DEF LiveSound
  <2> QED  BY <1>1, <1>5, <2>1
<1>9. CallersSound(sch', asked', replies', "unanswered" \in mishaps)
  <2>1. CallersSound(u, asked \cup {r}, replies, "unanswered" \in mishaps)
    BY <1>1, <1>3, <1>4, <1>7 DEF CallersSound
  <2> QED  BY <1>1, <1>2, <1>5, <2>1
<1>10. asked' \subseteq Requests /\ replies' \in [Requests -> Nat]
  BY <1>1, <1>2 DEF Inv, Base, OtherTypes
<1>11. Good(sch') /\ (Planned(sch) => Planned(sch'))
  BY <1>1, <1>5, <1>7
<1> QED  BY <1>2, <1>8, <1>9, <1>10, <1>11, SchedulerOnly

LEMMA NotifiedKeeps ==
  ASSUME Inv, Notified
  PROVE  Kept
<1>1. PICK moved \in BOOLEAN : record' = Append(record, [number |-> notified', moved |-> moved])
  BY DEF Notified
<1>2. /\ notified < MaxChanges /\ notified' = notified + 1
      /\ sch' = scheduleChangeReplay(sch) /\ mishaps' = mishaps \ {"aborted"}
      /\ UNCHANGED <<asked, replies, answered, work, movers, recursiveMover, faults>>
  BY DEF Notified
<1>3. /\ record \in Seq(Change) /\ notified \in 0..MaxChanges /\ Good(sch)
  BY DEF Inv, Base, OtherTypes
<1>4. PICK x : x = [number |-> notified', moved |-> moved]
  OBVIOUS
<1>5. x \in Change /\ x.number = notified + 1 /\ notified' \in 0..MaxChanges
  BY <1>2, <1>3, <1>4, ResourceBaseAssumption DEF Change
<1>6. /\ record' \in Seq(Change) /\ Elements(record') = Elements(record) \cup {x}
      /\ record # <<>> => record' # <<>> /\ Head(record') = Head(record)
  <2>1. record' = Append(record, x)
    BY <1>1, <1>4
  <2>2. Elements(Append(record, x)) = Elements(record) \cup {x}
    BY <1>3, <1>5, AppendElements
  <2> QED  BY <1>3, <1>5, <2>1, <2>2
<1>7. PICK u : u = scheduleChangeReplay(sch)
  OBVIOUS
<1>8. Adds(sch, u) /\ ReplayQueued(u) /\ sch' = u
  BY <1>2, <1>3, <1>7, ReplayIsAdded
<1>9. Good(sch') /\ Planned(sch') /\ sch'.current = sch.current
      /\ Unanswered(sch') = Unanswered(sch)
  BY <1>8 DEF Adds, Planned
<1>10. Base'
  BY <1>2, <1>5, <1>6, <1>9 DEF Inv, Base, OtherTypes
<1>11. LiveSound(sch'.current, work', recursiveMover', movers')
  BY <1>2, <1>9 DEF Inv, Orderly
<1>12. ASSUME mishaps' \cap {"givenUp", "twice"} = {}
       PROVE  ChangesSound(work', record', movers') /\ NoneLost(record', answered', notified')
  <2>1. ChangesSound(work, record, movers) /\ NoneLost(record, answered, notified)
    BY <1>2, <1>12 DEF Inv, Orderly
  <2>2. ChangesSound(work, record', movers)
    BY <1>6, <2>1 DEF ChangesSound
  <2>3. NoneLost(record', answered, notified')
    BY <1>2, <1>3, <1>5, <1>6, <2>1 DEF NoneLost
  <2> QED  BY <1>2, <2>2, <2>3
<1>13. CallersSound(sch', asked', replies', "unanswered" \in mishaps')
  <2>1. CallersSound(sch', asked', replies', "unanswered" \in mishaps)
    BY <1>2, <1>9, CallersKept DEF Inv, Orderly
  <2> QED  BY <1>2, <2>1
<1> QED  BY <1>9, <1>10, <1>11, <1>12, <1>13 DEF Kept, Orderly

LEMMA GoesOfflineKeeps ==
  ASSUME Inv, GoesOffline
  PROVE  Kept
<1>1. PICK stopped \in SUBSET {w \in work : w.at \in {"resource", "adding"}} :
        work' = Orphans(work \ stopped)
  BY DEF GoesOffline
<1>2. /\ sch' = GoOffline(sch) /\ Reply(CanceledBy(sch)) /\ faults' \in 0..MaxFaults
      /\ UNCHANGED <<asked, record, answered, movers, recursiveMover, notified, mishaps>>
  <2>1. faults' \in 0..MaxFaults
    BY ResourceBaseAssumption DEF GoesOffline, Fault, Inv, Base, OtherTypes
  <2> QED  BY <2>1 DEF GoesOffline, SetOffline
<1>3. PICK u, M : u = GoOffline(sch) /\ M = CanceledBy(sch)
  OBVIOUS
<1>4. /\ Good(u) /\ u.current = NoTask /\ Unanswered(u) = {} /\ M = Unanswered(sch)
      /\ Planned(sch) => ReplayQueued(u)
  BY <1>3, OfflineLetters DEF Inv, Base
<1>5. Placed(work', movers) /\ NoneLive(work')
  <2>1. Placed(work \ stopped, movers)
    BY LessWork DEF Inv, Base
  <2> QED  BY <1>1, <2>1, OrphansAre
<1>6. replies' = [r \in Requests |-> IF r \in M THEN replies[r] + 1 ELSE replies[r]]
  BY <1>2, <1>3 DEF Reply
<1>7. Base'
  BY <1>2, <1>3, <1>4, <1>5, <1>6 DEF Inv, Base, OtherTypes
<1>8. LiveSound(sch'.current, work', recursiveMover', movers')
  BY <1>2, <1>3, <1>4, <1>5, IdleSound
<1>9. record' # <<>> => Planned(sch') \/ "aborted" \in mishaps'
  BY <1>2, <1>3, <1>4 DEF Inv, Orderly, Planned
<1>10. ASSUME mishaps' \cap {"givenUp", "twice"} = {}
       PROVE  ChangesSound(work', record', movers') /\ NoneLost(record', answered', notified')
  <2>1. ChangesSound(work, record, movers) /\ NoneLost(record, answered, notified)
    BY <1>2, <1>10 DEF Inv, Orderly
  <2> QED  BY <1>2, <1>5, <2>1, IdleChanges
<1>11. CallersSound(sch', asked', replies', "unanswered" \in mishaps')
  <2>1. CallersSound(sch, asked, replies, "unanswered" \in mishaps)
    BY DEF Inv, Orderly
  <2>2. PICK now : now = replies'
    OBVIOUS
  <2>3. \A r \in Requests : now[r] = IF r \in M THEN replies[r] + 1 ELSE replies[r]
    BY <1>6, <2>2
  <2>4. CallersSound(u, asked, now, "unanswered" \in mishaps)
    BY <1>4, <2>1, <2>3 DEF CallersSound
  <2> QED  BY <1>2, <1>3, <2>2, <2>4
<1> QED  BY <1>7, <1>8, <1>9, <1>10, <1>11 DEF Kept, Orderly

LEMMA AbortKeeps ==
  ASSUME Inv, Abort
  PROVE  Kept
<1>1. /\ sch' = cancelQueues(sch) /\ faults' \in 0..MaxFaults
      /\ mishaps' = mishaps
           \cup (IF record # <<>> THEN {"aborted"} ELSE {})
           \cup (IF Fetching(sch) # {} THEN {"unanswered"} ELSE {})
      /\ UNCHANGED <<asked, replies, record, answered, work, movers, recursiveMover, notified>>
  <2>1. faults' \in 0..MaxFaults
    BY ResourceBaseAssumption DEF Abort, Fault, Inv, Base, OtherTypes
  <2> QED  BY <2>1 DEF Abort, CancelQueues
<1>2. PICK u : u = cancelQueues(sch)
  OBVIOUS
<1>3. Good(u) /\ u.current = sch.current /\ Unanswered(u) = sch.current.msgs
  BY <1>2, CancelLetters DEF Inv, Base
<1>4. mishaps \subseteq mishaps' /\ mishaps' \subseteq Mishap
  BY <1>1 DEF Inv, Base, OtherTypes, Mishap
<1>5. Base'
  BY <1>1, <1>2, <1>3, <1>4 DEF Inv, Base, OtherTypes
<1>6. LiveSound(sch'.current, work', recursiveMover', movers')
  BY <1>1, <1>2, <1>3 DEF Inv, Orderly
<1>7. record' # <<>> => "aborted" \in mishaps'
  BY <1>1
<1>8. ASSUME mishaps' \cap {"givenUp", "twice"} = {}
      PROVE  ChangesSound(work', record', movers') /\ NoneLost(record', answered', notified')
  BY <1>1, <1>4, <1>8 DEF Inv, Orderly
<1>9. Unanswered(u) \subseteq Unanswered(sch)
  BY <1>3 DEF Unanswered
<1>10. "unanswered" \notin mishaps' => Unanswered(u) = Unanswered(sch)
  <2> SUFFICES ASSUME Fetching(sch) = {} PROVE Letters(sch) = {}
    BY <1>1, <1>3 DEF Unanswered
  <2>1. Elements(sch.queue[UserActionQueue]) \subseteq Task
    BY QueueFields DEF Inv, Base, Good, Sound, Raw, UserActionQueue, QueueType
  <2>2. \A t \in Elements(sch.queue[UserActionQueue]) : t.msgs = {}
    BY <2>1, TaskFields DEF Fetching
  <2> QED  BY <2>2 DEF Letters, Msgs
<1>11. CallersSound(sch', asked', replies', "unanswered" \in mishaps')
  <2>1. CallersSound(sch, asked, replies, "unanswered" \in mishaps)
    BY DEF Inv, Orderly
  <2>2. CallersSound(u, asked, replies, "unanswered" \in mishaps')
    BY <1>4, <1>9, <1>10, <2>1 DEF CallersSound
  <2> QED  BY <1>1, <1>2, <2>2
<1> QED  BY <1>5, <1>6, <1>7, <1>8, <1>11 DEF Kept, Orderly

\* The scheduler of a resource that is started.
LEMMA StartedScheduler ==
  LET s == GoOnline(InitialScheduler) IN
  /\ Good(s) /\ s.current = NoTask /\ Unanswered(s) = {}
  /\ Adds(s, scheduleChangeReplay(s)) /\ Planned(scheduleChangeReplay(s))
<1>1. PICK s : s = GoOnline(InitialScheduler)
  OBVIOUS
<1>2. Adds(InitialScheduler, s)
  BY <1>1, InitialLetters, OnlineLetters
<1>3. Good(s) /\ s.current = NoTask /\ Unanswered(s) = {}
  BY <1>2, InitialLetters DEF Adds
<1>4. Adds(s, scheduleChangeReplay(s)) /\ ReplayQueued(scheduleChangeReplay(s))
  BY <1>3, ReplayIsAdded
<1> QED  BY <1>1, <1>3, <1>4 DEF Planned

LEMMA CrashKeeps ==
  ASSUME Inv, CrashAndRestart
  PROVE  Kept
<1>1. PICK s : s = GoOnline(InitialScheduler)
  OBVIOUS
<1>2. /\ sch' = IF record # <<>> THEN scheduleChangeReplay(s) ELSE s
      /\ Reply({r \in asked : replies[r] = 0}) /\ work' = {}
      /\ movers' = [m \in Moves |-> [is |-> "unused", change |-> NoChange]]
      /\ recursiveMover' = NoArg
      /\ mishaps' = mishaps \ {"aborted", "unanswered"}
      /\ UNCHANGED <<asked, record, answered, notified>>
  BY <1>1 DEF CrashAndRestart
<1>3. faults' \in 0..MaxFaults
  BY ResourceBaseAssumption DEF CrashAndRestart, Fault, Inv, Base, OtherTypes
<1>4. /\ Good(s) /\ s.current = NoTask /\ Unanswered(s) = {}
      /\ Adds(s, scheduleChangeReplay(s)) /\ Planned(scheduleChangeReplay(s))
  BY <1>1, StartedScheduler
<1>5. /\ Good(sch') /\ sch'.current = NoTask /\ Unanswered(sch') = {}
      /\ record # <<>> => Planned(sch')
  BY <1>2, <1>4 DEF Adds
<1>6. replies' = [r \in Requests |-> IF r \in asked /\ replies[r] = 0
                                     THEN replies[r] + 1 ELSE replies[r]]
  BY <1>2 DEF Reply
<1>7. movers' \in [Moves -> Mover] /\ \A m \in Moves : ~InHand(m, movers')
  BY <1>2 DEF Mover, InHand
<1>8. Placed(work', movers') /\ NoneLive(work')
  BY <1>2 DEF Placed, NoneLive
<1>9. Base'
  BY <1>2, <1>3, <1>5, <1>6, <1>7, <1>8 DEF Inv, Base, OtherTypes
<1>10. LiveSound(sch'.current, work', recursiveMover', movers')
  BY <1>5, <1>8, IdleSound
<1>11. ASSUME mishaps' \cap {"givenUp", "twice"} = {}
       PROVE  ChangesSound(work', record', movers') /\ NoneLost(record', answered', notified')
  <2>1. ChangesSound(work', record', movers')
    BY <1>7, <1>8 DEF ChangesSound, NoneLive
  <2>2. NoneLost(record, answered, notified)
    BY <1>2, <1>11 DEF Inv, Orderly
  <2> QED  BY <1>2, <2>1, <2>2
<1>12. CallersSound(sch', asked', replies', "unanswered" \in mishaps')
  <2>1. \A r \in Requests : replies[r] \in {0, 1} /\ (r \notin asked => replies[r] = 0)
    BY DEF Inv, Orderly, CallersSound
  <2>2. \A r \in Requests : replies'[r] = IF r \in asked THEN 1 ELSE 0
    BY <1>6, <2>1
  <2>3. asked' = asked
    BY <1>2
  <2> QED  BY <1>5, <2>2, <2>3 DEF CallersSound
<1> QED  BY <1>2, <1>5, <1>9, <1>10, <1>11, <1>12 DEF Kept, Orderly

-----------------------------------------------------------------------------
(* The invariant *)

LEMMA ResourceInitInv == ResourceInit => ResourceInv
<1> SUFFICES ASSUME ResourceInit PROVE ResourceInv
  OBVIOUS
<1>1. Good(sch) /\ sch.current = NoTask /\ Unanswered(sch) = {}
  BY StartedScheduler DEF ResourceInit
<1>2. movers \in [Moves -> Mover] /\ \A m \in Moves : ~InHand(m, movers)
  BY DEF ResourceInit, Mover, InHand
<1>3. Placed(work, movers) /\ NoneLive(work)
  BY DEF ResourceInit, Placed, NoneLive
<1>4. Base
  BY <1>1, <1>2, <1>3, ResourceBaseAssumption DEF ResourceInit, Base, OtherTypes
<1>5. LiveSound(sch.current, work, recursiveMover, movers)
  BY <1>1, <1>3, IdleSound
<1>6. ChangesSound(work, record, movers) /\ NoneLost(record, answered, notified)
  BY <1>2, <1>3 DEF ResourceInit, ChangesSound, NoneLive, NoneLost
<1>7. CallersSound(sch, asked, replies, "unanswered" \in mishaps)
  BY <1>1 DEF ResourceInit, CallersSound
<1>8. record = <<>>
  BY DEF ResourceInit
<1> QED  BY <1>4, <1>5, <1>6, <1>7, <1>8 DEF ResourceInv, Orderly

LEMMA TasksAre ==
  \A t : t \in Tasks(sch) <=>
          \/ \E q \in QueueType : t \in Elements(sch.queue[q])
          \/ t = sch.current /\ sch.current # NoTask
<1> DEFINE U == UNION {Elements(sch.queue[q]) : q \in QueueType}
           C == IF sch.current = NoTask THEN {} ELSE {sch.current}
<1>1. Tasks(sch) = U \cup C
  BY DEF Tasks
<1>2. \A t : t \in U <=> \E q \in QueueType : t \in Elements(sch.queue[q])
  OBVIOUS
<1>3. \A t : t \in C <=> t = sch.current /\ sch.current # NoTask
  OBVIOUS
<1> HIDE DEF U, C
<1> QED  BY <1>1, <1>2, <1>3

LEMMA ReportsKeep ==
  ASSUME Inv, Beside, NEW w \in work, Reports(w)
  PROVE  Kept
BY PreparedKeeps, DataAvailableKeeps, ResourceDoneKeeps, ProcessedIsKept,
   ResourceCancelsKeeps, JobDoneKeeps, SyncDoneKeeps, LocalListDoneKeeps,
   MoverGoesOnKeeps, MoverDoneKeeps
   DEF Reports

LEMMA OutsideKeeps ==
  ASSUME Inv, Outside
  PROVE  Kept
BY AskKeeps, RequestIsKept, NotifiedKeeps, GoesOfflineKeeps, GoesOnlineKeeps,
   AbortKeeps, CrashKeeps
   DEF Outside

LEMMA ResourceStepInv == ResourceInv /\ [ResourceNext]_resourceVars => ResourceInv'
<1> SUFFICES ASSUME ResourceInv, [ResourceNext]_resourceVars PROVE ResourceInv'
  OBVIOUS
<1>1. Kept => ResourceInv'
  BY DEF Kept, ResourceInv
<1>2. ~Astray => Inv
  BY DEF ResourceInv, Inv
<1>3. CASE Runs
  BY <1>1, <1>2, <1>3, TimerFiresKeeps DEF Runs
<1>4. ASSUME ~Astray, NEW w \in work, Reports(w), UNCHANGED <<asked, notified, faults>>
      PROVE  ResourceInv'
  <2>1. Beside
    BY <1>4 DEF Beside, ResourceInv, Base, OtherTypes
  <2> QED  BY <1>1, <1>2, <1>4, <2>1, ReportsKeep
<1>5. ASSUME ~Astray, NEW w \in work, Fault, Faults(w), UNCHANGED <<asked, notified>>
      PROVE  ResourceInv'
  <2>1. Beside
    BY <1>5, ResourceBaseAssumption DEF Fault, Beside, ResourceInv, Base, OtherTypes
  <2> QED  BY <1>1, <1>2, <1>5, <2>1, ResourceDefersKeeps, MoverFailsKeeps DEF Faults
<1>6. CASE ~Astray /\ Outside
  BY <1>1, <1>2, <1>6, OutsideKeeps
<1>7. CASE UNCHANGED resourceVars
  BY <1>7 DEF resourceVars, vars, ResourceInv, Base, OtherTypes, Orderly, Astray
<1> QED  BY <1>3, <1>4, <1>5, <1>6, <1>7 DEF ResourceNext, Reported

\* What the scheduler, the work, the record and the callers have to do with each
\* other holds throughout.
THEOREM ResourceCorrect == ResourceSpec => []ResourceInv
<1>1. ResourceInit => ResourceInv
  BY ResourceInitInv
<1>2. ResourceInv /\ [ResourceNext]_resourceVars => ResourceInv'
  BY ResourceStepInv
<1> QED  BY <1>1, <1>2, PTL DEF ResourceSpec

\* Every variable of ResourceBase has its type.
THEOREM ResourceTypes == ResourceSpec => []ResourceTypeOK
<1>1. ResourceInv => ResourceTypeOK
  <2> SUFFICES ASSUME ResourceInv PROVE ResourceTypeOK
    OBVIOUS
  <2>1. OtherTypes /\ Good(sch) /\ Placed(work, movers)
    BY DEF ResourceInv, Base
  <2>2. sch \in Scheduler
    BY <2>1 DEF Good, Sound
  <2>3. work \subseteq Work
    BY <2>1 DEF Placed
  <2> QED  BY <2>1, <2>2, <2>3 DEF ResourceTypeOK, TypeOK, OtherTypes
<1> QED  BY <1>1, ResourceCorrect, PTL

\* Whatever is reported, put off or cut off by the network: the task that runs
\* has exactly one job or call of the resource at work on it, and one that does
\* not run has none.
THEOREM AlwaysWorkedOn == ResourceSpec => []WorkedOn
<1>1. ResourceInv => WorkedOn
  <2> SUFFICES ASSUME ResourceInv, ~Astray
               PROVE  LET live == {w \in work : w.live} IN
                      IF sch.current = NoTask THEN live = {}
                      ELSE /\ Cardinality(live) = 1
                           /\ \A w \in live :
                                w.type = sch.current.type /\ w.arg = sch.current.arg
    BY DEF WorkedOn
  <2>1. LiveSound(sch.current, work, recursiveMover, movers)
    BY DEF ResourceInv, Orderly
  <2>2. CASE sch.current = NoTask
    BY <2>1, <2>2 DEF LiveSound
  <2>3. CASE sch.current # NoTask
    <3>1. PICK w \in work :
            w.live /\ w.type = sch.current.type /\ w.arg = sch.current.arg
      BY <2>1, <2>3 DEF LiveSound
    <3>2. {x \in work : x.live} = {w}
      BY <2>1, <3>1 DEF LiveSound
    <3>3. Cardinality({w}) = 1
      BY FS_Singleton
    <3> QED  BY <2>3, <3>1, <3>2, <3>3
  <2> QED  BY <2>2, <2>3
<1> QED  BY <1>1, ResourceCorrect, PTL

\* As long as a change is recorded, a task to replay it waits or runs, unless
\* the user has aborted it.
THEOREM AlwaysPlanned == ResourceSpec => []ReplayPlanned
<1>1. ResourceInv => ReplayPlanned
  <2> SUFFICES ASSUME ResourceInv, ~Astray, "aborted" \notin mishaps, record # <<>>
               PROVE  \E t \in Tasks(sch) :
                        t.type \in {"ChangeReplay", "RecursiveMoveReplay"}
    BY DEF ReplayPlanned
  <2>1. Planned(sch)
    BY DEF ResourceInv, Orderly
  <2>2. PICK t : t \in Tasks(sch) /\ IsReplay(t)
    BY <2>1, NoTaskFields, TasksAre DEF Planned, ReplayQueued
  <2> QED  BY <2>2 DEF IsReplay
<1> QED  BY <1>1, ResourceCorrect, PTL

\* A change leaves the record only when the resource has answered it, as long as
\* none is given up and no move is replayed twice.
THEOREM NeverSkipped == ResourceSpec => []NoChangeSkipped
<1>1. ResourceInv => NoChangeSkipped
  BY DEF ResourceInv, Orderly, NoChangeSkipped, NoneLost
<1> QED  BY <1>1, ResourceCorrect, PTL

\* Who asked for an item has one answer, or one task that holds the message.
THEOREM AlwaysServed == ResourceSpec => []CallersServed
<1>1. ResourceInv => CallersServed
  <2> SUFFICES ASSUME ResourceInv, ~Astray, "unanswered" \notin mishaps,
                      NEW r \in asked
               PROVE  \/ replies[r] = 1 /\ Carried(r) = {}
                      \/ replies[r] = 0 /\ Cardinality(Carried(r)) = 1
    BY DEF CallersServed, CallersAccountedFor
  <2>1. /\ r \in Requests /\ replies[r] \in {0, 1}
        /\ replies[r] = 0 <=> r \in Unanswered(sch)
    BY DEF ResourceInv, Orderly, CallersSound, Base, OtherTypes
  <2>2. Good(sch)
    BY DEF ResourceInv, Base
  <2>3. \A q \in QueueType \ {UserActionQueue} :
          \A t \in Elements(sch.queue[q]) : t.msgs = {}
    BY <2>2, QueueFields DEF Good, Sound, Raw
  <2>4. PICK l : l = sch.queue[UserActionQueue]
    OBVIOUS
  <2>5. /\ l \in Seq(Task) /\ Apart(l) /\ Letters(sch) = Msgs(l)
        /\ UserActionQueue \in QueueType
    BY <2>2, <2>4, QueueFields DEF Good, Sound, Raw, UserActionQueue, QueueType
  <2>6. \A t : t \in Carried(r) <=>
                /\ r \in t.msgs
                /\ t \in Elements(l) \/ t = sch.current
    <3>1. \A t : t \in Carried(r) <=> t \in Tasks(sch) /\ r \in t.msgs
      BY DEF Carried
    <3>2. \A t : t \in Elements(l) => t \in Tasks(sch)
      BY <2>4, <2>5, TasksAre
    <3>3. r \in sch.current.msgs => sch.current # NoTask
      BY NoTaskFields
    <3>4. \A t : t \in Tasks(sch) /\ r \in t.msgs => t \in Elements(l) \/ t = sch.current
      BY <2>3, <2>4, TasksAre
    <3> QED  BY <3>1, <3>2, <3>3, <3>4, TasksAre
  <2>7. CASE r \notin Unanswered(sch)
    <3>1. r \notin sch.current.msgs /\ \A t \in Elements(l) : r \notin t.msgs
      BY <2>5, <2>7 DEF Unanswered, Msgs
    <3>2. Carried(r) = {}
      BY <2>6, <3>1
    <3> QED  BY <2>1, <2>7, <3>2
  <2>8. CASE r \in sch.current.msgs
    <3>1. r \notin Letters(sch)
      BY <2>2, <2>8 DEF Good, LettersSound
    <3>2. Carried(r) = {sch.current}
      BY <2>5, <2>6, <2>8, <3>1 DEF Msgs
    <3>3. Cardinality(Carried(r)) = 1
      BY <3>2, FS_Singleton
    <3> QED  BY <2>1, <2>8, <3>3 DEF Unanswered
  <2>9. CASE r \in Letters(sch)
    <3>1. r \notin sch.current.msgs
      BY <2>2, <2>9 DEF Good, LettersSound
    <3>2. PICK t \in Elements(l) : r \in t.msgs
      BY <2>5, <2>9 DEF Msgs
    <3>3. \A u \in Elements(l) : r \in u.msgs => u = t
      BY <2>5, <3>2 DEF Apart, Elements
    <3>4. Carried(r) = {t}
      BY <2>6, <3>1, <3>2, <3>3
    <3>5. Cardinality(Carried(r)) = 1
      BY <3>4, FS_Singleton
    <3> QED  BY <2>1, <2>9, <3>5 DEF Unanswered
  <2> QED  BY <2>7, <2>8, <2>9 DEF Unanswered
<1> QED  BY <1>1, ResourceCorrect, PTL
=============================================================================
