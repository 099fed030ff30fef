---------------------------- MODULE ResourceBase ----------------------------
(***************************************************************************)
(* ResourceBase: what joins the scheduler of a resource, its change        *)
(* recorder and the jobs that do the work of a task.                       *)
(*                                                                         *)
(* The scheduler starts a task; a slot starts a job for it, or calls the   *)
(* resource; what they report goes to the next slot, until one ends the    *)
(* task.  A slot looks at the running task only, so a job that was begun   *)
(* for a task that has been taken back ends whatever runs by then.         *)
(*                                                                         *)
(* Assertions are those of a release build: none.  The recorder is its     *)
(* list here (ChangeRecorder has the rest), a change its number and        *)
(* whether it is a collection that was moved to this resource: then a      *)
(* RecursiveMover adds the contents, as a task of its own.                 *)
(***************************************************************************)
EXTENDS ResourceScheduler

CONSTANTS
  Offered,     \* the tasks that users, timers and the server ask for
  MaxChanges,  \* bound: changes
  MaxFaults    \* bound: offline periods, deferrals, failed movers, aborts, crashes

ASSUME ResourceBaseAssumption ==
  /\ Offered \subseteq [type : {"SyncAll", "SyncCollectionTree", "DeleteResourceCollection"},
                        arg : {NoArg}, msgs : {{}}]
                       \cup [type : CollectionType, arg : Collections, msgs : {{}}]
                       \cup [type : {"Custom"}, arg : Methods, msgs : {{}}]
  /\ NoArg \notin Moves
  /\ MaxChanges \in Nat /\ MaxFaults \in Nat

VARIABLES
  record,    \* the changes that the recorder holds
  answered,  \* the changes that the resource is done with
  work,      \* what is under way and will report to a slot
  movers,    \* the RecursiveMovers
  recursiveMover,  \* m_recursiveMover
  notified,  \* changes so far
  faults,    \* faults so far
  mishaps    \* what went wrong so far

resourceVars == <<vars, record, answered, work, movers, recursiveMover, notified,
                  faults, mishaps>>

Change == [number : 1..MaxChanges, moved : BOOLEAN]
NoChange == [number |-> 0, moved |-> FALSE]

\* The places of the work for a task: a job of ResourceBase, or the resource.
Place == {"data", "prepare", "collection", "attributes", "list", "resource",
          "deliver", "sync", "localList", "job", "commit",
          "listing", "adding", "finishing"}

\* Work: where it is, the task it was begun for (and the change it replays),
\* whether that task still runs, and whether mCurrentCollectionFetchJob is it.
Work == [at : Place, type : TaskType, arg : Collections \cup Fetches \cup Methods \cup Moves
         \cup {NoArg}, change : Change \cup {NoChange}, live : BOOLEAN, current : BOOLEAN]

Mover == [is : {"unused", "waiting", "running", "deleted"},
          change : Change \cup {NoChange}]

Mishap ==
  {"stale",       \* a job ended a task that it was not begun for
   "shared",      \* what was listed for one task went to the sync job of another
   "givenUp",     \* a change left in the pipeline was taken for an ignored one
   "twice",       \* a move was replayed again while its mover waited or ran
   "dangling",    \* a mover was started that is deleted or runs, or while another runs
   "abandoned",   \* the task of a mover that runs was ended, or changes are replayed
   "aborted",     \* tasks to replay changes were dropped
   "unanswered"}  \* requests were dropped without a reply

ResourceInit ==
  /\ sch = GoOnline(InitialScheduler)
  /\ asked = {}
  /\ replies = [r \in Requests |-> 0]
  /\ record = <<>>
  /\ answered = {}
  /\ work = {}
  /\ movers = [m \in Moves |-> [is |-> "unused", change |-> NoChange]]
  /\ recursiveMover = NoArg
  /\ notified = 0 /\ faults = 0
  /\ mishaps = {}

Fault == faults < MaxFaults /\ faults' = faults + 1

\* The running task is over, and with it what the rest of the work was for.
Orphans(W) == {[w EXCEPT !.live = FALSE] : w \in W}

\* No fetch of a collection is mCurrentCollectionFetchJob any more.
Forgotten(W) == {[w EXCEPT !.current = FALSE] : w \in W}

\* Work that is not for the running task ends it.
Stale(w) == IF ~w.live /\ sch.current # NoTask THEN {"stale"} ELSE {}

\* Work that is not for the running task reports the end of a change.
StaleChange(w) == IF w.live THEN {} ELSE {"stale"}

-----------------------------------------------------------------------------
(* Ends of a task *)

\* Mutant: the task goes on.
TaskDoneForgotten(w) ==
  /\ work' = work \ {w}
  /\ mishaps' = mishaps \cup Stale(w)
  /\ UNCHANGED <<sch, replies, record, answered, movers, recursiveMover>>

\* scheduler->taskDone(), as w reports.
EndTask(w) ==
  /\ sch' = taskDone(sch)
  /\ work' = Orphans(work \ {w})
  /\ mishaps' = mishaps \cup Stale(w)
  /\ UNCHANGED <<replies, record, answered, movers, recursiveMover>>

\* Mutant: the callers are not answered.
EndRequestUnanswered(w) == EndTask(w)

\* slotDeliveryDone(), and itemRetrieved() of no item.
EndRequest(w) ==
  /\ Reply(sch.current.msgs)
  /\ sch' = taskDone(sch)
  /\ work' = Orphans(work \ {w})
  /\ mishaps' = mishaps \cup Stale(w)
  /\ UNCHANGED <<record, answered, movers, recursiveMover>>

\* Mutant: the next replay is not scheduled.
ChangeProcessedAlone(s, r, W, c, mover) ==
  /\ answered' = answered \cup {c}
  /\ IF mover # NoArg
     THEN /\ work' = {IF w.at = "adding" THEN [w EXCEPT !.at = "finishing"] ELSE w : w \in W}
          /\ sch' = s /\ record' = r
     ELSE /\ record' = IF r = <<>> THEN r ELSE Tail(r)
          /\ sch' = taskDone(s)
          /\ work' = Orphans(W)

\* changeProcessed(), with the scheduler, the record and the work before: c was
\* dealt with.  While there is a mover the report is its.
ChangeProcessed(s, r, W, c, mover) ==
  /\ answered' = answered \cup {c}
  /\ IF mover # NoArg
     THEN /\ work' = {IF w.at = "adding" THEN [w EXCEPT !.at = "finishing"] ELSE w : w \in W}
          /\ sch' = s /\ record' = r
     ELSE /\ record' = IF r = <<>> THEN r ELSE Tail(r)
          /\ sch' = taskDone(IF record' # <<>> THEN scheduleChangeReplay(s) ELSE s)
          /\ work' = Orphans(W)

Syncs(types) == {w \in work : w.at = "sync" /\ w.type \in types}
Trees == {"SyncAll", "SyncCollectionTree"}

\* The types that share a sync job with t: mCollectionSyncer, or mItemSyncer.
SyncKind(t) == IF t.type \in Trees THEN Trees ELSE {t.type}

\* cancelTask(), as w reports, with the other work before.  A sync job is rolled
\* back, and reports later.
CancelTask(w, W) ==
  LET rest == {x \in W : ~x.current}
      ended == /\ sch' = taskDone(sch)
               /\ work' = Orphans(rest)
               /\ UNCHANGED <<replies, record, answered>>
      later == work' = rest /\ UNCHANGED <<sch, replies, record, answered>>
  IN /\ CASE sch.current.type = "FetchItem" ->
               /\ Reply(sch.current.msgs)
               /\ sch' = taskDone(sch)
               /\ work' = Orphans(rest)
               /\ UNCHANGED <<record, answered>>
          [] sch.current.type = "ChangeReplay" ->
               /\ ChangeProcessed(sch, record, rest, w.change, recursiveMover)
               /\ UNCHANGED replies
          [] sch.current.type \in Trees /\ Syncs(Trees) # {} -> later
          [] sch.current.type = "SyncCollection" /\ Syncs({"SyncCollection"}) # {} -> later
          [] OTHER -> ended
     /\ mishaps' = mishaps \cup Stale(w)
                   \cup (IF sch.current # NoTask /\ Syncs(SyncKind(sch.current)) # {}
                         THEN {"shared"} ELSE {})
                   \cup (IF sch.current.type = "RecursiveMoveReplay" THEN {"abandoned"} ELSE {})
     /\ UNCHANGED <<movers, recursiveMover>>

-----------------------------------------------------------------------------
(* The replay of a change *)

Begun(at, task, change) ==
  [at |-> at, type |-> task.type, arg |-> task.arg, change |-> change, live |-> TRUE,
   current |-> at \in {"collection", "attributes"}]

\* Mutant: the replay goes on while a mover waits.
MoveWithoutEnd(s, W, c, m) ==
  /\ sch' = Schedule(s, MkTask("RecursiveMoveReplay", m))
  /\ work' = W

\* collectionMoved() to this resource: the replay ends, for a mover to go on.
Move(s, W, c, m) ==
  /\ sch' = Schedule(taskDone(s), MkTask("RecursiveMoveReplay", m))
  /\ work' = Orphans(W)

\* A mover is to replay change c, or does.
Moving(c) == \E m \in Moves : movers[m].is \in {"waiting", "running"} /\ movers[m].change = c

\* Change c is emitted, with the scheduler, the record and the other work before:
\* it is passed over for lack of a remote id, goes to the resource, or to a mover.
Emit(s, r, W, c, live, M) ==
  /\ \/ /\ ChangeProcessed(s, r, W, c, recursiveMover)
        /\ UNCHANGED movers
     \/ /\ ~c.moved
        /\ sch' = s \/ \E removed \in Collections : sch' = collectionRemoved(s, removed)
        /\ record' = r
        /\ work' = W \cup {[Begun("resource", MkTask("ChangeReplay", NoArg), c)
                              EXCEPT !.live = live]}
        /\ UNCHANGED <<answered, movers>>
     \/ /\ c.moved
        /\ \E m \in Moves :
             /\ movers[m].is = "unused"
             /\ movers' = [movers EXCEPT ![m] = [is |-> "waiting", change |-> c]]
             /\ Move(s, W, c, m)
        /\ record' = r
        /\ UNCHANGED answered
  /\ mishaps' = mishaps \cup M \cup (IF Moving(c) THEN {"twice"} ELSE {})
                              \cup (IF recursiveMover # NoArg THEN {"abandoned"} ELSE {})

\* replayNext() of the recorder, for the replay task that has been started.  An
\* edit that is still in the pipeline is passed over.
ReplayNext(s) ==
  LET stuck == record # <<>> /\ ~Head(record).moved
               /\ \E w \in work : w.at = "data" /\ w.change = Head(record)
      r == IF stuck THEN Tail(record) ELSE record
      M == IF stuck THEN {"givenUp"} ELSE {}
  IN \/ /\ r = <<>>
        /\ sch' = taskDone(s)
        /\ record' = r
        /\ mishaps' = mishaps \cup M
        /\ UNCHANGED <<answered, work, movers>>
     \/ /\ r # <<>>
        /\ Emit(s, r, work, Head(r), TRUE, M)
     \/ /\ r # <<>>
        /\ sch' = s /\ record' = r
        /\ work' = work \cup {Begun("data", s.current, Head(r))}
        /\ mishaps' = mishaps \cup M
        /\ UNCHANGED <<answered, movers>>

-----------------------------------------------------------------------------
(* executeNext() and the slots it leads to *)

FirstPlace ==
  [FetchItem |-> "prepare", SyncCollection |-> "collection",
   SyncCollectionAttributes |-> "attributes", SyncAll |-> "resource",
   SyncCollectionTree |-> "resource", Custom |-> "resource",
   DeleteResourceCollection |-> "list", InvalideCacheForCollection |-> "job"]

Of(m) == {w \in work : w.type = "RecursiveMoveReplay" /\ w.arg = m}

\* slotRecursiveMoveReplay().  A mover that is deleted never reports; one that
\* runs already lists the collection once more.
StartMover(s) ==
  LET m == s.current.arg IN
  /\ recursiveMover' = m
  /\ IF movers[m].is = "deleted"
     THEN UNCHANGED <<work, movers>>
     ELSE /\ work' = (work \ Of(m)) \cup {[w EXCEPT !.live = TRUE] : w \in Of(m)}
                      \cup {Begun("listing", s.current, movers[m].change)}
          /\ movers' = [movers EXCEPT ![m].is = "running"]
  /\ mishaps' = mishaps \cup (IF movers[m].is # "waiting" \/ recursiveMover # NoArg
                              THEN {"dangling"} ELSE {})

Start(s) ==
  LET type == s.current.type IN
  \/ /\ type \in {"SyncAllDone", "SyncCollectionTreeDone"}
     /\ sch' = taskDone(s)
     /\ UNCHANGED <<record, answered, work, movers, recursiveMover, mishaps>>
  \/ /\ type = "ChangeReplay"
     /\ ReplayNext(s)
     /\ UNCHANGED recursiveMover
  \/ /\ type = "RecursiveMoveReplay"
     /\ StartMover(s)
     /\ sch' = s
     /\ UNCHANGED <<record, answered>>
  \/ /\ type \in DOMAIN FirstPlace
     /\ sch' = s
     /\ work' = (IF type \in {"SyncCollection", "SyncCollectionAttributes"}
                 THEN Forgotten(work) ELSE work)
                \cup {Begun(FirstPlace[type], s.current, NoChange)}
     /\ UNCHANGED <<record, answered, movers, recursiveMover, mishaps>>
  \/ /\ type = "SyncCollection"   \* it has no remote id, or can hold no items
     /\ sch' = taskDone(s)
     /\ UNCHANGED <<record, answered, work, movers, recursiveMover, mishaps>>

TimerFires ==
  /\ sch.timers > 0
  /\ LET s == executeNext([sch EXCEPT !.timers = @ - 1]) IN
       \/ /\ s.current = sch.current
          /\ sch' = s
          /\ UNCHANGED <<record, answered, work, movers, recursiveMover, mishaps>>
       \/ /\ s.current # sch.current
          /\ Start(s)
  /\ UNCHANGED <<asked, replies, notified, faults>>

-----------------------------------------------------------------------------
(* What reports to a slot *)

\* Work goes from one place to the next.
GoesOn(w, W, at) ==
  /\ work' = W \cup {[w EXCEPT !.at = at, !.current = FALSE]}
  /\ UNCHANGED <<sch, replies, record, answered, movers, recursiveMover, mishaps>>

\* ResourceBase has what it needs, and calls the resource, or has failed to get it.
Prepared(w) ==
  /\ w.at \in {"prepare", "collection", "attributes"}
  /\ LET W == IF w.at = "prepare" THEN work \ {w} ELSE Forgotten(work \ {w}) IN
       GoesOn(w, W, "resource") \/ CancelTask(w, W)

\* flushPipeline(): the recorder has the data of the change that is first in its
\* pipeline.
DataAvailable(w) ==
  /\ w.at = "data"
  /\ \A x \in work : x.at = "data" => w.change.number <= x.change.number
  /\ Emit(sch, record, work \ {w}, w.change, w.live, StaleChange(w))
  /\ UNCHANGED <<replies, recursiveMover>>

\* The sync job that takes what is listed: a new one, or one there is already.
Sync(w) ==
  IF Syncs(SyncKind(w)) = {}
  THEN GoesOn(w, work \ {w}, "sync")
  ELSE /\ work' = work \ {w}
       /\ mishaps' = mishaps \cup {"shared"}
       /\ UNCHANGED <<sch, replies, record, answered, movers, recursiveMover>>

\* The resource has done what it was asked for.
ResourceDone(w) ==
  /\ w.at = "resource"
  /\ \/ w.type = "FetchItem" /\ (GoesOn(w, work \ {w}, "deliver") \/ EndRequest(w))
     \/ w.type \in Trees \cup {"SyncCollection"}
        /\ (Sync(w) \/ (Syncs(SyncKind(w)) = {} /\ EndTask(w)))
     \/ w.type = "SyncCollectionAttributes" /\ (GoesOn(w, work \ {w}, "job") \/ EndTask(w))
     \/ w.type = "Custom" /\ EndTask(w)
     \/ w.type = "ChangeReplay" /\ GoesOn(w, work \ {w}, "commit")

\* changeProcessed() by the resource, or as the job of changeCommitted() reports.
Processed(w) ==
  /\ w.at \in {"resource", "commit", "adding"} /\ w.type \in {"ChangeReplay", "RecursiveMoveReplay"}
  /\ IF w.at = "adding"
     THEN ChangeProcessed(sch, record, IF recursiveMover = NoArg THEN work \ {w} ELSE work,
                          NoChange, recursiveMover)
     ELSE ChangeProcessed(sch, record, work \ {w}, w.change, recursiveMover)
  /\ mishaps' = mishaps \cup StaleChange(w)
  /\ UNCHANGED <<replies, movers, recursiveMover>>

\* The resource cannot do it.
ResourceCancels(w) ==
  /\ w.at \in {"resource", "adding"}
  /\ CancelTask(w, work \ {w})

ResourceDefers(w) ==
  /\ w.at \in {"resource", "adding"}
  /\ sch' = deferTask(sch)
  /\ work' = Orphans(work \ {w})
  /\ mishaps' = mishaps \cup Stale(w)
  /\ UNCHANGED <<replies, record, answered, movers, recursiveMover>>

\* A job of ResourceBase ends, well or not.
JobDone(w) ==
  \/ w.at = "list" /\ (GoesOn(w, work \ {w}, "job") \/ EndTask(w))
  \/ w.at = "job" /\ EndTask(w)
  \/ w.at = "deliver" /\ EndRequest(w)

\* slotLocalListDone() and slotCollectionSyncDone() schedule what comes next.
EndAndSchedule(w, s) ==
  /\ sch' = taskDone(s)
  /\ work' = Orphans(work \ {w})
  /\ mishaps' = mishaps \cup Stale(w)
  /\ UNCHANGED <<replies, record, answered, movers, recursiveMover>>

SyncDone(w) ==
  /\ w.at = "sync"
  /\ \/ EndTask(w)
     \/ /\ w.type \in Trees /\ sch.current.type = "SyncAll"
        /\ GoesOn(w, work \ {w}, "localList")
     \/ /\ w.type \in Trees /\ sch.current.type = "SyncCollectionTree"
        /\ EndAndSchedule(w, scheduleCompletion(sch, "SyncCollectionTreeDone"))

LocalListDone(w) ==
  /\ w.at = "localList"
  /\ \/ EndTask(w)
     \/ \E c \in Collections :
          EndAndSchedule(w, scheduleCompletion(Schedule(sch, MkTask("SyncCollection", c)),
                                               "SyncAllDone"))

\* The mover goes on: to an addition it asks the resource for, or to its end.
MoverGoesOn(w) == w.at = "listing" /\ GoesOn(w, work \ {w}, "adding")

MoverDone(w) ==
  /\ w.at \in {"listing", "finishing"}
  /\ movers' = [movers EXCEPT ![w.arg].is = "deleted"]
  /\ recursiveMover' = NoArg
  /\ ChangeProcessed(sch, record, work \ Of(w.arg), w.change, NoArg)
  /\ mishaps' = mishaps \cup StaleChange(w)
  /\ UNCHANGED replies

\* Mutant: a failure is not told from success.
FailureIsSuccess(w) ==
  /\ w.at \in {"listing", "adding", "finishing"}
  /\ movers' = [movers EXCEPT ![w.arg].is = "deleted"]
  /\ recursiveMover' = NoArg
  /\ sch' = taskDone(sch)
  /\ record' = IF record = <<>> THEN record ELSE Tail(record)
  /\ work' = Orphans(work \ Of(w.arg))
  /\ mishaps' = mishaps \cup Stale(w)
  /\ UNCHANGED <<replies, answered>>

\* slotRecursiveMoveReplayResult() of a mover that failed, which deletes itself.
\* The resource is not told, and reports what it was asked to add.
MoverFails(w) ==
  /\ w.at \in {"listing", "adding", "finishing"}
  /\ movers' = [movers EXCEPT ![w.arg].is = "deleted"]
  /\ recursiveMover' = NoArg
  /\ sch' = deferTask(sch)
  /\ work' = Orphans(work \ {x \in Of(w.arg) : x.at # "adding"})
  /\ mishaps' = mishaps \cup Stale(w)
  /\ UNCHANGED <<replies, record, answered>>

Reports(w) == \/ Prepared(w) \/ DataAvailable(w) \/ ResourceDone(w) \/ Processed(w)
              \/ ResourceCancels(w) \/ JobDone(w) \/ SyncDone(w) \/ LocalListDone(w)
              \/ MoverGoesOn(w) \/ MoverDone(w)

Faults(w) == ResourceDefers(w) \/ MoverFails(w)

-----------------------------------------------------------------------------
(* Users, clients and the network *)

Others == <<record, answered, work, movers, recursiveMover, notified, faults, mishaps>>

\* synchronize() and the like, and the resource with a task of its own.
Ask ==
  /\ Room
  /\ \E t \in Offered :
       sch' = IF t.type = "Custom" THEN scheduleCustomTask(sch, t.arg, "AfterChangeReplay")
              ELSE Schedule(sch, t)
  /\ UNCHANGED <<asked, replies, Others>>

Request == RequestItemDelivery /\ UNCHANGED Others

\* The recorder hears of a change, and tells of it with changesAdded().
Notified ==
  /\ Room /\ notified < MaxChanges
  /\ notified' = notified + 1
  /\ \E moved \in BOOLEAN :
       record' = Append(record, [number |-> notified', moved |-> moved])
  /\ sch' = scheduleChangeReplay(sch)
  /\ mishaps' = mishaps \ {"aborted"}
  /\ UNCHANGED <<asked, replies, answered, work, movers, recursiveMover, faults>>

\* The resource may stop what it does; ResourceBase does not stop its jobs.
GoesOffline ==
  /\ Fault
  /\ SetOffline
  /\ \E stopped \in SUBSET {w \in work : w.at \in {"resource", "adding"}} :
       work' = Orphans(work \ stopped)
  /\ UNCHANGED <<record, answered, movers, recursiveMover, notified, mishaps>>

GoesOnline == SetOnline /\ UNCHANGED Others

\* slotAbortRequested(), with resources that have no activity to abort.
Abort ==
  /\ Fault
  /\ CancelQueues
  /\ mishaps' = mishaps
       \cup (IF record # <<>> THEN {"aborted"} ELSE {})
       \cup (IF Fetching(sch) # {} THEN {"unanswered"} ELSE {})
  /\ UNCHANGED <<record, answered, work, movers, recursiveMover, notified>>

\* The process ends and is started again: the recorder has kept its list, and
\* the bus tells the callers.
CrashAndRestart ==
  /\ Fault
  /\ sch' = LET s == GoOnline(InitialScheduler) IN
              IF record # <<>> THEN scheduleChangeReplay(s) ELSE s
  /\ Reply({r \in asked : replies[r] = 0})
  /\ work' = {}
  /\ movers' = [m \in Moves |-> [is |-> "unused", change |-> NoChange]]
  /\ recursiveMover' = NoArg
  /\ mishaps' = mishaps \ {"aborted", "unanswered"}
  /\ UNCHANGED <<asked, record, answered, notified>>

Outside == \/ Ask \/ Request \/ Notified
           \/ GoesOffline \/ GoesOnline \/ Abort \/ CrashAndRestart

\* Bound: behaviours end where the task that runs and the work for it have come
\* apart, for want of anything to say of what follows.
Astray == mishaps \cap {"stale", "shared", "dangling", "abandoned"} # {}

Runs == ~Astray /\ TimerFires
Reported == ~Astray /\ \E w \in work : Reports(w) /\ UNCHANGED <<asked, notified, faults>>

ResourceNext ==
  \/ Runs
  \/ Reported
  \/ ~Astray /\ \E w \in work : Fault /\ Faults(w) /\ UNCHANGED <<asked, notified>>
  \/ ~Astray /\ Outside

ResourceSpec == ResourceInit /\ [][ResourceNext]_resourceVars

\* The event loop runs, jobs and resources report, and the network comes back.
ResourceFairSpec ==
  /\ ResourceSpec
  /\ WF_resourceVars(Runs)
  /\ WF_resourceVars(Reported)
  /\ WF_resourceVars(~Astray /\ GoesOnline)

-----------------------------------------------------------------------------
(* Properties *)

\* Every variable has its type.
ResourceTypeOK ==
  /\ TypeOK
  /\ record \in Seq(Change) /\ answered \subseteq Change \cup {NoChange}
  /\ work \subseteq Work
  /\ movers \in [Moves -> Mover] /\ recursiveMover \in Moves \cup {NoArg}
  /\ notified \in 0..MaxChanges /\ faults \in 0..MaxFaults
  /\ mishaps \subseteq Mishap

\* A task that runs is worked on, by one job or by the resource, and nothing is
\* done for a task in vain: so it will end, and end once.
WorkedOn ==
  ~Astray =>
    LET live == {w \in work : w.live} IN
    IF sch.current = NoTask THEN live = {}
    ELSE /\ Cardinality(live) = 1
         /\ \A w \in live : w.type = sch.current.type /\ w.arg = sch.current.arg

\* While changes are recorded there is a task to replay them, though changes come,
\* are dealt with, put off or left to movers, and the resource goes off- and online.
ReplayPlanned ==
  ~Astray /\ "aborted" \notin mishaps /\ record # <<>> =>
      \E t \in Tasks(sch) : t.type \in {"ChangeReplay", "RecursiveMoveReplay"}

\* No change leaves the record before the resource is done with it.
NoChangeSkipped ==
  ~Astray /\ mishaps \cap {"givenUp", "twice"} = {} =>
    \A n \in 1..notified :
      \E c \in Elements(record) \cup answered : c.number = n

\* Who asked for an item is answered once, or a task will do it.
CallersServed == ~Astray /\ "unanswered" \notin mishaps => CallersAccountedFor

\* Recorded changes are replayed and requests answered in the end.
AllServed ==
  /\ record # <<>> ~> record = <<>> \/ Astray \/ "aborted" \in mishaps
  /\ \A r \in Requests :
       r \in asked ~> replies[r] > 0 \/ Astray \/ "unanswered" \in mishaps

=============================================================================
