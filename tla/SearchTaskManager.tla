------------------------- MODULE SearchTaskManager -------------------------
(***************************************************************************)
(* SearchTaskManager: how the searches of clients are put to the resources *)
(* that can search their own store.                                        *)
(*                                                                         *)
(* The thread of a client's connection runs SearchRequest::exec(): it adds *)
(* a SearchTask, which lives on its stack, to the list of the manager and  *)
(* waits on the notifier of the task until it is complete.  The thread of  *)
(* the manager runs searchLoop(): woken up, or after a minute, it passes   *)
(* results on, gives up queries that run for more than a minute and sends  *)
(* the queries of the first task to the resources that are idle.  Agents   *)
(* answer through their own connections with pushResults().                *)
(*                                                                         *)
(* searchLoop() holds mLock except while it waits, so addTask(), stop()    *)
(* and pushResults() take place only then; the clients need no more than   *)
(* the lock of their task, so they may run between the steps of the loop.  *)
(***************************************************************************)
EXTENDS Lists, Functions

CONSTANTS
  Clients,      \* the connections that search; a session searches one at a time
  Resources,    \* the resources
  Collections,  \* the collections that are searched
  Owner,        \* the resource of each collection
  NoId,         \* the id of an answer that was sent without one
  MaxSearches,  \* bound: searches
  MaxFaults     \* bound: collections, agents and answers lost, and shutdowns

ASSUME SearchAssumption ==
  /\ Owner \in [Collections -> Resources]
  /\ NoId \notin Clients
  /\ MaxSearches \in Nat /\ MaxFaults \in Nat

VARIABLES
  search,     \* the SearchTask and the place of exec() of each client
  loop,       \* where searchLoop() is
  woken,      \* mWait was signalled since the loop waits
  timeout,    \* how long the loop waits
  shouldStop, \* mShouldStop
  instances,  \* mInstances: resources whose agent is registered
  tasklist,   \* mTasklist
  running,    \* mRunningTasks, one for a resource at a time
  results,    \* mPendingResults
  asked,      \* queries that agents work on, or whose answers are under way
  faults,     \* faults from outside so far
  mishaps     \* what went wrong so far

vars == <<search, loop, woken, timeout, shouldStop, instances, tasklist, running,
          results, asked, faults, mishaps>>

\* A search is told by its client and number, a SearchTask by the same; the id
\* that goes over the bus is that of the client's session alone.
Search == [client : Clients, number : Nat \ {0}]
SearchTask == [at : {"idle", "added", "waiting"}, notified : BOOLEAN,
               number : Nat, queries : SUBSET Collections,
               complete : BOOLEAN, pendingResults : SUBSET Search]
ResourceTask == [of : Search, collection : Collections, old : BOOLEAN]
Result == [of : Search, found : SUBSET Search]

\* An agent keeps the id it was given last (mSearchId) and answers under the one
\* it has when a search ends, so an answer that is under way for long may bear
\* any id the agent was given since it got the query.
Query == [of : Search, collection : Collections, ids : SUBSET Clients]

Mishap ==
  {"removed",       \* none of the collections to search exists any more
   "overtaken",     \* a search without queries was first, with others behind it
   "unregistered",  \* an agent was gone when its query was to be sent
   "expired",       \* a query was given up after a minute
   "foreign",       \* an answer had another id than the query that runs
   "together",      \* two answers to one search waited for the loop
   "stopped"}       \* the server shuts down

Init ==
  /\ search = [c \in Clients |->
                 [at |-> "idle", notified |-> FALSE, number |-> 0,
                  queries |-> {}, complete |-> FALSE, pendingResults |-> {}]]
  /\ loop = "waiting"
  /\ woken = FALSE
  /\ timeout = "forever"
  /\ shouldStop = FALSE
  /\ instances = Resources
  /\ tasklist = <<>>
  /\ running = {}
  /\ results = <<>>
  /\ asked = {}
  /\ faults = 0
  /\ mishaps = {}

Current(c) == [client |-> c, number |-> search[c].number]

\* The SearchTask a pointer to s leads to still exists.
Alive(s) == search[s.client].at # "idle" /\ s = Current(s.client)

\* A client that does not search may begin to, within the bound.
Free(c) ==
  /\ search[c].at = "idle"
  /\ FoldFunctionOnSet(LAMBDA x, n : x.number + n, 0, search, Clients) < MaxSearches

Fault == faults < MaxFaults /\ faults' = faults + 1

Running(r) == {t \in running : Owner[t.collection] = r}

-----------------------------------------------------------------------------
(* SearchRequest::exec(), in the thread of a connection *)

\* addTask() keeps the collections whose agent is registered, online and not
\* broken, and appends the task.
AddTask(c, queries) ==
  /\ Free(c)
  /\ loop \in {"waiting", "stopped"}
  /\ \A q \in queries : Owner[q] \in instances
  /\ search' = [search EXCEPT ![c] =
                  [at |-> "added", notified |-> FALSE, number |-> @.number + 1,
                   queries |-> queries, complete |-> FALSE,
                   pendingResults |-> {}]]
  /\ tasklist' = Append(tasklist, Current(c)')
  /\ woken' = (loop = "waiting")
  /\ UNCHANGED <<loop, timeout, shouldStop, instances, running, results, asked, faults, mishaps>>

\* addTask() returns early when the database has none of the collections, and
\* exec() waits for a task nobody knows.
AddTaskOfNothing(c) ==
  /\ Free(c)
  /\ Fault
  /\ search' = [search EXCEPT ![c] =
                  [at |-> "added", notified |-> FALSE, number |-> @.number + 1,
                   queries |-> {}, complete |-> FALSE, pendingResults |-> {}]]
  /\ mishaps' = mishaps \cup {"removed"}
  /\ UNCHANGED <<loop, woken, timeout, shouldStop, instances, tasklist, running,
                 results, asked>>

\* Under the lock of the task: leave when it is complete, wait otherwise.
ReturnOrWait(c) ==
  search' = [search EXCEPT ![c] =
    IF @.complete
    THEN [@ EXCEPT !.at = "idle", !.notified = FALSE, !.queries = {},
                   !.complete = FALSE, !.pendingResults = {}]
    ELSE [@ EXCEPT !.at = "waiting", !.notified = FALSE,
                   !.pendingResults = IF search[c].at = "waiting" THEN {}
                                      ELSE search[c].pendingResults]]

FirstCheck(c) ==
  /\ search[c].at = "added"
  /\ ReturnOrWait(c)
  /\ UNCHANGED <<loop, woken, timeout, shouldStop, instances, tasklist, running,
                 results, asked, faults, mishaps>>

\* Woken up, exec() emits the results and looks again.
Notified(c) ==
  /\ search[c].at = "waiting" /\ search[c].notified
  /\ ReturnOrWait(c)
  /\ UNCHANGED <<loop, woken, timeout, shouldStop, instances, tasklist, running,
                 results, asked, faults, mishaps>>

-----------------------------------------------------------------------------
(* searchLoop(), in the thread of the manager *)

\* Mutant: queries that run are not looked at.
CompletedWhenSent(s, R) == search[s.client].queries = {}

\* No query of s is still to be sent or runs, once those in R are taken away.
AllResourceTasksCompleted(s, R) ==
  /\ search[s.client].queries = {}
  /\ \A t \in running \ R : t.of # s

\* task->notifier.wakeAll(), for a task of the given state.
Wake(task) == [task EXCEPT !.notified = (task.at = "waiting")]

LoopWakes ==
  /\ loop = "waiting" /\ ~shouldStop
  /\ woken \/ timeout = "minute"
  /\ loop' = "results"
  /\ woken' = FALSE
  /\ UNCHANGED <<search, timeout, shouldStop, instances, tasklist, running,
                 results, asked, faults, mishaps>>

\* One result is passed on.  If its search has ended, the loop writes to what
\* was the stack of exec(): whatever that does, nobody gets the result.
PassResult ==
  /\ loop = "results" /\ results # <<>>
  /\ results' = Tail(results)
  /\ LET s == Head(results).of IN
       search' = [c \in Clients |->
         IF c = s.client /\ Alive(s)
         THEN Wake([search[c] EXCEPT
                      !.pendingResults = @ \cup Head(results).found,
                      !.complete = AllResourceTasksCompleted(s, {})])
         ELSE search[c]]
  /\ UNCHANGED <<loop, woken, timeout, shouldStop, instances, tasklist, running,
                 asked, faults, mishaps>>

\* Mutant: the parents of the tasks in R are not told.
CancelledSilently(R) == search

\* cancelRunningTask() for each task in R.
Cancelled(R) ==
  [c \in Clients |->
     IF \E t \in R : t.of = Current(c) /\ Alive(t.of)
     THEN Wake([search[c] EXCEPT
                  !.complete = AllResourceTasksCompleted(Current(c), R)])
     ELSE search[c]]

Expire ==
  /\ loop = "results" /\ results = <<>>
  /\ LET late == {t \in running : t.old} IN
       /\ running' = running \ late
       /\ search' = Cancelled(late)
       /\ mishaps' = mishaps \cup (IF late = {} THEN {} ELSE {"expired"})
  /\ loop' = "dispatch"
  /\ UNCHANGED <<woken, timeout, shouldStop, instances, tasklist, results, asked, faults>>

\* Mutant: the loop forgets that queries run.
NothingInListForgets ==
  /\ loop = "dispatch" /\ tasklist = <<>>
  /\ timeout' = "forever"
  /\ loop' = "waiting"
  /\ UNCHANGED <<search, woken, shouldStop, instances, tasklist, running, results,
                 asked, faults, mishaps>>

NothingInList ==
  /\ loop = "dispatch" /\ tasklist = <<>>
  /\ timeout' = IF running = {} THEN "forever" ELSE timeout
  /\ loop' = "waiting"
  /\ UNCHANGED <<search, woken, shouldStop, instances, tasklist, running, results,
                 asked, faults, mishaps>>

\* The loop goes back to wait, with the old timeout and however many tasks are
\* behind this one.
NothingToDo ==
  /\ loop = "dispatch" /\ tasklist # <<>>
  /\ LET c == Head(tasklist).client IN
       /\ search[c].queries = {}
       /\ search' = [search EXCEPT ![c] = Wake([@ EXCEPT !.complete = TRUE])]
  /\ tasklist' = Tail(tasklist)
  /\ mishaps' = mishaps \cup (IF Len(tasklist) > 1 THEN {"overtaken"} ELSE {})
  /\ loop' = "waiting"
  /\ UNCHANGED <<woken, timeout, shouldStop, instances, running, results, asked, faults>>

\* Mutant: resources that have a running query get another.
IdleOrBusy(queries) == {Owner[q] : q \in queries}

\* Resources in the queries that have no running task.
Idle(queries) == {r \in {Owner[q] : q \in queries} : Running(r) = {}}

\* AgentSearchInstance::search(): the query of s for one collection.
Sent(s, collection) == [of |-> s, collection |-> collection, ids |-> {s.client}]

\* Each idle resource gets one query.  The running task is entered before the
\* agent is looked up: when it is gone the query stays in the list beside it.
Dispatch ==
  /\ loop = "dispatch" /\ tasklist # <<>>
  /\ LET s == Head(tasklist)
         queries == search[s.client].queries
         idle == Idle(queries)
         gone == idle \ instances
     IN /\ queries # {}
        /\ \E first \in [idle -> queries] :
             /\ \A r \in idle : Owner[first[r]] = r
             /\ running' = running \cup
                  {[of |-> s, collection |-> first[r], old |-> FALSE] : r \in idle}
             /\ asked' =
                  {IF Owner[q.collection] \in idle \ gone
                   THEN [q EXCEPT !.ids = @ \cup {s.client}] ELSE q : q \in asked}
                  \cup {Sent(s, first[r]) : r \in idle \ gone}
             /\ LET left == queries \ {first[r] : r \in idle \ gone} IN
                  /\ search' = [search EXCEPT ![s.client].queries = left]
                  /\ tasklist' = IF left = {} THEN Tail(tasklist) ELSE tasklist
        /\ mishaps' = mishaps \cup (IF gone = {} THEN {} ELSE {"unregistered"})
  /\ timeout' = "minute"
  /\ loop' = "waiting"
  /\ UNCHANGED <<woken, shouldStop, instances, results, faults>>

\* A minute passes for a query.
Minute ==
  /\ \E t \in running :
       /\ ~t.old
       /\ running' = (running \ {t}) \cup {[t EXCEPT !.old = TRUE]}
  /\ UNCHANGED <<search, loop, woken, timeout, shouldStop, instances, tasklist,
                 results, asked, faults, mishaps>>

-----------------------------------------------------------------------------
(* Shutdown *)

Stop ==
  /\ loop = "waiting" /\ ~shouldStop
  /\ Fault
  /\ shouldStop' = TRUE
  /\ woken' = TRUE
  /\ mishaps' = mishaps \cup {"stopped"}
  /\ UNCHANGED <<search, loop, timeout, instances, tasklist, running, results,
                 asked>>

\* The loop clears the queries of the tasks in the list and drops what runs for
\* them, and cancels what else runs.
LoopStops ==
  /\ loop = "waiting" /\ woken /\ shouldStop
  /\ LET rest == {t \in running : t.of \notin Elements(tasklist)} IN
       search' = [c \in Clients |->
         IF \E s \in Elements(tasklist) : s = Current(c)
         THEN Wake([search[c] EXCEPT !.queries = {}])
         ELSE Cancelled(rest)[c]]
  /\ running' = {}
  /\ loop' = "stopped"
  /\ woken' = FALSE
  /\ UNCHANGED <<timeout, shouldStop, instances, tasklist, results, asked,
                 faults, mishaps>>

-----------------------------------------------------------------------------
(* Agents *)

RegisterInstance(r) ==
  /\ instances' = instances \cup {r}
  /\ r \notin instances
  /\ UNCHANGED <<search, loop, woken, timeout, shouldStop, tasklist, running,
                 results, asked, faults, mishaps>>

\* An agent leaves the bus; if its process has ended its searches have, too.
UnregisterInstance(r) ==
  /\ r \in instances
  /\ Fault
  /\ instances' = instances \ {r}
  /\ asked' \in {asked, {q \in asked : Owner[q.collection] # r}}
  /\ UNCHANGED <<search, loop, woken, timeout, shouldStop, tasklist, running,
                 results, mishaps>>

\* pushResults() takes the running task of the resource out of the map before
\* it looks at the id.
PushResults(r, id, found) ==
  /\ loop \in {"waiting", "stopped"}
  /\ running' = running \ Running(r)
  /\ \/ /\ Running(r) = {}
        /\ UNCHANGED <<woken, results, mishaps>>
     \/ \E t \in Running(r) :
          \/ /\ t.of.client # id
             /\ mishaps' = mishaps \cup {"foreign"}
             /\ UNCHANGED <<woken, results>>
          \/ /\ t.of.client = id
             /\ results' = Append(results, [of |-> t.of, found |-> found])
             /\ woken' = (loop = "waiting")
             /\ mishaps' = mishaps \cup
                  (IF \E i \in DOMAIN results : results[i].of = t.of
                   THEN {"together"} ELSE {})

SearchFinished(q) ==
  /\ \E id \in q.ids : PushResults(Owner[q.collection], id, {q.of})
  /\ asked' = asked \ {q}
  /\ UNCHANGED <<search, loop, timeout, shouldStop, instances, tasklist, faults>>

\* The agent cannot look up the collection: the id of its answer is read from a
\* property of the job that nobody has set.
CollectionNotReceived(q) ==
  /\ PushResults(Owner[q.collection], NoId, {})
  /\ asked' = asked \ {q}
  /\ Fault
  /\ UNCHANGED <<search, loop, timeout, shouldStop, instances, tasklist>>

-----------------------------------------------------------------------------
SearchLoop == \/ LoopWakes \/ PassResult \/ Expire \/ NothingInList
              \/ NothingToDo \/ Dispatch \/ LoopStops

Exec(c) == FirstCheck(c) \/ Notified(c)

Agents ==
  \/ \E r \in Resources : RegisterInstance(r) \/ UnregisterInstance(r)
  \/ \E q \in asked : SearchFinished(q) \/ CollectionNotReceived(q)

Next ==
  \/ \E c \in Clients : \E queries \in SUBSET Collections : AddTask(c, queries)
  \/ \E c \in Clients : AddTaskOfNothing(c) \/ Exec(c)
  \/ SearchLoop \/ Minute \/ Stop \/ Agents

Spec == Init /\ [][Next]_vars

\* Threads that can run do run, and time passes; agents need not answer.
FairSpec ==
  /\ Spec
  /\ WF_vars(SearchLoop) /\ WF_vars(Minute)
  /\ \A c \in Clients : WF_vars(Exec(c))

-----------------------------------------------------------------------------
(* Properties *)

\* Every variable keeps its type.
TypeOK ==
  /\ search \in [Clients -> SearchTask]
  /\ loop \in {"waiting", "results", "dispatch", "stopped"}
  /\ woken \in BOOLEAN /\ shouldStop \in BOOLEAN
  /\ timeout \in {"forever", "minute"}
  /\ instances \subseteq Resources
  /\ tasklist \in Seq(Search)
  /\ running \subseteq ResourceTask
  /\ results \in Seq(Result)
  /\ asked \subseteq Query
  /\ faults \in 0..MaxFaults
  /\ mishaps \subseteq Mishap

\* The tasks in mTasklist, mRunningTasks and mPendingResults are on the stack
\* of a thread that still waits for them: nothing leads to a SearchTask whose
\* exec() has returned.  mPendingResults can, once two results of one search
\* waited together: the first completes the search.  (A loop that has stopped
\* reads them no more.)
ReferencesAlive ==
  /\ \A s \in Elements(tasklist) : Alive(s)
  /\ \A t \in running : Alive(t.of)
  /\ \/ "together" \in mishaps \/ loop = "stopped"
     \/ \A r \in Elements(results) : Alive(r.of)

\* A client that waits is known to somebody who will go on with its search: the
\* search is in the list, runs at a resource, has a result to be passed on, or
\* is complete and the client has been or will be told.  It fails for those
\* whose collections are gone, whose running query an answer with a foreign id
\* has taken away, or who search while the server shuts down.
NoSearchForgotten ==
  mishaps \cap {"removed", "foreign", "stopped"} = {} =>
    \A c \in Clients : search[c].at # "idle" =>
      \/ Current(c) \in Elements(tasklist)
      \/ \E t \in running : t.of = Current(c)
      \/ \E r \in Elements(results) : r.of = Current(c)
      \/ search[c].complete /\ (search[c].notified \/ search[c].at = "added")

\* The id in an answer names a session, not a search, and is the last the agent
\* was given; still no client gets results of another search, or of an earlier
\* one of its own, unless a query was given up and its answer came late.
OwnResults ==
  "expired" \notin mishaps =>
    \A c \in Clients : search[c].pendingResults \subseteq {Current(c)}

\* Every search ends, whether agents answer or not, unless something went wrong
\* that the loop does not get over: besides what makes it forget a search, an
\* agent that is gone when its query is to be sent, and a search without
\* queries with others behind it in the list.
SearchesEnd ==
  \A c \in Clients :
    search[c].at # "idle" ~>
      \/ search[c].at = "idle"
      \/ mishaps \cap {"removed", "overtaken", "unregistered", "foreign",
                       "together", "stopped"} # {}
=============================================================================
