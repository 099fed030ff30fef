--------------------------- MODULE ItemRetrieval ---------------------------
(***************************************************************************)
(* ItemRetrievalManager: how the threads of the server get parts of items  *)
(* that are not in the cache from the resources that own them.             *)
(*                                                                         *)
(* A connection thread that needs items runs ItemRetriever::exec(): it     *)
(* looks up what is missing, and then requests item by item, blocking on a *)
(* wait condition until its request is processed.  One retrieval thread    *)
(* runs an event loop: it gives each idle resource one request at a time   *)
(* (a job, that is a D-Bus call) and answers the request, and those of     *)
(* other threads for the same item, when the call ends.                    *)
(*                                                                         *)
(* What runs under the write lock is one step.  A thread has at most one   *)
(* request with the manager, so a request is identified by its thread.     *)
(* The cache cleaner is inhibited meanwhile: parts do not leave the cache. *)
(***************************************************************************)
EXTENDS Lists

CONSTANTS
  Threads,     \* the connection threads
  Items,       \* the items, which are numbered
  Resources,   \* the resources
  Owner,       \* the resource that owns each item
  Parts,       \* the payload parts of an item
  WishLists,   \* what retrievers are asked for, the same parts of all their items
  MaxExecs     \* bound: calls of ItemRetriever::exec()

ASSUME RetrievalAssumption ==
  /\ Owner \in [Items -> Resources]
  /\ Items # {} /\ Items \subseteq Nat
  /\ {} \notin Threads
  /\ MaxExecs \in Nat

ASSUME WishesAssumption ==
  \A wishes \in WishLists : \E p \in (SUBSET Parts) \ {{}} :
    wishes # {} /\ wishes \subseteq [item : Items, parts : {p}]

VARIABLES
  thread,    \* where each thread is, what it was asked for and has yet to request
  request,   \* the ItemRetrievalRequest each thread has posted last
  pending,   \* mPendingRequests: a queue per resource
  job,       \* mCurrentJobs: the job of each resource
  starting,  \* newJobs of processRequest(): resources whose job has yet to start
  events,    \* processRequest() calls on their way to the event loop
  cache,     \* the parts of each item that the server holds
  execs,     \* calls of exec() so far
  unasked    \* the parts each thread was given an answer for, since its last
             \* exec(), by the end of a job that had not asked for them

vars == <<thread, request, pending, job, starting, events, cache, execs, unasked>>

Wish == [item : Items, parts : SUBSET Parts]

\* A thread works, has appended its request and has yet to emit
\* requestAdded(), is about to look at its request, or waits on the condition.
Place == {"succeeded", "failed", "working", "posted", "checking", "waiting"}
Thread == [at : Place, wanted : SUBSET Wish, todo : SUBSET Wish]

Request == [item : Items, parts : SUBSET Parts, processed : BOOLEAN,
            error : BOOLEAN]

\* The call of a job: not yet made, or with the new or the old method.
Job == [of : Threads, call : {"none", "V2", "old"}]
NoJob == [of |-> {}, call |-> "none"]

Init ==
  /\ thread = [t \in Threads |->
                 [at |-> "succeeded", wanted |-> {}, todo |-> {}]]
  /\ request = [t \in Threads |->
                  [item |-> CHOOSE i \in Items : TRUE, parts |-> {},
                   processed |-> TRUE, error |-> FALSE]]
  /\ pending = [r \in Resources |-> <<>>]
  /\ job = [r \in Resources |-> NoJob]
  /\ starting = {}
  /\ events = 0
  /\ cache = [i \in Items |-> {}]
  /\ execs = 0
  /\ unasked = [t \in Threads |-> [i \in Items |-> {}]]

-----------------------------------------------------------------------------
(* Connection threads *)

Missing(w) == [w EXCEPT !.parts = @ \ cache[w.item]]

\* ItemRetriever::exec() looks up once what is missing of all its items.
Exec(t, wishes) ==
  /\ thread[t].at \in {"succeeded", "failed"}
  /\ execs < MaxExecs
  /\ execs' = execs + 1
  /\ thread' = [thread EXCEPT ![t] =
                  [at |-> "working", wanted |-> wishes,
                   todo |-> {m \in {Missing(w) : w \in wishes} : m.parts # {}}]]
  /\ unasked' = [unasked EXCEPT ![t] = [i \in Items |-> {}]]
  /\ UNCHANGED <<request, pending, job, starting, events, cache>>

ExecReturns(t) ==
  /\ thread[t].at = "working"
  /\ thread[t].todo = {}
  /\ thread' = [thread EXCEPT ![t].at = "succeeded"]
  /\ UNCHANGED <<request, pending, job, starting, events, cache, execs, unasked>>

\* exec() goes through the items by their ids.  requestItemDelivery(): the
\* request is appended under the write lock ...
Post(t, w) ==
  /\ thread[t].at = "working"
  /\ w \in thread[t].todo /\ \A x \in thread[t].todo : w.item <= x.item
  /\ thread' = [thread EXCEPT ![t].at = "posted", ![t].todo = @ \ {w}]
  /\ request' = [request EXCEPT ![t] = [item |-> w.item, parts |-> w.parts,
                                        processed |-> FALSE, error |-> FALSE]]
  /\ pending' = [pending EXCEPT ![Owner[w.item]] = Append(@, t)]
  /\ UNCHANGED <<job, starting, events, cache, execs, unasked>>

\* ... the event loop is told of it without the lock ...
EmitRequestAdded(t) ==
  /\ thread[t].at = "posted"
  /\ thread' = [thread EXCEPT ![t].at = "checking"]
  /\ events' = events + 1
  /\ UNCHANGED <<request, pending, job, starting, cache, execs, unasked>>

\* ... and under the read lock the thread looks whether the request is
\* processed, or waits; it is on the condition before it gives the lock up.
AfterAnswer(t) ==
  IF request[t].error THEN [thread[t] EXCEPT !.at = "failed", !.todo = {}]
  ELSE [thread[t] EXCEPT !.at = "working"]

Check(t) ==
  /\ thread[t].at = "checking"
  /\ thread' = [thread EXCEPT ![t] =
                  IF request[t].processed THEN AfterAnswer(t)
                  ELSE [@ EXCEPT !.at = "waiting"]]
  /\ UNCHANGED <<request, pending, job, starting, events, cache, execs, unasked>>

-----------------------------------------------------------------------------
(* The retrieval thread *)

\* mWaitCondition->wakeAll()
WakeAll ==
  [t \in Threads |-> IF thread[t].at # "waiting" THEN thread[t]
                     ELSE [thread[t] EXCEPT !.at = "checking"]]

\* Each idle resource with requests gets a job for its first one.
processRequest ==
  LET idle == {r \in Resources : pending[r] # <<>> /\ job[r] = NoJob}
  IN /\ starting = {}
     /\ events > 0
     /\ events' = events - 1
     /\ starting' = idle
     /\ job' = [r \in Resources |->
                  IF r \in idle THEN [of |-> Head(pending[r]), call |-> "none"]
                  ELSE job[r]]
     /\ pending' = [r \in Resources |->
                      IF r \in idle THEN Tail(pending[r]) ELSE pending[r]]
     /\ thread' = IF \A r \in Resources : pending[r] = <<>> /\ job[r] = NoJob
                  THEN WakeAll ELSE thread
     /\ UNCHANGED <<request, cache, execs, unasked>>

\* Mutant: every request the resource has is answered.
SameResource(r) == Elements(pending[r])

\* The requests a finished job answers besides its own.
SameItem(r) ==
  {t \in Elements(pending[r]) : request[t].item = request[job[r].of].item}

\* The requests get their result, and those of other threads leave the queue.
Answer(r, error) ==
  /\ request' = [t \in Threads |->
                   IF t = job[r].of \/ t \in SameItem(r)
                   THEN [request[t] EXCEPT !.processed = TRUE, !.error = error]
                   ELSE request[t]]
  /\ unasked' = [t \in Threads |->
                   IF t \in SameItem(r) /\ ~error
                   THEN [unasked[t] EXCEPT ![request[t].item] =
                           @ \cup (request[t].parts \ request[job[r].of].parts)]
                   ELSE unasked[t]]

Unanswered(r) == Keep(pending[r], Threads \ SameItem(r))

\* Mutant: the answered requests of other threads stay in the queue.
FinishedStaysQueued(r, error) ==
  /\ Answer(r, error)
  /\ job' = [job EXCEPT ![r] = NoJob]
  /\ thread' = WakeAll
  /\ events' = events + 1
  /\ UNCHANGED pending

\* Mutant: the queues are not looked at again.
FinishedSilently(r, error) ==
  /\ Answer(r, error)
  /\ pending' = [pending EXCEPT ![r] = Unanswered(r)]
  /\ job' = [job EXCEPT ![r] = NoJob]
  /\ thread' = WakeAll
  /\ UNCHANGED events

\* Mutant: nobody is woken.
FinishedWithoutWaking(r, error) ==
  /\ Answer(r, error)
  /\ pending' = [pending EXCEPT ![r] = Unanswered(r)]
  /\ job' = [job EXCEPT ![r] = NoJob]
  /\ events' = events + 1
  /\ UNCHANGED thread

\* Everybody who waits looks again, and so does processRequest().
retrievalJobFinished(r, error) ==
  /\ Answer(r, error)
  /\ pending' = [pending EXCEPT ![r] = Unanswered(r)]
  /\ job' = [job EXCEPT ![r] = NoJob]
  /\ thread' = WakeAll
  /\ events' = events + 1

\* Back without the lock, processRequest() starts the new jobs: those whose
\* resource can be reached, and the others end at once.
StartJob(r) ==
  /\ r \in starting
  /\ starting' = starting \ {r}
  /\ job' = [job EXCEPT ![r].call = "V2"]
  /\ UNCHANGED <<thread, request, pending, events, cache, execs, unasked>>

CannotContact(r) ==
  /\ r \in starting
  /\ starting' = starting \ {r}
  /\ retrievalJobFinished(r, TRUE)
  /\ UNCHANGED <<cache, execs>>

Calling(r) == starting = {} /\ job[r].call # "none"

\* The resource has stored the parts it was asked for, and answers.
Delivered(r) ==
  LET q == request[job[r].of]
  IN /\ Calling(r)
     /\ cache' = [cache EXCEPT ![q.item] = @ \cup q.parts]
     /\ retrievalJobFinished(r, FALSE)
     /\ UNCHANGED <<starting, execs>>

\* It answers with an error, goes away, or does not answer in time.
CallFailed(r) ==
  /\ Calling(r)
  /\ retrievalJobFinished(r, TRUE)
  /\ UNCHANGED <<starting, cache, execs>>

\* It does not know the new method, and gets the old one.
UnknownMethod(r) ==
  /\ Calling(r)
  /\ job[r].call = "V2"
  /\ job' = [job EXCEPT ![r].call = "old"]
  /\ UNCHANGED <<thread, request, pending, starting, events, cache, execs, unasked>>

-----------------------------------------------------------------------------
ThreadStep(t) ==
  \/ ExecReturns(t)
  \/ \E w \in thread[t].todo : Post(t, w)
  \/ EmitRequestAdded(t)
  \/ Check(t)

CallEnds(r) == Delivered(r) \/ CallFailed(r)

RetrievalStep ==
  \/ processRequest
  \/ \E r \in Resources : StartJob(r) \/ CannotContact(r)

Next ==
  \/ \E t \in Threads, wishes \in WishLists : Exec(t, wishes)
  \/ \E t \in Threads : ThreadStep(t)
  \/ RetrievalStep
  \/ \E r \in Resources : CallEnds(r) \/ UnknownMethod(r)

Spec == Init /\ [][Next]_vars

\* Threads and the event loop run, and D-Bus ends every call after five
\* minutes at the latest.
Fairness ==
  /\ \A t \in Threads : WF_vars(ThreadStep(t))
  /\ WF_vars(RetrievalStep)
  /\ \A r \in Resources : SF_vars(CallEnds(r))

FairSpec == Spec /\ Fairness

-----------------------------------------------------------------------------
(* Properties *)

Posted(t) == thread[t].at \in {"posted", "checking", "waiting"}
Queued(t) == {r \in Resources : t \in Elements(pending[r])}
Running(t) == {r \in Resources : job[r].of = t}

\* Every variable has its type.
TypeOK ==
  /\ thread \in [Threads -> Thread]
  /\ request \in [Threads -> Request]
  /\ pending \in [Resources -> Seq(Threads)]
  /\ job \in [Resources -> Job \cup {NoJob}]
  /\ starting \in SUBSET Resources
  /\ events \in Nat
  /\ cache \in [Items -> SUBSET Parts]
  /\ execs \in Nat
  /\ unasked \in [Threads -> [Items -> SUBSET Parts]]

\* The manager knows a request exactly as long as it is not processed, in the
\* queue or the job of its resource and nowhere else: its thread deletes it
\* once it is processed, so no pointer to it may remain, and a request that is
\* lost keeps its thread forever (the assertions of requestItemDelivery() and
\* retrievalJobFinished()).
Tracked(t) ==
  IF Posted(t) /\ ~request[t].processed
  THEN \/ Queued(t) = {Owner[request[t].item]} /\ Running(t) = {}
       \/ Queued(t) = {} /\ Running(t) = {Owner[request[t].item]}
  ELSE Queued(t) = {} /\ Running(t) = {}
RequestsTracked == \A t \in Threads : Tracked(t)

\* No lost wakeup, on either side of the lock: while a request waits for an
\* idle resource a processRequest() is on its way, or a thread is about to send
\* one; and no thread sleeps on a request that was answered.
Attended(r) ==
  \/ events > 0
  \/ \E t \in Threads : thread[t].at = "posted" /\ t \in Elements(pending[r])
NoLostWakeup ==
  /\ \A r \in Resources : pending[r] # <<>> /\ job[r] = NoJob => Attended(r)
  /\ \A t \in Threads : thread[t].at = "waiting" => ~request[t].processed

\* move.cpp:68: "make sure all the items we want to move are in the cache".
\* When exec() reports success, all it was asked for is there.
SuccessMeansCached ==
  \A t \in Threads : thread[t].at = "succeeded" =>
    \A w \in thread[t].wanted : w.parts \subseteq cache[w.item]

\* What is there in any case: every part but those that the job had not asked for
\* whose end was taken for the answer (itemretrievalmanager.cpp:211).
SuccessMeansAsked ==
  \A t \in Threads : thread[t].at = "succeeded" =>
    \A w \in thread[t].wanted : w.parts \ unasked[t][w.item] \subseteq cache[w.item]

\* Every thread that asks for items goes on in the end, also behind requests
\* that fail, and behind resources that are gone.
ExecEnds == \A t \in Threads :
  thread[t].at = "working" ~> thread[t].at \in {"succeeded", "failed"}
=============================================================================
