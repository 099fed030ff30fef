------------------------ MODULE ItemRetrieval_proofs ------------------------
(***************************************************************************)
(* The safety of ItemRetrieval for any threads, items, resources and       *)
(* parts: no request is lost or kept, and no wakeup is missed.             *)
(*                                                                         *)
(* RequestsTracked alone is not inductive: that a request leaves the queue *)
(* when its job starts needs that no queue holds it twice, and that a job  *)
(* that starts is there to be started.  RetrievalInv adds both, and says   *)
(* of queues and jobs what RequestsTracked says of threads.                *)
(*                                                                         *)
(* What success means is the second part: CacheSound says of each thread   *)
(* that something of what it has asked for is there, or has yet to be      *)
(* requested or answered; PartsSound says it of each part, those excepted  *)
(* that were answered for by a job that had not asked for them.            *)
(***************************************************************************)
EXTENDS ItemRetrieval, ListFacts

\* A request that is posted and has no result yet.
Open(t) == Posted(t) /\ ~request[t].processed
Asks(t) == Owner[request[t].item]

QueuedRight ==
  \A r \in Resources :
    /\ Distinct(pending[r])
    /\ \A t \in Elements(pending[r]) : Open(t) /\ Asks(t) = r /\ job[r].of # t

RunningRight ==
  \A r \in Resources : job[r] # NoJob =>
    Open(job[r].of) /\ Asks(job[r].of) = r

Known ==
  \A t \in Threads : Open(t) =>
    t \in Elements(pending[Asks(t)]) \/ job[Asks(t)].of = t

\* A job that has yet to start is there, and no call is made for it.
StartsJobs == \A r \in starting : job[r] \in Job /\ job[r].call = "none"

RetrievalInv ==
  /\ TypeOK /\ QueuedRight /\ RunningRight /\ Known /\ StartsJobs /\ NoLostWakeup

-----------------------------------------------------------------------------
(* Types *)

LEMMA JobOrNone ==
  ASSUME NEW j \in Job \cup {NoJob}
  PROVE  /\ j # NoJob <=> j \in Job
         /\ j \in Job => j.of \in Threads
         /\ j.call # "none" => j \in Job
         /\ j.of \in Threads => j \in Job
BY RetrievalAssumption DEF Job, NoJob

LEMMA WakeAllTypes ==
  ASSUME thread \in [Threads -> Thread]
  PROVE  /\ WakeAll \in [Threads -> Thread]
         /\ \A t \in Threads :
              /\ WakeAll[t].at # "waiting"
              /\ WakeAll[t].at = "posted" <=> thread[t].at = "posted"
              /\ WakeAll[t].at \in {"posted", "checking", "waiting"}
                   <=> thread[t].at \in {"posted", "checking", "waiting"}
BY DEF WakeAll, Thread, Place

LEMMA ElementsInThreads ==
  ASSUME TypeOK, NEW r \in Resources
  PROVE  /\ pending[r] \in Seq(Threads)
         /\ Elements(pending[r]) \subseteq Threads
BY DEF TypeOK, Elements

\* What is left of a queue after a job has ended.
LEMMA UnansweredIs ==
  ASSUME TypeOK, NEW r \in Resources
  PROVE  /\ Unanswered(r) \in Seq(Threads)
         /\ Elements(Unanswered(r)) = Elements(pending[r]) \ SameItem(r)
         /\ Distinct(pending[r]) => Distinct(Unanswered(r))
<1>1. pending[r] \in Seq(Threads) /\ Elements(pending[r]) \subseteq Threads
  BY ElementsInThreads
<1> QED  BY <1>1, KeepType, KeepDistinct DEF Unanswered

-----------------------------------------------------------------------------
(* Connection threads *)

LEMMA InitRetrievalInv == Init => RetrievalInv
<1> SUFFICES ASSUME Init PROVE RetrievalInv
  OBVIOUS
<1>1. TypeOK
  BY RetrievalAssumption DEF Init, TypeOK, Thread, Place, Request, Wish
<1>2. \A r \in Resources : Distinct(pending[r]) /\ Elements(pending[r]) = {}
  BY DEF Init, Distinct, Elements
<1>3. \A t \in Threads : ~Open(t)
  BY DEF Init, Open, Posted
<1>4. QueuedRight /\ RunningRight /\ Known /\ StartsJobs
  BY <1>2, <1>3 DEF Init, QueuedRight, RunningRight, Known, StartsJobs
<1>5. NoLostWakeup
  BY DEF Init, NoLostWakeup
<1> QED  BY <1>1, <1>4, <1>5 DEF RetrievalInv

\* A step in which one thread moves and no queue, job or request changes
\* keeps the invariant if it neither opens nor closes a request.
LEMMA ThreadMoves ==
  ASSUME RetrievalInv, NEW t \in Threads, NEW v \in Thread,
         thread' = [thread EXCEPT ![t] = v],
         UNCHANGED <<request, pending, job, starting, cache>>,
         events' \in Nat, execs' \in Nat, events' >= events,
         unasked' \in [Threads -> [Items -> SUBSET Parts]],
         Posted(t)' /\ ~request[t].processed <=> Open(t),
         thread[t].at = "posted" => events' > 0,
         v.at = "waiting" => ~request[t].processed
  PROVE  RetrievalInv'
<1>1. TypeOK'
  BY DEF RetrievalInv, TypeOK
<1>2. \A u \in Threads : Open(u)' <=> Open(u)
  BY DEF RetrievalInv, TypeOK, Open, Posted
<1>3. \A u \in Threads : Asks(u)' = Asks(u)
  BY DEF Asks
<1>4. QueuedRight'
  BY <1>2, <1>3, ElementsInThreads DEF RetrievalInv, QueuedRight
<1>5. RunningRight'
  <2>1. \A r \in Resources : job[r] # NoJob => job[r].of \in Threads
    BY JobOrNone DEF RetrievalInv, TypeOK
  <2> QED  BY <1>2, <1>3, <2>1 DEF RetrievalInv, RunningRight
<1>6. Known'
  BY <1>2, <1>3 DEF RetrievalInv, Known
<1>7. StartsJobs'
  BY DEF RetrievalInv, StartsJobs
<1>8. NoLostWakeup'
  <2>1. \A u \in Threads : u # t => thread'[u] = thread[u]
    BY DEF RetrievalInv, TypeOK
  <2>2. thread'[t] = v
    BY DEF RetrievalInv, TypeOK
  <2>3. \A u \in Threads : (thread[u].at = "waiting" => ~request[u].processed)'
    BY <2>1, <2>2 DEF RetrievalInv, NoLostWakeup
  <2>4. ASSUME NEW r \in Resources, pending[r] # <<>>, job[r] = NoJob
        PROVE  Attended(r)'
    <3>1. CASE events > 0
      BY <3>1 DEF RetrievalInv, TypeOK, Attended
    <3>2. CASE ~(events > 0)
      <4>1. PICK u \in Threads : thread[u].at = "posted" /\ u \in Elements(pending[r])
        BY <2>4, <3>2 DEF RetrievalInv, NoLostWakeup, Attended
      <4> QED  BY <4>1, <2>1 DEF Attended
    <3> QED  BY <3>1, <3>2
  <2> QED  BY <2>3, <2>4 DEF NoLostWakeup
<1> QED  BY <1>1, <1>4, <1>5, <1>6, <1>7, <1>8 DEF RetrievalInv

LEMMA ExecKeepsInv ==
  ASSUME RetrievalInv, NEW t \in Threads, NEW wishes \in WishLists, Exec(t, wishes)
  PROVE  RetrievalInv'
<1> DEFINE v == [at |-> "working", wanted |-> wishes,
                 todo |-> {m \in {Missing(w) : w \in wishes} : m.parts # {}}]
<1>1. wishes \subseteq Wish
  BY WishesAssumption DEF Wish
<1>2. \A w \in wishes : Missing(w) \in Wish
  BY <1>1 DEF RetrievalInv, TypeOK, Missing, Wish
<1>3. v \in Thread
  BY <1>1, <1>2 DEF Thread, Place
<1>4. v.at = "working"
  OBVIOUS
<1>5. /\ thread' = [thread EXCEPT ![t] = v]
      /\ UNCHANGED <<request, pending, job, starting, events, cache>>
      /\ execs' = execs + 1 /\ thread[t].at \in {"succeeded", "failed"}
      /\ unasked' = [unasked EXCEPT ![t] = [i \in Items |-> {}]]
  BY DEF Exec
<1> HIDE DEF v
<1>6. thread'[t] = v
  BY <1>5 DEF RetrievalInv, TypeOK
<1>7. /\ events' \in Nat /\ execs' \in Nat /\ events' >= events
      /\ unasked' \in [Threads -> [Items -> SUBSET Parts]]
  BY <1>5 DEF RetrievalInv, TypeOK
<1>8. ~Open(t) /\ ~Posted(t)'
  BY <1>4, <1>5, <1>6 DEF Open, Posted
<1> QED  BY <1>3, <1>4, <1>5, <1>7, <1>8, ThreadMoves

LEMMA ExecReturnsKeepsInv ==
  ASSUME RetrievalInv, NEW t \in Threads, ExecReturns(t)
  PROVE  RetrievalInv'
<1> DEFINE v == [thread[t] EXCEPT !.at = "succeeded"]
<1>1. v \in Thread /\ v.at = "succeeded"
  BY DEF RetrievalInv, TypeOK, Thread, Place
<1>2. /\ thread' = [thread EXCEPT ![t] = v]
      /\ UNCHANGED <<request, pending, job, starting, events, cache, execs, unasked>>
      /\ thread[t].at = "working"
  BY DEF ExecReturns
<1> HIDE DEF v
<1>3. thread'[t] = v
  BY <1>2 DEF RetrievalInv, TypeOK
<1>4. /\ events' \in Nat /\ execs' \in Nat /\ events' >= events
      /\ unasked' \in [Threads -> [Items -> SUBSET Parts]]
  BY <1>2 DEF RetrievalInv, TypeOK
<1>5. ~Open(t) /\ ~Posted(t)'
  BY <1>1, <1>2, <1>3 DEF Open, Posted
<1> QED  BY <1>1, <1>2, <1>4, <1>5, ThreadMoves

LEMMA EmitKeepsInv ==
  ASSUME RetrievalInv, NEW t \in Threads, EmitRequestAdded(t)
  PROVE  RetrievalInv'
<1> DEFINE v == [thread[t] EXCEPT !.at = "checking"]
<1>1. v \in Thread /\ v.at = "checking"
  BY DEF RetrievalInv, TypeOK, Thread, Place
<1>2. /\ thread' = [thread EXCEPT ![t] = v] /\ events' = events + 1
      /\ UNCHANGED <<request, pending, job, starting, cache, execs, unasked>>
      /\ thread[t].at = "posted"
  BY DEF EmitRequestAdded
<1> HIDE DEF v
<1>3. thread'[t] = v
  BY <1>2 DEF RetrievalInv, TypeOK
<1>4. /\ events' \in Nat /\ execs' \in Nat /\ events' >= events /\ events' > 0
      /\ unasked' \in [Threads -> [Items -> SUBSET Parts]]
  BY <1>2 DEF RetrievalInv, TypeOK
<1>5. Posted(t) /\ Posted(t)'
  BY <1>1, <1>2, <1>3 DEF Posted
<1> QED  BY <1>1, <1>2, <1>4, <1>5, ThreadMoves DEF Open

LEMMA CheckKeepsInv ==
  ASSUME RetrievalInv, NEW t \in Threads, Check(t)
  PROVE  RetrievalInv'
<1> DEFINE v == IF request[t].processed THEN AfterAnswer(t)
                ELSE [thread[t] EXCEPT !.at = "waiting"]
<1>1. /\ v \in Thread
      /\ request[t].processed => v.at \in {"failed", "working"}
      /\ ~request[t].processed => v.at = "waiting"
  BY DEF RetrievalInv, TypeOK, Thread, Place, AfterAnswer
<1>2. /\ thread' = [thread EXCEPT ![t] = v]
      /\ UNCHANGED <<request, pending, job, starting, events, cache, execs, unasked>>
      /\ thread[t].at = "checking"
  BY DEF Check
<1> HIDE DEF v
<1>3. thread'[t] = v
  BY <1>2 DEF RetrievalInv, TypeOK
<1>4. /\ events' \in Nat /\ execs' \in Nat /\ events' >= events
      /\ unasked' \in [Threads -> [Items -> SUBSET Parts]]
  BY <1>2 DEF RetrievalInv, TypeOK
<1>5. Posted(t)' /\ ~request[t].processed <=> Open(t)
  BY <1>1, <1>2, <1>3 DEF Open, Posted
<1>6. v.at = "waiting" => ~request[t].processed
  BY <1>1
<1> QED  BY <1>1, <1>2, <1>4, <1>5, <1>6, ThreadMoves

LEMMA PostKeepsInv ==
  ASSUME RetrievalInv, NEW t \in Threads, NEW w \in thread[t].todo, Post(t, w)
  PROVE  RetrievalInv'
<1> DEFINE o == Owner[w.item]
<1> DEFINE new == [item |-> w.item, parts |-> w.parts, processed |-> FALSE,
                   error |-> FALSE]
<1> DEFINE v == [thread[t] EXCEPT !.at = "posted", !.todo = @ \ {w}]
<1> DEFINE l == Append(pending[o], t)
<1>1. w \in Wish /\ w.item \in Items /\ w.parts \subseteq Parts
  BY DEF RetrievalInv, TypeOK, Thread, Wish
<1>2. o \in Resources
  BY <1>1, RetrievalAssumption
<1>3. /\ v \in Thread /\ v.at = "posted"
      /\ new \in Request /\ new.item = w.item /\ ~new.processed
  BY <1>1 DEF RetrievalInv, TypeOK, Thread, Place, Request
<1>4. ~Open(t)
  BY DEF Post, Open, Posted
<1>5. /\ \A r \in Resources : t \notin Elements(pending[r])
      /\ \A r \in Resources : job[r].of # t
  <2>1. \A r \in Resources : job[r] # NoJob \/ job[r].of # t
    BY RetrievalAssumption DEF NoJob
  <2> QED  BY <1>4, <2>1 DEF RetrievalInv, QueuedRight, RunningRight
<1>6. /\ l \in Seq(Threads) /\ Distinct(l) /\ Elements(l) = Elements(pending[o]) \cup {t}
  BY <1>2, <1>5, ElementsInThreads, AppendElements, AppendDistinct
     DEF RetrievalInv, QueuedRight
<1>7. /\ thread' = [thread EXCEPT ![t] = v]
      /\ request' = [request EXCEPT ![t] = new]
      /\ pending' = [pending EXCEPT ![o] = l]
      /\ UNCHANGED <<job, starting, events, cache, execs, unasked>>
  BY DEF Post
<1> HIDE DEF v, new, l, o
<1>8. TypeOK'
  BY <1>3, <1>6, <1>7 DEF RetrievalInv, TypeOK
<1>9. /\ thread'[t] = v /\ request'[t] = new
      /\ \A u \in Threads : u # t => thread'[u] = thread[u] /\ request'[u] = request[u]
  BY <1>7 DEF RetrievalInv, TypeOK
<1>10. /\ pending'[o] = l
       /\ \A r \in Resources : r # o => pending'[r] = pending[r]
  BY <1>2, <1>7 DEF RetrievalInv, TypeOK
<1>11. /\ Open(t)' /\ Asks(t)' = o
       /\ \A u \in Threads : u # t => (Open(u)' <=> Open(u)) /\ Asks(u)' = Asks(u)
  BY <1>3, <1>9 DEF Open, Posted, Asks, o
<1>12. QueuedRight'
  <2> SUFFICES ASSUME NEW r \in Resources
               PROVE  /\ Distinct(pending'[r])
                      /\ \A u \in Elements(pending'[r]) :
                           Open(u)' /\ Asks(u)' = r /\ job'[r].of # u
    BY DEF QueuedRight
  <2>1. CASE r = o
    <3>1. Distinct(pending'[r]) /\ Elements(pending'[r]) = Elements(pending[r]) \cup {t}
      BY <1>6, <1>10, <2>1
    <3>2. job'[r].of # t
      BY <1>5, <1>7
    <3>3. ASSUME NEW u \in Elements(pending[r])
          PROVE  Open(u)' /\ Asks(u)' = r /\ job'[r].of # u
      <4>1. Open(u) /\ Asks(u) = r /\ job[r].of # u
        BY DEF RetrievalInv, QueuedRight
      <4>2. u \in Threads /\ u # t
        BY <1>5, ElementsInThreads DEF RetrievalInv
      <4> QED  BY <1>7, <1>11, <4>1, <4>2
    <3> QED  BY <1>11, <2>1, <3>1, <3>2, <3>3
  <2>2. CASE r # o
    BY <1>5, <1>7, <1>10, <1>11, <2>2, ElementsInThreads DEF RetrievalInv, QueuedRight
  <2> QED  BY <2>1, <2>2
<1>13. RunningRight'
  <2>1. \A r \in Resources : job[r] # NoJob => job[r].of \in Threads
    BY JobOrNone DEF RetrievalInv, TypeOK
  <2> QED  BY <1>5, <1>7, <1>11, <2>1 DEF RetrievalInv, RunningRight
<1>14. Known'
  <2> SUFFICES ASSUME NEW u \in Threads, Open(u)'
               PROVE  u \in Elements(pending'[Asks(u)']) \/ job'[Asks(u)'].of = u
    BY DEF Known
  <2>1. CASE u = t
    BY <1>6, <1>10, <1>11, <2>1
  <2>2. CASE u # t
    <3>1. Asks(u) \in Resources
      BY RetrievalAssumption DEF RetrievalInv, TypeOK, Request, Asks
    <3> QED  BY <1>6, <1>7, <1>10, <1>11, <2>2, <3>1 DEF RetrievalInv, Known
  <2> QED  BY <2>1, <2>2
<1>15. StartsJobs'
  BY <1>7 DEF RetrievalInv, StartsJobs
<1>16. NoLostWakeup'
  <2>1. \A u \in Threads : (thread[u].at = "waiting" => ~request[u].processed)'
    BY <1>3, <1>9 DEF RetrievalInv, NoLostWakeup
  <2>2. ASSUME NEW r \in Resources, pending'[r] # <<>>, job'[r] = NoJob
        PROVE  Attended(r)'
    <3>1. CASE r = o
      BY <1>3, <1>6, <1>9, <1>10, <3>1 DEF Attended
    <3>2. CASE r # o
      <4>1. Attended(r)
        BY <1>7, <1>10, <2>2, <3>2 DEF RetrievalInv, NoLostWakeup
      <4>2. CASE events > 0
        BY <1>7, <4>2 DEF Attended
      <4>3. CASE ~(events > 0)
        <5>1. PICK u \in Threads : thread[u].at = "posted" /\ u \in Elements(pending[r])
          BY <4>1, <4>3 DEF Attended
        <5>2. u # t
          BY <1>5, <5>1
        <5> QED  BY <1>9, <1>10, <3>2, <5>1, <5>2 DEF Attended
      <4> QED  BY <4>2, <4>3
    <3> QED  BY <3>1, <3>2
  <2> QED  BY <2>1, <2>2 DEF NoLostWakeup
<1> QED  BY <1>8, <1>12, <1>13, <1>14, <1>15, <1>16 DEF RetrievalInv

-----------------------------------------------------------------------------
(* The retrieval thread *)

LEMMA ProcessRequestKeepsInv ==
  ASSUME RetrievalInv, processRequest
  PROVE  RetrievalInv'
<1> DEFINE idle == {r \in Resources : pending[r] # <<>> /\ job[r] = NoJob}
<1> DEFINE new(r) == [of |-> Head(pending[r]), call |-> "none"]
<1>1. /\ events > 0 /\ events' = events - 1 /\ starting' = idle
      /\ job' = [r \in Resources |-> IF r \in idle THEN new(r) ELSE job[r]]
      /\ pending' = [r \in Resources |-> IF r \in idle THEN Tail(pending[r]) ELSE pending[r]]
      /\ thread' = WakeAll \/ thread' = thread
      /\ UNCHANGED <<request, cache, execs, unasked>>
  BY DEF processRequest
<1>2. \A r \in Resources : r \in idle <=> pending[r] # <<>> /\ job[r] = NoJob
  OBVIOUS
<1>3. idle \subseteq Resources
  OBVIOUS
<1>4. \A r \in idle :
        /\ Head(pending[r]) \in Threads /\ Head(pending[r]) \in Elements(pending[r])
        /\ Tail(pending[r]) \in Seq(Threads) /\ Distinct(Tail(pending[r]))
        /\ Elements(Tail(pending[r])) = Elements(pending[r]) \ {Head(pending[r])}
  <2> SUFFICES ASSUME NEW r \in idle
               PROVE  /\ Head(pending[r]) \in Threads /\ Head(pending[r]) \in Elements(pending[r])
                      /\ Tail(pending[r]) \in Seq(Threads) /\ Distinct(Tail(pending[r]))
                      /\ Elements(Tail(pending[r])) = Elements(pending[r]) \ {Head(pending[r])}
    OBVIOUS
  <2>1. pending[r] \in Seq(Threads) /\ pending[r] # <<>> /\ Distinct(pending[r])
    BY ElementsInThreads DEF RetrievalInv, QueuedRight
  <2>2. Head(pending[r]) = pending[r][1] /\ 1 \in DOMAIN pending[r]
    BY <2>1
  <2> QED  BY <2>1, <2>2, TailDistinct DEF Elements
<1>5. \A r \in idle : new(r) \in Job /\ new(r) # NoJob /\ new(r).of = Head(pending[r])
                     /\ new(r).call = "none"
  BY <1>4, RetrievalAssumption DEF Job, NoJob
<1> HIDE DEF new, idle
<1>6. \A r \in Resources :
        /\ r \in idle => job'[r] = new(r) /\ pending'[r] = Tail(pending[r])
        /\ r \notin idle => job'[r] = job[r] /\ pending'[r] = pending[r]
  BY <1>1
<1>7. /\ thread' \in [Threads -> Thread]
      /\ \A t \in Threads : thread'[t].at = "waiting" => thread[t].at = "waiting"
      /\ \A t \in Threads : Posted(t)' <=> Posted(t)
  BY <1>1, WakeAllTypes DEF RetrievalInv, TypeOK, Posted
<1>8. TypeOK'
  <2>1. job' \in [Resources -> Job \cup {NoJob}]
    BY <1>1, <1>5 DEF RetrievalInv, TypeOK
  <2>2. pending' \in [Resources -> Seq(Threads)]
    BY <1>1, <1>4 DEF RetrievalInv, TypeOK
  <2> QED  BY <1>1, <1>3, <1>7, <2>1, <2>2 DEF RetrievalInv, TypeOK
<1>9. \A t \in Threads : (Open(t)' <=> Open(t)) /\ Asks(t)' = Asks(t)
  BY <1>1, <1>7 DEF Open, Asks
<1>10. QueuedRight'
  <2> SUFFICES ASSUME NEW r \in Resources
               PROVE  /\ Distinct(pending'[r])
                      /\ \A u \in Elements(pending'[r]) :
                           Open(u)' /\ Asks(u)' = r /\ job'[r].of # u
    BY DEF QueuedRight
  <2>1. CASE r \in idle
    BY <1>4, <1>5, <1>6, <1>9, <2>1, ElementsInThreads DEF RetrievalInv, QueuedRight
  <2>2. CASE r \notin idle
    BY <1>6, <1>9, <2>2, ElementsInThreads DEF RetrievalInv, QueuedRight
  <2> QED  BY <2>1, <2>2
<1>11. RunningRight'
  <2> SUFFICES ASSUME NEW r \in Resources, job'[r] # NoJob
               PROVE  (Open(job[r].of) /\ Asks(job[r].of) = r)'
    BY DEF RunningRight
  <2>1. PICK u \in Threads : job'[r].of = u /\ Open(u) /\ Asks(u) = r
    <3>1. CASE r \in idle
      BY <1>4, <1>5, <1>6, <3>1 DEF RetrievalInv, QueuedRight
    <3>2. CASE r \notin idle
      BY <1>6, <3>2, JobOrNone DEF RetrievalInv, TypeOK, RunningRight
    <3> QED  BY <3>1, <3>2
  <2>2. Open(u)' /\ Asks(u)' = r
    BY <1>9, <2>1
  <2> QED  BY <2>1, <2>2 DEF Open, Posted, Asks
<1>12. Known'
  <2> SUFFICES ASSUME NEW u \in Threads, Open(u)'
               PROVE  u \in Elements(pending'[Asks(u)']) \/ job'[Asks(u)'].of = u
    BY DEF Known
  <2>1. /\ Asks(u) \in Resources /\ Asks(u)' = Asks(u)
        /\ u \in Elements(pending[Asks(u)]) \/ job[Asks(u)].of = u
    BY <1>9, RetrievalAssumption DEF RetrievalInv, TypeOK, Request, Asks, Known
  <2>2. CASE Asks(u) \in idle
    <3>1. job[Asks(u)].of # u
      <4>1. job[Asks(u)] = NoJob
        BY <1>2, <2>1, <2>2
      <4>2. NoJob.of # u
        BY RetrievalAssumption DEF NoJob
      <4> QED  BY <4>1, <4>2
    <3> QED  BY <1>4, <1>5, <1>6, <2>1, <2>2, <3>1
  <2>3. CASE Asks(u) \notin idle
    BY <1>6, <2>1, <2>3
  <2> QED  BY <2>2, <2>3
<1>13. StartsJobs'
  BY <1>1, <1>3, <1>5, <1>6 DEF StartsJobs
<1>14. NoLostWakeup'
  <2>1. \A t \in Threads : (thread[t].at = "waiting" => ~request[t].processed)'
    BY <1>1, <1>7 DEF RetrievalInv, NoLostWakeup
  <2>2. \A r \in Resources : ~(pending'[r] # <<>> /\ job'[r] = NoJob)
    BY <1>2, <1>5, <1>6
  <2> QED  BY <2>1, <2>2 DEF NoLostWakeup
<1> QED  BY <1>8, <1>10, <1>11, <1>12, <1>13, <1>14 DEF RetrievalInv

\* The end of a job, whatever its result, also of one that could not start.
LEMMA FinishedKeepsInv ==
  ASSUME RetrievalInv, NEW r \in Resources, job[r] \in Job, NEW error \in BOOLEAN,
         retrievalJobFinished(r, error), starting' \subseteq starting \ {r},
         cache' \in [Items -> SUBSET Parts], execs' = execs
  PROVE  RetrievalInv'
<1> DEFINE done == {job[r].of} \cup SameItem(r)
<1> DEFINE mark(t) == [request[t] EXCEPT !.processed = TRUE, !.error = error]
<1>1. /\ job[r] # NoJob /\ job[r].of \in Threads /\ Open(job[r].of)
      /\ Asks(job[r].of) = r
  BY JobOrNone DEF RetrievalInv, TypeOK, RunningRight
<1>2. /\ request' = [t \in Threads |-> IF t \in done THEN mark(t) ELSE request[t]]
      /\ pending' = [pending EXCEPT ![r] = Unanswered(r)]
      /\ job' = [job EXCEPT ![r] = NoJob]
      /\ thread' = WakeAll /\ events' = events + 1
  BY DEF retrievalJobFinished, Answer
<1>3. \A t \in Threads : /\ mark(t) \in Request /\ mark(t).processed
                         /\ mark(t).item = request[t].item
  BY DEF RetrievalInv, TypeOK, Request
<1>4. /\ done \subseteq Threads
      /\ \A t \in done : Asks(t) = r
      /\ SameItem(r) = done \cap Elements(pending[r])
  BY <1>1, ElementsInThreads DEF SameItem, Asks, RetrievalInv
<1>5. job[r].of \in done
  OBVIOUS
<1>6. /\ Unanswered(r) \in Seq(Threads) /\ Distinct(Unanswered(r))
      /\ Elements(Unanswered(r)) = Elements(pending[r]) \ done
  BY <1>4, UnansweredIs DEF RetrievalInv, QueuedRight
<1> HIDE DEF done, mark
<1>7. TypeOK'
  <2>1. request' \in [Threads -> Request]
    BY <1>2, <1>3 DEF RetrievalInv, TypeOK
  <2>2. thread' \in [Threads -> Thread]
    BY <1>2, WakeAllTypes DEF RetrievalInv, TypeOK
  <2>3. pending' \in [Resources -> Seq(Threads)] /\ job' \in [Resources -> Job \cup {NoJob}]
    BY <1>2, <1>6 DEF RetrievalInv, TypeOK
  <2>4. events' \in Nat /\ events' > 0 /\ execs' \in Nat /\ starting' \in SUBSET Resources
    BY <1>2 DEF RetrievalInv, TypeOK
  <2>5. unasked' \in [Threads -> [Items -> SUBSET Parts]]
    <3>1. unasked' = [t \in Threads |->
                       IF t \in SameItem(r) /\ ~error
                       THEN [unasked[t] EXCEPT ![request[t].item] =
                               @ \cup (request[t].parts \ request[job[r].of].parts)]
                       ELSE unasked[t]]
      BY DEF retrievalJobFinished, Answer
    <3>2. ASSUME NEW t \in Threads PROVE unasked'[t] \in [Items -> SUBSET Parts]
      <4>1. /\ unasked[t] \in [Items -> SUBSET Parts]
            /\ request[t].item \in Items /\ request[t].parts \subseteq Parts
        BY DEF RetrievalInv, TypeOK, Request
      <4> QED  BY <3>1, <4>1
    <3> QED  BY <3>1, <3>2
  <2> QED  BY <2>1, <2>2, <2>3, <2>4, <2>5 DEF TypeOK
<1>8. \A t \in Threads :
        /\ t \in done => request'[t] = mark(t)
        /\ t \notin done => request'[t] = request[t]
  BY <1>2
<1>9. /\ \A t \in Threads : Posted(t)' <=> Posted(t)
      /\ \A t \in Threads : thread'[t].at # "waiting"
  BY <1>2, WakeAllTypes DEF RetrievalInv, TypeOK, Posted
<1>10. \A t \in Threads : /\ Asks(t)' = Asks(t)
                          /\ t \in done => ~Open(t)'
                          /\ t \notin done => (Open(t)' <=> Open(t))
  BY <1>3, <1>8, <1>9 DEF Open, Asks
<1>11. /\ pending'[r] = Unanswered(r) /\ job'[r] = NoJob
       /\ \A p \in Resources : p # r => pending'[p] = pending[p] /\ job'[p] = job[p]
  BY <1>2 DEF RetrievalInv, TypeOK
<1>12. QueuedRight'
  <2> SUFFICES ASSUME NEW p \in Resources
               PROVE  /\ Distinct(pending'[p])
                      /\ \A u \in Elements(pending'[p]) :
                           Open(u)' /\ Asks(u)' = p /\ job'[p].of # u
    BY DEF QueuedRight
  <2>1. CASE p = r
    <3>1. \A u \in Elements(pending[r]) : u \in Threads /\ Open(u) /\ Asks(u) = r
      BY ElementsInThreads DEF RetrievalInv, QueuedRight
    <3>2. \A u \in Threads : NoJob.of # u
      BY RetrievalAssumption DEF NoJob
    <3> QED  BY <1>6, <1>10, <1>11, <2>1, <3>1, <3>2
  <2>2. CASE p # r
    BY <1>4, <1>10, <1>11, <2>2, ElementsInThreads DEF RetrievalInv, QueuedRight
  <2> QED  BY <2>1, <2>2
<1>13. RunningRight'
  <2> SUFFICES ASSUME NEW p \in Resources, job'[p] # NoJob
               PROVE  (Open(job[p].of) /\ Asks(job[p].of) = p)'
    BY DEF RunningRight
  <2>1. p # r /\ job'[p] = job[p]
    BY <1>11
  <2>2. PICK u \in Threads : job'[p].of = u /\ Open(u) /\ Asks(u) = p
    BY <2>1, JobOrNone DEF RetrievalInv, TypeOK, RunningRight
  <2>3. u \notin done
    BY <1>4, <2>1, <2>2
  <2>4. Open(u)' /\ Asks(u)' = p
    BY <1>10, <2>2, <2>3
  <2> QED  BY <2>2, <2>4 DEF Open, Posted, Asks
<1>14. Known'
  <2> SUFFICES ASSUME NEW u \in Threads, Open(u)'
               PROVE  u \in Elements(pending'[Asks(u)']) \/ job'[Asks(u)'].of = u
    BY DEF Known
  <2>1. u \notin done /\ Open(u) /\ Asks(u)' = Asks(u)
    BY <1>10
  <2>2. /\ Asks(u) \in Resources
        /\ u \in Elements(pending[Asks(u)]) \/ job[Asks(u)].of = u
    BY <2>1, RetrievalAssumption DEF RetrievalInv, TypeOK, Request, Asks, Known
  <2>3. CASE Asks(u) = r
    BY <1>5, <1>6, <1>11, <2>1, <2>2, <2>3
  <2>4. CASE Asks(u) # r
    BY <1>11, <2>1, <2>2, <2>4
  <2> QED  BY <2>3, <2>4
<1>15. StartsJobs'
  <2>1. \A p \in starting' : p \in Resources /\ p # r /\ p \in starting
    BY DEF RetrievalInv, TypeOK
  <2> QED  BY <1>11, <2>1 DEF RetrievalInv, StartsJobs
<1>16. NoLostWakeup'
  <2>1. events' > 0
    BY <1>2 DEF RetrievalInv, TypeOK
  <2> QED  BY <1>9, <2>1 DEF NoLostWakeup, Attended
<1> QED  BY <1>7, <1>12, <1>13, <1>14, <1>15, <1>16 DEF RetrievalInv

\* A call is made, with the new or the old method.
LEMMA CallKeepsInv ==
  ASSUME RetrievalInv, NEW r \in Resources, job[r] \in Job, NEW c \in {"V2", "old"},
         job' = [job EXCEPT ![r].call = c], starting' = starting \ {r},
         UNCHANGED <<thread, request, pending, events, cache, execs, unasked>>
  PROVE  RetrievalInv'
<1>1. /\ job'[r] \in Job /\ job'[r].of = job[r].of
      /\ \A p \in Resources : p # r => job'[p] = job[p]
  BY DEF RetrievalInv, TypeOK, Job
<1>2. job' \in [Resources -> Job \cup {NoJob}]
  BY <1>1 DEF RetrievalInv, TypeOK
<1>3. TypeOK'
  BY <1>2 DEF RetrievalInv, TypeOK
<1>4. \A p \in Resources : job'[p].of = job[p].of /\ (job'[p] = NoJob <=> job[p] = NoJob)
  BY <1>1, JobOrNone DEF RetrievalInv, TypeOK
<1>5. \A t : (Open(t)' <=> Open(t)) /\ Asks(t)' = Asks(t)
  BY DEF Open, Posted, Asks
<1>6. QueuedRight' /\ RunningRight'
  BY <1>4, <1>5 DEF RetrievalInv, QueuedRight, RunningRight
<1>7. Known'
  <2>1. \A t \in Threads : Asks(t) \in Resources
    BY RetrievalAssumption DEF RetrievalInv, TypeOK, Request, Asks
  <2> QED  BY <1>4, <1>5, <2>1 DEF RetrievalInv, Known
<1>8. StartsJobs'
  BY <1>1 DEF RetrievalInv, TypeOK, StartsJobs
<1>9. NoLostWakeup'
  BY <1>4 DEF RetrievalInv, NoLostWakeup, Attended
<1> QED  BY <1>3, <1>6, <1>7, <1>8, <1>9 DEF RetrievalInv

LEMMA ResourceKeepsInv ==
  ASSUME RetrievalInv, NEW r \in Resources,
         StartJob(r) \/ CannotContact(r) \/ CallEnds(r) \/ UnknownMethod(r)
  PROVE  RetrievalInv'
<1>1. /\ r \in starting => job[r] \in Job
      /\ Calling(r) => job[r] \in Job /\ starting = {}
      /\ cache \in [Items -> SUBSET Parts]
  BY JobOrNone DEF RetrievalInv, TypeOK, StartsJobs, Calling
<1>2. CASE StartJob(r)
  BY <1>1, <1>2, CallKeepsInv DEF StartJob
<1>3. CASE CannotContact(r)
  BY <1>1, <1>3, FinishedKeepsInv DEF CannotContact
<1>4. CASE Delivered(r)
  <2>1. job[r] \in Job /\ job[r].of \in Threads /\ request[job[r].of] \in Request
    BY <1>1, <1>4, JobOrNone DEF Delivered, RetrievalInv, TypeOK
  <2>2. cache' \in [Items -> SUBSET Parts]
    BY <1>1, <1>4, <2>1 DEF Delivered, Request
  <2>3. retrievalJobFinished(r, FALSE) /\ starting' = {} /\ execs' = execs
    BY <1>1, <1>4 DEF Delivered
  <2> QED  BY <2>1, <2>2, <2>3, FinishedKeepsInv
<1>5. CASE CallFailed(r)
  BY <1>1, <1>5, FinishedKeepsInv DEF CallFailed
<1>6. CASE UnknownMethod(r)
  BY <1>1, <1>6, CallKeepsInv DEF UnknownMethod
<1> QED  BY <1>2, <1>3, <1>4, <1>5, <1>6 DEF CallEnds

-----------------------------------------------------------------------------
(* The theorems *)

LEMMA RetrievalStepKeepsInv == RetrievalInv /\ [Next]_vars => RetrievalInv'
<1> SUFFICES ASSUME RetrievalInv, [Next]_vars PROVE RetrievalInv'
  OBVIOUS
<1>1. CASE \E t \in Threads, wishes \in WishLists : Exec(t, wishes)
  BY <1>1, ExecKeepsInv
<1>2. CASE \E t \in Threads : ThreadStep(t)
  BY <1>2, ExecReturnsKeepsInv, PostKeepsInv, EmitKeepsInv, CheckKeepsInv DEF ThreadStep
<1>3. CASE RetrievalStep
  BY <1>3, ProcessRequestKeepsInv, ResourceKeepsInv DEF RetrievalStep
<1>4. CASE \E r \in Resources : CallEnds(r) \/ UnknownMethod(r)
  BY <1>4, ResourceKeepsInv
<1>5. CASE UNCHANGED vars
  BY <1>5 DEF vars, RetrievalInv, TypeOK, QueuedRight, RunningRight, Known, StartsJobs,
              NoLostWakeup, Attended, Open, Posted, Asks
<1> QED  BY <1>1, <1>2, <1>3, <1>4, <1>5 DEF Next

\* What queues, jobs and threads have to do with each other holds throughout.
THEOREM RetrievalInvariant == Spec => []RetrievalInv
BY InitRetrievalInv, RetrievalStepKeepsInv, PTL DEF Spec

\* Every variable keeps its type.
THEOREM RetrievalTypes == Spec => []TypeOK
<1>1. RetrievalInv => TypeOK
  BY DEF RetrievalInv
<1> QED  BY <1>1, RetrievalInvariant, PTL

\* A request is in the queue or the job of its resource, once and nowhere else,
\* from the moment it is posted until it is processed: the assertions of
\* requestItemDelivery() and retrievalJobFinished() hold, and no pointer to a
\* deleted request remains.
THEOREM NoRequestLost == Spec => []RequestsTracked
<1>1. RetrievalInv => RequestsTracked
  <2> SUFFICES ASSUME RetrievalInv, NEW t \in Threads PROVE Tracked(t)
    BY DEF RequestsTracked
  <2>1. Asks(t) \in Resources
    BY RetrievalAssumption DEF RetrievalInv, TypeOK, Request, Asks
  <2>2. \A r \in Resources : t \in Elements(pending[r]) =>
          Open(t) /\ r = Asks(t) /\ job[r].of # t
    BY DEF RetrievalInv, QueuedRight
  <2>3. \A r \in Resources : job[r].of = t => Open(t) /\ r = Asks(t)
    BY RetrievalAssumption DEF RetrievalInv, RunningRight, NoJob
  <2>4. CASE Open(t)
    <3>1. t \in Elements(pending[Asks(t)]) \/ job[Asks(t)].of = t
      BY <2>4 DEF RetrievalInv, Known
    <3> QED  BY <2>1, <2>2, <2>3, <2>4, <3>1 DEF Tracked, Queued, Running, Open, Asks
  <2>5. CASE ~Open(t)
    BY <2>2, <2>3, <2>5 DEF Tracked, Queued, Running, Open
  <2> QED  BY <2>4, <2>5
<1> QED  BY <1>1, RetrievalInvariant, PTL

\* No wakeup is missed, neither by the event loop nor by a thread.
THEOREM NobodyForgotten == Spec => []NoLostWakeup
<1>1. RetrievalInv => NoLostWakeup
  BY DEF RetrievalInv
<1> QED  BY <1>1, RetrievalInvariant, PTL

-----------------------------------------------------------------------------
(* What success means *)

\* Something of item i is in the cache.
Held(i) == cache[i] # {}

\* The parts of w that thread t was asked for: something of the item is there,
\* or t has yet to request it, or waits for it, or has yet to see the error.
Provided(t, w) ==
  \/ w.parts = {} \/ Held(w.item)
  \/ \E x \in thread[t].todo : x.item = w.item
  \/ /\ Posted(t) /\ request[t].item = w.item
     /\ ~request[t].processed \/ request[t].error

\* Only what is missing is requested, and success leaves nothing to request;
\* an answer without an error is one for the item.
CacheSound ==
  \A t \in Threads :
    /\ \A x \in thread[t].todo : x.parts # {}
    /\ thread[t].at = "succeeded" => thread[t].todo = {}
    /\ Open(t) => request[t].parts # {}
    /\ Posted(t) /\ request[t].processed /\ ~request[t].error => Held(request[t].item)
    /\ thread[t].at # "failed" => \A w \in thread[t].wanted : Provided(t, w)

\* Parts do not leave the cache.
LEMMA CacheKeeps ==
  ASSUME RetrievalInv, [Next]_vars, NEW i \in Items
  PROVE  cache[i] \subseteq cache'[i]
<1>1. CASE UNCHANGED cache
  BY <1>1
<1>2. CASE \E r \in Resources : Delivered(r)
  BY <1>2 DEF RetrievalInv, TypeOK, Delivered
<1> QED
  BY <1>1, <1>2 DEF Next, vars, Exec, ThreadStep, ExecReturns, Post, EmitRequestAdded, Check,
     RetrievalStep, processRequest, StartJob, CannotContact, CallEnds, CallFailed, UnknownMethod

LEMMA CacheGrows ==
  ASSUME RetrievalInv, [Next]_vars, NEW i \in Items, Held(i)
  PROVE  Held(i)'
BY CacheKeeps DEF Held

\* A step in which thread t moves, and of the requests at most its own changes.
LEMMA OneThreadKeepsSound ==
  ASSUME RetrievalInv, CacheSound, NEW t \in Threads, UNCHANGED cache,
         \A u \in Threads : u # t => thread'[u] = thread[u] /\ request'[u] = request[u],
         \A x \in thread'[t].todo : x.parts # {},
         thread'[t].at = "succeeded" => thread'[t].todo = {},
         Open(t)' => request'[t].parts # {},
         Posted(t)' /\ request'[t].processed /\ ~request'[t].error => Held(request'[t].item),
         thread'[t].at # "failed" => \A w \in thread'[t].wanted : Provided(t, w)'
  PROVE  CacheSound'
<1>1. \A i : Held(i)' <=> Held(i)
  BY DEF Held
<1>2. ASSUME NEW u \in Threads, u # t
      PROVE  /\ Open(u)' <=> Open(u)
             /\ Posted(u)' <=> Posted(u)
             /\ \A w : Provided(u, w)' <=> Provided(u, w)
  BY <1>1, <1>2 DEF Open, Posted, Provided
<1> SUFFICES ASSUME NEW u \in Threads
             PROVE  /\ \A x \in thread'[u].todo : x.parts # {}
                    /\ thread'[u].at = "succeeded" => thread'[u].todo = {}
                    /\ Open(u)' => request'[u].parts # {}
                    /\ Posted(u)' /\ request'[u].processed /\ ~request'[u].error
                         => Held(request[u].item)'
                    /\ thread'[u].at # "failed" => \A w \in thread'[u].wanted : Provided(u, w)'
  BY DEF CacheSound
<1>3. CASE u = t
  BY <1>1, <1>3 DEF Held
<1>4. CASE u # t
  BY <1>1, <1>2, <1>4 DEF CacheSound, Held
<1> QED  BY <1>3, <1>4

LEMMA ExecKeepsSound ==
  ASSUME RetrievalInv, CacheSound, NEW t \in Threads, NEW wishes \in WishLists,
         Exec(t, wishes)
  PROVE  CacheSound'
<1> DEFINE todo == {m \in {Missing(w) : w \in wishes} : m.parts # {}}
<1>1. wishes \subseteq Wish
  BY WishesAssumption DEF Wish
<1>2. /\ thread' = [thread EXCEPT ![t] = [at |-> "working", wanted |-> wishes, todo |-> todo]]
      /\ UNCHANGED <<request, cache>>
  BY DEF Exec
<1>3. \A w \in wishes : /\ Missing(w).item = w.item
                        /\ Missing(w).parts = w.parts \ cache[w.item]
  BY <1>1 DEF Missing, Wish
<1>4. \A w \in wishes : w.parts = {} \/ Held(w.item) \/ Missing(w) \in todo
  BY <1>3 DEF Held
<1>5. \A x \in todo : x.parts # {}
  OBVIOUS
<1> HIDE DEF todo
<1>6. /\ thread'[t] = [at |-> "working", wanted |-> wishes, todo |-> todo]
      /\ \A u \in Threads : u # t => thread'[u] = thread[u] /\ request'[u] = request[u]
  BY <1>2 DEF RetrievalInv, TypeOK
<1>7. \A w \in wishes : Provided(t, w)'
  BY <1>2, <1>3, <1>4, <1>6 DEF Provided, Held
<1>8. ~Posted(t)' /\ ~Open(t)'
  BY <1>6 DEF Posted, Open
<1> QED  BY <1>2, <1>5, <1>6, <1>7, <1>8, OneThreadKeepsSound

LEMMA ExecReturnsKeepsSound ==
  ASSUME RetrievalInv, CacheSound, NEW t \in Threads, ExecReturns(t)
  PROVE  CacheSound'
<1>1. /\ thread'[t] = [thread[t] EXCEPT !.at = "succeeded"]
      /\ thread[t].at = "working" /\ thread[t].todo = {}
      /\ UNCHANGED <<request, cache>>
      /\ \A u \in Threads : u # t => thread'[u] = thread[u] /\ request'[u] = request[u]
  BY DEF RetrievalInv, TypeOK, ExecReturns
<1>2. /\ thread'[t].at = "succeeded" /\ thread'[t].todo = {}
      /\ thread'[t].wanted = thread[t].wanted
  BY <1>1 DEF RetrievalInv, TypeOK, Thread
<1>3. ~Posted(t) /\ ~Posted(t)' /\ ~Open(t)'
  BY <1>1, <1>2 DEF Posted, Open
<1>4. \A w \in thread[t].wanted : Provided(t, w)'
  BY <1>1, <1>2, <1>3 DEF CacheSound, Provided, Held
<1> QED  BY <1>1, <1>2, <1>3, <1>4, OneThreadKeepsSound

LEMMA PostKeepsSound ==
  ASSUME RetrievalInv, CacheSound, NEW t \in Threads, NEW x \in thread[t].todo, Post(t, x)
  PROVE  CacheSound'
<1> DEFINE new == [item |-> x.item, parts |-> x.parts, processed |-> FALSE, error |-> FALSE]
<1>1. /\ thread'[t] = [thread[t] EXCEPT !.at = "posted", !.todo = @ \ {x}]
      /\ thread[t].at = "working" /\ request'[t] = new
      /\ UNCHANGED cache
      /\ \A u \in Threads : u # t => thread'[u] = thread[u] /\ request'[u] = request[u]
  BY DEF RetrievalInv, TypeOK, Post
<1>2. new.item = x.item /\ new.parts = x.parts /\ ~new.processed
  OBVIOUS
<1> HIDE DEF new
<1>3. /\ thread'[t].at = "posted" /\ thread'[t].todo = thread[t].todo \ {x}
      /\ thread'[t].wanted = thread[t].wanted
  BY <1>1 DEF RetrievalInv, TypeOK, Thread
<1>4. ~Posted(t) /\ Posted(t)'
  BY <1>1, <1>3 DEF Posted
<1>5. \A w \in thread[t].wanted : Provided(t, w)'
  <2> SUFFICES ASSUME NEW w \in thread[t].wanted PROVE Provided(t, w)'
    OBVIOUS
  <2>1. w.parts = {} \/ Held(w.item) \/ \E y \in thread[t].todo : y.item = w.item
    BY <1>1, <1>4 DEF CacheSound, Provided
  <2>2. CASE w.parts = {} \/ Held(w.item)
    BY <1>1, <2>2 DEF Provided, Held
  <2>3. CASE x.item = w.item
    BY <1>1, <1>2, <1>4, <2>3 DEF Provided
  <2>4. CASE \E y \in thread[t].todo : y # x /\ y.item = w.item
    BY <1>3, <2>4 DEF Provided
  <2> QED  BY <2>1, <2>2, <2>3, <2>4
<1>6. \A y \in thread'[t].todo : y.parts # {}
  BY <1>3 DEF CacheSound
<1>7. request'[t].parts # {} /\ ~request'[t].processed
  BY <1>1, <1>2 DEF CacheSound
<1> QED  BY <1>1, <1>3, <1>5, <1>6, <1>7, OneThreadKeepsSound

LEMMA EmitKeepsSound ==
  ASSUME RetrievalInv, CacheSound, NEW t \in Threads, EmitRequestAdded(t)
  PROVE  CacheSound'
<1>1. /\ thread'[t] = [thread[t] EXCEPT !.at = "checking"]
      /\ thread[t].at = "posted"
      /\ UNCHANGED <<request, cache>>
      /\ \A u \in Threads : u # t => thread'[u] = thread[u] /\ request'[u] = request[u]
  BY DEF RetrievalInv, TypeOK, EmitRequestAdded
<1>2. /\ thread'[t].at = "checking" /\ thread'[t].todo = thread[t].todo
      /\ thread'[t].wanted = thread[t].wanted
  BY <1>1 DEF RetrievalInv, TypeOK, Thread
<1>3. Posted(t) /\ Posted(t)' /\ (Open(t)' <=> Open(t))
  BY <1>1, <1>2 DEF Posted, Open
<1>4. \A w \in thread[t].wanted : Provided(t, w)'
  BY <1>1, <1>2, <1>3 DEF CacheSound, Provided, Held
<1> QED  BY <1>1, <1>2, <1>3, <1>4, OneThreadKeepsSound DEF CacheSound

LEMMA CheckKeepsSound ==
  ASSUME RetrievalInv, CacheSound, NEW t \in Threads, Check(t)
  PROVE  CacheSound'
<1>1. /\ thread'[t] = IF request[t].processed THEN AfterAnswer(t)
                      ELSE [thread[t] EXCEPT !.at = "waiting"]
      /\ thread[t].at = "checking"
      /\ UNCHANGED <<request, cache>>
      /\ \A u \in Threads : u # t => thread'[u] = thread[u] /\ request'[u] = request[u]
  BY DEF RetrievalInv, TypeOK, Check
<1>2. Posted(t)
  BY <1>1 DEF Posted
<1>3. CASE ~request[t].processed
  <2>1. /\ thread'[t].at = "waiting" /\ thread'[t].todo = thread[t].todo
        /\ thread'[t].wanted = thread[t].wanted
    BY <1>1, <1>3 DEF RetrievalInv, TypeOK, Thread
  <2>2. Posted(t)' /\ (Open(t)' <=> Open(t))
    BY <1>1, <1>2, <2>1 DEF Posted, Open
  <2>3. \A w \in thread[t].wanted : Provided(t, w)'
    BY <1>1, <1>2, <2>1, <2>2 DEF CacheSound, Provided, Held
  <2> QED  BY <1>1, <1>2, <2>1, <2>2, <2>3, OneThreadKeepsSound DEF CacheSound
<1>4. CASE request[t].processed /\ request[t].error
  <2>1. thread'[t].at = "failed" /\ thread'[t].todo = {}
    BY <1>1, <1>4 DEF RetrievalInv, TypeOK, Thread, AfterAnswer
  <2>2. ~Posted(t)' /\ ~Open(t)'
    BY <2>1 DEF Posted, Open
  <2> QED  BY <1>1, <2>1, <2>2, OneThreadKeepsSound
<1>5. CASE request[t].processed /\ ~request[t].error
  <2>1. /\ thread'[t].at = "working" /\ thread'[t].todo = thread[t].todo
        /\ thread'[t].wanted = thread[t].wanted
    BY <1>1, <1>5 DEF RetrievalInv, TypeOK, Thread, AfterAnswer
  <2>2. ~Posted(t)' /\ ~Open(t)'
    BY <2>1 DEF Posted, Open
  <2>3. Held(request[t].item)
    BY <1>2, <1>5 DEF CacheSound
  <2>4. \A w \in thread[t].wanted : Provided(t, w)'
    BY <1>1, <1>2, <1>5, <2>1, <2>3 DEF CacheSound, Provided, Held
  <2> QED  BY <1>1, <2>1, <2>2, <2>4, OneThreadKeepsSound DEF CacheSound
<1> QED  BY <1>3, <1>4, <1>5

\* Threads that sleep may be woken, and nothing else changes for them.
LEMMA WakingKeepsSound ==
  ASSUME RetrievalInv, CacheSound, thread' = WakeAll \/ thread' = thread,
         UNCHANGED <<request, cache>>
  PROVE  CacheSound'
<1> SUFFICES ASSUME NEW t \in Threads
             PROVE  /\ \A x \in thread'[t].todo : x.parts # {}
                    /\ thread'[t].at = "succeeded" => thread'[t].todo = {}
                    /\ Open(t)' => request'[t].parts # {}
                    /\ Posted(t)' /\ request'[t].processed /\ ~request'[t].error
                         => cache'[request'[t].item] # {}
                    /\ thread'[t].at # "failed" => \A w \in thread'[t].wanted : Provided(t, w)'
  BY DEF CacheSound, Held
<1>1. /\ thread'[t].todo = thread[t].todo /\ thread'[t].wanted = thread[t].wanted
      /\ thread'[t].at = thread[t].at \/ (thread[t].at = "waiting" /\ thread'[t].at = "checking")
  BY DEF WakeAll, RetrievalInv, TypeOK, Thread
<1>2. (Posted(t)' <=> Posted(t)) /\ (Open(t)' <=> Open(t))
  BY <1>1 DEF Posted, Open
<1>3. \A w : Provided(t, w)' <=> Provided(t, w)
  BY <1>1, <1>2 DEF Provided, Held
<1>4. thread[t].at # "failed" => \A w \in thread[t].wanted : Provided(t, w)
  BY DEF CacheSound
<1> QED  BY <1>1, <1>2, <1>3, <1>4 DEF CacheSound, Held

\* A job ends, with an error or with something of the item in the cache.
LEMMA FinishedKeepsSound ==
  ASSUME RetrievalInv, CacheSound, [Next]_vars, NEW r \in Resources, job[r] \in Job,
         NEW error \in BOOLEAN, retrievalJobFinished(r, error),
         error \/ cache'[request[job[r].of].item] # {}
  PROVE  CacheSound'
<1> SUFFICES ASSUME NEW t \in Threads
             PROVE  /\ \A x \in thread'[t].todo : x.parts # {}
                    /\ thread'[t].at = "succeeded" => thread'[t].todo = {}
                    /\ Open(t)' => request'[t].parts # {}
                    /\ Posted(t)' /\ request'[t].processed /\ ~request'[t].error
                         => cache'[request'[t].item] # {}
                    /\ thread'[t].at # "failed" => \A w \in thread'[t].wanted : Provided(t, w)'
  BY DEF CacheSound, Held
<1>1. /\ thread'[t].todo = thread[t].todo /\ thread'[t].wanted = thread[t].wanted
      /\ thread'[t].at = thread[t].at \/ (thread[t].at = "waiting" /\ thread'[t].at = "checking")
  BY DEF retrievalJobFinished, WakeAll, RetrievalInv, TypeOK, Thread
<1>2. Posted(t)' <=> Posted(t)
  BY <1>1 DEF Posted
<1>3. \A i \in Items : Held(i) => Held(i)'
  BY CacheGrows
<1>4. /\ request[t] \in Request /\ request[t].item \in Items
      /\ \A w \in thread[t].wanted : w.item \in Items
  BY DEF RetrievalInv, TypeOK, Request, Thread, Wish
<1>5. CASE t = job[r].of \/ t \in SameItem(r)
  <2>1. request'[t] = [request[t] EXCEPT !.processed = TRUE, !.error = error]
    BY <1>5 DEF retrievalJobFinished, Answer
  <2>2. /\ request'[t].item = request[t].item /\ request'[t].parts = request[t].parts
        /\ request'[t].error = error
    BY <1>4, <2>1 DEF Request
  <2>3. request'[t].processed
    BY <1>4, <2>1 DEF Request
  <2>4. request[t].item = request[job[r].of].item
    BY <1>5 DEF SameItem
  <2>5. PICK i \in Items : i = request[t].item
    BY <1>4
  <2>6. error \/ Held(i)'
    BY <2>4, <2>5 DEF Held
  <2>7. Posted(t)' /\ ~request'[t].error => Held(i)'
    BY <2>2, <2>6
  <2>8. ASSUME thread[t].at # "failed", NEW w \in thread[t].wanted
        PROVE  Provided(t, w)'
    <3>1. Provided(t, w)
      BY <2>8 DEF CacheSound
    <3>2. CASE w.parts = {} \/ Held(w.item) \/ \E x \in thread[t].todo : x.item = w.item
      BY <1>1, <1>3, <1>4, <3>2 DEF Provided, Held
    <3>3. CASE Posted(t) /\ request[t].item = w.item
      BY <1>2, <2>2, <2>3, <2>5, <2>6, <3>3 DEF Provided, Held
    <3> QED  BY <3>1, <3>2, <3>3 DEF Provided
  <2>9. ~Open(t)'
    BY <2>3 DEF Open
  <2>10. thread'[t].at # "failed" => thread[t].at # "failed"
    BY <1>1
  <2> QED  BY <1>1, <2>2, <2>5, <2>7, <2>8, <2>9, <2>10 DEF CacheSound, Held
<1>6. CASE ~(t = job[r].of \/ t \in SameItem(r))
  <2>1. request'[t] = request[t]
    BY <1>6 DEF retrievalJobFinished, Answer
  <2>2. Open(t)' <=> Open(t)
    BY <1>2, <2>1 DEF Open
  <2>3. ASSUME NEW w \in thread[t].wanted, Provided(t, w)
        PROVE  Provided(t, w)'
    BY <1>1, <1>2, <1>3, <1>4, <2>1, <2>3 DEF Provided, Held
  <2>4. Posted(t) /\ request[t].processed /\ ~request[t].error => cache'[request[t].item] # {}
    BY <1>3, <1>4 DEF CacheSound, Held
  <2>5. thread'[t].at # "failed" => \A w \in thread[t].wanted : Provided(t, w)
    BY <1>1 DEF CacheSound
  <2>6. thread'[t].at = "succeeded" => thread'[t].todo = {}
    BY <1>1 DEF CacheSound
  <2>7. Open(t)' => request'[t].parts # {}
    BY <2>1, <2>2 DEF CacheSound
  <2>8. \A x \in thread[t].todo : x.parts # {}
    BY DEF CacheSound
  <2> QED  BY <1>1, <1>2, <2>1, <2>3, <2>4, <2>5, <2>6, <2>7, <2>8 DEF Held
<1> QED  BY <1>5, <1>6

LEMMA ResourceKeepsSound ==
  ASSUME RetrievalInv, CacheSound, [Next]_vars, NEW r \in Resources,
         StartJob(r) \/ CannotContact(r) \/ CallEnds(r) \/ UnknownMethod(r)
  PROVE  CacheSound'
<1>1. /\ r \in starting => job[r] \in Job
      /\ Calling(r) => job[r] \in Job
      /\ cache \in [Items -> SUBSET Parts]
  BY JobOrNone DEF RetrievalInv, TypeOK, StartsJobs, Calling
<1>2. CASE StartJob(r) \/ UnknownMethod(r)
  BY <1>2, WakingKeepsSound DEF StartJob, UnknownMethod
<1>3. CASE CannotContact(r) \/ CallFailed(r)
  BY <1>1, <1>3, FinishedKeepsSound DEF CannotContact, CallFailed
<1>4. CASE Delivered(r)
  <2>1. job[r] \in Job /\ job[r] # NoJob
    BY <1>1, <1>4, JobOrNone DEF Delivered, RetrievalInv, TypeOK
  <2>2. PICK q \in Request : q = request[job[r].of]
    BY <2>1, JobOrNone DEF RetrievalInv, TypeOK
  <2>3. q.parts # {}
    BY <2>1, <2>2, JobOrNone DEF RetrievalInv, TypeOK, RunningRight, CacheSound
  <2>4. cache' = [cache EXCEPT ![q.item] = @ \cup q.parts] /\ retrievalJobFinished(r, FALSE)
    BY <1>4, <2>2 DEF Delivered
  <2>5. q.item \in Items
    BY DEF Request
  <2>6. cache'[request[job[r].of].item] # {}
    BY <1>1, <2>2, <2>3, <2>4, <2>5
  <2> QED  BY <2>1, <2>4, <2>6, FinishedKeepsSound
<1> QED  BY <1>2, <1>3, <1>4 DEF CallEnds

LEMMA StepKeepsSound == RetrievalInv /\ CacheSound /\ [Next]_vars => CacheSound'
<1> SUFFICES ASSUME RetrievalInv, CacheSound, [Next]_vars PROVE CacheSound'
  OBVIOUS
<1>1. CASE \E t \in Threads, wishes \in WishLists : Exec(t, wishes)
  BY <1>1, ExecKeepsSound
<1>2. CASE \E t \in Threads : ThreadStep(t)
  BY <1>2, ExecReturnsKeepsSound, PostKeepsSound, EmitKeepsSound, CheckKeepsSound DEF ThreadStep
<1>3. CASE processRequest
  BY <1>3, WakingKeepsSound DEF processRequest
<1>4. CASE \E r \in Resources : StartJob(r) \/ CannotContact(r)
  BY <1>4, ResourceKeepsSound
<1>5. CASE \E r \in Resources : CallEnds(r) \/ UnknownMethod(r)
  BY <1>5, ResourceKeepsSound
<1>6. CASE UNCHANGED vars
  BY <1>6, WakingKeepsSound DEF vars
<1> QED  BY <1>1, <1>2, <1>3, <1>4, <1>5, <1>6 DEF Next, RetrievalStep

\* So does what they have to do with the cache.
THEOREM CacheInvariant == Spec => [](RetrievalInv /\ CacheSound)
<1>1. Init => CacheSound
  <2> SUFFICES ASSUME Init, NEW t \in Threads
               PROVE  /\ thread[t].todo = {} /\ thread[t].wanted = {} /\ ~Posted(t) /\ ~Open(t)
    BY DEF CacheSound
  <2> QED  BY DEF Init, Posted, Open
<1> QED  BY <1>1, InitRetrievalInv, RetrievalStepKeepsInv, StepKeepsSound, PTL DEF Spec

\* When exec() reports success, the server holds something of each item that
\* the thread was asked for, whichever thread's request fetched it.
SomethingCached ==
  \A t \in Threads : thread[t].at = "succeeded" =>
    \A w \in thread[t].wanted : w.parts # {} => cache[w.item] # {}

\* This much holds for any parts.
THEOREM SuccessMeansSomething == Spec => []SomethingCached
<1>1. CacheSound => SomethingCached
  BY DEF CacheSound, SomethingCached, Provided, Held, Posted
<1> QED  BY <1>1, CacheInvariant, PTL

-----------------------------------------------------------------------------
(* What success means, part by part *)

\* The part is in the cache, or the job whose end was taken for the answer had not
\* asked for it.
Got(t, i, p) == p \in cache[i] \/ p \in unasked[t][i]

\* Thread t has got part p of item i, or has yet to request it, or waits for it, or
\* has yet to see the error.
Accounted(t, i, p) ==
  \/ Got(t, i, p)
  \/ \E x \in thread[t].todo : x.item = i /\ p \in x.parts
  \/ /\ Posted(t) /\ request[t].item = i /\ p \in request[t].parts
     /\ ~request[t].processed \/ request[t].error

\* All parts that a thread was asked for are accounted for; an answer without an
\* error is one for all parts of the request.
PartsOf(t) ==
  /\ Posted(t) /\ request[t].processed /\ ~request[t].error
       => \A p \in request[t].parts : Got(t, request[t].item, p)
  /\ thread[t].at # "failed" =>
       \A w \in thread[t].wanted : \A p \in w.parts : Accounted(t, w.item, p)

PartsSound == \A t \in Threads : PartsOf(t)

\* What a thread has got it keeps, until it asks again.
LEMMA PartsStay ==
  ASSUME RetrievalInv, [Next]_vars, NEW t \in Threads, thread[t].at \notin {"succeeded", "failed"},
         NEW i \in Items, NEW p, Got(t, i, p)
  PROVE  Got(t, i, p)'
<1>1. ASSUME NEW r \in Resources, NEW error \in BOOLEAN, Answer(r, error)
      PROVE  p \in unasked[t][i] => p \in unasked'[t][i]
  BY <1>1 DEF Answer, RetrievalInv, TypeOK
<1>2. CASE UNCHANGED <<cache, unasked>>
  BY <1>2 DEF Got
<1>3. CASE \E u \in Threads, wishes \in WishLists : Exec(u, wishes)
  <2>1. cache' = cache /\ unasked'[t] = unasked[t]
    BY <1>3 DEF Exec, RetrievalInv, TypeOK
  <2> QED  BY <2>1 DEF Got
<1>4. CASE \E r \in Resources : CannotContact(r) \/ CallFailed(r)
  <2>1. PICK r \in Resources : Answer(r, TRUE) /\ cache' = cache
    BY <1>4 DEF CannotContact, CallFailed, retrievalJobFinished
  <2> QED  BY <1>1, <2>1 DEF Got
<1>5. CASE \E r \in Resources : Delivered(r)
  <2>1. PICK r \in Resources :
          /\ Answer(r, FALSE)
          /\ cache' = [cache EXCEPT ![request[job[r].of].item] = @ \cup request[job[r].of].parts]
    BY <1>5 DEF Delivered, retrievalJobFinished
  <2>2. cache[i] \subseteq cache'[i]
    BY <2>1 DEF RetrievalInv, TypeOK
  <2> QED  BY <1>1, <2>1, <2>2 DEF Got
<1> QED
  BY <1>2, <1>3, <1>4, <1>5 DEF Next, vars, ThreadStep, ExecReturns, Post, EmitRequestAdded, Check,
     RetrievalStep, processRequest, StartJob, CallEnds, UnknownMethod

\* A step in which thread t moves, and nothing is answered.
LEMMA OneThreadKeepsParts ==
  ASSUME PartsSound, NEW t \in Threads, cache' = cache,
         \A u \in Threads : u # t => /\ thread'[u] = thread[u] /\ request'[u] = request[u]
                                     /\ unasked'[u] = unasked[u],
         PartsOf(t)'
  PROVE  PartsSound'
<1> SUFFICES ASSUME NEW u \in Threads, u # t PROVE PartsOf(u)'
  BY DEF PartsSound
<1>1. Posted(u)' <=> Posted(u)
  BY DEF Posted
<1>2. \A i, p : Got(u, i, p)' <=> Got(u, i, p)
  BY DEF Got
<1>3. \A i, p : Accounted(u, i, p)' <=> Accounted(u, i, p)
  BY <1>1, <1>2 DEF Accounted
<1> QED  BY <1>1, <1>2, <1>3 DEF PartsSound, PartsOf

LEMMA ExecKeepsParts ==
  ASSUME RetrievalInv, PartsSound, NEW t \in Threads, NEW wishes \in WishLists, Exec(t, wishes)
  PROVE  PartsSound'
<1> DEFINE todo == {m \in {Missing(w) : w \in wishes} : m.parts # {}}
<1>1. wishes \subseteq Wish
  BY WishesAssumption DEF Wish
<1>2. /\ thread'[t] = [at |-> "working", wanted |-> wishes, todo |-> todo]
      /\ cache' = cache
      /\ \A u \in Threads : u # t => /\ thread'[u] = thread[u] /\ request'[u] = request[u]
                                     /\ unasked'[u] = unasked[u]
  BY DEF Exec, RetrievalInv, TypeOK
<1>3. \A w \in wishes : /\ Missing(w).item = w.item
                        /\ Missing(w).parts = w.parts \ cache[w.item]
  BY <1>1 DEF Missing, Wish
<1>4. \A w \in wishes : \A p \in w.parts :
        p \in cache[w.item] \/ \E x \in todo : x.item = w.item /\ p \in x.parts
  BY <1>3
<1> HIDE DEF todo
<1>5. ~Posted(t)'
  BY <1>2 DEF Posted
<1>6. \A w \in wishes : \A p \in w.parts : Accounted(t, w.item, p)'
  BY <1>2, <1>4 DEF Accounted, Got
<1>7. PartsOf(t)'
  BY <1>2, <1>5, <1>6 DEF PartsOf
<1> QED  BY <1>2, <1>7, OneThreadKeepsParts

LEMMA ExecReturnsKeepsParts ==
  ASSUME RetrievalInv, PartsSound, NEW t \in Threads, ExecReturns(t)
  PROVE  PartsSound'
<1>1. /\ thread'[t] = [thread[t] EXCEPT !.at = "succeeded"]
      /\ thread[t].at = "working"
      /\ UNCHANGED <<request, cache, unasked>>
      /\ \A u \in Threads : u # t => thread'[u] = thread[u]
  BY DEF RetrievalInv, TypeOK, ExecReturns
<1>2. /\ thread'[t].at = "succeeded" /\ thread'[t].todo = thread[t].todo
      /\ thread'[t].wanted = thread[t].wanted
  BY <1>1 DEF RetrievalInv, TypeOK, Thread
<1>3. ~Posted(t) /\ ~Posted(t)'
  BY <1>1, <1>2 DEF Posted
<1>4. \A i, p : Accounted(t, i, p) => Accounted(t, i, p)'
  BY <1>1, <1>2, <1>3 DEF Accounted, Got
<1>5. PartsOf(t)'
  BY <1>1, <1>2, <1>3, <1>4 DEF PartsSound, PartsOf
<1> QED  BY <1>1, <1>5, OneThreadKeepsParts

LEMMA PostKeepsParts ==
  ASSUME RetrievalInv, PartsSound, NEW t \in Threads, NEW x \in thread[t].todo, Post(t, x)
  PROVE  PartsSound'
<1> DEFINE new == [item |-> x.item, parts |-> x.parts, processed |-> FALSE, error |-> FALSE]
<1>1. /\ thread'[t] = [thread[t] EXCEPT !.at = "posted", !.todo = @ \ {x}]
      /\ thread[t].at = "working" /\ request'[t] = new
      /\ UNCHANGED <<cache, unasked>>
      /\ \A u \in Threads : u # t => thread'[u] = thread[u] /\ request'[u] = request[u]
  BY DEF RetrievalInv, TypeOK, Post
<1>2. new.item = x.item /\ new.parts = x.parts /\ ~new.processed
  OBVIOUS
<1> HIDE DEF new
<1>3. /\ thread'[t].at = "posted" /\ thread'[t].todo = thread[t].todo \ {x}
      /\ thread'[t].wanted = thread[t].wanted
  BY <1>1 DEF RetrievalInv, TypeOK, Thread
<1>4. ~Posted(t) /\ Posted(t)'
  BY <1>1, <1>3 DEF Posted
<1>5. ASSUME NEW i, NEW p, Accounted(t, i, p)
      PROVE  Accounted(t, i, p)'
  <2>1. CASE Got(t, i, p)
    BY <1>1, <2>1 DEF Accounted, Got
  <2>2. CASE x.item = i /\ p \in x.parts
    BY <1>1, <1>2, <1>4, <2>2 DEF Accounted
  <2>3. CASE \E y \in thread[t].todo : y # x /\ y.item = i /\ p \in y.parts
    BY <1>3, <2>3 DEF Accounted
  <2> QED  BY <1>4, <1>5, <2>1, <2>2, <2>3 DEF Accounted
<1>6. PartsOf(t)'
  BY <1>1, <1>2, <1>3, <1>5 DEF PartsSound, PartsOf
<1> QED  BY <1>1, <1>6, OneThreadKeepsParts

LEMMA EmitKeepsParts ==
  ASSUME RetrievalInv, PartsSound, NEW t \in Threads, EmitRequestAdded(t)
  PROVE  PartsSound'
<1>1. /\ thread'[t] = [thread[t] EXCEPT !.at = "checking"]
      /\ thread[t].at = "posted"
      /\ UNCHANGED <<request, cache, unasked>>
      /\ \A u \in Threads : u # t => thread'[u] = thread[u]
  BY DEF RetrievalInv, TypeOK, EmitRequestAdded
<1>2. /\ thread'[t].at = "checking" /\ thread'[t].todo = thread[t].todo
      /\ thread'[t].wanted = thread[t].wanted
  BY <1>1 DEF RetrievalInv, TypeOK, Thread
<1>3. Posted(t) /\ Posted(t)'
  BY <1>1, <1>2 DEF Posted
<1>4. \A i, p : (Accounted(t, i, p)' <=> Accounted(t, i, p)) /\ (Got(t, i, p)' <=> Got(t, i, p))
  BY <1>1, <1>2, <1>3 DEF Accounted, Got
<1>5. PartsOf(t)'
  BY <1>1, <1>2, <1>3, <1>4 DEF PartsSound, PartsOf
<1> QED  BY <1>1, <1>5, OneThreadKeepsParts

LEMMA CheckKeepsParts ==
  ASSUME RetrievalInv, PartsSound, NEW t \in Threads, Check(t)
  PROVE  PartsSound'
<1>1. /\ thread'[t] = IF request[t].processed THEN AfterAnswer(t)
                      ELSE [thread[t] EXCEPT !.at = "waiting"]
      /\ thread[t].at = "checking"
      /\ UNCHANGED <<request, cache, unasked>>
      /\ \A u \in Threads : u # t => thread'[u] = thread[u]
  BY DEF RetrievalInv, TypeOK, Check
<1>2. Posted(t)
  BY <1>1 DEF Posted
<1>3. \A i, p : Got(t, i, p)' <=> Got(t, i, p)
  BY <1>1 DEF Got
<1>4. CASE ~request[t].processed
  <2>1. /\ thread'[t].at = "waiting" /\ thread'[t].todo = thread[t].todo
        /\ thread'[t].wanted = thread[t].wanted
    BY <1>1, <1>4 DEF RetrievalInv, TypeOK, Thread
  <2>2. Posted(t)'
    BY <2>1 DEF Posted
  <2>3. \A i, p : Accounted(t, i, p)' <=> Accounted(t, i, p)
    BY <1>1, <1>2, <1>3, <2>1, <2>2 DEF Accounted
  <2>4. PartsOf(t)'
    BY <1>1, <1>4, <2>1, <2>3 DEF PartsSound, PartsOf
  <2> QED  BY <1>1, <2>4, OneThreadKeepsParts
<1>5. CASE request[t].processed /\ request[t].error
  <2>1. thread'[t].at = "failed"
    BY <1>1, <1>5 DEF RetrievalInv, TypeOK, Thread, AfterAnswer
  <2>2. PartsOf(t)'
    BY <2>1 DEF PartsOf, Posted
  <2> QED  BY <1>1, <2>2, OneThreadKeepsParts
<1>6. CASE request[t].processed /\ ~request[t].error
  <2>1. /\ thread'[t].at = "working" /\ thread'[t].todo = thread[t].todo
        /\ thread'[t].wanted = thread[t].wanted
    BY <1>1, <1>6 DEF RetrievalInv, TypeOK, Thread, AfterAnswer
  <2>2. ~Posted(t)'
    BY <2>1 DEF Posted
  <2>3. \A p \in request[t].parts : Got(t, request[t].item, p)
    BY <1>2, <1>6 DEF PartsSound, PartsOf
  <2>4. \A i, p : Accounted(t, i, p) => Accounted(t, i, p)'
    BY <1>3, <1>6, <2>1, <2>3 DEF Accounted
  <2>5. PartsOf(t)'
    BY <1>1, <2>1, <2>2, <2>4 DEF PartsSound, PartsOf
  <2> QED  BY <1>1, <2>5, OneThreadKeepsParts
<1> QED  BY <1>4, <1>5, <1>6

\* Threads that sleep may be woken, and nothing else changes for them.
LEMMA WakingKeepsParts ==
  ASSUME RetrievalInv, PartsSound, thread' = WakeAll \/ thread' = thread,
         UNCHANGED <<request, cache, unasked>>
  PROVE  PartsSound'
<1> SUFFICES ASSUME NEW t \in Threads PROVE PartsOf(t)'
  BY DEF PartsSound
<1>1. /\ thread'[t].todo = thread[t].todo /\ thread'[t].wanted = thread[t].wanted
      /\ thread'[t].at = thread[t].at \/ (thread[t].at = "waiting" /\ thread'[t].at = "checking")
  BY DEF WakeAll, RetrievalInv, TypeOK, Thread
<1>2. Posted(t)' <=> Posted(t)
  BY <1>1 DEF Posted
<1>3. \A i, p : (Accounted(t, i, p)' <=> Accounted(t, i, p)) /\ (Got(t, i, p)' <=> Got(t, i, p))
  BY <1>1, <1>2 DEF Accounted, Got
<1> QED  BY <1>1, <1>2, <1>3 DEF PartsSound, PartsOf

\* A job ends, with an error or with all parts of its request in the cache.
LEMMA FinishedKeepsParts ==
  ASSUME RetrievalInv, PartsSound, [Next]_vars, NEW r \in Resources, job[r] \in Job,
         NEW error \in BOOLEAN, retrievalJobFinished(r, error),
         error \/ request[job[r].of].parts \subseteq cache'[request[job[r].of].item]
  PROVE  PartsSound'
<1> SUFFICES ASSUME NEW t \in Threads PROVE PartsOf(t)'
  BY DEF PartsSound
<1>1. /\ thread'[t].todo = thread[t].todo /\ thread'[t].wanted = thread[t].wanted
      /\ thread'[t].at = thread[t].at \/ (thread[t].at = "waiting" /\ thread'[t].at = "checking")
  BY DEF retrievalJobFinished, WakeAll, RetrievalInv, TypeOK, Thread
<1>2. Posted(t)' <=> Posted(t)
  BY <1>1 DEF Posted
<1>3. /\ request[t] \in Request /\ request[t].item \in Items
      /\ \A w \in thread[t].wanted : w.item \in Items
  BY DEF RetrievalInv, TypeOK, Request, Thread, Wish
<1>4. \A i \in Items : \A p : Got(t, i, p) => Got(t, i, p)'
  <2>1. ASSUME NEW i \in Items, NEW p, Got(t, i, p), thread[t].at \in {"succeeded", "failed"}
        PROVE  Got(t, i, p)'
    <3>1. p \in unasked[t][i] => p \in unasked'[t][i]
      BY DEF retrievalJobFinished, Answer, RetrievalInv, TypeOK
    <3>2. cache[i] \subseteq cache'[i]
      BY CacheKeeps
    <3> QED  BY <2>1, <3>1, <3>2 DEF Got
  <2> QED  BY <2>1, PartsStay
<1>5. CASE t = job[r].of \/ t \in SameItem(r)
  <2>1. request'[t] = [request[t] EXCEPT !.processed = TRUE, !.error = error]
    BY <1>5 DEF retrievalJobFinished, Answer
  <2>2. /\ request'[t].item = request[t].item /\ request'[t].parts = request[t].parts
        /\ request'[t].error = error
    BY <1>3, <2>1 DEF Request
  <2>3. request'[t].processed
    BY <1>3, <2>1 DEF Request
  <2>4. request[t].item = request[job[r].of].item
    BY <1>5 DEF SameItem
  <2>5. ASSUME ~error, NEW p \in request[t].parts
        PROVE  Got(t, request[t].item, p)'
    <3>1. CASE p \in request[job[r].of].parts
      BY <2>2, <2>4, <2>5, <3>1 DEF Got
    <3>2. CASE p \notin request[job[r].of].parts
      <4>1. t \in SameItem(r)
        BY <1>5, <3>2
      <4>2. unasked'[t] = [unasked[t] EXCEPT ![request[t].item] =
                             @ \cup (request[t].parts \ request[job[r].of].parts)]
        BY <2>5, <4>1 DEF retrievalJobFinished, Answer
      <4>3. p \in unasked'[t][request[t].item]
        BY <1>3, <3>2, <4>2 DEF RetrievalInv, TypeOK
      <4> QED  BY <2>2, <4>3 DEF Got
    <3> QED  BY <3>1, <3>2
  <2>6. ASSUME NEW w \in thread[t].wanted, NEW p, Accounted(t, w.item, p)
        PROVE  Accounted(t, w.item, p)'
    <3>1. CASE Got(t, w.item, p) \/ \E x \in thread[t].todo : x.item = w.item /\ p \in x.parts
      BY <1>1, <1>3, <1>4, <3>1 DEF Accounted
    <3>2. CASE Posted(t) /\ request[t].item = w.item /\ p \in request[t].parts
      BY <1>2, <2>2, <2>5, <3>2 DEF Accounted
    <3> QED  BY <2>6, <3>1, <3>2 DEF Accounted
  <2>7. thread'[t].at # "failed" => thread[t].at # "failed"
    BY <1>1
  <2> QED  BY <1>1, <1>2, <2>2, <2>5, <2>6, <2>7 DEF PartsSound, PartsOf
<1>6. CASE ~(t = job[r].of \/ t \in SameItem(r))
  <2>1. request'[t] = request[t]
    BY <1>6 DEF retrievalJobFinished, Answer
  <2>2. ASSUME NEW w \in thread[t].wanted, NEW p, Accounted(t, w.item, p)
        PROVE  Accounted(t, w.item, p)'
    BY <1>1, <1>2, <1>3, <1>4, <2>1, <2>2 DEF Accounted
  <2>3. thread'[t].at # "failed" => thread[t].at # "failed"
    BY <1>1
  <2> QED  BY <1>1, <1>2, <1>3, <1>4, <2>1, <2>2, <2>3 DEF PartsSound, PartsOf
<1> QED  BY <1>5, <1>6

LEMMA ResourceKeepsParts ==
  ASSUME RetrievalInv, PartsSound, [Next]_vars, NEW r \in Resources,
         StartJob(r) \/ CannotContact(r) \/ CallEnds(r) \/ UnknownMethod(r)
  PROVE  PartsSound'
<1>1. /\ r \in starting => job[r] \in Job
      /\ Calling(r) => job[r] \in Job
  BY JobOrNone DEF RetrievalInv, TypeOK, StartsJobs, Calling
<1>2. CASE StartJob(r) \/ UnknownMethod(r)
  BY <1>2, WakingKeepsParts DEF StartJob, UnknownMethod
<1>3. CASE CannotContact(r) \/ CallFailed(r)
  BY <1>1, <1>3, FinishedKeepsParts DEF CannotContact, CallFailed
<1>4. CASE Delivered(r)
  <2>1. job[r] \in Job
    BY <1>1, <1>4 DEF Delivered
  <2>2. PICK q \in Request : q = request[job[r].of]
    BY <2>1, JobOrNone DEF RetrievalInv, TypeOK
  <2>3. cache' = [cache EXCEPT ![q.item] = @ \cup q.parts] /\ retrievalJobFinished(r, FALSE)
    BY <1>4, <2>2 DEF Delivered
  <2>4. q.parts \subseteq cache'[q.item]
    BY <2>3 DEF RetrievalInv, TypeOK, Request
  <2> QED  BY <2>1, <2>2, <2>3, <2>4, FinishedKeepsParts
<1> QED  BY <1>2, <1>3, <1>4 DEF CallEnds

LEMMA StepKeepsParts == RetrievalInv /\ PartsSound /\ [Next]_vars => PartsSound'
<1> SUFFICES ASSUME RetrievalInv, PartsSound, [Next]_vars PROVE PartsSound'
  OBVIOUS
<1>1. CASE \E t \in Threads, wishes \in WishLists : Exec(t, wishes)
  BY <1>1, ExecKeepsParts
<1>2. CASE \E t \in Threads : ThreadStep(t)
  BY <1>2, ExecReturnsKeepsParts, PostKeepsParts, EmitKeepsParts, CheckKeepsParts DEF ThreadStep
<1>3. CASE processRequest
  BY <1>3, WakingKeepsParts DEF processRequest
<1>4. CASE \E r \in Resources : StartJob(r) \/ CannotContact(r)
  BY <1>4, ResourceKeepsParts
<1>5. CASE \E r \in Resources : CallEnds(r) \/ UnknownMethod(r)
  BY <1>5, ResourceKeepsParts
<1>6. CASE UNCHANGED vars
  BY <1>6, WakingKeepsParts DEF vars
<1> QED  BY <1>1, <1>2, <1>3, <1>4, <1>5, <1>6 DEF Next, RetrievalStep

\* When exec() reports success, every part that it was asked for is in the cache, of
\* every item, but for those of which another thread's job brought the answer that had
\* not asked for them: for any parts, threads, items and resources.
THEOREM SuccessIsHonest == Spec => []SuccessMeansAsked
<1>1. Init => PartsSound
  <2> SUFFICES ASSUME Init, NEW t \in Threads PROVE PartsOf(t)
    BY DEF PartsSound
  <2> QED  BY DEF Init, PartsOf, Posted
<1>2. RetrievalInv /\ CacheSound /\ PartsSound => SuccessMeansAsked
  <2> SUFFICES ASSUME CacheSound, PartsSound, NEW t \in Threads, thread[t].at = "succeeded",
                      NEW w \in thread[t].wanted, NEW p \in w.parts
               PROVE  Got(t, w.item, p)
    BY DEF SuccessMeansAsked, Got
  <2>1. thread[t].todo = {} /\ ~Posted(t)
    BY DEF CacheSound, Posted
  <2>2. Accounted(t, w.item, p)
    BY DEF PartsSound, PartsOf
  <2> QED  BY <2>1, <2>2 DEF Accounted
<1>3. RetrievalInv /\ PartsSound /\ [Next]_vars => PartsSound'
  BY StepKeepsParts
<1> QED  BY <1>1, <1>2, <1>3, CacheInvariant, PTL DEF Spec
=============================================================================
