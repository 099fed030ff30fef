------------------------ MODULE CollectionScheduler ------------------------
(***************************************************************************)
(* CollectionScheduler, as the CacheCleaner uses it: which collections are *)
(* checked when, and how commands that need the cache hold the cleaner     *)
(* off.                                                                    *)
(*                                                                         *)
(* The slots of the scheduler (initScheduler, schedulerTimeout and         *)
(* scheduleCollection when it is invoked) run in the main thread, one at a *)
(* time.  The threads of connections tell it of collections (through the   *)
(* NotificationCollector, inside their transactions) and inhibit it        *)
(* (CacheCleanerInhibitor) meanwhile, also in the middle of a pass.        *)
(*                                                                         *)
(* The timer belongs to the main thread.  Another thread can stop it, for  *)
(* it forgets its id, but not start it: Qt refuses, and the timer reads as *)
(* active and never fires ("dead").                                        *)
(*                                                                         *)
(* Time is counted from now, so keys of mSchedule go down as it passes.    *)
(***************************************************************************)
EXTENDS Integers, Sequences, FiniteSets, FiniteSetsExt, Functions

CONSTANTS
  Collections,  \* the collections
  Inheriting,   \* those that inherit the cache policy of their parent
  Timeouts,     \* cache timeouts
  Off,          \* the policy of a collection that is not to be cleaned
  MinInterval,  \* mMinInterval
  Batch,        \* checks less than this apart are put together (a minute)
  Handlers,     \* commands that use a CacheCleanerInhibitor
  MaxLate,      \* bound: how late a check may be
  MaxChanges    \* bound: changes of collections, and times an inhibitor is used

ASSUME CollectionSchedulerAssumption ==
  /\ Inheriting \subseteq Collections
  /\ Timeouts \subseteq Nat /\ Off \notin Timeouts
  /\ MinInterval \in Nat \ {0} /\ Batch \in Nat \ {0}
  /\ MaxLate \in Nat /\ MaxChanges \in Nat

VARIABLES
  exists,      \* the collections in the database that are subscribed to
  policy,      \* the cache timeout in force for each collection
  mSchedule,   \* collections, as they were when scheduled, with their keys
  timer,       \* mScheduler
  main,        \* what the main thread is at
  calls,       \* invocations of scheduleCollection() queued for the main thread
  inhibitors,  \* handlers whose inhibitor is in force; sInhibitCount is their number
  unheard,     \* the first of them came in a pass, or while no timer was active
  changes,     \* changes and uses of inhibitors so far
  mishaps      \* what went wrong so far

vars == <<exists, policy, mSchedule, timer, main, calls, inhibitors, unheard, changes, mishaps>>

Policies == Timeouts \cup {Off}

\* A Collection object: a copy of the row when it was read.
Collection == [id : Collections, timeout : Policies]

Mishap ==
  {"swept",       \* a collection was removed with another of the same key
   "raced",       \* a collection was removed while the main thread had a copy
   "deaf",        \* a change to a policy that asks for no cleaning was not heard
   "rolledBack",  \* a change was rolled back
   "parent",      \* the policy of a parent changed, which tells no child
   "foreign",     \* another thread started the timer
   "empty"}       \* the timer fired with nothing scheduled

shouldScheduleCollection(p) == p \in Timeouts

MaxOf2(a, b) == IF a < b THEN b ELSE a

\* When a collection scheduled now is to be checked.
Interval(p) == MaxOf2(MinInterval, p)

Keys(S) == {e.key : e \in S}

Running(due) == [is |-> "running", due |-> due, outdated |-> FALSE]
Stopped == [is |-> "stopped", due |-> 0, outdated |-> FALSE]
Dead == [is |-> "dead", due |-> 0, outdated |-> FALSE]
Paused == [is |-> "paused", due |-> 0, outdated |-> FALSE]

Active == timer.is \in {"running", "dead"}

Init ==
  /\ exists \in SUBSET Collections
  /\ policy \in [Collections -> Policies]
  /\ mSchedule = {}
  /\ timer = Stopped
  /\ main = [at |-> "starting", left |-> {}]
  /\ calls = <<>>
  /\ inhibitors = {}
  /\ unheard = FALSE
  /\ changes = 0
  /\ mishaps = {}

-----------------------------------------------------------------------------
(* The schedule and the timer *)

\* Mutant: a paused timer is started, too.
StartedThoughPaused(S, thread) ==
  IF S = {} THEN Stopped
  ELSE IF thread = "main" THEN Running(MaxOf2(0, Min(Keys(S)))) ELSE Dead

\* Mutant: the timer waits for the last check.
StartedForLast(S, thread) ==
  IF timer.is = "paused" THEN timer
  ELSE IF S = {} THEN Stopped
  ELSE IF thread = "main" THEN Running(MaxOf2(0, Max(Keys(S)))) ELSE Dead

\* startScheduler(), with S in the schedule: the timer afterwards.
Started(S, thread) ==
  IF timer.is = "paused" THEN timer
  ELSE IF S = {} THEN Stopped
  ELSE IF thread = "main" THEN Running(MaxOf2(0, Min(Keys(S)))) ELSE Dead

\* The key for a check that is due: that of another a little later, or else a
\* little earlier, if there is one.
Batched(due, K) ==
  LET after == {k \in K : k >= due /\ k - due < Batch}
      before == {k \in K : k < due /\ due - k < Batch}
  IN IF after # {} THEN Min(after) ELSE IF before # {} THEN Max(before) ELSE due

\* The policy a copy of a collection has once activeCachePolicy() looked it up.
Timeout(collection) ==
  IF collection.id \in Inheriting THEN policy[collection.id] ELSE collection.timeout

\* Mutant: the old entry stays.
RescheduledBeside(S, c, p) ==
  IF shouldScheduleCollection(p)
  THEN S \cup {[id |-> c, timeout |-> p, key |-> Batched(Interval(p), Keys(S))]}
  ELSE S

\* scheduleCollection(), but for the timer: the old entry goes, and a new entry
\* comes if the policy asks for that.
Rescheduled(S, c, p) ==
  LET others == {e \in S : e.id # c} IN
  IF shouldScheduleCollection(p)
  THEN others \cup {[id |-> c, timeout |-> p, key |-> Batched(Interval(p), Keys(others))]}
  ELSE others

\* scheduleCollection() with shouldStartScheduler.  A timer that is active is
\* left alone, also when another check is the first now.
ScheduleCollection(c, p, thread) ==
  LET S == Rescheduled(mSchedule, c, p) IN
  /\ mSchedule' = S
  /\ timer' = IF Active THEN [timer EXCEPT !.outdated = (timer.is = "running")]
              ELSE IF shouldScheduleCollection(p) THEN Started(S, thread)
              ELSE timer

Copies(C) == {[id |-> c, timeout |-> policy[c]] : c \in C}

InitScheduler ==
  /\ main.at = "starting"
  /\ main' = [at |-> "init", left |-> Copies(exists)]
  /\ UNCHANGED <<exists, policy, mSchedule, timer, calls, inhibitors, unheard, changes, mishaps>>

InitOne ==
  /\ main.at = "init"
  /\ \E collection \in main.left :
       /\ ScheduleCollection(collection.id, Timeout(collection), "main")
       /\ main' = [main EXCEPT !.left = @ \ {collection}]
  /\ UNCHANGED <<exists, policy, calls, inhibitors, unheard, changes, mishaps>>

\* schedulerTimeout() takes the first key and what is under it.  With nothing
\* scheduled it reads a key that is not there, and finds nothing under it.
SchedulerTimeout ==
  /\ main.at = "idle"
  /\ timer.is = "running" /\ timer.due = 0
  /\ timer' = Stopped
  /\ LET now == IF mSchedule = {} THEN {}
                ELSE {e \in mSchedule : e.key = Min(Keys(mSchedule))} IN
       /\ mSchedule' = mSchedule \ now
       /\ main' = [at |-> "pass",
                   left |-> {[id |-> e.id, timeout |-> e.timeout] : e \in now}]
       /\ mishaps' = mishaps \cup (IF now = {} THEN {"empty"} ELSE {})
  /\ UNCHANGED <<exists, policy, calls, inhibitors, unheard, changes>>

\* Mutant: a collection is cleaned and not scheduled again.
PassOneForgets ==
  /\ main.at = "pass"
  /\ \E collection \in main.left :
       main' = [main EXCEPT !.left = @ \ {collection}]
  /\ UNCHANGED <<exists, policy, mSchedule, timer, calls, inhibitors, unheard, changes, mishaps>>

\* One collection of a pass: collectionExpired() empties its parts that were not
\* used for the timeout, then it is scheduled anew.
PassOne ==
  /\ main.at = "pass"
  /\ \E collection \in main.left :
       /\ mSchedule' = Rescheduled(mSchedule, collection.id, Timeout(collection))
       /\ main' = [main EXCEPT !.left = @ \ {collection}]
  /\ UNCHANGED <<exists, policy, timer, calls, inhibitors, unheard, changes, mishaps>>

\* Mutant: the timer is not started for the next pass.
PassDoneWithoutTimer ==
  /\ main.at \in {"init", "pass"} /\ main.left = {}
  /\ main' = [main EXCEPT !.at = "idle"]
  /\ UNCHANGED <<exists, policy, mSchedule, timer, calls, inhibitors, unheard, changes, mishaps>>

\* initScheduler() and schedulerTimeout() end with startScheduler().
PassDone ==
  /\ main.at \in {"init", "pass"} /\ main.left = {}
  /\ main' = [main EXCEPT !.at = "idle"]
  /\ timer' = Started(mSchedule, "main")
  /\ UNCHANGED <<exists, policy, mSchedule, calls, inhibitors, unheard, changes, mishaps>>

Invoked ==
  /\ main.at \in {"starting", "idle"} /\ calls # <<>>
  /\ ScheduleCollection(Head(calls).id, Timeout(Head(calls)), "main")
  /\ calls' = Tail(calls)
  /\ UNCHANGED <<exists, policy, main, inhibitors, unheard, changes, mishaps>>

Tick ==
  /\ \A e \in mSchedule : e.key > -MaxLate
  /\ mSchedule' = {[e EXCEPT !.key = @ - 1] : e \in mSchedule}
  /\ timer' = [timer EXCEPT !.due = IF @ = 0 THEN 0 ELSE @ - 1]
  /\ mSchedule # {} \/ timer.due > 0
  /\ UNCHANGED <<exists, policy, main, calls, inhibitors, unheard, changes, mishaps>>

-----------------------------------------------------------------------------
(* Connections: changes of collections *)

Change == changes < MaxChanges /\ changes' = changes + 1

\* collectionAdded(), for a collection that has policy p in the transaction of
\* the caller.
CollectionAdded(c, p) ==
  calls' = IF shouldScheduleCollection(p)
           THEN Append(calls, [id |-> c, timeout |-> p]) ELSE calls

HasCopy(c) == \E x \in main.left \cup Range(calls) : x.id = c

\* Everything in S that has the key of c.
RemovedWith(S, c) == {e \in S : \E x \in S : x.id = c /\ x.key = e.key}

\* collectionRemoved() takes the key of the collection out of the schedule, and
\* starts the timer for the next if that was the first.
CollectionRemoved(c) ==
  LET removed == RemovedWith(mSchedule, c)
      first == \E e \in removed : e.key = Min(Keys(mSchedule))
  IN /\ mSchedule' = mSchedule \ removed
     /\ timer' = IF first THEN Started(mSchedule', "connection") ELSE timer

\* What the removal does to others.
Removal(c) ==
  (IF Cardinality(RemovedWith(mSchedule, c)) > 1 THEN {"swept"} ELSE {})
  \cup (IF HasCopy(c) THEN {"raced"} ELSE {})

Foreign == IF timer'.is = "dead" THEN {"foreign"} ELSE {}

\* The transaction ends: the database has E and P, or what it had; the scheduler
\* was told in either case.
Outcome(E, P, M) ==
  \/ exists' = E /\ policy' = P /\ mishaps' = mishaps \cup M
  \/ UNCHANGED <<exists, policy>> /\ mishaps' = mishaps \cup M \cup {"rolledBack"}

\* A collection is created or subscribed to.
Add(c, p) ==
  /\ Change
  /\ c \notin exists
  /\ c \in Inheriting => p = policy[c]
  /\ CollectionAdded(c, p)
  /\ Outcome(exists \cup {c}, [policy EXCEPT ![c] = p], {})
  /\ UNCHANGED <<mSchedule, timer, main, inhibitors, unheard>>

\* A collection is modified; its cache policy, too, if it has its own.  The
\* collector tells the scheduler that it was added.
Modify(c, p) ==
  /\ Change
  /\ c \in exists
  /\ c \in Inheriting => p = policy[c]
  /\ CollectionAdded(c, p)
  /\ Outcome(exists, [policy EXCEPT ![c] = p],
             IF p = Off /\ policy[c] # Off THEN {"deaf"} ELSE {})
  /\ UNCHANGED <<mSchedule, timer, main, inhibitors, unheard>>

\* The policy of the parent of some collections changes; they are not told.
ModifyParent(p) ==
  /\ Change
  /\ \E c \in Inheriting : policy[c] # p
  /\ policy' = [c \in Collections |-> IF c \in Inheriting THEN p ELSE policy[c]]
  /\ mishaps' = mishaps \cup {"parent"}
  /\ UNCHANGED <<exists, mSchedule, timer, main, calls, inhibitors, unheard>>

\* A collection is moved below a parent with another policy: collectionChanged()
\* schedules it, or removes it, in the thread of the connection.
Move(c, p) ==
  /\ Change
  /\ c \in Inheriting \cap exists /\ policy[c] # p
  /\ \/ /\ ~\E e \in mSchedule : e.id = c
        /\ CollectionAdded(c, p)
        /\ UNCHANGED <<mSchedule, timer>>
     \/ /\ \E e \in mSchedule : e.id = c /\ e.timeout = p
        /\ UNCHANGED <<mSchedule, timer, calls>>
     \/ /\ \E e \in mSchedule : e.id = c /\ e.timeout # p
        /\ IF shouldScheduleCollection(p) THEN ScheduleCollection(c, p, "connection")
           ELSE CollectionRemoved(c)
        /\ UNCHANGED calls
  /\ Outcome(exists, [policy EXCEPT ![c] = p],
             Foreign \cup (IF p = Off THEN Removal(c) ELSE {}))
  /\ UNCHANGED <<main, inhibitors, unheard>>

\* A collection is deleted or unsubscribed from.
Remove(c) ==
  /\ Change
  /\ c \in exists
  /\ CollectionRemoved(c)
  /\ Outcome(exists \ {c}, policy, Foreign \cup Removal(c))
  /\ UNCHANGED <<main, calls, inhibitors, unheard>>

-----------------------------------------------------------------------------
(* Connections: CacheCleanerInhibitor *)

Inhibit(h) ==
  /\ Change
  /\ h \notin inhibitors
  /\ inhibitors' = inhibitors \cup {h}
  /\ IF inhibitors = {} /\ Active THEN timer' = Paused ELSE UNCHANGED timer
  /\ unheard' = IF inhibitors = {} THEN ~Active \/ main.at = "pass" ELSE unheard
  /\ UNCHANGED <<exists, policy, mSchedule, main, calls, mishaps>>

Uninhibit(h) ==
  /\ h \in inhibitors
  /\ inhibitors' = inhibitors \ {h}
  /\ IF inhibitors = {h} /\ timer.is = "paused"
     THEN timer' = Dead /\ mishaps' = mishaps \cup {"foreign"}
     ELSE UNCHANGED <<timer, mishaps>>
  /\ unheard' = (unheard /\ inhibitors # {h})
  /\ UNCHANGED <<exists, policy, mSchedule, main, calls, changes>>

-----------------------------------------------------------------------------
MainThread == \/ InitScheduler \/ InitOne \/ SchedulerTimeout \/ PassOne \/ PassDone
              \/ Invoked

Connections ==
  \/ \E c \in Collections, p \in Policies :
       Add(c, p) \/ Modify(c, p) \/ Move(c, p)
  \/ \E p \in Policies : ModifyParent(p)
  \/ \E c \in Collections : Remove(c)
  \/ \E h \in Handlers : Inhibit(h) \/ Uninhibit(h)

Next == MainThread \/ Tick \/ Connections

Spec == Init /\ [][Next]_vars

\* The main thread runs, time passes and commands end.
FairSpec ==
  /\ Spec
  /\ WF_vars(MainThread) /\ WF_vars(Tick)
  /\ \A h \in Handlers : WF_vars(Uninhibit(h))

-----------------------------------------------------------------------------
(* Properties *)

\* Every variable keeps its type, and the main thread has no copies at rest.
TypeOK ==
  /\ exists \subseteq Collections /\ policy \in [Collections -> Policies]
  /\ mSchedule \subseteq [id : Collections, timeout : Timeouts, key : Int]
  /\ IsFiniteSet(mSchedule) /\ \A e \in mSchedule : e.key >= -MaxLate
  /\ timer \in [is : {"running", "stopped", "paused", "dead"}, due : Nat, outdated : BOOLEAN]
  /\ main \in [at : {"starting", "init", "idle", "pass"}, left : SUBSET Collection]
  /\ main.at \in {"starting", "idle"} => main.left = {}
  /\ calls \in Seq([id : Collections, timeout : Timeouts])
  /\ inhibitors \subseteq Handlers /\ unheard \in BOOLEAN
  /\ changes \in 0..MaxChanges /\ mishaps \subseteq Mishap

\* What is scheduled is in the database, is scheduled once, and with the policy
\* that is in force there unless the main thread is about to be told (or the
\* policy of a parent changed, which is looked up when the collection is next
\* scheduled).  Not so after a collection was removed while the main thread had a
\* copy of it, which it schedules again for good; after a policy changed to one
\* that asks for no cleaning; and after a change was rolled back.
ScheduleIsCurrent ==
  mishaps \cap {"raced", "deaf", "rolledBack"} = {} =>
    \A e \in mSchedule :
      /\ e.id \in exists
      /\ \A f \in mSchedule : f.id = e.id => f = e
      /\ \/ e.timeout = policy[e.id]
         \/ \E x \in Range(calls) : x.id = e.id /\ x.timeout = policy[e.id]
         \/ e.id \in Inheriting /\ "parent" \in mishaps

\* A collection that is to be cleaned is scheduled, or the main thread has a copy
\* that it will schedule.  Not so when another collection that shared its key was
\* removed, when a change was rolled back, and when only the policy of its parent
\* asks for cleaning since.
NoCollectionForgotten ==
  mishaps \cap {"swept", "rolledBack", "parent"} = {} =>
    \A c \in exists : shouldScheduleCollection(policy[c]) =>
      main.at = "starting" \/ HasCopy(c) \/ \E e \in mSchedule : e.id = c

\* The timer that runs waits for the first check of the schedule, unless one was
\* scheduled or moved while it ran, which does not start it anew: then a pass may
\* come too late for one collection and too early for another.
OnTime ==
  timer.is = "running" /\ ~timer.outdated =>
    mSchedule # {} /\ timer.due = MaxOf2(0, Min(Keys(mSchedule)))

\* Commands hold the cleaner off, and no longer than they last: no pass runs while
\* inhibitors are in force, but for those that came in the middle of it or while
\* no timer was active, and the timer is paused only while there are some.
HeedsInhibitors ==
  /\ main.at = "pass" /\ inhibitors # {} => unheard
  /\ timer.is = "paused" => inhibitors # {}

\* What is scheduled is cleaned in time, or is no longer to be cleaned, unless it
\* was lost with the key of another or in a change that was rolled back, or a
\* connection started the timer.
EventuallyCleaned ==
  \A c \in Collections :
    (\E e \in mSchedule : e.id = c) ~>
      \/ main.at = "pass" /\ \E x \in main.left : x.id = c
      \/ c \notin exists \/ policy[c] = Off
      \/ mishaps \cap {"swept", "foreign", "rolledBack"} # {}
=============================================================================
