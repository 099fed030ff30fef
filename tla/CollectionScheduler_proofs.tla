--------------------- MODULE CollectionScheduler_proofs ---------------------
(***************************************************************************)
(* The safety of CollectionScheduler for any collections, policies,        *)
(* timeouts and commands: what is scheduled is current, nothing that is to *)
(* be cleaned is forgotten, the timer waits for the first check, and       *)
(* inhibitors are heeded.                                                  *)
(*                                                                         *)
(* None of the four is inductive.  What the main thread will schedule next *)
(* are the copies it holds and the calls that wait, so CopiesCurrent,      *)
(* CallsCurrent and CallFollows say of these what the invariants say of    *)
(* the schedule; OnTime needs that no timer runs in a pass, and            *)
(* HeedsInhibitors that an inhibitor that was heard keeps it paused.       *)
(***************************************************************************)
EXTENDS CollectionScheduler, FiniteSetTheorems, SequenceTheorems, TLAPS

\* No collection is scheduled twice.
Unique(S) == \A e, f \in S : e.id = f.id => e = f

Entry == [id : Collections, timeout : Timeouts, key : Int]
Timer == [is : {"running", "stopped", "paused", "dead"}, due : Nat, outdated : BOOLEAN]

Proper(S) ==
  /\ S \subseteq Entry /\ IsFiniteSet(S)
  /\ \A e \in S : e.key >= -MaxLate
  /\ Unique(S)

\* The main thread is about to be told of the policy that collection c has.
Told(c) == \E i \in DOMAIN calls : calls[i].id = c /\ calls[i].timeout = policy[c]

\* What the database says is what the scheduler is told.
Undisturbed == mishaps \cap {"raced", "deaf", "rolledBack"} = {}

IdsExist ==
  /\ \A e \in mSchedule : e.id \in exists
  /\ \A x \in main.left : x.id \in exists
  /\ \A i \in DOMAIN calls : calls[i].id \in exists

EntriesCurrent ==
  \A e \in mSchedule :
    \/ e.timeout = policy[e.id]
    \/ Told(e.id)
    \/ e.id \in Inheriting /\ "parent" \in mishaps

CopiesCurrent ==
  \A x \in main.left :
    x.id \in Inheriting \/ x.timeout = policy[x.id] \/ Told(x.id)

CallsCurrent ==
  \A i \in DOMAIN calls :
    \/ calls[i].id \in Inheriting
    \/ calls[i].timeout = policy[calls[i].id]
    \/ \E j \in DOMAIN calls :
         j > i /\ calls[j].id = calls[i].id /\ calls[j].timeout = policy[calls[j].id]

Current == Undisturbed => IdsExist /\ EntriesCurrent /\ CopiesCurrent /\ CallsCurrent

Called(c) == \E i \in DOMAIN calls : calls[i].id = c

Remembered(c) ==
  \/ main.at = "starting"
  \/ \E x \in main.left : x.id = c
  \/ Called(c)
  \/ \E e \in mSchedule : e.id = c

\* A copy that asks for no cleaning any more is followed by a call.
CallFollows ==
  \A x \in main.left :
    x.timeout = Off /\ x.id \notin Inheriting /\ policy[x.id] # Off => Called(x.id)

NothingForgotten ==
  mishaps \cap {"swept", "rolledBack", "parent"} = {} =>
    \A c \in exists : policy[c] # Off => Remembered(c)

TimerRight ==
  /\ OnTime
  /\ main.at = "pass" => timer.is # "running"

HeldOff ==
  /\ HeedsInhibitors
  /\ inhibitors # {} /\ ~unheard => timer.is = "paused"

SchedulerInv ==
  /\ TypeOK /\ Unique(mSchedule)
  /\ Current
  /\ CallFollows /\ NothingForgotten
  /\ TimerRight /\ HeldOff

-----------------------------------------------------------------------------
(* Keys *)

\* A set of integers that is bounded below has a minimum.
LEMMA MinIs ==
  ASSUME NEW K \in SUBSET Int, K # {}, NEW b \in Int, \A k \in K : k >= b
  PROVE  Min(K) \in K /\ \A k \in K : Min(K) <= k
<1> DEFINE T == {n \in Nat : n + b \in K}
           R == OpToRel(<, Nat)
<1>1. T # {}
  <2>1. PICK k \in K : TRUE
    OBVIOUS
  <2>2. k - b \in Nat /\ (k - b) + b = k
    BY <2>1
  <2> QED  BY <2>1, <2>2
<1>2. PICK m \in T : \A y \in T : ~ (<<y, m>> \in R)
  BY <1>1, NatLessThanWellFounded, WFMin
<1>3. \A y, z \in Nat : y < z => <<y, z>> \in R
  BY DEF OpToRel
<1> HIDE DEF R
<1>4. \A y \in T : ~ (y < m)
  <2>1. m \in Nat /\ \A y \in T : y \in Nat
    OBVIOUS
  <2> HIDE DEF T
  <2> QED  BY <1>2, <1>3, <2>1
<1>5. \A k \in K : m + b <= k
  <2> SUFFICES ASSUME NEW k \in K PROVE m + b <= k
    OBVIOUS
  <2>1. k - b \in T
    <3>1. k - b \in Nat /\ (k - b) + b = k
      OBVIOUS
    <3> QED  BY <3>1
  <2>2. ~ (k - b < m) /\ m \in Nat
    BY <1>4, <2>1
  <2> QED  BY <2>2
<1>6. \E x \in K : \A y \in K : x =< y
  BY <1>5
<1> QED  BY <1>6 DEF Min

\* A set of integers that is bounded above has a maximum.
LEMMA MaxIs ==
  ASSUME NEW K \in SUBSET Int, K # {}, NEW b \in Int, \A k \in K : k <= b
  PROVE  Max(K) \in K
<1> DEFINE N == {-k : k \in K}
<1>1. N \subseteq Int /\ N # {} /\ \A n \in N : n >= -b
  OBVIOUS
<1>2. Min(N) \in N /\ \A n \in N : Min(N) <= n
  <2>1. -b \in Int
    OBVIOUS
  <2> HIDE DEF N
  <2> QED  BY <1>1, <2>1, MinIs
<1>3. PICK m \in K : Min(N) = -m
  BY <1>2
<1>4. \A y \in K : m >= y
  <2> SUFFICES ASSUME NEW y \in K PROVE m >= y
    OBVIOUS
  <2>1. -y \in N
    OBVIOUS
  <2>2. -m <= -y
    <3> HIDE DEF N
    <3> QED  BY <1>2, <1>3, <2>1
  <2> QED  BY <2>2
<1> QED  BY <1>4 DEF Max

LEMMA BatchedIs ==
  ASSUME NEW K \in SUBSET Int, \A k \in K : k >= -MaxLate, NEW due \in Nat
  PROVE  Batched(due, K) \in Int /\ Batched(due, K) >= -MaxLate
<1> DEFINE after == {k \in K : k >= due /\ k - due < Batch}
           before == {k \in K : k < due /\ due - k < Batch}
<1>1. MaxLate \in Nat /\ -MaxLate \in Int
  BY CollectionSchedulerAssumption
<1>2. after \in SUBSET Int /\ before \in SUBSET Int
  OBVIOUS
<1>3. after # {} => Min(after) \in K
  <2>1. \A k \in after : k >= due
    OBVIOUS
  <2>2. after # {} => Min(after) \in after
    <3> HIDE DEF after
    <3> QED  BY <1>2, <2>1, MinIs
  <2> QED  BY <2>2
<1>4. before # {} => Max(before) \in K
  <2>1. \A k \in before : k <= due
    OBVIOUS
  <2>2. before # {} => Max(before) \in before
    <3> HIDE DEF before
    <3> QED  BY <1>2, <2>1, MaxIs
  <2> QED  BY <2>2
<1>5. Batched(due, K) = IF after # {} THEN Min(after)
                        ELSE IF before # {} THEN Max(before) ELSE due
  BY DEF Batched
<1> HIDE DEF after, before
<1>6. Batched(due, K) \in K \cup {due}
  BY <1>3, <1>4, <1>5
<1>7. due \in Int /\ due >= -MaxLate
  BY <1>1
<1> QED  BY <1>6, <1>7

LEMMA KeysOf ==
  ASSUME NEW S, Proper(S)
  PROVE  /\ Keys(S) \in SUBSET Int /\ \A k \in Keys(S) : k >= -MaxLate
         /\ S # {} => /\ Min(Keys(S)) \in Keys(S)
                      /\ \A k \in Keys(S) : Min(Keys(S)) <= k
<1>1. Keys(S) \in SUBSET Int /\ \A k \in Keys(S) : k >= -MaxLate
  BY DEF Proper, Entry, Keys
<1>2. S # {} => Keys(S) # {}
  BY DEF Keys
<1>3. -MaxLate \in Int
  BY CollectionSchedulerAssumption
<1> QED  BY <1>1, <1>2, <1>3, MinIs

LEMMA ProperSubset ==
  ASSUME NEW S, Proper(S), NEW T \in SUBSET S
  PROVE  Proper(T)
BY FS_Subset DEF Proper, Unique

\* Scheduling a collection replaces its entry and touches no other.
LEMMA RescheduledIs ==
  ASSUME NEW S, Proper(S), NEW c \in Collections, NEW p \in Policies
  PROVE  /\ Proper(Rescheduled(S, c, p))
         /\ \A e \in Rescheduled(S, c, p) :
              /\ e.id = c => e.timeout = p
              /\ e.id # c => e \in S
         /\ \A e \in S : e.id # c => e \in Rescheduled(S, c, p)
         /\ p # Off => \E e \in Rescheduled(S, c, p) : e.id = c
<1> DEFINE others == {e \in S : e.id # c}
           new == [id |-> c, timeout |-> p, key |-> Batched(Interval(p), Keys(others))]
<1>1. Proper(others)
  BY ProperSubset
<1>2. CASE p \in Timeouts
  <2>1. Interval(p) \in Nat
    BY <1>2, CollectionSchedulerAssumption DEF Interval, MaxOf2
  <2>2. /\ Batched(Interval(p), Keys(others)) \in Int
        /\ Batched(Interval(p), Keys(others)) >= -MaxLate
    <3> HIDE DEF others
    <3> QED  BY <1>1, <2>1, BatchedIs, KeysOf
  <2>3. new \in Entry /\ new.key >= -MaxLate /\ new.id = c /\ new.timeout = p
    BY <1>2, <2>2 DEF Entry
  <2>4. Rescheduled(S, c, p) = others \cup {new}
    BY <1>2 DEF Rescheduled, shouldScheduleCollection
  <2>5. \A e \in others : e.id # c
    OBVIOUS
  <2> HIDE DEF new
  <2>6. Proper(others \cup {new})
    <3> HIDE DEF others
    <3> QED  BY <1>1, <2>3, <2>5, FS_AddElement DEF Proper, Unique
  <2> QED  BY <2>3, <2>4, <2>6
<1>3. CASE p \notin Timeouts
  <2>1. p = Off
    BY <1>3 DEF Policies
  <2>2. Rescheduled(S, c, p) = others
    BY <1>3 DEF Rescheduled, shouldScheduleCollection
  <2> QED  BY <1>1, <2>1, <2>2
<1> QED  BY <1>2, <1>3

\* startScheduler() starts the timer for the first check.
LEMMA StartedIs ==
  ASSUME NEW S, Proper(S), NEW thread, timer \in Timer
  PROVE  /\ Started(S, thread) \in Timer
         /\ Started(S, thread).is = "paused" <=> timer.is = "paused"
         /\ timer.is = "paused" => Started(S, thread) = timer
         /\ Started(S, thread).is = "running" =>
              /\ S # {} /\ thread = "main"
              /\ Started(S, thread).due = MaxOf2(0, Min(Keys(S)))
<1>1. S # {} => Min(Keys(S)) \in Int
  BY KeysOf
<1>2. S # {} => MaxOf2(0, Min(Keys(S))) \in Nat
  BY <1>1 DEF MaxOf2
<1> QED  BY <1>2 DEF Started, Timer, Running, Stopped, Dead

-----------------------------------------------------------------------------
(* What the steps do to the schedule and the timer *)

Typed == TypeOK /\ Unique(mSchedule)

LEMMA TypedIs ==
  ASSUME Typed
  PROVE  /\ Proper(mSchedule) /\ timer \in Timer
         /\ \A x \in main.left : x.id \in Collections /\ Timeout(x) \in Policies
         /\ \A i \in DOMAIN calls :
              /\ calls[i].id \in Collections /\ calls[i].timeout \in Timeouts
              /\ Timeout(calls[i]) \in Policies
<1>1. Proper(mSchedule) /\ timer \in Timer
  BY DEF Typed, TypeOK, Proper, Entry, Timer
<1>2. \A x \in main.left : x.id \in Collections /\ Timeout(x) \in Policies
  BY DEF Typed, TypeOK, Collection, Timeout
<1>3. \A i \in DOMAIN calls :
        /\ calls[i].id \in Collections /\ calls[i].timeout \in Timeouts
        /\ Timeout(calls[i]) \in Policies
  <2> SUFFICES ASSUME NEW i \in DOMAIN calls
               PROVE  /\ calls[i].id \in Collections /\ calls[i].timeout \in Timeouts
                      /\ Timeout(calls[i]) \in Policies
    OBVIOUS
  <2>1. calls[i] \in [id : Collections, timeout : Timeouts]
    <3>1. calls \in Seq([id : Collections, timeout : Timeouts])
      BY DEF Typed, TypeOK
    <3>2. i \in 1..Len(calls)
      BY <3>1
    <3> HIDE DEF Typed
    <3> QED  BY <3>1, <3>2, ElementOfSeq
  <2>2. calls[i].id \in Collections /\ calls[i].timeout \in Timeouts
    BY <2>1
  <2>3. policy[calls[i].id] \in Policies
    BY <2>2 DEF Typed, TypeOK
  <2> QED  BY <2>2, <2>3 DEF Timeout, Policies
<1> QED  BY <1>1, <1>2, <1>3

LEMMA ScheduleCollectionIs ==
  ASSUME Typed, OnTime, NEW c \in Collections, NEW p \in Policies, NEW thread,
         ScheduleCollection(c, p, thread)
  PROVE  /\ Proper(mSchedule') /\ timer' \in Timer
         /\ mSchedule' = Rescheduled(mSchedule, c, p)
         /\ timer'.is = "paused" <=> timer.is = "paused"
         /\ timer'.is = "running" => timer.is = "running" \/ thread = "main"
         /\ OnTime'
<1> DEFINE S == Rescheduled(mSchedule, c, p)
<1>1. Proper(S) /\ mSchedule' = S
  BY TypedIs, RescheduledIs DEF ScheduleCollection
<1>2. timer \in Timer
  BY TypedIs
<1> HIDE DEF S
<1>3. CASE Active
  <2>1. timer' = [timer EXCEPT !.outdated = (timer.is = "running")]
    BY <1>3 DEF ScheduleCollection
  <2> QED  BY <1>1, <1>2, <2>1 DEF Timer, OnTime, S
<1>4. CASE ~Active /\ p \in Timeouts
  <2>1. timer' = Started(S, thread)
    BY <1>4 DEF ScheduleCollection, shouldScheduleCollection, S
  <2> QED  BY <1>1, <1>2, <2>1, <1>4, StartedIs DEF OnTime, Active, S
<1>5. CASE ~Active /\ p \notin Timeouts
  <2>1. timer' = timer
    BY <1>5 DEF ScheduleCollection, shouldScheduleCollection
  <2> QED  BY <1>1, <1>2, <2>1, <1>5 DEF OnTime, Active, S
<1> QED  BY <1>3, <1>4, <1>5

LEMMA CollectionRemovedIs ==
  ASSUME Typed, OnTime, NEW c \in Collections, CollectionRemoved(c)
  PROVE  /\ Proper(mSchedule') /\ timer' \in Timer
         /\ mSchedule' = mSchedule \ RemovedWith(mSchedule, c)
         /\ \A e \in mSchedule' : e \in mSchedule /\ e.id # c
         /\ timer'.is = "paused" <=> timer.is = "paused"
         /\ timer'.is = "running" => timer.is = "running"
         /\ OnTime'
<1> DEFINE removed == RemovedWith(mSchedule, c)
           first == \E e \in removed : e.key = Min(Keys(mSchedule))
<1>1. mSchedule' = mSchedule \ removed /\ Proper(mSchedule) /\ timer \in Timer
  BY TypedIs DEF CollectionRemoved
<1>2. Proper(mSchedule')
  BY <1>1, ProperSubset
<1>3. \A e \in mSchedule' : e \in mSchedule /\ e.id # c
  BY <1>1 DEF RemovedWith
<1>4. timer' = IF first THEN Started(mSchedule', "connection") ELSE timer
  BY DEF CollectionRemoved
<1>5. CASE first
  <2>1. timer' = Started(mSchedule', "connection")
    BY <1>4, <1>5
  <2> QED  BY <1>1, <1>2, <1>3, <2>1, StartedIs DEF OnTime
<1>6. CASE ~first
  <2>1. timer' = timer
    BY <1>4, <1>6
  <2>2. ASSUME mSchedule # {}
        PROVE  mSchedule' # {} /\ Min(Keys(mSchedule')) = Min(Keys(mSchedule))
    <3>1. PICK e \in mSchedule : e.key = Min(Keys(mSchedule))
      BY <1>1, <2>2, KeysOf DEF Keys
    <3>2. e \in mSchedule'
      BY <1>1, <1>6, <3>1
    <3>3. Keys(mSchedule') \subseteq Keys(mSchedule) /\ e.key \in Keys(mSchedule')
      BY <1>1, <3>2 DEF Keys
    <3>4. /\ Min(Keys(mSchedule')) \in Keys(mSchedule')
          /\ Min(Keys(mSchedule')) <= e.key
      BY <1>2, <3>2, <3>3, KeysOf
    <3>5. e.key <= Min(Keys(mSchedule'))
      BY <1>1, <2>2, <3>1, <3>3, <3>4, KeysOf
    <3>6. Min(Keys(mSchedule')) \in Int /\ e.key \in Int
      BY <1>1, <1>2, <3>3, <3>4, KeysOf
    <3> QED  BY <3>1, <3>2, <3>4, <3>5, <3>6
  <2> QED  BY <1>1, <1>2, <1>3, <2>1, <2>2 DEF OnTime
<1> QED  BY <1>5, <1>6

\* Time passes for all of the schedule alike.
LEMMA TickIs ==
  ASSUME Typed, OnTime, Tick
  PROVE  /\ Proper(mSchedule') /\ timer' \in Timer
         /\ \A e \in mSchedule' : \E f \in mSchedule : f.id = e.id /\ f.timeout = e.timeout
         /\ \A f \in mSchedule : \E e \in mSchedule' : f.id = e.id
         /\ timer'.is = timer.is
         /\ OnTime'
<1> DEFINE later == [e \in mSchedule |-> [e EXCEPT !.key = @ - 1]]
<1>1. Proper(mSchedule) /\ timer \in Timer
  BY TypedIs
<1>2. mSchedule' = {later[e] : e \in mSchedule}
  BY DEF Tick
<1>3. \A e \in mSchedule : /\ later[e] \in Entry
                           /\ later[e].id = e.id /\ later[e].timeout = e.timeout
                           /\ later[e].key = e.key - 1 /\ e.key \in Int
  BY <1>1 DEF Proper, Entry
<1>4. later \in Surjection(mSchedule, mSchedule')
  BY <1>2 DEF Surjection
<1>5. IsFiniteSet(mSchedule')
  <2> HIDE DEF later
  <2> QED  BY <1>1, <1>4, FS_Surjection DEF Proper
<1>6. \A e \in mSchedule : e.key > -MaxLate
  BY DEF Tick
<1> HIDE DEF later
<1>7. Proper(mSchedule')
  <2>1. mSchedule' \subseteq Entry
    BY <1>2, <1>3
  <2>2. \A e \in mSchedule' : e.key >= -MaxLate
    BY <1>2, <1>3, <1>6, CollectionSchedulerAssumption
  <2>3. Unique(mSchedule')
    BY <1>1, <1>2, <1>3 DEF Proper, Unique
  <2> QED  BY <1>5, <2>1, <2>2, <2>3 DEF Proper
<1>8. timer' \in Timer /\ timer'.is = timer.is /\ timer'.outdated = timer.outdated
      /\ timer'.due = IF timer.due = 0 THEN 0 ELSE timer.due - 1
  BY <1>1 DEF Tick, Timer
<1>9. OnTime'
  <2> SUFFICES ASSUME timer.is = "running", ~timer.outdated
               PROVE  mSchedule' # {} /\ timer'.due = MaxOf2(0, Min(Keys(mSchedule')))
    BY <1>8 DEF OnTime
  <2>1. mSchedule # {} /\ timer.due = MaxOf2(0, Min(Keys(mSchedule)))
    BY DEF OnTime
  <2>2. mSchedule' # {}
    BY <1>2, <2>1
  <2>3. PICK e \in mSchedule : e.key = Min(Keys(mSchedule))
    BY <1>1, <2>1, KeysOf DEF Keys
  <2>4. PICK f \in mSchedule : later[f].key = Min(Keys(mSchedule'))
    <3>1. Min(Keys(mSchedule')) \in Keys(mSchedule')
      BY <1>7, <2>2, KeysOf
    <3> QED  BY <1>2, <3>1 DEF Keys
  <2>5. e.key <= f.key
    BY <1>1, <2>1, <2>3, KeysOf DEF Keys
  <2>6. later[f].key <= later[e].key
    BY <1>2, <1>7, <2>2, <2>4, KeysOf DEF Keys
  <2>7. e.key = f.key
    BY <1>3, <2>5, <2>6
  <2>8. Min(Keys(mSchedule')) = Min(Keys(mSchedule)) - 1 /\ Min(Keys(mSchedule)) \in Int
    BY <1>3, <2>3, <2>4, <2>7
  <2> QED  BY <1>8, <2>1, <2>2, <2>8 DEF MaxOf2
<1> QED  BY <1>2, <1>3, <1>7, <1>8, <1>9

-----------------------------------------------------------------------------
(* Types, the timer and the inhibitors *)

\* What a step must do to keep the types, but for the schedule and the timer.
LEMMA TypedAfter ==
  ASSUME Typed, Proper(mSchedule'), timer' \in Timer,
         exists' \subseteq Collections, policy' \in [Collections -> Policies],
         main' \in [at : {"starting", "init", "idle", "pass"}, left : SUBSET Collection],
         main'.at \in {"starting", "idle"} => main'.left = {},
         calls' \in Seq([id : Collections, timeout : Timeouts]),
         inhibitors' \subseteq Handlers, unheard' \in BOOLEAN,
         changes' \in 0..MaxChanges, mishaps' \subseteq Mishap
  PROVE  Typed'
BY DEF Typed, TypeOK, Proper, Entry, Timer

LEMMA ChangeIs ==
  ASSUME TypeOK, Change
  PROVE  changes' \in 0..MaxChanges
BY CollectionSchedulerAssumption DEF TypeOK, Change

LEMMA CollectionAddedIs ==
  ASSUME TypeOK, NEW c \in Collections, NEW p \in Policies, CollectionAdded(c, p)
  PROVE  /\ calls' \in Seq([id : Collections, timeout : Timeouts])
         /\ Len(calls) \in Nat /\ DOMAIN calls = 1..Len(calls)
         /\ p = Off => calls' = calls
         /\ p # Off => /\ DOMAIN calls' = 1..(Len(calls) + 1)
                       /\ calls'[Len(calls) + 1] = [id |-> c, timeout |-> p]
                       /\ \A i \in DOMAIN calls : calls'[i] = calls[i]
<1> DEFINE T == [id : Collections, timeout : Timeouts]
           x == [id |-> c, timeout |-> p]
<1>1. calls \in Seq(T)
  BY DEF TypeOK
<1>2. CASE p = Off
  <2>1. calls' = calls
    BY <1>2, CollectionSchedulerAssumption DEF CollectionAdded, shouldScheduleCollection
  <2> HIDE DEF T
  <2>2. Len(calls) \in Nat /\ DOMAIN calls = 1..Len(calls)
    BY <1>1
  <2>3. calls' \in Seq(T)
    BY <1>1, <2>1
  <2> QED  BY <1>2, <2>1, <2>2, <2>3 DEF T
<1>3. CASE p # Off
  <2>1. p \in Timeouts /\ x \in T
    BY <1>3 DEF Policies
  <2>2. calls' = Append(calls, x)
    BY <2>1 DEF CollectionAdded, shouldScheduleCollection
  <2> HIDE DEF T, x
  <2>3. calls' \in Seq(T) /\ DOMAIN calls' = 1..(Len(calls) + 1)
        /\ calls'[Len(calls) + 1] = x
        /\ Len(calls) \in Nat /\ DOMAIN calls = 1..Len(calls)
        /\ \A i \in DOMAIN calls : calls'[i] = calls[i]
    BY <1>1, <2>1, <2>2
  <2> QED  BY <1>3, <2>3 DEF T, x
<1> QED  BY <1>2, <1>3

LEMMA OutcomeIs ==
  ASSUME TypeOK, NEW E \in SUBSET Collections, NEW P \in [Collections -> Policies],
         NEW M \in SUBSET Mishap, Outcome(E, P, M)
  PROVE  /\ exists' \subseteq Collections /\ policy' \in [Collections -> Policies]
         /\ mishaps' \subseteq Mishap /\ mishaps \subseteq mishaps' /\ M \subseteq mishaps'
         /\ "rolledBack" \notin mishaps' => exists' = E /\ policy' = P
BY DEF TypeOK, Outcome, Mishap

LEMMA MishapsAre ==
  ASSUME NEW c
  PROVE  Foreign \subseteq Mishap /\ Removal(c) \subseteq Mishap
BY DEF Foreign, Removal, Mishap

LEMMA TimerSafe ==
  ASSUME Typed, TimerRight, HeldOff, Next
  PROVE  Typed' /\ TimerRight' /\ HeldOff'
<1> DEFINE Heads == [at : {"starting", "init", "idle", "pass"}, left : SUBSET Collection]
<1> USE DEF Typed
<1>1. CASE InitScheduler
  <2>1. main' \in Heads
    BY <1>1 DEF InitScheduler, Copies, Collection, TypeOK
  <2>2. Typed'
    BY <1>1, <2>1, TypedIs, TypedAfter DEF InitScheduler, TypeOK
  <2>3. TimerRight' /\ HeldOff'
    BY <1>1 DEF InitScheduler, TimerRight, OnTime, HeldOff, HeedsInhibitors
  <2> QED  BY <2>2, <2>3
<1>2. CASE InitOne
  <2>1. PICK x \in main.left :
          /\ ScheduleCollection(x.id, Timeout(x), "main")
          /\ main' = [main EXCEPT !.left = @ \ {x}]
    BY <1>2 DEF InitOne
  <2>2. /\ Proper(mSchedule') /\ timer' \in Timer /\ OnTime'
        /\ timer'.is = "paused" <=> timer.is = "paused"
    BY <2>1, TypedIs, ScheduleCollectionIs DEF TimerRight
  <2>3. main' \in Heads /\ main'.at = "init"
    BY <1>2, <2>1 DEF InitOne, TypeOK
  <2>4. Typed'
    BY <1>2, <2>2, <2>3, TypedAfter DEF InitOne, TypeOK
  <2>5. TimerRight' /\ HeldOff'
    BY <1>2, <2>2, <2>3 DEF InitOne, TimerRight, HeldOff, HeedsInhibitors
  <2> QED  BY <2>4, <2>5
<1>3. CASE SchedulerTimeout
  <2> DEFINE now == IF mSchedule = {} THEN {}
                    ELSE {e \in mSchedule : e.key = Min(Keys(mSchedule))}
  <2>1. /\ timer' = Stopped /\ mSchedule' = mSchedule \ now
        /\ main' = [at |-> "pass", left |-> {[id |-> e.id, timeout |-> e.timeout] : e \in now}]
        /\ mishaps' = mishaps \cup (IF now = {} THEN {"empty"} ELSE {})
    BY <1>3 DEF SchedulerTimeout
  <2>2. now \subseteq mSchedule
    OBVIOUS
  <2> HIDE DEF now
  <2>3. Proper(mSchedule') /\ timer' \in Timer
    BY <2>1, TypedIs, ProperSubset DEF Timer, Stopped
  <2>4. main' \in Heads
    BY <2>1, <2>2, TypedIs DEF Proper, Entry, Collection, Policies
  <2>5. Typed'
    BY <1>3, <2>1, <2>3, <2>4, TypedAfter DEF SchedulerTimeout, TypeOK, Mishap
  <2>6. TimerRight' /\ HeldOff'
    BY <1>3, <2>1 DEF SchedulerTimeout, Stopped, TimerRight, OnTime, HeldOff, HeedsInhibitors
  <2> QED  BY <2>5, <2>6
<1>4. CASE PassOne
  <2>1. PICK x \in main.left :
          /\ mSchedule' = Rescheduled(mSchedule, x.id, Timeout(x))
          /\ main' = [main EXCEPT !.left = @ \ {x}]
    BY <1>4 DEF PassOne
  <2>2. Proper(mSchedule')
    BY <2>1, TypedIs, RescheduledIs
  <2>3. main' \in Heads /\ main'.at = "pass"
    BY <1>4, <2>1 DEF PassOne, TypeOK
  <2>4. Typed'
    BY <1>4, <2>2, <2>3, TypedIs, TypedAfter DEF PassOne, TypeOK
  <2>5. TimerRight' /\ HeldOff'
    BY <1>4, <2>3 DEF PassOne, TimerRight, OnTime, HeldOff, HeedsInhibitors
  <2> QED  BY <2>4, <2>5
<1>5. CASE PassDone
  <2>1. timer' = Started(mSchedule, "main") /\ UNCHANGED mSchedule
    BY <1>5 DEF PassDone
  <2>2. /\ timer' \in Timer
        /\ timer'.is = "paused" <=> timer.is = "paused"
        /\ timer'.is = "running" => OnTime'
    BY <2>1, TypedIs, StartedIs DEF OnTime
  <2>3. main' \in Heads /\ main'.at = "idle" /\ main'.left = {}
    BY <1>5 DEF PassDone, TypeOK
  <2>4. Typed'
    BY <1>5, <2>1, <2>2, <2>3, TypedIs, TypedAfter DEF PassDone, TypeOK
  <2>5. OnTime'
    BY <2>2 DEF OnTime
  <2>6. TimerRight' /\ HeldOff'
    BY <1>5, <2>2, <2>3, <2>5 DEF PassDone, TimerRight, HeldOff, HeedsInhibitors
  <2> QED  BY <2>4, <2>6
<1>6. CASE Invoked
  <2> DEFINE x == Head(calls)
  <2>1. /\ ScheduleCollection(x.id, Timeout(x), "main") /\ calls' = Tail(calls)
        /\ calls # <<>> /\ main.at \in {"starting", "idle"}
        /\ UNCHANGED <<exists, policy, main, inhibitors, unheard, changes, mishaps>>
    BY <1>6 DEF Invoked
  <2>2. x.id \in Collections /\ Timeout(x) \in Policies
    <3>1. 1 \in DOMAIN calls /\ x = calls[1]
      BY <2>1 DEF TypeOK
    <3> QED  BY <3>1, TypedIs
  <2>3. /\ Proper(mSchedule') /\ timer' \in Timer /\ OnTime'
        /\ timer'.is = "paused" <=> timer.is = "paused"
    <3> HIDE DEF x
    <3> QED  BY <2>1, <2>2, ScheduleCollectionIs DEF TimerRight
  <2>4. calls' \in Seq([id : Collections, timeout : Timeouts])
    BY <2>1 DEF TypeOK
  <2>5. Typed'
    <3> HIDE DEF x
    <3> QED  BY <2>1, <2>3, <2>4, TypedAfter DEF TypeOK
  <2>6. TimerRight' /\ HeldOff'
    BY <2>1, <2>3 DEF TimerRight, HeldOff, HeedsInhibitors
  <2> QED  BY <2>5, <2>6
<1>7. CASE Tick
  <2>1. Proper(mSchedule') /\ timer' \in Timer /\ timer'.is = timer.is /\ OnTime'
    BY <1>7, TickIs DEF TimerRight
  <2>2. UNCHANGED <<exists, policy, main, calls, inhibitors, unheard, changes, mishaps>>
    BY <1>7 DEF Tick
  <2>3. Typed'
    BY <2>1, <2>2, TypedAfter DEF TypeOK
  <2>4. TimerRight' /\ HeldOff'
    BY <2>1, <2>2 DEF TimerRight, HeldOff, HeedsInhibitors
  <2> QED  BY <2>3, <2>4
<1>8. ASSUME NEW c \in Collections, NEW p \in Policies, Add(c, p) \/ Modify(c, p)
      PROVE  Typed' /\ TimerRight' /\ HeldOff'
  <2>1. /\ Change /\ CollectionAdded(c, p)
        /\ UNCHANGED <<mSchedule, timer, main, inhibitors, unheard>>
    BY <1>8 DEF Add, Modify
  <2> DEFINE P == [policy EXCEPT ![c] = p]
             M == IF p = Off /\ policy[c] # Off THEN {"deaf"} ELSE {}
  <2>a. Outcome(exists \cup {c}, P, {}) \/ Outcome(exists, P, M)
    BY <1>8 DEF Add, Modify
  <2>b. /\ exists \cup {c} \in SUBSET Collections /\ exists \in SUBSET Collections
        /\ P \in [Collections -> Policies] /\ {} \in SUBSET Mishap
        /\ M \in SUBSET Mishap
    BY DEF TypeOK, Mishap
  <2>2. exists' \subseteq Collections /\ policy' \in [Collections -> Policies] /\ mishaps' \subseteq Mishap
    <3> HIDE DEF P, M
    <3> QED  BY <2>a, <2>b, OutcomeIs
  <2>3. calls' \in Seq([id : Collections, timeout : Timeouts])
    BY <2>1, CollectionAddedIs
  <2>4. Typed'
    BY <2>1, <2>2, <2>3, ChangeIs, TypedIs, TypedAfter DEF TypeOK
  <2>5. TimerRight' /\ HeldOff'
    BY <2>1 DEF TimerRight, OnTime, HeldOff, HeedsInhibitors
  <2> QED  BY <2>4, <2>5
<1>9. ASSUME NEW c \in Collections, NEW p \in Policies, Move(c, p)
      PROVE  Typed' /\ TimerRight' /\ HeldOff'
  <2>1. /\ Change
        /\ UNCHANGED <<main, inhibitors, unheard>>
        /\ Outcome(exists, [policy EXCEPT ![c] = p],
                   Foreign \cup (IF p = Off THEN Removal(c) ELSE {}))
        /\ \/ CollectionAdded(c, p) /\ UNCHANGED <<mSchedule, timer>>
           \/ UNCHANGED <<mSchedule, timer, calls>>
           \/ ScheduleCollection(c, p, "connection") /\ UNCHANGED calls
           \/ CollectionRemoved(c) /\ UNCHANGED calls
    BY <1>9 DEF Move
  <2> DEFINE P == [policy EXCEPT ![c] = p]
             M == Foreign \cup (IF p = Off THEN Removal(c) ELSE {})
  <2>2. exists' \subseteq Collections /\ policy' \in [Collections -> Policies] /\ mishaps' \subseteq Mishap
    <3>1. P \in [Collections -> Policies] /\ exists \in SUBSET Collections
      BY DEF TypeOK
    <3>2. M \in SUBSET Mishap
      BY MishapsAre
    <3> HIDE DEF P, M
    <3> QED  BY <2>1, <3>1, <3>2, OutcomeIs DEF P, M
  <2>3. /\ Proper(mSchedule') /\ timer' \in Timer /\ OnTime'
        /\ timer'.is = "paused" <=> timer.is = "paused"
        /\ timer'.is = "running" => timer.is = "running"
    <3>1. CASE UNCHANGED <<mSchedule, timer>>
      BY <3>1, TypedIs DEF TimerRight, OnTime
    <3>2. CASE ScheduleCollection(c, p, "connection")
      BY <3>2, ScheduleCollectionIs DEF TimerRight
    <3>3. CASE CollectionRemoved(c)
      BY <3>3, CollectionRemovedIs DEF TimerRight
    <3> QED  BY <2>1, <3>1, <3>2, <3>3
  <2>4. calls' \in Seq([id : Collections, timeout : Timeouts])
    <3>1. CASE CollectionAdded(c, p)
      BY <3>1, CollectionAddedIs
    <3>2. CASE UNCHANGED calls
      BY <3>2 DEF TypeOK
    <3> QED  BY <2>1, <3>1, <3>2
  <2>5. Typed'
    BY <2>1, <2>2, <2>3, <2>4, ChangeIs, TypedAfter DEF TypeOK
  <2>6. TimerRight' /\ HeldOff'
    BY <2>1, <2>3 DEF TimerRight, HeldOff, HeedsInhibitors
  <2> QED  BY <2>5, <2>6
<1>10. ASSUME NEW p \in Policies, ModifyParent(p)
       PROVE  Typed' /\ TimerRight' /\ HeldOff'
  <2>1. /\ Change
        /\ UNCHANGED <<exists, mSchedule, timer, main, calls, inhibitors, unheard>>
        /\ policy' \in [Collections -> Policies] /\ mishaps' \subseteq Mishap
    BY <1>10 DEF ModifyParent, TypeOK, Mishap
  <2>2. Typed'
    BY <2>1, ChangeIs, TypedIs, TypedAfter DEF TypeOK
  <2>3. TimerRight' /\ HeldOff'
    BY <2>1 DEF TimerRight, OnTime, HeldOff, HeedsInhibitors
  <2> QED  BY <2>2, <2>3
<1>11. ASSUME NEW c \in Collections, Remove(c)
       PROVE  Typed' /\ TimerRight' /\ HeldOff'
  <2>1. /\ Change /\ CollectionRemoved(c)
        /\ UNCHANGED <<main, calls, inhibitors, unheard>>
        /\ Outcome(exists \ {c}, policy, Foreign \cup Removal(c))
    BY <1>11 DEF Remove
  <2>2. exists' \subseteq Collections /\ policy' \in [Collections -> Policies] /\ mishaps' \subseteq Mishap
    <3>1. exists \ {c} \in SUBSET Collections /\ policy \in [Collections -> Policies]
      BY DEF TypeOK
    <3>2. Foreign \cup Removal(c) \in SUBSET Mishap
      BY MishapsAre
    <3> QED  BY <2>1, <3>1, <3>2, OutcomeIs
  <2>3. /\ Proper(mSchedule') /\ timer' \in Timer /\ OnTime'
        /\ timer'.is = "paused" <=> timer.is = "paused"
        /\ timer'.is = "running" => timer.is = "running"
    BY <2>1, CollectionRemovedIs DEF TimerRight
  <2>4. Typed'
    BY <2>1, <2>2, <2>3, ChangeIs, TypedAfter DEF TypeOK
  <2>5. TimerRight' /\ HeldOff'
    BY <2>1, <2>3 DEF TimerRight, HeldOff, HeedsInhibitors
  <2> QED  BY <2>4, <2>5
<1>12. ASSUME NEW h \in Handlers, Inhibit(h)
       PROVE  Typed' /\ TimerRight' /\ HeldOff'
  <2>1. /\ Change /\ inhibitors' = inhibitors \cup {h}
        /\ inhibitors = {} /\ Active => timer' = Paused
        /\ ~(inhibitors = {} /\ Active) => timer' = timer
        /\ UNCHANGED <<exists, policy, mSchedule, main, calls, mishaps>>
    BY <1>12 DEF Inhibit
  <2>a. unheard' = IF inhibitors = {} THEN ~Active \/ main.at = "pass" ELSE unheard
    BY <1>12 DEF Inhibit
  <2>b. /\ unheard' \in BOOLEAN
        /\ ~unheard' => IF inhibitors = {} THEN Active /\ main.at # "pass" ELSE ~unheard
    BY <2>a DEF TypeOK
  <2>2. timer' \in Timer
    <3>1. timer \in Timer /\ Paused \in Timer
      BY TypedIs DEF Timer, Paused
    <3> QED  BY <2>1, <3>1
  <2>3. Typed'
    BY <2>1, <2>b, <2>2, ChangeIs, TypedIs, TypedAfter DEF TypeOK
  <2>4. TimerRight' /\ HeldOff'
    BY <2>1, <2>b DEF TimerRight, OnTime, HeldOff, HeedsInhibitors, Active, Paused
  <2> QED  BY <2>3, <2>4
<1>13. ASSUME NEW h \in Handlers, Uninhibit(h)
       PROVE  Typed' /\ TimerRight' /\ HeldOff'
  <2>1. /\ h \in inhibitors /\ inhibitors' = inhibitors \ {h}
        /\ inhibitors = {h} /\ timer.is = "paused" =>
             timer' = Dead /\ mishaps' = mishaps \cup {"foreign"}
        /\ ~(inhibitors = {h} /\ timer.is = "paused") => UNCHANGED <<timer, mishaps>>
        /\ UNCHANGED <<exists, policy, mSchedule, main, calls, changes>>
    BY <1>13 DEF Uninhibit
  <2>a. unheard' = (unheard /\ inhibitors # {h})
    BY <1>13 DEF Uninhibit
  <2>b. unheard' \in BOOLEAN /\ (unheard' <=> unheard /\ inhibitors # {h})
    BY <2>a DEF TypeOK
  <2>2. timer' \in Timer /\ mishaps' \subseteq Mishap
    <3>1. timer \in Timer /\ Dead \in Timer
      BY TypedIs DEF Timer, Dead
    <3> QED  BY <2>1, <3>1 DEF TypeOK, Mishap
  <2>3. Typed'
    BY <2>1, <2>b, <2>2, TypedIs, TypedAfter DEF TypeOK
  <2>4. inhibitors' = {} <=> inhibitors = {h}
    BY <2>1
  <2>5. TimerRight' /\ HeldOff'
    BY <2>1, <2>b, <2>4 DEF TimerRight, OnTime, HeldOff, HeedsInhibitors, Dead
  <2> QED  BY <2>3, <2>5
<1> QED
  BY <1>1, <1>2, <1>3, <1>4, <1>5, <1>6, <1>7, <1>8, <1>9, <1>10, <1>11, <1>12, <1>13
  DEF Next, MainThread, Connections

-----------------------------------------------------------------------------
(* The schedule is current *)

Currents == IdsExist /\ EntriesCurrent /\ CopiesCurrent /\ CallsCurrent

LEMMA MishapsStay ==
  ASSUME Next
  PROVE  mishaps \subseteq mishaps'
BY DEF Next, MainThread, Connections, InitScheduler, InitOne, SchedulerTimeout, PassOne,
       PassDone, Invoked, Tick, Add, Modify, Move, ModifyParent, Remove, Outcome, Inhibit,
       Uninhibit

LEMMA CallsAre ==
  ASSUME Typed
  PROVE  /\ Len(calls) \in Nat /\ DOMAIN calls = 1..Len(calls)
         /\ \A i \in DOMAIN calls : calls[i].id \in Collections
BY TypedIs DEF Typed, TypeOK

\* When the main thread schedules c as its collection x has it, and loses x from
\* its copies, what it schedules is current, or it is about to be told.
LEMMA ScheduledCurrent ==
  ASSUME Typed, Currents, NEW x \in main.left,
         mSchedule' = Rescheduled(mSchedule, x.id, Timeout(x)),
         main' = [main EXCEPT !.left = @ \ {x}],
         UNCHANGED <<exists, policy, calls, mishaps>>
  PROVE  Currents'
<1>1. main'.left \subseteq main.left
  BY DEF Typed, TypeOK
<1>2. Proper(mSchedule) /\ x.id \in Collections /\ Timeout(x) \in Policies
  BY TypedIs
<1>3. \A e \in mSchedule' : /\ e.id = x.id => e.timeout = Timeout(x)
                            /\ e.id # x.id => e \in mSchedule
  BY <1>2, RescheduledIs
<1>4. IdsExist'
  BY <1>1, <1>3 DEF Currents, IdsExist
<1>5. \A c : Told(c)' <=> Told(c)
  BY DEF Told
<1>6. EntriesCurrent'
  <2>1. Timeout(x) = policy[x.id] \/ Told(x.id)
    BY DEF Currents, CopiesCurrent, Timeout
  <2> QED  BY <1>3, <1>5, <2>1 DEF Currents, EntriesCurrent
<1>7. CopiesCurrent' /\ CallsCurrent'
  BY <1>1, <1>5 DEF Currents, CopiesCurrent, CallsCurrent
<1> QED  BY <1>4, <1>6, <1>7 DEF Currents

LEMMA InvokedCurrent ==
  ASSUME Typed, OnTime, Currents, Invoked
  PROVE  Currents'
<1> DEFINE n == Len(calls)
<1>0. PICK x : x = calls[1]
  OBVIOUS
<1>1. /\ ScheduleCollection(Head(calls).id, Timeout(Head(calls)), "main")
      /\ calls' = Tail(calls) /\ calls # <<>> /\ main.left = {}
      /\ UNCHANGED <<exists, policy, main, mishaps>>
  BY DEF Invoked, Typed, TypeOK
<1>2. /\ Head(calls) = x /\ n \in Nat \ {0} /\ DOMAIN calls = 1..n
      /\ DOMAIN calls' = 1..(n - 1) /\ \A i \in 1..(n - 1) : calls'[i] = calls[i + 1]
  BY <1>0, <1>1 DEF Typed, TypeOK
<1>3. x.id \in Collections /\ Timeout(x) \in Policies /\ Proper(mSchedule)
  BY <1>0, <1>2, TypedIs
<1>4. mSchedule' = Rescheduled(mSchedule, x.id, Timeout(x))
  BY <1>1, <1>2 DEF ScheduleCollection
<1>5. \A e \in mSchedule' : /\ e.id = x.id => e.timeout = Timeout(x)
                            /\ e.id # x.id => e \in mSchedule
  BY <1>3, <1>4, RescheduledIs
<1>6. \A i \in 2..n : i - 1 \in DOMAIN calls' /\ calls'[i - 1] = calls[i]
  BY <1>2
<1>7. IdsExist'
  <2>1. x.id \in exists
    BY <1>0, <1>2 DEF Currents, IdsExist
  <2>2. \A i \in DOMAIN calls' : calls'[i].id \in exists
    BY <1>2 DEF Currents, IdsExist
  <2> QED  BY <1>1, <1>5, <2>1, <2>2 DEF Currents, IdsExist
<1>8. ASSUME NEW c, c # x.id, Told(c) PROVE Told(c)'
  <2>1. PICK i \in DOMAIN calls : calls[i].id = c /\ calls[i].timeout = policy[c]
    BY <1>8 DEF Told
  <2>2. i \in 2..n
    BY <1>0, <1>2, <1>8, <2>1
  <2> QED  BY <1>1, <1>6, <2>1, <2>2 DEF Told
<1>9. Timeout(x) = policy[x.id] \/ Told(x.id)'
  <2>1. CASE \E j \in DOMAIN calls :
               j > 1 /\ calls[j].id = x.id /\ calls[j].timeout = policy[calls[j].id]
    <3>1. PICK j \in 2..n : calls[j].id = x.id /\ calls[j].timeout = policy[calls[j].id]
      BY <1>2, <2>1
    <3>2. /\ j - 1 \in DOMAIN calls' /\ calls'[j - 1].id = x.id
          /\ calls'[j - 1].timeout = policy'[x.id]
      BY <1>1, <1>6, <3>1
    <3> QED  BY <3>2 DEF Told
  <2>2. CASE x.id \in Inheriting \/ x.timeout = policy[x.id]
    BY <2>2 DEF Timeout
  <2>3. 1 \in DOMAIN calls
    BY <1>2
  <2> QED  BY <1>0, <2>1, <2>2, <2>3 DEF Currents, CallsCurrent
<1>10. EntriesCurrent'
  <2> SUFFICES ASSUME NEW e \in mSchedule'
               PROVE  \/ e.timeout = policy[e.id]
                      \/ Told(e.id)'
                      \/ e.id \in Inheriting /\ "parent" \in mishaps
    BY <1>1 DEF EntriesCurrent
  <2>1. CASE e.id = x.id
    BY <1>5, <1>9, <2>1
  <2>2. CASE e.id # x.id
    BY <1>5, <1>8, <2>2 DEF Currents, EntriesCurrent
  <2> QED  BY <2>1, <2>2
<1>11. CopiesCurrent'
  BY <1>1 DEF CopiesCurrent
<1>12. CallsCurrent'
  <2> SUFFICES ASSUME NEW i \in DOMAIN calls',
                      calls'[i].id \notin Inheriting,
                      calls'[i].timeout # policy[calls'[i].id]
               PROVE  \E j \in DOMAIN calls' : /\ j > i /\ calls'[j].id = calls'[i].id
                                               /\ calls'[j].timeout = policy[calls'[j].id]
    BY <1>1 DEF CallsCurrent
  <2>1. i + 1 \in DOMAIN calls /\ calls'[i] = calls[i + 1] /\ i \in Nat
    BY <1>2
  <2>2. PICK j \in DOMAIN calls :
          j > i + 1 /\ calls[j].id = calls[i + 1].id /\ calls[j].timeout = policy[calls[j].id]
    BY <2>1 DEF Currents, CallsCurrent
  <2>3. j \in 2..n /\ j - 1 > i
    BY <1>2, <2>1, <2>2
  <2> QED  BY <1>6, <2>1, <2>2, <2>3
<1> QED  BY <1>7, <1>10, <1>11, <1>12 DEF Currents

\* A connection tells of collection c, whose policy is p from now on.
LEMMA AddedCurrent ==
  ASSUME Typed, Currents, NEW c \in Collections, NEW p \in Policies,
         CollectionAdded(c, p), exists' = exists \cup {c},
         policy' = [policy EXCEPT ![c] = p], mishaps \subseteq mishaps',
         UNCHANGED <<mSchedule, main>>,
         p = Off => \/ c \notin exists \/ policy[c] = Off
                    \/ c \in Inheriting /\ ~\E e \in mSchedule : e.id = c
  PROVE  Currents'
<1> DEFINE n == Len(calls)
<1>1. /\ n \in Nat /\ DOMAIN calls = 1..n
      /\ p = Off => calls' = calls
      /\ p # Off => /\ DOMAIN calls' = 1..(n + 1)
                    /\ calls'[n + 1] = [id |-> c, timeout |-> p]
                    /\ \A i \in DOMAIN calls : calls'[i] = calls[i]
  BY CollectionAddedIs DEF Typed
<1>2. /\ DOMAIN calls \subseteq DOMAIN calls'
      /\ \A i \in DOMAIN calls : calls'[i] = calls[i]
      /\ \A i \in DOMAIN calls' : i \in DOMAIN calls \/ (p # Off /\ i = n + 1)
  BY <1>1
<1>3. policy'[c] = p /\ \A d : d # c => policy'[d] = policy[d]
  BY DEF Typed, TypeOK
<1>4. IdsExist'
  <2>1. \A i \in DOMAIN calls' : calls'[i].id \in exists'
    BY <1>1, <1>2 DEF Currents, IdsExist
  <2> QED  BY <2>1 DEF Currents, IdsExist
<1>5. p # Off => Told(c)'
  BY <1>1, <1>3 DEF Told
<1>6. \A d : d # c /\ Told(d) => Told(d)'
  BY <1>2, <1>3 DEF Told
<1>7. p = Off => \A d : (d \in exists /\ d \notin Inheriting)
                        \/ (\E e \in mSchedule : e.id = d) => policy'[d] = policy[d]
  BY <1>3 DEF Currents, IdsExist
<1>8. p = Off => \A d : Told(d) /\ policy'[d] = policy[d] => Told(d)'
  BY <1>1 DEF Told
<1>9. EntriesCurrent'
  <2>1. CASE p # Off
    BY <1>3, <1>5, <1>6, <2>1 DEF Currents, EntriesCurrent
  <2>2. CASE p = Off
    BY <1>7, <1>8, <2>2 DEF Currents, EntriesCurrent
  <2> QED  BY <2>1, <2>2
<1>10. CopiesCurrent'
  <2>1. CASE p # Off
    BY <1>3, <1>5, <1>6, <2>1 DEF Currents, CopiesCurrent
  <2>2. CASE p = Off
    BY <1>7, <1>8, <2>2 DEF Currents, CopiesCurrent, IdsExist
  <2> QED  BY <2>1, <2>2
<1>11. CallsCurrent'
  <2> SUFFICES ASSUME NEW i \in DOMAIN calls',
                      calls'[i].id \notin Inheriting,
                      calls'[i].timeout # policy'[calls'[i].id]
               PROVE  \E j \in DOMAIN calls' : /\ j > i /\ calls'[j].id = calls'[i].id
                                               /\ calls'[j].timeout = policy'[calls'[j].id]
    BY DEF CallsCurrent
  <2>1. i \in DOMAIN calls /\ i \in 1..n
    BY <1>1, <1>2, <1>3
  <2>2. CASE p # Off /\ calls[i].id = c
    <3>1. n + 1 \in DOMAIN calls' /\ n + 1 > i
      BY <1>1, <2>1, <2>2
    <3> QED  BY <1>1, <1>2, <1>3, <2>1, <2>2, <3>1
  <2>3. CASE p = Off \/ calls[i].id # c
    <3>1. policy'[calls[i].id] = policy[calls[i].id]
      BY <1>2, <1>3, <1>7, <2>1, <2>3 DEF Currents, IdsExist
    <3>2. PICK j \in DOMAIN calls : /\ j > i /\ calls[j].id = calls[i].id
                                    /\ calls[j].timeout = policy[calls[j].id]
      BY <1>2, <2>1, <3>1 DEF Currents, CallsCurrent
    <3> QED  BY <1>2, <2>1, <3>1, <3>2
  <2> QED  BY <2>2, <2>3
<1> QED  BY <1>4, <1>9, <1>10, <1>11 DEF Currents

\* The policy of inheriting collections changes and no call is made, but the
\* entries of the schedule are current for those.
LEMMA ParentCurrent ==
  ASSUME Typed, Currents, UNCHANGED <<exists, main, calls>>, mishaps \subseteq mishaps',
         \A d \in Collections : d \notin Inheriting => policy'[d] = policy[d],
         \A e \in mSchedule' :
           \/ e.id \in Inheriting /\ (e.timeout = policy'[e.id] \/ "parent" \in mishaps')
           \/ e \in mSchedule /\ policy'[e.id] = policy[e.id],
         \A e \in mSchedule' : \E f \in mSchedule : f.id = e.id
  PROVE  Currents'
<1>1. \A i \in DOMAIN calls : calls[i].id \in Collections
  BY CallsAre
<1>2. \A x \in main.left : x.id \in Collections
  BY TypedIs
<1>3. IdsExist'
  BY DEF Currents, IdsExist
<1>4. \A d : policy'[d] = policy[d] /\ Told(d) => Told(d)'
  BY DEF Told
<1>5. EntriesCurrent'
  BY <1>4 DEF Currents, EntriesCurrent
<1>6. CopiesCurrent'
  BY <1>2, <1>4 DEF Currents, CopiesCurrent
<1>7. CallsCurrent'
  BY <1>1 DEF Currents, CallsCurrent
<1> QED  BY <1>3, <1>5, <1>6, <1>7 DEF Currents

LEMMA CurrentSafe ==
  ASSUME Typed, OnTime, Current, Next
  PROVE  Current'
<1> SUFFICES ASSUME Undisturbed' PROVE Currents'
  BY DEF Current, Currents
<1>0. /\ mishaps \subseteq mishaps' /\ Currents
      /\ mishaps' \cap {"raced", "deaf", "rolledBack"} = {}
  BY MishapsStay DEF Current, Currents, Undisturbed
<1>1. CASE InitScheduler
  <2>1. /\ main'.left = Copies(exists)
        /\ UNCHANGED <<exists, policy, mSchedule, calls, mishaps>>
    BY <1>1 DEF InitScheduler
  <2> QED
    BY <1>0, <2>1 DEF Currents, IdsExist, EntriesCurrent, CopiesCurrent, CallsCurrent, Told,
                      Copies
<1>2. CASE InitOne \/ PassOne
  <2>1. PICK x \in main.left :
          /\ mSchedule' = Rescheduled(mSchedule, x.id, Timeout(x))
          /\ main' = [main EXCEPT !.left = @ \ {x}]
    BY <1>2 DEF InitOne, PassOne, ScheduleCollection
  <2>2. UNCHANGED <<exists, policy, calls, mishaps>>
    BY <1>2 DEF InitOne, PassOne
  <2> QED  BY <1>0, <2>1, <2>2, ScheduledCurrent
<1>3. CASE SchedulerTimeout
  <2>1. /\ mSchedule' \subseteq mSchedule
        /\ UNCHANGED <<exists, policy, calls>>
        /\ \A x \in main'.left : \E e \in mSchedule : e.id = x.id /\ e.timeout = x.timeout
    BY <1>3 DEF SchedulerTimeout
  <2>2. \A c : Told(c)' <=> Told(c)
    BY <2>1 DEF Told
  <2> QED
    BY <1>0, <2>1, <2>2 DEF Currents, IdsExist, EntriesCurrent, CopiesCurrent, CallsCurrent
<1>4. CASE PassDone \/ \E h \in Handlers : Inhibit(h) \/ Uninhibit(h)
  <2>1. UNCHANGED <<exists, policy, mSchedule, calls>> /\ main'.left = main.left
    BY <1>4 DEF PassDone, Inhibit, Uninhibit, Typed, TypeOK
  <2> QED
    BY <1>0, <2>1 DEF Currents, IdsExist, EntriesCurrent, CopiesCurrent, CallsCurrent, Told
<1>5. CASE Invoked
  BY <1>0, <1>5, InvokedCurrent
<1>6. CASE Tick
  <2>1. \A e \in mSchedule' : \E f \in mSchedule : f.id = e.id /\ f.timeout = e.timeout
    BY <1>6, TickIs
  <2>2. UNCHANGED <<exists, policy, main, calls, mishaps>>
    BY <1>6 DEF Tick
  <2> QED
    BY <1>0, <2>1, <2>2 DEF Currents, IdsExist, EntriesCurrent, CopiesCurrent, CallsCurrent, Told
<1>7. ASSUME NEW c \in Collections, NEW p \in Policies, Add(c, p) PROVE Currents'
  <2>1. /\ c \notin exists /\ CollectionAdded(c, p) /\ UNCHANGED <<mSchedule, main>>
        /\ exists' = exists \cup {c} /\ policy' = [policy EXCEPT ![c] = p]
    BY <1>0, <1>7 DEF Add, Outcome
  <2> QED  BY <1>0, <2>1, AddedCurrent
<1>8. ASSUME NEW c \in Collections, NEW p \in Policies, Modify(c, p) PROVE Currents'
  <2>1. /\ c \in exists /\ CollectionAdded(c, p) /\ UNCHANGED <<mSchedule, main>>
        /\ exists' = exists \cup {c} /\ policy' = [policy EXCEPT ![c] = p]
        /\ ~(p = Off /\ policy[c] # Off)
    BY <1>0, <1>8 DEF Modify, Outcome
  <2> QED  BY <1>0, <2>1, AddedCurrent
<1>9. ASSUME NEW p \in Policies, ModifyParent(p) PROVE Currents'
  <2>1. /\ policy' = [c \in Collections |-> IF c \in Inheriting THEN p ELSE policy[c]]
        /\ "parent" \in mishaps'
        /\ UNCHANGED <<exists, mSchedule, main, calls>>
    BY <1>9 DEF ModifyParent
  <2>2. \A d \in Collections : d \notin Inheriting => policy'[d] = policy[d]
    BY <2>1
  <2>3. \A e \in mSchedule : e.id \in Collections
    BY TypedIs DEF Proper, Entry
  <2> QED  BY <1>0, <2>1, <2>2, <2>3, ParentCurrent
<1>10. ASSUME NEW c \in Collections, NEW p \in Policies, Move(c, p) PROVE Currents'
  <2>1. /\ c \in Inheriting /\ c \in exists
        /\ exists' = exists /\ policy' = [policy EXCEPT ![c] = p]
        /\ UNCHANGED main
    BY <1>0, <1>10 DEF Move, Outcome
  <2>2. policy'[c] = p /\ \A d : d # c => policy'[d] = policy[d]
    BY <2>1 DEF Typed, TypeOK
  <2>3. CASE /\ ~\E e \in mSchedule : e.id = c
             /\ CollectionAdded(c, p) /\ UNCHANGED <<mSchedule, timer>>
    <3>1. exists' = exists \cup {c}
      BY <2>1
    <3> QED  BY <1>0, <2>1, <2>3, <3>1, AddedCurrent
  <2>4. CASE /\ \E e \in mSchedule : e.id = c /\ e.timeout = p
             /\ UNCHANGED <<mSchedule, timer, calls>>
    <3>1. \A e \in mSchedule : e.id = c => e.timeout = p
      BY <2>4 DEF Typed, Unique
    <3> QED  BY <1>0, <2>1, <2>2, <2>4, <3>1, ParentCurrent
  <2>5. CASE /\ \E e \in mSchedule : e.id = c
             /\ ScheduleCollection(c, p, "connection") /\ UNCHANGED calls
    <3>1. \A e \in mSchedule' : /\ e.id = c => e.timeout = p
                                /\ e.id # c => e \in mSchedule
      BY <2>5, ScheduleCollectionIs, TypedIs, RescheduledIs
    <3> QED  BY <1>0, <2>1, <2>2, <2>5, <3>1, ParentCurrent
  <2>6. CASE CollectionRemoved(c) /\ UNCHANGED calls
    <3>1. \A e \in mSchedule' : e \in mSchedule /\ e.id # c
      BY <2>6, CollectionRemovedIs
    <3> QED  BY <1>0, <2>1, <2>2, <2>6, <3>1, ParentCurrent
  <2> QED  BY <1>10, <2>3, <2>4, <2>5, <2>6 DEF Move
<1>11. ASSUME NEW c \in Collections, Remove(c) PROVE Currents'
  <2>1. /\ CollectionRemoved(c) /\ exists' = exists \ {c} /\ policy' = policy
        /\ ~HasCopy(c) /\ UNCHANGED <<main, calls>>
    BY <1>0, <1>11 DEF Remove, Outcome, Removal
  <2>2. \A e \in mSchedule' : e \in mSchedule /\ e.id # c
    BY <2>1, CollectionRemovedIs
  <2>3. /\ \A x \in main.left : x.id # c
        /\ \A i \in DOMAIN calls : calls[i].id # c
    BY <2>1 DEF HasCopy, Range
  <2> QED
    BY <1>0, <2>1, <2>2, <2>3
    DEF Currents, IdsExist, EntriesCurrent, CopiesCurrent, CallsCurrent, Told
<1> QED
  BY <1>1, <1>2, <1>3, <1>4, <1>5, <1>6, <1>7, <1>8, <1>9, <1>10, <1>11
  DEF Next, MainThread, Connections

-----------------------------------------------------------------------------
(* Nothing is forgotten *)

LEMMA CalledStays ==
  ASSUME Typed, NEW c \in Collections, NEW p \in Policies, CollectionAdded(c, p)
  PROVE  /\ \A d : Called(d) => Called(d)'
         /\ p # Off => Called(c)'
<1>1. /\ p = Off => calls' = calls
      /\ p # Off => /\ Len(calls) + 1 \in DOMAIN calls'
                    /\ calls'[Len(calls) + 1].id = c
                    /\ \A i \in DOMAIN calls : i \in DOMAIN calls' /\ calls'[i] = calls[i]
  <2>1. Len(calls) \in Nat /\ DOMAIN calls = 1..Len(calls)
    BY CollectionAddedIs DEF Typed
  <2>2. p = Off => calls' = calls
    BY CollectionAddedIs DEF Typed
  <2>3. p # Off => /\ DOMAIN calls' = 1..(Len(calls) + 1)
                   /\ calls'[Len(calls) + 1] = [id |-> c, timeout |-> p]
                   /\ \A i \in DOMAIN calls : calls'[i] = calls[i]
    BY CollectionAddedIs DEF Typed
  <2> QED  BY <2>1, <2>2, <2>3
<1> QED  BY <1>1 DEF Called

LEMMA OffIs ==
  ASSUME TypeOK, NEW c \in Collections
  PROVE  /\ shouldScheduleCollection(policy[c]) <=> policy[c] # Off
         /\ Called(c) <=> \E x \in Range(calls) : x.id = c
BY CollectionSchedulerAssumption
DEF TypeOK, Policies, shouldScheduleCollection, Called, Range

LEMMA CallFollowsSafe ==
  ASSUME Typed, CallFollows, Next
  PROVE  CallFollows'
<1>0. \A x \in main.left : x.id \in Collections
  BY TypedIs
<1>1. CASE InitScheduler
  BY <1>1 DEF InitScheduler, Copies, CallFollows
<1>2. CASE InitOne \/ PassOne
  <2>1. main'.left \subseteq main.left /\ UNCHANGED <<policy, calls>>
    BY <1>2 DEF InitOne, PassOne, Typed, TypeOK
  <2> QED  BY <2>1 DEF CallFollows, Called
<1>3. CASE SchedulerTimeout
  <2>1. \A x \in main'.left : \E e \in mSchedule : e.timeout = x.timeout
    BY <1>3 DEF SchedulerTimeout
  <2>2. \A e \in mSchedule : e.timeout # Off
    BY TypedIs, CollectionSchedulerAssumption DEF Proper, Entry
  <2> QED  BY <2>1, <2>2 DEF CallFollows
<1>4. CASE PassDone \/ Tick \/ \E h \in Handlers : Inhibit(h) \/ Uninhibit(h)
  <2>1. UNCHANGED <<policy, calls>> /\ main'.left = main.left
    BY <1>4 DEF PassDone, Tick, Inhibit, Uninhibit, Typed, TypeOK
  <2> QED  BY <2>1 DEF CallFollows, Called
<1>5. CASE Invoked
  BY <1>5 DEF Invoked, Typed, TypeOK, CallFollows
<1>6. ASSUME NEW c \in Collections, NEW p \in Policies, Add(c, p) \/ Modify(c, p)
      PROVE  CallFollows'
  <2>1. /\ CollectionAdded(c, p) /\ UNCHANGED main
        /\ policy' = policy \/ policy' = [policy EXCEPT ![c] = p]
    BY <1>6 DEF Add, Modify, Outcome
  <2>2. \A d \in Collections : policy'[d] = policy[d] \/ (d = c /\ policy'[d] = p)
    BY <2>1 DEF Typed, TypeOK
  <2> QED  BY <1>0, <2>1, <2>2, CalledStays DEF CallFollows
<1>7. ASSUME NEW c \in Collections, NEW p \in Policies, Move(c, p)
      PROVE  CallFollows'
  <2>1. /\ CollectionAdded(c, p) \/ UNCHANGED calls
        /\ c \in Inheriting /\ UNCHANGED main
        /\ policy' = policy \/ policy' = [policy EXCEPT ![c] = p]
    BY <1>7 DEF Move, Outcome
  <2>2. \A d \in Collections : d \notin Inheriting => policy'[d] = policy[d]
    BY <2>1 DEF Typed, TypeOK
  <2>3. \A d : Called(d) => Called(d)'
    BY <2>1, CalledStays DEF Called
  <2> QED  BY <1>0, <2>1, <2>2, <2>3 DEF CallFollows
<1>8. ASSUME NEW p \in Policies, ModifyParent(p)
      PROVE  CallFollows'
  <2>1. /\ UNCHANGED <<main, calls>>
        /\ \A d \in Collections : d \notin Inheriting => policy'[d] = policy[d]
    BY <1>8 DEF ModifyParent
  <2> QED  BY <1>0, <2>1 DEF CallFollows, Called
<1>9. ASSUME NEW c \in Collections, Remove(c)
      PROVE  CallFollows'
  <2>1. UNCHANGED <<main, calls>> /\ policy' = policy
    BY <1>9 DEF Remove, Outcome
  <2> QED  BY <2>1 DEF CallFollows, Called
<1> QED
  BY <1>1, <1>2, <1>3, <1>4, <1>5, <1>6, <1>7, <1>8, <1>9 DEF Next, MainThread, Connections

\* What goes with the key of a collection is its entry alone, unless another had
\* that key.
LEMMA RemovedAlone ==
  ASSUME NEW S, Proper(S), NEW c, ~(Cardinality(RemovedWith(S, c)) > 1)
  PROVE  \A e \in S : e.id # c => e \in S \ RemovedWith(S, c)
<1> DEFINE R == RemovedWith(S, c)
<1> SUFFICES ASSUME NEW e \in R, e.id # c PROVE FALSE
  BY DEF RemovedWith
<1>1. PICK x \in S : x.id = c /\ x.key = e.key
  BY DEF RemovedWith
<1>2. x \in R /\ x # e
  BY <1>1 DEF RemovedWith
<1>3. R \in SUBSET S /\ {e, x} \in SUBSET R
  BY <1>2 DEF RemovedWith
<1> HIDE DEF R
<1>4. IsFiniteSet(R)
  BY <1>3, FS_Subset DEF Proper
<1>5. Cardinality({e, x}) = 2
  <2>1. IsFiniteSet({e}) /\ Cardinality({e}) = 1 /\ x \notin {e}
    BY <1>2, FS_Singleton
  <2>2. Cardinality({e} \cup {x}) = Cardinality({e}) + 1
    BY <2>1, FS_AddElement
  <2>3. {e} \cup {x} = {e, x}
    OBVIOUS
  <2> QED  BY <2>1, <2>2, <2>3
<1>6. Cardinality({e, x}) <= Cardinality(R)
  BY <1>3, <1>4, FS_Subset
<1>7. Cardinality(R) \in Nat
  BY <1>4, FS_CardinalityType
<1> QED  BY <1>5, <1>6, <1>7 DEF R

LEMMA ForgottenSafe ==
  ASSUME Typed, OnTime, CallFollows, NothingForgotten, Next
  PROVE  NothingForgotten'
<1> SUFFICES ASSUME mishaps' \cap {"swept", "rolledBack", "parent"} = {},
                    NEW d \in exists', policy'[d] # Off
             PROVE  Remembered(d)'
  BY DEF NothingForgotten
<1>0. /\ mishaps \subseteq mishaps'
      /\ d \in exists /\ policy[d] # Off => Remembered(d)
  BY MishapsStay DEF NothingForgotten
<1>1. CASE InitScheduler
  <2>1. d \in exists /\ main'.left = Copies(exists)
    BY <1>1 DEF InitScheduler
  <2>2. [id |-> d, timeout |-> policy[d]] \in main'.left
    BY <2>1 DEF Copies
  <2> QED  BY <2>2 DEF Remembered
<1>2. CASE InitOne \/ PassOne
  <2>1. PICK x \in main.left :
          /\ mSchedule' = Rescheduled(mSchedule, x.id, Timeout(x))
          /\ main' = [main EXCEPT !.left = @ \ {x}]
    BY <1>2 DEF InitOne, PassOne, ScheduleCollection
  <2>2. UNCHANGED <<exists, policy, calls>> /\ main.at # "starting"
    BY <1>2 DEF InitOne, PassOne
  <2>3. x.id \in Collections /\ Timeout(x) \in Policies /\ Proper(mSchedule)
    BY TypedIs
  <2>4. Remembered(d)
    BY <1>0, <2>2
  <2>5. CASE d # x.id
    <3>1. \A e \in mSchedule : e.id = d => e \in mSchedule'
      BY <2>1, <2>3, <2>5, RescheduledIs
    <3>2. \A y \in main.left : y.id = d => y \in main'.left
      BY <2>1, <2>5 DEF Typed, TypeOK
    <3> QED  BY <2>2, <2>4, <3>1, <3>2 DEF Remembered, Called
  <2>6. CASE d = x.id /\ Timeout(x) # Off
    <3>1. \E e \in mSchedule' : e.id = d
      BY <2>1, <2>3, <2>6, RescheduledIs
    <3> QED  BY <3>1 DEF Remembered
  <2>7. CASE d = x.id /\ Timeout(x) = Off
    <3>1. Called(d)
      BY <2>2, <2>7 DEF Timeout, CallFollows
    <3> QED  BY <2>2, <3>1 DEF Remembered, Called
  <2> QED  BY <2>5, <2>6, <2>7
<1>3. CASE SchedulerTimeout
  <2>1. PICK now \in SUBSET mSchedule :
          /\ mSchedule' = mSchedule \ now
          /\ main'.left = {[id |-> e.id, timeout |-> e.timeout] : e \in now}
    <3> DEFINE now == IF mSchedule = {} THEN {}
                      ELSE {e \in mSchedule : e.key = Min(Keys(mSchedule))}
    <3>1. now \in SUBSET mSchedule
      OBVIOUS
    <3>2. /\ mSchedule' = mSchedule \ now
          /\ main'.left = {[id |-> e.id, timeout |-> e.timeout] : e \in now}
      BY <1>3 DEF SchedulerTimeout
    <3> QED  BY <3>1, <3>2
  <2>2. UNCHANGED <<exists, policy, calls>> /\ main.at = "idle" /\ main.left = {}
    BY <1>3 DEF SchedulerTimeout, Typed, TypeOK
  <2>3. Called(d) \/ \E e \in mSchedule : e.id = d
    BY <1>0, <2>2 DEF Remembered
  <2>4. ASSUME NEW e \in now PROVE \E y \in main'.left : y.id = e.id
    <3>1. [id |-> e.id, timeout |-> e.timeout] \in main'.left
      BY <2>1
    <3> QED  BY <3>1
  <2> QED  BY <2>1, <2>2, <2>3, <2>4 DEF Remembered, Called
<1>4. CASE PassDone \/ \E h \in Handlers : Inhibit(h) \/ Uninhibit(h)
  <2>1. /\ UNCHANGED <<exists, policy, mSchedule, calls>> /\ main'.left = main.left
        /\ main.at = "starting" => main'.at = "starting"
    BY <1>4 DEF PassDone, Inhibit, Uninhibit, Typed, TypeOK
  <2> QED  BY <1>0, <2>1 DEF Remembered, Called
<1>5. CASE Invoked
  <2>0. PICK x : x = calls[1]
    OBVIOUS
  <2>1. /\ ScheduleCollection(Head(calls).id, Timeout(Head(calls)), "main")
        /\ calls' = Tail(calls) /\ calls # <<>>
        /\ UNCHANGED <<exists, policy, main>>
    BY <1>5 DEF Invoked
  <2>2. /\ Head(calls) = x /\ Len(calls) \in Nat \ {0} /\ DOMAIN calls = 1..Len(calls)
        /\ \A i \in 2..Len(calls) : i - 1 \in DOMAIN calls' /\ calls'[i - 1] = calls[i]
    BY <2>0, <2>1 DEF Typed, TypeOK
  <2>3. /\ x.id \in Collections /\ x.timeout \in Timeouts
        /\ Timeout(x) \in Policies /\ Proper(mSchedule)
    BY <2>0, <2>2, TypedIs
  <2>4. mSchedule' = Rescheduled(mSchedule, x.id, Timeout(x))
    BY <2>1, <2>2 DEF ScheduleCollection
  <2>5. CASE d = x.id
    <3>1. Timeout(x) # Off
      BY <2>1, <2>3, <2>5, CollectionSchedulerAssumption DEF Timeout
    <3>2. \E e \in mSchedule' : e.id = d
      BY <2>3, <2>4, <2>5, <3>1, RescheduledIs
    <3> QED  BY <3>2 DEF Remembered
  <2>6. CASE d # x.id
    <3>1. \A e \in mSchedule : e.id = d => e \in mSchedule'
      BY <2>3, <2>4, <2>6, RescheduledIs
    <3>2. Called(d) => Called(d)'
      <4> SUFFICES ASSUME Called(d) PROVE Called(d)'
        OBVIOUS
      <4>1. PICK i \in DOMAIN calls : calls[i].id = d
        BY DEF Called
      <4>2. i \in 2..Len(calls)
        BY <2>0, <2>2, <2>6, <4>1
      <4> QED  BY <2>2, <4>1, <4>2 DEF Called
    <3> QED  BY <1>0, <2>1, <3>1, <3>2 DEF Remembered
  <2> QED  BY <2>5, <2>6
<1>6. CASE Tick
  <2>1. \A f \in mSchedule : \E e \in mSchedule' : f.id = e.id
    BY <1>6, TickIs
  <2>2. UNCHANGED <<exists, policy, main, calls>>
    BY <1>6 DEF Tick
  <2> QED  BY <1>0, <2>1, <2>2 DEF Remembered, Called
<1>7. ASSUME NEW c \in Collections, NEW p \in Policies, Add(c, p) \/ Modify(c, p)
      PROVE  Remembered(d)'
  <2>1. /\ CollectionAdded(c, p) /\ UNCHANGED <<mSchedule, main>>
        /\ exists' = exists \cup {c} /\ policy' = [policy EXCEPT ![c] = p]
    BY <1>7 DEF Add, Modify, Outcome
  <2>2. CASE d = c
    <3>1. p # Off
      BY <2>1, <2>2 DEF Typed, TypeOK
    <3> QED  BY <2>1, <2>2, <3>1, CalledStays DEF Remembered
  <2>3. CASE d # c
    <3>1. Remembered(d)
      BY <1>0, <2>1, <2>3 DEF Typed, TypeOK
    <3> QED  BY <2>1, <3>1, CalledStays DEF Remembered
  <2> QED  BY <2>2, <2>3
<1>8. ASSUME NEW c \in Collections, NEW p \in Policies, Move(c, p)
      PROVE  Remembered(d)'
  <2>1. /\ exists' = exists /\ policy' = [policy EXCEPT ![c] = p] /\ UNCHANGED main
        /\ p = Off => Removal(c) \subseteq mishaps'
    BY <1>8 DEF Move, Outcome
  <2>2. d = c => p # Off
    BY <2>1 DEF Typed, TypeOK
  <2>3. d # c => Remembered(d)
    BY <1>0, <2>1 DEF Typed, TypeOK
  <2>4. CASE CollectionAdded(c, p) /\ UNCHANGED <<mSchedule, timer>>
    BY <2>1, <2>2, <2>3, <2>4, CalledStays DEF Remembered
  <2>5. CASE (\E e \in mSchedule : e.id = c) /\ UNCHANGED <<mSchedule, timer, calls>>
    BY <2>1, <2>3, <2>5 DEF Remembered, Called
  <2>6. CASE ScheduleCollection(c, p, "connection") /\ UNCHANGED calls
    <3>1. /\ \A e \in mSchedule : e.id # c => e \in mSchedule'
          /\ p # Off => \E e \in mSchedule' : e.id = c
      BY <2>6, ScheduleCollectionIs, TypedIs, RescheduledIs
    <3> QED  BY <2>1, <2>2, <2>3, <2>6, <3>1 DEF Remembered, Called
  <2>7. CASE CollectionRemoved(c) /\ p = Off /\ UNCHANGED calls
    <3>1. ~(Cardinality(RemovedWith(mSchedule, c)) > 1)
      BY <2>1, <2>7 DEF Removal
    <3>2. \A e \in mSchedule : e.id # c => e \in mSchedule'
      BY <2>7, <3>1, TypedIs, RemovedAlone, CollectionRemovedIs
    <3> QED  BY <2>1, <2>2, <2>3, <2>7, <3>2 DEF Remembered, Called
  <2> QED
    BY <1>8, <2>4, <2>5, <2>6, <2>7 DEF Move, Policies, shouldScheduleCollection
<1>9. ASSUME NEW p \in Policies, ModifyParent(p)
      PROVE  Remembered(d)'
  BY <1>9 DEF ModifyParent
<1>10. ASSUME NEW c \in Collections, Remove(c)
       PROVE  Remembered(d)'
  <2>1. /\ CollectionRemoved(c) /\ exists' = exists \ {c} /\ policy' = policy
        /\ Removal(c) \subseteq mishaps' /\ UNCHANGED <<main, calls>>
    BY <1>10 DEF Remove, Outcome
  <2>2. ~(Cardinality(RemovedWith(mSchedule, c)) > 1)
    BY <2>1 DEF Removal
  <2>3. \A e \in mSchedule : e.id # c => e \in mSchedule'
    BY <2>1, <2>2, TypedIs, RemovedAlone, CollectionRemovedIs
  <2> QED  BY <1>0, <2>1, <2>3 DEF Remembered, Called
<1> QED
  BY <1>1, <1>2, <1>3, <1>4, <1>5, <1>6, <1>7, <1>8, <1>9, <1>10
  DEF Next, MainThread, Connections

-----------------------------------------------------------------------------
(* The theorems *)

LEMMA InitInv == Init => SchedulerInv
<1> SUFFICES ASSUME Init PROVE SchedulerInv
  OBVIOUS
<1>1. TypeOK /\ Unique(mSchedule)
  <2>1. calls = <<>> /\ mSchedule = {} /\ changes = 0 /\ mishaps = {}
    BY DEF Init
  <2>2. /\ calls \in Seq([id : Collections, timeout : Timeouts])
        /\ changes \in 0..MaxChanges
        /\ mSchedule \subseteq [id : Collections, timeout : Timeouts, key : Int]
        /\ IsFiniteSet(mSchedule)
    BY <2>1, CollectionSchedulerAssumption, FS_EmptySet
  <2> QED  BY <2>1, <2>2 DEF Init, TypeOK, Unique, Stopped
<1>2. Current
  BY DEF Init, Current, IdsExist, EntriesCurrent, CopiesCurrent, CallsCurrent
<1>3. CallFollows /\ NothingForgotten
  BY DEF Init, CallFollows, NothingForgotten, Remembered
<1>4. TimerRight /\ HeldOff
  BY DEF Init, Stopped, TimerRight, OnTime, HeldOff, HeedsInhibitors
<1> QED  BY <1>1, <1>2, <1>3, <1>4 DEF SchedulerInv

LEMMA StepInv == SchedulerInv /\ [Next]_vars => SchedulerInv'
<1> SUFFICES ASSUME SchedulerInv, [Next]_vars PROVE SchedulerInv'
  OBVIOUS
<1>1. CASE Next
  <2>1. Typed /\ OnTime
    BY DEF SchedulerInv, Typed, TimerRight
  <2>2. Typed' /\ TimerRight' /\ HeldOff'
    BY <1>1, <2>1, TimerSafe DEF SchedulerInv
  <2>3. Current' /\ CallFollows' /\ NothingForgotten'
    BY <1>1, <2>1, CurrentSafe, CallFollowsSafe, ForgottenSafe DEF SchedulerInv
  <2> QED  BY <2>2, <2>3 DEF SchedulerInv, Typed
<1>2. CASE UNCHANGED vars
  BY <1>2 DEF vars, SchedulerInv, TypeOK, Unique, Current, Undisturbed, IdsExist,
              EntriesCurrent, CopiesCurrent, CallsCurrent, Told, CallFollows, Called,
              NothingForgotten, Remembered, TimerRight, OnTime, HeldOff, HeedsInhibitors
<1> QED  BY <1>1, <1>2

LEMMA InvHolds == Spec => []SchedulerInv
<1> QED  BY InitInv, StepInv, PTL DEF Spec

\* Every variable of the scheduler keeps its type, whatever connections do.
THEOREM SchedulerTypes == Spec => []TypeOK
<1>1. SchedulerInv => TypeOK
  BY DEF SchedulerInv
<1> QED  BY <1>1, InvHolds, PTL

\* The schedule holds a collection once, only while it is in the database, and
\* with the policy in force there or about to be told to the main thread, but for
\* the mishaps named.
THEOREM NeverOutdated == Spec => []ScheduleIsCurrent
<1>1. SchedulerInv => ScheduleIsCurrent
  <2>1. \A c : Told(c) => \E x \in Range(calls) : x.id = c /\ x.timeout = policy[c]
    BY DEF Told, Range
  <2> QED
    BY <2>1 DEF SchedulerInv, Unique, Current, Undisturbed, IdsExist, EntriesCurrent,
                ScheduleIsCurrent
<1> QED  BY <1>1, InvHolds, PTL

\* A collection that is to be cleaned is scheduled, or about to be, but for the
\* mishaps named.
THEOREM NeverForgets == Spec => []NoCollectionForgotten
<1>1. SchedulerInv => NoCollectionForgotten
  <2> SUFFICES ASSUME SchedulerInv, mishaps \cap {"swept", "rolledBack", "parent"} = {},
                      NEW c \in exists, shouldScheduleCollection(policy[c])
               PROVE  main.at = "starting" \/ HasCopy(c) \/ \E e \in mSchedule : e.id = c
    BY DEF NoCollectionForgotten
  <2>1. TypeOK /\ c \in Collections
    BY DEF SchedulerInv, TypeOK
  <2>2. Remembered(c)
    BY <2>1, OffIs DEF SchedulerInv, NothingForgotten
  <2> QED  BY <2>1, <2>2, OffIs DEF Remembered, HasCopy
<1> QED  BY <1>1, InvHolds, PTL

\* A running timer waits for the first check, unless the schedule changed under it.
THEOREM WakesInTime == Spec => []OnTime
<1>1. SchedulerInv => OnTime
  BY DEF SchedulerInv, TimerRight
<1> QED  BY <1>1, InvHolds, PTL

\* No pass runs against an inhibitor that the scheduler heard of, and none keeps
\* the timer paused when it is gone.
THEOREM InhibitorsHeeded == Spec => []HeedsInhibitors
<1>1. SchedulerInv => HeedsInhibitors
  BY DEF SchedulerInv, HeldOff
<1> QED  BY <1>1, InvHolds, PTL
=============================================================================
