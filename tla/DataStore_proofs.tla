-------------------------- MODULE DataStore_proofs --------------------------
(***************************************************************************)
(* Proofs about DataStore, for any number of statements and every bound.   *)
(*                                                                         *)
(* The levels are kept apart from the contents: first that every variable  *)
(* keeps its type and the levels are balanced, then what the recorded      *)
(* queries and the pending notifications have to do with each other and    *)
(* that what can still be rolled back is unheard of, and from that what is *)
(* told and what is stored.                                                *)
(***************************************************************************)
EXTENDS DataStore, TLAPS

\* TypeOK without the driver, which other provers are needed for.
Types ==
  /\ backend \in Backends
  /\ client \in 0..MaxClient /\ commands \in 0..MaxNested
  /\ level \in 0..(MaxClient + MaxNested)
  /\ tx \subseteq Execution /\ stored \subseteq Execution
  /\ queries \subseteq Query
  /\ pending \subseteq Change /\ told \subseteq Change
  /\ changes \in 0..MaxChanges /\ faults \in 0..MaxFaults
  /\ mishaps \subseteq Mishap

\* What the handler is at, and the changes that handlers gave up.
Unfinished == work.stage \in {"executing", "committed"}

WorkTyped ==
  /\ work \in Work /\ failed \subseteq Change
  /\ Unfinished => changes >= 1
  /\ work.stage = "committed" => work.step = Steps

\* The parts of Balanced.
Counted ==
  /\ level <= client + commands
  /\ "unbegun" \notin mishaps => level = client + commands

Begins == level > 0 => open \/ "unexecuted" \in mishaps

Ended ==
  level = 0 => ~open /\ tx = {} /\ pending = {} /\ (queries = {} \/ "kept" \in mishaps)

Safe == Types /\ Balanced

LEMMA BalancedParts == Balanced <=> Counted /\ Begins /\ Ended
BY DEF Balanced, Counted, Begins, Ended

LEMMA InitSafe == Init => Safe
BY DataStoreAssumption DEF DataStoreAssumption, Init, Safe, Types, Balanced

-----------------------------------------------------------------------------
(* Types and levels *)

\* Queries stay queries when one is bound or recorded.
LEMMA RecordedType ==
  ASSUME queries \subseteq Query, NEW e \in Execution
  PROVE  Recorded(e) \subseteq Query
<1>1. ASSUME NEW q \in queries
      PROVE  (IF q.shared /\ SameText(q.for, e) THEN [q EXCEPT !.bound = e] ELSE q) \in Query
  BY DEF Query
<1>2. Rebound(e) \subseteq Query
  BY <1>1 DEF Rebound
<1>3. Cached \in BOOLEAN
  BY DEF Cached
<1>4. [for |-> e, bound |-> e, shared |-> Cached] \in Query
  BY <1>3 DEF Query
<1> QED  BY <1>2, <1>4 DEF Recorded

\* Without a transaction nothing is recorded.
LEMMA NothingRecorded ==
  ASSUME ~inTransaction, queries = {}, NEW e
  PROVE  Recorded(e) = {}
BY DEF Recorded, Rebound

\* A level is left, one way or the other; of a command that cannot commit the changes in
\* "lost" are given up.
Ends(lost) == Commits \/ CommitFails(lost) \/ RollbackTransaction

\* How the level, the driver and what waits may change when a transaction ends.
LEMMA EndsSafe ==
  ASSUME Safe, NEW lost, Ends(lost),
         NEW a \in 0..MaxClient, NEW b \in 0..MaxNested,
         client' = a, commands' = b, a + b = client + commands - 1,
         client + commands > 0,
         UNCHANGED <<backend, changes>>
  PROVE  Safe'
<1> USE DataStoreAssumption DEF DataStoreAssumption
<1>1. client \in Nat /\ commands \in Nat /\ level \in Nat /\ a \in Nat /\ b \in Nat
  BY DEF Safe, Types
<1>2. level <= client + commands /\ ("unbegun" \notin mishaps => level = client + commands)
  BY DEF Safe, Balanced
<1>3. CASE level # 1 /\ Inner /\ UNCHANGED faults
  <2>1. Types'
    BY <1>1, <1>3 DEF Safe, Types, Inner, inTransaction
  <2>2. Balanced'
    <3>1. Counted'
      <4>1. mishaps' = mishaps /\ level' = IF level > 0 THEN level - 1 ELSE 0
        BY <1>3 DEF Inner, inTransaction
      <4> QED  BY <1>1, <1>2, <4>1 DEF Counted
    <3>2. Begins'
      BY <1>1, <1>3 DEF Safe, Types, Balanced, Inner, inTransaction, Begins
    <3>3. Ended'
      BY <1>1, <1>3 DEF Safe, Types, Balanced, Inner, inTransaction, Ended
    <3> QED  BY <3>1, <3>2, <3>3 DEF Balanced, Counted, Begins, Ended
  <2> QED  BY <2>1, <2>2 DEF Safe
<1>4. CASE level = 1 /\ Committed /\ UNCHANGED faults
  <2>1. Types'
    BY <1>1, <1>4 DEF Safe, Types, Committed
  <2>2. Balanced'
    <3>1. Counted'
      <4>1. mishaps' = mishaps /\ level' = 0 /\ level = 1
        BY <1>4 DEF Committed
      <4> QED  BY <1>1, <1>2, <4>1 DEF Counted
    <3>2. Begins'
      BY <1>1, <1>4 DEF Safe, Types, Balanced, Committed, Begins
    <3>3. Ended'
      BY <1>1, <1>4 DEF Safe, Types, Balanced, Committed, Ended
    <3> QED  BY <3>1, <3>2, <3>3 DEF Balanced, Counted, Begins, Ended
  <2> QED  BY <2>1, <2>2 DEF Safe
<1>5. ASSUME NEW fails \in BOOLEAN, level = 1, RolledBack(fails),
             UNCHANGED faults \/ Faults(1) \/ Faults(2)
      PROVE  Safe'
  <2>1. faults' \in 0..MaxFaults
    BY <1>5 DEF Safe, Types, Faults
  <2>2. mishaps' \subseteq Mishap
    BY <1>5 DEF Safe, Types, RolledBack, Mishap
  <2>3. queries' \subseteq Query
    BY <1>5 DEF Safe, Types, RolledBack
  <2>4. Types'
    BY <1>1, <1>5, <2>1, <2>2, <2>3 DEF Safe, Types, RolledBack
  <2>5. queries' = {} \/ "kept" \in mishaps'
    BY <1>5 DEF RolledBack
  <2>6. "unbegun" \notin mishaps' => "unbegun" \notin mishaps
    BY <1>5 DEF RolledBack
  <2>7. Balanced'
    <3>1. Counted'
      <4>1. level' = 0 /\ level = 1
        BY <1>5 DEF RolledBack
      <4> QED  BY <1>1, <1>2, <2>6, <4>1 DEF Counted
    <3>2. Begins'
      BY <1>1, <1>5, <2>5, <2>6 DEF Safe, Types, Balanced, RolledBack, Begins
    <3>3. Ended'
      BY <1>1, <1>5, <2>5, <2>6 DEF Safe, Types, Balanced, RolledBack, Ended
    <3> QED  BY <3>1, <3>2, <3>3 DEF Balanced, Counted, Begins, Ended
  <2> QED  BY <2>4, <2>7 DEF Safe
<1>6. Commits \/ CommitFails(lost) \/ RollbackTransaction
  BY DEF Ends
<1>7. CASE Commits
  <2>1. level # 1 \/ level = 1
    OBVIOUS
  <2> QED  BY <1>1, <1>3, <1>4, <1>7 DEF Commits
<1>8. CASE CommitFails(lost)
  <2>1. CASE ~inTransaction /\ Inner /\ UNCHANGED faults
    <3>1. level # 1
      BY <1>1, <2>1 DEF inTransaction
    <3> QED  BY <1>3, <2>1, <3>1
  <2>2. ASSUME NEW fails \in BOOLEAN, level = 1, RolledBack(fails), Faults(1) \/ Faults(2)
        PROVE  Safe'
    BY <1>5, <2>2
  <2> QED  BY <1>8, <2>1, <2>2 DEF CommitFails
<1> QED  BY <1>3, <1>5, <1>6, <1>7, <1>8 DEF RollbackTransaction

LEMMA BeginsSafe ==
  ASSUME Safe, ClientBegin \/ Transaction
  PROVE  Safe'
<1> USE DataStoreAssumption DEF DataStoreAssumption
<1>1. CASE ClientBegin
  <2>1. Types'
    BY <1>1 DEF Safe, Types, Balanced, ClientBegin, BeginTransaction
  <2>2. Balanced'
    <3>1. Counted'
      BY <1>1 DEF Safe, Types, Balanced, ClientBegin, BeginTransaction, Counted
    <3>2. Begins'
      BY <1>1 DEF Safe, Types, Balanced, ClientBegin, BeginTransaction, Begins
    <3>3. Ended'
      BY <1>1 DEF Safe, Types, Balanced, ClientBegin, BeginTransaction, Ended
    <3> QED  BY <3>1, <3>2, <3>3 DEF Balanced, Counted, Begins, Ended
  <2> QED  BY <2>1, <2>2 DEF Safe
<1>2. CASE Transaction
  <2>1. PICK begun \in BOOLEAN : Begun(begun) /\ BeginTransaction(begun) /\
          mishaps' = IF begun THEN mishaps ELSE mishaps \cup {"unbegun"}
    BY <1>2 DEF Transaction
  <2>2. mishaps' \subseteq Mishap /\ faults' \in 0..MaxFaults
    BY <2>1 DEF Safe, Types, Mishap, Begun, Faults
  <2>3. ~begun => level = 0 /\ "unbegun" \in mishaps'
    BY <2>1 DEF Begun, inTransaction, Safe, Types
  <2>4. mishaps \subseteq mishaps'
    BY <2>1
  <2>5. Types'
    BY <1>2, <2>1, <2>2 DEF Safe, Types, Balanced, Transaction, BeginTransaction
  <2>6. Balanced'
    BY <1>2, <2>1, <2>3, <2>4 DEF Safe, Types, Balanced, Transaction, BeginTransaction
  <2> QED  BY <2>5, <2>6 DEF Safe
<1> QED  BY <1>1, <1>2

\* The handler ends a transaction, or the client does, or the connection ends.
LEMMA OtherEndsSafe ==
  ASSUME Safe,
         ClientCommit \/ ClientRollback \/ Commit \/ CommitAppend \/ Destroyed \/ Close
  PROVE  Safe'
<1> USE DataStoreAssumption DEF DataStoreAssumption
<1>1. CASE ClientCommit \/ ClientRollback
  <2>1. client > 0
    BY <1>1 DEF Safe, Types, Balanced, ClientCommit, ClientRollback, inTransaction
  <2>2. Ends({})
    BY <1>1 DEF ClientCommit, ClientRollback, CommitTransaction, Ends
  <2> QED  BY <1>1, <2>1, <2>2, EndsSafe DEF Safe, Types, ClientCommit, ClientRollback
<1>2. CASE Commit \/ CommitAppend \/ Destroyed
  <2>1. Ends({}) \/ Ends({current})
    BY <1>2 DEF Commit, CommitAppend, Destroyed, CommitTransaction, Ends
  <2>2. commands > 0 /\ commands' = commands - 1 /\ UNCHANGED <<backend, client, changes>>
    BY <1>2 DEF Commit, CommitAppend, Destroyed
  <2> QED  BY <2>1, <2>2, EndsSafe DEF Safe, Types
<1>3. CASE Close
  BY <1>3 DEF Safe, Types, Balanced, Close
<1> QED  BY <1>1, <1>2, <1>3

\* A change that is started, told or given up does not touch the levels.
LEMMA ChangesSafe ==
  ASSUME Safe, WorkTyped, Notify \/ GiveUp \/ \E kind \in Kinds : Start(kind)
  PROVE  Safe'
<1> USE DataStoreAssumption DEF DataStoreAssumption
<1>1. ASSUME NEW c \in Change, Dispatched(c) \/ UNCHANGED <<pending, told>>
      PROVE  /\ pending' \subseteq Change /\ told' \subseteq Change
             /\ level = 0 => pending' = {}
  <2>1. level = 0 => pending = {} /\ ~inTransaction
    BY DEF Safe, Balanced, inTransaction
  <2> QED  BY <1>1, <2>1 DEF Dispatched, Safe, Types
<1>2. /\ pending' \subseteq Change /\ told' \subseteq Change
      /\ level = 0 => pending' = {}
  <2>1. CASE Notify
    <3>1. current \in Change
      BY <2>1 DEF Notify, WorkTyped, Unfinished, Work, current, Change, Safe, Types
    <3> QED  BY <1>1, <2>1, <3>1 DEF Notify
  <2>2. CASE GiveUp
    BY <2>2 DEF GiveUp, Safe, Types, Balanced
  <2>3. ASSUME NEW kind \in Kinds, Start(kind)
        PROVE  /\ pending' \subseteq Change /\ told' \subseteq Change
               /\ level = 0 => pending' = {}
    <3>1. [number |-> changes + 1, kind |-> kind] \in Change
      BY <2>3 DEF Start, Change, Safe, Types
    <3> QED  BY <1>1, <2>3, <3>1 DEF Start
  <2> QED  BY <2>1, <2>2, <2>3
<1>3. /\ UNCHANGED <<backend, client, commands, level, open, tx, stored, queries, faults,
                     mishaps>>
      /\ changes' \in 0..MaxChanges
  <2>1. CASE Notify \/ GiveUp
    BY <2>1 DEF Notify, GiveUp, Safe, Types
  <2>2. ASSUME NEW kind \in Kinds, Start(kind)
        PROVE  <1>3!1 /\ <1>3!2
    BY <2>2 DEF Start, Safe, Types
  <2> QED  BY <2>1, <2>2
<1> QED  BY <1>2, <1>3 DEF Safe, Types, Balanced

\* The next statement is one of a change.
LEMMA StatementTyped ==
  ASSUME Safe, WorkTyped, Executes
  PROVE  current \in Change /\ Statement \in Execution
<1>1. current \in Change
  BY DEF Executes, WorkTyped, Unfinished, Work, current, Change, Safe, Types
<1>2. work.step + 1 \in 1..Steps
  BY DataStoreAssumption DEF DataStoreAssumption, Executes, WorkTyped, Work
<1> QED  BY <1>1, <1>2 DEF Statement, Execution

\* Whatever becomes of a query, the levels stay as they are.
LEMMA ExecSafe ==
  ASSUME Safe, WorkTyped, Exec
  PROVE  Safe'
<1> USE DataStoreAssumption DEF DataStoreAssumption
<1> DEFINE Q == Recorded(Statement)
<1>1. Executes
  BY DEF Exec, Execute, Fail, RetryNothing, Retry, RetryIncomplete
<1>2. UNCHANGED <<backend, client, commands, level, changes>>
  BY <1>1 DEF Executes
<1>3. faults' \in 0..MaxFaults
  <2>1. faults' = faults \/ Faults(1) \/ Faults(2)
    BY DEF Exec, Execute, Fail, RetryNothing, Retry, RetryIncomplete
  <2> QED  BY <2>1 DEF Faults, Safe, Types
<1>4. queries' = Q
  BY DEF Exec, Execute, Fail, RetryNothing, Retry, RetryIncomplete
<1>5. Q \subseteq Query /\ Statement \in Execution
  BY <1>1, StatementTyped, RecordedType DEF Safe, Types
<1>6. UNCHANGED <<pending, told>>
  BY DEF Exec, Execute, Fail, RetryNothing, Retry, RetryIncomplete, Succeeds, Fails
<1>7. tx' \subseteq Execution /\ stored' \subseteq Execution
  <2>1. \A done : done \subseteq Q => {q.bound : q \in done} \subseteq Execution
    BY <1>5 DEF Query
  <2> HIDE DEF Q
  <2>2. CASE Execute \/ Fail \/ RetryNothing
    BY <1>5, <2>2 DEF Execute, Fail, RetryNothing, Safe, Types
  <2>3. CASE Retry
    <3>1. tx' = {q.bound : q \in Q} /\ \E committed \in BOOLEAN : Restarted(committed)
      BY <2>3 DEF Retry, Q
    <3> QED  BY <2>1, <3>1 DEF Restarted, Safe, Types
  <2>4. CASE RetryIncomplete
    <3>1. /\ \E committed \in BOOLEAN : Restarted(committed)
          /\ \E done : done \subseteq Q /\ tx' = {q.bound : q \in done}
      BY <2>4 DEF RetryIncomplete, Q
    <3> QED  BY <2>1, <3>1 DEF Restarted, Safe, Types
  <2> QED  BY <2>2, <2>3, <2>4 DEF Exec
<1> HIDE DEF Q
<1>8. /\ mishaps' \subseteq Mishap /\ mishaps \subseteq mishaps'
      /\ "unbegun" \in mishaps' => "unbegun" \in mishaps
  <2>1. \A R : \A t \in BOOLEAN :
           ReplayMishaps(R) \cup RestartMishaps(t) \subseteq {"rebound", "premature"}
    BY DEF ReplayMishaps, RestartMishaps
  <2>2. /\ mishaps \subseteq mishaps'
        /\ mishaps' \subseteq mishaps \cup {"unexecuted", "incomplete", "rebound", "premature"}
    <3>1. CASE Execute \/ Fail \/ RetryNothing
      BY <3>1 DEF Execute, Fail, RetryNothing
    <3>2. CASE Retry
      <4>1. PICK t \in BOOLEAN :
              mishaps' = mishaps \cup RestartMishaps(t) \cup ReplayMishaps(Recorded(Statement))
        BY <3>2 DEF Retry
      <4> QED  BY <2>1, <4>1
    <3>3. CASE RetryIncomplete
      <4>1. PICK t, R : t \in BOOLEAN /\
              mishaps' = mishaps \cup {"incomplete"} \cup RestartMishaps(t) \cup ReplayMishaps(R)
        BY <3>3 DEF RetryIncomplete
      <4> QED  BY <2>1, <4>1
    <3> QED  BY <3>1, <3>2, <3>3 DEF Exec
  <2> QED  BY <2>2 DEF Safe, Types, Mishap
<1>9. Types'
  BY <1>2, <1>3, <1>4, <1>5, <1>6, <1>7, <1>8 DEF Safe, Types
<1>10. level > 0 => open' \/ "unexecuted" \in mishaps'
  <2>1. level > 0 => open \/ "unexecuted" \in mishaps
    BY DEF Safe, Balanced
  <2>2. \/ UNCHANGED open \/ "unexecuted" \in mishaps'
        \/ open' = TRUE
    BY DEF Exec, Execute, Fail, RetryNothing, Retry, RetryIncomplete, Restarted
  <2> QED  BY <1>8, <2>1, <2>2
<1>11. level = 0 => Execute \/ Fail \/ RetryNothing
  BY DEF Exec, Retry, RetryIncomplete, inTransaction
<1>12. level = 0 => ~open /\ tx = {} /\ pending = {} /\ (queries = {} \/ "kept" \in mishaps)
  BY DEF Safe, Balanced
<1>13. level = 0 => ~open' /\ tx' = {}
  BY <1>11, <1>12 DEF Execute, Fail, RetryNothing
<1>14. level = 0 /\ queries = {} => queries' = {}
  <2>1. level = 0 => ~inTransaction
    BY DEF inTransaction
  <2> QED  BY <1>4, <2>1, NothingRecorded DEF Q
<1>15. Balanced'
  <2>1. Counted /\ Begins /\ Ended
    BY BalancedParts DEF Safe
  <2>2. Counted'
    BY <1>2, <1>8, <2>1 DEF Counted
  <2>3. Begins'
    BY <1>2, <1>10 DEF Begins
  <2>4. Ended'
    BY <1>2, <1>6, <1>8, <1>12, <1>13, <1>14 DEF Ended
  <2> QED  BY <2>2, <2>3, <2>4 DEF Balanced, Counted, Begins, Ended
<1> QED  BY <1>9, <1>15 DEF Safe

LEMMA NextSafe ==
  ASSUME Safe, WorkTyped, [Next]_vars
  PROVE  Safe'
<1>1. CASE ClientTransaction \/ Handler
  BY <1>1, BeginsSafe, OtherEndsSafe, ChangesSafe DEF ClientTransaction, Handler
<1>2. CASE Cleanup
  <2>1. queries' \subseteq Query
    BY <1>2 DEF Cleanup, Safe, Types, Query
  <2>2. queries = {} => queries' = {}
    BY <1>2 DEF Cleanup
  <2> QED  BY <1>2, <2>1, <2>2 DEF Cleanup, Safe, Types, Balanced
<1>3. CASE Exec
  BY <1>3, ExecSafe
<1>4. CASE UNCHANGED vars
  BY <1>4 DEF vars, Safe, Types, Balanced
<1> QED  BY <1>1, <1>2, <1>3, <1>4 DEF Next

-----------------------------------------------------------------------------
(* What the handler is at *)

LEMMA InitWorkTyped == Init => WorkTyped
BY DataStoreAssumption
   DEF DataStoreAssumption, Init, WorkTyped, Unfinished, Idle, NotWorking, Work, Stages, Kinds

\* A handler that returns is at nothing any more.
LEMMA LeavesTyped ==
  ASSUME Safe, NEW left, Leaves(left), failed' \subseteq Change
  PROVE  WorkTyped' /\ ~Unfinished'
<1>1. work' = NotWorking("failing") \/ work' = NotWorking("idle")
  BY DEF Leaves, Idle
<1>2. work' \in Work /\ work'.stage \notin {"executing", "committed"}
  BY <1>1, DataStoreAssumption DEF DataStoreAssumption, NotWorking, Work, Stages, Kinds
<1> QED  BY <1>2 DEF WorkTyped, Unfinished

\* The change that the handler is at is one.
LEMMA CurrentTyped ==
  ASSUME Safe, WorkTyped, Unfinished
  PROVE  current \in Change /\ current.number = changes
BY DEF WorkTyped, Unfinished, Work, current, Change, Safe, Types

LEMMA GivesUpTyped ==
  ASSUME Safe, WorkTyped, Unfinished, GivesUp
  PROVE  WorkTyped' /\ ~Unfinished' /\ failed' = failed \cup {current}
<1>1. failed' = failed \cup {current} /\ Leaves(commands)
  BY DEF GivesUp
<1>2. failed' \subseteq Change
  BY <1>1, CurrentTyped DEF WorkTyped
<1> QED  BY <1>1, <1>2, LeavesTyped

\* No change is given up that was not, but the one that is lost.
LEMMA EndsFailed ==
  ASSUME NEW lost, Ends(lost)
  PROVE  failed' \subseteq failed \cup lost
BY DEF Ends, Commits, CommitFails, RollbackTransaction, LeftAfterRollback

LEMMA SucceedsTyped ==
  ASSUME Safe, WorkTyped, Executes, Succeeds
  PROVE  WorkTyped'
<1> USE DataStoreAssumption DEF DataStoreAssumption
<1>1. CASE work' = Idle
  BY <1>1 DEF Succeeds, WorkTyped, Unfinished, Idle, NotWorking, Work, Stages, Kinds
<1>2. CASE work' = [work EXCEPT !.step = @ + 1]
  <2>1. work' \in Work /\ work'.stage = "executing"
    BY <1>2 DEF Executes, WorkTyped, Work
  <2> QED  BY <2>1 DEF Succeeds, Executes, WorkTyped, Unfinished
<1> QED  BY <1>1, <1>2 DEF Succeeds

LEMMA NextWorkTyped ==
  ASSUME Safe, WorkTyped, [Next]_vars
  PROVE  WorkTyped'
<1> USE DataStoreAssumption DEF DataStoreAssumption
<1>1. ASSUME UNCHANGED <<work, changes>>, failed' \subseteq failed
      PROVE  WorkTyped'
  BY <1>1 DEF WorkTyped, Unfinished
<1>2. CASE ClientTransaction \/ Transaction \/ Commit \/ Cleanup \/ UNCHANGED vars
  <2>1. CASE ClientCommit \/ ClientRollback \/ Commit
    <3>1. Ends({}) /\ UNCHANGED <<work, changes>>
      BY <2>1 DEF ClientCommit, ClientRollback, Commit, CommitTransaction, Ends
    <3> QED  BY <1>1, <3>1, EndsFailed
  <2>2. CASE Close
    BY <1>1, <2>2 DEF Close
  <2> QED  BY <1>1, <1>2, <2>1, <2>2
           DEF ClientTransaction, ClientBegin, Transaction, Cleanup, vars
<1>3. CASE CommitAppend
  <2>1. /\ work.stage = "executing" /\ work.step = Steps /\ UNCHANGED changes
        /\ Ends({current}) /\ Unfinished
    BY <1>3 DEF CommitAppend, Ends, Unfinished
  <2>2. failed' \subseteq Change
    BY <2>1, EndsFailed, CurrentTyped DEF WorkTyped
  <2>3. CASE Leaves(commands')
    BY <2>2, <2>3, LeavesTyped
  <2>4. CASE work' = [work EXCEPT !.stage = "committed"]
    <3>1. work' \in Work /\ work'.stage = "committed" /\ work'.step = Steps
      BY <2>1, <2>4 DEF WorkTyped, Work, Stages
    <3> QED  BY <2>1, <2>2, <3>1 DEF WorkTyped, Unfinished
  <2> QED  BY <1>3, <2>3, <2>4 DEF CommitAppend
<1>4. CASE Destroyed
  <2>1. Ends({}) /\ UNCHANGED changes
    BY <1>4 DEF Destroyed, Ends
  <2>2. failed' \subseteq failed
    BY <2>1, EndsFailed
  <2>3. CASE work' = work
    BY <1>1, <2>1, <2>2, <2>3
  <2>4. CASE work' = Idle
    BY <2>2, <2>4 DEF WorkTyped, Unfinished, Idle, NotWorking, Work, Stages, Kinds
  <2> QED  BY <1>4, <2>3, <2>4 DEF Destroyed
<1>5. ASSUME NEW kind \in Kinds, Start(kind)
      PROVE  WorkTyped'
  BY <1>5 DEF Start, WorkTyped, Unfinished, Work, Stages, Safe, Types
<1>6. CASE Notify
  BY <1>6 DEF Notify, WorkTyped, Unfinished, Idle, NotWorking, Work, Stages, Kinds
<1>7. CASE GiveUp
  BY <1>7, GivesUpTyped DEF GiveUp, Unfinished
<1>8. CASE Exec
  <2>1. Executes /\ (Succeeds \/ GivesUp)
    BY <1>8 DEF Exec, Execute, Fail, RetryNothing, Retry, RetryIncomplete, Fails
  <2> QED  BY <2>1, SucceedsTyped, GivesUpTyped DEF Executes, Unfinished
<1> QED  BY <1>2, <1>3, <1>4, <1>5, <1>6, <1>7, <1>8 DEF Next, Handler

-----------------------------------------------------------------------------
(* What is announced *)

\* A removal that the handler is at was told or is pending; nothing it is at was
\* told in a transaction; and what is pending, told or given up was begun.
Announced ==
  /\ Unfinished /\ work.kind = "remove" => current \in IF level > 0 THEN pending ELSE told
  /\ Unfinished /\ level > 0 => current \notin told
  /\ \A c \in pending \cup told \cup failed : c.number <= changes

LEMMA InitAnnounced == Init => Announced
BY DEF Init, Announced, Unfinished, Idle, NotWorking

LEMMA EndsAnnounced ==
  ASSUME Safe, WorkTyped, Announced, NEW lost, Ends(lost), lost = {} \/ lost = unfinished,
         changes' = changes, ~Unfinished'
  PROVE  Announced'
<1>1. pending' \subseteq pending /\ told' \subseteq told \cup pending
  BY DEF Ends, Commits, CommitFails, RollbackTransaction, Inner, Committed, RolledBack
<1>2. \A c \in lost : c.number <= changes
  BY DEF unfinished, current, Safe, Types
<1>3. failed' \subseteq failed \cup lost
  BY EndsFailed
<1> QED  BY <1>1, <1>2, <1>3 DEF Announced

LEMMA NextAnnounced ==
  ASSUME Safe, WorkTyped, Announced, [Next]_vars
  PROVE  Announced'
<1>1. changes \in Nat /\ level \in Nat
  BY DataStoreAssumption DEF DataStoreAssumption, Safe, Types
<1>2. CASE ClientCommit \/ ClientRollback \/ Commit \/ Destroyed
  <2>1. Ends({})
    BY <1>2 DEF ClientCommit, ClientRollback, Commit, Destroyed, CommitTransaction, Ends
  <2>2. ~Unfinished' /\ changes' = changes
    BY <1>2 DEF ClientCommit, ClientRollback, Commit, Destroyed, Unfinished, Idle, NotWorking
  <2> QED  BY <2>1, <2>2, EndsAnnounced
<1>3. CASE CommitAppend
  <2>1. Unfinished /\ work.kind = "append" /\ UNCHANGED changes /\ unfinished = {current}
    BY <1>3 DEF CommitAppend, Unfinished, unfinished
  <2>2. CASE CommitFails({current}) /\ Leaves(commands')
    <3>1. Ends({current})
      BY <2>2 DEF Ends
    <3>2. failed' \subseteq Change
      BY <2>1, <3>1, EndsFailed, CurrentTyped DEF WorkTyped
    <3>3. ~Unfinished'
      BY <2>2, <3>2, LeavesTyped
    <3> QED  BY <2>1, <3>1, <3>3, EndsAnnounced
  <2>3. CASE Commits /\ work' = [work EXCEPT !.stage = "committed"]
    <3>0. UNCHANGED failed
      BY <2>3 DEF Commits
    <3>1. current' = current /\ work'.kind = "append"
      BY <2>1, <2>3 DEF current, WorkTyped, Work
    <3>2. CASE Inner
      <4>1. UNCHANGED <<pending, told>> /\ (level' > 0 => level > 0)
        BY <1>1, <3>2 DEF Inner, inTransaction
      <4> QED  BY <2>1, <2>3, <3>0, <3>1, <4>1 DEF Announced
    <3>3. CASE Committed
      <4>1. level' = 0 /\ pending' = {} /\ told' = told \cup pending
        BY <3>3 DEF Committed
      <4> QED  BY <2>1, <2>3, <3>0, <3>1, <4>1 DEF Announced
    <3> QED  BY <2>3, <3>2, <3>3 DEF Commits
  <2> QED  BY <1>3, <2>2, <2>3 DEF CommitAppend
<1>4. ASSUME NEW kind \in Kinds, Start(kind)
      PROVE  Announced'
  <2> DEFINE c == [number |-> changes + 1, kind |-> kind]
  <2>1. work'.kind = kind /\ changes' = changes + 1 /\ current' = c
    BY <1>4 DEF Start, current
  <2>2. \A d \in pending \cup told \cup failed : d.number <= changes
    BY DEF Announced
  <2>3. \A d \in pending \cup told \cup failed : d.number \in Nat
    BY DEF Safe, Types, WorkTyped, Change
  <2>4. c.number = changes + 1
    OBVIOUS
  <2>5. c \notin told
    BY <1>1, <2>2, <2>3, <2>4
  <2>6. /\ UNCHANGED <<level, failed>>
        /\ \/ kind = "remove" /\ Dispatched(c)
           \/ kind # "remove" /\ UNCHANGED <<pending, told>>
    <3>1. CASE kind = "remove"
      BY <1>4, <3>1 DEF Start
    <3>2. CASE kind # "remove"
      BY <1>4, <3>2 DEF Start
    <3> QED  BY <3>1, <3>2
  <2> HIDE DEF c
  <2>7. /\ kind = "remove" => c \in IF level > 0 THEN pending' ELSE told'
        /\ level > 0 => c \notin told'
    BY <2>5, <2>6 DEF Dispatched, inTransaction
  <2>8. \A d \in pending' \cup told' \cup failed' : d.number <= changes + 1
    BY <1>1, <2>2, <2>3, <2>4, <2>6 DEF Dispatched
  <2> QED  BY <2>1, <2>6, <2>7, <2>8 DEF Announced
<1>5. CASE Notify
  <2>1. ~Unfinished' /\ UNCHANGED <<changes, failed>> /\ Dispatched(current)
    BY <1>5 DEF Notify, Unfinished, Idle, NotWorking
  <2>2. current.number = changes
    BY DEF current
  <2> QED  BY <1>1, <2>1, <2>2 DEF Announced, Dispatched
<1>6. ASSUME GivesUp, Unfinished, UNCHANGED <<pending, told, changes>>
      PROVE  Announced'
  <2>1. ~Unfinished' /\ failed' = failed \cup {current}
    BY <1>6, GivesUpTyped
  <2>2. current.number = changes
    BY DEF current
  <2> QED  BY <1>1, <1>6, <2>1, <2>2 DEF Announced
<1>7. CASE Exec
  <2>1. Executes /\ (Succeeds \/ Fails)
    BY <1>7 DEF Exec, Execute, Fail, RetryNothing, Retry, RetryIncomplete
  <2>2. Unfinished /\ UNCHANGED <<level, changes>>
    BY <2>1 DEF Executes, Unfinished
  <2>3. CASE Fails
    BY <1>6, <2>2, <2>3 DEF Fails
  <2>4. CASE Succeeds
    <3>1. ~Unfinished' \/ (work'.kind = work.kind /\ current' = current)
      BY <2>2, <2>4 DEF Succeeds, Unfinished, Idle, NotWorking, WorkTyped, Work, current
    <3> QED  BY <2>2, <2>4, <3>1 DEF Succeeds, Announced
  <2> QED  BY <2>1, <2>3, <2>4
<1>8. CASE ClientBegin \/ Transaction \/ Close \/ Cleanup
  <2>1. /\ ~Unfinished' /\ UNCHANGED <<changes, told>>
        /\ pending' \subseteq pending /\ failed' \subseteq failed
    <3>1. CASE Close
      BY <3>1 DEF Close, Unfinished, Idle, NotWorking
    <3>2. CASE ClientBegin \/ Transaction \/ Cleanup
      <4>1. work = Idle /\ UNCHANGED <<pending, told, changes, work, failed>>
        BY <3>2 DEF ClientBegin, Transaction, Cleanup
      <4> QED  BY <4>1 DEF Unfinished, Idle, NotWorking
    <3> QED  BY <1>8, <3>1, <3>2
  <2> QED  BY <2>1 DEF Announced
<1>9. CASE UNCHANGED vars
  BY <1>9 DEF vars, Announced, Unfinished, current
<1>10. CASE GiveUp
  BY <1>6, <1>10 DEF GiveUp, Unfinished
<1> QED  BY <1>2, <1>3, <1>4, <1>5, <1>7, <1>8, <1>9, <1>10 DEF Next, ClientTransaction, Handler

-----------------------------------------------------------------------------
(* What is written, recorded, pending and told *)

Free(S) == mishaps \cap S = {}

\* Changes that need not be whole or told: they were given up or are not done.
Excused == failed \cup unfinished

\* The statements of the change that the handler is at.
Done == IF Unfinished THEN {[change |-> current, step |-> i] : i \in 1..work.step} ELSE {}

Fors == {q.for : q \in queries}

\* What is pending will be stored with the transaction.
PendingWritten(X, D) ==
  Free({"unexecuted", "incomplete", "rebound"}) =>
    /\ \A c \in pending \ X : Executions(c) \subseteq tx
    /\ \A c \in told \ X : Executions(c) \subseteq stored
    /\ D \subseteq IF open THEN tx ELSE stored

\* What will be stored is pending.
WrittenPending(X, U) ==
  Free({"unexecuted", "premature", "kept"}) =>
    /\ \A e \in tx : e.change \in pending \cup X
    /\ \A e \in stored : e.change \in told \cup X
    /\ level > 0 => \A e \in stored : e.change \notin U

\* What is pending would be replayed.
PendingRecorded(X, D) ==
  Replays =>
    /\ \A c \in pending \ X : Executions(c) \subseteq Fors
    /\ level > 0 => D \subseteq Fors

\* What would be replayed is pending.
RecordedPending(X) == Free({"kept"}) => \A q \in queries : q.for.change \in pending \cup X

\* What would be written by a replay is a statement that was recorded.
BoundRecorded == Free({"kept"}) => \A q \in queries : q.bound \in Fors

NothingToReplay == ~Replays => queries = {}

\* The books of changes, of which X are excused, U is unfinished, and its statements D
\* are done.
Books(X, U, D) ==
  /\ PendingWritten(X, D) /\ WrittenPending(X, U)
  /\ PendingRecorded(X, D) /\ RecordedPending(X)
  /\ BoundRecorded /\ NothingToReplay

Contents == Books(Excused, unfinished, Done)

\* Changes that a rollback or a replay can still reach.
Traced == Undone \cup {q.for.change : q \in queries}

\* What is traced was begun, and what the handler is at is not given up.
Numbered ==
  /\ \A c \in Traced : c.number <= changes
  /\ \A q \in queries : q.bound.change.number <= changes
  /\ Unfinished => current \notin failed

\* A change that nobody was told of and nothing was stored of.
Unheard(c) ==
  /\ Free({"rebound"}) => c \notin told
  /\ Free({"unexecuted", "premature", "kept"}) => \A e \in stored : e.change # c

\* What is excused and can still be rolled back is unheard of: once it is rolled back it
\* needs no excuse.
GivenUp == \A c \in Excused \cap Traced : Unheard(c)

USE DEF Free

LEMMA InitContents == Init => Contents
BY DEF Init, Contents, Books, PendingWritten, WrittenPending, PendingRecorded, RecordedPending,
       BoundRecorded, NothingToReplay, Done, unfinished, Unfinished, Idle, NotWorking

\* At nothing no change is unfinished.
LEMMA NothingUnfinished ==
  ~Unfinished => unfinished = {} /\ Done = {} /\ Excused = failed
BY DEF Unfinished, unfinished, Done, Excused

LEMMA NothingUnfinishedNext ==
  ~Unfinished' => unfinished' = {} /\ Done' = {} /\ Excused' = failed'
BY DEF Unfinished, unfinished, Done, Excused

\* The books before and after a step, with what is excused, unfinished and done named.
LEMMA ContentsNow ==
  ASSUME Contents, NEW X, NEW U, NEW D, X = Excused, U = unfinished, D = Done
  PROVE  Books(X, U, D)
BY DEF Contents

LEMMA ContentsNext ==
  ASSUME NEW X, NEW U, NEW D, Books(X, U, D)', Excused' = X, unfinished' = U, Done' = D
  PROVE  Contents'
BY DEF Contents, Books, PendingWritten, WrittenPending, PendingRecorded, RecordedPending

\* A change that is not gone on with is excused, but no longer unfinished.
LEMMA DropBooks ==
  ASSUME NEW X, NEW U, NEW D, Books(X, U, D)'
  PROVE  Books(X, {}, {})'
BY DEF Books, PendingWritten, WrittenPending, PendingRecorded

\* A change that is done and told is no longer excused.
LEMMA FinishBooks ==
  ASSUME NEW X, NEW c, Books(X \cup {c}, {c}, Executions(c))', Safe',
         c \in IF level' > 0 THEN pending' ELSE told',
         level' > 0 => c \notin told'
  PROVE  Books(X, {}, {})'
<1>1. level' = 0 \/ level' > 0
  BY DataStoreAssumption DEF DataStoreAssumption, Safe, Types
<1>2. level' = 0 => /\ ~open' /\ tx' = {} /\ pending' = {}
                    /\ queries' = {} \/ "kept" \in mishaps'
  BY DEF Safe, Balanced
<1>3. level' > 0 => open' \/ "unexecuted" \in mishaps'
  BY DEF Safe, Balanced
<1>4. PendingWritten(X, {})'
  BY <1>1, <1>2, <1>3 DEF Books, PendingWritten
<1>5. WrittenPending(X, {})'
  BY <1>1, <1>2 DEF Books, WrittenPending
<1>6. PendingRecorded(X, {})'
  BY <1>1, <1>2 DEF Books, PendingRecorded
<1>7. RecordedPending(X)'
  BY <1>1, <1>2 DEF Books, RecordedPending
<1> QED  BY <1>4, <1>5, <1>6, <1>7 DEF Books

\* Nothing happens to what is written, told or recorded.
LEMMA SameBooks ==
  ASSUME NEW X, NEW U, NEW D, Books(X, U, D),
         UNCHANGED <<backend, tx, stored, queries, pending, told>>,
         mishaps \subseteq mishaps',
         (U = {} /\ D = {}) \/ (open' = open /\ (level' > 0 => level > 0))
  PROVE  Books(X, U, D)'
<1>1. PendingWritten(X, D)' /\ WrittenPending(X, U)'
  BY DEF Books, PendingWritten, WrittenPending
<1>2. PendingRecorded(X, D)' /\ NothingToReplay'
  BY DEF Books, PendingRecorded, NothingToReplay, Replays, Fors
<1>3. RecordedPending(X)' /\ BoundRecorded'
  BY DEF Books, RecordedPending, BoundRecorded, Fors
<1> QED  BY <1>1, <1>2, <1>3 DEF Books

LEMMA SameBooksIdle ==
  ASSUME NEW X, Books(X, {}, {}),
         UNCHANGED <<backend, tx, stored, queries, pending, told>>,
         mishaps \subseteq mishaps'
  PROVE  Books(X, {}, {})'
<1>1. PendingWritten(X, {})' /\ WrittenPending(X, {})'
  BY DEF Books, PendingWritten, WrittenPending
<1>2. PendingRecorded(X, {})' /\ NothingToReplay'
  BY DEF Books, PendingRecorded, NothingToReplay, Replays, Fors
<1>3. RecordedPending(X)' /\ BoundRecorded'
  BY DEF Books, RecordedPending, BoundRecorded, Fors
<1> QED  BY <1>1, <1>2, <1>3 DEF Books

\* A transaction that ends leaves nothing, but for queries that are kept.
LEMMA NothingLeft ==
  ASSUME NEW X, NEW U, NEW D, level' = 0,
         tx' = {}, pending' = {}, queries' = {} \/ "kept" \in mishaps',
         NothingToReplay', PendingWritten(X, D)', WrittenPending(X, U)'
  PROVE  Books(X, U, D)'
BY DEF Books, PendingRecorded, RecordedPending, BoundRecorded

LEMMA CommittedBooks ==
  ASSUME NEW X, NEW U, NEW D, Books(X, U, D), Safe, level = 1, Committed, UNCHANGED backend
  PROVE  Books(X, U, D)'
<1>1. open \/ "unexecuted" \in mishaps
  BY DEF Safe, Balanced
<1>2. PendingWritten(X, D)'
  BY <1>1 DEF Committed, Books, PendingWritten
<1>3. WrittenPending(X, U)'
  BY DEF Committed, Books, WrittenPending
<1>4. NothingToReplay'
  BY DEF Committed, NothingToReplay
<1> QED  BY <1>2, <1>3, <1>4, NothingLeft DEF Committed

LEMMA RolledBackBooks ==
  ASSUME NEW X, NEW U, NEW D, Books(X, U, D), NEW fails \in BOOLEAN, RolledBack(fails),
         UNCHANGED backend
  PROVE  Books(X, {}, {})'
<1>1. mishaps \subseteq mishaps' /\ (queries' = {} \/ "kept" \in mishaps')
  BY DEF RolledBack
<1>2. level' = 0 /\ tx' = {} /\ pending' = {} /\ UNCHANGED <<stored, told>>
  BY DEF RolledBack
<1>3. queries' = queries \/ queries' = {}
  BY DEF RolledBack
<1>4. PendingWritten(X, {})' /\ WrittenPending(X, {})'
  BY <1>1, <1>2 DEF Books, PendingWritten, WrittenPending
<1>5. NothingToReplay'
  BY <1>3 DEF Books, NothingToReplay, Replays
<1> QED  BY <1>1, <1>2, <1>4, <1>5, NothingLeft

\* When nothing is left, changes that are unheard of need no excuse.
LEMMA ShrinkBooks ==
  ASSUME NEW X, NEW Y, Books(X, {}, {})', level' = 0,
         tx' = {}, pending' = {}, queries' = {} \/ "kept" \in mishaps',
         \A c \in X \ Y : Unheard(c)'
  PROVE  Books(Y, {}, {})'
<1>1. PendingWritten(Y, {})'
  BY DEF Books, PendingWritten, Unheard
<1>2. WrittenPending(Y, {})'
  BY DEF Books, WrittenPending, Unheard
<1>3. NothingToReplay'
  BY DEF Books
<1> QED  BY <1>1, <1>2, <1>3, NothingLeft

\* What is no longer excused of what was rolled back is unheard of.
LEMMA UndoneUnheard ==
  ASSUME GivenUp, NEW X, NEW Y, X \subseteq Excused, X \ Y \subseteq Undone,
         UNCHANGED <<told, stored>>, mishaps \subseteq mishaps'
  PROVE  \A c \in X \ Y : Unheard(c)'
<1>1. \A c \in X \ Y : Unheard(c)
  BY DEF GivenUp, Traced
<1> QED  BY <1>1 DEF Unheard

LEMMA CommitsBooks ==
  ASSUME NEW X, NEW U, NEW D, Books(X, U, D), Safe, Commits, UNCHANGED backend
  PROVE  Books(X, U, D)'
<1>1. CASE level > 1 /\ Inner
  <2>1. UNCHANGED <<tx, stored, queries, pending, told>> /\ mishaps' = mishaps
        /\ open' = open /\ level > 0
    BY <1>1, DataStoreAssumption DEF DataStoreAssumption, Inner, Safe, Types
  <2> QED  BY <2>1, SameBooks
<1>2. CASE level = 1 /\ Committed
  BY <1>2, CommittedBooks
<1> QED  BY <1>1, <1>2 DEF Commits

\* A transaction that is not committed takes what was given up in it along.
LEMMA FailsBooks ==
  ASSUME Contents, GivenUp, Safe, NEW lost, lost = unfinished,
         CommitFails(lost) \/ (lost = {} /\ RollbackTransaction),
         UNCHANGED backend, NEW Y, Y = failed'
  PROVE  Books(Y, {}, {})'
<1>1. PICK X, U, D : X = Excused /\ U = unfinished /\ D = Done
  OBVIOUS
<1>2. Books(X, U, D) /\ X = failed \cup lost /\ level \in Nat
  BY <1>1, ContentsNow, DataStoreAssumption DEF DataStoreAssumption, Excused, Safe, Types
<1>3. Y = LeftAfterRollback(X)
  BY <1>2 DEF CommitFails, RollbackTransaction
<1>4. CASE level # 1 /\ Inner
  <2>1. UNCHANGED <<tx, stored, queries, pending, told>> /\ mishaps' = mishaps
        /\ open' = open /\ (level' > 0 => level > 0)
    BY <1>2, <1>4 DEF Inner, inTransaction
  <2>2. Books(X, U, D)'
    BY <1>2, <2>1, SameBooks
  <2>3. Y = X
    BY <1>3, <1>4 DEF LeftAfterRollback
  <2> QED  BY <2>2, <2>3, DropBooks
<1>5. ASSUME NEW fails \in BOOLEAN, level = 1, RolledBack(fails)
      PROVE  Books(Y, {}, {})'
  <2>1. Books(X, {}, {})'
    BY <1>2, <1>5, RolledBackBooks
  <2>2. X \ Y \subseteq Undone
    BY <1>3, <1>5 DEF LeftAfterRollback
  <2>3. UNCHANGED <<told, stored>> /\ mishaps \subseteq mishaps' /\ level' = 0
        /\ tx' = {} /\ pending' = {} /\ (queries' = {} \/ "kept" \in mishaps')
    BY <1>5 DEF RolledBack
  <2>4. \A c \in X \ Y : Unheard(c)'
    BY <1>1, <2>2, <2>3, UndoneUnheard
  <2> QED  BY <2>1, <2>3, <2>4, ShrinkBooks
<1>6. ~inTransaction => level # 1
  BY DEF inTransaction
<1> QED  BY <1>4, <1>5, <1>6 DEF CommitFails, RollbackTransaction

LEMMA CleanupBooks ==
  ASSUME NEW X, NEW U, NEW D, Books(X, U, D), queries \subseteq Query, Cleanup
  PROVE  Books(X, U, D)'
<1>1. \A q \in queries : \E r \in queries' : r.for = q.for /\ r.bound = q.bound
  <2> SUFFICES ASSUME NEW q \in queries
               PROVE  \E r \in queries' : r.for = q.for /\ r.bound = q.bound
    OBVIOUS
  <2>1. [q EXCEPT !.shared = FALSE] \in queries'
    BY DEF Cleanup
  <2> QED  BY <2>1 DEF Query
<1>2. \A r \in queries' : \E q \in queries : r.for = q.for /\ r.bound = q.bound
  BY DEF Cleanup, Query
<1>3. UNCHANGED <<backend, level, open, tx, stored, pending, told, mishaps>>
  BY DEF Cleanup
<1>4. Fors' = Fors
  BY <1>1, <1>2 DEF Fors
<1>5. PendingWritten(X, D)' /\ WrittenPending(X, U)'
  BY <1>3 DEF Books, PendingWritten, WrittenPending
<1>6. PendingRecorded(X, D)'
  BY <1>3, <1>4 DEF Books, PendingRecorded, Replays
<1>7. RecordedPending(X)'
  BY <1>2, <1>3 DEF Books, RecordedPending
<1>8. BoundRecorded'
  BY <1>2, <1>3, <1>4 DEF Books, BoundRecorded
<1>9. NothingToReplay'
  BY <1>2, <1>3 DEF Books, NothingToReplay, Replays
<1> QED  BY <1>5, <1>6, <1>7, <1>8, <1>9 DEF Books

LEMMA CloseBooks ==
  ASSUME Contents, GivenUp, ~Unfinished, Close, NEW Y, Y = failed'
  PROVE  Books(Y, {}, {})'
<1>1. PICK X : X = failed
  OBVIOUS
<1>2. Books(X, {}, {}) /\ X = Excused
  BY <1>1, NothingUnfinished, ContentsNow
<1>3. /\ UNCHANGED <<told, stored, mishaps>> /\ level' = 0
      /\ tx' = {} /\ pending' = {} /\ queries' = {}
      /\ X \ Y \subseteq Undone
  BY <1>1 DEF Close
<1>4. PendingWritten(X, {})' /\ WrittenPending(X, {})'
  BY <1>2, <1>3 DEF Books, PendingWritten, WrittenPending
<1>5. NothingToReplay'
  BY <1>3 DEF NothingToReplay
<1>6. Books(X, {}, {})'
  BY <1>3, <1>4, <1>5, NothingLeft
<1>7. \A c \in X \ Y : Unheard(c)'
  BY <1>2, <1>3, UndoneUnheard
<1> QED  BY <1>3, <1>6, <1>7, ShrinkBooks

-----------------------------------------------------------------------------
(* What a query makes of what is recorded *)

\* A query that was recorded stays.
LEMMA RecordedStays ==
  ASSUME queries \subseteq Query, NEW e \in Execution, NEW q \in queries
  PROVE  \E r \in Recorded(e) : r.for = q.for
<1> DEFINE new == IF q.shared /\ SameText(q.for, e) THEN [q EXCEPT !.bound = e] ELSE q
<1>1. new \in Rebound(e)
  BY DEF Rebound
<1>2. new.for = q.for
  BY DEF Query
<1> QED  BY <1>1, <1>2 DEF Recorded

\* In a transaction the new one comes to them.
LEMMA NewRecorded ==
  ASSUME NEW e \in Execution, inTransaction, Replays
  PROVE  \E r \in Recorded(e) : r.for = e
<1>1. [for |-> e, bound |-> e, shared |-> Cached] \in Recorded(e)
  BY DEF Recorded
<1> QED  BY <1>1

\* All that is recorded was recorded before, and may be bound anew, or is new.
LEMMA RecordedOrigin ==
  ASSUME queries \subseteq Query, NEW e \in Execution, NEW r \in Recorded(e)
  PROVE  \/ inTransaction /\ Replays /\ r.for = e /\ r.bound = e
         \/ \E q \in queries : r.for = q.for /\ (r.bound = q.bound \/ r.bound = e)
<1>1. CASE r \in Rebound(e)
  <2>1. PICK q \in queries : r = IF q.shared /\ SameText(q.for, e)
                                THEN [q EXCEPT !.bound = e] ELSE q
    BY <1>1 DEF Rebound
  <2>2. r.for = q.for /\ (r.bound = q.bound \/ r.bound = e)
    BY <2>1 DEF Query
  <2> QED  BY <2>2
<1>2. CASE r \notin Rebound(e)
  BY <1>2 DEF Recorded
<1> QED  BY <1>1, <1>2

\* The rules about what is recorded, when a statement of an excused change is.
LEMMA RecordsBooks ==
  ASSUME NEW X, NEW U, NEW D, Books(X, U, D), Safe, NEW e \in Execution, e.change \in X,
         queries' = Recorded(e), UNCHANGED <<backend, level, pending>>,
         mishaps \subseteq mishaps'
  PROVE  /\ PendingRecorded(X, D \cup {e})' /\ RecordedPending(X)'
         /\ BoundRecorded' /\ NothingToReplay'
<1>1. queries \subseteq Query /\ level \in Nat
  BY DataStoreAssumption DEF DataStoreAssumption, Safe, Types
<1>2. level = 0 => queries = {} \/ "kept" \in mishaps
  BY DEF Safe, Balanced
<1>3. Fors \subseteq Fors'
  BY <1>1, RecordedStays DEF Fors
<1>4. inTransaction /\ Replays => e \in Fors'
  BY NewRecorded DEF Fors
<1>5. PendingRecorded(X, D \cup {e})'
  BY <1>3, <1>4 DEF Books, PendingRecorded, Replays, inTransaction
<1>6. RecordedPending(X)'
  <2>1. ASSUME Free({"kept"})', NEW r \in queries'
        PROVE  r.for.change \in pending' \cup X
    <3>1. r.for = e \/ \E q \in queries : r.for = q.for
      <4>1. r \in Recorded(e)
        BY <2>1
      <4> QED  BY <1>1, <4>1, RecordedOrigin
    <3>2. \A q \in queries : q.for.change \in pending \cup X
      BY <2>1 DEF Books, RecordedPending
    <3> QED  BY <3>1, <3>2
  <2> QED  BY <2>1 DEF RecordedPending
<1>7. NothingToReplay'
  <2>1. ASSUME ~Replays, NEW r \in queries'
        PROVE  FALSE
    <3>1. r \in Recorded(e) /\ queries = {}
      BY <2>1 DEF Books, NothingToReplay
    <3> QED  BY <1>1, <2>1, <3>1, RecordedOrigin
  <2> QED  BY <2>1 DEF NothingToReplay, Replays
<1>8. BoundRecorded'
  <2>1. ASSUME Free({"kept"})', NEW r \in queries'
        PROVE  r.bound \in Fors'
    <3>1. r \in Recorded(e) /\ Free({"kept"})
      BY <2>1
    <3>2. CASE inTransaction /\ Replays /\ r.bound = e
      BY <1>4, <3>2
    <3>3. ASSUME NEW q \in queries, r.bound = q.bound \/ r.bound = e
          PROVE  r.bound \in Fors'
      <4>1. q.bound \in Fors /\ Replays
        BY <3>1, <3>3 DEF Books, BoundRecorded, NothingToReplay
      <4>2. inTransaction
        BY <1>1, <1>2, <3>1, <3>3 DEF inTransaction
      <4> QED  BY <1>3, <1>4, <3>3, <4>1, <4>2
    <3> QED  BY <1>1, <3>1, <3>2, <3>3, RecordedOrigin
  <2> QED  BY <2>1 DEF BoundRecorded
<1> QED  BY <1>5, <1>6, <1>7, <1>8

LEMMA ExecuteBooks ==
  ASSUME NEW X, NEW U, NEW D, Books(X, U, D), Safe, NEW e \in Execution,
         e = Statement, e.change \in X, Execute
  PROVE  Books(X, U, D \cup {e})'
<1>1. UNCHANGED <<backend, level, pending, told, open>> /\ mishaps' = mishaps
  BY DEF Execute, Executes, Succeeds
<1>2. /\ PendingRecorded(X, D \cup {e})' /\ RecordedPending(X)'
      /\ BoundRecorded' /\ NothingToReplay'
  BY <1>1, RecordsBooks DEF Execute
<1>3. "unexecuted" \in mishaps \/ (level > 0 => open)
  BY DEF Safe, Balanced
<1>4. \/ open /\ tx' = tx \cup {e} /\ stored' = stored
      \/ ~open /\ tx' = tx /\ stored' = stored \cup {e}
  BY DEF Execute
<1>5. PendingWritten(X, D \cup {e})'
  BY <1>1, <1>4 DEF Books, PendingWritten
<1>6. WrittenPending(X, U)'
  BY <1>1, <1>3, <1>4 DEF Books, WrittenPending
<1> QED  BY <1>2, <1>5, <1>6 DEF Books

LEMMA FailBooks ==
  ASSUME NEW X, NEW U, NEW D, Books(X, U, D), Safe, NEW e \in Execution,
         e = Statement, e.change \in X, Fail
  PROVE  Books(X, U, D)'
<1>1. UNCHANGED <<backend, level, pending, told, open, tx, stored>> /\ mishaps' = mishaps
  BY DEF Fail, Executes, Fails
<1>2. /\ PendingRecorded(X, D \cup {e})' /\ RecordedPending(X)'
      /\ BoundRecorded' /\ NothingToReplay'
  BY <1>1, RecordsBooks DEF Fail
<1>3. PendingRecorded(X, D)'
  BY <1>2 DEF PendingRecorded
<1>4. PendingWritten(X, D)' /\ WrittenPending(X, U)'
  BY <1>1 DEF Books, PendingWritten, WrittenPending
<1> QED  BY <1>2, <1>3, <1>4 DEF Books

LEMMA RetryNothingBooks ==
  ASSUME NEW X, NEW U, NEW D, Books(X, U, D), Safe, NEW e \in Execution,
         e = Statement, e.change \in X, RetryNothing
  PROVE  Books(X, U, D \cup {e})'
<1>1. UNCHANGED <<backend, level, pending>> /\ mishaps \subseteq mishaps'
  BY DEF RetryNothing, Executes, Succeeds
<1>2. /\ PendingRecorded(X, D \cup {e})' /\ RecordedPending(X)'
      /\ BoundRecorded' /\ NothingToReplay'
  BY <1>1, RecordsBooks DEF RetryNothing
<1> QED  BY <1>2 DEF RetryNothing, Books, PendingWritten, WrittenPending

\* A replay writes nothing but what is pending or excused, whole or not.
LEMMA ReplayWrites ==
  ASSUME NEW X, NEW U, NEW D, Books(X, U, D), NEW done \in SUBSET queries',
         RecordedPending(X)', BoundRecorded',
         tx' = {q.bound : q \in done}, UNCHANGED <<level, told>>,
         mishaps \subseteq mishaps', stored' = stored \/ "premature" \in mishaps'
  PROVE  WrittenPending(X, U)'
<1>1. ASSUME Free({"kept"})', NEW e \in tx'
      PROVE  e.change \in pending' \cup X
  <2>1. PICK q \in queries' : e = q.bound
    BY <1>1
  <2>2. PICK r \in queries' : e = r.for
    BY <1>1, <2>1 DEF BoundRecorded, Fors
  <2> QED  BY <1>1, <2>2 DEF RecordedPending
<1> QED  BY <1>1 DEF Books, WrittenPending

\* What a replay writes is what is pending, if all is bound as it was.
LEMMA RetryBooks ==
  ASSUME NEW X, NEW U, NEW D, Books(X, U, D), Safe, NEW e \in Execution,
         e = Statement, e.change \in X, Retry
  PROVE  Books(X, U, D \cup {e})'
<1> DEFINE Q == Recorded(e)
<1>1. PICK committed \in BOOLEAN :
        /\ Restarted(committed)
        /\ mishaps' = mishaps \cup RestartMishaps(committed) \cup ReplayMishaps(Q)
  BY DEF Retry
<1>2. /\ UNCHANGED <<backend, level, pending, told>> /\ queries' = Q
      /\ tx' = {q.bound : q \in Q} /\ Replays /\ level > 0
  BY DEF Retry, Executes, Succeeds, inTransaction
<1> HIDE DEF Q
<1>3. mishaps \subseteq mishaps' /\ (stored' = stored \/ "premature" \in mishaps')
      /\ stored \subseteq stored' /\ open' = TRUE
  BY <1>1 DEF Restarted, RestartMishaps
<1>4. /\ PendingRecorded(X, D \cup {e})' /\ RecordedPending(X)'
      /\ BoundRecorded' /\ NothingToReplay'
  BY <1>2, <1>3, RecordsBooks DEF Q
<1>5. PendingWritten(X, D \cup {e})'
  <2>1. ASSUME Free({"unexecuted", "incomplete", "rebound"})'
        PROVE  Fors' \subseteq tx'
    <3>1. "rebound" \notin ReplayMishaps(Q)
      BY <1>1, <2>1
    <3>2. \A q \in Q : q.bound = q.for
      BY <3>1 DEF ReplayMishaps
    <3> QED  BY <1>2, <3>2 DEF Fors
  <2> QED  BY <1>2, <1>3, <1>4, <2>1 DEF Books, PendingWritten, PendingRecorded, Replays
<1>6. WrittenPending(X, U)'
  <2>1. Q \in SUBSET queries'
    BY <1>2
  <2> QED  BY <1>2, <1>3, <1>4, <2>1, ReplayWrites
<1> QED  BY <1>4, <1>5, <1>6 DEF Books

LEMMA RetryIncompleteBooks ==
  ASSUME NEW X, NEW U, NEW D, Books(X, U, D), Safe, NEW e \in Execution,
         e = Statement, e.change \in X, RetryIncomplete
  PROVE  Books(X, U, D \cup {e})'
<1>1. PICK committed, done :
        /\ committed \in BOOLEAN /\ done \subseteq queries'
        /\ Restarted(committed)
        /\ tx' = {q.bound : q \in done}
        /\ mishaps' = mishaps \cup {"incomplete"} \cup RestartMishaps(committed)
                              \cup ReplayMishaps(done)
  BY DEF RetryIncomplete
<1>2. UNCHANGED <<backend, level, pending, told>> /\ queries' = Recorded(e)
  BY DEF RetryIncomplete, Executes, Succeeds, Fails
<1>3. /\ mishaps \subseteq mishaps' /\ "incomplete" \in mishaps'
      /\ stored' = stored \/ "premature" \in mishaps'
  BY <1>1 DEF Restarted, RestartMishaps
<1>4. /\ PendingRecorded(X, D \cup {e})' /\ RecordedPending(X)'
      /\ BoundRecorded' /\ NothingToReplay'
  BY <1>2, <1>3, RecordsBooks
<1>5. PendingWritten(X, D \cup {e})'
  BY <1>3 DEF PendingWritten
<1>6. WrittenPending(X, U)'
  BY <1>1, <1>2, <1>3, <1>4, ReplayWrites
<1> QED  BY <1>4, <1>5, <1>6 DEF Books

-----------------------------------------------------------------------------
(* Every step keeps the books *)

\* exec() returned TRUE: the handler goes on, or a removal is done.
LEMMA SucceedsContents ==
  ASSUME Safe, Safe', WorkTyped, Announced, Executes, Succeeds,
         NEW X, NEW U, NEW D, NEW e, X = Excused, U = unfinished, D = Done, e = Statement,
         Books(X, U, D \cup {e})'
  PROVE  Contents'
<1>1. Unfinished /\ unfinished = {current} /\ work.stage = "executing"
  BY DEF Executes, Unfinished, unfinished
<1>2. D = {[change |-> current, step |-> i] : i \in 1..work.step}
  BY <1>1 DEF Done
<1>3. work.step \in Nat
  BY DataStoreAssumption DEF DataStoreAssumption, WorkTyped, Work
<1>4. D \cup {e} = {[change |-> current, step |-> i] : i \in 1..(work.step + 1)}
  <2>1. 1..(work.step + 1) = (1..work.step) \cup {work.step + 1}
    BY <1>3
  <2> QED  BY <1>2, <2>1 DEF Statement
<1>5. CASE work' = [work EXCEPT !.step = @ + 1]
  <2>1. /\ work'.stage = "executing" /\ work'.step = work.step + 1
        /\ current' = current
    BY <1>1, <1>5 DEF WorkTyped, Work, current, Executes
  <2>2. unfinished' = U /\ Unfinished'
    BY <1>1, <2>1 DEF unfinished, Unfinished
  <2>3. Excused' = X
    BY <2>2 DEF Excused, Succeeds
  <2>4. Done' = D \cup {e}
    BY <1>4, <2>1, <2>2 DEF Done
  <2> QED  BY <2>2, <2>3, <2>4, ContentsNext
<1>6. CASE work.kind = "remove" /\ work.step + 1 = Steps /\ work' = Idle
  <2>1. ~Unfinished'
    BY <1>6 DEF Unfinished, Idle, NotWorking
  <2>2. unfinished' = {} /\ Done' = {} /\ Excused' = failed
    BY <2>1, NothingUnfinishedNext DEF Succeeds
  <2>3. PICK c, F : c = current /\ F = failed
    OBVIOUS
  <2>4. D \cup {e} = Executions(c)
    BY <1>4, <1>6, <2>3 DEF Executions
  <2>5. X = F \cup {c} /\ U = {c}
    BY <1>1, <2>3 DEF Excused
  <2>6. /\ c \in IF level' > 0 THEN pending' ELSE told'
        /\ level' > 0 => c \notin told'
    BY <1>1, <1>6, <2>3 DEF Announced, Executes, Succeeds
  <2>7. Books(F \cup {c}, {c}, Executions(c))'
    BY <2>4, <2>5
  <2>8. Books(F, {}, {})'
    BY <2>6, <2>7, FinishBooks
  <2> QED  BY <2>2, <2>3, <2>8, ContentsNext
<1> QED  BY <1>5, <1>6 DEF Succeeds

\* The handler gives up.
LEMMA GivesUpContents ==
  ASSUME Safe, WorkTyped, Unfinished, GivesUp, NEW X, X = Excused, Books(X, {}, {})'
  PROVE  Contents'
<1>1. ~Unfinished' /\ failed' = X
  BY GivesUpTyped DEF Excused, unfinished, Unfinished
<1>2. unfinished' = {} /\ Done' = {} /\ Excused' = failed'
  BY <1>1, NothingUnfinishedNext
<1> QED  BY <1>1, <1>2, ContentsNext

LEMMA ExecContents ==
  ASSUME Safe, Safe', WorkTyped, Announced, Contents, Exec
  PROVE  Contents'
<1>1. Executes
  BY DEF Exec, Execute, Fail, RetryNothing, Retry, RetryIncomplete
<1>2. Statement \in Execution /\ Statement.change = current /\ Unfinished
  BY <1>1, StatementTyped DEF Statement, Executes, Unfinished
<1>3. PICK X, U, D, e : X = Excused /\ U = unfinished /\ D = Done /\ e = Statement
  OBVIOUS
<1>4. Books(X, U, D)
  BY <1>3, ContentsNow
<1>5. e \in Execution /\ e.change \in X
  BY <1>2, <1>3 DEF Excused, unfinished, Unfinished
<1>6. ASSUME Succeeds, Books(X, U, D \cup {e})'
      PROVE  Contents'
  BY <1>1, <1>3, <1>6, SucceedsContents
<1>7. ASSUME Fails, NEW E, Books(X, U, E)'
      PROVE  Contents'
  <2>1. Books(X, {}, {})'
    BY <1>7, DropBooks
  <2> QED  BY <1>2, <1>3, <1>7, <2>1, GivesUpContents DEF Fails
<1>8. CASE Execute
  <2>1. Books(X, U, D \cup {e})'
    BY <1>3, <1>4, <1>5, <1>8, ExecuteBooks
  <2> QED  BY <1>6, <1>8, <2>1 DEF Execute
<1>9. CASE Fail
  <2>1. Books(X, U, D)'
    BY <1>3, <1>4, <1>5, <1>9, FailBooks
  <2> QED  BY <1>7, <1>9, <2>1 DEF Fail
<1>10. CASE RetryNothing
  <2>1. Books(X, U, D \cup {e})'
    BY <1>3, <1>4, <1>5, <1>10, RetryNothingBooks
  <2> QED  BY <1>6, <1>10, <2>1 DEF RetryNothing
<1>11. CASE Retry
  <2>1. Books(X, U, D \cup {e})'
    BY <1>3, <1>4, <1>5, <1>11, RetryBooks
  <2> QED  BY <1>6, <1>11, <2>1 DEF Retry
<1>12. CASE RetryIncomplete
  <2>1. Books(X, U, D \cup {e})'
    BY <1>3, <1>4, <1>5, <1>12, RetryIncompleteBooks
  <2>2. Succeeds \/ Fails
    BY <1>12 DEF RetryIncomplete
  <2> QED  BY <1>6, <1>7, <2>1, <2>2
<1> QED  BY <1>8, <1>9, <1>10, <1>11, <1>12 DEF Exec

\* A change is begun.
LEMMA StartContents ==
  ASSUME Safe, Safe', WorkTyped, Announced, Contents, NEW kind \in Kinds, Start(kind)
  PROVE  Contents'
<1>1. PICK c, F : c = [number |-> changes + 1, kind |-> kind] /\ F = failed
  OBVIOUS
<1>2. ~Unfinished /\ failed' = F
  BY <1>1 DEF Start, Unfinished, Idle, NotWorking
<1>3. Books(F, {}, {})
  BY <1>1, <1>2, NothingUnfinished, ContentsNow
<1>4. Unfinished' /\ unfinished' = {c}
  BY <1>1 DEF Start, Unfinished, unfinished, current
<1>5. Done' = {} /\ Excused' = F \cup {c}
  BY <1>2, <1>4 DEF Done, Excused, Start
<1>6. c \notin told /\ c \notin F
  <2>1. \A d \in told \cup failed : d.number <= changes /\ d.number \in Nat
    BY DEF Announced, Safe, Types, WorkTyped, Change
  <2>2. c.number = changes + 1 /\ changes \in Nat
    BY <1>1 DEF Safe, Types
  <2> QED  BY <1>1, <2>1, <2>2
<1>7. /\ pending \subseteq pending' /\ pending' \subseteq pending \cup {c}
      /\ told \subseteq told' /\ told' \subseteq told \cup {c}
  <2>1. Dispatched(c) \/ UNCHANGED <<pending, told>>
    BY <1>1 DEF Start
  <2> QED  BY <2>1 DEF Dispatched
<1>8. UNCHANGED <<backend, level, open, tx, stored, queries, mishaps>>
  BY DEF Start
<1>9. PendingWritten(F \cup {c}, {})'
  BY <1>3, <1>7, <1>8 DEF Books, PendingWritten
<1>10. WrittenPending(F \cup {c}, {c})'
  BY <1>3, <1>6, <1>7, <1>8 DEF Books, WrittenPending
<1>11. PendingRecorded(F \cup {c}, {})'
  BY <1>3, <1>7, <1>8 DEF Books, PendingRecorded, Replays, Fors
<1>12. RecordedPending(F \cup {c})'
  BY <1>3, <1>7, <1>8 DEF Books, RecordedPending
<1>13. BoundRecorded' /\ NothingToReplay'
  BY <1>3, <1>8 DEF Books, BoundRecorded, NothingToReplay, Replays, Fors
<1>14. Books(F \cup {c}, {c}, {})'
  BY <1>9, <1>10, <1>11, <1>12, <1>13 DEF Books
<1> QED  BY <1>4, <1>5, <1>14, ContentsNext

\* The collector hears of a change whose statements are done.
LEMMA NotifyContents ==
  ASSUME Safe, Safe', WorkTyped, Announced, Contents, Notify
  PROVE  Contents'
<1>1. PICK c, F : c = current /\ F = failed
  OBVIOUS
<1>2. Unfinished /\ work.step = Steps /\ unfinished = {c}
  BY <1>1 DEF Notify, WorkTyped, Unfinished, unfinished
<1>3. Done = Executions(c) /\ Excused = F \cup {c}
  BY <1>1, <1>2 DEF Done, Executions, Excused
<1>4. Books(F \cup {c}, {c}, Executions(c))
  BY <1>2, <1>3, ContentsNow
<1>5. /\ ~Unfinished' /\ failed' = F
      /\ UNCHANGED <<backend, level, open, tx, stored, queries, mishaps>>
      /\ Dispatched(c)
  BY <1>1 DEF Notify, Unfinished, Idle, NotWorking
<1>6. unfinished' = {} /\ Done' = {} /\ Excused' = F
  BY <1>5, NothingUnfinishedNext
<1>7. /\ pending \subseteq pending' /\ pending' \subseteq pending \cup {c}
      /\ told \subseteq told' /\ told' \subseteq told \cup {c}
      /\ c \in IF level' > 0 THEN pending' ELSE told'
      /\ level' > 0 => c \notin told'
  BY <1>1, <1>2, <1>5 DEF Dispatched, inTransaction, Announced
<1>8. Books(F \cup {c}, {c}, Executions(c))'
  <2>1. PendingWritten(F \cup {c}, Executions(c))'
    BY <1>4, <1>5, <1>7 DEF Books, PendingWritten
  <2>2. WrittenPending(F \cup {c}, {c})'
    BY <1>4, <1>5, <1>7 DEF Books, WrittenPending
  <2>3. PendingRecorded(F \cup {c}, Executions(c))'
    BY <1>4, <1>5, <1>7 DEF Books, PendingRecorded, Replays, Fors
  <2>4. RecordedPending(F \cup {c})'
    BY <1>4, <1>5, <1>7 DEF Books, RecordedPending
  <2>5. BoundRecorded' /\ NothingToReplay'
    BY <1>4, <1>5 DEF Books, BoundRecorded, NothingToReplay, Replays, Fors
  <2> QED  BY <2>1, <2>2, <2>3, <2>4, <2>5 DEF Books
<1>9. Books(F, {}, {})'
  BY <1>7, <1>8, FinishBooks
<1> QED  BY <1>6, <1>9, ContentsNext

LEMMA CommitAppendContents ==
  ASSUME Safe, WorkTyped, Contents, GivenUp, CommitAppend
  PROVE  Contents'
<1>1. PICK X, U, D, Y : X = Excused /\ U = unfinished /\ D = Done /\ Y = failed'
  OBVIOUS
<1>2. Unfinished /\ UNCHANGED <<backend, changes>> /\ Books(X, U, D)
  BY <1>1, ContentsNow DEF CommitAppend, Unfinished
<1>3. CASE CommitFails({current}) /\ Leaves(commands')
  <2>1. {current} = unfinished /\ current \in Change
    BY <1>2, CurrentTyped DEF unfinished, Unfinished
  <2>2. Books(Y, {}, {})'
    BY <1>1, <1>2, <1>3, <2>1, FailsBooks
  <2>3. Ends({current})
    BY <1>3 DEF Ends
  <2>4. failed' \subseteq Change
    BY <2>1, <2>3, EndsFailed DEF WorkTyped
  <2>5. ~Unfinished'
    BY <1>3, <2>4, LeavesTyped
  <2>6. unfinished' = {} /\ Done' = {} /\ Excused' = Y
    BY <1>1, <2>5, NothingUnfinishedNext
  <2> QED  BY <2>2, <2>6, ContentsNext
<1>4. CASE Commits /\ work' = [work EXCEPT !.stage = "committed"]
  <2>1. /\ work'.stage = "committed" /\ work'.step = work.step
        /\ current' = current /\ UNCHANGED failed
    BY <1>2, <1>4 DEF WorkTyped, Work, current, Commits
  <2>2. unfinished' = U /\ Unfinished'
    BY <1>1, <1>2, <2>1 DEF unfinished, Unfinished
  <2>3. Excused' = X /\ Done' = D
    BY <1>1, <1>2, <1>4, <2>1, <2>2 DEF Excused, Done
  <2>4. Books(X, U, D)'
    BY <1>2, <1>4, CommitsBooks
  <2> QED  BY <2>2, <2>3, <2>4, ContentsNext
<1> QED  BY <1>3, <1>4 DEF CommitAppend

LEMMA NextContents ==
  ASSUME Safe, Safe', WorkTyped, Announced, Contents, GivenUp, [Next]_vars
  PROVE  Contents'
<1>1. PICK X, U, D, F, Y :
        X = Excused /\ U = unfinished /\ D = Done /\ F = failed /\ Y = failed'
  OBVIOUS
<1>2. Books(X, U, D)
  BY <1>1, ContentsNow
<1>3. ~Unfinished => Books(F, {}, {})
  BY <1>1, NothingUnfinished, ContentsNow
<1>4. ASSUME ~Unfinished', Books(Y, {}, {})'
      PROVE  Contents'
  BY <1>1, <1>4, NothingUnfinishedNext, ContentsNext
<1>5. CASE ClientBegin \/ Transaction
  <2>1. /\ ~Unfinished /\ ~Unfinished' /\ failed' = F
        /\ UNCHANGED <<backend, tx, stored, queries, pending, told>>
    <3>1. work = Idle /\ UNCHANGED <<backend, tx, stored, queries, pending, told, work, failed>>
      BY <1>5 DEF ClientBegin, Transaction
    <3> QED  BY <1>1, <3>1 DEF Unfinished, Idle, NotWorking
  <2>2. mishaps \subseteq mishaps'
    BY <1>5 DEF ClientBegin, Transaction
  <2>3. Books(F, {}, {})
    BY <1>3, <2>1
  <2>4. Books(F, {}, {})' /\ Y = F
    BY <1>1, <2>1, <2>2, <2>3, SameBooksIdle
  <2> QED  BY <1>4, <2>1, <2>4
<1>6. CASE ClientCommit \/ ClientRollback \/ Commit \/ Destroyed
  <2>1. Commits \/ CommitFails({}) \/ RollbackTransaction
    BY <1>6 DEF ClientCommit, ClientRollback, Commit, Destroyed, CommitTransaction
  <2>2. ~Unfinished /\ ~Unfinished' /\ UNCHANGED backend
    BY <1>6 DEF ClientCommit, ClientRollback, Commit, Destroyed, Unfinished, Idle, NotWorking
  <2>3. CASE Commits
    <3>1. Y = F
      BY <1>1, <2>3 DEF Commits
    <3>2. Books(F, {}, {})
      BY <1>3, <2>2
    <3>3. Books(F, {}, {})'
      BY <2>2, <2>3, <3>2, CommitsBooks
    <3> QED  BY <1>4, <2>2, <3>1, <3>3
  <2>4. CASE CommitFails({}) \/ RollbackTransaction
    <3>1. unfinished = {}
      BY <2>2, NothingUnfinished
    <3>2. Books(Y, {}, {})'
      BY <1>1, <2>2, <2>4, <3>1, FailsBooks
    <3> QED  BY <1>4, <2>2, <3>2
  <2> QED  BY <2>1, <2>3, <2>4
<1>7. CASE CommitAppend
  BY <1>7, CommitAppendContents
<1>8. CASE Close \/ Cleanup
  <2>1. ~Unfinished /\ ~Unfinished'
    BY <1>8 DEF Close, Cleanup, Unfinished, Idle, NotWorking
  <2>2. CASE Close
    <3>1. Books(Y, {}, {})'
      BY <1>1, <2>1, <2>2, CloseBooks
    <3> QED  BY <1>4, <2>1, <3>1
  <2>3. CASE Cleanup
    <3>1. Books(F, {}, {})' /\ Y = F
      BY <1>1, <1>3, <2>1, <2>3, CleanupBooks DEF Safe, Types, Cleanup
    <3> QED  BY <1>4, <2>1, <3>1
  <2> QED  BY <1>8, <2>2, <2>3
<1>9. ASSUME NEW kind \in Kinds, Start(kind) PROVE Contents'
  BY <1>9, StartContents
<1>10. CASE Notify
  BY <1>10, NotifyContents
<1>11. CASE GiveUp
  <2>1. Unfinished /\ GivesUp
    BY <1>11 DEF GiveUp, Unfinished
  <2>2. UNCHANGED <<backend, level, open, tx, stored, queries, pending, told, mishaps>>
    BY <1>11 DEF GiveUp
  <2>3. Books(X, U, D)'
    BY <1>2, <2>2, SameBooks
  <2>4. Books(X, {}, {})'
    BY <2>3, DropBooks
  <2> QED  BY <1>1, <2>1, <2>4, GivesUpContents
<1>12. CASE Exec
  BY <1>12, ExecContents
<1>13. CASE UNCHANGED vars
  <2>1. UNCHANGED <<backend, level, open, tx, stored, queries, pending, told, mishaps>>
    BY <1>13 DEF vars
  <2>2. Excused' = X /\ unfinished' = U /\ Done' = D
    BY <1>1, <1>13 DEF vars, Excused, unfinished, Done, Unfinished, current
  <2>3. Books(X, U, D)'
    BY <1>2, <2>1, SameBooks
  <2> QED  BY <2>2, <2>3, ContentsNext
<1> QED  BY <1>5, <1>6, <1>7, <1>8, <1>9, <1>10, <1>11, <1>12, <1>13
         DEF Next, ClientTransaction, Handler

-----------------------------------------------------------------------------
(* What can still be rolled back, or replayed *)

LEMMA InitNumbered == Init => Numbered /\ GivenUp
BY DEF Init, Numbered, GivenUp, Traced, Undone, Unfinished, Idle, NotWorking

\* Nothing is traced anew.
LEMMA SameNumbered ==
  ASSUME Numbered, Traced' \subseteq Traced, changes' = changes,
         \A r \in queries' : \E q \in queries : r.bound = q.bound,
         Unfinished' => Unfinished /\ current' = current /\ failed' \subseteq failed
  PROVE  Numbered'
BY DEF Numbered

\* What is executed is traced by what was recorded for it.
LEMMA RecordedNumbered ==
  ASSUME Safe, WorkTyped, Numbered, Executes, queries' = Recorded(Statement),
         NEW q \in queries'
  PROVE  q.for.change.number <= changes /\ q.bound.change.number <= changes
<1>1. Statement \in Execution /\ Statement.change = current /\ current.number = changes
  BY StatementTyped DEF Statement, current
<1>2. changes <= changes /\ queries \subseteq Query
  BY DEF Safe, Types
<1>3. PICK e : e = Statement
  OBVIOUS
<1>4. q \in Recorded(e) /\ e \in Execution /\ e.change.number = changes
  BY <1>1, <1>3
<1>5. (q.for = e \/ \E r \in queries : q.for = r.for) /\
      (q.bound = e \/ \E r \in queries : q.bound = r.bound)
  BY <1>2, <1>4, RecordedOrigin
<1> QED  BY <1>2, <1>4, <1>5 DEF Numbered, Traced

\* What a transaction that ends leaves of what is traced.
LEMMA EndsTraced ==
  ASSUME NEW lost, Ends(lost)
  PROVE  /\ Traced' \subseteq Traced /\ queries' \subseteq queries
         /\ mishaps \subseteq mishaps'
         /\ Traced' = {} \/ UNCHANGED <<told, stored>>
<1>1. CASE Inner
  BY <1>1 DEF Inner, Traced, Undone
<1>2. CASE Committed
  BY <1>2 DEF Committed, Traced, Undone
<1>3. ASSUME NEW fails, RolledBack(fails)
      PROVE  Traced' \subseteq Traced /\ queries' \subseteq queries /\ mishaps \subseteq mishaps'
             /\ UNCHANGED <<told, stored>>
  BY <1>3 DEF RolledBack, Traced, Undone
<1> QED  BY <1>1, <1>2, <1>3 DEF Ends, Commits, CommitFails, RollbackTransaction

\* A step that ends a transaction, of the client or the command.
EndSteps == ClientCommit \/ ClientRollback \/ Commit \/ CommitAppend \/ Destroyed

LEMMA EndStepsEnd ==
  ASSUME Safe, WorkTyped, EndSteps
  PROVE  /\ \E lost : Ends(lost)
         /\ changes' = changes /\ Excused' \subseteq Excused
         /\ Unfinished' => Unfinished /\ current' = current /\ failed' = failed
<1>1. CASE ClientCommit \/ ClientRollback \/ Commit \/ Destroyed
  <2>1. Ends({}) /\ ~Unfinished /\ ~Unfinished' /\ changes' = changes
    BY <1>1 DEF ClientCommit, ClientRollback, Commit, Destroyed, CommitTransaction, Ends,
                Unfinished, Idle, NotWorking
  <2>2. Excused = failed /\ Excused' = failed' /\ failed' \subseteq failed
    BY <2>1, NothingUnfinished, NothingUnfinishedNext, EndsFailed
  <2> QED  BY <2>1, <2>2
<1>2. CASE CommitAppend /\ CommitFails({current}) /\ Leaves(commands')
  <2>1. Ends({current}) /\ Unfinished /\ unfinished = {current} /\ changes' = changes
    BY <1>2 DEF CommitAppend, Ends, Unfinished, unfinished
  <2>2. failed' \subseteq failed \cup {current} /\ failed' \subseteq Change
    BY <2>1, EndsFailed, CurrentTyped DEF WorkTyped
  <2>3. ~Unfinished'
    BY <1>2, <2>2, LeavesTyped
  <2>4. Excused' = failed'
    BY <2>3, NothingUnfinishedNext
  <2> QED  BY <2>1, <2>2, <2>3, <2>4 DEF Excused
<1>3. CASE CommitAppend /\ Commits /\ work' = [work EXCEPT !.stage = "committed"]
  <2>1. Ends({}) /\ Unfinished /\ changes' = changes /\ failed' = failed
    BY <1>3 DEF CommitAppend, Ends, Unfinished, Commits
  <2>2. current' = current /\ work'.stage = "committed"
    BY <1>3, <2>1 DEF WorkTyped, Work, current
  <2>3. unfinished' = unfinished
    BY <2>1, <2>2 DEF unfinished, Unfinished
  <2> QED  BY <2>1, <2>2, <2>3 DEF Excused
<1> QED  BY <1>1, <1>2, <1>3 DEF EndSteps, CommitAppend

\* Steps that begin a transaction, or drop what is recorded.
LEMMA OtherStepsTraced ==
  ASSUME ClientBegin \/ Transaction \/ Close \/ Cleanup \/ UNCHANGED vars, queries \subseteq Query
  PROVE  /\ Traced' \subseteq Traced /\ UNCHANGED <<told, stored, changes>>
         /\ \A r \in queries' : \E q \in queries : r.bound = q.bound
         /\ mishaps \subseteq mishaps' /\ Excused' \subseteq Excused
         /\ Unfinished' => Unfinished /\ current' = current /\ failed' \subseteq failed
<1>1. UNCHANGED <<work, changes, told, stored>> /\ failed' \subseteq failed
  BY DEF ClientBegin, Transaction, Close, Cleanup, vars
<1>2. current' = current /\ (Unfinished' <=> Unfinished) /\ Excused' \subseteq Excused
  BY <1>1 DEF current, Unfinished, Excused, unfinished
<1>3. mishaps \subseteq mishaps'
  BY DEF ClientBegin, Transaction, Close, Cleanup, vars
<1>4. CASE Cleanup
  <2>1. UNCHANGED <<tx, pending>>
    BY <1>4 DEF Cleanup
  <2>2. \A r \in queries' : \E q \in queries : r.for = q.for /\ r.bound = q.bound
    BY <1>4 DEF Cleanup, Query
  <2> QED  BY <1>1, <1>2, <1>3, <2>1, <2>2 DEF Traced, Undone
<1>5. CASE ClientBegin \/ Transaction \/ Close \/ UNCHANGED vars
  <2>1. tx' \subseteq tx /\ pending' \subseteq pending /\ queries' \subseteq queries
    BY <1>5 DEF ClientBegin, Transaction, Close, vars
  <2> QED  BY <1>1, <1>2, <1>3, <2>1 DEF Traced, Undone
<1> QED  BY <1>4, <1>5

LEMMA ExecNumbered ==
  ASSUME Safe, WorkTyped, Numbered, Exec
  PROVE  Numbered'
<1>1. Executes /\ queries' = Recorded(Statement) /\ UNCHANGED <<changes, pending>>
      /\ (Succeeds \/ Fails)
  BY DEF Exec, Execute, Fail, RetryNothing, Retry, RetryIncomplete, Executes, Succeeds, Fails
<1>2. \A q \in queries' : q.for.change.number <= changes /\ q.bound.change.number <= changes
  BY <1>1, RecordedNumbered
<1>3. Statement.change.number = changes /\ changes <= changes
  BY DEF Statement, current, Safe, Types
<1>4. \A x \in tx' : x.change.number <= changes
  <2>1. CASE Execute \/ Fail \/ RetryNothing
    <3>1. tx' \subseteq tx \cup {Statement}
      BY <2>1 DEF Execute, Fail, RetryNothing
    <3> QED  BY <1>3, <3>1 DEF Numbered, Traced, Undone
  <2>2. CASE Retry \/ RetryIncomplete
    <3>1. \A x \in tx' : \E q \in queries' : x = q.bound
      BY <2>2 DEF Retry, RetryIncomplete
    <3> QED  BY <1>2, <3>1
  <2> QED  BY <2>1, <2>2 DEF Exec
<1>5. Unfinished' => current' \notin failed'
  <2>1. Unfinished
    BY <1>1 DEF Executes, Unfinished
  <2>2. CASE Fails
    BY <2>1, <2>2, GivesUpTyped DEF Fails
  <2>3. CASE Succeeds
    <3>1. ~Unfinished' \/ current' = current
      BY <1>1, <2>3 DEF Succeeds, Unfinished, Idle, NotWorking, WorkTyped, Work, current
    <3> QED  BY <2>1, <2>3, <3>1 DEF Succeeds, Numbered
  <2> QED  BY <1>1, <2>2, <2>3
<1>6. \A c \in pending : c.number <= changes
  BY DEF Numbered, Traced, Undone
<1> QED  BY <1>1, <1>2, <1>4, <1>5, <1>6 DEF Numbered, Traced, Undone

LEMMA NextNumbered ==
  ASSUME Safe, WorkTyped, Announced, Numbered, [Next]_vars
  PROVE  Numbered'
<1>1. CASE EndSteps
  BY <1>1, EndStepsEnd, EndsTraced, SameNumbered
<1>2. CASE ClientBegin \/ Transaction \/ Close \/ Cleanup \/ UNCHANGED vars
  BY <1>2, OtherStepsTraced, SameNumbered DEF Safe, Types
<1>3. ASSUME NEW kind \in Kinds, Start(kind)
      PROVE  Numbered'
  <2>1. PICK c : c = [number |-> changes + 1, kind |-> kind]
    OBVIOUS
  <2>2. /\ UNCHANGED <<tx, queries, failed>> /\ pending' \subseteq pending \cup {c}
        /\ changes' = changes + 1 /\ current' = c
    BY <1>3, <2>1 DEF Start, Dispatched, current
  <2>3. c.number = changes + 1 /\ changes \in Nat
    BY <2>1 DEF Safe, Types
  <2>4. Traced \subseteq Change /\ \A q \in queries : q.bound.change \in Change
    BY DEF Traced, Undone, Safe, Types, Execution, Query
  <2>5. \A d \in Change : d.number <= changes => d.number <= changes'
    BY <2>2, <2>3 DEF Change
  <2>6. Traced' \subseteq Traced \cup {c}
    BY <2>2 DEF Traced, Undone
  <2>7. c \notin failed
    <3>1. \A d \in failed : d.number <= changes
      BY DEF Announced
    <3> QED  BY <2>3, <3>1
  <2>8. c.number <= changes'
    BY <2>2, <2>3
  <2> QED  BY <2>2, <2>4, <2>5, <2>6, <2>7, <2>8 DEF Numbered
<1>4. CASE Notify
  <2>1. /\ ~Unfinished' /\ UNCHANGED <<changes, tx, queries>>
        /\ pending' \subseteq pending \cup {current}
    BY <1>4 DEF Notify, Unfinished, Idle, NotWorking, Dispatched
  <2>2. current.number <= changes
    BY DEF current, Safe, Types
  <2>3. Traced' \subseteq Traced \cup {current}
    BY <2>1 DEF Traced, Undone
  <2> QED  BY <2>1, <2>2, <2>3 DEF Numbered
<1>5. CASE GiveUp
  <2>1. ~Unfinished' /\ UNCHANGED <<changes, tx, queries, pending>>
    BY <1>5, GivesUpTyped DEF GiveUp, Unfinished
  <2> QED  BY <2>1 DEF Numbered, Traced, Undone
<1>6. CASE Exec
  BY <1>6, ExecNumbered
<1> QED  BY <1>1, <1>2, <1>3, <1>4, <1>5, <1>6 DEF Next, ClientTransaction, Handler, EndSteps

\* Nothing more is excused or traced, and nothing more told or stored.
LEMMA SameGivenUp ==
  ASSUME GivenUp, Excused' \subseteq Excused, Traced' \subseteq Traced,
         UNCHANGED <<told, stored>>, mishaps \subseteq mishaps'
  PROVE  GivenUp'
BY DEF GivenUp, Unheard

\* In a transaction nobody was told of what the handler is at, and nothing is stored of it.
LEMMA CurrentUnheard ==
  ASSUME Announced, Contents, Unfinished, level > 0
  PROVE  Unheard(current)
<1>1. current \notin told /\ unfinished = {current}
  BY DEF Announced, unfinished, Unfinished
<1> QED  BY <1>1 DEF Contents, Books, WrittenPending, Unheard

\* A replay traces nothing but what is recorded.
LEMMA ExecGivenUp ==
  ASSUME Safe, WorkTyped, Announced, Contents, Contents', GivenUp, Exec
  PROVE  GivenUp'
<1>1. /\ Executes /\ queries' = Recorded(Statement) /\ (Succeeds \/ Fails)
      /\ UNCHANGED <<level, changes, pending, told>>
  BY DEF Exec, Execute, Fail, RetryNothing, Retry, RetryIncomplete, Executes, Succeeds, Fails
<1>2. Unfinished /\ Statement \in Execution /\ Statement.change = current
      /\ unfinished = {current}
  BY <1>1, StatementTyped DEF Executes, Unfinished, unfinished, Statement
<1>3. mishaps \subseteq mishaps'
  BY DEF Exec, Execute, Fail, RetryNothing, Retry, RetryIncomplete
<1>4. Excused' \subseteq Excused
  <2>1. CASE Fails
    <3>1. ~Unfinished' /\ failed' = failed \cup {current}
      BY <1>2, <2>1, GivesUpTyped DEF Fails
    <3> QED  BY <1>2, <3>1, NothingUnfinishedNext DEF Excused
  <2>2. CASE Succeeds
    <3>1. unfinished' \subseteq unfinished /\ failed' = failed
      BY <1>1, <2>2 DEF Succeeds, Executes, unfinished, Idle, NotWorking, WorkTyped, Work, current
    <3> QED  BY <3>1 DEF Excused
  <2> QED  BY <1>1, <2>1, <2>2
<1>5. queries \subseteq Query /\ level \in Nat
  BY DataStoreAssumption DEF DataStoreAssumption, Safe, Types
<1>6. CASE level = 0
  <2>1. ~inTransaction /\ ~open /\ tx = {} /\ pending = {}
    BY <1>6 DEF inTransaction, Safe, Balanced
  <2>2. tx' = {}
    BY <2>1 DEF Exec, Execute, Fail, RetryNothing, Retry, RetryIncomplete
  <2>3. \A r \in queries' : \E q \in queries : r.for = q.for
    <3>1. PICK e : e = Statement
      OBVIOUS
    <3> QED  BY <1>1, <1>2, <1>5, <2>1, <3>1, RecordedOrigin
  <2>4. Traced' \subseteq Traced
    BY <1>1, <2>1, <2>2, <2>3 DEF Traced, Undone
  <2>5. queries = {} \/ "kept" \in mishaps
    BY <1>6 DEF Safe, Balanced
  <2>6. queries = {} => Traced' = {}
    BY <1>1, <2>1, <2>2, <2>3 DEF Traced, Undone
  <2> QED  BY <1>1, <1>3, <1>4, <2>4, <2>5, <2>6 DEF GivenUp, Unheard
<1>7. CASE level > 0
  <2>1. Unheard(current)
    BY <1>2, <1>7, CurrentUnheard
  <2>2. \A c \in Excused' : c \in Traced \/ c = current => Unheard(c)
    BY <1>4, <2>1 DEF GivenUp
  <2>3. \A q \in queries' : q.for.change \in Traced \/ q.for.change = current
    <3>1. PICK e : e = Statement
      OBVIOUS
    <3> QED  BY <1>1, <1>2, <1>5, <3>1, RecordedOrigin DEF Traced
  <2>4. ASSUME NEW x \in tx', x.change \notin Traced, x.change # current
        PROVE  "rebound" \in mishaps' /\ "kept" \in mishaps'
    <3>1. CASE Execute \/ Fail \/ RetryNothing
      <4>1. tx' \subseteq tx \cup {Statement}
        BY <3>1 DEF Execute, Fail, RetryNothing
      <4> QED  BY <1>2, <2>4, <4>1 DEF Traced, Undone
    <3>2. CASE Retry \/ RetryIncomplete
      <4>1. PICK done \in SUBSET queries' :
              tx' = {q.bound : q \in done} /\ ReplayMishaps(done) \subseteq mishaps'
        BY <3>2 DEF Retry, RetryIncomplete
      <4>2. PICK q \in done : x = q.bound
        BY <4>1
      <4>3. q.bound # q.for
        BY <2>3, <2>4, <4>2
      <4>4. "rebound" \in mishaps'
        BY <4>1, <4>3 DEF ReplayMishaps
      <4>5. "kept" \notin mishaps' => x \in Fors'
        BY <4>2 DEF Contents, Books, BoundRecorded
      <4>6. x \notin Fors'
        BY <2>3, <2>4 DEF Fors
      <4> QED  BY <4>4, <4>5, <4>6
    <3> QED  BY <3>1, <3>2 DEF Exec
  <2>5. \A c \in Traced' : c \in Traced \/ c = current \/ {"rebound", "kept"} \subseteq mishaps'
    BY <1>1, <2>3, <2>4 DEF Traced, Undone
  <2>6. stored' = stored \/ mishaps' \cap {"unexecuted", "premature"} # {}
    <3>1. open \/ "unexecuted" \in mishaps'
      BY <1>3, <1>7 DEF Safe, Balanced
    <3> QED  BY <3>1 DEF Exec, Execute, Fail, RetryNothing, Retry, RetryIncomplete, Restarted,
                         RestartMishaps
  <2> QED  BY <1>1, <1>3, <2>2, <2>5, <2>6 DEF GivenUp, Unheard
<1> QED  BY <1>5, <1>6, <1>7

\* A change that is begun is unheard of, if it can be rolled back.
LEMMA StartGivenUp ==
  ASSUME Safe, WorkTyped, Announced, Contents, Numbered, GivenUp, NEW kind \in Kinds, Start(kind)
  PROVE  GivenUp'
<1>1. PICK c : c = [number |-> changes + 1, kind |-> kind]
  OBVIOUS
<1>2. ~Unfinished /\ Excused' = failed \cup {c}
  BY <1>1 DEF Start, Unfinished, Excused, unfinished, current, Idle, NotWorking
<1>3. Excused = failed /\ unfinished = {}
  BY <1>2, NothingUnfinished
<1>4. UNCHANGED <<tx, queries, stored, mishaps, level>>
      /\ (UNCHANGED <<pending, told>> \/ Dispatched(c))
  BY <1>1 DEF Start
<1>5. \A d \in Traced \cup told \cup failed : d.number <= changes
  BY DEF Numbered, Announced
<1>6. c.number = changes + 1 /\ changes \in Nat
  BY <1>1 DEF Safe, Types
<1>7. c \notin Traced /\ c \notin told /\ c \notin failed
  BY <1>5, <1>6
<1>8. CASE UNCHANGED <<pending, told>> \/ (~inTransaction /\ Dispatched(c))
  <2>1. told' \subseteq told \cup {c} /\ Traced' = Traced
    BY <1>4, <1>8 DEF Dispatched, Traced, Undone
  <2>2. \A d \in failed \cap Traced : Unheard(d) /\ d # c
    BY <1>3, <1>7 DEF GivenUp
  <2>3. Excused' \cap Traced' \subseteq failed \cap Traced
    BY <1>2, <1>7, <2>1
  <2> QED  BY <1>4, <2>1, <2>2, <2>3 DEF GivenUp, Unheard
<1>9. CASE inTransaction /\ Dispatched(c)
  <2>1. told' = told /\ Traced' \subseteq Traced \cup {c}
    BY <1>4, <1>9 DEF Dispatched, Traced, Undone
  <2>2. Free({"unexecuted", "premature", "kept"}) => \A e \in stored : e.change # c
    BY <1>3, <1>7 DEF Contents, Books, WrittenPending
  <2>3. Unheard(c)'
    BY <1>4, <1>7, <2>1, <2>2 DEF Unheard
  <2>4. \A d \in failed \cap Traced : Unheard(d)'
    BY <1>3, <1>4, <2>1 DEF GivenUp, Unheard
  <2>5. Excused' \cap Traced' \subseteq (failed \cap Traced) \cup {c}
    BY <1>2, <1>7, <2>1
  <2> QED  BY <2>3, <2>4, <2>5 DEF GivenUp
<1> QED  BY <1>4, <1>8, <1>9

LEMMA NextGivenUp ==
  ASSUME Safe, WorkTyped, Announced, Contents, Contents', Numbered, GivenUp, [Next]_vars
  PROVE  GivenUp'
<1>1. CASE EndSteps
  <2>1. CASE Traced' = {}
    BY <2>1 DEF GivenUp
  <2> QED  BY <1>1, <2>1, EndStepsEnd, EndsTraced, SameGivenUp
<1>2. CASE ClientBegin \/ Transaction \/ Close \/ Cleanup \/ UNCHANGED vars
  BY <1>2, OtherStepsTraced, SameGivenUp DEF Safe, Types
<1>3. ASSUME NEW kind \in Kinds, Start(kind)
      PROVE  GivenUp'
  BY <1>3, StartGivenUp
<1>4. CASE Notify
  <2>1. /\ ~Unfinished' /\ Unfinished /\ UNCHANGED <<failed, tx, queries, stored, mishaps>>
        /\ pending' \subseteq pending \cup {current} /\ told' \subseteq told \cup {current}
    BY <1>4 DEF Notify, Unfinished, Idle, NotWorking, Dispatched
  <2>2. Excused' = failed /\ failed \subseteq Excused
    BY <2>1, NothingUnfinishedNext DEF Excused
  <2>3. current \notin failed
    BY <2>1 DEF Numbered
  <2>4. Traced' \subseteq Traced \cup {current}
    BY <2>1 DEF Traced, Undone
  <2>5. \A c \in Excused' \cap Traced' : Unheard(c) /\ c # current
    BY <2>2, <2>3, <2>4 DEF GivenUp
  <2> QED  BY <2>1, <2>5 DEF GivenUp, Unheard
<1>5. CASE GiveUp
  <2>1. /\ ~Unfinished' /\ Unfinished /\ failed' = failed \cup {current}
        /\ UNCHANGED <<tx, queries, pending, told, stored, mishaps>>
    BY <1>5, GivesUpTyped DEF GiveUp, Unfinished
  <2>2. Excused' \subseteq Excused
    BY <2>1, NothingUnfinishedNext DEF Excused, unfinished, Unfinished
  <2>3. Traced' = Traced
    BY <2>1 DEF Traced, Undone
  <2> QED  BY <2>1, <2>2, <2>3, SameGivenUp
<1>6. CASE Exec
  BY <1>6, ExecGivenUp
<1> QED  BY <1>1, <1>2, <1>3, <1>4, <1>5, <1>6 DEF Next, ClientTransaction, Handler, EndSteps

-----------------------------------------------------------------------------
(* Theorems *)

IInv == Safe /\ WorkTyped /\ Announced /\ Contents /\ Numbered /\ GivenUp

\* Types, levels, what the handler is at, what was announced of it, what the recorded
\* queries and the pending notifications have to do with each other, and that what was
\* given up in a transaction is unheard of, in any order of calls.
THEOREM Invariance == Spec => []IInv
<1>1. Init => IInv
  BY InitSafe, InitWorkTyped, InitAnnounced, InitContents, InitNumbered DEF IInv
<1>2. IInv /\ [Next]_vars => IInv'
  BY NextSafe, NextWorkTyped, NextAnnounced, NextContents, NextNumbered, NextGivenUp DEF IInv
<1> QED  BY <1>1, <1>2, PTL DEF Spec

\* The driver is in a transaction or is not.
LEMMA OpenType == Spec => [](open \in BOOLEAN)
<1> DEFINE Typed == open \in BOOLEAN
<1>1. Init => Typed
  BY DEF Init
<1>2. Typed /\ [Next]_vars => Typed'
  <2> SUFFICES ASSUME open \in BOOLEAN, [Next]_vars PROVE open' \in BOOLEAN
    OBVIOUS
  <2>1. CASE ClientBegin \/ Transaction
    <3>1. PICK begun \in BOOLEAN : open' = (open \/ begun)
      BY <2>1 DEF ClientBegin, Transaction, BeginTransaction
    <3> QED  BY <3>1
  <2>2. ASSUME NEW lost, Commits \/ CommitFails(lost) \/ RollbackTransaction
        PROVE  open' \in BOOLEAN
    BY <2>2 DEF Commits, CommitFails, RollbackTransaction, Inner, Committed, RolledBack
  <2>3. CASE EndSteps
    BY <2>2, <2>3 DEF EndSteps, ClientCommit, ClientRollback, Commit, CommitAppend, Destroyed,
                      CommitTransaction
  <2>4. CASE Close \/ Cleanup \/ UNCHANGED vars
    BY <2>4 DEF Close, Cleanup, vars
  <2>5. CASE Notify \/ GiveUp \/ \E kind \in Kinds : Start(kind)
    BY <2>5 DEF Notify, GiveUp, Start
  <2>6. CASE Exec
    BY <2>6 DEF Exec, Execute, Fail, RetryNothing, Retry, RetryIncomplete, Restarted
  <2> QED  BY <2>1, <2>2, <2>3, <2>4, <2>5, <2>6
           DEF Next, ClientTransaction, Handler, EndSteps
<1> QED  BY <1>1, <1>2, PTL DEF Spec

\* Every variable keeps its type: no level of m_transactionLevel is left that was
\* not entered.
THEOREM TypeCorrect == Spec => []TypeOK
<1>1. IInv /\ open \in BOOLEAN => TypeOK
  BY DEF IInv, Safe, Types, WorkTyped, TypeOK
<1> QED  BY <1>1, Invariance, OpenType, PTL

\* m_transactionLevel counts the transactions of the client and of the command,
\* and nothing is left behind when it is 0.
THEOREM LevelsBalanced == Spec => []Balanced
<1>1. IInv => Balanced
  BY DEF IInv, Safe
<1> QED  BY <1>1, Invariance, PTL

\* What NotificationCollector tells is in the database, also what is told before its
\* statements are executed, as removals are: but for what a replay lost, and changes
\* whose handler gave up outside of a transaction, or in one that was committed all the
\* same.
THEOREM ToldStored == Spec => []ToldIsStored
<1>1. IInv => ToldIsStored
  BY DEF IInv, Contents, Books, PendingWritten, Excused, ToldIsStored
<1> QED  BY <1>1, Invariance, PTL

\* What is in the database NotificationCollector has told, also what is told after it
\* was committed, as appends are: but for changes whose handler is not done, or gave up
\* outside of a transaction or in one that was committed all the same.
THEOREM StoredTold == Spec => []StoredIsTold
<1>1. IInv => StoredIsTold
  BY DEF IInv, Contents, Books, WrittenPending, Excused, StoredIsTold
<1> QED  BY <1>1, Invariance, PTL

\* Nothing is stored or told between beginTransaction() and commitTransaction() of
\* the outermost level.
THEOREM HeldBack == Spec => NothingBeforeCommit
<1>1. IInv /\ [Next]_vars => [OnlyByCommit]_vars
  <2> SUFFICES ASSUME Safe, Next, stored' # stored \/ told' # told,
                      mishaps' \cap {"unbegun", "unexecuted", "premature"} = {}
               PROVE  \/ client + commands = 0
                      \/ client + commands = 1 /\ client' + commands' = 0
    BY DEF IInv, vars, OnlyByCommit
  <2>1. client \in Nat /\ commands \in Nat /\ level \in Nat
    BY DataStoreAssumption DEF DataStoreAssumption, Safe, Types
  <2>2. mishaps \subseteq mishaps'
    BY DEF Next, ClientTransaction, Handler, Exec, ClientBegin, ClientCommit, ClientRollback, Close,
           Transaction, Commit, CommitAppend, Destroyed, Start, Notify, GiveUp, Execute, Fail,
           RetryNothing, Retry, RetryIncomplete, Cleanup, CommitTransaction, Commits, CommitFails,
           RollbackTransaction, Inner, Committed, RolledBack
  <2>3. level = client + commands /\ (level > 0 => open)
    BY <2>2 DEF Safe, Balanced
  <2>4. ASSUME NEW lost, Ends(lost) PROVE level = 1
    BY <2>4 DEF Ends, Commits, CommitFails, RollbackTransaction, Inner
  <2>5. CASE ClientCommit \/ ClientRollback
    <3>1. level = 1 /\ commands = 0
      BY <2>4, <2>5 DEF ClientCommit, ClientRollback, CommitTransaction, Ends
    <3>2. client' = 0 /\ commands' = 0
      BY <2>1, <2>3, <2>5, <3>1 DEF ClientCommit, ClientRollback
    <3> QED  BY <2>1, <2>3, <3>1, <3>2
  <2>6. CASE Commit \/ CommitAppend \/ Destroyed
    <3>1. level = 1 /\ commands > 0 /\ commands' = commands - 1 /\ client' = client
      BY <2>4, <2>6 DEF Commit, CommitAppend, CommitTransaction, Destroyed, Ends
    <3>2. client' = 0 /\ commands' = 0
      BY <2>1, <2>3, <3>1
    <3> QED  BY <2>1, <2>3, <3>1, <3>2
  <2>7. CASE ClientBegin \/ Transaction \/ Close \/ Cleanup \/ GiveUp
    BY <2>7 DEF ClientBegin, Transaction, Close, Cleanup, GiveUp
  <2>8. CASE Notify \/ \E kind \in Kinds : Start(kind)
    <3>1. level = 0
      BY <2>1, <2>8 DEF Notify, Start, Dispatched, inTransaction
    <3> QED  BY <2>3, <3>1
  <2>9. CASE Exec
    <3>1. ASSUME level > 0 PROVE FALSE
      <4>1. open /\ told' = told
        BY <2>3, <2>9, <3>1
           DEF Exec, Execute, Fail, RetryNothing, Retry, RetryIncomplete, Succeeds, Fails
      <4>2. stored' = stored
        BY <2>9, <4>1 DEF Exec, Execute, Fail, RetryNothing, Retry, RetryIncomplete, Restarted,
                          RestartMishaps
      <4> QED  BY <4>1, <4>2
    <3>2. level = 0
      BY <2>1, <3>1
    <3> QED  BY <2>3, <3>2
  <2> QED  BY <2>5, <2>6, <2>7, <2>8, <2>9 DEF Next, ClientTransaction, Handler
<1> QED  BY <1>1, Invariance, PTL DEF Spec, NothingBeforeCommit
=============================================================================
