----------------------------- MODULE DataStore -----------------------------
(***************************************************************************)
(* DataStore, Transaction and NotificationCollector: the changes that the  *)
(* commands of one connection make to the database, and the notifications  *)
(* about them, which are told when the outermost transaction is committed. *)
(*                                                                         *)
(* A client may begin transactions of its own; the handler of a command    *)
(* has Transaction objects, one in the other, that commit or roll back at  *)
(* their end.  Only the outermost level reaches the database.  A change    *)
(* takes several statements, and its notification comes after the last, or *)
(* after the handler's own commit, or before the first; a handler gives up *)
(* in the middle when one of them fails.  The queries of a transaction are *)
(* recorded, to be replayed when the database gives it up for a deadlock;  *)
(* QueryBuilder::exec() does that unseen by the handler.                   *)
(***************************************************************************)
EXTENDS Naturals, FiniteSets

CONSTANTS
  Steps,       \* the statements of a change
  MaxChanges,  \* bound: changes
  MaxClient,   \* bound: transactions of the client in each other
  MaxNested,   \* bound: Transaction objects of a command in each other
  MaxFaults    \* bound: errors of the database

ASSUME DataStoreAssumption ==
  /\ Steps \in Nat \ {0}
  /\ MaxChanges \in Nat /\ MaxClient \in Nat /\ MaxNested \in Nat /\ MaxFaults \in Nat

VARIABLES
  backend,   \* the kind of database
  client,    \* transactions that the client has begun
  commands,  \* Transaction objects of the command that runs
  level,     \* m_transactionLevel
  open,      \* the driver is in a transaction
  tx,        \* statements executed in it
  stored,    \* statements that are committed
  queries,   \* m_transactionQueries
  pending,   \* mNotifications of the NotificationCollector
  told,      \* changes that notify() was emitted for
  changes,   \* changes so far
  work,      \* what the handler is at
  failed,    \* changes that a handler gave up and no rollback has undone
  faults,    \* errors of the database so far
  mishaps    \* what went wrong so far

vars == <<backend, client, commands, level, open, tx, stored, queries, pending,
          told, changes, work, failed, faults, mishaps>>

\* When a change is told: a new or merged item after the command's own commit, a
\* modification after its statements, what is removed (or moved) before them.
Kinds == {"append", "modify", "remove"}

Change == [number : 1..MaxChanges, kind : Kinds]

\* One statement of a change, executed with its values.
Execution == [change : Change, step : 1..Steps]

Executions(c) == {[change |-> c, step |-> i] : i \in 1..Steps}

\* Changes of one kind use the same texts.
SameText(e, f) == e.change.kind = f.change.kind /\ e.step = f.step

Before(e, f) ==
  \/ e.change.number < f.change.number
  \/ e.change = f.change /\ e.step < f.step

\* A recorded query: what it was recorded for, and the values that are bound to it
\* now.  A query that is shared with the QueryCache is bound again when its text is
\* next used.
Query == [for : Execution, bound : Execution, shared : BOOLEAN]

\* The handler is at the statements of the last change, has committed an append that
\* it did not tell yet, or has given up and leaves its Transaction objects.
Stages == {"idle", "executing", "committed", "failing"}

Work == [stage : Stages, kind : Kinds, step : 0..Steps]

NotWorking(stage) == [stage |-> stage, kind |-> "modify", step |-> 0]

Idle == NotWorking("idle")

\* The SQLite driver of Qt serialises transactions; the other one that is
\* shipped does not, nor do MySQL and PostgreSQL, whose statements are cached.
Backends == {"sqlite", "sqlite3", "server"}
Replays == backend # "sqlite"
Cached == backend = "server"

Mishap ==
  {"unbegun",     \* a Transaction ran without a transaction
   "unexecuted",  \* a query was reported as successful that was not executed
   "incomplete",  \* a transaction was not replayed to its end
   "rebound",     \* a query was replayed with the values of a later one
   "premature",   \* what was to be replayed was committed instead
   "kept"}        \* queries of a transaction were kept after it was rolled back

Init ==
  /\ backend \in Backends
  /\ client = 0 /\ commands = 0
  /\ level = 0 /\ open = FALSE
  /\ tx = {} /\ stored = {} /\ queries = {} /\ pending = {} /\ told = {}
  /\ changes = 0 /\ work = Idle /\ failed = {}
  /\ faults = 0 /\ mishaps = {}

inTransaction == level > 0

Faults(n) == faults + n <= MaxFaults /\ faults' = faults + n

-----------------------------------------------------------------------------
(* Beginning and ending transactions *)

\* Mutant: a level is counted also when the driver could not begin.
BeginAndCount(begun) ==
  /\ level' = level + 1
  /\ open' = (open \/ begun)

\* beginTransaction(), whose driver begins one unless there is one.
BeginTransaction(begun) ==
  /\ level' = IF begun THEN level + 1 ELSE level
  /\ open' = (open \/ begun)

\* The driver need not be able to begin.
Begun(begun) ==
  \/ begun /\ UNCHANGED faults
  \/ ~begun /\ ~inTransaction /\ Faults(1)

\* Mutant: the collector does not hear of it.
RolledBackUnheard(fails) ==
  /\ level' = 0 /\ open' = FALSE /\ tx' = {}
  /\ queries' = IF fails THEN queries ELSE {}
  /\ mishaps' = IF fails /\ queries # {} THEN mishaps \cup {"kept"} ELSE mishaps
  /\ UNCHANGED <<stored, pending, told>>

\* Mutant: the queries are always kept.
RolledBackAndKept(fails) ==
  /\ level' = 0 /\ open' = FALSE /\ tx' = {}
  /\ pending' = {}
  /\ UNCHANGED <<stored, queries, told, mishaps>>

\* rollbackTransaction() of the outermost level.  The collector drops what is
\* pending; if the driver fails, the queries are kept.
RolledBack(fails) ==
  /\ level' = 0 /\ open' = FALSE /\ tx' = {}
  /\ pending' = {}
  /\ queries' = IF fails THEN queries ELSE {}
  /\ mishaps' = IF fails /\ queries # {} THEN mishaps \cup {"kept"} ELSE mishaps
  /\ UNCHANGED <<stored, told>>

\* The driver has committed, and the collector tells what is pending.
Committed ==
  /\ level' = 0 /\ open' = FALSE /\ tx' = {}
  /\ stored' = stored \cup tx
  /\ told' = told \cup pending /\ pending' = {}
  /\ queries' = {}
  /\ UNCHANGED mishaps

\* Mutant: a level is left whether there is one or not.
InnerOrNot ==
  /\ level' = level - 1
  /\ UNCHANGED <<open, tx, stored, queries, pending, told, mishaps>>

\* An inner level is left; without a transaction nothing happens.
Inner ==
  /\ level' = IF inTransaction THEN level - 1 ELSE 0
  /\ UNCHANGED <<open, tx, stored, queries, pending, told, mishaps>>

\* Nothing of the transaction is left, also of the changes that were given up in it.
Undone == pending \cup {e.change : e \in tx}

LeftAfterRollback(gone) == IF level = 1 THEN gone \ Undone ELSE gone

\* commitTransaction() returns TRUE, ...
Commits ==
  /\ UNCHANGED <<failed, faults>>
  /\ \/ level > 1 /\ Inner
     \/ level = 1 /\ Committed

\* ... or FALSE: there is no transaction, or it was rolled back.  The command gives
\* the changes in "lost" up for it.
CommitFails(lost) ==
  /\ failed' = LeftAfterRollback(failed \cup lost)
  /\ \/ ~inTransaction /\ Inner /\ UNCHANGED faults
     \/ level = 1 /\ RolledBack(FALSE) /\ Faults(1)
     \/ level = 1 /\ RolledBack(TRUE) /\ Faults(2)

CommitTransaction == Commits \/ CommitFails({})

RollbackTransaction ==
  /\ failed' = LeftAfterRollback(failed)
  /\ \/ level # 1 /\ Inner /\ UNCHANGED faults
     \/ level = 1 /\ RolledBack(FALSE) /\ UNCHANGED faults
     \/ level = 1 /\ RolledBack(TRUE) /\ Faults(1)

-----------------------------------------------------------------------------
(* Commands *)

\* The change that the handler is at.
current == [number |-> changes, kind |-> work.kind]

\* It returns with an error: the Transaction objects that are left are destroyed.
Leaves(left) == work' = IF left > 0 THEN NotWorking("failing") ELSE Idle

GivesUp == failed' = failed \cup {current} /\ Leaves(commands)

\* The client begins a transaction; if it cannot, it is told so.
ClientBegin ==
  /\ work = Idle
  /\ commands = 0 /\ client < MaxClient
  /\ client' = client + 1
  /\ BeginTransaction(TRUE)
  /\ UNCHANGED <<backend, commands, tx, stored, queries, pending, told, changes,
                 work, failed, faults, mishaps>>

ClientCommit ==
  /\ work = Idle
  /\ commands = 0 /\ inTransaction
  /\ client' = client - 1
  /\ CommitTransaction
  /\ UNCHANGED <<backend, commands, changes, work>>

ClientRollback ==
  /\ work = Idle
  /\ commands = 0 /\ inTransaction
  /\ client' = client - 1
  /\ RollbackTransaction
  /\ UNCHANGED <<backend, commands, changes, work>>

\* A Transaction is made.  It does not look whether one was begun.
Transaction ==
  /\ work = Idle
  /\ commands < MaxNested
  /\ commands' = commands + 1
  /\ \E begun \in BOOLEAN :
       /\ Begun(begun)
       /\ BeginTransaction(begun)
       /\ mishaps' = IF begun THEN mishaps ELSE mishaps \cup {"unbegun"}
  /\ UNCHANGED <<backend, client, tx, stored, queries, pending, told, changes,
                 work, failed>>

\* The innermost Transaction is committed, well or not: it ends without more.
Commit ==
  /\ work = Idle
  /\ commands > 0
  /\ commands' = commands - 1
  /\ CommitTransaction
  /\ UNCHANGED <<backend, client, changes, work>>

\* An append is committed; it is told later, if that went well.
CommitAppend ==
  /\ work = [stage |-> "executing", kind |-> "append", step |-> Steps]
  /\ commands > 0
  /\ commands' = commands - 1
  /\ \/ /\ Commits
        /\ work' = [work EXCEPT !.stage = "committed"]
     \/ CommitFails({current}) /\ Leaves(commands')
  /\ UNCHANGED <<backend, client, changes>>

\* The innermost Transaction ends without having been committed.
Destroyed ==
  /\ work.stage \in {"idle", "failing"}
  /\ commands > 0
  /\ commands' = commands - 1
  /\ RollbackTransaction
  /\ work' = IF commands' > 0 THEN work ELSE Idle
  /\ UNCHANGED <<backend, client, changes>>

\* The connection ends, and the database rolls back; the next has a DataStore of its
\* own.
Close ==
  /\ work = Idle
  /\ commands = 0
  /\ client > 0 \/ queries # {}
  /\ client' = 0
  /\ level' = 0 /\ open' = FALSE /\ tx' = {} /\ pending' = {} /\ queries' = {}
  /\ failed' = failed \ Undone
  /\ UNCHANGED <<backend, commands, stored, told, changes, work, faults, mishaps>>

-----------------------------------------------------------------------------
(* Changes, and what the collector is told of them *)

\* Mutant: notifications are not held back.
DispatchedAtOnce(c) == told' = told \cup {c} /\ UNCHANGED pending

\* dispatchNotification()
Dispatched(c) ==
  IF inTransaction THEN pending' = pending \cup {c} /\ UNCHANGED told
  ELSE told' = told \cup {c} /\ UNCHANGED pending

\* A handler starts a change.  Appends have a Transaction; removals, too, unless they
\* are the server's own, when a resource goes.
Start(kind) ==
  /\ work = Idle
  /\ changes < MaxChanges
  /\ \/ commands > 0
     \/ kind = "modify"
     \/ kind = "remove" /\ client = 0
  /\ changes' = changes + 1
  /\ work' = [stage |-> "executing", kind |-> kind, step |-> 0]
  /\ IF kind = "remove" THEN Dispatched([number |-> changes + 1, kind |-> kind])
     ELSE UNCHANGED <<pending, told>>
  /\ UNCHANGED <<backend, client, commands, level, open, tx, stored, queries, failed,
                 faults, mishaps>>

\* The collector is told after the statements of a modification, and after the commit
\* of an append.
Notify ==
  /\ \/ work = [stage |-> "executing", kind |-> "modify", step |-> Steps]
     \/ work.stage = "committed"
  /\ Dispatched(current)
  /\ work' = Idle
  /\ UNCHANGED <<backend, client, commands, level, open, tx, stored, queries, changes,
                 failed, faults, mishaps>>

\* The handler meets an error that is not the database's: of syntax, or of a file.
GiveUp ==
  /\ work.stage = "executing"
  /\ GivesUp
  /\ UNCHANGED <<backend, client, commands, level, open, tx, stored, queries, pending,
                 told, changes, faults, mishaps>>

-----------------------------------------------------------------------------
(* QueryBuilder::exec() *)

\* The next statement of the change.
Statement == [change |-> current, step |-> work.step + 1]

Executes ==
  /\ work.stage = "executing" /\ work.step < Steps
  /\ UNCHANGED <<backend, client, commands, level, changes>>

\* exec() returned TRUE.
Succeeds ==
  /\ work' = IF work.kind = "remove" /\ work.step + 1 = Steps THEN Idle
             ELSE [work EXCEPT !.step = @ + 1]
  /\ UNCHANGED <<pending, told, failed>>

\* It returned FALSE.
Fails == GivesUp /\ UNCHANGED <<pending, told>>

\* The queries when the one for e is bound: those that share it are bound to e, too.
Rebound(e) ==
  {IF q.shared /\ SameText(q.for, e) THEN [q EXCEPT !.bound = e] ELSE q : q \in queries}

\* addQueryToTransaction(), whether the query succeeded or not.
Recorded(e) ==
  Rebound(e) \cup
    (IF inTransaction /\ Replays
     THEN {[for |-> e, bound |-> e, shared |-> Cached]} ELSE {})

Execute ==
  /\ Executes
  /\ IF open THEN tx' = tx \cup {Statement} /\ UNCHANGED stored
     ELSE stored' = stored \cup {Statement} /\ UNCHANGED tx
  /\ queries' = Recorded(Statement)
  /\ Succeeds
  /\ UNCHANGED <<open, faults, mishaps>>

\* The query fails, and the handler knows.
Fail ==
  /\ Executes
  /\ Faults(1)
  /\ queries' = Recorded(Statement)
  /\ Fails
  /\ UNCHANGED <<open, tx, stored, mishaps>>

\* retryLastTransaction() cannot begin, or there is no transaction: it returns an
\* empty query, which has no error.  The database has rolled the rest back, if it
\* does so for a timeout.
RetryNothing ==
  /\ Executes
  /\ Replays
  /\ Faults(IF inTransaction THEN 2 ELSE 1)
  /\ \/ open' = FALSE /\ tx' = {}
     \/ Cached /\ UNCHANGED <<open, tx>>
  /\ queries' = Recorded(Statement)
  /\ Succeeds
  /\ mishaps' = mishaps \cup {"unexecuted"}
  /\ UNCHANGED stored

\* The transaction is begun anew.  MySQL rolls back only the statement that had to
\* wait too long; what came before is committed when another transaction is begun.
Restarted(committed) ==
  /\ committed => Cached
  /\ open' = TRUE
  /\ stored' = IF committed THEN stored \cup tx ELSE stored

RestartMishaps(committed) == IF committed THEN {"premature"} ELSE {}

ReplayMishaps(Q) == IF \E q \in Q : q.bound # q.for THEN {"rebound"} ELSE {}

\* The transaction is begun anew, and its queries are executed again.
Retry ==
  /\ Executes
  /\ Replays /\ inTransaction
  /\ Faults(1)
  /\ queries' = Recorded(Statement)
  /\ tx' = {q.bound : q \in Recorded(Statement)}
  /\ \E committed \in BOOLEAN :
       /\ Restarted(committed)
       /\ mishaps' = mishaps \cup RestartMishaps(committed)
                             \cup ReplayMishaps(Recorded(Statement))
  /\ Succeeds

\* One of them fails, and those after it are left.  The handler hears of that unless
\* the last query, which is what it gets, shares an object with one that succeeded.
RetryIncomplete ==
  /\ Executes
  /\ Replays /\ inTransaction
  /\ Faults(2)
  /\ queries' = Recorded(Statement)
  /\ \E committed \in BOOLEAN, r \in Recorded(Statement) :
       LET done == {q \in Recorded(Statement) : Before(q.for, r.for)} IN
       /\ Restarted(committed)
       /\ tx' = {q.bound : q \in done}
       /\ mishaps' = mishaps \cup {"incomplete"} \cup RestartMishaps(committed)
                             \cup ReplayMishaps(done)
       /\ \/ Fails
          \/ /\ ~SameText(r.for, Statement)
             /\ \E q \in done : q.shared /\ SameText(q.for, Statement)
             /\ Succeeds

\* The cache of queries is emptied when the thread was idle for a while.
Cleanup ==
  /\ work = Idle
  /\ commands = 0
  /\ \E q \in queries : q.shared
  /\ queries' = {[q EXCEPT !.shared = FALSE] : q \in queries}
  /\ UNCHANGED <<backend, client, commands, level, open, tx, stored, pending,
                 told, changes, work, failed, faults, mishaps>>

-----------------------------------------------------------------------------
ClientTransaction == ClientBegin \/ ClientCommit \/ ClientRollback \/ Close

Handler ==
  \/ Transaction \/ Commit \/ CommitAppend \/ Destroyed
  \/ \E kind \in Kinds : Start(kind)
  \/ Notify \/ GiveUp

Exec == Execute \/ Fail \/ RetryNothing \/ Retry \/ RetryIncomplete

Next == ClientTransaction \/ Handler \/ Exec \/ Cleanup

Spec == Init /\ [][Next]_vars

-----------------------------------------------------------------------------
(* Properties *)

\* Every variable keeps its type; no level is left that was not entered.
TypeOK ==
  /\ backend \in Backends
  /\ client \in 0..MaxClient /\ commands \in 0..MaxNested
  /\ level \in 0..(MaxClient + MaxNested) /\ open \in BOOLEAN
  /\ tx \subseteq Execution /\ stored \subseteq Execution
  /\ queries \subseteq Query
  /\ pending \subseteq Change /\ told \subseteq Change
  /\ changes \in 0..MaxChanges /\ work \in Work /\ failed \subseteq Change
  /\ faults \in 0..MaxFaults /\ mishaps \subseteq Mishap

\* The level counts the transactions of the client and of the command that runs,
\* through every failure to commit, to roll back or to replay.  While it is not 0
\* the driver is in a transaction, unless a replay could not begin one; when it is
\* 0 nothing is left behind: the driver is in none, nothing waits to be told and
\* no query to be replayed.  Transactions are not counted that none was begun for,
\* and queries are left when the driver could not roll back.
Balanced ==
  /\ level <= client + commands
  /\ "unbegun" \notin mishaps => level = client + commands
  /\ level > 0 => open \/ "unexecuted" \in mishaps
  /\ level = 0 =>
       /\ ~open /\ tx = {} /\ pending = {}
       /\ queries = {} \/ "kept" \in mishaps

\* The changes that the handler is at.
unfinished == IF work.stage \in {"executing", "committed"} THEN {current} ELSE {}

\* All statements of a change that clients were told of are in the database,
\* whatever was rolled back, unless its handler gave up outside of a transaction, or
\* in one that was committed all the same (by the client), or a replay lost something:
\* a query was reported as successful and not executed, or not all was put back.
ToldIsStored ==
  mishaps \cap {"unexecuted", "incomplete", "rebound"} = {} =>
    \A c \in told \ (failed \cup unfinished) : Executions(c) \subseteq stored

\* Of every statement in the database clients were told, unless its handler is not
\* done, or gave up outside of a transaction or in one that was committed all the same;
\* or something was changed outside of the transaction that was lost, or was committed
\* early, or a replay brought in what had been rolled back.
StoredIsTold ==
  mishaps \cap {"unexecuted", "premature", "kept"} = {} =>
    \A e \in stored : e.change \in told \cup failed \cup unfinished

OnlyByCommit ==
  /\ stored' # stored \/ told' # told
  /\ mishaps' \cap {"unbegun", "unexecuted", "premature"} = {}
  => \/ client + commands = 0
     \/ client + commands = 1 /\ client' + commands' = 0

\* Until a transaction is committed nothing of it is written to the database and
\* no notification is emitted, as datastore.h promises of beginTransaction().
\* Not so for Transactions that none was begun for, nor for what comes after a
\* replay that could not begin, nor when the database commits before a replay.
NothingBeforeCommit == [][OnlyByCommit]_vars
=============================================================================
