---------------------------- MODULE ChangeReplay ----------------------------
(***************************************************************************)
(* The way of a change from the cache to the server it belongs to: clients *)
(* change items in the Akonadi cache, the ChangeRecorder of the resource   *)
(* records that, and the resource, here the one for IMAP, repeats the      *)
(* changes on its server.  In the end both should hold the same.           *)
(*                                                                         *)
(* A client's change and its notification are one step.  The data of an    *)
(* item is what the cache holds when its change is emitted: the recorder's *)
(* own cache is invalidated by each notification, and by the job that      *)
(* stores the new remote id of an item that was uploaded.                  *)
(*                                                                         *)
(* What the resource does for a change takes several requests to the       *)
(* server, and each of them may be the last: the agent may crash, and the  *)
(* server may refuse.  A message that was appended is not appended again   *)
(* in its place, but once more.                                            *)
(***************************************************************************)
EXTENDS ChangeRecorder

CONSTANTS
  Home,          \* the collection of the items, which the resource watches
  AtFirst,       \* the items there are at first, with their flags
  Workloads      \* what clients may do: the sessions, the kinds of changes,
                 \* the sets of items they change at once, and, as bounds,
                 \* how many changes they make and how often the agent
                 \* crashes or puts a change off meanwhile; and whether
                 \* requests to the mail server may fail

ASSUME ReplayAssumption ==
  /\ Home \in Watched \cap Collections
  /\ "PLD:RFC822" \in Parts
  /\ DOMAIN AtFirst \subseteq Entities
  /\ \A i \in DOMAIN AtFirst : AtFirst[i] \subseteq Marks
  /\ Workloads \subseteq [sessions : SUBSET Sessions, kinds : SUBSET Operation,
                          groups : SUBSET ((SUBSET Entities) \ {{}}), most : Nat, faults : Nat,
                          errors : BOOLEAN]

VARIABLES
  workload,      \* what the clients of this behaviour do
  cache,         \* the items in the Akonadi cache
  remote,        \* the message on the server that an item's remote id names
  copies,        \* how many messages of an item are on the server, undeleted
  carried,       \* the data that went with each emitted change, and how far
                 \* the resource is with it
  raced,         \* the items notified of while a change of theirs was in flight
  ahead,         \* the items that have, in part, what recorded flag changes say
  muddled,       \* the items whose flag changes were merged out of order
  dropped,       \* the items a change of which was given up
  doubled,       \* the items of which a message was left behind on the server
  displaced      \* whether the record of a change in flight was erased

server == <<remote, copies>>
history == <<raced, ahead, muddled, dropped, doubled, displaced>>
replayVars == <<vars, workload, cache, server, carried, history>>

\* "body" counts the versions of the payload.
Data == [there : BOOLEAN, body : Nat, flags : SUBSET Marks]
Store == [Entities -> Data]

Absent == [there |-> FALSE, body |-> 0, flags |-> {}]

ReplayInit ==
  /\ Init
  /\ workload \in Workloads
  /\ cache = [i \in Entities |->
                IF i \in DOMAIN AtFirst
                THEN [there |-> TRUE, body |-> 0, flags |-> AtFirst[i]] ELSE Absent]
  /\ remote = cache
  /\ copies = [i \in Entities |-> IF i \in DOMAIN AtFirst THEN 1 ELSE 0]
  /\ carried = <<>>
  /\ raced = {} /\ ahead = {} /\ muddled = {} /\ dropped = {} /\ doubled = {}
  /\ displaced = FALSE

-----------------------------------------------------------------------------
(* Clients *)

\* The items that changes are on their way for, out of the record's reach.
InFlight == UNION {m.entities : m \in Elements(handlers) \cup Elements(rec.pipeline)}

\* The items whose flag changes are recorded.
FlagsRecorded(r) ==
  UNION {m.entities : m \in {n \in Elements(r.pending) : n.op = "ModifyFlags"}}

\* The record of the change in flight does not stay the first one.
Displaces ==
  /\ InFlight # {}
  /\ \/ rec.pending = <<>> \/ rec'.pending = <<>>
     \/ ~SameSubject(Head(rec.pending), Head(rec'.pending))

\* Entry j of the record absorbs a flag change, and what is repeated then is not
\* what was done:
\*  - it sets a flag that the entry removes, and removals are repeated last, or
\*    both are dropped although the flag is set in the end;
\*  - both are dropped, but some of what they undo was not done in between: it
\*    was so before, or has been repeated already;
\*  - it comes before a change recorded in between, which changes the flag back.
Muddles(msg, j) ==
  LET old == rec.pending[j] IN
  /\ j = FirstIn(rec.pending, Stops(rec.pending, msg))
  /\ \/ /\ Merges(msg, old) /\ msg.added \cap old.removed # {}
        /\ ~(msg.added = old.removed /\ msg.removed = old.added)
     \/ /\ Merges(msg, old) /\ NoChange(Merged(msg, old))
        /\ msg.entities \cap ahead' # {}
     \/ \E k \in DOMAIN rec.pending :
          LET other == rec.pending[k] IN
          /\ j < k /\ other.entities \cap msg.entities # {}
          /\ (msg.added \cap other.removed) \cup (msg.removed \cap other.added) # {}

\* What can be told of a change of some items: which they are, and which flags
\* they have gained and lost.
Tidings == [op : workload.kinds, entities : (SUBSET Entities) \ {{}},
            added : SUBSET Marks, removed : SUBSET Marks]

Told(tiding, s) ==
  [type |-> "Items", op |-> tiding.op, entities |-> tiding.entities, session |-> s,
   parent |-> Home, dest |-> None,
   parts |-> IF tiding.op = "Modify" THEN {"PLD:RFC822"} ELSE {},
   added |-> tiding.added, removed |-> tiding.removed]

Tells(tiding, op, S, plus, minus) ==
  tiding = [op |-> op, entities |-> S, added |-> plus, removed |-> minus]

\* Ids are not used twice: an item that was there once is not created again.
Create(i, tiding) ==
  /\ Tells(tiding, "Add", {i}, {}, {})
  /\ cache[i] = Absent /\ i \notin DOMAIN AtFirst
  /\ cache' = [cache EXCEPT ![i] = [there |-> TRUE, body |-> 1, flags |-> {}]]

Edit(i, tiding) ==
  /\ Tells(tiding, "Modify", {i}, {}, {})
  /\ cache[i].there
  /\ cache' = [cache EXCEPT ![i].body = @ + 1]

Flag(S, plus, minus) ==
  cache' = [i \in Entities |->
              IF i \in S THEN [cache[i] EXCEPT !.flags = (@ \cup plus) \ minus]
              ELSE cache[i]]

\* setItemsFlags() tells of the flags that changed in any of the items.
SetFlags(S, flags, tiding) ==
  LET plus == {x \in flags : \E i \in S : x \notin cache[i].flags}
      minus == (UNION {cache[i].flags : i \in S}) \ flags
  IN /\ Tells(tiding, "ModifyFlags", S, plus, minus)
     /\ plus \cup minus # {}
     /\ Flag(S, flags, minus)

\* appendItemsFlags() tells of each flag by itself, and of the items that did
\* not have it.
AppendFlag(S, x, tiding) ==
  LET lacking == {i \in S : x \notin cache[i].flags} IN
  /\ Tells(tiding, "ModifyFlags", lacking, {x}, {})
  /\ Flag(lacking, {x}, {})

\* removeItemsFlags() tells of all flags it was given, if any item had any.
RemoveFlags(S, flags, tiding) ==
  /\ Tells(tiding, "ModifyFlags", S, {}, flags)
  /\ \E i \in S : cache[i].flags \cap flags # {}
  /\ Flag(S, {}, flags)

Delete(S, tiding) ==
  /\ Tells(tiding, "Remove", S, {}, {})
  /\ cache' = [i \in Entities |->
                 IF i \in S THEN [cache[i] EXCEPT !.there = FALSE] ELSE cache[i]]

\* A client has changed items; while the agent does not run, nobody is notified.
Notified(msg) ==
  /\ IF up THEN Notify(<<msg>>, TRUE)
     ELSE Spend("notices", 1) /\ UNCHANGED <<rec, up, heard, replaying, handlers>>
  /\ ahead' = ahead \cup {i \in msg.entities : \/ msg.added \cap cache[i].flags # {}
                                               \/ ~(msg.removed \subseteq cache[i].flags)}
  /\ muddled' = IF \E j \in DOMAIN rec.pending : Muddles(msg, j)
                THEN muddled \cup msg.entities ELSE muddled
  /\ raced' = raced \cup (msg.entities \cap InFlight) \cup (IF up THEN {} ELSE msg.entities)
  /\ displaced' = (displaced \/ Displaces)
  /\ UNCHANGED <<workload, server, carried, dropped, doubled>>

Change(tiding) ==
  /\ \/ \E i \in Entities : Create(i, tiding) \/ Edit(i, tiding)
     \/ \E S \in workload.groups :
          /\ \A i \in S : cache[i].there
          /\ \/ Delete(S, tiding)
             \/ \E flags \in SUBSET Marks : SetFlags(S, flags, tiding) \/ RemoveFlags(S, flags, tiding)
             \/ \E x \in Marks : AppendFlag(S, x, tiding)
  /\ \E s \in workload.sessions : Notified(Told(tiding, s))

-----------------------------------------------------------------------------
(* The resource *)

\* A new message takes three requests: it is appended, the one it replaces is
\* marked as deleted, and its uid becomes the remote id of the item.  Flags are
\* added by one request and removed by the next.
Stages == {"given", "appended", "cleared", "added", "done"}

\* The data of what was emitted in this step goes along.
Carry == carried' = [i \in DOMAIN handlers' |->
                       IF i <= Len(handlers) THEN carried[i]
                       ELSE [stage |-> "given", data |-> cache]]

Replay(cached) ==
  /\ ReplayNext(cached, TRUE)
  /\ Carry
  /\ UNCHANGED <<workload, cache, server, history>>

Arrive(n) ==
  /\ DataAvailable(n, TRUE)
  /\ Carry
  /\ UNCHANGED <<workload, cache, server, history>>

Uploading(k) == handlers[k].op \in {"Add", "Modify"}

\* The items of a change that still have a payload to upload.
Sent(k) == {i \in handlers[k].entities : carried[k].data[i].there}

\* There is something to tell the server.
HasWork(k) ==
  \/ Uploading(k) /\ Sent(k) # {}
  \/ handlers[k].op = "ModifyFlags" /\ handlers[k].added \cup handlers[k].removed # {}
  \/ handlers[k].op = "Remove"

Reach(k, stage) == carried' = [carried EXCEPT ![k].stage = stage]

\* The messages that the remote ids of S name are marked as deleted.
Unmessage(S) ==
  /\ remote' = [i \in Entities |->
                  IF i \in S THEN [remote[i] EXCEPT !.there = FALSE] ELSE remote[i]]
  /\ copies' = [i \in Entities |->
                  IF i \in S /\ remote[i].there THEN copies[i] - 1 ELSE copies[i]]

\* AddItemTask and ChangeItemTask append a message with the payload and the
\* flags of the item they were given, ...
AppendMessage(k) ==
  /\ Uploading(k) /\ HasWork(k) /\ carried[k].stage = "given"
  /\ copies' = [i \in Entities |-> IF i \in Sent(k) THEN copies[i] + 1 ELSE copies[i]]
  /\ Reach(k, "appended")
  /\ UNCHANGED <<vars, workload, cache, remote, history>>

\* Mutant: the message that is replaced stays.
ClearNothing(k) ==
  /\ handlers[k].op = "Modify" /\ carried[k].stage = "appended"
  /\ Reach(k, "cleared")
  /\ UNCHANGED <<vars, workload, cache, server, history>>

\* ... ChangeItemTask marks the message it replaces as deleted, ...
Clear(k) ==
  /\ handlers[k].op = "Modify" /\ carried[k].stage = "appended"
  /\ Unmessage(Sent(k))
  /\ Reach(k, "cleared")
  /\ UNCHANGED <<vars, workload, cache, history>>

\* ... which it goes on without if that fails, ...
LeavesOld(k) == handlers[k].op = "Modify" /\ carried[k].stage = "appended"

\* ... and changeCommitted() stores the new uid in the items that still are there.
EndUpload(k) ==
  /\ Uploading(k) /\ carried[k].stage \in {"appended", "cleared"}
  /\ Reach(k, "done")
  /\ ahead' = ahead \cup (handlers[k].entities \cap FlagsRecorded(rec))
  /\ UNCHANGED <<vars, workload, cache, copies, raced, muddled, displaced>>

Commit(k) ==
  LET named == {i \in Sent(k) : cache[i].there} IN
  /\ EndUpload(k)
  /\ LeavesOld(k) => workload.errors
  /\ remote' = [i \in Entities |-> IF i \in named THEN carried[k].data[i] ELSE remote[i]]
  /\ dropped' = dropped \ named
  /\ doubled' = IF LeavesOld(k) THEN doubled \cup Sent(k) ELSE doubled

\* The new message is on the server, but the item does not name it: AddItemTask
\* does not find its uid and makes an id up, or the cache does not take the uid,
\* at which nobody looks.
Lose(k) ==
  /\ EndUpload(k)
  /\ workload.errors
  /\ \/ /\ handlers[k].op = "Add"
        /\ remote' = [i \in Entities |->
                        IF i \in Sent(k) THEN [remote[i] EXCEPT !.there = FALSE] ELSE remote[i]]
     \/ UNCHANGED remote
  /\ dropped' = dropped \cup Sent(k)
  /\ doubled' = doubled \cup Sent(k)

\* ChangeItemsFlagsTask adds flags first, ...
Reflag(k, plus, minus) ==
  /\ handlers[k].op = "ModifyFlags"
  /\ remote' = [i \in Entities |->
                  IF i \in handlers[k].entities /\ remote[i].there
                  THEN [remote[i] EXCEPT !.flags = (@ \cup plus) \ minus] ELSE remote[i]]
  /\ UNCHANGED <<vars, workload, cache, copies, history>>

StoreAdded(k) ==
  /\ carried[k].stage = "given" /\ handlers[k].added # {}
  /\ Reflag(k, handlers[k].added, {})
  /\ Reach(k, IF handlers[k].removed = {} THEN "done" ELSE "added")

\* ... then removes others.
StoreRemoved(k) ==
  /\ carried[k].stage = IF handlers[k].added = {} THEN "given" ELSE "added"
  /\ handlers[k].removed # {}
  /\ Reflag(k, {}, handlers[k].removed)
  /\ Reach(k, "done")

\* itemsRemoved() marks the messages as deleted.
MarkDeleted(k) ==
  /\ handlers[k].op = "Remove" /\ carried[k].stage = "given"
  /\ Unmessage(handlers[k].entities)
  /\ Reach(k, "done")
  /\ dropped' = dropped \ handlers[k].entities
  /\ UNCHANGED <<vars, workload, cache, raced, ahead, muddled, doubled, displaced>>

\* The end of the task leads to changeProcessed(); there may be nothing to do.
Answer(k) ==
  /\ carried[k].stage = "done" \/ ~HasWork(k)
  /\ ChangeProcessed(k, TRUE)
  /\ carried' = Without(carried, k)
  /\ ahead' = ahead \cap FlagsRecorded(rec')
  /\ UNCHANGED <<workload, cache, server, raced, muddled, dropped, doubled, displaced>>

\* A request fails, or the connection is lost: cancelTask() takes the change out of
\* the record as well, with what is done of it.
Cancel(k) ==
  /\ workload.errors
  /\ HasWork(k) /\ carried[k].stage # "done"
  /\ ChangeProcessed(k, TRUE)
  /\ carried' = Without(carried, k)
  /\ ahead' = (ahead \cup IF Uploading(k) THEN handlers[k].entities ELSE {})
                \cap FlagsRecorded(rec')
  /\ dropped' = dropped \cup handlers[k].entities
  /\ doubled' = IF carried[k].stage \in {"appended", "cleared"}
                THEN doubled \cup handlers[k].entities ELSE doubled
  /\ UNCHANGED <<workload, cache, server, raced, muddled, displaced>>

\* The agent may fail once more.
Faulty == spent.crashes + spent.defers < workload.faults

\* The task has no connection to the server and is put off.
PutOff(k) ==
  /\ carried[k].stage = "given" /\ Faulty
  /\ Defer(k)
  /\ carried' = Without(carried, k)
  /\ UNCHANGED <<workload, cache, server, history>>

\* The changes of which a crash leaves a message on the server that the next
\* attempt does not replace.
LeavesMessage(k) ==
  \/ Uploading(k) /\ carried[k].stage \in {"appended", "cleared"}
  \/ handlers[k].op = "Add" /\ carried[k].stage = "done"

\* What was repeated and not yet answered is repeated again.
AgentCrash ==
  /\ Crash /\ Faulty
  /\ carried' = <<>>
  /\ ahead' = ahead \cup (FlagsRecorded(rec) \cap
                 UNION {handlers[k].entities :
                          k \in {n \in DOMAIN handlers : carried[n].stage \in {"added", "done"}}})
  /\ doubled' = doubled \cup
                 UNION {handlers[k].entities : k \in {n \in DOMAIN handlers : LeavesMessage(n)}}
  /\ UNCHANGED <<workload, cache, server, raced, muddled, dropped, displaced>>

AgentRestart == Restart /\ UNCHANGED <<workload, cache, server, carried, history>>

Clients ==
  /\ spent.notices < workload.most
  /\ \E tiding \in Tidings : Change(tiding)

ReplayStep ==
  \/ Clients
  \/ \E cached \in SUBSET Elements(rec.pending) : Replay(cached)
  \/ \E n \in 1..Len(rec.pipeline) : Arrive(n)
  \/ \E k \in DOMAIN handlers : AppendMessage(k)
  \/ \E k \in DOMAIN handlers : Clear(k)
  \/ \E k \in DOMAIN handlers : Commit(k)
  \/ \E k \in DOMAIN handlers : Lose(k)
  \/ \E k \in DOMAIN handlers : StoreAdded(k)
  \/ \E k \in DOMAIN handlers : StoreRemoved(k)
  \/ \E k \in DOMAIN handlers : MarkDeleted(k)
  \/ \E k \in DOMAIN handlers : Answer(k)
  \/ \E k \in DOMAIN handlers : Cancel(k)
  \/ \E k \in DOMAIN handlers : PutOff(k)
  \/ AgentCrash
  \/ AgentRestart

ReplaySpec == ReplayInit /\ [][ReplayStep]_replayVars

-----------------------------------------------------------------------------
(* Properties *)

\* Every variable has its type; each change that is being handled has its data.
ReplayTypeOK ==
  /\ TypeOK
  /\ workload \in Workloads
  /\ cache \in Store /\ remote \in Store /\ copies \in [Entities -> Nat]
  /\ carried \in [DOMAIN handlers -> [stage : Stages, data : Store]]
  /\ \A items \in {raced, ahead, muddled, dropped, doubled} : items \subseteq Entities
  /\ displaced \in BOOLEAN

Quiet == up /\ ~replaying /\ rec.pending = <<>> /\ rec.pipeline = <<>> /\ handlers = <<>>

Same(d, e) == d.there = e.there /\ (d.there => d = e)

\* When all is replayed, the server holds what the cache holds, whatever was
\* merged, dropped or repeated on the way.  Only items that were changed while a
\* change of theirs was in flight may differ, those whose flag changes were merged
\* out of order, and those a change of which was given up, until they are uploaded
\* again or deleted.
Converged ==
  Quiet => \A i \in Entities \ (raced \cup muddled \cup dropped) : Same(cache[i], remote[i])

\* The same, unless a notification erased the record of a change in flight.
ConvergedUndisturbed == displaced \/ Converged

\* No message of an item is on the server twice, or without the item knowing of it,
\* when all is replayed; but for what an upload left behind that was cut short.
OnceEach ==
  Quiet => \A i \in Entities \ (raced \cup doubled) :
             copies[i] = IF remote[i].there THEN 1 ELSE 0

\* The same, with the same exception.
OnceEachUndisturbed == displaced \/ OnceEach
=============================================================================
