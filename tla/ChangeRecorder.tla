--------------------------- MODULE ChangeRecorder ---------------------------
(***************************************************************************)
(* ChangeRecorder: the monitor of a resource, which keeps the changes it   *)
(* is notified of in a list and in a file, and replays them one by one.    *)
(*                                                                         *)
(* The recorder lives in the event loop of its agent.  It waits at two     *)
(* places: for the data of the change it replays (the pipeline), and for   *)
(* the resource to call changeProcessed().  Notifications arrive in        *)
(* between, and the agent may crash; it then starts again from the file.   *)
(*                                                                         *)
(* The memory of the recorder and its file are one record, r, and every    *)
(* method is an operator from the record before to the record after.  The  *)
(* argument w says whether the file can be opened for writing meanwhile.   *)
(***************************************************************************)
EXTENDS Monitor

CONSTANTS
  Notices,       \* the messages the server may send
  Listenings,    \* the sets of signals a version of the agent connects
  AllowUpgrade,  \* whether a crashed agent may come back in another version
  OldFiles,      \* the files a recorder may find when it first starts
  MaxNotices,    \* bound: messages the server sends
  MaxBatch,      \* bound: messages in one call of slotNotify()
  MaxCrashes,    \* bound: crashes
  MaxFailures,   \* bound: calls during which the file cannot be opened
  MaxAborts,     \* bound: replays given up because the resource goes offline
  MaxDefers,     \* bound: changes the resource puts off
  MaxSpent       \* bound: all of these together

\* version, start offset and entries of the file
File == [version : 0..3, offset : Nat, entries : Seq(Message)]

ASSUME RecorderAssumption ==
  /\ IsFiniteSet(Entities)
  /\ Notices \subseteq {m \in Message : m.entities # {}}
  /\ Listenings \subseteq SUBSET Signal
  /\ AllowUpgrade \in BOOLEAN
  /\ OldFiles \subseteq File
  /\ \A n \in {MaxNotices, MaxBatch, MaxCrashes, MaxFailures, MaxAborts,
             MaxDefers, MaxSpent} : n \in Nat

-----------------------------------------------------------------------------
(* The record *)

\* lastKnown, startOffset and needFullSave are the m_ members of these names.
Recorder ==
  [pending : Seq(Message), pipeline : Seq(Message), lastKnown : Int,
   startOffset : Nat, needFullSave : BOOLEAN, file : File]

\* Mutant: the writer's version is raised, the reader's is not.
SavedAsNextVersion(pending) == [version |-> 4, offset |-> 0, entries |-> pending]

SavedFile(pending) == [version |-> 3, offset |-> 0, entries |-> pending]

\* The constructor; also stands for the memory of an agent that is not running.
EmptyRecorder(file) ==
  [pending |-> <<>>, pipeline |-> <<>>, lastKnown |-> 0, startOffset |-> 0,
   needFullSave |-> TRUE, file |-> file]

saveNotifications(r, w) ==
  IF ~w THEN r
  ELSE [r EXCEPT !.file = SavedFile(r.pending),
                 !.needFullSave = FALSE, !.startOffset = 0]

writeStartOffset(r, w) == IF ~w THEN r ELSE [r EXCEPT !.file.offset = r.startOffset]

notificationsEnqueued(r, count, w) ==
  saveNotifications([r EXCEPT !.lastKnown = @ + count], w)

notificationsErased(r, w) ==
  saveNotifications([r EXCEPT !.lastKnown = Len(r.pending),
                              !.needFullSave = TRUE], w)

\* Mutant: a file that was loaded from the middle is not rewritten first.
dequeueOffsetOnly(r, w) ==
  LET d == [r EXCEPT !.pending = Tail(@), !.lastKnown = @ - 1]
  IN IF d.pending = <<>> THEN saveNotifications(d, w)
     ELSE writeStartOffset([d EXCEPT !.startOffset = @ + 1], w)

dequeueNotification(r, w) ==
  LET d == [r EXCEPT !.pending = Tail(@), !.lastKnown = @ - 1]
  IN IF d.needFullSave \/ d.pending = <<>> THEN saveNotifications(d, w)
     ELSE writeStartOffset([d EXCEPT !.startOffset = @ + 1], w)

\* loadFrom(): the two oldest formats are read, but nothing comes of it.
Loaded(file) ==
  IF file.version \in {2, 3}
  THEN SubSeq(file.entries, file.offset + 1, Len(file.entries)) ELSE <<>>

\* Mutant: the offset is forgotten, so that what was replayed is replayed again.
loadFromStart(file) ==
  [pending |-> file.entries, pipeline |-> <<>>, lastKnown |-> Len(file.entries),
   startOffset |-> 0, needFullSave |-> file.version = 0, file |-> file]

loadNotifications(file) ==
  [pending |-> Loaded(file), pipeline |-> <<>>, lastKnown |-> Len(Loaded(file)),
   startOffset |-> 0, needFullSave |-> file.offset > 0 \/ file.version = 0,
   file |-> file]

\* slotNotify()
slotNotify(r, sig, msgs, w) ==
  LET wanted == Wanted(sig, msgs)
      done == Enqueued(sig, r.pending, wanted)
      n == [r EXCEPT !.pending = done.list]
  IN IF wanted = <<>> THEN r
     ELSE IF done.erased THEN notificationsErased(n, w)
     ELSE notificationsEnqueued(n, done.appended, w)

\* cleanOldNotifications(): what nobody listens to any more is dropped.
StillHeard(sig, list) ==
  Keep(list, {m \in Elements(list) : ~isLazilyIgnored(sig, m, FALSE)})

cleanOldNotifications(r, sig, w) ==
  LET c == [r EXCEPT !.pipeline = StillHeard(sig, @),
                     !.pending = StillHeard(sig, @)]
  IN IF c.pipeline = r.pipeline /\ c.pending = r.pending THEN r
     ELSE notificationsErased(c, w)

\* How far replayNext() got, and why it stopped.
Said == {"again", "emitted", "waiting", "nothing", "fault"}
At(r, said) == [r |-> r, said |-> said]

\* The end of a round that emitted nothing: the next change is up.  dequeue()
\* of an empty queue is undefined; the agent does not survive it here.
SkipHead(r, w) ==
  IF r.pending = <<>> THEN At(r, "fault")
  ELSE At(dequeueNotification(r, w), "again")

\* One call of replayNext(); "cached" are the messages whose data is at hand.
ReplayOne(r, sig, cached, w) ==
  LET msg == Head(r.pending)
      filled == translateAndCompress(r.pipeline, msg)
  IN IF r.pending = <<>> THEN At(r, "nothing")
     ELSE IF msg \in cached
     THEN IF Hears(sig, msg) THEN At(r, "emitted")
          ELSE SkipHead(cleanOldNotifications(r, sig, w), w)
     ELSE IF filled.appended > 0
     THEN At([r EXCEPT !.pipeline = filled.list], "waiting")
     ELSE SkipHead([r EXCEPT !.pipeline = filled.list], w)

\* replayNext(), with the calls it makes to itself: each shortens the list.
replayNext(r, sig, cached, w) ==
  LET step[x \in [r : Recorder, said : Said]] ==
        IF x.said = "again" THEN ReplayOne(x.r, sig, cached, w) ELSE x
  IN Iterate(step, At(r, "again"), Len(r.pending) + 1)

\* flushPipeline(): the data of the first n messages has arrived.  Nobody asks
\* emitNotification() here whether anything was emitted.
FlushOne(x, sig, w) ==
  LET msg == Head(x.r.pipeline)
      taken == [x.r EXCEPT !.pipeline = Tail(@)]
  IN IF x.r.pipeline = <<>> THEN x
     ELSE IF Hears(sig, msg)
     THEN [r |-> taken, emitted |-> Append(x.emitted, msg)]
     ELSE [x EXCEPT !.r = cleanOldNotifications(taken, sig, w)]

flushPipeline(r, sig, n, w) ==
  LET step[x \in [r : Recorder, emitted : Seq(Message)]] == FlushOne(x, sig, w)
  IN Iterate(step, [r |-> r, emitted |-> <<>>], n)

\* Mutant: the change that was processed stays in the record.
ProcessedStays(r, w) == r

\* changeProcessed()
changeProcessed(r, w) ==
  IF r.pending = <<>> THEN r ELSE dequeueNotification(r, w)

-----------------------------------------------------------------------------
(* The agent *)

VARIABLES
  rec,         \* the recorder and its file
  up,          \* whether the agent runs
  heard,       \* the signals that have receivers
  replaying,   \* whether the ChangeReplay task runs
  handlers,    \* the changes emitted and not yet answered
  spent        \* how much of each bound is used up

vars == <<rec, up, heard, replaying, handlers, spent>>

Bound == [notices |-> MaxNotices, crashes |-> MaxCrashes,
          failures |-> MaxFailures, aborts |-> MaxAborts,
          defers |-> MaxDefers]

Total(s) == s.notices + s.crashes + s.failures + s.aborts + s.defers

\* One more of a bounded event.
Spend(what, n) ==
  /\ Total(spent) + n <= MaxSpent
  /\ spent[what] + n <= Bound[what]
  /\ spent' = [spent EXCEPT ![what] = @ + n]

\* A call during which the file can be written, or, within the bound, not.
Writing(w) ==
  IF w THEN UNCHANGED spent ELSE Spend("failures", 1)

Init ==
  /\ \E file \in OldFiles : rec = loadNotifications(file)
  /\ heard \in Listenings
  /\ up = TRUE
  /\ replaying = FALSE
  /\ handlers = <<>>
  /\ spent = [b \in DOMAIN Bound |-> 0]

\* The server notifies of changes.
Notify(msgs, w) ==
  /\ up
  /\ spent.notices + Len(msgs) <= MaxNotices
  /\ w \/ spent.failures < MaxFailures
  /\ Total(spent) + Len(msgs) + (IF w THEN 0 ELSE 1) <= MaxSpent
  /\ rec' = slotNotify(rec, heard, msgs, w)
  /\ spent' = [spent EXCEPT !.notices = @ + Len(msgs),
                            !.failures = IF w THEN @ ELSE @ + 1]
  /\ UNCHANGED <<up, heard, replaying, handlers>>

Died(r) ==
  /\ rec' = EmptyRecorder(r.file)
  /\ up' = FALSE
  /\ replaying' = FALSE
  /\ handlers' = <<>>

\* Mutant: a replay that finds no change does not tell (no nothingToReplay()).
ReplayNextUnreported(cached, w) ==
  LET x == replayNext(rec, heard, cached, w) IN
  /\ up /\ ~replaying
  /\ Writing(w)
  /\ UNCHANGED heard
  /\ \/ x.said = "fault" /\ Died(x.r)
     \/ /\ x.said # "fault"
        /\ rec' = x.r
        /\ replaying' = TRUE
        /\ handlers' = IF x.said = "emitted" THEN Append(handlers, Head(x.r.pending))
                       ELSE handlers
        /\ UNCHANGED up

\* The scheduler runs its ChangeReplay task.
ReplayNext(cached, w) ==
  LET x == replayNext(rec, heard, cached, w) IN
  /\ up /\ ~replaying
  /\ Writing(w)
  /\ UNCHANGED heard
  /\ \/ /\ x.said = "fault"
        /\ Died(x.r)
     \/ /\ x.said # "fault"
        /\ rec' = x.r
        /\ replaying' = (x.said # "nothing")
        /\ handlers' = IF x.said = "emitted" THEN Append(handlers, Head(x.r.pending))
                       ELSE handlers
        /\ UNCHANGED up

\* The session delivers what the pipeline waits for.
DataAvailable(n, w) ==
  LET x == flushPipeline(rec, heard, n, w) IN
  /\ up
  /\ Writing(w)
  /\ rec' = x.r
  /\ handlers' = handlers \o x.emitted
  /\ UNCHANGED <<up, heard, replaying>>

\* The resource is done with a change: ResourceBase calls changeProcessed()
\* and ends the task.
ChangeProcessed(i, w) ==
  /\ up
  /\ Writing(w)
  /\ rec' = changeProcessed(rec, w)
  /\ handlers' = Without(handlers, i)
  /\ replaying' = FALSE
  /\ UNCHANGED <<up, heard>>

\* The resource cannot handle the change now: ResourceBase defers the task, and
\* the change stays in the record.
Defer(i) ==
  /\ up
  /\ Spend("defers", 1)
  /\ handlers' = Without(handlers, i)
  /\ replaying' = FALSE
  /\ UNCHANGED <<rec, up, heard>>

\* The resource goes offline: the scheduler gives the task up, and neither the
\* pipeline nor the resource hears of it.
Abort ==
  /\ up /\ replaying
  /\ Spend("aborts", 1)
  /\ replaying' = FALSE
  /\ UNCHANGED <<rec, up, heard, handlers>>

Crash ==
  /\ up
  /\ Spend("crashes", 1)
  /\ Died(rec)
  /\ UNCHANGED heard

\* The next start, possibly of another version of the agent.
Restart ==
  /\ ~up
  /\ rec' = loadNotifications(rec.file)
  /\ heard' \in IF AllowUpgrade THEN Listenings ELSE {heard}
  /\ up' = TRUE
  /\ UNCHANGED <<replaying, handlers, spent>>

Batches == UNION {[1..n -> Notices] : n \in 1..MaxBatch}

Next ==
  \/ \E msgs \in Batches, w \in BOOLEAN : Notify(msgs, w)
  \/ \E cached \in SUBSET Elements(rec.pending), w \in BOOLEAN : ReplayNext(cached, w)
  \/ \E n \in 1..Len(rec.pipeline), w \in BOOLEAN : DataAvailable(n, w)
  \/ \E i \in DOMAIN handlers, w \in BOOLEAN : ChangeProcessed(i, w)
  \/ \E i \in DOMAIN handlers : Defer(i)
  \/ Abort
  \/ Crash
  \/ Restart

Spec == Init /\ [][Next]_vars

\* The scheduler keeps running replays while there are changes, fetch jobs
\* end, the resource answers each change, and the server restarts agents.
Fairness ==
  /\ WF_vars(rec.pending # <<>> /\ \E cached \in SUBSET Elements(rec.pending) :
               ReplayNext(cached, TRUE))
  /\ WF_vars(\E n \in 1..Len(rec.pipeline) : DataAvailable(n, TRUE))
  /\ WF_vars(\E i \in DOMAIN handlers : ChangeProcessed(i, TRUE))
  /\ WF_vars(Restart)

FairSpec == Spec /\ Fairness

-----------------------------------------------------------------------------
(* Properties *)

\* Every variable has its type.
TypeOK ==
  /\ rec \in Recorder
  /\ up \in BOOLEAN /\ replaying \in BOOLEAN
  /\ heard \in SUBSET Signal
  /\ handlers \in Seq(Message)
  /\ spent \in [DOMAIN Bound -> Nat]

\* A start from the file at any moment would bring back the changes that are
\* in memory, although the file is written in three different ways: whole, not
\* at all, or only its start offset.
FileHoldsPending ==
  up /\ spent.failures = 0 => Loaded(rec.file) = rec.pending

\* The assertions of notificationsEnqueued() and dequeueNotification(): nobody
\* changes the list without telling the recorder.
CountIsKnown == up => rec.lastKnown = Len(rec.pending)

\* What changeProcessed() takes out of the record is the change that was emitted,
\* or what others have been merged into it since.
ProcessedIsRemoved ==
  [][\A i \in DOMAIN handlers, w \in BOOLEAN :
       ChangeProcessed(i, w) =>
         /\ rec.pending # <<>>
         /\ SameSubject(Head(rec.pending), handlers[i])
         /\ Head(rec.pending).op = handlers[i].op]_vars

\* What the promises of the recorder leave out: a file that cannot be written, a
\* replay that is given up while the pipeline has its change, changes recorded
\* for another version of the agent, and those of collections nobody listens to.
Calm == spent.failures = 0 /\ spent.aborts = 0
Current == StillHeard(heard, rec.pending) = rec.pending
AllHeard == \A m \in Elements(rec.pending) : Hears(heard, m)

\* The task that replays changes ends.
ReplayEnds == [](Calm /\ AllHeard) => (replaying ~> ~replaying)

\* All changes are replayed in the end.
AllReplayed == [](Calm /\ AllHeard) => <>[](up /\ rec.pending = <<>>)

\* The recorder is a log that survives crashes.
Log == INSTANCE ChangeLog WITH log <- Loaded(rec.file), given <- Len(handlers)
ImplementsLog == Log!Init /\ [][Current /\ Calm' => Log!Next]_(Log!vars)
=============================================================================
