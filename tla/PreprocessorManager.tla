------------------------ MODULE PreprocessorManager ------------------------
(***************************************************************************)
(* PreprocessorManager and PreprocessorInstance: new items are hidden, go  *)
(* through the chain of preprocessor agents one after the other, and are   *)
(* shown at its end.                                                       *)
(*                                                                         *)
(* The threads of connections append items and enter them, directly or,    *)
(* inside a transaction of the client, into the wait queue of their        *)
(* DataStore.  Everything else runs in the main thread: the signals of     *)
(* DataStores, which are queued; the answers of agents; agents that come   *)
(* and go; the heartbeat.  All but the answers are handled under mMutex,   *)
(* which is not recursive.                                                 *)
(***************************************************************************)
EXTENDS Lists, FiniteSets

CONSTANTS
  Connections,    \* connections of clients, with their DataStores
  Items,          \* the items that are appended
  Referenced,     \* those in collections a client references
  Preprocessors,  \* the agents
  NoItem, Nobody, \* no item, no preprocessor
  MaxSignals,     \* bound: signals that wait when a client begins a transaction
  MaxFaults       \* bound: items removed, agents and connections that come or go

ASSUME PreprocessorAssumption ==
  Referenced \subseteq Items /\ Nobody \notin Preprocessors /\ NoItem \notin Items
  /\ MaxSignals \in Nat /\ MaxFaults \in Nat

VARIABLES
  item,       \* each item in the database
  hidden,     \* items with the attribute that hides them
  conn,       \* what each connection is at
  waitQueue,  \* mTransactionWaitQueueHash; empty where there is no queue
  connected,  \* DataStores whose signals the manager is connected to
  signals,    \* signals of DataStores that are queued for the main thread
  chain,      \* mPreprocessorChain
  instance,   \* mItemQueue and mBusy of each preprocessor, and what its agent was
              \* asked to process and has not answered
  main,       \* what the main thread is at in itemProcessed()
  owed,       \* preprocessors that each hidden item in the chain is to go through
  faults,     \* faults so far
  mishaps     \* what went wrong so far

vars == <<item, hidden, conn, waitQueue, connected, signals, chain, instance,
          main, owed, faults, mishaps>>

Conn == [at : {"idle", "inserted", "committed"}, item : Items \cup {NoItem},
         transaction : BOOLEAN, inserted : SUBSET Items]
Instance == [queue : Seq(Items), busy : BOOLEAN, asked : Seq(Items)]
Signal == [of : Connections, is : {"transactionCommitted", "transactionRolledBack"}]

Mishap ==
  {"inactive",  \* the last preprocessor went between two looks at isActive()
   "overlap",   \* a wait queue was used while a signal of its DataStore was queued
   "leaked",    \* a DataStore went before its signal was handled
   "stalled",   \* an item came just when the instance found it had no other
   "stale",     \* an agent was registered again with requests from before
   "deadlock"}  \* a thread waits for mMutex, which it holds itself

Idle == [at |-> "idle", instance |-> Nobody]

Chains == {<<>>} \cup {<<p>> : p \in Preprocessors}
          \cup {l \in Preprocessors \X Preprocessors : l[1] # l[2]}

Init ==
  /\ item = [i \in Items |-> "new"]
  /\ hidden = {}
  /\ conn = [c \in Connections |-> [at |-> "idle", item |-> NoItem,
                                    transaction |-> FALSE, inserted |-> {}]]
  /\ waitQueue = [c \in Connections |-> <<>>]
  /\ connected = {}
  /\ signals = <<>>
  /\ chain \in Chains
  /\ instance = [p \in Preprocessors |-> [queue |-> <<>>, busy |-> FALSE, asked |-> <<>>]]
  /\ main = Idle
  /\ owed = [i \in Items |-> {}]
  /\ faults = 0
  /\ mishaps = {}

isActive == chain # <<>>

Fault == faults < MaxFaults /\ faults' = faults + 1

\* mMutex can be locked; the main thread is in its event loop.
Unlocked == "deadlock" \notin mishaps
MainIdle == main = Idle /\ Unlocked

-----------------------------------------------------------------------------
(* The chain, under mMutex *)

\* An instance with more in its queue; it may ask its agent for the head.
WithMore(inst, list, ask) ==
  LET q == inst.queue \o list IN
  [queue |-> q, busy |-> inst.busy \/ ask,
   asked |-> IF ask THEN Append(inst.asked, Head(q)) ELSE inst.asked]

\* Mutant: the agent is asked though it works on another item.
EnqueueBusyOrNot(I, p, list) ==
  LET ask == list # <<>> /\ item[Head(I[p].queue \o list)] = "stored"
  IN /\ instance' = [I EXCEPT ![p] = WithMore(I[p], list, ask)]
     /\ UNCHANGED mishaps

\* enqueueItem() for each item of a list, with I the instances before.  An
\* instance that was idle asks its agent for the head of the queue.  If that is
\* not in the database (any more, or yet) it reports it to the manager, which
\* waits for the mMutex that the caller holds.
Enqueue(I, p, list) ==
  LET start == list # <<>> /\ ~I[p].busy
      ask == start /\ item[Head(I[p].queue \o list)] = "stored"
  IN /\ instance' = [I EXCEPT ![p] = WithMore(I[p], list, ask)]
     /\ mishaps' = IF start /\ ~ask THEN mishaps \cup {"deadlock"} ELSE mishaps

\* lockedEndHandleItem() for each of a list, by a thread that sees items in a
\* state of S.
EndHandle(list, S) == hidden' = hidden \ {i \in Elements(list) : item[i] \in S}

Position(p) == CHOOSE n \in DOMAIN chain : chain[n] = p

\* Mutant: the first preprocessor is the last.
PassOnToNobody(I, p, list) ==
  /\ EndHandle(list, {"stored"})
  /\ instance' = I
  /\ UNCHANGED mishaps

\* The items of a list are done with p: on to the next, or to the end.
PassOn(I, p, list) ==
  IF Position(p) < Len(chain)
  THEN Enqueue(I, chain[Position(p) + 1], list) /\ UNCHANGED hidden
  ELSE EndHandle(list, {"stored"}) /\ instance' = I /\ UNCHANGED mishaps

\* Items enter the chain.
Activate(list) ==
  /\ Enqueue(instance, Head(chain), list)
  /\ owed' = [i \in Items |-> IF i \in Elements(list) \cap hidden
                              THEN Elements(chain) ELSE owed[i]]
  /\ UNCHANGED hidden

-----------------------------------------------------------------------------
(* Connections *)

\* An append inserts the item, hidden if there are preprocessors.
AppendItem(c, i) ==
  /\ conn[c].at = "idle" /\ item[i] = "new" /\ Unlocked
  /\ item' = [item EXCEPT ![i] = "inserted"]
  /\ hidden' = IF isActive THEN hidden \cup {i} ELSE hidden
  /\ conn' = [conn EXCEPT ![c].at = "inserted", ![c].item = i,
                          ![c].inserted = @ \cup {i}]
  /\ UNCHANGED <<waitQueue, connected, signals, chain, instance, main, owed,
                 faults, mishaps>>

Emit(c, signal) ==
  signals' = IF c \in connected THEN Append(signals, [of |-> c, is |-> signal])
             ELSE signals

Stored(c, state) ==
  item' = [i \in Items |-> IF i \in conn[c].inserted THEN state ELSE item[i]]

\* The append commits: its own transaction, or a level of that of the client.
CommitAppend(c) ==
  /\ conn[c].at = "inserted"
  /\ IF conn[c].transaction
     THEN /\ conn' = [conn EXCEPT ![c].at = "committed"]
          /\ UNCHANGED <<item, signals>>
     ELSE /\ conn' = [conn EXCEPT ![c].at = "committed", ![c].inserted = {}]
          /\ Stored(c, "stored")
          /\ Emit(c, "transactionCommitted")
  /\ UNCHANGED <<hidden, waitQueue, connected, chain, instance, main, owed,
                 faults, mishaps>>

\* beginHandleItem().  The item goes to the wait queue in a transaction; if there
\* is none the manager connects to the DataStore.
BeginHandleItem(c, i) ==
  \/ /\ ~isActive \/ i \in Referenced
     /\ EndHandle(<<i>>, {"stored", "inserted"})
     /\ UNCHANGED <<waitQueue, connected, instance, owed, mishaps>>
  \/ /\ isActive /\ i \notin Referenced /\ conn[c].transaction
     /\ waitQueue' = [waitQueue EXCEPT ![c] = Append(@, i)]
     /\ connected' = IF waitQueue[c] = <<>> THEN connected \cup {c} ELSE connected
     /\ mishaps' = mishaps \cup
          (IF \E n \in DOMAIN signals : signals[n].of = c THEN {"overlap"} ELSE {})
     /\ UNCHANGED <<hidden, instance, owed>>
  \/ /\ isActive /\ i \notin Referenced /\ ~conn[c].transaction
     /\ Activate(<<i>>)
     /\ UNCHANGED <<waitQueue, connected>>

\* APPEND goes by what isActive() said before, X-AKAPPEND asks again.
Notify(c) ==
  /\ conn[c].at = "committed" /\ Unlocked
  /\ LET i == conn[c].item IN
     \/ /\ i \in hidden \/ isActive
        /\ BeginHandleItem(c, i)
     \/ /\ i \notin hidden
        /\ UNCHANGED <<hidden, waitQueue, connected, instance, owed, mishaps>>
     \/ /\ i \in hidden /\ ~isActive
        /\ mishaps' = mishaps \cup {"inactive"}
        /\ UNCHANGED <<hidden, waitQueue, connected, instance, owed>>
  /\ conn' = [conn EXCEPT ![c].at = "idle", ![c].item = NoItem]
  /\ UNCHANGED <<item, signals, chain, main, faults>>

Begin(c) ==
  /\ conn[c].at = "idle" /\ ~conn[c].transaction
  /\ \E i \in Items : item[i] = "new"
  /\ Len(signals) < MaxSignals
  /\ conn' = [conn EXCEPT ![c].transaction = TRUE]
  /\ UNCHANGED <<item, hidden, waitQueue, connected, signals, chain, instance,
                 main, owed, faults, mishaps>>

\* The transaction of the client ends.
End(c, state, signal) ==
  /\ conn[c].at = "idle" /\ conn[c].transaction
  /\ conn' = [conn EXCEPT ![c].transaction = FALSE, ![c].inserted = {}]
  /\ Stored(c, state)
  /\ Emit(c, signal)
  /\ UNCHANGED <<hidden, waitQueue, connected, chain, instance, main, owed,
                 faults, mishaps>>

Commit(c) == End(c, "stored", "transactionCommitted")

RollBack(c) == End(c, "gone", "transactionRolledBack")

\* A connection ends, and with it its DataStore; the next may have one at the same
\* place.  A signal of the old one has no sender any more.
Close(c) ==
  /\ conn[c].at = "idle"
  /\ waitQueue[c] # <<>> \/ conn[c].transaction
  /\ Fault
  /\ conn' = [conn EXCEPT ![c].transaction = FALSE, ![c].inserted = {}]
  /\ Stored(c, "gone")
  /\ connected' = connected \ {c}
  /\ mishaps' = mishaps \cup (IF waitQueue[c] # <<>> THEN {"leaked"} ELSE {})
  /\ UNCHANGED <<hidden, waitQueue, signals, chain, instance, main, owed>>

\* A client, or a preprocessor, removes an item.
RemoveItem(i) ==
  /\ item[i] = "stored"
  /\ Fault
  /\ item' = [item EXCEPT ![i] = "gone"]
  /\ UNCHANGED <<hidden, conn, waitQueue, connected, signals, chain, instance,
                 main, owed, mishaps>>

-----------------------------------------------------------------------------
(* The main thread *)

\* Mutant: the wait queue of a committed transaction is dropped.
FlushedNowhere(c) == UNCHANGED <<hidden, instance, owed, mishaps>>

\* The wait queue of c is put into the chain.
Flushed(c) ==
  IF isActive THEN Activate(waitQueue[c])
  ELSE EndHandle(waitQueue[c], {"stored"}) /\ UNCHANGED <<instance, owed, mishaps>>

\* dataStoreTransactionCommitted() and dataStoreTransactionRolledBack(): whichever
\* signal it was, the wait queue is what it is now, and goes.
HandleSignal ==
  /\ MainIdle /\ signals # <<>>
  /\ signals' = Tail(signals)
  /\ LET c == Head(signals).of IN
     \/ /\ c \notin connected
        /\ UNCHANGED <<hidden, waitQueue, connected, instance, owed, mishaps>>
     \/ /\ c \in connected
        /\ waitQueue' = [waitQueue EXCEPT ![c] = <<>>]
        /\ connected' = connected \ {c}
        /\ IF Head(signals).is = "transactionCommitted" THEN Flushed(c)
           ELSE UNCHANGED <<hidden, instance, owed, mishaps>>
  /\ UNCHANGED <<item, conn, chain, main, faults>>

\* itemProcessed(): the head of the queue has been processed, whatever item the
\* agent says.  The queue and mBusy are used without mMutex.
ItemProcessed(p) ==
  /\ MainIdle /\ p \in Elements(chain) /\ instance[p].asked # <<>>
  /\ LET answered == [instance EXCEPT ![p].asked = Tail(@)]
         q == instance[p].queue
     IN /\ owed' = [owed EXCEPT ![Head(instance[p].asked)] = @ \ {p}]
        /\ \/ /\ q = <<>>
              /\ instance' = [answered EXCEPT ![p].busy = FALSE]
              /\ UNCHANGED <<hidden, main, mishaps>>
           \/ /\ q # <<>>
              /\ PassOn([answered EXCEPT ![p].queue = Tail(q)], p, <<Head(q)>>)
              /\ main' = [at |-> "checking", instance |-> p]
  /\ UNCHANGED <<item, conn, waitQueue, connected, signals, chain, faults>>

\* It goes on with the next item of the queue, if there is one,
NextItem ==
  /\ main.at = "checking" /\ Unlocked
  /\ main' = [main EXCEPT !.at = IF instance[main.instance].queue = <<>>
                                 THEN "emptied" ELSE "head"]
  /\ UNCHANGED <<item, hidden, conn, waitQueue, connected, signals, chain, instance,
                 owed, faults, mishaps>>

\* and else the instance is idle, also if an item came meanwhile.
BecomeIdle ==
  /\ main.at = "emptied"
  /\ LET p == main.instance IN
       /\ instance' = [instance EXCEPT ![p].busy = FALSE]
       /\ mishaps' = mishaps \cup (IF instance[p].queue = <<>> THEN {} ELSE {"stalled"})
  /\ main' = Idle
  /\ UNCHANGED <<item, hidden, conn, waitQueue, connected, signals, chain, owed,
                 faults>>

\* processHeadItem(), not under mMutex: items that are gone are passed on.
ProcessHeadItem ==
  /\ main.at = "head"
  /\ LET p == main.instance
         q == instance[p].queue
     IN \/ /\ item[Head(q)] = "stored"
           /\ instance' = [instance EXCEPT ![p] = WithMore(@, <<>>, TRUE)]
           /\ main' = Idle
           /\ UNCHANGED <<hidden, mishaps>>
        \/ /\ item[Head(q)] # "stored" /\ Unlocked
           /\ PassOn([instance EXCEPT ![p].queue = Tail(q)], p, <<Head(q)>>)
           /\ main' = [main EXCEPT !.at = "checking"]
  /\ UNCHANGED <<item, conn, waitQueue, connected, signals, chain, owed, faults>>

\* An agent answers an instance that is gone.
Unheard(p) ==
  /\ p \notin Elements(chain) /\ instance[p].asked # <<>>
  /\ instance' = [instance EXCEPT ![p].asked = Tail(@)]
  /\ UNCHANGED <<item, hidden, conn, waitQueue, connected, signals, chain, main,
                 owed, faults, mishaps>>

RegisterInstance(p) ==
  /\ MainIdle /\ p \notin Elements(chain)
  /\ Fault
  /\ chain' = Append(chain, p)
  /\ mishaps' = mishaps \cup (IF instance[p].asked = <<>> THEN {} ELSE {"stale"})
  /\ UNCHANGED <<item, hidden, conn, waitQueue, connected, signals, instance, main,
                 owed>>

\* lockedUnregisterInstance(): the next in the chain takes its items over.
Unregistered(p) ==
  /\ MainIdle /\ p \in Elements(chain)
  /\ \E asked \in {instance[p].asked, <<>>} :
       PassOn([instance EXCEPT ![p] = [queue |-> <<>>, busy |-> FALSE, asked |-> asked]],
              p, instance[p].queue)
  /\ chain' = Keep(chain, Preprocessors \ {p})
  /\ owed' = [i \in Items |-> owed[i] \ {p}]
  /\ UNCHANGED <<item, conn, waitQueue, connected, signals, main>>

UnregisterInstance(p) == Fault /\ Unregistered(p)

\* Mutant: an agent is asked to abort, and never given up.
HeartbeatAborts(p) == instance[p].busy /\ MainIdle /\ UNCHANGED vars

\* heartbeat(): four minutes after it was asked an agent is given up, whether it
\* was aborted or restarted before that.
Heartbeat(p) == instance[p].busy /\ Unregistered(p) /\ UNCHANGED faults

-----------------------------------------------------------------------------
MainThread == HandleSignal \/ NextItem \/ BecomeIdle \/ ProcessHeadItem

Agents ==
  \E p \in Preprocessors :
    \/ ItemProcessed(p) \/ Unheard(p)
    \/ RegisterInstance(p) \/ UnregisterInstance(p) \/ Heartbeat(p)

Connection(c) ==
  \/ \E i \in Items : AppendItem(c, i)
  \/ CommitAppend(c) \/ Notify(c) \/ Begin(c) \/ Commit(c) \/ RollBack(c) \/ Close(c)

Next ==
  \/ MainThread \/ Agents
  \/ \E c \in Connections : Connection(c)
  \/ \E i \in Items : RemoveItem(i)

Spec == Init /\ [][Next]_vars

\* Threads run, clients end their transactions, and time passes; agents need not
\* answer.
FairSpec ==
  /\ Spec
  /\ WF_vars(MainThread)
  /\ \A p \in Preprocessors : WF_vars(Heartbeat(p))
  /\ \A c \in Connections : WF_vars(CommitAppend(c)) /\ WF_vars(Notify(c))
                            /\ WF_vars(Commit(c) \/ RollBack(c))

-----------------------------------------------------------------------------
(* Properties *)

\* Every variable keeps its type.
TypeOK ==
  /\ item \in [Items -> {"new", "inserted", "stored", "gone"}] /\ hidden \subseteq Items
  /\ conn \in [Connections -> Conn]
  /\ waitQueue \in [Connections -> Seq(Items)] /\ connected \subseteq Connections
  /\ signals \in Seq(Signal)
  /\ chain \in Seq(Preprocessors)
  /\ \A m, n \in DOMAIN chain : chain[m] = chain[n] => m = n
  /\ instance \in [Preprocessors -> Instance]
  /\ main \in [at : {"idle", "checking", "emptied", "head"},
              instance : Preprocessors \cup {Nobody}]
  /\ owed \in [Items -> SUBSET Preprocessors]
  /\ faults \in 0..MaxFaults /\ mishaps \subseteq Mishap

\* An item that is stored and hidden is known to somebody who will go on with it:
\* its connection, a wait queue whose signal is under way, or an instance in the
\* chain.  Not so when the last preprocessor went between two looks at
\* isActive(), when the wait queue was used again before the signal of the last
\* transaction was handled, and when the connection ended before that.
NoItemForgotten ==
  mishaps \cap {"inactive", "overlap", "leaked", "deadlock"} = {} =>
    \A i \in hidden : item[i] = "stored" =>
      \/ \E c \in Connections :
           \/ conn[c].item = i
           \/ /\ i \in Elements(waitQueue[c]) /\ c \in connected
              /\ \E n \in DOMAIN signals : signals[n].of = c
      \/ \E p \in Elements(chain) : i \in Elements(instance[p].queue)

\* The agent of an instance that is busy was asked for the head of its queue and
\* nothing else, so its answer is the one the instance takes it for; an idle
\* instance has no queue.  (Not while the main thread is about to look, nor once
\* an item came too late to be seen, nor with an agent that still works on what it
\* was asked before it was registered anew.)
AskedForHead ==
  mishaps \cap {"stalled", "stale", "deadlock"} = {} =>
    \A p \in Elements(chain) : p # main.instance =>
      IF instance[p].busy
      THEN instance[p].queue # <<>> /\ instance[p].asked = <<Head(instance[p].queue)>>
      ELSE instance[p].queue = <<>> /\ instance[p].asked = <<>>

\* No hidden item is shown before each preprocessor that was in the chain when it came,
\* and still is, has answered for it, unless the item came before it was in the
\* database, or an agent answered for what it was asked before it was registered
\* anew.
ShownProcessed ==
  mishaps \cap {"stale", "overlap"} = {} =>
    \A i \in Items : item[i] = "stored" /\ i \notin hidden => owed[i] = {}

\* A stored item does not stay hidden, whether agents answer or not.
EventuallyShown ==
  \A i \in Items :
    item[i] = "stored" /\ i \in hidden ~>
      \/ item[i] # "stored" \/ i \notin hidden
      \/ mishaps \cap {"inactive", "overlap", "leaked", "stalled", "deadlock"} # {}

\* What lockedActivateFirstPreprocessor() relies on: no instance reports to the
\* manager from inside enqueueItem(), where it would wait for ever.
NoDeadlock == "deadlock" \notin mishaps
=============================================================================
