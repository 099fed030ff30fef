---------------------- MODULE SearchTaskManager_proofs ----------------------
(***************************************************************************)
(* Proofs about SearchTaskManager: no list of the manager leads to the     *)
(* stack of a thread that has returned, no search is forgotten, and no     *)
(* client gets the results of another search, for any number of clients,   *)
(* resources, collections and searches.                                    *)
(***************************************************************************)
EXTENDS SearchTaskManager, ListFacts

\* What is in the list is there once, alive and not complete; what has queries
\* to be sent is in the list.
ListSound ==
  /\ Distinct(tasklist)
  /\ \A s \in Elements(tasklist) : Alive(s) /\ ~search[s.client].complete
  /\ \A c \in Clients : search[c].queries # {} => Current(c) \in Elements(tasklist)

\* What runs is alive and not complete, and a resource runs one query.
RunningSound ==
  /\ \A t \in running : Alive(t.of) /\ ~search[t.of.client].complete
  /\ \A t, u \in running : Owner[t.collection] = Owner[u.collection] => t = u

\* A search that is in the list without queries never had any.
EmptyUntouched ==
  loop # "stopped" =>
    \A s \in Elements(tasklist) : search[s.client].queries = {} =>
      /\ \A t \in running : t.of # s
      /\ \A i \in DOMAIN results : results[i].of # s

\* Results are of searches that have begun; until two results of one search
\* wait together, they are of searches that are alive and not complete.
ResultsSound ==
  /\ \A i \in DOMAIN results : results[i].of.number <= search[results[i].of.client].number
  /\ "together" \in mishaps \/ loop = "stopped" \/
       /\ \A i \in DOMAIN results :
            Alive(results[i].of) /\ ~search[results[i].of.client].complete
       /\ \A i, j \in DOMAIN results : results[i].of = results[j].of => i = j

\* Only a shutdown stops the loop, and a loop that has stopped runs nothing.
StopSound ==
  /\ loop = "stopped" => shouldStop /\ running = {}
  /\ shouldStop => "stopped" \in mishaps

\* Until a query is given up, every query an agent works on runs, and its answer
\* can bear no other id than that of its client.
AskedSound ==
  "expired" \notin mishaps =>
    /\ \A q \in asked :
         /\ q.ids = {q.of.client}
         /\ loop = "stopped" \/
              \E t \in running : t.of = q.of /\ t.collection = q.collection
    /\ \A i \in DOMAIN results : results[i].found \subseteq {results[i].of}

SearchInv ==
  /\ TypeOK
  /\ ListSound
  /\ RunningSound
  /\ EmptyUntouched
  /\ ResultsSound
  /\ StopSound
  /\ NoSearchForgotten
  /\ AskedSound
  /\ OwnResults

-----------------------------------------------------------------------------
(* A search and its client *)

\* The search of a client bears the client's name and number.
LEMMA CurrentSearch ==
  ASSUME TypeOK, NEW c \in Clients
  PROVE  /\ Current(c).client = c /\ Current(c).number = search[c].number
         /\ \A s \in Search : Alive(s) <=>
              /\ search[s.client].at # "idle" /\ s = Current(s.client)
         /\ \A d \in Clients : Current(c) = Current(d) <=> c = d
BY DEF Current, Alive

\* The elements of a list of searches.
LEMMA Listed ==
  ASSUME TypeOK
  PROVE  /\ Elements(tasklist) \subseteq Search /\ Len(tasklist) \in Nat
         /\ DOMAIN tasklist = 1..Len(tasklist)
         /\ \A i \in DOMAIN tasklist : tasklist[i] \in Search /\ tasklist[i] \in Elements(tasklist)
         /\ DOMAIN results = 1..Len(results) /\ Len(results) \in Nat
         /\ \A i \in DOMAIN results : results[i] \in Result
         /\ Elements(results) \subseteq Result
<1>1. tasklist \in Seq(Search) /\ results \in Seq(Result)
  BY DEF TypeOK
<1> QED  BY <1>1, ElementOfSeq DEF Elements

-----------------------------------------------------------------------------
(* Steps that leave the searches and the lists alone *)

Same(t, u) == u.of = t.of /\ u.collection = t.collection

\* What runs stays, but for its age.
OnlyAged ==
  /\ \A t \in running : \E u \in running' : Same(t, u)
  /\ \A u \in running' : \E t \in running : Same(t, u)
  /\ \A u, v \in running' : u = v \/
       \E s, t \in running : Same(s, u) /\ Same(t, v) /\ s # t

LEMMA RunsOn ==
  ASSUME running' = running PROVE OnlyAged
BY DEF OnlyAged, Same

LEMMA MinuteAges ==
  ASSUME TypeOK, NEW t \in running,
         running' = (running \ {t}) \cup {[t EXCEPT !.old = TRUE]}
  PROVE  OnlyAged
<1> DEFINE o == [t EXCEPT !.old = TRUE]
<1>1. o \in running' /\ Same(t, o)
  BY DEF TypeOK, ResourceTask, Same
<1>2. \A u \in running' : u = o \/ (u \in running /\ u # t)
  OBVIOUS
<1>3. \A u \in running : u = t \/ u \in running'
  OBVIOUS
<1>4. \A u : Same(u, u)
  BY DEF Same
<1> HIDE DEF o
<1> QED  BY <1>1, <1>2, <1>3, <1>4 DEF OnlyAged

\* Nothing is lost as long as the searches, the list and the results stay, what
\* runs stays but for its age, and no query is asked anew.
LEMMA Undisturbed ==
  ASSUME SearchInv, TypeOK', OnlyAged,
         search' = search, tasklist' = tasklist, results' = results,
         loop' = loop \/ (loop' # "stopped" /\ loop # "stopped"),
         shouldStop' = shouldStop \/ (shouldStop' = TRUE /\ "stopped" \in mishaps'),
         mishaps \subseteq mishaps',
         asked' \subseteq asked
  PROVE  SearchInv'
<1>1. TypeOK /\ running \subseteq ResourceTask
  BY DEF SearchInv, TypeOK
<1>2. /\ \A t \in running : \E u \in running' : Same(t, u)
      /\ \A u \in running' : \E t \in running : Same(t, u)
      /\ \A u, v \in running' : u = v \/
           \E s, t \in running : Same(s, u) /\ Same(t, v) /\ s # t
  BY DEF OnlyAged
<1> USE DEF Same
<1>3. \A c \in Clients : Current(c)' = Current(c)
  BY DEF Current
<1>4. \A s : Alive(s)' <=> Alive(s)
  BY <1>1 DEF Alive, Current
<1>5. ListSound'
  BY <1>3, <1>4 DEF SearchInv, ListSound
<1>6. RunningSound'
  <2>1. \A t \in running' : Alive(t.of)' /\ ~search'[t.of.client].complete
    BY <1>2, <1>4 DEF SearchInv, RunningSound
  <2>2. ASSUME NEW u \in running', NEW v \in running',
               Owner[u.collection] = Owner[v.collection], u # v
        PROVE  FALSE
    <3>1. PICK s \in running, t \in running : Same(s, u) /\ Same(t, v) /\ s # t
      BY <1>2, <2>2
    <3>2. Owner[s.collection] = Owner[t.collection]
      BY <3>1, <2>2
    <3> QED  BY <3>1, <3>2 DEF SearchInv, RunningSound
  <2> QED  BY <2>1, <2>2 DEF RunningSound
<1>7. EmptyUntouched'
  BY <1>2 DEF SearchInv, EmptyUntouched
<1>8. ResultsSound'
  BY <1>4 DEF SearchInv, ResultsSound
<1>9. StopSound'
  <2>1. loop' = "stopped" => loop = "stopped"
    OBVIOUS
  <2>2. running = {} => running' = {}
    BY <1>2
  <2> QED  BY <2>1, <2>2 DEF SearchInv, StopSound
<1>10. NoSearchForgotten'
  <2> SUFFICES ASSUME NEW c \in Clients, search[c].at # "idle",
                      mishaps' \cap {"removed", "foreign", "stopped"} = {}
               PROVE  \/ Current(c) \in Elements(tasklist)
                      \/ \E t \in running' : t.of = Current(c)
                      \/ \E r \in Elements(results) : r.of = Current(c)
                      \/ search[c].complete /\ (search[c].notified \/ search[c].at = "added")
    BY <1>3 DEF NoSearchForgotten
  <2> QED  BY <1>2 DEF SearchInv, NoSearchForgotten
<1>11. AskedSound'
  <2> SUFFICES ASSUME "expired" \notin mishaps' PROVE AskedSound!2'
    BY DEF AskedSound
  <2>1. AskedSound!2
    BY DEF SearchInv, AskedSound
  <2>2. loop = "stopped" => loop' = "stopped"
    OBVIOUS
  <2>3. ASSUME NEW q \in asked, NEW t \in running, t.of = q.of, t.collection = q.collection
        PROVE  \E u \in running' : u.of = q.of /\ u.collection = q.collection
    BY <1>2, <2>3
  <2> QED  BY <2>1, <2>2, <2>3
<1>12. OwnResults'
  BY <1>3 DEF SearchInv, OwnResults
<1> QED  BY <1>5, <1>6, <1>7, <1>8, <1>9, <1>10, <1>11, <1>12 DEF SearchInv

\* The loop that goes to look at its lists, or finds nothing there, and all that
\* happens outside of it but for searches and answers.
LEMMA StepAside ==
  ASSUME SearchInv, SearchAssumption,
         \/ LoopWakes \/ NothingInList \/ Minute \/ Stop
         \/ \E r \in Resources : RegisterInstance(r) \/ UnregisterInstance(r)
  PROVE  SearchInv'
<1>1. TypeOK /\ StopSound
  BY DEF SearchInv
<1>2. CASE LoopWakes
  <2>1. TypeOK'
    BY <1>1, <1>2 DEF TypeOK, LoopWakes
  <2>2. OnlyAged
    BY <1>2, RunsOn DEF LoopWakes
  <2> QED  BY <1>2, <2>1, <2>2, Undisturbed DEF LoopWakes
<1>3. CASE NothingInList
  <2>1. TypeOK'
    BY <1>1, <1>3 DEF TypeOK, NothingInList
  <2>2. OnlyAged
    BY <1>3, RunsOn DEF NothingInList
  <2> QED  BY <1>3, <2>1, <2>2, Undisturbed DEF NothingInList
<1>4. CASE Minute
  <2>1. PICK t \in running : running' = (running \ {t}) \cup {[t EXCEPT !.old = TRUE]}
    BY <1>4 DEF Minute
  <2>2. [t EXCEPT !.old = TRUE] \in ResourceTask
    BY <1>1 DEF TypeOK, ResourceTask
  <2>3. TypeOK'
    BY <1>1, <1>4, <2>1, <2>2 DEF TypeOK, Minute
  <2>4. OnlyAged
    BY <1>1, <2>1, MinuteAges
  <2> QED  BY <1>4, <2>3, <2>4, Undisturbed DEF Minute
<1>5. CASE Stop
  <2>1. TypeOK'
    BY <1>1, <1>5, SearchAssumption DEF TypeOK, Stop, Fault, Mishap, SearchAssumption
  <2>2. OnlyAged
    BY <1>5, RunsOn DEF Stop
  <2> QED  BY <1>5, <2>1, <2>2, Undisturbed DEF Stop
<1>6. ASSUME NEW r \in Resources, RegisterInstance(r) PROVE SearchInv'
  <2>1. TypeOK'
    BY <1>1, <1>6 DEF TypeOK, RegisterInstance
  <2>2. OnlyAged
    BY <1>6, RunsOn DEF RegisterInstance
  <2> QED  BY <1>6, <2>1, <2>2, Undisturbed DEF RegisterInstance
<1>7. ASSUME NEW r \in Resources, UnregisterInstance(r) PROVE SearchInv'
  <2>1. asked' \subseteq asked
    BY <1>7 DEF UnregisterInstance
  <2>2. TypeOK'
    BY <1>1, <1>7, <2>1, SearchAssumption
    DEF TypeOK, UnregisterInstance, Fault, SearchAssumption
  <2>3. OnlyAged
    BY <1>7, RunsOn DEF UnregisterInstance
  <2> QED  BY <1>7, <2>1, <2>2, <2>3, Undisturbed DEF UnregisterInstance
<1> QED  BY <1>2, <1>3, <1>4, <1>5, <1>6, <1>7

-----------------------------------------------------------------------------
(* SearchRequest::exec() *)

\* A client that looks whether its search is complete leaves only then.
LEMMA ReturnOrWaitKeeps ==
  ASSUME SearchInv, NEW c \in Clients, search[c].at # "idle", ReturnOrWait(c),
         UNCHANGED <<loop, woken, timeout, shouldStop, instances, tasklist,
                     running, results, asked, faults, mishaps>>
  PROVE  SearchInv'
<1>1. TypeOK /\ search \in [Clients -> SearchTask]
  BY DEF SearchInv, TypeOK
<1>2. /\ \A d \in Clients \ {c} : search'[d] = search[d]
      /\ search'[c].number = search[c].number
      /\ search[c].complete =>
           /\ search'[c].at = "idle" /\ search'[c].queries = {}
           /\ search'[c].complete = FALSE /\ search'[c].pendingResults = {}
      /\ ~search[c].complete =>
           /\ search'[c].at = "waiting" /\ search'[c].queries = search[c].queries
           /\ search'[c].complete = search[c].complete
           /\ search'[c].pendingResults \subseteq search[c].pendingResults
      /\ search' \in [Clients -> SearchTask]
  <2>1. search[c] \in SearchTask
    BY <1>1
  <2>2. \A d \in Clients \ {c} : search'[d] = search[d]
    BY <1>1 DEF ReturnOrWait
  <2> DEFINE waits == [search[c] EXCEPT !.at = "waiting", !.notified = FALSE,
                         !.pendingResults = IF search[c].at = "waiting" THEN {} ELSE @]
             leaves == [search[c] EXCEPT !.at = "idle", !.notified = FALSE, !.queries = {},
                          !.complete = FALSE, !.pendingResults = {}]
  <2>3. search'[c] = IF search[c].complete THEN leaves ELSE waits
    BY <1>1 DEF ReturnOrWait
  <2>4. search'[c] \in SearchTask
    <3>1. waits \in SearchTask
      BY <2>1 DEF SearchTask
    <3>2. leaves \in SearchTask
      BY <2>1 DEF SearchTask
    <3> HIDE DEF waits, leaves
    <3> QED  BY <2>3, <3>1, <3>2
  <2>5. search' \in [Clients -> SearchTask]
    BY <1>1, <2>4 DEF ReturnOrWait
  <2>6. CASE search[c].complete
    BY <2>1, <2>2, <2>3, <2>5, <2>6 DEF SearchTask
  <2>7. CASE ~search[c].complete
    <3>1. /\ search'[c].at = "waiting" /\ search'[c].queries = search[c].queries
          /\ search'[c].number = search[c].number
          /\ search'[c].complete = search[c].complete
      BY <2>1, <2>3, <2>7 DEF SearchTask
    <3>2. search'[c].pendingResults \subseteq search[c].pendingResults
      BY <2>1, <2>3, <2>7 DEF SearchTask
    <3> QED  BY <2>2, <2>5, <2>7, <3>1, <3>2
  <2> QED  BY <2>6, <2>7
<1>3. TypeOK'
  BY <1>1, <1>2 DEF TypeOK
<1>4. \A d \in Clients : Current(d)' = Current(d)
  BY <1>2 DEF Current
<1>5. \A s \in Search : Alive(s) /\ ~search[s.client].complete =>
        Alive(s)' /\ ~search'[s.client].complete /\ search'[s.client].queries = search[s.client].queries
  BY <1>2 DEF Alive, Current, Search
<1>6. /\ Elements(tasklist) \subseteq Search /\ \A t \in running : t.of \in Search
      /\ \A i \in DOMAIN results : results[i].of \in Search
  BY <1>1, Listed DEF TypeOK, ResourceTask, Result
<1>7. ListSound'
  BY <1>2, <1>4, <1>5, <1>6 DEF SearchInv, ListSound
<1>8. RunningSound'
  BY <1>5, <1>6 DEF SearchInv, RunningSound
<1>9. EmptyUntouched'
  BY <1>5, <1>6 DEF SearchInv, EmptyUntouched, ListSound
<1>10. ResultsSound'
  <2>1. \A d \in Clients : search'[d].number = search[d].number
    BY <1>2
  <2>2. \A i \in DOMAIN results : results[i].of.client \in Clients
    BY <1>6 DEF Search
  <2> QED  BY <1>5, <1>6, <2>1, <2>2 DEF SearchInv, ResultsSound
<1>11. StopSound'
  BY DEF SearchInv, StopSound
<1>12. NoSearchForgotten'
  BY <1>2, <1>4 DEF SearchInv, NoSearchForgotten
<1>13. AskedSound'
  BY DEF SearchInv, AskedSound
<1>14. OwnResults'
  BY <1>2, <1>4 DEF SearchInv, OwnResults
<1> QED  BY <1>3, <1>7, <1>8, <1>9, <1>10, <1>11, <1>12, <1>13, <1>14 DEF SearchInv

\* A search that begins is known to nobody; those that are alive are another's.
LEMMA Begins ==
  ASSUME SearchInv, NEW c \in Clients, NEW queries \in SUBSET Collections,
         search[c].at = "idle",
         search' = [search EXCEPT ![c] =
                      [at |-> "added", notified |-> FALSE, number |-> @.number + 1,
                       queries |-> queries, complete |-> FALSE, pendingResults |-> {}]]
  PROVE  /\ search' \in [Clients -> SearchTask]
         /\ \A d \in Clients \ {c} : search'[d] = search[d] /\ Current(d)' = Current(d)
         /\ Current(c)' \in Search /\ Current(c)'.client = c
         /\ search'[c].at = "added" /\ search'[c].queries = queries
         /\ search'[c].complete = FALSE /\ search'[c].pendingResults = {}
         /\ \A s \in Search : Alive(s) => Alive(s)' /\ search'[s.client] = search[s.client]
         /\ Current(c)' \notin Elements(tasklist)
         /\ \A t \in running : t.of # Current(c)'
         /\ \A i \in DOMAIN results :
              /\ results[i].of # Current(c)'
              /\ results[i].of.number <= search'[results[i].of.client].number
<1>1. TypeOK /\ search \in [Clients -> SearchTask] /\ search[c] \in SearchTask
  BY DEF SearchInv, TypeOK
<1> DEFINE n == [at |-> "added", notified |-> FALSE, number |-> search[c].number + 1,
                 queries |-> queries, complete |-> FALSE, pendingResults |-> {}]
<1>2. n \in SearchTask /\ search'[c] = n /\ search'[c].number = search[c].number + 1
  BY <1>1 DEF SearchTask
<1>3. /\ search' \in [Clients -> SearchTask]
      /\ \A d \in Clients \ {c} : search'[d] = search[d] /\ Current(d)' = Current(d)
  BY <1>1, <1>2 DEF Current
<1>4. /\ search'[c].at = "added" /\ search'[c].queries = queries
      /\ search'[c].complete = FALSE /\ search'[c].pendingResults = {}
  BY <1>2
<1>5. /\ Current(c)' = [client |-> c, number |-> search[c].number + 1]
      /\ search[c].number \in Nat
  BY <1>1, <1>2 DEF Current, SearchTask
<1>6. Current(c)' \in Search /\ Current(c)'.client = c
  BY <1>5 DEF Search
<1>7. ASSUME NEW s \in Search, Alive(s) PROVE Alive(s)' /\ search'[s.client] = search[s.client] /\ s.client # c
  <2>1. s.client \in Clients /\ s.client # c
    BY <1>7 DEF Alive, Search
  <2> QED  BY <1>3, <1>7, <2>1 DEF Alive
<1>8. Current(c)' \notin Elements(tasklist)
  BY <1>1, <1>6, <1>7, Listed DEF SearchInv, ListSound
<1>9. \A t \in running : t.of # Current(c)'
  BY <1>1, <1>6, <1>7 DEF SearchInv, RunningSound, TypeOK, ResourceTask
<1>10. ASSUME NEW i \in DOMAIN results
       PROVE  /\ results[i].of # Current(c)'
              /\ results[i].of.number <= search'[results[i].of.client].number
  <2>1. results[i].of.client \in Clients /\ results[i].of.number \in Nat
    BY <1>1, Listed DEF Result, Search
  <2>2. results[i].of.number <= search[results[i].of.client].number
    BY DEF SearchInv, ResultsSound
  <2>3. CASE results[i].of.client = c
    <3>1. results[i].of.number # search[c].number + 1
      BY <1>5, <2>1, <2>2, <2>3
    <3>2. Current(c)'.number = search[c].number + 1
      BY <1>5
    <3> QED  BY <1>2, <1>5, <2>1, <2>2, <2>3, <3>1, <3>2
  <2>4. CASE results[i].of.client # c
    BY <1>3, <1>6, <2>1, <2>2, <2>4
  <2> QED  BY <2>3, <2>4
<1> QED  BY <1>3, <1>4, <1>6, <1>7, <1>8, <1>9, <1>10

LEMMA AddTaskKeeps ==
  ASSUME SearchInv, NEW c \in Clients, NEW queries \in SUBSET Collections,
         AddTask(c, queries)
  PROVE  SearchInv'
<1>1. TypeOK /\ search[c].at = "idle" /\ tasklist \in Seq(Search)
  BY DEF SearchInv, AddTask, Free, TypeOK
<1>2. search' = [search EXCEPT ![c] =
        [at |-> "added", notified |-> FALSE, number |-> @.number + 1,
         queries |-> queries, complete |-> FALSE, pendingResults |-> {}]]
  BY DEF AddTask
<1>3. /\ search' \in [Clients -> SearchTask]
      /\ \A d \in Clients \ {c} : search'[d] = search[d] /\ Current(d)' = Current(d)
      /\ Current(c)' \in Search /\ Current(c)'.client = c
      /\ search'[c].at = "added" /\ search'[c].queries = queries
      /\ search'[c].complete = FALSE /\ search'[c].pendingResults = {}
      /\ \A s \in Search : Alive(s) => Alive(s)' /\ search'[s.client] = search[s.client]
      /\ Current(c)' \notin Elements(tasklist)
      /\ \A t \in running : t.of # Current(c)'
      /\ \A i \in DOMAIN results :
           /\ results[i].of # Current(c)'
           /\ results[i].of.number <= search'[results[i].of.client].number
  BY <1>1, <1>2, Begins
<1>4. PICK n : n = Current(c)'
  OBVIOUS
<1>5. tasklist' = Append(tasklist, n) /\ Elements(tasklist') = Elements(tasklist) \cup {n}
  BY <1>1, <1>3, <1>4, AppendElements DEF AddTask
<1>6. TypeOK'
  BY <1>1, <1>3, <1>4, <1>5 DEF TypeOK, AddTask
<1>7. Alive(n)' /\ n.client = c
  BY <1>3, <1>4 DEF Alive
<1>8. /\ Elements(tasklist) \subseteq Search /\ \A t \in running : t.of \in Search
      /\ \A i \in DOMAIN results : results[i].of \in Search
  BY <1>1, Listed DEF TypeOK, ResourceTask, Result
<1>9. UNCHANGED <<loop, shouldStop, running, results, asked, mishaps>>
  BY DEF AddTask
<1>10. ListSound'
  <2>1. Distinct(tasklist')
    BY <1>1, <1>3, <1>4, <1>5, AppendDistinct DEF SearchInv, ListSound
  <2>2. \A s \in Elements(tasklist') : Alive(s)' /\ ~search'[s.client].complete
    BY <1>3, <1>5, <1>7, <1>8 DEF SearchInv, ListSound
  <2>3. ASSUME NEW d \in Clients, search'[d].queries # {} PROVE Current(d)' \in Elements(tasklist')
    BY <1>3, <1>4, <1>5, <2>3 DEF SearchInv, ListSound
  <2> QED  BY <2>1, <2>2, <2>3 DEF ListSound
<1>11. RunningSound'
  BY <1>3, <1>8, <1>9 DEF SearchInv, RunningSound
<1>12. EmptyUntouched'
  BY <1>3, <1>4, <1>5, <1>8, <1>9 DEF SearchInv, EmptyUntouched, ListSound
<1>13. ResultsSound'
  BY <1>3, <1>8, <1>9 DEF SearchInv, ResultsSound
<1>14. StopSound'
  BY <1>9 DEF SearchInv, StopSound
<1>15. NoSearchForgotten'
  BY <1>3, <1>4, <1>5, <1>9 DEF SearchInv, NoSearchForgotten
<1>16. AskedSound'
  BY <1>9 DEF SearchInv, AskedSound
<1>17. OwnResults'
  BY <1>3, <1>9 DEF SearchInv, OwnResults
<1> QED  BY <1>6, <1>10, <1>11, <1>12, <1>13, <1>14, <1>15, <1>16, <1>17 DEF SearchInv

LEMMA AddTaskOfNothingKeeps ==
  ASSUME SearchInv, SearchAssumption, NEW c \in Clients, AddTaskOfNothing(c)
  PROVE  SearchInv'
<1>1. TypeOK /\ search[c].at = "idle"
  BY DEF SearchInv, AddTaskOfNothing, Free
<1>2. search' = [search EXCEPT ![c] =
        [at |-> "added", notified |-> FALSE, number |-> @.number + 1,
         queries |-> {}, complete |-> FALSE, pendingResults |-> {}]]
  BY DEF AddTaskOfNothing
<1>3. /\ search' \in [Clients -> SearchTask]
      /\ \A d \in Clients \ {c} : search'[d] = search[d] /\ Current(d)' = Current(d)
      /\ search'[c].queries = {} /\ search'[c].pendingResults = {}
      /\ \A s \in Search : Alive(s) => Alive(s)' /\ search'[s.client] = search[s.client]
      /\ \A i \in DOMAIN results :
           results[i].of.number <= search'[results[i].of.client].number
  <2>1. PICK queries \in SUBSET Collections : queries = {}
    OBVIOUS
  <2>2. search' = [search EXCEPT ![c] =
          [at |-> "added", notified |-> FALSE, number |-> @.number + 1,
           queries |-> queries, complete |-> FALSE, pendingResults |-> {}]]
    BY <1>2, <2>1
  <2>3. SearchInv /\ search[c].at = "idle"
    BY <1>1
  <2>4. /\ search' \in [Clients -> SearchTask]
        /\ \A d \in Clients \ {c} : search'[d] = search[d] /\ Current(d)' = Current(d)
        /\ search'[c].queries = queries /\ search'[c].pendingResults = {}
        /\ \A s \in Search : Alive(s) => Alive(s)' /\ search'[s.client] = search[s.client]
        /\ \A i \in DOMAIN results :
             results[i].of.number <= search'[results[i].of.client].number
    BY <2>2, <2>3, Begins
  <2> QED  BY <2>1, <2>4
<1>4. /\ UNCHANGED <<loop, shouldStop, tasklist, running, results, asked>>
      /\ mishaps' = mishaps \cup {"removed"} /\ Fault
  BY DEF AddTaskOfNothing
<1>5. TypeOK'
  BY <1>1, <1>3, SearchAssumption
  DEF TypeOK, AddTaskOfNothing, Fault, Mishap, SearchAssumption
<1>6. /\ Elements(tasklist) \subseteq Search /\ \A t \in running : t.of \in Search
      /\ \A i \in DOMAIN results : results[i].of \in Search
  BY <1>1, Listed DEF TypeOK, ResourceTask, Result
<1>7. ListSound'
  BY <1>3, <1>4, <1>6 DEF SearchInv, ListSound
<1>8. RunningSound'
  BY <1>3, <1>4, <1>6 DEF SearchInv, RunningSound
<1>9. EmptyUntouched'
  BY <1>3, <1>4, <1>6 DEF SearchInv, EmptyUntouched, ListSound
<1>10. ResultsSound'
  BY <1>3, <1>4, <1>6 DEF SearchInv, ResultsSound
<1>11. StopSound'
  BY <1>4 DEF SearchInv, StopSound
<1>12. NoSearchForgotten'
  BY <1>4 DEF NoSearchForgotten
<1>13. AskedSound'
  BY <1>4 DEF SearchInv, AskedSound
<1>14. OwnResults'
  BY <1>3, <1>4 DEF SearchInv, OwnResults
<1> QED  BY <1>5, <1>7, <1>8, <1>9, <1>10, <1>11, <1>12, <1>13, <1>14 DEF SearchInv

-----------------------------------------------------------------------------
(* searchLoop() *)

\* Passing a result on completes its search only if nothing else is known of it.
LEMMA PassResultKeeps ==
  ASSUME SearchInv, PassResult
  PROVE  SearchInv'
<1>1. TypeOK /\ search \in [Clients -> SearchTask] /\ results \in Seq(Result) /\ results # <<>>
  BY DEF SearchInv, TypeOK, PassResult
<1> DEFINE s == results[1].of
           f == results[1].found
           c == s.client
           done == search[c].queries = {} /\ \A t \in running : t.of # s
<1>2. /\ s \in Search /\ c \in Clients /\ f \in SUBSET Search /\ 1 \in DOMAIN results
      /\ Head(results) = results[1]
  BY <1>1, Listed DEF Result, Search
<1>3. /\ \A d \in Clients : d # c \/ ~Alive(s) => search'[d] = search[d]
      /\ Alive(s) => search'[c] =
           [search[c] EXCEPT !.pendingResults = @ \cup f, !.complete = done,
                             !.notified = (search[c].at = "waiting")]
      /\ search' = [d \in Clients |-> search'[d]]
  <2>1. search' = [d \in Clients |->
         IF d = c /\ Alive(s)
         THEN Wake([search[d] EXCEPT
                      !.pendingResults = @ \cup f,
                      !.complete = AllResourceTasksCompleted(s, {})])
         ELSE search[d]]
    BY <1>2 DEF PassResult
  <2>2. AllResourceTasksCompleted(s, {}) = done
    BY DEF AllResourceTasksCompleted
  <2>3. Wake([search[c] EXCEPT !.pendingResults = @ \cup f, !.complete = done])
          = [search[c] EXCEPT !.pendingResults = @ \cup f, !.complete = done,
                              !.notified = (search[c].at = "waiting")]
    <3>1. search[c] \in SearchTask
      BY <1>1, <1>2
    <3> HIDE DEF done, f, c
    <3> QED  BY <3>1 DEF Wake, SearchTask
  <2> HIDE DEF done, f, c, s
  <2> QED  BY <1>2, <2>1, <2>2, <2>3
<1> HIDE DEF done, f, c, s
<1>4. search[c] \in SearchTask /\ done \in BOOLEAN
  BY <1>1, <1>2 DEF done
<1>5. /\ Alive(s) =>
           /\ search'[c].at = search[c].at /\ search'[c].number = search[c].number
           /\ search'[c].queries = search[c].queries
           /\ search'[c].complete \in BOOLEAN /\ (search'[c].complete <=> done)
           /\ search'[c].notified \in BOOLEAN
           /\ (search'[c].notified <=> search[c].at = "waiting")
           /\ search'[c].pendingResults = search[c].pendingResults \cup f
           /\ search'[c] \in SearchTask
  <2> SUFFICES ASSUME Alive(s) PROVE /\ search'[c].at = search[c].at /\ search'[c].number = search[c].number
                      /\ search'[c].queries = search[c].queries
                      /\ search'[c].complete \in BOOLEAN /\ (search'[c].complete <=> done)
                      /\ search'[c].notified \in BOOLEAN
                      /\ (search'[c].notified <=> search[c].at = "waiting")
                      /\ search'[c].pendingResults = search[c].pendingResults \cup f
                      /\ search'[c] \in SearchTask
    OBVIOUS
  <2> DEFINE m == [search[c] EXCEPT !.pendingResults = @ \cup f, !.complete = done,
                                    !.notified = (search[c].at = "waiting")]
  <2>1. /\ m.at = search[c].at /\ m.number = search[c].number
        /\ m.queries = search[c].queries
        /\ m.complete = done /\ m.notified = (search[c].at = "waiting")
        /\ m.pendingResults = search[c].pendingResults \cup f
    BY <1>4 DEF SearchTask
  <2>2. m \in SearchTask
    BY <1>2, <1>4 DEF SearchTask
  <2>3. search'[c] = m
    BY <1>3
  <2> HIDE DEF m
  <2>4. /\ search'[c].complete \in BOOLEAN /\ (search'[c].complete <=> done)
        /\ search'[c].notified \in BOOLEAN
        /\ (search'[c].notified <=> search[c].at = "waiting")
    BY <1>4, <2>1, <2>3
  <2> QED  BY <2>1, <2>2, <2>3, <2>4
<1>6. /\ search' \in [Clients -> SearchTask]
      /\ \A d \in Clients :
           /\ search'[d].at = search[d].at /\ search'[d].number = search[d].number
           /\ search'[d].queries = search[d].queries
  BY <1>1, <1>2, <1>3, <1>5
<1>7. \A d \in Clients : Current(d)' = Current(d)
  BY <1>6 DEF Current
<1>8. \A x \in Search : Alive(x)' <=> Alive(x)
  BY <1>6, <1>7 DEF Alive, Search
<1>9. /\ results' = Tail(results) /\ results' \in Seq(Result)
      /\ DOMAIN results' = 1..(Len(results) - 1) /\ DOMAIN results = 1..Len(results)
      /\ \A i \in DOMAIN results' : results'[i] = results[i + 1] /\ i + 1 \in DOMAIN results
      /\ Len(results) \in Nat
  <2>1. results' = Tail(results)
    BY DEF PassResult
  <2>2. /\ Len(results) \in Nat \ {0} /\ DOMAIN results = 1..Len(results)
        /\ results' \in Seq(Result) /\ DOMAIN results' = 1..(Len(results) - 1)
        /\ \A i \in 1..(Len(results) - 1) : results'[i] = results[i + 1]
    BY <1>1, <2>1
  <2> QED  BY <2>1, <2>2
<1>10. /\ UNCHANGED <<loop, shouldStop, tasklist, running, asked, mishaps>>
       /\ loop = "results"
  BY DEF PassResult
<1>11. TypeOK'
  BY <1>1, <1>6, <1>9 DEF TypeOK, PassResult
<1>12. /\ Elements(tasklist) \subseteq Search /\ \A t \in running : t.of \in Search
       /\ \A i \in DOMAIN results : results[i].of \in Search
  BY <1>1, Listed DEF TypeOK, ResourceTask, Result
<1>13. \A x \in Search : Alive(x) /\ Alive(s) /\ x.client = c => x = s
  BY <1>2 DEF Alive, c
<1>14. ListSound'
  <2>1. ASSUME NEW x \in Elements(tasklist) PROVE Alive(x)' /\ ~search'[x.client].complete
    <3>1. x \in Search /\ Alive(x) /\ ~search[x.client].complete /\ x.client \in Clients
      BY <1>12 DEF SearchInv, ListSound, Search
    <3>2. CASE x.client = c /\ Alive(s)
      <4>1. x = s
        BY <1>13, <3>1, <3>2
      <4>2. search[x.client].queries = {} => \A i \in DOMAIN results : results[i].of # x
        BY <1>10 DEF SearchInv, EmptyUntouched
      <4>3. ~done
        BY <1>2, <4>1, <4>2 DEF done, s, c
      <4> QED  BY <1>5, <1>8, <3>1, <3>2, <4>3
    <3>3. CASE x.client # c \/ ~Alive(s)
      BY <1>3, <1>8, <3>1, <3>3
    <3> QED  BY <3>2, <3>3
  <2>2. \A d \in Clients : search'[d].queries # {} => Current(d)' \in Elements(tasklist)
    BY <1>6, <1>7 DEF SearchInv, ListSound
  <2> QED  BY <1>10, <2>1, <2>2 DEF SearchInv, ListSound
<1>15. RunningSound'
  <2>1. ASSUME NEW t \in running PROVE Alive(t.of)' /\ ~search'[t.of.client].complete
    <3>1. t.of \in Search /\ Alive(t.of) /\ ~search[t.of.client].complete /\ t.of.client \in Clients
      BY <1>12 DEF SearchInv, RunningSound, Search
    <3>2. CASE t.of.client = c /\ Alive(s)
      <4>1. ~done
        BY <1>13, <3>1, <3>2 DEF done
      <4> QED  BY <1>5, <1>8, <3>1, <3>2, <4>1
    <3>3. CASE t.of.client # c \/ ~Alive(s)
      BY <1>3, <1>8, <3>1, <3>3
    <3> QED  BY <3>2, <3>3
  <2> QED  BY <1>10, <2>1 DEF SearchInv, RunningSound
<1>16. EmptyUntouched'
  <2>1. \A x \in Elements(tasklist) : x.client \in Clients
    BY <1>12 DEF Search
  <2> QED  BY <1>6, <1>9, <1>10, <2>1 DEF SearchInv, EmptyUntouched
<1>17. ResultsSound'
  <2>1. \A i \in DOMAIN results : results[i].of.client \in Clients
    BY <1>12 DEF Search
  <2>2. \A i \in DOMAIN results' : results'[i].of.number <= search'[results'[i].of.client].number
    BY <1>6, <1>9, <2>1 DEF SearchInv, ResultsSound
  <2>3. CASE "together" \in mishaps
    BY <1>10, <2>2, <2>3 DEF ResultsSound
  <2>4. CASE "together" \notin mishaps
    <3>1. /\ \A i \in DOMAIN results :
               Alive(results[i].of) /\ ~search[results[i].of.client].complete
          /\ \A i, j \in DOMAIN results : results[i].of = results[j].of => i = j
      BY <1>10, <2>4 DEF SearchInv, ResultsSound
    <3>2. ASSUME NEW i \in DOMAIN results'
          PROVE  Alive(results[i].of)' /\ ~search'[results'[i].of.client].complete
      <4>0. PICK x : x = results[i + 1].of
        OBVIOUS
      <4>1. /\ results'[i] = results[i + 1] /\ i + 1 \in DOMAIN results /\ i + 1 # 1
            /\ results[i + 1].of \in Search
        BY <1>9, <1>12
      <4>2. results[i + 1].of # s
        BY <1>2, <3>1, <4>1 DEF s
      <4>3. results[i + 1].of.client # c
        BY <1>2, <1>13, <3>1, <4>1, <4>2 DEF s
      <4>4. Alive(x)' /\ ~search'[x.client].complete
        BY <1>3, <1>8, <2>1, <3>1, <4>0, <4>1, <4>3
      <4> QED  BY <4>0, <4>1, <4>4
    <3>3. ASSUME NEW i \in DOMAIN results', NEW j \in DOMAIN results', results'[i].of = results'[j].of
          PROVE  i = j
      <4>1. i + 1 = j + 1
        BY <1>9, <3>1, <3>3
      <4> QED  BY <1>9, <4>1
    <3> QED  BY <2>2, <3>2, <3>3 DEF ResultsSound
  <2> QED  BY <2>3, <2>4
<1>18. StopSound'
  BY <1>10 DEF SearchInv, StopSound
<1>19. NoSearchForgotten'
  <2> SUFFICES ASSUME mishaps \cap {"removed", "foreign", "stopped"} = {},
                      NEW d \in Clients, search[d].at # "idle"
               PROVE  \/ Current(d) \in Elements(tasklist)
                      \/ \E t \in running : t.of = Current(d)
                      \/ \E r \in Elements(results') : r.of = Current(d)
                      \/ search'[d].complete /\ (search'[d].notified \/ search[d].at = "added")
    BY <1>6, <1>7, <1>10 DEF NoSearchForgotten
  <2>1. CASE d = c /\ Alive(s)
    <3>1. s = Current(d)
      BY <2>1 DEF Alive, c
    <3>2. CASE done
      <4>1. search[d].at \in {"added", "waiting"}
        BY <1>1 DEF SearchTask
      <4> QED  BY <1>5, <2>1, <3>2, <4>1
    <3>3. CASE ~done
      BY <2>1, <3>1, <3>3 DEF done, SearchInv, ListSound
    <3> QED  BY <3>2, <3>3
  <2>2. CASE d # c \/ ~Alive(s)
    <3>1. search'[d] = search[d] /\ s # Current(d)
      <4>1. Alive(Current(d)) /\ Current(d).client = d
        BY DEF Alive, Current
      <4> QED  BY <1>3, <2>2, <4>1 DEF c
    <3>2. ASSUME NEW r \in Elements(results), r.of = Current(d)
          PROVE  \E u \in Elements(results') : u.of = Current(d)
      <4>1. PICK i \in DOMAIN results : results[i] = r
        BY <3>2 DEF Elements
      <4>2. i # 1
        BY <3>1, <3>2, <4>1 DEF s
      <4>3. i - 1 \in DOMAIN results' /\ results'[i - 1] = r
        <5>1. i - 1 \in 1..(Len(results) - 1) /\ (i - 1) + 1 = i
          BY <1>9, <4>2
        <5> QED  BY <1>9, <4>1, <5>1
      <4>4. r \in Elements(results')
        BY <4>3 DEF Elements
      <4> QED  BY <3>2, <4>4
    <3> QED  BY <3>1, <3>2 DEF SearchInv, NoSearchForgotten
  <2> QED  BY <2>1, <2>2
<1>20. AskedSound'
  BY <1>9, <1>10 DEF SearchInv, AskedSound
<1>21. OwnResults'
  <2> SUFFICES ASSUME "expired" \notin mishaps, NEW d \in Clients
               PROVE  search'[d].pendingResults \subseteq {Current(d)}
    BY <1>7, <1>10 DEF OwnResults
  <2>1. search[d].pendingResults \subseteq {Current(d)} /\ f \subseteq {s}
    BY <1>2 DEF SearchInv, OwnResults, AskedSound, s, f
  <2>2. CASE d = c /\ Alive(s)
    <3>1. s = Current(d)
      BY <2>2 DEF Alive, c
    <3> QED  BY <1>5, <2>1, <2>2, <3>1
  <2>3. CASE d # c \/ ~Alive(s)
    BY <1>3, <2>1, <2>3
  <2> QED  BY <2>2, <2>3
<1> QED  BY <1>11, <1>14, <1>15, <1>16, <1>17, <1>18, <1>19, <1>20, <1>21 DEF SearchInv

\* A parent whose query is cancelled is complete when it has nothing else to wait
\* for, and is told either way.
LEMMA CancelledTells ==
  ASSUME TypeOK, RunningSound, NEW R \in SUBSET running, NEW S, S = Cancelled(R)
  PROVE  /\ S \in [Clients -> SearchTask]
         /\ \A d \in Clients :
              /\ S[d].at = search[d].at /\ S[d].number = search[d].number
              /\ S[d].queries = search[d].queries
              /\ S[d].pendingResults = search[d].pendingResults
              /\ (\E t \in R : t.of = Current(d)) =>
                   /\ S[d].complete <=>
                        search[d].queries = {} /\ \A t \in running \ R : t.of # Current(d)
                   /\ S[d].notified <=> search[d].at = "waiting"
              /\ (\A t \in R : t.of # Current(d)) => S[d] = search[d]
<1> SUFFICES ASSUME NEW d \in Clients
             PROVE  /\ S[d] \in SearchTask
                    /\ S[d].at = search[d].at /\ S[d].number = search[d].number
                    /\ S[d].queries = search[d].queries
                    /\ S[d].pendingResults = search[d].pendingResults
                    /\ (\E t \in R : t.of = Current(d)) =>
                         /\ S[d].complete <=>
                              search[d].queries = {} /\ \A t \in running \ R : t.of # Current(d)
                         /\ S[d].notified <=> search[d].at = "waiting"
                    /\ (\A t \in R : t.of # Current(d)) => S[d] = search[d]
  BY DEF Cancelled
<1>1. search[d] \in SearchTask
  BY DEF TypeOK
<1> DEFINE done == search[d].queries = {} /\ \A t \in running \ R : t.of # Current(d)
           m == [search[d] EXCEPT !.complete = done, !.notified = (search[d].at = "waiting")]
<1>2. Wake([search[d] EXCEPT !.complete = done]) = m
  <2> HIDE DEF done
  <2> QED  BY <1>1 DEF Wake, SearchTask
<1>3. AllResourceTasksCompleted(Current(d), R) <=> done
  BY DEF AllResourceTasksCompleted, Current
<1>4. done \in BOOLEAN /\ AllResourceTasksCompleted(Current(d), R) = done
  BY <1>3 DEF AllResourceTasksCompleted
<1>5. CASE \E t \in R : t.of = Current(d)
  <2>1. \E t \in R : t.of = Current(d) /\ Alive(t.of)
    BY <1>5 DEF RunningSound
  <2>2. S[d] = m
    <3> HIDE DEF done, m
    <3> QED  BY <1>2, <1>4, <2>1 DEF Cancelled
  <2>3. /\ m \in SearchTask /\ m.at = search[d].at /\ m.number = search[d].number
        /\ m.queries = search[d].queries /\ m.pendingResults = search[d].pendingResults
        /\ m.complete = done /\ m.notified = (search[d].at = "waiting")
    <3> HIDE DEF done
    <3> QED  BY <1>1, <1>4 DEF SearchTask
  <2> HIDE DEF m
  <2> QED  BY <1>5, <2>2, <2>3
<1>6. CASE \A t \in R : t.of # Current(d)
  <2>1. S[d] = search[d]
    BY <1>6 DEF Cancelled
  <2> QED  BY <1>1, <1>6, <2>1
<1> QED  BY <1>5, <1>6

\* Giving up what runs too long.
LEMMA ExpireKeeps ==
  ASSUME SearchInv, Expire
  PROVE  SearchInv'
<1> DEFINE late == {t \in running : t.old}
<1>1. TypeOK /\ RunningSound /\ late \in SUBSET running /\ running \subseteq ResourceTask
  BY DEF SearchInv, TypeOK
<1>2. /\ search' = Cancelled(late) /\ running' = running \ late
      /\ mishaps' = mishaps \cup (IF late = {} THEN {} ELSE {"expired"})
      /\ results = <<>> /\ results' = results /\ loop = "results" /\ loop' = "dispatch"
      /\ UNCHANGED <<shouldStop, tasklist, asked>>
  BY DEF Expire
<1> HIDE DEF late
<1>3. /\ search' \in [Clients -> SearchTask]
      /\ \A d \in Clients :
           /\ search'[d].at = search[d].at /\ search'[d].number = search[d].number
           /\ search'[d].queries = search[d].queries
           /\ search'[d].pendingResults = search[d].pendingResults
           /\ (\E t \in late : t.of = Current(d)) =>
                /\ search'[d].complete <=>
                     search[d].queries = {} /\ \A t \in running \ late : t.of # Current(d)
                /\ search'[d].notified <=> search[d].at = "waiting"
           /\ (\A t \in late : t.of # Current(d)) => search'[d] = search[d]
  BY <1>1, <1>2, CancelledTells
<1>4. \A d \in Clients : Current(d)' = Current(d)
  BY <1>3 DEF Current
<1>5. \A x \in Search : Alive(x)' <=> Alive(x)
  BY <1>3, <1>4 DEF Alive, Search
<1>6. /\ Elements(tasklist) \subseteq Search /\ \A t \in running : t.of \in Search
      /\ DOMAIN results = {}
  BY <1>1, <1>2, Listed DEF TypeOK, ResourceTask
<1>7. TypeOK'
  <2>1. loop' \in {"waiting", "results", "dispatch", "stopped"} /\ mishaps' \subseteq Mishap
    BY <1>1, <1>2 DEF TypeOK, Mishap
  <2> QED  BY <1>1, <1>2, <1>3, <2>1 DEF TypeOK, Expire
<1>8. ListSound'
  <2>1. ASSUME NEW x \in Elements(tasklist) PROVE Alive(x)' /\ ~search'[x.client].complete
    <3>1. /\ x \in Search /\ Alive(x) /\ ~search[x.client].complete
          /\ x.client \in Clients /\ x = Current(x.client)
      BY <1>6 DEF SearchInv, ListSound, Search, Alive
    <3>2. search[x.client].queries = {} => \A t \in late : t.of # x
      BY <1>1, <1>2 DEF SearchInv, EmptyUntouched
    <3> QED  BY <1>3, <1>5, <3>1, <3>2
  <2> QED  BY <1>2, <1>3, <1>4, <2>1 DEF SearchInv, ListSound
<1>9. RunningSound'
  <2>1. ASSUME NEW t \in running' PROVE Alive(t.of)' /\ ~search'[t.of.client].complete
    <3>1. /\ t \in running \ late /\ t.of \in Search /\ Alive(t.of)
          /\ ~search[t.of.client].complete
          /\ t.of.client \in Clients /\ t.of = Current(t.of.client)
      BY <1>2, <1>6 DEF SearchInv, RunningSound, Search, Alive
    <3> QED  BY <1>3, <1>5, <3>1
  <2> QED  BY <1>2, <2>1 DEF SearchInv, RunningSound
<1>10. EmptyUntouched'
  <2>1. \A x \in Elements(tasklist) : x.client \in Clients
    BY <1>6 DEF Search
  <2> QED  BY <1>2, <1>3, <2>1 DEF SearchInv, EmptyUntouched
<1>11. ResultsSound'
  BY <1>2, <1>6 DEF ResultsSound
<1>12. StopSound'
  BY <1>2 DEF SearchInv, StopSound
<1>13. NoSearchForgotten'
  <2> SUFFICES ASSUME mishaps \cap {"removed", "foreign", "stopped"} = {},
                      NEW d \in Clients, search[d].at # "idle"
               PROVE  \/ Current(d) \in Elements(tasklist)
                      \/ \E t \in running' : t.of = Current(d)
                      \/ \E r \in Elements(results) : r.of = Current(d)
                      \/ search'[d].complete /\ (search'[d].notified \/ search[d].at = "added")
    BY <1>2, <1>3, <1>4 DEF NoSearchForgotten
  <2>1. search[d].at \in {"added", "waiting"}
    BY <1>1 DEF TypeOK, SearchTask
  <2>2. CASE \E t \in late : t.of = Current(d)
    BY <1>2, <1>3, <2>1, <2>2 DEF SearchInv, ListSound
  <2>3. CASE \A t \in late : t.of # Current(d)
    BY <1>2, <1>3, <2>3 DEF SearchInv, NoSearchForgotten
  <2> QED  BY <2>2, <2>3
<1>14. AskedSound'
  BY <1>2 DEF SearchInv, AskedSound
<1>15. OwnResults'
  BY <1>2, <1>3, <1>4 DEF SearchInv, OwnResults
<1> QED  BY <1>7, <1>8, <1>9, <1>10, <1>11, <1>12, <1>13, <1>14, <1>15 DEF SearchInv

\* A shutdown leaves what is in the list to its client.
LEMMA LoopStopsKeeps ==
  ASSUME SearchInv, LoopStops
  PROVE  SearchInv'
<1> DEFINE rest == {t \in running : t.of \notin Elements(tasklist)}
<1>1. /\ TypeOK /\ RunningSound /\ rest \in SUBSET running
      /\ search \in [Clients -> SearchTask]
  BY DEF SearchInv, TypeOK
<1> DEFINE S == Cancelled(rest)
<1>2. /\ \A d \in Clients :
           /\ Current(d) \in Elements(tasklist) =>
                search'[d] = Wake([search[d] EXCEPT !.queries = {}])
           /\ Current(d) \notin Elements(tasklist) => search'[d] = S[d]
      /\ search' = [d \in Clients |-> search'[d]]
      /\ running' = {} /\ loop' = "stopped" /\ shouldStop
      /\ UNCHANGED <<shouldStop, tasklist, asked, mishaps, results>>
  <2> HIDE DEF S
  <2>1. search' = [d \in Clients |->
           IF \E x \in Elements(tasklist) : x = Current(d)
           THEN Wake([search[d] EXCEPT !.queries = {}])
           ELSE S[d]]
    BY DEF LoopStops, S
  <2>2. /\ running' = {} /\ loop' = "stopped" /\ shouldStop
        /\ UNCHANGED <<shouldStop, tasklist, asked, mishaps, results>>
    BY DEF LoopStops
  <2> QED  BY <2>1, <2>2
<1> HIDE DEF rest
<1>3. /\ S \in [Clients -> SearchTask]
      /\ \A d \in Clients :
           /\ S[d].at = search[d].at /\ S[d].number = search[d].number
           /\ S[d].queries = search[d].queries
           /\ S[d].pendingResults = search[d].pendingResults
  BY <1>1, CancelledTells
<1> HIDE DEF S
<1>4. ASSUME NEW d \in Clients, Current(d) \in Elements(tasklist)
      PROVE  /\ search'[d] \in SearchTask /\ search'[d].queries = {}
             /\ search'[d].at = search[d].at /\ search'[d].number = search[d].number
             /\ search'[d].pendingResults = search[d].pendingResults
             /\ search'[d].complete = search[d].complete
  <2>1. search[d] \in SearchTask
    BY <1>1
  <2>2. search'[d] = [search[d] EXCEPT !.queries = {}, !.notified = (search[d].at = "waiting")]
    BY <1>2, <1>4, <2>1 DEF Wake, SearchTask
  <2> QED  BY <2>1, <2>2 DEF SearchTask
<1>5. /\ search' \in [Clients -> SearchTask]
      /\ \A d \in Clients :
           /\ search'[d].at = search[d].at /\ search'[d].number = search[d].number
           /\ search'[d].pendingResults = search[d].pendingResults
           /\ search'[d].queries = {}
  BY <1>2, <1>3, <1>4 DEF SearchInv, ListSound
<1>6. \A d \in Clients : Current(d)' = Current(d)
  BY <1>5 DEF Current
<1>7. \A x \in Search : Alive(x)' <=> Alive(x)
  BY <1>5, <1>6 DEF Alive, Search
<1>8. /\ Elements(tasklist) \subseteq Search
      /\ \A i \in DOMAIN results : results[i].of \in Search
  BY <1>1, Listed DEF Result
<1>9. TypeOK'
  <2>1. loop' \in {"waiting", "results", "dispatch", "stopped"} /\ running' \subseteq ResourceTask
    BY <1>2
  <2> QED  BY <1>1, <1>2, <1>5, <2>1 DEF TypeOK, LoopStops
<1>10. ListSound'
  <2>1. ASSUME NEW x \in Elements(tasklist) PROVE Alive(x)' /\ ~search'[x.client].complete
    <3>1. /\ x \in Search /\ Alive(x) /\ ~search[x.client].complete
          /\ x.client \in Clients /\ x = Current(x.client)
      BY <1>8 DEF SearchInv, ListSound, Search, Alive
    <3> QED  BY <1>4, <1>7, <3>1
  <2> QED  BY <1>2, <1>5, <2>1 DEF SearchInv, ListSound
<1>11. RunningSound'
  BY <1>2 DEF RunningSound
<1>12. EmptyUntouched'
  BY <1>2 DEF EmptyUntouched
<1>13. ResultsSound'
  <2>1. \A i \in DOMAIN results : results[i].of.client \in Clients
    BY <1>8 DEF Search
  <2> QED  BY <1>2, <1>5, <2>1 DEF SearchInv, ResultsSound
<1>14. StopSound'
  BY <1>2 DEF SearchInv, StopSound
<1>15. NoSearchForgotten'
  BY <1>2 DEF SearchInv, StopSound, NoSearchForgotten
<1>16. AskedSound'
  BY <1>2 DEF SearchInv, AskedSound
<1>17. OwnResults'
  BY <1>2, <1>5, <1>6 DEF SearchInv, OwnResults
<1> QED  BY <1>9, <1>10, <1>11, <1>12, <1>13, <1>14, <1>15, <1>16, <1>17 DEF SearchInv

\* The head of the list is alive and no other element is of its client.
LEMMA HeadOfList ==
  ASSUME SearchInv, tasklist # <<>>
  PROVE  /\ Head(tasklist) \in Search /\ Head(tasklist).client \in Clients
         /\ Head(tasklist) = Current(Head(tasklist).client)
         /\ search[Head(tasklist).client].at # "idle"
         /\ ~search[Head(tasklist).client].complete
         /\ Head(tasklist) \in Elements(tasklist)
         /\ Tail(tasklist) \in Seq(Search) /\ Distinct(Tail(tasklist))
         /\ Elements(Tail(tasklist)) = Elements(tasklist) \ {Head(tasklist)}
         /\ \A x \in Elements(Tail(tasklist)) :
              x \in Search /\ x.client \in Clients /\ x.client # Head(tasklist).client
<1>1. TypeOK /\ tasklist \in Seq(Search) /\ Distinct(tasklist)
  BY DEF SearchInv, TypeOK, ListSound
<1> DEFINE h == Head(tasklist)
           l == Tail(tasklist)
<1>2. h \in Search /\ l \in Seq(Search) /\ Distinct(l) /\ Elements(l) = Elements(tasklist) \ {h}
  BY <1>1, TailDistinct
<1>3. h = tasklist[1] /\ 1 \in DOMAIN tasklist
  BY <1>1
<1>4. h \in Elements(tasklist)
  BY <1>3 DEF Elements
<1> HIDE DEF h, l
<1>5. Elements(tasklist) \subseteq Search
  BY <1>1, Listed
<1>6. \A x \in Elements(tasklist) :
        /\ x \in Search /\ x.client \in Clients /\ x = Current(x.client)
        /\ search[x.client].at # "idle" /\ ~search[x.client].complete
  BY <1>5 DEF SearchInv, ListSound, Alive, Search
<1>7. \A x \in Elements(l) : x.client # h.client
  BY <1>2, <1>4, <1>6
<1> QED  BY <1>2, <1>4, <1>6, <1>7 DEF h, l

\* A search that never had queries is complete.
LEMMA NothingToDoKeeps ==
  ASSUME SearchInv, NothingToDo
  PROVE  SearchInv'
<1> DEFINE h == Head(tasklist)
           c == h.client
<1>1. TypeOK /\ tasklist # <<>> /\ search \in [Clients -> SearchTask]
  BY DEF SearchInv, NothingToDo, TypeOK
<1>2. /\ loop = "dispatch" /\ loop' = "waiting" /\ search[c].queries = {}
      /\ tasklist' = Tail(tasklist)
      /\ search' = [search EXCEPT ![c] = Wake([search[c] EXCEPT !.complete = TRUE])]
      /\ mishaps' = mishaps \cup (IF Len(tasklist) > 1 THEN {"overtaken"} ELSE {})
      /\ UNCHANGED <<shouldStop, running, results, asked>>
  BY DEF NothingToDo
<1>3. /\ h \in Search /\ c \in Clients /\ h = Current(c) /\ search[c].at # "idle"
      /\ h \in Elements(tasklist)
      /\ tasklist' \in Seq(Search) /\ Distinct(tasklist')
      /\ Elements(tasklist') = Elements(tasklist) \ {h}
      /\ \A x \in Elements(tasklist') : x \in Search /\ x.client \in Clients /\ x.client # c
  BY <1>1, <1>2, HeadOfList
<1> HIDE DEF h, c
<1>4. /\ search'[c] \in SearchTask
      /\ search'[c].at = search[c].at /\ search'[c].number = search[c].number
      /\ search'[c].queries = {} /\ search'[c].complete
      /\ search'[c].notified <=> search[c].at = "waiting"
      /\ search'[c].pendingResults = search[c].pendingResults
  <2>1. search[c] \in SearchTask
    BY <1>1, <1>3
  <2>2. search'[c] = [search[c] EXCEPT !.complete = TRUE, !.notified = (search[c].at = "waiting")]
    BY <1>1, <1>2, <1>3, <2>1 DEF Wake, SearchTask
  <2>3. search'[c].notified = (search[c].at = "waiting")
    BY <2>1, <2>2 DEF SearchTask
  <2>4. search'[c].complete
    BY <2>1, <2>2 DEF SearchTask
  <2>5. search'[c].notified <=> search[c].at = "waiting"
    BY <2>3
  <2>6. /\ search'[c] \in SearchTask
        /\ search'[c].at = search[c].at /\ search'[c].number = search[c].number
        /\ search'[c].queries = search[c].queries
        /\ search'[c].pendingResults = search[c].pendingResults
    BY <2>1, <2>2 DEF SearchTask
  <2> QED  BY <1>2, <2>4, <2>5, <2>6
<1>5. /\ search' \in [Clients -> SearchTask]
      /\ \A d \in Clients : d # c => search'[d] = search[d]
      /\ \A d \in Clients :
           /\ search'[d].at = search[d].at /\ search'[d].number = search[d].number
           /\ search'[d].queries = search[d].queries
           /\ search'[d].pendingResults = search[d].pendingResults
  BY <1>1, <1>2, <1>3, <1>4
<1>6. \A d \in Clients : Current(d)' = Current(d)
  BY <1>5 DEF Current
<1>7. \A x \in Search : Alive(x)' <=> Alive(x)
  BY <1>5, <1>6 DEF Alive, Search
<1>8. /\ \A t \in running : t.of # h
      /\ \A i \in DOMAIN results : results[i].of # h
  BY <1>2, <1>3 DEF SearchInv, EmptyUntouched, c
<1>9. \A x \in Search : Alive(x) /\ x # h => x.client # c
  BY <1>3 DEF Alive, Search
<1>10. /\ Elements(tasklist) \subseteq Search /\ \A t \in running : t.of \in Search
       /\ \A i \in DOMAIN results : results[i].of \in Search
  BY <1>1, Listed DEF TypeOK, ResourceTask, Result
<1>11. \A x \in Search : x.client \in Clients
  BY DEF Search
<1>12. TypeOK'
  <2>1. mishaps' \subseteq Mishap
    BY <1>1, <1>2 DEF TypeOK, Mishap
  <2> QED  BY <1>1, <1>3, <1>5, <2>1 DEF TypeOK, NothingToDo
<1>13. ListSound'
  <2>1. \A x \in Elements(tasklist') : Alive(x)' /\ ~search'[x.client].complete
    BY <1>3, <1>5, <1>7 DEF SearchInv, ListSound
  <2>2. \A d \in Clients : search'[d].queries # {} => Current(d)' \in Elements(tasklist')
    BY <1>2, <1>3, <1>5, <1>6 DEF SearchInv, ListSound, Current
  <2> QED  BY <1>3, <2>1, <2>2 DEF ListSound
<1>14. RunningSound'
  <2>1. \A t \in running : Alive(t.of)' /\ ~search'[t.of.client].complete
    BY <1>5, <1>7, <1>8, <1>9, <1>10, <1>11 DEF SearchInv, RunningSound
  <2> QED  BY <1>2, <2>1 DEF SearchInv, RunningSound
<1>15. EmptyUntouched'
  BY <1>2, <1>3, <1>5 DEF SearchInv, EmptyUntouched
<1>16. ResultsSound'
  <2>1. \A i \in DOMAIN results : results[i].of.number <= search'[results[i].of.client].number
    BY <1>5, <1>10, <1>11 DEF SearchInv, ResultsSound
  <2>2. ASSUME NEW i \in DOMAIN results, Alive(results[i].of),
               ~search[results[i].of.client].complete
        PROVE  ~search'[results[i].of.client].complete
    BY <1>5, <1>8, <1>9, <1>10, <1>11, <2>2
  <2> QED  BY <1>2, <1>7, <1>10, <2>1, <2>2 DEF SearchInv, ResultsSound
<1>17. StopSound'
  BY <1>2 DEF SearchInv, StopSound
<1>18. NoSearchForgotten'
  <2> SUFFICES ASSUME mishaps \cap {"removed", "foreign", "stopped"} = {},
                      NEW d \in Clients, search[d].at # "idle"
               PROVE  \/ Current(d) \in Elements(tasklist')
                      \/ \E t \in running : t.of = Current(d)
                      \/ \E r \in Elements(results) : r.of = Current(d)
                      \/ search'[d].complete /\ (search'[d].notified \/ search[d].at = "added")
    <3>1. mishaps' \cap {"removed", "foreign", "stopped"}
            = mishaps \cap {"removed", "foreign", "stopped"}
      BY <1>2
    <3>2. results' = results /\ running' = running
      BY <1>2
    <3> QED  BY <1>5, <1>6, <3>1, <3>2 DEF NoSearchForgotten
  <2>1. search[d].at \in {"added", "waiting"}
    BY <1>1 DEF TypeOK, SearchTask
  <2>2. CASE d = c
    BY <1>4, <2>1, <2>2
  <2>3. CASE d # c
    <3>1. Current(d) # h
      BY <1>3, <2>3 DEF Current
    <3> QED  BY <1>3, <1>5, <2>3, <3>1 DEF SearchInv, NoSearchForgotten
  <2> QED  BY <2>2, <2>3
<1>19. AskedSound'
  BY <1>2 DEF SearchInv, AskedSound
<1>20. OwnResults'
  BY <1>2, <1>5, <1>6 DEF SearchInv, OwnResults
<1> QED  BY <1>12, <1>13, <1>14, <1>15, <1>16, <1>17, <1>18, <1>19, <1>20 DEF SearchInv

\* The first task sends one query to each idle resource: what runs stays one
\* query a resource, and no agent works on another than the one that runs.
LEMMA DispatchKeeps ==
  ASSUME SearchInv, SearchAssumption, Dispatch
  PROVE  SearchInv'
<1> DEFINE s == Head(tasklist)
           c == s.client
           queries == search[c].queries
           idle == Idle(queries)
           gone == idle \ instances
<1>1. /\ TypeOK /\ tasklist # <<>> /\ search \in [Clients -> SearchTask]
      /\ running \subseteq ResourceTask /\ asked \subseteq Query
  BY DEF SearchInv, Dispatch, TypeOK
<1>2. /\ loop = "dispatch" /\ loop' = "waiting" /\ timeout' = "minute"
      /\ mishaps' = mishaps \cup (IF gone = {} THEN {} ELSE {"unregistered"})
      /\ UNCHANGED <<woken, shouldStop, instances, results, faults>>
      /\ queries # {}
  BY DEF Dispatch
<1>3. PICK first \in [idle -> queries] :
        /\ \A r \in idle : Owner[first[r]] = r
        /\ running' = running \cup
             {[of |-> s, collection |-> first[r], old |-> FALSE] : r \in idle}
        /\ asked' =
             {IF Owner[q.collection] \in idle \ gone
              THEN [q EXCEPT !.ids = @ \cup {c}] ELSE q : q \in asked}
             \cup {Sent(s, first[r]) : r \in idle \ gone}
        /\ LET left == queries \ {first[r] : r \in idle \ gone} IN
             /\ search' = [search EXCEPT ![c].queries = left]
             /\ tasklist' = IF left = {} THEN Tail(tasklist) ELSE tasklist
  BY DEF Dispatch
<1> DEFINE left == queries \ {first[r] : r \in idle \ gone}
<1>4. /\ search' = [search EXCEPT ![c].queries = left]
      /\ tasklist' = IF left = {} THEN Tail(tasklist) ELSE tasklist
  BY <1>3
<1>5. /\ s \in Search /\ c \in Clients /\ s = Current(c) /\ search[c].at # "idle"
      /\ ~search[c].complete /\ s \in Elements(tasklist)
      /\ Tail(tasklist) \in Seq(Search) /\ Distinct(Tail(tasklist))
      /\ Elements(Tail(tasklist)) = Elements(tasklist) \ {s}
      /\ \A x \in Elements(Tail(tasklist)) : x \in Search /\ x.client \in Clients /\ x.client # c
  BY <1>1, HeadOfList
<1>6. queries \in SUBSET Collections
  BY <1>1, <1>5 DEF SearchTask
<1>7. \A r \in idle : \A t \in running : Owner[t.collection] # r
  BY DEF Idle, Running
<1>8. \A r \in idle : first[r] \in queries /\ first[r] \in Collections /\ Owner[first[r]] = r
  BY <1>3, <1>6
<1> DEFINE fresh == {[of |-> s, collection |-> first[r], old |-> FALSE] : r \in idle}
<1>9. running' = running \cup fresh
  BY <1>3
<1>10. /\ \A r \in idle : \E t \in fresh : t.of = s /\ t.collection = first[r]
       /\ \A t \in fresh : /\ t.of = s /\ t \in ResourceTask
                            /\ Owner[t.collection] \in idle
       /\ \A t, u \in fresh : Owner[t.collection] = Owner[u.collection] => t = u
  <2>1. ASSUME NEW r \in idle
        PROVE  LET t == [of |-> s, collection |-> first[r], old |-> FALSE]
               IN  /\ t.of = s /\ t.collection = first[r] /\ t \in ResourceTask
                   /\ Owner[t.collection] = r
    BY <1>5, <1>8 DEF ResourceTask
  <2> HIDE DEF s, idle
  <2>2. ASSUME NEW t \in fresh
        PROVE  \E r \in idle : t = [of |-> s, collection |-> first[r], old |-> FALSE]
    OBVIOUS
  <2>3. ASSUME NEW r \in idle
        PROVE  [of |-> s, collection |-> first[r], old |-> FALSE] \in fresh
    OBVIOUS
  <2> HIDE DEF fresh
  <2>4. \A t \in fresh : t.of = s /\ t \in ResourceTask /\ Owner[t.collection] \in idle
    BY <2>1, <2>2
  <2>5. ASSUME NEW t \in fresh, NEW u \in fresh, Owner[t.collection] = Owner[u.collection]
        PROVE  t = u
    <3>1. PICK r \in idle : t = [of |-> s, collection |-> first[r], old |-> FALSE]
      BY <2>2
    <3>2. PICK v \in idle : u = [of |-> s, collection |-> first[v], old |-> FALSE]
      BY <2>2
    <3>3. r = v
      BY <2>1, <2>5, <3>1, <3>2
    <3> QED  BY <3>1, <3>2, <3>3
  <2> QED  BY <2>1, <2>3, <2>4, <2>5
<1> HIDE DEF fresh, left, gone, idle, queries, s, c
<1>11. search[c] \in SearchTask /\ left \subseteq queries /\ queries = search[c].queries
  BY <1>1, <1>5 DEF left, queries
<1>12. /\ search'[c] = [search[c] EXCEPT !.queries = left]
       /\ \A d \in Clients : d # c => search'[d] = search[d]
  BY <1>1, <1>4, <1>5
<1>13. /\ search'[c] \in SearchTask /\ search'[c].queries = left
       /\ search'[c].at = search[c].at /\ search'[c].number = search[c].number
       /\ search'[c].complete = search[c].complete
       /\ search'[c].notified = search[c].notified
       /\ search'[c].pendingResults = search[c].pendingResults
  BY <1>6, <1>11, <1>12 DEF SearchTask
<1>14. /\ search' \in [Clients -> SearchTask]
       /\ \A d \in Clients :
           /\ search'[d].at = search[d].at /\ search'[d].number = search[d].number
           /\ search'[d].complete = search[d].complete
           /\ search'[d].notified = search[d].notified
           /\ search'[d].pendingResults = search[d].pendingResults
  <2>1. search' \in [Clients -> SearchTask]
    BY <1>1, <1>4, <1>5, <1>13
  <2> QED  BY <1>12, <1>13, <2>1
<1>15. \A d \in Clients : Current(d)' = Current(d)
  BY <1>14 DEF Current
<1>16. \A x \in Search : Alive(x)' <=> Alive(x)
  BY <1>14, <1>15 DEF Alive, Search
<1>17. /\ Elements(tasklist) \subseteq Search /\ \A t \in running : t.of \in Search
       /\ \A i \in DOMAIN results : results[i].of \in Search
       /\ \A x \in Search : x.client \in Clients
  BY <1>1, Listed DEF TypeOK, ResourceTask, Result, Search
<1>18. /\ tasklist' \in Seq(Search) /\ Distinct(tasklist')
       /\ left = {} => Elements(tasklist') = Elements(tasklist) \ {s}
       /\ left # {} => Elements(tasklist') = Elements(tasklist)
  BY <1>1, <1>4, <1>5 DEF TypeOK, SearchInv, ListSound
<1>19. ASSUME "expired" \notin mishaps
       PROVE  /\ \A q \in asked : q.ids = {q.of.client} /\
                   \E t \in running : t.of = q.of /\ t.collection = q.collection
              /\ \A q \in asked' : q \in asked \/ \E r \in idle : q = Sent(s, first[r])
  <2>1. \A q \in asked : q.ids = {q.of.client} /\
          \E t \in running : t.of = q.of /\ t.collection = q.collection
    BY <1>2, <1>19 DEF SearchInv, AskedSound
  <2>2. \A q \in asked : Owner[q.collection] \notin idle
    BY <1>7, <2>1
  <2> QED  BY <1>3, <2>1, <2>2
<1>20. TypeOK'
  <2>1. running' \subseteq ResourceTask /\ mishaps' \subseteq Mishap
    BY <1>1, <1>2, <1>9, <1>10 DEF TypeOK, Mishap
  <2>2. \A q \in asked : [q EXCEPT !.ids = @ \cup {c}] \in Query
    BY <1>1, <1>5 DEF Query
  <2>3. \A r \in idle : Sent(s, first[r]) \in Query
    BY <1>5, <1>8, <1>17 DEF Query, Sent
  <2>4. asked' \subseteq Query
    BY <1>1, <1>3, <2>2, <2>3
  <2> QED  BY <1>1, <1>2, <1>14, <1>18, <2>1, <2>4 DEF TypeOK
<1>21. ListSound'
  <2>1. \A x \in Elements(tasklist') : Alive(x)' /\ ~search'[x.client].complete
    BY <1>14, <1>16, <1>17, <1>18 DEF SearchInv, ListSound
  <2>2. ASSUME NEW d \in Clients, search'[d].queries # {} PROVE Current(d) \in Elements(tasklist')
    <3>1. CASE d = c
      BY <1>5, <1>13, <1>18, <2>2, <3>1
    <3>2. CASE d # c
      <4>1. Current(d) # s
        BY <1>5, <3>2 DEF Current
      <4>2. Current(d) \in Elements(tasklist)
        BY <1>12, <2>2, <3>2 DEF SearchInv, ListSound
      <4> QED  BY <1>18, <4>1, <4>2
    <3> QED  BY <3>1, <3>2
  <2> QED  BY <1>15, <1>18, <2>1, <2>2 DEF ListSound
<1>22. RunningSound'
  <2>1. \A t \in running : Alive(t.of)' /\ ~search'[t.of.client].complete
    BY <1>14, <1>16, <1>17 DEF SearchInv, RunningSound
  <2>2. \A t \in fresh : Alive(t.of)' /\ ~search'[t.of.client].complete
    <3>1. PICK x : x = s
      OBVIOUS
    <3>2. Alive(x)
      BY <1>5, <3>1 DEF Alive, c
    <3>3. Alive(x)' /\ ~search'[x.client].complete
      BY <1>5, <1>14, <1>16, <3>1, <3>2 DEF c
    <3> QED  BY <1>10, <3>1, <3>3
  <2>3. \A t, u \in running : Owner[t.collection] = Owner[u.collection] => t = u
    BY DEF SearchInv, RunningSound
  <2>4. \A t, u \in running' : Owner[t.collection] = Owner[u.collection] => t = u
    BY <1>7, <1>9, <1>10, <2>3
  <2> QED  BY <1>9, <2>1, <2>2, <2>4 DEF RunningSound
<1>23. EmptyUntouched'
  <2> SUFFICES ASSUME NEW x \in Elements(tasklist'), search'[x.client].queries = {}
               PROVE  /\ \A t \in running' : t.of # x
                      /\ \A i \in DOMAIN results : results[i].of # x
    BY <1>2 DEF EmptyUntouched
  <2>1. x \in Elements(tasklist) /\ x # s
    BY <1>5, <1>13, <1>18 DEF c
  <2>2. x.client # c /\ x.client \in Clients
    BY <1>5, <2>1
  <2>3. search[x.client].queries = {}
    BY <1>12, <2>2
  <2> QED  BY <1>2, <1>9, <1>10, <2>1, <2>3 DEF SearchInv, EmptyUntouched
<1>24. ResultsSound'
  <2>1. "together" \in mishaps => "together" \in mishaps'
    BY <1>2
  <2>2. \A i \in DOMAIN results : results[i].of.number <= search'[results[i].of.client].number
    BY <1>14, <1>17 DEF SearchInv, ResultsSound
  <2> QED  BY <1>2, <1>14, <1>16, <1>17, <2>1, <2>2 DEF SearchInv, ResultsSound
<1>25. StopSound'
  BY <1>2 DEF SearchInv, StopSound
<1>26. NoSearchForgotten'
  <2> SUFFICES ASSUME mishaps \cap {"removed", "foreign", "stopped"} = {},
                      NEW d \in Clients, search[d].at # "idle"
               PROVE  \/ Current(d) \in Elements(tasklist')
                      \/ \E t \in running' : t.of = Current(d)
                      \/ \E r \in Elements(results) : r.of = Current(d)
                      \/ search[d].complete /\ (search[d].notified \/ search[d].at = "added")
    <3>1. mishaps' \cap {"removed", "foreign", "stopped"}
            = mishaps \cap {"removed", "foreign", "stopped"}
      BY <1>2
    <3> QED  BY <1>2, <1>14, <1>15, <3>1 DEF NoSearchForgotten
  <2>1. CASE d = c /\ left = {}
    <3>1. \E r \in idle : TRUE
      BY <1>2, <2>1 DEF left
    <3> QED  BY <1>5, <1>9, <1>10, <2>1, <3>1
  <2>2. CASE d = c /\ left # {}
    BY <1>5, <1>18, <2>2
  <2>3. CASE d # c
    <3>1. Current(d) # s
      BY <1>5, <2>3 DEF Current
    <3> QED  BY <1>9, <1>18, <3>1 DEF SearchInv, NoSearchForgotten
  <2> QED  BY <2>1, <2>2, <2>3
<1>27. AskedSound'
  <2> SUFFICES ASSUME "expired" \notin mishaps
               PROVE  /\ \A q \in asked' : q.ids = {q.of.client} /\
                           \E t \in running' : t.of = q.of /\ t.collection = q.collection
                      /\ \A i \in DOMAIN results : results[i].found \subseteq {results[i].of}
    BY <1>2 DEF AskedSound
  <2>1. \A r \in idle :
          /\ Sent(s, first[r]).ids = {c} /\ Sent(s, first[r]).of = s
          /\ Sent(s, first[r]).collection = first[r]
    BY DEF Sent, c
  <2>2. \A i \in DOMAIN results : results[i].found \subseteq {results[i].of}
    BY DEF SearchInv, AskedSound
  <2>3. ASSUME NEW q \in asked'
        PROVE  q.ids = {q.of.client} /\
               \E t \in running' : t.of = q.of /\ t.collection = q.collection
    <3>1. CASE q \in asked
      BY <1>9, <1>19, <3>1
    <3>2. ASSUME NEW r \in idle, q = Sent(s, first[r])
          PROVE  q.ids = {q.of.client} /\
                 \E t \in running' : t.of = q.of /\ t.collection = q.collection
      BY <1>9, <1>10, <2>1, <3>2 DEF c
    <3> QED  BY <1>19, <3>1, <3>2
  <2> QED  BY <2>2, <2>3
<1>28. OwnResults'
  BY <1>2, <1>14, <1>15 DEF SearchInv, OwnResults
<1> QED  BY <1>20, <1>21, <1>22, <1>23, <1>24, <1>25, <1>26, <1>27, <1>28 DEF SearchInv

-----------------------------------------------------------------------------
(* Answers *)

\* An answer takes what runs at its resource away; when it is kept it becomes a
\* result of what ran.
LEMMA AnswerKeeps ==
  ASSUME SearchInv, NEW q \in asked, NEW id, NEW found \in SUBSET Search,
         found = {} \/ found = {q.of},
         PushResults(Owner[q.collection], id, found),
         asked' = asked \ {q}, faults' \in 0..MaxFaults,
         UNCHANGED <<search, loop, timeout, shouldStop, instances, tasklist>>
  PROVE  SearchInv'
<1> DEFINE r == Owner[q.collection]
<1>1. /\ TypeOK /\ running \subseteq ResourceTask /\ asked \subseteq Query
      /\ results \in Seq(Result)
      /\ \A t, u \in running : Owner[t.collection] = Owner[u.collection] => t = u
  BY DEF SearchInv, TypeOK, RunningSound
<1>2. CASE Running(r) = {}
  <2>1. /\ running' = running /\ results' = results /\ mishaps' = mishaps
        /\ woken' = woken
    BY <1>2 DEF PushResults
  <2>2. OnlyAged
    BY <2>1, RunsOn
  <2>3. TypeOK'
    BY <1>1, <2>1 DEF TypeOK
  <2> QED  BY <2>1, <2>2, <2>3, Undisturbed
<1>3. ASSUME NEW t \in Running(r)
      PROVE  /\ t \in running /\ Owner[t.collection] = r /\ t.of \in Search
             /\ running' = running \ {t}
             /\ \A u \in running : u = t \/ u \in running'
             /\ loop = "waiting"
             /\ "expired" \notin mishaps =>
                  /\ \A p \in asked' : p.ids = {p.of.client} /\
                       \E u \in running' : u.of = p.of /\ u.collection = p.collection
                  /\ q.of = t.of
  <2>1. t \in running /\ Owner[t.collection] = r /\ t.of \in Search
    BY <1>1 DEF Running, ResourceTask
  <2>2. running' = running \ {t}
    BY <1>1, <2>1 DEF PushResults, Running
  <2>3. loop = "waiting"
    BY <2>1 DEF PushResults, SearchInv, StopSound
  <2>4. ASSUME "expired" \notin mishaps
        PROVE  /\ \A p \in asked' : p.ids = {p.of.client} /\
                    \E u \in running' : u.of = p.of /\ u.collection = p.collection
               /\ q.of = t.of
    <3>1. \A p \in asked : p.ids = {p.of.client} /\
            \E u \in running : u.of = p.of /\ u.collection = p.collection
      BY <2>3, <2>4 DEF SearchInv, AskedSound
    <3>2. q.of = t.of /\ q.collection = t.collection
      <4>1. PICK u \in running : u.of = q.of /\ u.collection = q.collection
        BY <3>1
      <4>2. u = t
        BY <1>1, <2>1, <4>1
      <4> QED  BY <4>1, <4>2
    <3>3. ASSUME NEW p \in asked' PROVE \E u \in running' : u.of = p.of /\ u.collection = p.collection
      <4>1. PICK u \in running : u.of = p.of /\ u.collection = p.collection
        BY <3>1
      <4>2. ASSUME u = t PROVE FALSE
        <5>1. p \in Query /\ q \in Query /\ p # q /\ p.ids = {p.of.client} /\ q.ids = {q.of.client}
          BY <1>1, <3>1
        <5>2. p.of = q.of /\ p.collection = q.collection /\ p.ids = q.ids
          BY <3>2, <4>1, <4>2, <5>1
        <5> QED  BY <5>1, <5>2 DEF Query
      <4> QED  BY <2>2, <4>1, <4>2
    <3> QED  BY <3>1, <3>2, <3>3
  <2> QED  BY <2>1, <2>2, <2>3, <2>4
<1>4. ASSUME NEW t \in Running(r), mishaps' = mishaps \cup {"foreign"},
             woken' = woken, results' = results
      PROVE  SearchInv'
  <2>1. running' \subseteq running
    BY <1>3
  <2>2. \A c \in Clients : Current(c)' = Current(c)
    BY DEF Current
  <2>3. \A x : Alive(x)' <=> Alive(x)
    BY DEF Alive, Current
  <2>4. mishaps' \subseteq Mishap
    BY <1>1, <1>4 DEF TypeOK, Mishap
  <2>5. TypeOK'
    BY <1>1, <1>4, <2>1, <2>4 DEF TypeOK
  <2>6. ListSound'
    BY <2>2, <2>3 DEF SearchInv, ListSound
  <2>7. RunningSound'
    BY <2>1, <2>3 DEF SearchInv, RunningSound
  <2>8. EmptyUntouched'
    BY <1>4, <2>1 DEF SearchInv, EmptyUntouched
  <2>9. ResultsSound'
    BY <1>4, <2>3 DEF SearchInv, ResultsSound
  <2>10. StopSound'
    BY <1>3, <1>4 DEF SearchInv, StopSound
  <2>11. NoSearchForgotten'
    BY <1>4 DEF NoSearchForgotten
  <2>12. AskedSound'
    BY <1>3, <1>4 DEF SearchInv, AskedSound
  <2>13. OwnResults'
    BY <1>4, <2>2 DEF SearchInv, OwnResults
  <2> QED  BY <2>5, <2>6, <2>7, <2>8, <2>9, <2>10, <2>11, <2>12, <2>13 DEF SearchInv
<1>5. ASSUME NEW t \in Running(r),
             results' = Append(results, [of |-> t.of, found |-> found]),
             woken' = (loop = "waiting"),
             mishaps' = mishaps \cup
               (IF \E i \in DOMAIN results : results[i].of = t.of THEN {"together"} ELSE {})
      PROVE  SearchInv'
  <2> DEFINE n == [of |-> t.of, found |-> found]
  <2>1. n \in Result /\ n.of = t.of /\ n.found = found
    BY <1>3 DEF Result
  <2>2. /\ Len(results) \in Nat /\ DOMAIN results = 1..Len(results)
        /\ results' \in Seq(Result) /\ DOMAIN results' = 1..(Len(results) + 1)
        /\ \A i \in 1..Len(results) : results'[i] = results[i]
        /\ results'[Len(results) + 1] = n
        /\ Elements(results') = Elements(results) \cup {n}
    <3>1. Elements(results') = Elements(results) \cup {n}
      BY <1>1, <1>5, <2>1, AppendElements
    <3> HIDE DEF n
    <3>2. results' = Append(results, n)
      BY <1>5 DEF n
    <3> QED  BY <1>1, <2>1, <3>1, <3>2
  <2> HIDE DEF n
  <2>3. \A i \in DOMAIN results' : i = Len(results) + 1 \/ i \in DOMAIN results
    BY <2>2
  <2>4. \A c \in Clients : Current(c)' = Current(c)
    BY DEF Current
  <2>5. \A x : Alive(x)' <=> Alive(x)
    BY DEF Alive, Current
  <2>6. Alive(t.of) /\ ~search[t.of.client].complete /\ t.of.client \in Clients
    BY <1>3 DEF SearchInv, RunningSound, Search
  <2>7. TypeOK'
    <3>1. mishaps' \subseteq Mishap /\ woken' \in BOOLEAN /\ running' \subseteq ResourceTask
      BY <1>1, <1>3, <1>5 DEF TypeOK, Mishap
    <3> QED  BY <1>1, <2>2, <3>1 DEF TypeOK
  <2>8. ListSound'
    BY <2>4, <2>5 DEF SearchInv, ListSound
  <2>9. RunningSound'
    BY <1>3, <2>5 DEF SearchInv, RunningSound
  <2>10. EmptyUntouched'
    BY <1>3, <2>1, <2>2, <2>3 DEF SearchInv, EmptyUntouched
  <2>11. ResultsSound'
    <3>1. t.of.number <= search[t.of.client].number
      <4>1. t.of.number = search[t.of.client].number
        BY <2>6 DEF Alive, Current
      <4>2. t.of.number \in Nat
        BY <1>3 DEF Search
      <4> QED  BY <4>1, <4>2
    <3>2. \A i \in DOMAIN results' : results'[i].of.number <= search'[results'[i].of.client].number
      BY <2>1, <2>2, <2>3, <3>1 DEF SearchInv, ResultsSound
    <3>3. CASE "together" \in mishaps'
      BY <3>2, <3>3 DEF ResultsSound
    <3>4. CASE "together" \notin mishaps'
      <4>1. /\ \A i \in DOMAIN results :
                 Alive(results[i].of) /\ ~search[results[i].of.client].complete
            /\ \A i, j \in DOMAIN results : results[i].of = results[j].of => i = j
            /\ \A i \in DOMAIN results : results[i].of # t.of
        BY <1>3, <1>5, <3>4 DEF SearchInv, ResultsSound
      <4>2. ASSUME NEW i \in DOMAIN results'
            PROVE  Alive(results[i].of)' /\ ~search'[results'[i].of.client].complete
        <5>1. PICK x : x = results'[i].of
          OBVIOUS
        <5>2. Alive(x) /\ ~search[x.client].complete
          BY <2>1, <2>2, <2>3, <2>6, <4>1, <5>1
        <5> QED  BY <2>5, <5>1, <5>2
      <4>3. \A i, j \in DOMAIN results' : results'[i].of = results'[j].of => i = j
        BY <2>1, <2>2, <2>3, <4>1
      <4> QED  BY <3>2, <4>2, <4>3 DEF ResultsSound
    <3> QED  BY <3>3, <3>4
  <2>12. StopSound'
    BY <1>3, <1>5 DEF SearchInv, StopSound
  <2>13. NoSearchForgotten'
    <3> SUFFICES ASSUME mishaps \cap {"removed", "foreign", "stopped"} = {},
                        NEW d \in Clients, search[d].at # "idle"
                 PROVE  \/ Current(d) \in Elements(tasklist)
                        \/ \E u \in running' : u.of = Current(d)
                        \/ \E x \in Elements(results') : x.of = Current(d)
                        \/ search[d].complete /\ (search[d].notified \/ search[d].at = "added")
      <4>1. mishaps' \cap {"removed", "foreign", "stopped"}
              = mishaps \cap {"removed", "foreign", "stopped"}
        BY <1>5
      <4> QED  BY <2>4, <4>1 DEF NoSearchForgotten
    <3>1. \A u \in running : u.of = Current(d) =>
            \/ \E v \in running' : v.of = Current(d)
            \/ \E x \in Elements(results') : x.of = Current(d)
      BY <1>3, <2>1, <2>2
    <3> QED  BY <2>2, <3>1 DEF SearchInv, NoSearchForgotten
  <2>14. AskedSound'
    <3> SUFFICES ASSUME "expired" \notin mishaps
                 PROVE  /\ \A p \in asked' : p.ids = {p.of.client} /\
                             \E u \in running' : u.of = p.of /\ u.collection = p.collection
                        /\ \A i \in DOMAIN results' : results'[i].found \subseteq {results'[i].of}
      BY <1>5 DEF AskedSound
    <3>1. \A i \in DOMAIN results : results[i].found \subseteq {results[i].of}
      BY DEF SearchInv, AskedSound
    <3>2. n.found \subseteq {n.of}
      BY <1>3, <2>1
    <3>3. \A i \in DOMAIN results' : results'[i].found \subseteq {results'[i].of}
      BY <2>2, <2>3, <3>1, <3>2
    <3> QED  BY <1>3, <3>3
  <2>15. OwnResults'
    BY <1>5, <2>4 DEF SearchInv, OwnResults
  <2> QED  BY <2>7, <2>8, <2>9, <2>10, <2>11, <2>12, <2>13, <2>14, <2>15 DEF SearchInv
<1>6. \/ Running(r) = {}
      \/ \E t \in Running(r) :
           \/ /\ mishaps' = mishaps \cup {"foreign"}
              /\ woken' = woken /\ results' = results
           \/ /\ results' = Append(results, [of |-> t.of, found |-> found])
              /\ woken' = (loop = "waiting")
              /\ mishaps' = mishaps \cup
                   (IF \E i \in DOMAIN results : results[i].of = t.of
                    THEN {"together"} ELSE {})
  BY DEF PushResults
<1> QED  BY <1>2, <1>4, <1>5, <1>6

LEMMA AnswersKeep ==
  ASSUME SearchInv, SearchAssumption, NEW q \in asked,
         SearchFinished(q) \/ CollectionNotReceived(q)
  PROVE  SearchInv'
<1>1. TypeOK /\ q.of \in Search /\ faults \in 0..MaxFaults
  BY DEF SearchInv, TypeOK, Query
<1>2. CASE SearchFinished(q)
  <2>1. PICK id \in q.ids : PushResults(Owner[q.collection], id, {q.of})
    BY <1>2 DEF SearchFinished
  <2>2. {q.of} \in SUBSET Search
    BY <1>1
  <2> QED  BY <1>1, <1>2, <2>1, <2>2, AnswerKeeps DEF SearchFinished
<1>3. CASE CollectionNotReceived(q)
  <2>1. {} \in SUBSET Search
    OBVIOUS
  <2>2. faults' \in 0..MaxFaults
    BY <1>1, <1>3, SearchAssumption DEF CollectionNotReceived, Fault, SearchAssumption
  <2> QED  BY <1>3, <2>1, <2>2, AnswerKeeps DEF CollectionNotReceived
<1> QED  BY <1>2, <1>3

-----------------------------------------------------------------------------
(* The theorems *)

LEMMA SearchInvInitially ==
  ASSUME Init, SearchAssumption
  PROVE  SearchInv
<1>1. TypeOK
  <2>1. search \in [Clients -> SearchTask]
    BY DEF Init, SearchTask
  <2>2. tasklist \in Seq(Search) /\ results \in Seq(Result)
    BY DEF Init
  <2>3. faults \in 0..MaxFaults
    BY SearchAssumption DEF Init, SearchAssumption
  <2> QED  BY <2>1, <2>2, <2>3 DEF Init, TypeOK
<1>2. tasklist = <<>> /\ results = <<>> /\ DOMAIN tasklist = {} /\ DOMAIN results = {}
  BY DEF Init
<1>3. Elements(tasklist) = {} /\ running = {} /\ asked = {}
  BY <1>2 DEF Elements, Init
<1>4. \A c \in Clients : /\ search[c].at = "idle" /\ search[c].queries = {}
                         /\ search[c].pendingResults = {}
  BY DEF Init
<1>5. ListSound
  BY <1>2, <1>3, <1>4 DEF ListSound, Distinct
<1>6. RunningSound /\ EmptyUntouched /\ ResultsSound /\ AskedSound
  BY <1>2, <1>3 DEF RunningSound, EmptyUntouched, ResultsSound, AskedSound
<1>7. StopSound
  BY DEF Init, StopSound
<1>8. NoSearchForgotten /\ OwnResults
  BY <1>4 DEF NoSearchForgotten, OwnResults
<1> QED  BY <1>1, <1>5, <1>6, <1>7, <1>8 DEF SearchInv

LEMMA SearchInvHolds ==
  Spec => []SearchInv
<1>1. Init => SearchInv
  BY SearchInvInitially, SearchAssumption
<1>2. SearchInv /\ [Next]_vars => SearchInv'
  <2> SUFFICES ASSUME SearchInv, [Next]_vars PROVE SearchInv'
    OBVIOUS
  <2> USE SearchAssumption
  <2>1. ASSUME NEW c \in Clients, NEW queries \in SUBSET Collections, AddTask(c, queries)
        PROVE  SearchInv'
    BY <2>1, AddTaskKeeps
  <2>2. ASSUME NEW c \in Clients, AddTaskOfNothing(c) PROVE SearchInv'
    BY <2>2, AddTaskOfNothingKeeps
  <2>3. ASSUME NEW c \in Clients, Exec(c) PROVE SearchInv'
    <3>1. search[c].at # "idle" /\ ReturnOrWait(c)
      BY <2>3 DEF Exec, FirstCheck, Notified
    <3>2. UNCHANGED <<loop, woken, timeout, shouldStop, instances, tasklist,
                      running, results, asked, faults, mishaps>>
      BY <2>3 DEF Exec, FirstCheck, Notified
    <3> QED  BY <3>1, <3>2, ReturnOrWaitKeeps
  <2>4. CASE SearchLoop
    BY <2>4, StepAside, PassResultKeeps, ExpireKeeps, NothingToDoKeeps, DispatchKeeps,
       LoopStopsKeeps DEF SearchLoop
  <2>5. CASE Minute \/ Stop
    BY <2>5, StepAside
  <2>6. CASE Agents
    BY <2>6, StepAside, AnswersKeep DEF Agents
  <2>7. CASE UNCHANGED vars
    <3>1. TypeOK /\ running' = running
      BY <2>7 DEF SearchInv, vars
    <3>2. OnlyAged
      BY <3>1, RunsOn
    <3>3. TypeOK'
      BY <2>7, <3>1 DEF TypeOK, vars
    <3> QED  BY <2>7, <3>2, <3>3, Undisturbed DEF vars
  <2> QED  BY <2>1, <2>2, <2>3, <2>4, <2>5, <2>6, <2>7 DEF Next
<1> QED  BY <1>1, <1>2, PTL DEF Spec

\* Every variable of the manager, of its clients and of the agents keeps its type.
THEOREM SearchTypes == Spec => []TypeOK
BY SearchInvHolds, PTL DEF SearchInv

\* mTasklist, mRunningTasks and mPendingResults never lead to a SearchTask whose
\* exec() has returned, as long as no two results of one search wait together; a
\* loop that has stopped reads its results no more.
THEOREM NothingDangles == Spec => []ReferencesAlive
<1>1. SearchInv => ReferencesAlive
  <2> SUFFICES ASSUME SearchInv PROVE ReferencesAlive
    OBVIOUS
  <2>1. \A r \in Elements(results) : \E i \in DOMAIN results : r = results[i]
    BY DEF Elements
  <2> QED  BY <2>1 DEF SearchInv, ListSound, RunningSound, ResultsSound, ReferencesAlive
<1> QED  BY <1>1, SearchInvHolds, PTL

\* Whoever waits in SearchRequest::exec() is known to searchLoop() or has been
\* told, unless its collections are gone, an answer with a foreign id came or the
\* server shuts down.
THEOREM SearchKnown == Spec => []NoSearchForgotten
BY SearchInvHolds, PTL DEF SearchInv

\* Until the manager has given a query up, a client gets the results of its
\* current search only.
THEOREM NothingForeign == Spec => []OwnResults
BY SearchInvHolds, PTL DEF SearchInv
=============================================================================
